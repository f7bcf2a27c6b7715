---------------------------- MODULE MessageText ----------------------------
(***************************************************************************)
(* The text of a message on the wire and back: MimeFactory::render_message *)
(* (core/src/mimefactory.rs) puts the forward hint, the quote, the text    *)
(* and the footer into one text part, and simplify (core/src/simplify.rs)  *)
(* takes them apart again at the receiver; the same function shortens the  *)
(* mails of other programs.                                                *)
(*                                                                         *)
(* A line is [q |-> how many ">" it starts with, t |-> its class]; classes *)
(* tell apart what the code looks at: "-- " and "--" alone, "-- x" a line  *)
(* that begins with "-- ", "-z- " and "-z- x" the same with the zero width *)
(* space, "rule" for "---", "____" and the like, "wrote:" a headline.      *)
(***************************************************************************)
EXTENDS Integers, Sequences, SequencesExt, FiniteSets

CONSTANTS
    TextTokens,    \* the classes of the lines a message is made of
    MaxTextLines   \* bound: lines of a message

ASSUME MessageTextAssumption == MaxTextLines \in Nat

Tokens == {"word", "", "-- ", "--", "-- x", "rule", "wrote:", "Forwarded", "From: x",
           "-z- ", "-z- x", "..."}

Line(t) == [q |-> 0, t |-> t]

NoText == << >>

VARIABLES
    sending,   \* the message: [chat, text, quote, protect, footer, fwd, sealed]
    body,      \* the lines of the text part
    shown,     \* what simplify made of them
    textAt     \* "written", "rendered" or "read"

textVars == <<sending, body, shown, textAt>>

-----------------------------------------------------------------------------
(* Writing                                                                 *)

\* escape_message_footer_marks: every line that begins with "-- ".
EscapeMessageFooterMarks(lines) ==
    [i \in DOMAIN lines |->
        IF lines[i] = Line("-- ") THEN Line("-z- ")
        ELSE IF lines[i] = Line("-- x") THEN Line("-z- x") ELSE lines[i]]

Quoted(lines) == [i \in DOMAIN lines |-> [lines[i] EXCEPT !.q = @ + 1]]

\* render_message: the quote, hidden in an unencrypted mail when it is of an
\* encrypted one; without a quote, an empty line before a text that starts with ">".
QuoteLines(msg) ==
    IF ~msg.sealed /\ msg.protect THEN <<[q |-> 1, t |-> "..."], Line("")>>
    ELSE IF msg.quote # NoText THEN Append(Quoted(msg.quote), Line(""))
    ELSE IF msg.text # NoText /\ msg.text[1].q > 0 THEN <<Line("")>>
    ELSE NoText

\* render_message: forward hint, quote, escaped text and footer.
RenderText(msg) ==
    LET hint   == IF msg.fwd THEN <<Line("Forwarded"), Line("From: x"), Line("")>> ELSE NoText
        gap    == IF msg.text # NoText /\ msg.footer # NoText THEN <<Line("")>> ELSE NoText
        mark   == IF msg.footer # NoText THEN <<Line("-- ")>> ELSE NoText
    IN  hint \o QuoteLines(msg) \o EscapeMessageFooterMarks(msg.text) \o gap \o mark \o msg.footer

-----------------------------------------------------------------------------
(* Reading: simplify.rs                                                    *)

IsEmptyLine(l) == l.q = 0 /\ l.t = ""

IsQuotedHeadline(l) == l.t = "wrote:"

IsPlainQuote(l) == l.q > 0

Take(lines, n) == SubSeq(lines, 1, n)

Drop(lines, n) == SubSeq(lines, n + 1, Len(lines))

LeastOf(S) == CHOOSE x \in S : \A y \in S : x <= y

GreatestOf(S) == CHOOSE x \in S : \A y \in S : x >= y

Unescaped(l) == IF l = Line("-z- ") THEN Line("-- ")
                ELSE IF l = Line("-z- x") THEN Line("-- x") ELSE l

\* render_message: at most one empty line between others, none at the ends, and
\* unescape_message_footer_marks.
RenderLines(lines) ==
    LET kept(i) == \/ ~IsEmptyLine(lines[i])
                   \/ /\ i > 1 /\ ~IsEmptyLine(lines[i - 1])
                      /\ \E j \in i..Len(lines) : ~IsEmptyLine(lines[j])
        idx     == SelectSeq([i \in DOMAIN lines |-> i], kept)
    IN  [k \in DOMAIN idx |-> Unescaped(lines[idx[k]])]

\* remove_message_footer: where the footer begins, 0 without one.  The first "-- ",
\* or the last "--" after an empty and before a non-empty line.
RemoveMessageFooter(lines) ==
    LET standard == {i \in DOMAIN lines : lines[i] = Line("-- ")}
        nearly   == {i \in DOMAIN lines :
                        /\ lines[i] = Line("--")
                        /\ i = 1 \/ IsEmptyLine(lines[i - 1])
                        /\ i < Len(lines) /\ ~IsEmptyLine(lines[i + 1])}
    IN  IF standard # {} THEN LeastOf(standard)
        ELSE IF nearly # {} THEN GreatestOf(nearly) ELSE 0

\* remove_nonstandard_footer.
RemoveNonstandardFooter(lines) ==
    LET rules == {i \in DOMAIN lines : lines[i].q = 0 /\ lines[i].t \in {"--", "rule"}}
    IN  IF rules # {} THEN LeastOf(rules) ELSE 0

SkipForwardHeader(lines) ==
    /\ Len(lines) >= 3
    /\ lines[1] = Line("Forwarded") /\ lines[2] = Line("From: x") /\ lines[3] = Line("")

\* remove_top_quote: the quoted lines at the top and, in classic mails, one headline
\* before them.  [from, to] are the indices of the quote, to = 0 without one.
RemoveTopQuote(lines, chat) ==
    LET from == IF ~chat /\ lines # NoText /\ ~IsPlainQuote(lines[1]) /\ IsQuotedHeadline(lines[1])
                THEN 2 ELSE 1
        to   == {j \in from..Len(lines) : \A k \in from..j : IsPlainQuote(lines[k])}
    IN  [from |-> from, to |-> IF to = {} THEN 0 ELSE GreatestOf(to)]

\* remove_bottom_quote: the quotes at the end, with the empty lines among them, and
\* an empty line and a headline before them.
RemoveBottomQuote(lines) ==
    LET tail  == {i \in DOMAIN lines :
                     /\ IsPlainQuote(lines[i])
                     /\ \A k \in i..Len(lines) : IsPlainQuote(lines[k]) \/ IsEmptyLine(lines[k])}
        first == LeastOf(tail)
        last  == GreatestOf(tail)
        gap   == IF first > 2 /\ IsEmptyLine(lines[first - 1]) THEN first - 1 ELSE first
        cut   == IF gap > 2 /\ IsQuotedHeadline(lines[gap - 1]) THEN gap - 1 ELSE gap
    IN  IF tail = {} THEN [cut |-> 0, quote |-> NoText]
        ELSE [cut |-> cut, quote |-> SubSeq(lines, first, last)]

Stripped(lines) == [i \in DOMAIN lines |-> IF lines[i].q > 0 THEN [lines[i] EXCEPT !.q = @ - 1]
                                           ELSE lines[i]]

Before(lines, n) == IF n = 0 THEN lines ELSE Take(lines, n - 1)

\* simplify_quote, of the quotes of classic mails.
SimplifyQuote(lines) == RenderLines(Before(lines, RemoveMessageFooter(lines)))

\* simplify.
Simplify(input, chat) ==
    LET fwd      == SkipForwardHeader(input)
        lines    == IF fwd THEN Drop(input, 3) ELSE input
        top      == RemoveTopQuote(lines, chat)
        original == Drop(lines, top.to)
        topQuote == IF top.to = 0 THEN NoText ELSE Stripped(SubSeq(lines, top.from, top.to))
        mark     == RemoveMessageFooter(original)
        unsigned == Before(original, mark)
        rule     == RemoveNonstandardFooter(unsigned)
        ruled    == Before(unsigned, rule)
        bottom   == RemoveBottomQuote(ruled)
        left     == Before(ruled, bottom.cut)
        quote    == IF topQuote = NoText /\ bottom.cut > 0 THEN Stripped(bottom.quote) ELSE topQuote
        all      == \A i \in DOMAIN left : IsEmptyLine(left[i])
        cutEnd   == rule > 0 \/ (bottom.cut > 0 /\ topQuote # NoText)
        footer   == IF mark = 0 THEN NoText ELSE RenderLines(Drop(original, mark))
    IN  IF chat
        THEN [text |-> RenderLines(unsigned), quote |-> topQuote, footer |-> footer,
              fwd |-> fwd, cut |-> FALSE]
        ELSE [text |-> RenderLines(IF all THEN original ELSE left),
              quote |-> SimplifyQuote(quote), footer |-> footer, fwd |-> fwd,
              cut |-> (~all /\ cutEnd) \/ RemoveMessageFooter(quote) > 0]

NothingShown == [text |-> NoText, quote |-> NoText, footer |-> NoText, fwd |-> FALSE, cut |-> FALSE]

-----------------------------------------------------------------------------

TextLines == [q : {0}, t : TextTokens] \cup [q : {1}, t : {"word"}]

Messages ==
    [chat : {TRUE}, text : SeqOf(TextLines, MaxTextLines),
     quote : {NoText, <<Line("word")>>, <<Line("-- "), Line("")>>}, protect : BOOLEAN,
     footer : {NoText, <<Line("word")>>}, fwd : BOOLEAN, sealed : BOOLEAN]

ClassicMails ==
    [chat : {FALSE}, text : SeqOf(TextLines, MaxTextLines + 1), quote : {NoText},
     protect : {FALSE}, footer : {NoText}, fwd : {FALSE}, sealed : {FALSE}]

TextStart(S) ==
    /\ sending \in S
    /\ body = NoText /\ shown = NothingShown /\ textAt = "written"

TextInit == TextStart({m \in Messages : m.protect => m.quote # NoText} \cup ClassicMails)

WriteText ==
    /\ textAt = "written"
    /\ body' = IF sending.chat THEN RenderText(sending) ELSE sending.text
    /\ textAt' = "rendered"
    /\ UNCHANGED <<sending, shown>>

ReadText ==
    /\ textAt = "rendered"
    /\ shown' = Simplify(body, sending.chat)
    /\ textAt' = "read"
    /\ UNCHANGED <<sending, body>>

TextNext == WriteText \/ ReadText

TextSpec == TextInit /\ [][TextNext]_textVars

-----------------------------------------------------------------------------
(* Properties                                                              *)

TextTypeOK ==
    /\ \A l \in Range(body) \cup Range(shown.text) : l.q \in 0..2 /\ l.t \in Tokens
    /\ textAt \in {"written", "rendered", "read"}

\* A "--" of the user's own that the receiver takes for a footer mark: there is no
\* "-- " footer below it, an empty line above and a line that is not empty below.
LooksLikeFooter(msg) ==
    msg.footer = NoText /\ RemoveMessageFooter(EscapeMessageFooterMarks(msg.text)) > 0

LooksForwarded(msg) == ~msg.fwd /\ SkipForwardHeader(RenderText(msg))

\* What a chat message says arrives as it was typed, up to empty lines at the ends and
\* runs of them, whatever lines it is made of: lines that look like a footer mark, a
\* quote or a headline are neither cut off nor taken for something else.  Two texts are
\* known to be taken apart: see LooksLikeFooter and LooksForwarded.
TextKept ==
    (textAt = "read" /\ sending.chat /\ ~LooksLikeFooter(sending) /\ ~LooksForwarded(sending)) =>
        /\ shown.text = RenderLines(sending.text)
        /\ shown.fwd = sending.fwd

\* The quote arrives as a quote, and in an unencrypted mail nothing of a quoted
\* encrypted message does.
QuoteKept ==
    (textAt # "written" /\ sending.chat) =>
        LET seen == IF sending.protect /\ ~sending.sealed THEN <<Line("...")>> ELSE sending.quote
        IN  /\ textAt = "read" => shown.quote = seen
            /\ (sending.protect /\ ~sending.sealed) =>
                   \A i \in DOMAIN body : body[i].q > 0 =>
                       body[i].t = "..." \/ body[i] \in Range(sending.text)

\* The footer of a message is the sender's signature or status and never a piece of
\* the text.
FooterKept ==
    (textAt = "read" /\ sending.chat /\ ~LooksLikeFooter(sending)) =>
        shown.footer = RenderLines(sending.footer)

\* Shortening the mail of another program never leaves nothing to read, and what is
\* not shown can be had: the mail is marked as forwarded, cut or quoting, which offers
\* the full message, or the missing lines are the footer.
ClassicReadable ==
    (textAt = "read" /\ ~sending.chat) =>
        LET spoken == {l \in Range(body) : ~IsEmptyLine(l) /\ l.q = 0 /\
                                           l.t \notin {"-- ", "--", "rule"}}
        IN  /\ spoken \subseteq Range(shown.text) \cup Range(shown.footer)
                  \/ shown.fwd \/ shown.cut \/ shown.quote # NoText
            /\ (\E l \in spoken : TRUE) =>
                  shown.text # NoText \/ shown.footer # NoText \/ shown.fwd \/ shown.quote # NoText

\* Text, quote and footer arrive as written, and mails of other programs are readable.
TextSafe == TextTypeOK /\ TextKept /\ QuoteKept /\ FooterKept /\ ClassicReadable
=============================================================================
