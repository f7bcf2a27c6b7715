------------------------------ MODULE MCMails -------------------------------
(***************************************************************************)
(* What is in a mail and what becomes of it: whom it is sent to and how,   *)
(* its headers, its text, its parts, the chat it is assigned to, its place *)
(* in the tree of a conversation, and the connections it goes over.  Each  *)
(* behaviour runs one of them on one of its inputs, the others rest on a   *)
(* simple one.                                                             *)
(***************************************************************************)
EXTENDS ThreadTree, MimeHeaders, MessageText, MimeParts, Sending, Assignment, Network

VARIABLE part    \* the one that runs

\* Letters: encrypted ones of every kind, open ones, and those that are odd: receipts, requests
\* for a key, old senders, channel secrets, other programs.
Sealed == {Letter(k, "core", "asym", TRUE, known, "anyone", FALSE, b, "high") :
             k \in {"text", "edit", "avatar", "post", "pre", "added", "withauth"}, known \in BOOLEAN, b \in BOOLEAN}
Open == {Letter(k, "core", "no", FALSE, TRUE, "anyone", FALSE, FALSE, "low") :
             k \in {"text", "edit", "avatar", "mdn", "request"}}
OpenLetter == Letter("text", "core", "no", FALSE, TRUE, "anyone", FALSE, FALSE, "low")
Odd == {Letter("mdn", "core", "asym", TRUE, TRUE, "anyone", o, FALSE, "normal") : o \in BOOLEAN}
       \cup {Letter("pubkey", "core", "symm", FALSE, FALSE, "anyone", FALSE, FALSE, "normal"),
             Letter("edit", "old", "no", FALSE, FALSE, "anyone", FALSE, FALSE, "normal")}
       \cup {Letter("text", "core", "symm", TRUE, known, x, FALSE, FALSE, "normal") :
               known \in BOOLEAN, x \in {"sender", "other", "lost"}}
       \cup {Letter(k, "other", "asym", s, known, "anyone", FALSE, FALSE, "high") :
               k \in {"text", "withauth"}, s \in BOOLEAN, known \in BOOLEAN}
MCLetters == Sealed \cup Open \cup Odd

\* Lines that mean something to simplify(), and one that does not.
MCTextTokens == {"word", "", "-- ", "--", "-- x", "rule", "wrote:", "Forwarded", "From: x"}

ShortMail == [chat |-> FALSE, text |-> <<Line("word")>>, quote |-> NoText, protect |-> FALSE, footer |-> NoText,
              fwd |-> FALSE, sealed |-> FALSE]

\* Messages with files of every kind, and mails of other programs two levels deep.
FileEndings == {"jpg", "gif", "mp4", "mp3", "webm", "opus", "heic", "svg", "txt", "vcf", "xdc", "broken.jpg", "bin"}
MCFiles == ({"File"} \X FileEndings)
           \cup {<<"Image", "jpg">>, <<"Image", "gif">>, <<"Image", "broken.jpg">>, <<"Sticker", "jpg">>,
                 <<"Sticker", "gif">>, <<"Voice", "mp3">>, <<"Voice", "opus">>, <<"Video", "mp4">>,
                 <<"Webxdc", "xdc">>, <<"Text", "">>, <<"Call", "">>}
MCPosts == ({Post(f[1], f[2], t, h, l, "") : f \in MCFiles, t \in BOOLEAN, h \in BOOLEAN, l \in BOOLEAN}
              \ {Post("Call", "", FALSE, h, l, "") : h \in BOOLEAN, l \in BOOLEAN})
           \cup {Post("Text", "", TRUE, FALSE, FALSE, s) : s \in {"sync", "status", "reaction", "mdn"}}
Leaves == {Leaf("plain", "own"), Leaf("html", "own"), Leaf("html", "markup"), Leaf("calendar", "event"),
           Attached("image", "jpg", "file"), Attached("gif", "gif", "file"),
           Attached("octet-stream", "mp4", "file"), Attached("application", "keys.asc", "key"),
           Leaf("image", "inline")}
Branches == {Multi(m, <<x, y>>) : m \in {"alternative", "related"}, x \in Leaves, y \in Leaves}
            \cup {Multi("signed", <<x, Leaf("signature", "")>>) : x \in Leaves}
MCForeignTrees ==
    {Multi(m, <<x, y>>) : m \in {"mixed", "alternative", "related", "report/dsn"},
                          x \in Leaves \cup Branches, y \in Leaves}
    \cup {Multi("related", <<Leaf("html", "own"), Attached("image", "jpg", "file"), Attached("gif", "gif", "file")>>)}
    \cup Leaves

\* Mails to assign: own or not, encrypted or not, from a list, to a group, to one person.
AnyMail == [out |-> FALSE, enc |-> FALSE, list |-> FALSE, grpid |-> FALSE, named |-> FALSE, many |-> FALSE,
            pair |-> FALSE, chatMail |-> FALSE, quits |-> FALSE, creatable |-> TRUE, unmapped |-> FALSE,
            service |-> FALSE]
MCMailsToAssign ==
    {[AnyMail EXCEPT !.out = o, !.enc = e, !.list = l, !.many = n, !.creatable = c] :
       o \in BOOLEAN, e \in BOOLEAN, l \in BOOLEAN, n \in BOOLEAN, c \in BOOLEAN}
    \cup {[AnyMail EXCEPT !.out = o, !.enc = e, !.grpid = TRUE, !.named = TRUE, !.quits = q, !.many = TRUE] :
            o \in BOOLEAN, e \in BOOLEAN, q \in BOOLEAN}
    \cup {[AnyMail EXCEPT !.enc = e, !.pair = TRUE] : e \in BOOLEAN} \cup {[AnyMail EXCEPT !.grpid = TRUE]}
    \cup {[AnyMail EXCEPT !.out = TRUE, !.enc = TRUE, !.unmapped = TRUE], [AnyMail EXCEPT !.service = TRUE],
          [AnyMail EXCEPT !.chatMail = TRUE, !.out = TRUE, !.creatable = FALSE]}

\* Who connects how, and what else happens.
Kind(s, p) == [security |-> s, proxied |-> p]
MCNetThemes ==
    {[dials |-> {"imap"}, kinds |-> {Kind("strict", FALSE), Kind("plain", FALSE)},
      ops |-> {"dial", "prune", "clock"}, acts |-> 3],
     [dials |-> {"imap"}, kinds |-> {Kind("strict", FALSE), Kind("strict", TRUE), Kind("relaxed", FALSE)},
      ops |-> {"dial", "die", "clock"}, acts |-> 2],
     [dials |-> {"imap", "smtp"}, kinds |-> {Kind("strict", TRUE)}, ops |-> {"dial", "clean", "clock", "die"}, acts |-> 4]}
MCAnswers == {<<>>, <<"a1">>}
MCPreload == <<"a2">>
MCCertificates ==
    {[spki |-> "own", valid |-> TRUE], [spki |-> "own", valid |-> FALSE], [spki |-> "odd", valid |-> FALSE]}

\* What is entered of the servers, and what their domain may answer.
MCDomain == <<"org">>
Server(p, h, n, s, u) == [proto |-> p, server |-> h, port |-> n, socket |-> s, user |-> u]
Entry(i, c, l) == [imap |-> i, smtp |-> Server("smtp", <<>>, 0, "automatic", ""), checks |-> c, legacy |-> l]
MCEntered ==
    {Entry(Server("imap", <<>>, 0, "automatic", ""), "automatic", l) : l \in BOOLEAN}
    \cup {Entry(Server("imap", <<"x">>, 7, "automatic", ""), "strict", FALSE),
          Entry(Server("imap", <<"x">>, 0, "plain", "me"), "strict", FALSE),
          Entry(Server("imap", <<>>, 0, "starttls", ""), "automatic", FALSE)}
MCDocuments ==
    {<<Server("imap", <<"x">>, 0, "plain", "me"), Server("pop", <<"x">>, 1, "ssl", "")>>,
     <<Server("smtp", <<"x">>, 0, "automatic", "")>>}

mailsVars == <<part, vars, headerVars, textVars, partVars, sendVars, assignVars, networkVars>>

MailsInit ==
    /\ part \in {"tree", "headers", "text", "parts", "sending", "assignment", "names", "web", "proxy", "login"}
    /\ SendInit /\ AssignInit
    /\ NetworkInit /\ (part = "names" \/ netTheme = CHOOSE t \in NetThemes : TRUE)
    /\ (part = "proxy" \/ (~proxy.socksEnabled /\ ~proxy.socksHost))
    /\ IF part = "headers" THEN HeadersInit ELSE HeadersStart({OpenLetter}, {{}})
    /\ IF part = "parts" THEN PartsInit ELSE PartsStart({Post("Text", "", TRUE, FALSE, FALSE, "")}, {})
    /\ IF part = "tree" THEN Init ELSE Start({[r \in Rows |-> r]}, {[r \in Rows |-> <<>>]})
    /\ IF part = "text" THEN TextInit ELSE TextStart({ShortMail})

TreeRuns == part = "tree" /\ Next /\ UNCHANGED <<part, headerVars, textVars, partVars, sendVars, assignVars, networkVars>>
HeadersRun == part = "headers" /\ HeadersNext /\ UNCHANGED <<part, vars, textVars, partVars, sendVars, assignVars, networkVars>>
TextRuns == part = "text" /\ TextNext /\ UNCHANGED <<part, vars, headerVars, partVars, sendVars, assignVars, networkVars>>
PartsRun == part = "parts" /\ PartsNext /\ UNCHANGED <<part, vars, headerVars, textVars, sendVars, assignVars, networkVars>>
SendingRuns == part = "sending" /\ SendNext /\ UNCHANGED <<part, vars, headerVars, textVars, partVars, assignVars, networkVars>>
AssignmentRuns == part = "assignment" /\ AssignNext /\ UNCHANGED <<part, vars, headerVars, textVars, partVars, sendVars, networkVars>>

MailRests == UNCHANGED <<part, vars, headerVars, textVars, partVars, sendVars, assignVars>>
NamesRun == part = "names" /\ NamesStep /\ MailRests
WebRuns == part = "web" /\ WebStep /\ MailRests
ProxyRuns == part = "proxy" /\ ProxyStep /\ MailRests
LoginRuns == part = "login" /\ LoginStep /\ MailRests

MailsNext ==
    \/ TreeRuns \/ HeadersRun \/ TextRuns \/ PartsRun \/ SendingRuns \/ AssignmentRuns
    \/ NamesRun \/ WebRuns \/ ProxyRuns \/ LoginRuns

MailsSpec == MailsInit /\ [][MailsNext]_mailsVars

\* What is written in a mail arrives: its headers, its text and its parts; and what is
\* entered or found of the servers it goes over becomes servers to connect to.
ContentArrives == HeadersSafe /\ TextSafe /\ PartsSafe /\ ServersDefinite
=============================================================================
