----------------------------- MODULE MimeParts -----------------------------
(***************************************************************************)
(* The body of a mail: how a message is prepared and rendered into a MIME  *)
(* tree (prepare_msg_blob in core/src/chat.rs, render_message in           *)
(* core/src/mimefactory.rs), what list servers add to it, and how          *)
(* MimeMessage (core/src/mimeparser.rs) takes the tree apart into parts,   *)
(* each of which becomes a message.  Trees of other programs are parsed    *)
(* by the same code.                                                       *)
(***************************************************************************)
EXTENDS Integers, Sequences, SequencesExt, FiniteSets

CONSTANTS
    Posts,         \* the messages a user may send, see Post
    ForeignTrees   \* the bodies other programs may send

\* A node: a multipart or a leaf.  says: who wrote the content.
Multi(type, sub) == [type |-> type, name |-> "", says |-> "", sub |-> sub]

Leaf(type, says) == [type |-> type, name |-> "", says |-> says, sub |-> << >>]

Attached(type, name, says) == [type |-> type, name |-> name, says |-> says, sub |-> << >>]

\* A message of this program: the viewtype asked for, the file, and what goes with it.
Post(view, suffix, text, html, location, cmd) ==
    [view |-> view, suffix |-> suffix, text |-> text, html |-> html,
     location |-> location, cmd |-> cmd]

VARIABLES
    post,     \* the message, with the viewtype the sender shows
    tree,     \* the body on its way
    listed,   \* a mailing list has passed it on
    chatMsg,  \* it carries Chat-Version
    got,      \* what the receiver made of it
    partAt    \* "drafted", "rendered" or "parsed"

partVars == <<post, tree, listed, chatMsg, got, partAt>>

-----------------------------------------------------------------------------
(* Sending                                                                 *)

\* guess_msgtype_from_path_suffix, one suffix for each pair of results that differ.
GuessMsgtype(suffix) ==
    CASE suffix = "jpg"  -> <<"Image", "image">>
      [] suffix = "gif"  -> <<"Gif", "gif">>
      [] suffix = "mp4"  -> <<"Video", "video">>
      [] suffix = "mp3"  -> <<"Audio", "audio">>
      [] suffix = "webm" -> <<"File", "video">>
      [] suffix = "opus" -> <<"File", "audio">>
      [] suffix = "heic" -> <<"File", "image">>
      [] suffix = "svg"  -> <<"File", "svg">>
      [] suffix = "txt"  -> <<"File", "plain">>
      [] suffix = "vcf"  -> <<"Vcard", "vcard">>
      [] suffix = "xdc"  -> <<"Webxdc", "application">>
      [] suffix = "broken.jpg" -> <<"Image", "image">>
      [] OTHER           -> <<"None", "octet-stream">>

\* The image library: it knows no HEIC, and broken files not at all (external).
Decodes(suffix) == suffix \in {"jpg", "gif"}

\* prepare_msg_blob: the better type, and File for what is no image after all.
PrepareMsgBlob(p) ==
    LET guess  == GuessMsgtype(p.suffix)
        better == IF p.view \in {"File", "Image"} /\ guess[1] \notin {"None", "Image"} THEN guess[1]
                  ELSE p.view
        image  == better = "Image" \/ (better = "File" /\ guess[1] = "Image")
        view   == IF image THEN (IF Decodes(p.suffix) THEN "Image" ELSE "File") ELSE better
        mime   == IF guess[1] = "Image" /\ view \notin {"Image", "Sticker"} THEN "octet-stream"
                  ELSE guess[2]
    IN  [view |-> view, mime |-> mime]

HasFile(view) == view \notin {"Text", "Call"}

\* build_body_file: always an attachment with a name.
BuildBodyFile(p) == Attached(PrepareMsgBlob(p).mime, p.suffix, "file")

\* render_mdn: for people and for machines.
RenderMdn == Multi("report/mdn", <<Leaf("plain", "notice"), Leaf("disposition", "original")>>)

\* render_message: the parts beside the text: file, location, sync or status update.
RenderParts(p) ==
    (IF HasFile(p.view) THEN <<BuildBodyFile(p)>> ELSE << >>)
        \o (IF p.location THEN <<Attached("application", "location.kml", "kml")>> ELSE << >>)
        \o (IF p.cmd = "sync" THEN <<Attached("application", "multi-device-sync.json", "sync")>>
            ELSE IF p.cmd = "status" \/ PrepareMsgBlob(p).view = "Webxdc"
            THEN <<Attached("application", "status-update.json", "status")>>
            ELSE << >>)

\* render_message and into_queued_mail: the text, always there, possibly empty, with
\* HTML beside it, and the multipart around it all when there is more.
RenderBody(p) ==
    LET text  == [Leaf("plain", IF p.text THEN "own" ELSE "") EXCEPT
                     !.type = IF p.cmd = "reaction" THEN "reaction" ELSE @]
        main  == IF p.html THEN Multi("alternative", <<text, Leaf("html", "own")>>) ELSE text
        parts == RenderParts(p)
    IN  IF p.cmd = "mdn" THEN RenderMdn
        ELSE IF parts = << >> THEN main
        ELSE Multi(CASE p.cmd = "sync"   -> "report/sync"
                     [] p.cmd = "status" -> "report/status"
                     [] OTHER            -> "mixed", <<main>> \o parts)

-----------------------------------------------------------------------------
(* Parsing                                                                 *)

NoPart == [typ |-> "Text", text |-> "", file |-> "", content |-> "", related |-> FALSE,
           failed |-> FALSE, reaction |-> FALSE]

Fresh == [parts |-> << >>, location |-> FALSE, sync |-> FALSE, status |-> FALSE,
          mdn |-> FALSE, dsn |-> FALSE, modified |-> FALSE, key |-> FALSE]

IsMulti(n) == n.type \in {"mixed", "alternative", "related", "signed", "report/mdn",
                          "report/dsn", "report/sync", "report/status"}

\* get_mime_type: from the type, and for octet streams of other programs the name.
GetMimeType(n, chat) ==
    CASE n.type = "vcard"                              -> "Vcard"
      [] n.type \in {"plain", "html"} /\ n.name = ""   -> "Text"
      [] n.type = "gif"                                -> "Gif"
      [] n.type = "image"                              -> "Image"
      [] n.type = "audio"                              -> "Audio"
      [] n.type = "video"                              -> "Video"
      [] n.type = "octet-stream" /\ n.name # "" /\ ~chat ->
             IF GuessMsgtype(n.name)[1] = "None" THEN "File" ELSE GuessMsgtype(n.name)[1]
      [] IsMulti(n) \/ n.type \in {"rfc822", "disposition", "delivery"} -> "Unknown"
      [] OTHER                                         -> "File"

\* do_add_single_file_part: attached keys, locations, sync items and status updates are
\* taken out; images the library does not know become files.
AddSingleFilePart(st, view, name, content, related) ==
    LET xdc  == GuessMsgtype(name)[1] = "Webxdc"
        typ  == IF xdc THEN "Webxdc"
                ELSE IF view \in {"Image", "Gif", "Sticker"} /\ ~Decodes(name) THEN "File"
                ELSE view
        part == [NoPart EXCEPT !.typ = typ, !.file = name, !.content = content,
                               !.related = related]
    IN  CASE name = "keys.asc"               -> [st EXCEPT !.key = TRUE]
          [] name = "location.kml"           -> [st EXCEPT !.location = TRUE]
          [] name = "multi-device-sync.json" -> [st EXCEPT !.sync = TRUE]
          [] name = "status-update.json"     -> [st EXCEPT !.status = TRUE]
          [] OTHER                           -> [st EXCEPT !.parts = Append(@, part)]

\* add_single_part_if_known: named parts are files, unnamed text is text, unnamed
\* pictures, sounds and films are dropped.  HTML without any text fails to convert.
AddSinglePartIfKnown(st, n, chat, related) ==
    IF n.name # "" THEN AddSingleFilePart(st, GetMimeType(n, chat), n.name, n.says, related)
    ELSE CASE n.type = "reaction" ->
                [st EXCEPT !.parts = Append(@, [NoPart EXCEPT !.text = n.says, !.reaction = TRUE])]
           [] n.type = "html" /\ n.says # "" ->
                [st EXCEPT !.modified = TRUE,
                           !.parts = Append(@, [NoPart EXCEPT !.text = n.says,
                                                              !.failed = n.says = "markup"])]
           [] n.type \in {"plain", "calendar"} /\ n.says # "" ->
                [st EXCEPT !.parts = Append(@, [NoPart EXCEPT !.text = n.says])]
           [] OTHER -> st

RECURSIVE ParseMime(_, _, _, _), ParseAll(_, _, _, _)

\* The parts of a multipart one after the other.
ParseAll(st, sub, chat, related) ==
    IF sub = << >> THEN st
    ELSE ParseAll(ParseMime(st, Head(sub), chat, related), Tail(sub), chat, related)

\* handle_multiple, alternative: the last plain text or multipart; a calendar beside it
\* as a file, whose content is read from the alternative itself; failing that from
\* the last backwards until one gives anything; and the mark that there is more to show.
HandleAlternative(st, n, chat, related) ==
    LET liked    == {i \in DOMAIN n.sub : n.sub[i].type = "plain" \/ IsMulti(n.sub[i])}
        pick     == CHOOSE i \in liked : \A j \in liked : j <= i
        first    == IF liked = {} THEN st ELSE ParseMime(st, n.sub[pick], chat, related)
        added    == Len(first.parts) > Len(st.parts)
        calendar == {i \in DOMAIN n.sub : n.sub[i].type = "calendar"}
        with     == IF calendar = {} THEN first
                    ELSE AddSingleFilePart(first, "File", "calendar.ics", "alternative", related)
        useful   == {i \in DOMAIN n.sub :
                        Len(ParseMime(Fresh, n.sub[i], chat, related).parts) > 0}
        other    == IF useful = {} THEN 1 ELSE CHOOSE i \in useful : \A j \in useful : j <= i
        final    == IF added THEN with
                    ELSE ParseAll(with, Reverse(SubSeq(n.sub, other, Len(n.sub))), chat, related)
    IN  [final EXCEPT !.modified = @ \/ ((added \/ useful # {}) /\ Len(n.sub) > 1)]

\* handle_multiple: the other multiparts.
HandleMultiple(st, n, chat, related) ==
    CASE n.type = "alternative" -> HandleAlternative(st, n, chat, related)
      [] n.type = "signed"      -> IF n.sub = << >> THEN st
                                   ELSE ParseMime(st, n.sub[1], chat, related)
      [] n.type = "report/mdn"  -> IF Len(n.sub) < 2 THEN st
                                   ELSE [st EXCEPT !.mdn = TRUE,
                                           !.parts = Append(@, [NoPart EXCEPT !.typ = "Unknown"])]
      [] n.type = "report/dsn"  -> IF Len(n.sub) < 2 THEN st
                                   ELSE [ParseAll(st, n.sub, chat, related) EXCEPT
                                           !.dsn = n.sub[2].type = "delivery"]
      [] n.type \in {"report/sync", "report/status"} ->
                                   IF Len(n.sub) < 2 THEN st
                                   ELSE AddSinglePartIfKnown(st, n.sub[2], chat, related)
      [] OTHER                  -> ParseAll(st, n.sub, chat, related)

\* parse_mime_recursive: multiparts, enclosed mails, single parts.
ParseMime(st, n, chat, related) ==
    LET rel == related \/ n.type = "related"
    IN  CASE IsMulti(n) -> HandleMultiple(st, n, chat, rel)
          [] n.type = "rfc822" /\ n.name = "" -> ParseAll(st, n.sub, chat, rel)
          [] OTHER -> AddSinglePartIfKnown(st, n, chat, rel)

RelatedImage(p) == p.typ \in {"Image", "Gif"} /\ p.related

\* maybe_remove_bad_parts: failed HTML while there is something else, and all but the
\* first inline picture of a mail that can be shown in full.
MaybeRemoveBadParts(st, chat) ==
    LET good   == SelectSeq(st.parts, LAMBDA p : ~p.failed)
        kept   == IF good = << >> THEN SubSeq(st.parts, 1, IF st.parts = << >> THEN 0 ELSE 1)
                  ELSE good
        first(i) == \A j \in 1..(i - 1) : kept[j].typ \notin {"Image", "Gif"}
        images == {i \in DOMAIN kept : RelatedImage(kept[i])}
        stay   == SelectSeq([i \in DOMAIN kept |-> i], LAMBDA i : i \notin images \/ first(i))
    IN  [st EXCEPT !.parts = IF chat \/ ~st.modified \/ Cardinality(images) <= 1 THEN kept
                             ELSE [k \in DOMAIN stay |-> kept[stay[k]]]]

\* maybe_remove_inline_mailinglist_footer: the last of exactly two texts.
RemoveListFooter(st, list) ==
    LET texts == {i \in DOMAIN st.parts : st.parts[i].typ = "Text"}
    IN  IF list /\ Cardinality(texts) = 2 /\ Len(st.parts) \in texts
        THEN [st EXCEPT !.parts = Front(@)] ELSE st

\* squash_attachment_parts: a text and a file are one message.
SquashAttachmentParts(st) ==
    IF ~st.dsn /\ Len(st.parts) = 2 /\ st.parts[1].typ = "Text"
            /\ st.parts[2].typ \notin {"Unknown", "Text", "Call"}
    THEN [st EXCEPT !.parts = <<[st.parts[2] EXCEPT !.text = st.parts[1].text]>>]
    ELSE st

\* parse_attachments: Chat-Voice-Message and Chat-Content of the sender's viewtype.
ParseAttachments(st, view) ==
    LET typ(p) == IF p.typ = "Audio" /\ view = "Voice" THEN "Voice"
                  ELSE IF p.typ \in {"Image", "Gif"} /\ view = "Sticker" THEN "Sticker" ELSE p.typ
    IN  IF Len(st.parts) # 1 THEN st
        ELSE [st EXCEPT !.parts = <<[st.parts[1] EXCEPT !.typ = typ(st.parts[1])]>>]

\* parse_videochat_headers: Chat-Content says that the first part is a call.
ParseVideochatHeaders(st, view) ==
    IF view = "Call" /\ st.parts # << >> THEN [st EXCEPT !.parts[1].typ = "Call"] ELSE st

\* parse_headers: the above in their order, and a message even when there is no part.
ParseHeaders(st, view) ==
    LET done == ParseAttachments(SquashAttachmentParts(ParseVideochatHeaders(st, view)), view)
    IN  IF done.parts = << >> /\ ~done.mdn THEN [done EXCEPT !.parts = <<NoPart>>] ELSE done

\* from_bytes from the body on.
ParseTree(n, chat, list, view) ==
    ParseHeaders(RemoveListFooter(MaybeRemoveBadParts(ParseMime(Fresh, n, chat, FALSE), chat),
                                  list), view)

-----------------------------------------------------------------------------

\* The message, or a mail of another program.
PartsStart(P, T) ==
    /\ \/ /\ post \in P /\ tree = Leaf("plain", "") /\ chatMsg = TRUE
       \/ /\ post = Post("Text", "", FALSE, FALSE, FALSE, "")
          /\ tree \in T /\ chatMsg = FALSE
    /\ listed = FALSE /\ got = Fresh /\ partAt = "drafted"

PartsInit == PartsStart(Posts, ForeignTrees)

RenderTree ==
    /\ partAt = "drafted"
    /\ tree' = IF chatMsg THEN RenderBody(post) ELSE tree
    /\ partAt' = "rendered"
    /\ UNCHANGED <<post, listed, chatMsg, got>>

\* A list server appends its footer as a part of its own (external).
ListServer ==
    /\ partAt = "rendered" /\ ~listed
    /\ tree' = IF tree.type = "mixed" THEN [tree EXCEPT !.sub = Append(@, Leaf("plain", "list"))]
               ELSE Multi("mixed", <<tree, Leaf("plain", "list")>>)
    /\ listed' = TRUE
    /\ UNCHANGED <<post, chatMsg, got, partAt>>

ParseBody ==
    /\ partAt = "rendered"
    /\ got' = ParseTree(tree, chatMsg, listed,
                        IF chatMsg THEN IF HasFile(post.view) THEN PrepareMsgBlob(post).view
                                        ELSE post.view
                        ELSE "Text")
    /\ partAt' = "parsed"
    /\ UNCHANGED <<post, tree, listed, chatMsg>>

PartsNext == RenderTree \/ ListServer \/ ParseBody

PartsSpec == PartsInit /\ [][PartsNext]_partVars

-----------------------------------------------------------------------------
(* Properties                                                              *)

Views == {"Text", "Image", "Gif", "Sticker", "Audio", "Voice", "Video", "File", "Vcard",
          "Webxdc", "Call", "Unknown"}

PartsTypeOK ==
    /\ \A p \in Range(got.parts) : p.typ \in Views
    /\ partAt \in {"drafted", "rendered", "parsed"}
    /\ partAt = "parsed" => Len(got.parts) >= 1

Arrived == partAt = "parsed" /\ chatMsg

\* What was sent as one message is one message at the receiver, with its text (or what
\* its HTML says) and its file, whatever else it carries (HTML, a location, status updates); locations, sync
\* items, status updates and receipts never show up as attachments of their own.
OneMessage ==
    Arrived /\ ~listed =>
        /\ Len(got.parts) = 1
        /\ post.cmd \in {"", "reaction"} =>
              /\ got.parts[1].text = IF post.text \/ post.html THEN "own" ELSE ""
              /\ got.parts[1].file = IF HasFile(post.view) THEN post.suffix ELSE ""
              /\ got.parts[1].reaction = (post.cmd = "reaction")
        /\ got.location = post.location
        /\ got.sync = (post.cmd = "sync") /\ got.mdn = (post.cmd = "mdn")

\* The receiver shows the kind of message the sender sees, but for the formats of
\* SameForEveryone below.
ViewKept ==
    (Arrived /\ ~listed /\ post.cmd = "" /\ post.suffix \notin {"webm", "opus"}) =>
        got.parts[1].typ =
            IF HasFile(post.view) THEN PrepareMsgBlob(post).view ELSE post.view

\* A file that is no supported medium is a "File" for everyone, sender as well as all
\* receivers (message.rs).  It fails for formats whose MIME type is audio or video.
SameForEveryone ==
    (Arrived /\ ~listed /\ post.cmd = "" /\ HasFile(post.view)) =>
        (PrepareMsgBlob(post).view = "File" => got.parts[1].typ = "File")

\* A footer a mailing list adds displaces nothing: the text and the file of the message
\* are still there.
FooterDisplacesNothing ==
    (Arrived /\ listed /\ post.cmd = "") =>
        /\ post.text => \E p \in Range(got.parts) : p.text = "own"
        /\ HasFile(post.view) => \E p \in Range(got.parts) : p.file = post.suffix

NamedFiles(n) ==
    LET leaves == {n} \cup Range(n.sub) \cup UNION {Range(k.sub) : k \in Range(n.sub)}
    IN  {k.name : k \in {l \in leaves : l.name # "" /\ ~IsMulti(l)}}

\* Of a mail of another program every attached file is shown as one, or the mail is
\* marked so that it can be shown in full; an attached key is taken in.
FilesKept ==
    (partAt = "parsed" /\ ~chatMsg) =>
        \A f \in NamedFiles(tree) :
            \/ \E p \in Range(got.parts) : p.file = f
            \/ got.modified
            \/ f = "keys.asc" /\ got.key

\* An invitation's calendar is available as an attachment (mimeparser.rs, and its
\* test).  It fails: the attachment has the name but not the content, which is taken
\* from the multipart around the calendar.
CalendarAvailable ==
    partAt = "parsed" =>
        \A p \in Range(got.parts) : p.file = "calendar.ics" => p.content = "event"

\* The parts of a mail become one message of the right kind, and no file is lost.
PartsSafe == PartsTypeOK /\ OneMessage /\ ViewKept /\ FooterDisplacesNothing /\ FilesKept
=============================================================================
