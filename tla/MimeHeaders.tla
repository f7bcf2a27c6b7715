---------------------------- MODULE MimeHeaders ----------------------------
(***************************************************************************)
(* The headers of one mail on their way from the sender's MimeFactory      *)
(* (core/src/mimefactory.rs), through relays, gateways and list servers    *)
(* that add, replace and drop outer headers, to the receiver's MimeMessage *)
(* (core/src/mimeparser.rs, core/src/decrypt.rs).                          *)
(*                                                                         *)
(* A set of headers is a function from names to values, a value is a pair  *)
(* of who wrote it and what it says, and an encrypted mail has two such    *)
(* functions: the outer headers every relay sees and the inner ones of the *)
(* encrypted part.  Header names stand for their class: "chat-group-id"    *)
(* for any protected Chat-* header, "in-reply-to" for the threading ones.  *)
(***************************************************************************)
EXTENDS Integers, FiniteSets, Functions, TLC

CONSTANTS
    Letters,       \* the mails a behaviour may be about, see Letter
    MaxRewrites    \* bound: headers changed in transit

ASSUME MimeHeadersAssumption == MaxRewrites \in Nat

Kinds == {"text", "edit", "avatar", "pre", "post", "mdn", "added",
          "request", "withauth", "pubkey"}

\* A mail about to be rendered.  client: "core" is this program, "old" a version
\* of it that put hidden headers into the first part of a multipart/mixed, and
\* "other" a PGP/MIME program without header protection.  known: the receiver has
\* the sender's key stored; expected: whose signature a symmetric secret demands, or
\* "lost" when the receiver cannot decrypt.
Letter(kind, client, enc, signed, known, expected, own, bcc, level) ==
    [kind |-> kind, client |-> client, enc |-> enc, signed |-> signed,
     known |-> known, expected |-> expected, own |-> own, bcc |-> bcc,
     level |-> level]

VARIABLES
    letter,      \* the mail
    outer,       \* its outer headers, as they are now
    inner,       \* the headers of its encrypted part
    first,       \* the headers of the first part of a multipart/mixed
    gossip,      \* the addresses named by its Autocrypt-Gossip headers
    gossiped,    \* the addresses of gossip_timestamp rows younger than the period
    stage,       \* "queued", "sent" or "parsed"
    rewrites,    \* the number of headers changed in transit
    parsed       \* what the receiver made of it

headerVars == <<letter, outer, inner, first, gossip, gossiped, stage, rewrites, parsed>>

NoHeaders == [h \in {} |-> <<"", "">>]

Without(headers, names) == Restrict(headers, DOMAIN headers \ names)

By(headers, name) == IF name \in DOMAIN headers THEN headers[name][1] ELSE "nobody"

Says(headers, name) == IF name \in DOMAIN headers THEN headers[name][2] ELSE ""

-----------------------------------------------------------------------------
(* Rendering: mimefactory.rs                                               *)

\* Importance::header_importance and header_x_priority: nothing for Normal.
ImportanceHeaders(level) ==
    CASE level = "high" -> ("importance" :> <<"sender", "high">>) @@
                           ("x-priority" :> <<"sender", "1">>)
      [] level = "low"  -> ("importance" :> <<"sender", "low">>) @@
                           ("x-priority" :> <<"sender", "5">>)
      [] OTHER          -> NoHeaders

\* MimeFactory::render_headers: what every mail carries, a receipt less.
RenderHeaders(l) ==
    LET mdn == {"date", "to", "subject", "chat-version", "auto-submitted"}
        msg == {"date", "to", "cc", "subject", "in-reply-to", "chat-version",
                "chat-group-id", "chat-disposition-notification-to"}
        own == CASE l.kind = "edit" -> {"chat-edit"}
                 [] l.kind = "post" -> {"chat-is-post-message"}
                 [] l.kind = "pre"  -> {"chat-post-message-id"}
                 [] OTHER           -> {}
    IN  [h \in IF l.kind = "mdn" THEN mdn ELSE msg \cup own |-> <<"sender", "">>]
        @@ ImportanceHeaders(IF l.kind = "mdn" THEN "normal" ELSE l.level)

\* MimeFactory::render_message: the headers of the command and of the contents.
RenderMessage(l) ==
    CASE l.kind = "request"  -> "secure-join" :> <<"sender", "vc-request">>
      [] l.kind = "withauth" ->
            ("secure-join" :> <<"sender", "vc-request-with-auth">>) @@
            [h \in {"secure-join-auth", "secure-join-fingerprint"} |-> <<"sender", "">>]
      [] l.kind = "added"    -> "chat-verified" :> <<"sender", "">>
      [] l.kind = "avatar" /\ l.enc # "no" -> "chat-user-avatar" :> <<"sender", "">>
      [] OTHER               -> NoHeaders

\* render_symm_encrypted_securejoin_message: the request a joiner sends unsigned.
RenderSecurejoin ==
    [h \in {"to", "date", "subject", "secure-join-auth"} |-> <<"sender", "">>]
    @@ ("secure-join" :> <<"sender", "vc-request-pubkey">>)

\* MimeFactory::into_queued_mail: the headers of the raw message.  An unencrypted
\* receipt is rendered without any of them.
RawMessage(l) ==
    CASE l.kind = "pubkey"                 -> RenderSecurejoin
      [] l.kind = "mdn" /\ l.enc = "no"    -> NoHeaders
      [] OTHER                             -> RenderMessage(l) @@ RenderHeaders(l)

\* from_msg: the addresses whose keys the mail is encrypted to.
EncryptionPubkeys(l) ==
    IF l.kind = "mdn" THEN {"t"} ELSE {"t", "c"} \cup (IF l.bcc THEN {"b"} ELSE {})

\* into_queued_mail: which keys are gossiped, and the timestamps it records.
Gossip(l, recent) ==
    IF l.enc # "asym" \/ l.kind \in {"post", "mdn"} THEN {}
    ELSE IF l.kind \in {"added", "withauth"} THEN EncryptionPubkeys(l)
    ELSE {a \in EncryptionPubkeys(l) : Cardinality(EncryptionPubkeys(l)) > 1 /\ a \notin recent}

\* render_queued_mail: the copies of inner headers that go outside.
CopiedOutside(raw) ==
    [h \in DOMAIN raw \cap {"chat-version", "chat-is-post-message", "subject", "to"} |->
        IF h \in {"subject", "to"} THEN <<"blank", "">> ELSE raw[h]]

\* render_queued_mail: From, Date, Message-ID and Autocrypt around the raw message.
RenderQueuedMail(l) ==
    LET raw      == RawMessage(l)
        ids      == [h \in {"from", "message-id"} |-> <<"sender", "">>]
        key      == IF l.kind = "pubkey" THEN NoHeaders
                    ELSE "autocrypt" :> <<"sender", "">>
    IN  IF l.enc = "no"
        THEN [outer |-> raw @@ ids @@ key, inner |-> NoHeaders, first |-> NoHeaders]
        ELSE [outer |-> CopiedOutside(raw) @@ ids @@ ("date" :> <<"blank", "">>),
              inner |-> raw @@ ids @@ key,
              first |-> NoHeaders]

\* What programs that are not this one send: the old layout of hidden headers, and
\* PGP/MIME that protects no header or only the classic ones (external).
RenderElsewhere(l) ==
    LET classic == [h \in {"from", "to", "date", "subject", "message-id"} |-> <<"sender", "">>]
    IN  CASE l.client = "old" ->
               [outer |-> RenderHeaders([l EXCEPT !.kind = "text"]) @@ classic,
                inner |-> NoHeaders,
                first |-> [h \in {"message-id", "chat-edit"} |-> <<"sender", "">>]]
          [] OTHER ->
               [outer |-> classic @@ ImportanceHeaders(l.level) @@
                          ("autocrypt" :> <<"sender", "">>),
                inner |-> IF l.kind = "text" THEN NoHeaders
                          ELSE [h \in {"from", "chat-verified", "secure-join-auth"} |->
                                   <<"sender", "">>],
                first |-> NoHeaders]

Render ==
    /\ stage = "queued"
    /\ LET mail == IF letter.client = "core" THEN RenderQueuedMail(letter)
                   ELSE RenderElsewhere(letter)
       IN  /\ outer' = mail.outer
           /\ inner' = mail.inner
           /\ first' = mail.first
    /\ gossip' = IF letter.client = "core" THEN Gossip(letter, gossiped) ELSE {}
    /\ gossiped' = gossiped \cup gossip'
    /\ stage' = "sent"
    /\ UNCHANGED <<letter, rewrites, parsed>>

-----------------------------------------------------------------------------
(* In transit: the world outside the repository                            *)

Rewritable == {"from", "to", "subject", "message-id", "list-id", "importance",
               "chat-group-id", "chat-edit", "chat-verified", "secure-join-auth",
               "secure-join-fingerprint"}

\* A list server, a gateway or an archive changes or drops an outer header.
Rewrite ==
    /\ stage = "sent" /\ rewrites < MaxRewrites
    /\ \/ \E h \in Rewritable : outer' = (h :> <<"transit", "high">>) @@ outer
       \/ \E step \in {"vc-request", "vc-request-with-auth", "vc-request-pubkey"} :
              outer' = ("secure-join" :> <<"transit", step>>) @@ outer
       \/ \E h \in DOMAIN outer \ {"from"} : outer' = Without(outer, {h})
       \/ /\ "message-id" \in DOMAIN outer
          /\ outer' = ("x-microsoft-original-message-id" :> outer["message-id"]) @@
                      ("message-id" :> <<"transit", "">>) @@ outer
    /\ rewrites' = rewrites + 1
    /\ UNCHANGED <<letter, inner, first, gossip, gossiped, stage, parsed>>

-----------------------------------------------------------------------------
(* Parsing: mimeparser.rs                                                  *)

\* is_protected: an outer value is ignored once there is a decrypted part.
IsProtected(h) ==
    h \in {"date", "from", "to", "cc", "message-id", "in-reply-to", "auto-submitted",
           "secure-join", "chat-version", "chat-group-id", "chat-verified", "chat-edit",
           "chat-user-avatar", "chat-is-post-message", "chat-post-message-id",
           "chat-disposition-notification-to"}

\* is_hidden: ignored among the headers of the mail itself.
IsHidden(h) == h \in {"chat-user-avatar", "chat-edit"}

MutMergeHeaders(headers, fields, hp) ==
    fields @@ Without(headers, {h \in DOMAIN headers : IsProtected(h)})

\* merge_headers: the headers of a part over those gathered so far.
MergeHeaders(headers, fields, hp) ==
    fields @@ Without(headers, {h \in DOMAIN headers : hp \/ IsProtected(h)})

\* from_bytes: the hidden headers and the Message-ID of the first part.
HiddenHeaders(headers, part) ==
    Restrict(part, {h \in DOMAIN part :
                       (h \notin DOMAIN headers /\ IsHidden(h)) \/ h = "message-id"}) @@ headers

\* from_bytes: the Message-ID Exchange put aside.
OriginalMessageId(headers) ==
    IF "x-microsoft-original-message-id" \notin DOMAIN headers THEN headers
    ELSE ("message-id" :> headers["x-microsoft-original-message-id"]) @@
         Without(headers, {"x-microsoft-original-message-id"})

\* remove_secured_headers: what a mail without a valid signature may not say.
RemoveSecuredHeaders(headers, encrypted) ==
    LET step   == Says(headers, "secure-join")
        always == {"secure-join-fingerprint", "chat-verified"}
    IN  Without(headers,
            IF step = "vc-request-pubkey" /\ encrypted THEN always
            ELSE always \cup {"secure-join-auth"} \cup
                 (IF step = "vc-request" THEN {} ELSE {"secure-join"}))

\* decrypt and its lookups of the symmetric secret: there is a decrypted part when
\* the mail is encrypted and the receiver still has the key or the secret.
Decrypts(l) == l.enc # "no" /\ l.expected # "lost"

\* from_bytes: the key of the Autocrypt header (of the inner one if there is one),
\* when it is for the address of the outer From, and the stored key of the issuer.
Keyring(l, out, in) ==
    LET header == IF "autocrypt" \in DOMAIN in THEN in ELSE out
    IN  \/ l.own \/ l.known
        \/ By(header, "autocrypt") = "sender" /\ By(out, "from") = "sender"

\* valid_signature_fingerprints over that keyring.
SignatureValid(l, out, in) == Decrypts(l) /\ l.signed /\ Keyring(l, out, in)

Recipients(headers) ==
    (IF By(headers, "to") = "sender" THEN {"t"} ELSE {})
        \cup (IF By(headers, "cc") = "sender" THEN {"c"} ELSE {})

\* parse_gossip_headers: only keys of addressees, and not the sender's own.
ParseGossipHeaders(recipients, named) == {a \in named : a \in recipients /\ a # "s"}

\* importance::from_headers over the three headers.
FromHeaders(headers) ==
    IF Says(headers, "importance") \in {"high", "low"} THEN Says(headers, "importance")
    ELSE CASE Says(headers, "x-priority") = "1" -> "high"
           [] Says(headers, "x-priority") = "5" -> "low"
           [] OTHER                             -> "normal"

NotParsed == [error |-> TRUE, headers |-> NoHeaders, from |-> "nobody", signed |-> FALSE,
            keys |-> {}, mode |-> "none", level |-> "normal"]

\* from_bytes up to the parsing of the body.
FromBytes(l, out, sealed, part, named) ==
    LET hp       == l.client = "core"
        in       == IF Decrypts(l) THEN sealed ELSE NoHeaders
        valid    == SignatureValid(l, out, in)
        visible  == Without(MergeHeaders(NoHeaders, out, FALSE), {h \in DOMAIN out : IsHidden(h)})
        imf      == RemoveSecuredHeaders(OriginalMessageId(HiddenHeaders(visible, part)), FALSE)
        trusted  == IF valid THEN Without(imf, {"subject", "list-id"}) ELSE imf
        merged   == IF Decrypts(l) THEN MergeHeaders(trusted, in, hp) ELSE imf
        final    == IF valid THEN merged ELSE RemoveSecuredHeaders(merged, Decrypts(l))
        \* the recipients are replaced when the part names any, or is protected
        to       == IF Decrypts(l) /\ (hp \/ Recipients(in) # {}) THEN in ELSE out
        sender   == IF "from" \in DOMAIN in THEN By(in, "from") ELSE By(out, "from")
        forged   == "from" \in DOMAIN in /\ By(in, "from") # By(out, "from") /\ ~valid
        demanded == /\ Decrypts(l) /\ l.enc = "symm" /\ l.expected # "anyone"
                    /\ ~(valid /\ l.expected = "sender")
    IN  IF "from" \notin DOMAIN out \/ forged \/ demanded THEN NotParsed
        ELSE [error   |-> FALSE,
              headers |-> final,
              from    |-> sender,
              signed  |-> valid,
              keys    |-> IF valid THEN ParseGossipHeaders(Recipients(to), named) ELSE {},
              mode    |-> IF "chat-post-message-id" \in DOMAIN in THEN "pre"
                          ELSE IF "chat-is-post-message" \in DOMAIN out THEN "post" ELSE "none",
              level   |-> FromHeaders(final)]

Parse ==
    /\ stage = "sent"
    /\ parsed' = FromBytes(letter, outer, inner, first, gossip)
    /\ stage' = "parsed"
    /\ UNCHANGED <<letter, outer, inner, first, gossip, gossiped, rewrites>>

-----------------------------------------------------------------------------

HeadersStart(L, G) ==
    /\ letter \in L
    /\ gossiped \in G
    /\ outer = NoHeaders /\ inner = NoHeaders /\ first = NoHeaders
    /\ gossip = {} /\ stage = "queued" /\ rewrites = 0 /\ parsed = NotParsed

HeadersInit == HeadersStart(Letters, SUBSET {"t", "c"})

HeadersNext == Render \/ Rewrite \/ Parse

HeadersSpec == HeadersInit /\ [][HeadersNext]_headerVars

-----------------------------------------------------------------------------
(* Properties                                                              *)

HeadersTypeOK ==
    /\ letter \in Letters /\ letter.kind \in Kinds
    /\ \A f \in {outer, inner, first, parsed.headers} :
          \A h \in DOMAIN f : f[h][1] \in {"sender", "transit", "blank"}
    /\ gossip \subseteq {"s", "t", "c", "b"} /\ gossiped \subseteq {"s", "t", "c", "b"}
    /\ stage \in {"queued", "sent", "parsed"} /\ rewrites \in 0..MaxRewrites
    /\ parsed.from \in {"sender", "transit", "nobody"}

\* Outside the encryption a relay reads the sender's address, the Message-ID and the
\* two chat markers, and nothing else the sender wrote: not the subject, not the
\* recipients, not the date (render_queued_mail).
SealedOutside ==
    letter.client = "core" /\ letter.enc # "no" =>
        \A h \in DOMAIN outer : outer[h][1] = "sender" =>
            h \in {"from", "message-id", "chat-version", "chat-is-post-message",
                   "x-microsoft-original-message-id"}

\* A mail of this program whose signature is valid is read as it was written, header
\* for header, whatever was done to its outer headers on the way: none is added,
\* replaced or lost, and the importance shown is the sender's (from_bytes).
SignedAsWritten ==
    (stage = "parsed" /\ parsed.signed /\ letter.client = "core") =>
        /\ parsed.headers = inner
        /\ parsed.from = "sender"
        /\ parsed.level = letter.level

\* Of a signed mail of any program, no protected header, subject or list comes
\* from the way: it says what the signer said or nothing (merge_headers).
SignedNeverFromTransit ==
    stage = "parsed" /\ parsed.signed =>
        \A h \in DOMAIN parsed.headers : parsed.headers[h][1] = "transit" =>
            h \in {"importance", "x-priority", "autocrypt"}

\* Handshake secrets, verification marks and other people's keys are taken from
\* signed mails only; the one exception is the joiner's unsigned pubkey request,
\* which must have been encrypted (remove_secured_headers).
SecuredNeedSignature ==
    stage = "parsed" /\ ~parsed.error /\ ~parsed.signed =>
        /\ {"chat-verified", "secure-join-fingerprint"} \cap DOMAIN parsed.headers = {}
        /\ "secure-join-auth" \in DOMAIN parsed.headers =>
              letter.enc # "no" /\ Says(parsed.headers, "secure-join") = "vc-request-pubkey"
        /\ parsed.keys = {}

\* A decrypted mail is never shown as coming from an address other than the one its
\* encrypted part names: it is refused instead (the check for a forged From).
SenderCertain ==
    (stage = "parsed" /\ ~parsed.error /\ Decrypts(letter) /\ "from" \in DOMAIN inner) => parsed.from = "sender"

\* Only keys of people the mail is openly addressed to are learnt from it, even when
\* it names others (parse_gossip_headers).
LearntFromAddressees == parsed.keys \subseteq {"t", "c"}

\* A mail nothing was done to arrives with everything it was meant to say, but for
\* the two kinds of EditsArrive and ReceiptsMarked below.
ArrivesWhole ==
    (stage = "parsed" /\ rewrites = 0 /\ letter.client = "core" /\ ~parsed.error
        /\ (Decrypts(letter) \/ letter.enc = "no")
        /\ (letter.enc # "no" \/ letter.kind \notin {"edit", "mdn"})) =>
        /\ DOMAIN RawMessage(letter) \subseteq DOMAIN parsed.headers
        /\ parsed.mode = (IF letter.kind \in {"pre", "post"} THEN letter.kind ELSE "none")

\* A request to edit a message is understood as one by the other side ("Sends chat
\* members a request to edit the given message's text", chat.rs).  It fails for
\* messages that are not encrypted: Chat-Edit is rendered among the headers of the
\* mail, where the parser ignores it.
EditsArrive ==
    (stage = "parsed" /\ rewrites = 0 /\ letter.kind = "edit" /\ parsed.from = "sender") =>
        "chat-edit" \in DOMAIN parsed.headers

\* A receipt is marked as an automatic answer, as render_headers does for RFC 3834.
\* It fails for unencrypted receipts, which are rendered without these headers.
ReceiptsMarked ==
    (stage = "parsed" /\ rewrites = 0 /\ letter.kind = "mdn" /\ parsed.from = "sender") =>
        "auto-submitted" \in DOMAIN parsed.headers

\* "Bcc addresses go into the SMTP envelope and the encryption key set, and into no
\* header at all" (compose.rs).  It fails: the key of a Bcc recipient is gossiped to
\* the others in an Autocrypt-Gossip header that names the address.
BccInNoHeader == "b" \notin gossip

\* Headers arrive as written and are believed only as far as they are signed.
HeadersSafe ==
    /\ HeadersTypeOK /\ SealedOutside /\ SignedAsWritten /\ SignedNeverFromTransit
    /\ SecuredNeedSignature /\ SenderCertain /\ LearntFromAddressees /\ ArrivesWhole
=============================================================================
