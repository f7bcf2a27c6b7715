------------------------------ MODULE Network -------------------------------
(***************************************************************************)
(* How the device comes to talk to a server (net.rs, net/dns.rs, net/tls,  *)
(* net/http.rs, imap/client.rs, smtp/connect.rs): the addresses of a name  *)
(* with their two caches, the attempts to connect to them, the keys that   *)
(* are remembered of servers, and the cache of pages; then the servers     *)
(* that a login may use (configure.rs) and the login itself (imap.rs).     *)
(***************************************************************************)
EXTENDS Integers, Sequences, FiniteSets, SequencesExt

CONSTANTS
    Dials,          \* connections that are made to the server: one per protocol and port
    HostAddrs,      \* the addresses that its name may have
    Host,           \* its name, which is its address behind a proxy
    Answers,        \* what a resolver may answer
    Preload,        \* the addresses of DNS_PRELOAD
    Certificates,   \* what servers show: [spki, valid] with valid for a chain to a root, in its time
    SelfSigned,     \* whether the name begins with `_`
    CacheTTL,       \* CACHE_TTL, and that of the keys
    MaxListed,      \* addresses that merge_with_cache returns at most
    MaxDelays,      \* delays after which another attempt is begun
    MaxNetNow,      \* bound on the clock
    Urls, Https,    \* pages, and those of them that come over TLS
    Readers,        \* calls of read_url_blob that may be under way
    MaxHops,        \* redirects that are followed
    WebExpires, WebStale, Grace, FarAhead,   \* how long a page is kept, is current, is not asked for again
    MaxWebNow, MaxWebActs,                   \* bounds on the clock, and on calls, cleanups and deaths
    Loaders, MaxLoads,   \* who reads the proxy's settings, and how often
    Domain,         \* of the address that is set up, as a list of labels
    Entered,        \* what the user may enter: [imap, smtp, checks, legacy]
    Documents,      \* what a domain may answer: lists of servers
    Loops,          \* IMAP loops, one per relay
    BackoffMin, BackoffMax, MaxLoginActs,
    NetThemes       \* [dials, kinds, ops, acts] of a behaviour: who dials how, what else happens, how often

\* How a connection is made: with certificates checked, with any accepted, or without TLS.
DialKinds == [security : {"strict", "relaxed", "plain"}, proxied : BOOLEAN]

ASSUME NetworkAssumption ==
    /\ Host \notin HostAddrs
    /\ IsFiniteSet(HostAddrs)
    /\ Answers \subseteq Seq(HostAddrs) /\ Preload \in Seq(HostAddrs)
    /\ \A i, j \in DOMAIN Preload : i # j => Preload[i] # Preload[j]
    /\ \A c \in Certificates : c.valid \in BOOLEAN /\ c.spki # "none"
    /\ SelfSigned \in BOOLEAN
    /\ CacheTTL \in Nat /\ MaxListed \in Nat /\ MaxDelays \in Nat
    /\ MaxNetNow \in Nat \ {0}
    /\ Https \subseteq Urls /\ "none" \notin Urls
    /\ {MaxHops, WebExpires, WebStale, Grace, FarAhead, MaxWebNow, MaxWebActs} \subseteq Nat
    /\ {BackoffMin, BackoffMax, MaxLoginActs, MaxLoads} \subseteq Nat /\ BackoffMin <= BackoffMax
    /\ \A t \in NetThemes : t.dials \subseteq Dials /\ t.kinds \subseteq DialKinds /\ t.acts \in Nat

NoPin == "none"
Spots == HostAddrs \cup {Host}

VARIABLES
    netTheme,    \* of NetThemes
    netNow,      \* time()
    netActs,     \* what has happened, of the theme's acts
    memory,      \* LOOKUP_HOST_CACHE for the name: <<>> or <<answer>>
    lookups,     \* lookups in the background that are under way
    names,       \* dns_cache: address -> timestamp, 0 for no row
    connHistory, \* connection_history: dial -> address -> timestamp
    pins,        \* SpkiHashStore.hash_store for the name
    pinRow,      \* tls_spki: [spki, at]
    cleaning,    \* cleanup() deleted the row and has not taken the lock
    dialAt,      \* dial -> where it is
    dialKind,    \* dial -> one of DialKinds
    since,       \* dial -> when it began
    answer,      \* dial -> what the name was resolved to
    toTry,       \* dial -> addresses to try
    tries,       \* dial -> attempts begun, in that order: [at, spki]
    delayed,     \* dial -> delays that are over
    winner,      \* dial -> the key of the server it is connected to
    vouched,     \* history: keys that were shown with a valid chain
    met,         \* history: what was reached, <<dial, address>>
    webNow, webActs,   \* time(), and what has happened
    webCache,    \* http_cache with the blobs: URL -> [page, expires, stale]
    reading,     \* calls of read_url_blob, and what they do in the background
    refreshed,   \* history: URL -> when a page that was too old was last returned
    served,      \* history: what was returned from the cache
    proxy,       \* the settings [url, enabled, socksEnabled, socksHost]
    loading,     \* who reads them -> where it is
    loads, wanted, muddled,   \* history: reads, what the user had set, whether one read met another or death
    found,       \* what was last read
    setup,       \* what is being configured: [at, source, entered, servers]
    loginActs,   \* logins, configurations and deaths
    imapServers, \* IMAP servers of the relay, as configured
    legacyConfig,   \* what save_legacy wrote
    notify,      \* NotifyAboutWrongPw
    setups, warned, unnoted,   \* history: configurations, warnings, resets of notify that did not happen
    warnLock,    \* wrong_pw_warning_mutex: who holds it
    loginAt, untried,   \* loop -> where it is, candidates left
    backoff, once,      \* loop -> conn_backoff_ms, authentication_failed_once
    refusals     \* history: loop -> refusals in a row, up to 2

netVars == <<netTheme, netNow, netActs, memory, lookups, names, connHistory, pins, pinRow, cleaning, dialAt, dialKind,
             since, answer, toTry, tries, delayed, winner, vouched, met>>
webVars == <<webNow, webActs, webCache, reading, refreshed, served>>
proxyVars == <<proxy, loading, loads, wanted, muddled, found>>
warnings == <<notify, warned, unnoted>>
loopVars == <<warnLock, loginAt, untried, backoff, once, refusals>>
loginVars == <<setup, loginActs, imapServers, legacyConfig, setups, warnings, loopVars>>
clocks == <<netTheme, netNow, netActs>>
resolver == <<memory, lookups>>
pinStore == <<pins, pinRow, cleaning, vouched>>
dialing == <<dialAt, dialKind, since, answer, toTry, tries, delayed, winner>>

NetAct(o) == o \in netTheme.ops /\ netActs < netTheme.acts /\ netActs' = netActs + 1 /\ UNCHANGED netTheme

-----------------------------------------------------------------------------
(* The addresses of a name. *)

\* Sorted by a key, the largest first, what is equal as it was.  This and the lists below
\* are given as sets with one list in them.
SortedBy(s, key) ==
    LET ahead(i, j) == key[s[i]] > key[s[j]] \/ (key[s[i]] = key[s[j]] /\ i < j)
        orders == {p \in [DOMAIN s -> DOMAIN s] : \A i, j \in DOMAIN s : i < j => ahead(p[i], p[j])}
    IN  {[i \in DOMAIN s |-> s[p[i]]] : p \in orders}

\* lookup_cache: rows that are not too old, by the last connection or else by the row's own
\* time; those of one time in any order.
CachedLists(d) ==
    LET at(a) == IF connHistory[d][a] > 0 THEN connHistory[d][a] ELSE names[a]
    IN  {s \in SetToSeqs({a \in HostAddrs : names[a] > 0 /\ since[d] < names[a] + CacheTTL}) :
           \A i, j \in DOMAIN s : i < j => at(s[i]) >= at(s[j])}

\* What a list has at some positions, in their order
Picked(s, ix) ==
    LET up == {f \in [1..Cardinality(ix) -> ix] : \A i, j \in 1..Cardinality(ix) : i < j => f[i] < f[j]}
    IN  {[i \in 1..Cardinality(ix) |-> s[f[i]]] : f \in up}

WithPreload(cache) == {cache \o l : l \in Picked(Preload, {i \in DOMAIN Preload : ~Contains(cache, Preload[i])})}

\* merge_with_cache: two that were resolved, then the cache and the others without what is
\* there already, until there are enough
MergeWithCache(resolved, cache) ==
    LET n == IF Len(resolved) < 2 THEN Len(resolved) ELSE 2
        first == SubSeq(resolved, 1, n)
        rest == cache \o SubSeq(resolved, n + 1, Len(resolved))
        new == {i \in DOMAIN rest : ~Contains(first \o SubSeq(rest, 1, i - 1), rest[i])}
    IN  {first \o l : l \in Picked(rest, {i \in new : Cardinality({j \in new : j < i}) < MaxListed - n})}

\* What is authenticated may use addresses that were seen before.
BugLoadCache(k) == k.security # "plain"
LoadCache(k) == k.security = "strict"

ServerLists(d) ==
    LET resolved == SortedBy(answer[d], connHistory[d])
        cached == UNION {WithPreload(c) : c \in CachedLists(d)}
    IN  IF LoadCache(dialKind[d]) THEN UNION {MergeWithCache(r, c) : r \in resolved, c \in cached} ELSE resolved

\* Client::connect and connect_stream; a proxy resolves the name itself.  What is in
\* memory is used at once, and looked up again in the background.
Dial(d, k) ==
    /\ dialAt[d] \in {"idle", "connected", "failed"}
    /\ d \in netTheme.dials /\ k \in netTheme.kinds /\ NetAct("dial")
    /\ dialKind' = [dialKind EXCEPT ![d] = k]
    /\ since' = [since EXCEPT ![d] = netNow]
    /\ winner' = [winner EXCEPT ![d] = NoPin]
    /\ delayed' = [delayed EXCEPT ![d] = 0]
    /\ \/ /\ k.proxied
          /\ dialAt' = [dialAt EXCEPT ![d] = "trying"]
          /\ toTry' = [toTry EXCEPT ![d] = <<Host>>]
          /\ tries' = [tries EXCEPT ![d] = <<[at |-> "dial", spki |-> NoPin]>>]
          /\ answer' = [answer EXCEPT ![d] = <<>>]
          /\ UNCHANGED lookups
       \/ /\ ~k.proxied
          /\ dialAt' = [dialAt EXCEPT ![d] = IF memory = <<>> THEN "resolving" ELSE "answered"]
          /\ answer' = [answer EXCEPT ![d] = IF memory = <<>> THEN <<>> ELSE memory[1]]
          /\ toTry' = [toTry EXCEPT ![d] = <<>>]
          /\ tries' = [tries EXCEPT ![d] = <<>>]
          /\ lookups' = IF memory = <<>> THEN lookups ELSE lookups + 1
    /\ UNCHANGED <<netNow, memory, names, connHistory, pinStore, met>>

\* lookup_host_with_memory_cache without a result in memory
Resolve(d, s) ==
    /\ dialAt[d] = "resolving"
    /\ memory' = <<s>>
    /\ answer' = [answer EXCEPT ![d] = s]
    /\ dialAt' = [dialAt EXCEPT ![d] = "answered"]
    /\ UNCHANGED <<clocks, lookups, names, connHistory, pinStore, dialKind, since, toTry, tries,
                   delayed, winner, met>>

\* No answer, or none in TIMEOUT
ResolveFails(d) ==
    /\ dialAt[d] = "resolving"
    /\ dialAt' = [dialAt EXCEPT ![d] = "named"]
    /\ UNCHANGED <<clocks, resolver, names, connHistory, pinStore, dialKind, since, answer, toTry, tries, delayed,
                   winner, met>>

\* The lookup in the background ends.
Relook ==
    /\ lookups > 0
    /\ lookups' = lookups - 1
    /\ memory' \in {<<s>> : s \in Answers} \cup {memory}
    /\ UNCHANGED <<clocks, names, connHistory, pinStore, dialing, met>>

\* update_cache for each address, with the time at which the lookup began
SaveNames(d) ==
    /\ dialAt[d] = "answered"
    /\ names' = [a \in HostAddrs |-> IF a \in ToSet(answer[d]) THEN since[d] ELSE names[a]]
    /\ dialAt' = [dialAt EXCEPT ![d] = "named"]
    /\ UNCHANGED <<clocks, resolver, connHistory, pinStore, dialKind, since, answer, toTry, tries,
                   delayed, winner, met>>

\* The rest of lookup_host_with_cache, and the first attempt.
ListAddrs(d) ==
    /\ dialAt[d] = "named"
    /\ \E l \in ServerLists(d) :
         /\ toTry' = [toTry EXCEPT ![d] = l]
         /\ tries' = [tries EXCEPT ![d] = IF l = <<>> THEN <<>> ELSE <<[at |-> "dial", spki |-> NoPin]>>]
         /\ dialAt' = [dialAt EXCEPT ![d] = IF l = <<>> THEN "failed" ELSE "trying"]
    /\ UNCHANGED <<clocks, resolver, names, connHistory, pinStore, dialKind, since, answer, delayed, winner, met>>

-----------------------------------------------------------------------------
(* The attempts to connect. *)

Running(d) == {i \in DOMAIN tries[d] : tries[d][i].at # "failed"}
Stage(d, i, at) == dialAt[d] = "trying" /\ i \in DOMAIN tries[d] /\ tries[d][i].at = at
Attempt(d, i, at, k) == tries' = [tries EXCEPT ![d] = [@ EXCEPT ![i] = [at |-> at, spki |-> k]]]
Untouched == UNCHANGED <<clocks, resolver, dialAt, dialKind, since, answer, toTry, delayed, winner>>

\* run_connection_attempts takes the next address, if there is one.
WithNext(s, l) == IF Len(s) < Len(l) THEN Append(s, [at |-> "dial", spki |-> NoPin]) ELSE s

\* connect_tcp_inner
ConnectTcp(d, i) ==
    /\ Stage(d, i, "dial") /\ ~dialKind[d].proxied
    /\ Attempt(d, i, "tcp", NoPin)
    /\ Untouched /\ UNCHANGED <<names, connHistory, pinStore, met>>

\* ProxyConfig::connect: a proxy, whose own name is looked up like any other, is asked for the server.
Tunnel(d, i) ==
    /\ Stage(d, i, "dial") /\ dialKind[d].proxied
    /\ Attempt(d, i, "tcp", NoPin)
    /\ Untouched /\ UNCHANGED <<names, connHistory, pinStore, met>>

\* Without TLS
ReachPlain(d, i) ==
    /\ Stage(d, i, "tcp") /\ dialKind[d].security = "plain"
    /\ Attempt(d, i, "greet", NoPin)
    /\ met' = met \cup {<<d, toTry[d][i]>>}
    /\ Untouched /\ UNCHANGED <<names, connHistory, pinStore>>

\* wrap_tls with native_tls, which accepts every certificate and remembers none
ReachRelaxed(d, i) ==
    /\ Stage(d, i, "tcp") /\ dialKind[d].security = "relaxed"
    /\ Attempt(d, i, "greet", NoPin)
    /\ met' = met \cup {<<d, toTry[d][i]>>}
    /\ Untouched /\ UNCHANGED <<names, connHistory, pinStore>>

\* get_spki_hash: from memory, else from the table
GetSpkiHash(d, i) ==
    /\ Stage(d, i, "tcp") /\ dialKind[d].security = "strict"
    /\ Attempt(d, i, IF pins = NoPin /\ pinRow.at > 0 THEN "pin" ELSE "tls",
              IF pins = NoPin /\ pinRow.at > 0 THEN pinRow.spki ELSE pins)
    /\ Untouched /\ UNCHANGED <<names, connHistory, pinStore, met>>

\* ... and what was in the table goes to memory.
InsertSpkiHash(d, i) ==
    /\ Stage(d, i, "pin")
    /\ Attempt(d, i, "tls", tries[d][i].spki)
    /\ pins' = tries[d][i].spki
    /\ Untouched /\ UNCHANGED <<names, connHistory, pinRow, cleaning, vouched, met>>

\* verify_server_cert
Trusted(c, pin) == SelfSigned \/ c.spki = pin \/ c.valid

\* The TLS handshake of wrap_rustls, and the first half of save_spki
Handshake(d, i, c) ==
    /\ Stage(d, i, "tls") /\ Trusted(c, tries[d][i].spki)
    /\ Attempt(d, i, "save", c.spki)
    /\ pins' = c.spki
    /\ vouched' = IF c.valid THEN vouched \cup {c.spki} ELSE vouched
    /\ met' = met \cup {<<d, toTry[d][i]>>}
    /\ Untouched /\ UNCHANGED <<names, connHistory, pinRow, cleaning>>

\* The second half of save_spki
SaveSpki(d, i) ==
    /\ Stage(d, i, "save")
    /\ pinRow' = [spki |-> tries[d][i].spki, at |-> netNow]
    /\ Attempt(d, i, "greet", tries[d][i].spki)
    /\ Untouched /\ UNCHANGED <<names, connHistory, pins, cleaning, vouched, met>>

\* The greeting was read, with STARTTLS before the handshake.
Greeted(d, i) ==
    /\ Stage(d, i, "greet")
    /\ Attempt(d, i, IF dialKind[d].security = "strict" /\ ~dialKind[d].proxied THEN "note" ELSE "record",
               tries[d][i].spki)
    /\ Untouched /\ UNCHANGED <<names, connHistory, pinStore, met>>

\* update_connect_timestamp
UpdateConnectTimestamp(d, i) ==
    /\ Stage(d, i, "note")
    /\ names' = [names EXCEPT ![toTry[d][i]] = netNow]
    /\ Attempt(d, i, "record", tries[d][i].spki)
    /\ Untouched /\ UNCHANGED <<connHistory, pinStore, met>>

\* update_connection_history
UpdateConnectionHistory(d, i) ==
    /\ Stage(d, i, "record")
    /\ connHistory' = [connHistory EXCEPT ![d] = [@ EXCEPT ![toTry[d][i]] = netNow]]
    /\ Attempt(d, i, "up", tries[d][i].spki)
    /\ Untouched /\ UNCHANGED <<names, pinStore, met>>

\* An attempt fails, by itself or at a statement, and another begins.
AttemptFails(d, i) ==
    /\ dialAt[d] = "trying" /\ i \in Running(d) /\ tries[d][i].at # "up"
    /\ tries' = [tries EXCEPT ![d] = WithNext([@ EXCEPT ![i] = [at |-> "failed", spki |-> NoPin]], toTry[d])]
    /\ Untouched /\ UNCHANGED <<names, connHistory, pinStore, met>>

\* It takes long: one more attempt beside those under way.
DelayOver(d) ==
    /\ dialAt[d] = "trying" /\ Running(d) # {} /\ ~dialKind[d].proxied /\ delayed[d] < MaxDelays
    /\ delayed' = [delayed EXCEPT ![d] = @ + 1]
    /\ tries' = [tries EXCEPT ![d] = WithNext(@, toTry[d])]
    /\ UNCHANGED <<clocks, resolver, names, connHistory, pinStore, dialAt, dialKind, since, answer,
                   toTry, winner, met>>

\* The first that is up is taken, the others are aborted where they are.
AttemptWins(d, i) ==
    /\ Stage(d, i, "up")
    /\ winner' = [winner EXCEPT ![d] = tries[d][i].spki]
    /\ dialAt' = [dialAt EXCEPT ![d] = "connected"]
    /\ tries' = [tries EXCEPT ![d] = <<>>]
    /\ UNCHANGED <<clocks, resolver, names, connHistory, pinStore, dialKind, since, answer, toTry, delayed, met>>

AllFail(d) ==
    /\ dialAt[d] = "trying" /\ Running(d) = {}
    /\ dialAt' = [dialAt EXCEPT ![d] = "failed"]
    /\ UNCHANGED <<clocks, resolver, names, connHistory, pinStore, dialKind, since, answer, toTry, tries, delayed,
                   winner, met>>

-----------------------------------------------------------------------------
(* Housekeeping, the clock, and the end of the process. *)

Expired(t) == netNow > t + CacheTTL

PruneDnsCache ==
    /\ NetAct("prune") /\ names' = [a \in HostAddrs |-> IF Expired(names[a]) THEN 0 ELSE names[a]]
    /\ UNCHANGED <<netNow, resolver, connHistory, pinStore, dialing, met>>

PruneConnectionHistory ==
    /\ NetAct("prune")
    /\ connHistory' = [d \in Dials |-> [a \in Spots |-> IF Expired(connHistory[d][a]) THEN 0 ELSE connHistory[d][a]]]
    /\ UNCHANGED <<netNow, resolver, names, pinStore, dialing, met>>

\* SpkiHashStore::cleanup: its transaction, and what it removes from memory after it
CleanupRows ==
    /\ NetAct("clean") /\ pinRow.at > 0 /\ ~cleaning
    /\ cleaning' = Expired(pinRow.at)
    /\ pinRow' = CASE Expired(pinRow.at) -> [spki |-> NoPin, at |-> 0]
                   [] pinRow.at > netNow -> [pinRow EXCEPT !.at = netNow]
                   [] OTHER -> pinRow
    /\ UNCHANGED <<netNow, resolver, names, connHistory, pins, vouched, dialing, met>>

CleanupMemory ==
    /\ cleaning /\ cleaning' = FALSE
    /\ pins' = NoPin
    /\ UNCHANGED <<clocks, resolver, names, connHistory, pinRow, vouched, dialing, met>>

\* Time passes, or the clock is set.
ClockMoves ==
    /\ NetAct("clock") /\ netNow' \in 1..MaxNetNow \ {netNow}
    /\ UNCHANGED <<resolver, names, connHistory, pinStore, dialing, met>>

NetDies ==
    /\ NetAct("die")
    /\ memory' = <<>> /\ lookups' = 0 /\ pins' = NoPin /\ cleaning' = FALSE
    /\ dialAt' = [d \in Dials |-> "idle"]
    /\ answer' = [d \in Dials |-> <<>>] /\ toTry' = [d \in Dials |-> <<>>] /\ tries' = [d \in Dials |-> <<>>]
    /\ delayed' = [d \in Dials |-> 0] /\ winner' = [d \in Dials |-> NoPin]
    /\ UNCHANGED <<netNow, names, connHistory, pinRow, dialKind, since, vouched, met>>

NetInit ==
    /\ netTheme \in NetThemes /\ netNow = 1 /\ netActs = 0
    /\ memory = <<>> /\ lookups = 0
    /\ names = [a \in HostAddrs |-> 0] /\ connHistory = [d \in Dials |-> [a \in Spots |-> 0]]
    /\ pins = NoPin /\ pinRow = [spki |-> NoPin, at |-> 0] /\ cleaning = FALSE
    /\ dialAt = [d \in Dials |-> "idle"] /\ dialKind = [d \in Dials |-> [security |-> "plain", proxied |-> FALSE]]
    /\ since = [d \in Dials |-> 0]
    /\ answer = [d \in Dials |-> <<>>] /\ toTry = [d \in Dials |-> <<>>] /\ tries = [d \in Dials |-> <<>>]
    /\ delayed = [d \in Dials |-> 0] /\ winner = [d \in Dials |-> NoPin]
    /\ vouched = {} /\ met = {}

NetNext ==
    \/ \E d \in Dials :
         \/ \E k \in DialKinds : Dial(d, k)
         \/ \E s \in Answers : Resolve(d, s)
         \/ ResolveFails(d) \/ SaveNames(d) \/ ListAddrs(d)
         \/ \E i \in DOMAIN tries[d] :
              \/ ConnectTcp(d, i) \/ Tunnel(d, i) \/ Greeted(d, i)
              \/ ReachPlain(d, i) \/ ReachRelaxed(d, i) \/ GetSpkiHash(d, i) \/ InsertSpkiHash(d, i)
              \/ \E c \in Certificates : Handshake(d, i, c)
              \/ SaveSpki(d, i) \/ UpdateConnectTimestamp(d, i) \/ UpdateConnectionHistory(d, i)
              \/ AttemptFails(d, i) \/ AttemptWins(d, i)
         \/ DelayOver(d) \/ AllFail(d)
    \/ Relook \/ PruneDnsCache \/ PruneConnectionHistory \/ CleanupRows \/ CleanupMemory
    \/ ClockMoves \/ NetDies

-----------------------------------------------------------------------------
(* Pages, and the cache of them. *)

\* Whether a page is current is decided by the time of its row; a page that is too old is
\* returned once more, and fetched again behind the reader's back.
NoPage == [from |-> "none", sure |-> FALSE, at |-> 0]
NoEntry == [page |-> NoPage, expires |-> 0, stale |-> 0]
NoRead == [at |-> "idle", asked |-> "none", url |-> "none", strict |-> TRUE, hops |-> 0, since |-> 0,
           entry |-> NoEntry]

WebAct == webActs < MaxWebActs /\ webActs' = webActs + 1
Reads(r, at, e) == reading' = [reading EXCEPT ![r] = [e EXCEPT !.at = at]]

\* read_url_blob_with_tls, and the SELECT of http_cache_get.  Without checks of certificates the
\* cache is left alone.
ReadUrl(r, u, strict) ==
    /\ reading[r].at = "idle" /\ WebAct
    /\ LET hit == strict /\ webCache[u].expires > webNow
       IN  Reads(r, IF hit THEN "hit" ELSE "get",
                 [NoRead EXCEPT !.asked = u, !.url = u, !.strict = strict, !.since = webNow,
                                !.entry = IF hit THEN webCache[u] ELSE NoEntry])
    /\ UNCHANGED <<webNow, webCache, refreshed, served>>

\* The blob is gone, and the page is fetched as if there were no row.
BlobGone(r) ==
    /\ reading[r].at = "hit" /\ WebAct
    /\ Reads(r, "get", [reading[r] EXCEPT !.entry = NoEntry])
    /\ UNCHANGED <<webNow, webCache, refreshed, served>>

\* The UPDATE of http_cache_get, which finds whatever row there is now.
ServeCached(r) ==
    /\ reading[r].at = "hit"
    /\ LET u == reading[r].asked
           old == reading[r].since > reading[r].entry.stale
           until == IF old THEN reading[r].since + Grace ELSE reading[r].entry.stale
       IN  /\ webCache' = IF webCache[u].expires = 0 THEN webCache
                          ELSE [webCache EXCEPT ![u] = [@ EXCEPT !.expires = webNow + WebExpires, !.stale = until]]
           /\ refreshed' = IF old /\ reading[r].since > refreshed[u] THEN [refreshed EXCEPT ![u] = reading[r].since]
                         ELSE refreshed
           /\ Reads(r, IF old THEN "get" ELSE "idle", IF old THEN reading[r] ELSE NoRead)
    /\ served' = served \cup {[asked |-> reading[r].asked, page |-> reading[r].entry.page]}
    /\ UNCHANGED <<webNow, webActs>>

\* fetch_url follows so many redirects, and then gives up.
Redirected(r, u) ==
    /\ reading[r].at = "get"
    /\ IF reading[r].hops + 1 < MaxHops THEN Reads(r, "get", [reading[r] EXCEPT !.url = u, !.hops = @ + 1])
                                     ELSE Reads(r, "idle", NoRead)
    /\ UNCHANGED <<webNow, webActs, webCache, refreshed, served>>

\* No connection, a status that is no success, or a body that breaks off
FetchFails(r) ==
    /\ reading[r].at = "get"
    /\ Reads(r, "idle", NoRead)
    /\ UNCHANGED <<webNow, webActs, webCache, refreshed, served>>

\* The page comes, over a connection with or without TLS as get_http_sender makes it.
FetchPage(r) ==
    /\ reading[r].at = "get"
    /\ LET page == [from |-> reading[r].url, sure |-> reading[r].strict /\ reading[r].url \in Https, at |-> 0]
       IN  IF reading[r].strict THEN Reads(r, "put", [reading[r] EXCEPT !.entry = [NoEntry EXCEPT !.page = page]])
                             ELSE Reads(r, "idle", NoRead)
    /\ UNCHANGED <<webNow, webActs, webCache, refreshed, served>>

\* http_cache_put, under the last URL.  How long a page is current depends on its kind, and
\* is the same for all here.
CachePut(r) ==
    /\ reading[r].at = "put"
    /\ webCache' = [webCache EXCEPT ![reading[r].url] =
                      [page |-> [reading[r].entry.page EXCEPT !.at = webNow],
                       expires |-> webNow + WebExpires, stale |-> webNow + WebStale]]
    /\ Reads(r, "idle", NoRead)
    /\ UNCHANGED <<webNow, webActs, refreshed, served>>

HttpCacheCleanup ==
    /\ WebAct
    /\ webCache' = [u \in Urls |-> IF webNow > webCache[u].expires \/ webCache[u].expires > webNow + FarAhead
                                   THEN NoEntry ELSE webCache[u]]
    /\ UNCHANGED <<webNow, reading, refreshed, served>>

WebTick ==
    /\ webNow < MaxWebNow /\ webNow' = webNow + 1
    /\ UNCHANGED <<webActs, webCache, reading, refreshed, served>>

WebDies ==
    /\ WebAct /\ reading' = [r \in Readers |-> NoRead]
    /\ UNCHANGED <<webNow, webCache, refreshed, served>>

WebInit ==
    /\ webNow = 1 /\ webActs = 0
    /\ webCache = [u \in Urls |-> NoEntry] /\ reading = [r \in Readers |-> NoRead]
    /\ refreshed = [u \in Urls |-> 0] /\ served = {}

WebNext ==
    \/ \E r \in Readers :
         \/ \E u \in Urls, strict \in BOOLEAN : ReadUrl(r, u, strict)
         \/ BlobGone(r) \/ ServeCached(r) \/ (\E u \in Urls : Redirected(r, u))
         \/ FetchFails(r) \/ FetchPage(r) \/ CachePut(r)
    \/ HttpCacheCleanup \/ WebTick \/ WebDies

-----------------------------------------------------------------------------
(* The proxy, whose settings were once those of a SOCKS5 proxy only. *)

\* ProxyConfig::load by several loops at once; migrate_socks_config has no transaction.
LoadProxy(l) ==
    /\ loading[l] = "idle" /\ loads < MaxLoads /\ loads' = loads + 1
    /\ loading' = [loading EXCEPT ![l] = IF proxy.url = "none" THEN "url" ELSE "clear"]
    /\ muddled' = (muddled \/ \E o \in Loaders : loading[o] \in {"url", "enable"})
    /\ UNCHANGED <<proxy, wanted, found>>

WriteProxyUrl(l) ==
    /\ loading[l] = "url"
    /\ proxy' = [proxy EXCEPT !.url = IF proxy.socksHost THEN "socks5" ELSE "empty"]
    /\ loading' = [loading EXCEPT ![l] = "enable"]
    /\ UNCHANGED <<loads, wanted, muddled, found>>

WriteProxyEnabled(l) ==
    /\ loading[l] = "enable"
    /\ proxy' = [proxy EXCEPT !.enabled = proxy.socksEnabled]
    /\ loading' = [loading EXCEPT ![l] = "clear"]
    /\ UNCHANGED <<loads, wanted, muddled, found>>

ClearSocks(l) ==
    /\ loading[l] = "clear"
    /\ proxy' = [proxy EXCEPT !.socksEnabled = FALSE, !.socksHost = FALSE]
    /\ loading' = [loading EXCEPT ![l] = "read"]
    /\ UNCHANGED <<loads, wanted, muddled, found>>

\* Disabled, no URL that can be parsed, or a proxy
ReadProxy(l) ==
    /\ loading[l] = "read"
    /\ found' = [found EXCEPT ![l] = IF ~proxy.enabled THEN "direct"
                                     ELSE IF proxy.url = "socks5" THEN "proxy" ELSE "error"]
    /\ loading' = [loading EXCEPT ![l] = "idle"]
    /\ UNCHANGED <<proxy, loads, wanted, muddled>>

LoadDies ==
    /\ \E l \in Loaders : loading[l] # "idle"
    /\ muddled' = (muddled \/ \E l \in Loaders : loading[l] = "enable")
    /\ loading' = [l \in Loaders |-> "idle"]
    /\ UNCHANGED <<proxy, loads, wanted, found>>

ProxyInit ==
    /\ proxy \in [url : {"none"}, enabled : {FALSE}, socksEnabled : BOOLEAN, socksHost : BOOLEAN]
    /\ wanted = IF ~proxy.socksEnabled THEN "direct" ELSE IF proxy.socksHost THEN "proxy" ELSE "error"
    /\ loading = [l \in Loaders |-> "idle"] /\ loads = 0
    /\ muddled = FALSE /\ found = [l \in Loaders |-> wanted]

ProxyNext ==
    \/ \E l \in Loaders : LoadProxy(l) \/ WriteProxyUrl(l) \/ WriteProxyEnabled(l) \/ ClearSocks(l) \/ ReadProxy(l)
    \/ LoadDies

-----------------------------------------------------------------------------
(* The servers that a login may use. *)

\* A server as it is entered or found: [proto, server, port, socket, user], with <<>>, 0,
\* "automatic" and "" for what is not known; names of hosts are lists of labels.
DefaultPort(proto, socket) ==
    CASE socket = "ssl" -> IF proto = "imap" THEN 993 ELSE 465
      [] socket \in {"starttls", "plain"} -> IF proto = "imap" THEN 143 ELSE 587
      [] OTHER -> 0

ExpandUsernames(p) == IF p.user = "" THEN <<[p EXCEPT !.user = "addr"]>> ELSE <<p>>

ExpandHostnames(p) ==
    IF p.server # <<>> THEN <<p>>
    ELSE <<[p EXCEPT !.server = <<p.proto>> \o Domain], [p EXCEPT !.server = <<"mail">> \o Domain],
           [p EXCEPT !.server = Domain]>>

ExpandPorts(p) ==
    LET known == IF p.port # 0 THEN p.port ELSE DefaultPort(p.proto, p.socket)
        With(socket) == [p EXCEPT !.socket = socket,
                                  !.port = IF known # 0 THEN known ELSE DefaultPort(p.proto, socket)]
    IN  IF p.socket = "automatic" THEN <<With("ssl"), With("starttls")>> ELSE <<With(p.socket)>>

FlatMap(Op(_), v) == FlattenSeq([i \in DOMAIN v |-> Op(v[i])])
ExpandParamVector(v) == FlatMap(ExpandPorts, FlatMap(ExpandHostnames, FlatMap(ExpandUsernames, v)))

\* The servers that a document of Thunderbird's or of Outlook's kind lists.
Protocols == {"imap", "smtp"}
MozServers(doc) == SelectSeq(doc, LAMBDA x : x.proto \in Protocols)
OutlookServers(doc) ==
    [i \in DOMAIN MozServers(doc) |->
       [MozServers(doc)[i] EXCEPT !.socket = IF @ = "plain" THEN "plain" ELSE "automatic", !.user = ""]]

\* get_configured_param: what is entered serves for a protocol that nothing was found for.
Unknown(p) == p.server = <<>> /\ p.port = 0 /\ p.socket = "automatic" /\ p.user = ""
Lacks(v, proto) == ~\E i \in DOMAIN v : v[i].proto = proto
WithEntered(v, e) ==
    LET w == IF Lacks(v, "imap") THEN Append(v, e.imap) ELSE v
    IN  IF Lacks(w, "smtp") THEN Append(w, e.smtp) ELSE w
ServersFor(e, v) == ExpandParamVector(WithEntered(v, e))

LegacyServers ==
    <<[proto |-> "imap", server |-> <<"imap">> \o Domain, port |-> 143, socket |-> "starttls", user |-> ""],
      [proto |-> "smtp", server |-> <<"smtp">> \o Domain, port |-> 25, socket |-> "starttls", user |-> ""]>>

\* save_legacy writes what is not the default and deletes the rest, and load_legacy takes the
\* default for what is not there.
Blank == [server |-> <<>>, port |-> 0, socket |-> "automatic", user |-> ""]
SaveLegacy(e) ==
    [servers |-> [x \in {x \in Protocols \X DOMAIN Blank : e[x[1]][x[2]] # Blank[x[2]]} |-> e[x[1]][x[2]]],
     checks |-> IF e.checks = "automatic" THEN {} ELSE {e.checks}]
LoadLegacy(t) ==
    [servers |-> [x \in Protocols \X DOMAIN Blank |-> IF x \in DOMAIN t.servers THEN t.servers[x] ELSE Blank[x[2]]],
     checks |-> IF t.checks = {} THEN "automatic" ELSE CHOOSE c \in t.checks : TRUE]

StopLoops ==
    /\ loginAt' = [l \in Loops |-> "idle"] /\ untried' = [l \in Loops |-> 0]
    /\ backoff' = [l \in Loops |-> 0] /\ once' = [l \in Loops |-> FALSE]
    /\ refusals' = [l \in Loops |-> 0]
    /\ warnLock' = {}
    /\ unnoted' = unnoted + Cardinality({l \in Loops : loginAt[l] = "warned"})

\* add_or_update_transport stops the loops.  Nothing entered: the servers of the domain are
\* asked for.
BeginSetup(e) ==
    /\ setup.at \in {"off", "saved"} /\ loginActs < MaxLoginActs /\ loginActs' = loginActs + 1
    /\ setup' = [at |-> IF Unknown(e.imap) /\ Unknown(e.smtp) /\ ~e.legacy THEN "asking" ELSE "params", source |-> 1,
                 entered |-> e,
                 servers |-> IF Unknown(e.imap) /\ Unknown(e.smtp) /\ e.legacy THEN LegacyServers ELSE <<>>]
    /\ StopLoops
    /\ UNCHANGED <<imapServers, legacyConfig, notify, setups, warned>>

\* get_autoconfig: five places, the third and the fourth of Outlook's kind
SourceAnswers(doc) ==
    /\ setup.at = "asking"
    /\ setup' = [setup EXCEPT !.at = "params",
                              !.servers = IF setup.source \in {3, 4} THEN OutlookServers(doc) ELSE MozServers(doc)]
    /\ UNCHANGED <<loginActs, imapServers, legacyConfig, setups, warnings, loopVars>>

SourceFails ==
    /\ setup.at = "asking"
    /\ setup' = IF setup.source < 5 THEN [setup EXCEPT !.source = @ + 1] ELSE [setup EXCEPT !.at = "params"]
    /\ UNCHANGED <<loginActs, imapServers, legacyConfig, setups, warnings, loopVars>>

\* The servers were tried (Transports) and one of each kind works, or none does.
SetupWorks ==
    /\ setup.at = "params"
    /\ imapServers' = SelectSeq(ServersFor(setup.entered, setup.servers), LAMBDA x : x.proto = "imap")
    /\ notify' = TRUE /\ setups' = setups + 1
    /\ legacyConfig' = SaveLegacy(setup.entered)
    /\ setup' = [setup EXCEPT !.at = "saved"]
    /\ UNCHANGED <<loginActs, warned, unnoted, loopVars>>

SetupFails ==
    /\ setup.at = "params"
    /\ setup' = [setup EXCEPT !.at = "off"]
    /\ UNCHANGED <<loginActs, imapServers, legacyConfig, setups, warnings, loopVars>>

-----------------------------------------------------------------------------
(* Imap::connect, by the loops of all relays. *)

SetupStays == UNCHANGED <<setup, imapServers, legacyConfig, setups, loginActs>>
NextCandidate(l) ==
    /\ untried' = [untried EXCEPT ![l] = @ - 1]
    /\ loginAt' = [loginAt EXCEPT ![l] = IF untried[l] = 1 THEN "idle" ELSE "trying"]

\* The wait before the next attempt grows, and the candidates are tried in the order of the
\* history of connections, which does not matter here.
ConnectImap(l) ==
    /\ setup.at \in {"off", "saved"} /\ imapServers # <<>>
    /\ loginAt[l] = "idle" /\ loginActs < MaxLoginActs /\ loginActs' = loginActs + 1
    /\ LET b == IF backoff[l] < BackoffMax \div 2 THEN backoff[l] ELSE BackoffMax \div 2
       IN  \E x \in (b \div 2)..b :
             backoff' = [backoff EXCEPT ![l] = IF b + x < BackoffMin THEN BackoffMin ELSE b + x]
    /\ untried' = [untried EXCEPT ![l] = Len(imapServers)]
    /\ loginAt' = [loginAt EXCEPT ![l] = "trying"]
    /\ UNCHANGED <<setup, imapServers, legacyConfig, setups, warnings, once, refusals, warnLock>>

NotReached(l) ==
    /\ loginAt[l] = "trying"
    /\ NextCandidate(l)
    /\ SetupStays /\ UNCHANGED <<warnings, backoff, once, refusals, warnLock>>

ServerReached(l) ==
    /\ loginAt[l] = "trying"
    /\ loginAt' = [loginAt EXCEPT ![l] = "login"]
    /\ backoff' = [backoff EXCEPT ![l] = BackoffMin]
    /\ SetupStays /\ UNCHANGED <<warnings, untried, once, refusals, warnLock>>

LoggedIn(l) ==
    /\ loginAt[l] = "login"
    /\ loginAt' = [loginAt EXCEPT ![l] = "session"] /\ untried' = [untried EXCEPT ![l] = 0]
    /\ once' = [once EXCEPT ![l] = FALSE] /\ refusals' = [refusals EXCEPT ![l] = 0]
    /\ SetupStays /\ UNCHANGED <<warnings, backoff, warnLock>>

\* Logged in, but the capabilities or the compression fail
SessionUnusable(l) ==
    /\ loginAt[l] = "login"
    /\ NextCandidate(l)
    /\ SetupStays /\ UNCHANGED <<warnings, backoff, once, refusals, warnLock>>

\* The server refuses for another reason.
LoginFails(l) ==
    /\ loginAt[l] = "login" /\ warnLock = {}
    /\ once' = [once EXCEPT ![l] = FALSE] /\ refusals' = [refusals EXCEPT ![l] = 0]
    /\ NextCandidate(l)
    /\ SetupStays /\ UNCHANGED <<warnings, backoff, warnLock>>

\* The server says "authentication"; wrong_pw_warning_mutex is held from here on.
AuthenticationRefused(l) ==
    /\ loginAt[l] = "login" /\ warnLock = {}
    /\ refusals' = [refusals EXCEPT ![l] = IF @ < 2 THEN @ + 1 ELSE 2]
    /\ IF once[l] /\ notify
       THEN /\ loginAt' = [loginAt EXCEPT ![l] = "warning"]
            /\ warnLock' = {l}
            /\ UNCHANGED <<untried, once>>
       ELSE /\ once' = IF once[l] THEN once ELSE [once EXCEPT ![l] = TRUE]
            /\ NextCandidate(l)
            /\ UNCHANGED warnLock
    /\ SetupStays /\ UNCHANGED <<warnings, backoff>>

\* add_device_msg_with_importance
WarnUser(l) ==
    /\ loginAt[l] = "warning"
    /\ warned' = warned + 1
    /\ loginAt' = [loginAt EXCEPT ![l] = "warned"]
    /\ SetupStays /\ UNCHANGED <<notify, unnoted, untried, backoff, once, refusals, warnLock>>

WarningFails(l) ==
    /\ loginAt[l] = "warning"
    /\ warnLock' = {} /\ NextCandidate(l)
    /\ SetupStays /\ UNCHANGED <<warnings, backoff, once, refusals>>

\* NotifyAboutWrongPw is reset, or that fails and is logged.
ResetNotify(l) ==
    /\ loginAt[l] = "warned"
    /\ \/ notify' = FALSE /\ unnoted' = unnoted
       \/ notify' = notify /\ unnoted' = unnoted + 1
    /\ warnLock' = {} /\ NextCandidate(l)
    /\ SetupStays /\ UNCHANGED <<warned, backoff, once, refusals>>

SessionEnds(l) ==
    /\ loginAt[l] = "session"
    /\ loginAt' = [loginAt EXCEPT ![l] = "idle"]
    /\ SetupStays /\ UNCHANGED <<warnings, untried, backoff, once, refusals, warnLock>>

LoginDies ==
    /\ loginActs < MaxLoginActs /\ loginActs' = loginActs + 1
    /\ setup' = [setup EXCEPT !.at = "off"]
    /\ StopLoops
    /\ UNCHANGED <<imapServers, legacyConfig, notify, setups, warned>>

LoginInit ==
    /\ setup = [at |-> "off", source |-> 1, entered |-> CHOOSE e \in Entered : TRUE, servers |-> <<>>]
    /\ loginActs = 0 /\ imapServers = <<>> /\ legacyConfig = SaveLegacy(CHOOSE e \in Entered : TRUE)
    /\ notify = FALSE /\ setups = 0 /\ warned = 0 /\ unnoted = 0 /\ warnLock = {}
    /\ loginAt = [l \in Loops |-> "idle"] /\ untried = [l \in Loops |-> 0]
    /\ backoff = [l \in Loops |-> 0] /\ once = [l \in Loops |-> FALSE] /\ refusals = [l \in Loops |-> 0]

LoginNext ==
    \/ \E e \in Entered : BeginSetup(e)
    \/ \E doc \in Documents : SourceAnswers(doc)
    \/ SourceFails \/ SetupWorks \/ SetupFails \/ LoginDies
    \/ \E l \in Loops :
         \/ ConnectImap(l) \/ NotReached(l) \/ ServerReached(l) \/ LoggedIn(l) \/ SessionUnusable(l)
         \/ LoginFails(l) \/ AuthenticationRefused(l) \/ WarnUser(l) \/ WarningFails(l) \/ ResetNotify(l)
         \/ SessionEnds(l)

-----------------------------------------------------------------------------
(* All of it, one step after the other. *)

NamesStep == NetNext /\ UNCHANGED <<webVars, proxyVars, loginVars>>
WebStep == WebNext /\ UNCHANGED <<netVars, proxyVars, loginVars>>
ProxyStep == ProxyNext /\ UNCHANGED <<netVars, webVars, loginVars>>
LoginStep == LoginNext /\ UNCHANGED <<netVars, webVars, proxyVars>>

networkVars == <<netVars, webVars, proxyVars, loginVars>>
NetworkInit == NetInit /\ WebInit /\ ProxyInit /\ LoginInit
NetworkNext == NamesStep \/ WebStep \/ ProxyStep \/ LoginStep
NetworkSpec == NetworkInit /\ [][NetworkNext]_networkVars

-----------------------------------------------------------------------------
(* Properties. *)

\* A key that is remembered of the server, in memory, in tls_spki or by an attempt under way,
\* was shown with a valid chain once, and so was that of every server whose certificate is
\* checked and that is connected.  However lookups, cleanups and aborted attempts interleave,
\* an expired certificate is accepted for a key that was good (verify_server_cert).
PinsVouched ==
    ~SelfSigned =>
      /\ pins # NoPin => pins \in vouched
      /\ pinRow.at > 0 => pinRow.spki \in vouched
      /\ \A d \in Dials : \A i \in DOMAIN tries[d] : tries[d][i].spki # NoPin => tries[d][i].spki \in vouched
      /\ \A d \in Dials :
           dialAt[d] = "connected" /\ dialKind[d].security = "strict" => winner[d] \in vouched

\* What is sorted first because of a connection was connected to by that protocol.
HistoryEarned == \A d \in Dials, a \in Spots : connHistory[d][a] > 0 => <<d, a>> \in met

\* A connection is given up only when every address has been tried and failed
\* (run_connection_attempts), and until then an attempt is under way or has just failed.
AllTried ==
    \A d \in Dials :
      /\ dialAt[d] = "failed" => Len(tries[d]) = Len(toTry[d]) /\ Running(d) = {}
      /\ dialAt[d] = "trying" /\ Running(d) = {} => Len(tries[d]) = Len(toTry[d])

\* "up to five parallel connection attempts": one, and one more for each delay
FewAtOnce == \A d \in Dials : Cardinality(Running(d)) <= 1 + delayed[d]

\* What is not authenticated never uses an address that an earlier lookup left behind.
PlainFresh ==
    \A d \in Dials :
      dialAt[d] = "trying" /\ dialKind[d].security # "strict" /\ ~dialKind[d].proxied =>
        ToSet(toTry[d]) \subseteq ToSet(answer[d])

\* A page in the cache is what its own URL gave, although redirects lead to it from elsewhere,
\* and that of an https URL was authenticated; so is what is returned from the cache
\* ("Fetching without HTTP cache due to relaxed TLS").
PagesRight ==
    /\ \A u \in Urls : webCache[u].expires > 0 =>
         webCache[u].page.from = u /\ (u \in Https => webCache[u].page.sure)
    /\ \A x \in served : x.page.from = x.asked /\ (x.asked \in Https => x.page.sure)

\* A page passes for current no longer than it may, or for the moment after a refresh was begun,
\* although the UPDATE of one reader finds the row that another has put there meanwhile.
PagesCurrent ==
    \A u \in Urls : \/ webCache[u].stale <= webCache[u].page.at + WebStale
                    \/ webCache[u].stale <= refreshed[u] + Grace

\* Who had a proxy keeps it, unless two loops read the settings at once before they were
\* migrated, or the process died in the midst of it.
ProxyKept == \A l \in Loaders : ~muddled => found[l] = wanted

\* Every server that is tried has a host, a port, a user and a kind of security, and none is
\* without TLS that was not entered or found so; there are some of both kinds.
ServersDefinite ==
    setup.at = "params" =>
      LET v == ServersFor(setup.entered, setup.servers)
          given == WithEntered(setup.servers, setup.entered)
      IN  /\ \A proto \in Protocols : ~Lacks(v, proto)
          /\ \A x \in ToSet(v) :
               /\ x.server # <<>> /\ x.port > 0 /\ x.user # "" /\ x.socket \in {"ssl", "starttls", "plain"}
               /\ x.socket = "plain" => \E g \in ToSet(given) : g.proto = x.proto /\ g.socket = "plain"

\* What was entered can be entered again, whatever was entered before.
EnteredKept == setup.at = "saved" =>
    /\ LoadLegacy(legacyConfig).checks = setup.entered.checks
    /\ \A proto \in Protocols, f \in DOMAIN Blank :
         LoadLegacy(legacyConfig).servers[<<proto, f>>] = setup.entered[proto][f]

\* The wait before a connection stays between its bounds (BACKOFF_MIN_MS, BACKOFF_MAX_MS).
BackoffBounded == \A l \in Loops : backoff[l] = 0 \/ backoff[l] \in BackoffMin..BackoffMax

\* The user is told of a wrong password once after each configuration, although several loops
\* fail at once, and only after the server has refused twice with nothing else between; a
\* second time only when what was told could not be noted.
WarnedRightly ==
    /\ warned <= setups + unnoted
    /\ \A l \in Loops : loginAt[l] \in {"warning", "warned"} => refusals[l] >= 2 /\ warnLock = {l}

\* All of that but ServersDefinite.
NetworkSafe ==
    /\ PinsVouched /\ HistoryEarned /\ AllTried /\ FewAtOnce /\ PlainFresh
    /\ PagesRight /\ PagesCurrent
    /\ ProxyKept /\ EnteredKept /\ BackoffBounded /\ WarnedRightly
=============================================================================
