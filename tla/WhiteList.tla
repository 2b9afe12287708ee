------------------------------- MODULE WhiteList -------------------------------
(***************************************************************************)
(* The white list: the requests of api/whitelist.go that change it, and    *)
(* the look-ups of the Check handlers, whose answers each node keeps in    *)
(* memory.  A step is one Redis command or what follows it.                *)
(*                                                                         *)
(* The handlers of the white list have a Waitingroom of their own, so that *)
(* nothing an administrator does reaches the memory of the Check handlers. *)
(* Nothing gives the sorted set of the white list a TTL.                   *)
(***************************************************************************)
EXTENDS Integers, FiniteSets

CONSTANTS
    Domain,              \* host names
    Node,                \* the servers
    Visitor,             \* requests of clients that may be under way at once
    Editor,              \* ... and of administrators
    CacheTTLSec,         \* config: TTL of a cached answer
    NegativeCacheTTLSec, \* config: TTL of a cached "no"
    MaxRequest,          \* assumption: no look-up lasts longer than this
    ScanLimit,           \* Redis returns up to so many members with one ZSCAN
    Horizon              \* bound: ages are counted up to here

ASSUME WhiteListAssumption ==
    /\ CacheTTLSec \in Nat \ {0}
    /\ NegativeCacheTTLSec \in Nat \ {0}
    /\ MaxRequest \in Nat
    /\ ScanLimit \in Nat
    /\ Horizon \in Nat

VARIABLES
    members,   \* Redis: queue-whitelist
    cache,     \* per node and domain: an answer and the seconds it is good for
    vpc,       \* the next step of a look-up
    asked,     \* the domain it is about
    at,        \* the node it runs on
    found,     \* what its ZSCAN has found
    busy,      \* seconds it has taken
    answer,    \* what it has come to
    epc,       \* the next command of an administrator's request
    about,     \* the domain it is about
    lastIn,    \* ghost: seconds since a domain was on the list
    lastOut,   \* ghost: seconds since it was not
    lastLarge  \* ghost: seconds since the list was too large for one ZSCAN

lookups == <<vpc, asked, at, found, busy, answer>>
edits   == <<epc, about>>
ghosts  == <<lastIn, lastOut, lastLarge>>
vars    == <<members, cache, lookups, edits, ghosts>>

NoDomain == "none"
NoNode   == "none"
NoEntry  == [listed |-> FALSE, ttl |-> 0]

Large == Cardinality(members) > ScanLimit

Init ==
    /\ members = {}
    /\ cache = [n \in Node |-> [d \in Domain |-> NoEntry]]
    /\ vpc = [v \in Visitor |-> "idle"]
    /\ asked = [v \in Visitor |-> NoDomain]
    /\ at = [v \in Visitor |-> NoNode]
    /\ found = [v \in Visitor |-> FALSE]
    /\ busy = [v \in Visitor |-> 0]
    /\ answer = [v \in Visitor |-> "none"]
    /\ epc = [e \in Editor |-> "idle"]
    /\ about = [e \in Editor |-> NoDomain]
    /\ lastIn = [d \in Domain |-> Horizon]
    /\ lastOut = [d \in Domain |-> 0]
    /\ lastLarge = Horizon

-----------------------------------------------------------------------------
(* IsInWhitelist, as part of a Check.                                      *)

Hit(entry) == entry.ttl > 0

Ask(v) ==
    /\ vpc[v] = "idle"
    /\ vpc' = [vpc EXCEPT ![v] = "look"]
    /\ \E d \in Domain : asked' = [asked EXCEPT ![v] = d]
    /\ \E n \in Node : at' = [at EXCEPT ![v] = n]
    /\ answer' = [answer EXCEPT ![v] = "none"]
    /\ UNCHANGED <<members, cache, found, busy, edits, ghosts>>

\* The look-up ends with answer a.
Answer(v, a) ==
    /\ vpc' = [vpc EXCEPT ![v] = "idle"]
    /\ found' = [found EXCEPT ![v] = FALSE]
    /\ busy' = [busy EXCEPT ![v] = 0]
    /\ answer' = [answer EXCEPT ![v] = a]
    /\ asked' = [asked EXCEPT ![v] = NoDomain]
    /\ at' = [at EXCEPT ![v] = NoNode]

Verdict(listed) == IF listed THEN "allowed" ELSE "refused"

\* Faulty variant: an entry lives on as long as it is asked for.
CachedTouches(v) ==
    LET entry == cache[at[v]][asked[v]]
    IN  /\ vpc[v] = "look"
        /\ Hit(entry)
        /\ cache' = [cache EXCEPT ![at[v]][asked[v]].ttl =
                        IF entry.listed THEN CacheTTLSec ELSE NegativeCacheTTLSec]
        /\ Answer(v, Verdict(entry.listed))
        /\ UNCHANGED <<members, edits, ghosts>>

Cached(v) ==
    LET entry == cache[at[v]][asked[v]]
    IN  /\ vpc[v] = "look"
        /\ Hit(entry)
        /\ Answer(v, Verdict(entry.listed))
        /\ UNCHANGED <<members, cache, edits, ghosts>>

\* ZSCAN from cursor 0 with COUNT 1.  Its first page is all of a small list and
\* some part of a large one, and the code asks for no other.
Scan(v) ==
    /\ vpc[v] = "look"
    /\ ~Hit(cache[at[v]][asked[v]])
    /\ \E page \in SUBSET members :
         /\ Large \/ page = members
         /\ found' = [found EXCEPT ![v] = asked[v] \in page]
    /\ vpc' = [vpc EXCEPT ![v] = "cache"]
    /\ UNCHANGED <<members, cache, asked, at, busy, answer, edits, ghosts>>

\* Faulty variant: a "no" is kept as long as a "yes".
CacheAlike(v) ==
    /\ vpc[v] = "cache"
    /\ cache' = [cache EXCEPT ![at[v]][asked[v]] =
                    [listed |-> found[v], ttl |-> CacheTTLSec]]
    /\ Answer(v, Verdict(found[v]))
    /\ UNCHANGED <<members, edits, ghosts>>

Cache(v) ==
    /\ vpc[v] = "cache"
    /\ cache' = [cache EXCEPT ![at[v]][asked[v]] =
                    [listed |-> found[v],
                     ttl |-> IF found[v] THEN CacheTTLSec ELSE NegativeCacheTTLSec]]
    /\ Answer(v, Verdict(found[v]))
    /\ UNCHANGED <<members, edits, ghosts>>

\* The command fails, which is cached nowhere.
LookupFails(v) ==
    /\ vpc[v] = "look"
    /\ ~Hit(cache[at[v]][asked[v]])
    /\ Answer(v, "error")
    /\ UNCHANGED <<members, cache, edits, ghosts>>

-----------------------------------------------------------------------------
(* The administrator's requests.                                           *)

\* A request arrives whose first command is p.
Arrive(e, p) ==
    /\ epc[e] = "idle"
    /\ epc' = [epc EXCEPT ![e] = p]
    /\ \E d \in Domain : about' = [about EXCEPT ![e] = d]
    /\ UNCHANGED <<members, cache, lookups, ghosts>>

\* ... and is answered.
Done(e) ==
    /\ epc' = [epc EXCEPT ![e] = "idle"]
    /\ about' = [about EXCEPT ![e] = NoDomain]

CreateWhiteList(e) == Arrive(e, "zadd")

DeleteWhiteList(e) == Arrive(e, "zrem")

\* What the ghosts remember of a changed list.
Remember ==
    /\ lastIn' = [d \in Domain |-> IF d \in members' THEN 0 ELSE lastIn[d]]
    /\ lastOut' = [d \in Domain |-> IF d \in members' THEN lastOut[d] ELSE 0]
    /\ lastLarge' = IF Large' THEN 0 ELSE lastLarge

\* The two commands of AddWhiteListDomain; there is no TTL for PERSIST to drop.
ZAdd(e) ==
    /\ epc[e] = "zadd"
    /\ members' = members \cup {about[e]}
    /\ epc' = [epc EXCEPT ![e] = "persist"]
    /\ Remember
    /\ UNCHANGED <<cache, lookups, about>>

Persist(e) ==
    /\ epc[e] = "persist"
    /\ Done(e)
    /\ UNCHANGED <<members, cache, lookups, ghosts>>

ZRem(e) ==
    /\ epc[e] = "zrem"
    /\ members' = members \ {about[e]}
    /\ Done(e)
    /\ Remember
    /\ UNCHANGED <<cache, lookups>>

\* A command fails, before or after Redis has executed it.  The administrator is
\* told that it failed, even if the domain is on the list and only the PERSIST
\* has failed.
EditFails(e) ==
    /\ epc[e] # "idle"
    /\ Done(e)
    /\ UNCHANGED <<members, cache, lookups, ghosts>>

-----------------------------------------------------------------------------
(* Restarts and time.                                                      *)

Restart(n) ==
    LET served == {v \in Visitor : at[v] = n}
    IN  /\ cache' = [cache EXCEPT ![n] = [d \in Domain |-> NoEntry]]
        /\ vpc' = [v \in Visitor |-> IF v \in served THEN "idle" ELSE vpc[v]]
        /\ asked' = [v \in Visitor |-> IF v \in served THEN NoDomain ELSE asked[v]]
        /\ at' = [v \in Visitor |-> IF v \in served THEN NoNode ELSE at[v]]
        /\ found' = [v \in Visitor |-> IF v \in served THEN FALSE ELSE found[v]]
        /\ busy' = [v \in Visitor |-> IF v \in served THEN 0 ELSE busy[v]]
        /\ answer' = [v \in Visitor |-> IF v \in served THEN "error" ELSE answer[v]]
        /\ UNCHANGED <<members, edits, ghosts>>

Later(age) == IF age < Horizon THEN age + 1 ELSE Horizon

Tick ==
    /\ \A v \in Visitor : vpc[v] # "idle" => busy[v] < MaxRequest
    /\ busy' = [v \in Visitor |-> IF vpc[v] = "idle" THEN 0 ELSE busy[v] + 1]
    /\ cache' = [n \in Node |-> [d \in Domain |->
                    IF cache[n][d].ttl > 1 THEN [cache[n][d] EXCEPT !.ttl = @ - 1]
                    ELSE NoEntry]]
    /\ lastIn' = [d \in Domain |-> IF d \in members THEN 0 ELSE Later(lastIn[d])]
    /\ lastOut' = [d \in Domain |-> IF d \in members THEN Later(lastOut[d]) ELSE 0]
    /\ lastLarge' = IF Large THEN 0 ELSE Later(lastLarge)
    /\ UNCHANGED <<members, vpc, asked, at, found, answer, edits>>

Next ==
    \/ \E v \in Visitor :
         Ask(v) \/ Cached(v) \/ Scan(v) \/ Cache(v) \/ LookupFails(v)
    \/ \E e \in Editor :
         \/ CreateWhiteList(e) \/ DeleteWhiteList(e)
         \/ ZAdd(e) \/ Persist(e) \/ ZRem(e) \/ EditFails(e)
    \/ \E n \in Node : Restart(n)
    \/ Tick

Spec == Init /\ [][Next]_vars

-----------------------------------------------------------------------------
(* Properties.                                                             *)

Entry == [listed : BOOLEAN, ttl : Nat]

TypeOK ==
    /\ members \in SUBSET Domain
    /\ cache \in [Node -> [Domain -> Entry]]
    /\ vpc \in [Visitor -> {"idle", "look", "cache"}]
    /\ asked \in [Visitor -> Domain \cup {NoDomain}]
    /\ at \in [Visitor -> Node \cup {NoNode}]
    /\ found \in [Visitor -> BOOLEAN]
    /\ busy \in [Visitor -> 0..MaxRequest]
    /\ answer \in [Visitor -> {"none", "allowed", "refused", "error"}]
    /\ epc \in [Editor -> {"idle", "zadd", "persist", "zrem"}]
    /\ about \in [Editor -> Domain \cup {NoDomain}]
    /\ lastIn \in [Domain -> 0..Horizon] /\ lastOut \in [Domain -> 0..Horizon]
    /\ lastLarge \in 0..Horizon
    /\ \A v \in Visitor : vpc[v] # "idle" => asked[v] \in Domain /\ at[v] \in Node
    /\ \A e \in Editor : epc[e] # "idle" => about[e] \in Domain

\* A domain that is taken off the list is soon treated like any other: whoever
\* is let through because of it asks less than CacheTTLSec and one look-up
\* after it was on the list.
AllowedFresh ==
    [][\A v \in Visitor : answer[v] = "none" /\ answer'[v] = "allowed" =>
          lastIn[asked[v]] < CacheTTLSec + MaxRequest]_vars

\* A domain that is put on the list is soon let through: who is not asks less
\* than NegativeCacheTTLSec and one look-up after it was off the list, or after
\* the list was larger than what one ZSCAN returns.
RefusedFresh ==
    [][\A v \in Visitor : answer[v] = "none" /\ answer'[v] = "refused" =>
          \E age \in {lastOut[asked[v]], lastLarge} :
              age < NegativeCacheTTLSec + MaxRequest]_vars
=============================================================================
