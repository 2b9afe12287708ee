---------------------------- MODULE WhiteList_proofs ----------------------------
(***************************************************************************)
(* How long a change of the white list goes unnoticed, for any number of   *)
(* domains, nodes and requests and any settings.                           *)
(***************************************************************************)
EXTENDS WhiteList, FiniteSetTheorems, TLAPS

LEMMA TypeInit == Init => TypeOK
  BY WhiteListAssumption DEF Init, TypeOK, Entry, NoEntry

LEMMA TypeNext == TypeOK /\ [Next]_vars => TypeOK'
<1> SUFFICES ASSUME TypeOK, [Next]_vars  PROVE TypeOK'
  OBVIOUS
<1> USE WhiteListAssumption
<1> USE DEF TypeOK, Entry
<1>1. ASSUME NEW v \in Visitor, Ask(v)  PROVE TypeOK'
  BY <1>1 DEF Ask, edits, ghosts
<1>2. ASSUME NEW v \in Visitor, Cached(v)  PROVE TypeOK'
  BY <1>2 DEF Cached, Answer, Verdict, edits, ghosts
<1>3. ASSUME NEW v \in Visitor, Scan(v)  PROVE TypeOK'
  BY <1>3 DEF Scan, edits, ghosts
<1>4. ASSUME NEW v \in Visitor, Cache(v)  PROVE TypeOK'
  BY <1>4 DEF Cache, Answer, Verdict, edits, ghosts
<1>5. ASSUME NEW v \in Visitor, LookupFails(v)  PROVE TypeOK'
  BY <1>5 DEF LookupFails, Answer, edits, ghosts
<1>6. ASSUME NEW e \in Editor, CreateWhiteList(e) \/ DeleteWhiteList(e)  PROVE TypeOK'
  BY <1>6 DEF CreateWhiteList, DeleteWhiteList, Arrive, lookups, ghosts
<1>7. ASSUME NEW e \in Editor, ZAdd(e)  PROVE TypeOK'
  BY <1>7 DEF ZAdd, Done, Remember, lookups
<1>8. ASSUME NEW e \in Editor, Persist(e) \/ EditFails(e)  PROVE TypeOK'
  BY <1>8 DEF Persist, EditFails, Done, lookups, ghosts
<1>9. ASSUME NEW e \in Editor, ZRem(e)  PROVE TypeOK'
  BY <1>9 DEF ZRem, Done, Remember, lookups
<1>10. ASSUME NEW n \in Node, Restart(n)  PROVE TypeOK'
  <2>1. cache' \in [Node -> [Domain -> Entry]]
    <3>1. [d \in Domain |-> NoEntry] \in [Domain -> Entry]
      BY DEF NoEntry
    <3> QED  BY <1>10, <3>1 DEF Restart
  <2>2. vpc' \in [Visitor -> {"idle", "look", "cache"}]
    BY <1>10 DEF Restart
  <2>3. asked' \in [Visitor -> Domain \cup {NoDomain}]
    BY <1>10 DEF Restart
  <2>4. at' \in [Visitor -> Node \cup {NoNode}]
    BY <1>10 DEF Restart
  <2>5. found' \in [Visitor -> BOOLEAN]
    BY <1>10 DEF Restart
  <2>6. busy' \in [Visitor -> 0..MaxRequest]
    BY <1>10 DEF Restart
  <2>7. answer' \in [Visitor -> {"none", "allowed", "refused", "error"}]
    BY <1>10 DEF Restart
  <2>8. \A v \in Visitor : vpc'[v] # "idle" => asked'[v] \in Domain /\ at'[v] \in Node
    BY <1>10 DEF Restart
  <2> QED
    BY <1>10, <2>1, <2>2, <2>3, <2>4, <2>5, <2>6, <2>7, <2>8 DEF Restart, edits, ghosts
<1>11. CASE Tick
  <2>1. cache' \in [Node -> [Domain -> Entry]]
    <3>1. ASSUME NEW entry \in Entry
          PROVE  (IF entry.ttl > 1 THEN [entry EXCEPT !.ttl = @ - 1] ELSE NoEntry) \in Entry
      BY DEF NoEntry
    <3>2. \A n \in Node, d \in Domain : cache[n][d] \in Entry
      OBVIOUS
    <3> QED  BY <1>11, <3>1, <3>2, Zenon DEF Tick
  <2>2. busy' \in [Visitor -> 0..MaxRequest]
    BY <1>11 DEF Tick
  <2>3. /\ lastIn' \in [Domain -> 0..Horizon] /\ lastOut' \in [Domain -> 0..Horizon]
        /\ lastLarge' \in 0..Horizon
    BY <1>11 DEF Tick, Later
  <2> QED  BY <1>11, <2>1, <2>2, <2>3 DEF Tick, edits
<1>12. CASE UNCHANGED vars
  BY <1>12 DEF vars, lookups, edits, ghosts
<1> QED
  BY <1>1, <1>2, <1>3, <1>4, <1>5, <1>6, <1>7, <1>8, <1>9, <1>10, <1>11, <1>12 DEF Next

-----------------------------------------------------------------------------

\* The ghosts agree with the list.
AgesInv ==
    /\ \A d \in Domain : IF d \in members THEN lastIn[d] = 0 ELSE lastOut[d] = 0
    /\ Large => lastLarge = 0

\* What a look-up has found was so when it read it.
FoundInv ==
    \A v \in Visitor : vpc[v] = "cache" =>
        IF found[v] THEN lastIn[asked[v]] <= busy[v]
        ELSE lastOut[asked[v]] <= busy[v] \/ lastLarge <= busy[v]

\* What is cached was so when it was read, at most one look-up before it was
\* cached: its age and the time it has left do not add up to more.
Fresh(entry, d) ==
    entry.ttl > 0 =>
        IF entry.listed THEN lastIn[d] + entry.ttl <= CacheTTLSec + MaxRequest
        ELSE \/ lastOut[d] + entry.ttl <= NegativeCacheTTLSec + MaxRequest
             \/ lastLarge + entry.ttl <= NegativeCacheTTLSec + MaxRequest

CacheInv == \A n \in Node, d \in Domain : Fresh(cache[n][d], d)

Inv == TypeOK /\ AgesInv /\ FoundInv /\ CacheInv

\* Nothing but a second that passes makes an age grow, and that by one.
LEMMA AgesGrow ==
    ASSUME TypeOK, [Next]_vars
    PROVE  /\ ~Tick => /\ \A d \in Domain : lastIn'[d] <= lastIn[d] /\ lastOut'[d] <= lastOut[d]
                       /\ lastLarge' <= lastLarge
           /\ Tick => /\ \A d \in Domain : lastIn'[d] <= lastIn[d] + 1 /\ lastOut'[d] <= lastOut[d] + 1
                      /\ lastLarge' <= lastLarge + 1
<1> USE WhiteListAssumption
<1>1. CASE Tick
  BY <1>1 DEF Tick, Later, TypeOK
<1>2. CASE UNCHANGED ghosts
  BY <1>2 DEF ghosts, TypeOK
<1>3. CASE Remember
  BY <1>3 DEF Remember, TypeOK
<1>4. Tick \/ UNCHANGED ghosts \/ Remember
  BY DEF Next, vars, Ask, Cached, Scan, Cache, LookupFails, CreateWhiteList, DeleteWhiteList,
         Arrive, ZAdd, Persist, ZRem, EditFails, Restart
<1>5. ASSUME Tick, UNCHANGED ghosts \/ Remember
      PROVE  /\ \A d \in Domain : lastIn'[d] <= lastIn[d] + 1 /\ lastOut'[d] <= lastOut[d] + 1
             /\ lastLarge' <= lastLarge + 1
  BY <1>1, <1>5
<1> QED  BY <1>1, <1>2, <1>3, <1>4

LEMMA AgesStep == TypeOK /\ AgesInv /\ [Next]_vars => AgesInv'
<1> SUFFICES ASSUME TypeOK, AgesInv, [Next]_vars  PROVE AgesInv'
  OBVIOUS
<1> USE WhiteListAssumption
<1>1. CASE Tick
  <2>1. Large' <=> Large
    BY <1>1 DEF Tick, Large
  <2> QED  BY <1>1, <2>1 DEF Tick, AgesInv, TypeOK
<1>2. CASE UNCHANGED <<members, ghosts>>
  BY <1>2 DEF AgesInv, Large, ghosts
<1>3. CASE Remember
  BY <1>3 DEF Remember, AgesInv, TypeOK
<1>4. Tick \/ UNCHANGED <<members, ghosts>> \/ Remember
  BY DEF Next, vars, Ask, Cached, Scan, Cache, LookupFails, CreateWhiteList, DeleteWhiteList,
         Arrive, ZAdd, Persist, ZRem, EditFails, Restart
<1> QED  BY <1>1, <1>2, <1>3, <1>4

LEMMA FoundStep == Inv /\ [Next]_vars => FoundInv'
<1> SUFFICES ASSUME Inv, [Next]_vars, NEW v \in Visitor, vpc'[v] = "cache"
             PROVE  IF found'[v] THEN lastIn'[asked'[v]] <= busy'[v]
                    ELSE lastOut'[asked'[v]] <= busy'[v] \/ lastLarge' <= busy'[v]
  BY DEF FoundInv
<1> USE WhiteListAssumption
<1> USE DEF Inv, TypeOK
<1>1. CASE Scan(v)
  <2>1. asked[v] \in Domain /\ asked'[v] = asked[v] /\ busy'[v] = busy[v]
    BY <1>1 DEF Scan
  <2>2. UNCHANGED ghosts
    BY <1>1 DEF Scan
  <2>3. CASE found'[v]
    <3>1. asked[v] \in members
      BY <1>1, <2>3 DEF Scan
    <3> QED  BY <2>1, <2>2, <2>3, <3>1 DEF AgesInv, ghosts
  <2>4. CASE ~found'[v]
    <3>1. Large \/ asked[v] \notin members
      BY <1>1, <2>4 DEF Scan
    <3> QED  BY <2>1, <2>2, <2>4, <3>1 DEF AgesInv, ghosts
  <2> QED  BY <2>3, <2>4
<1>2. CASE ~Scan(v)
  <2>1. /\ vpc[v] = "cache" /\ asked'[v] = asked[v] /\ found'[v] = found[v]
        /\ busy'[v] = IF Tick THEN busy[v] + 1 ELSE busy[v]
    <3>1. CASE Tick
      BY <3>1 DEF Tick
    <3>2. ASSUME ~Tick, NEW w \in Visitor, w # v,
                 Ask(w) \/ Cached(w) \/ Scan(w) \/ Cache(w) \/ LookupFails(w)
          PROVE  vpc[v] = "cache" /\ asked'[v] = asked[v] /\ found'[v] = found[v] /\ busy'[v] = busy[v]
      BY <3>2 DEF Ask, Cached, Scan, Cache, LookupFails, Answer
    <3>3. ASSUME Ask(v) \/ Cached(v) \/ Cache(v) \/ LookupFails(v)
          PROVE  FALSE
      BY <3>3 DEF Ask, Cached, Cache, LookupFails, Answer
    <3>4. ASSUME ~Tick, UNCHANGED lookups
          PROVE  vpc[v] = "cache" /\ asked'[v] = asked[v] /\ found'[v] = found[v] /\ busy'[v] = busy[v]
      BY <3>4 DEF lookups
    <3>5. ASSUME ~Tick, NEW n \in Node, Restart(n)
          PROVE  vpc[v] = "cache" /\ asked'[v] = asked[v] /\ found'[v] = found[v] /\ busy'[v] = busy[v]
      BY <3>5 DEF Restart
    <3>6. \/ Tick \/ UNCHANGED lookups \/ \E n \in Node : Restart(n)
          \/ \E w \in Visitor : Ask(w) \/ Cached(w) \/ Scan(w) \/ Cache(w) \/ LookupFails(w)
      BY DEF Next, vars, CreateWhiteList, DeleteWhiteList, Arrive, ZAdd, Persist, ZRem, EditFails
    <3> QED  BY <1>2, <3>1, <3>2, <3>3, <3>4, <3>5, <3>6
  <2>2. asked[v] \in Domain
    BY <2>1
  <2>3. IF found[v] THEN lastIn[asked[v]] <= busy[v]
        ELSE lastOut[asked[v]] <= busy[v] \/ lastLarge <= busy[v]
    BY <2>1 DEF FoundInv
  <2>4. /\ lastIn[asked[v]] \in Nat /\ lastOut[asked[v]] \in Nat /\ lastLarge \in Nat
        /\ busy[v] \in Nat
    BY <2>2
  <2>5. TypeOK'
    BY TypeNext
  <2>6. /\ lastIn'[asked[v]] \in Nat /\ lastOut'[asked[v]] \in Nat /\ lastLarge' \in Nat
    BY <2>2, <2>5
  <2> HIDE DEF Inv, TypeOK
  <2>7. /\ ~Tick => /\ lastIn'[asked[v]] <= lastIn[asked[v]] /\ lastOut'[asked[v]] <= lastOut[asked[v]]
                    /\ lastLarge' <= lastLarge
        /\ Tick => /\ lastIn'[asked[v]] <= lastIn[asked[v]] + 1 /\ lastOut'[asked[v]] <= lastOut[asked[v]] + 1
                   /\ lastLarge' <= lastLarge + 1
    BY <2>2, AgesGrow DEF Inv
  <2> QED  BY <2>1, <2>3, <2>4, <2>6, <2>7
<1> QED  BY <1>1, <1>2

LEMMA CacheStep == Inv /\ [Next]_vars => CacheInv'
<1> SUFFICES ASSUME Inv, [Next]_vars, NEW n \in Node, NEW d \in Domain
             PROVE  Fresh(cache[n][d], d)'
  BY DEF CacheInv
<1> USE WhiteListAssumption
<1>1. TypeOK /\ TypeOK'
  BY TypeNext DEF Inv
<1>2. /\ cache[n][d] \in Entry /\ cache'[n][d] \in Entry
      /\ lastIn[d] \in Nat /\ lastOut[d] \in Nat /\ lastLarge \in Nat
      /\ lastIn'[d] \in Nat /\ lastOut'[d] \in Nat /\ lastLarge' \in Nat
  BY <1>1 DEF TypeOK
<1>3. /\ ~Tick => /\ lastIn'[d] <= lastIn[d] /\ lastOut'[d] <= lastOut[d] /\ lastLarge' <= lastLarge
      /\ Tick => /\ lastIn'[d] <= lastIn[d] + 1 /\ lastOut'[d] <= lastOut[d] + 1
                 /\ lastLarge' <= lastLarge + 1
  BY <1>1, AgesGrow
<1>4. Fresh(cache[n][d], d)
  BY DEF Inv, CacheInv
<1>5. CASE Tick
  <2>1. cache'[n][d] = IF cache[n][d].ttl > 1 THEN [cache[n][d] EXCEPT !.ttl = @ - 1] ELSE NoEntry
    BY <1>5 DEF Tick
  <2>2. CASE cache[n][d].ttl > 1
    <3>1. cache'[n][d].listed = cache[n][d].listed /\ cache'[n][d].ttl = cache[n][d].ttl - 1
      BY <1>2, <2>1, <2>2 DEF Entry
    <3>2. cache[n][d].ttl \in Nat
      BY <1>2 DEF Entry
    <3> QED  BY <1>2, <1>3, <1>4, <1>5, <2>2, <3>1, <3>2 DEF Fresh
  <2>3. CASE ~(cache[n][d].ttl > 1)
    <3>1. cache'[n][d].ttl = 0
      BY <2>1, <2>3 DEF NoEntry
    <3> QED  BY <3>1 DEF Fresh
  <2> QED  BY <2>2, <2>3
<1>6. CASE ~Tick /\ cache'[n][d] = cache[n][d]
  <2>1. cache[n][d].ttl \in Nat
    BY <1>2 DEF Entry
  <2> QED  BY <1>2, <1>3, <1>4, <1>6, <2>1 DEF Fresh
<1>7. ASSUME NEW v \in Visitor, Cache(v), at[v] = n, asked[v] = d
      PROVE  Fresh(cache[n][d], d)'
  <2>1. vpc[v] = "cache" /\ busy[v] \in 0..MaxRequest
    BY <1>1, <1>7 DEF Cache, TypeOK
  <2>2. IF found[v] THEN lastIn[d] <= busy[v]
        ELSE lastOut[d] <= busy[v] \/ lastLarge <= busy[v]
    BY <1>7, <2>1 DEF Inv, FoundInv
  <2>3. /\ cache'[n][d].listed = found[v]
        /\ cache'[n][d].ttl = IF found[v] THEN CacheTTLSec ELSE NegativeCacheTTLSec
    BY <1>1, <1>7 DEF Cache, TypeOK, Entry
  <2>4. lastIn' = lastIn /\ lastOut' = lastOut /\ lastLarge' = lastLarge
    BY <1>7 DEF Cache, ghosts
  <2> QED  BY <1>2, <2>1, <2>2, <2>3, <2>4 DEF Fresh
<1>8. ASSUME Restart(n)  PROVE Fresh(cache[n][d], d)'
  <2>1. cache'[n][d] = NoEntry
    BY <1>1, <1>8 DEF Restart, TypeOK
  <2> QED  BY <2>1 DEF Fresh, NoEntry
<1>9. \/ Tick \/ cache'[n][d] = cache[n][d] \/ Restart(n)
      \/ \E v \in Visitor : Cache(v) /\ at[v] = n /\ asked[v] = d
  <2>1. ASSUME NEW v \in Visitor, Cache(v), ~(at[v] = n /\ asked[v] = d)
        PROVE  cache'[n][d] = cache[n][d]
    BY <1>1, <2>1 DEF Cache, TypeOK
  <2>2. ASSUME NEW k \in Node, k # n, Restart(k)  PROVE cache'[n][d] = cache[n][d]
    BY <1>1, <2>2 DEF Restart, TypeOK
  <2>3. Tick \/ cache' = cache \/ (\E k \in Node : Restart(k)) \/ \E v \in Visitor : Cache(v)
    BY DEF Next, vars, Ask, Cached, Scan, LookupFails, CreateWhiteList, DeleteWhiteList,
           Arrive, ZAdd, Persist, ZRem, EditFails
  <2> QED  BY <2>1, <2>2, <2>3
<1> QED  BY <1>5, <1>6, <1>7, <1>8, <1>9

LEMMA Invariance == Spec => []Inv
<1>1. Init => Inv
  <2>1. Init => TypeOK
    BY TypeInit
  <2>2. Init => AgesInv
    BY WhiteListAssumption, FS_EmptySet DEF Init, AgesInv, Large
  <2>3. Init => FoundInv
    BY DEF Init, FoundInv
  <2>4. Init => CacheInv
    BY DEF Init, CacheInv, Fresh, NoEntry
  <2> QED  BY <2>1, <2>2, <2>3, <2>4 DEF Inv
<1>2. Inv /\ [Next]_vars => Inv'
  BY TypeNext, AgesStep, FoundStep, CacheStep DEF Inv
<1> QED  BY <1>1, <1>2, PTL DEF Spec

-----------------------------------------------------------------------------

\* The steps that answer "allowed" or "refused".
LEMMA Answers ==
    ASSUME Inv, [Next]_vars, NEW v \in Visitor, answer[v] = "none",
           answer'[v] \in {"allowed", "refused"}
    PROVE  (Cached(v) \/ Cache(v)) /\ asked[v] \in Domain /\ at[v] \in Node
<1> USE DEF Inv, TypeOK
<1>1. ASSUME NEW w \in Visitor, w # v,
             Ask(w) \/ Cached(w) \/ Scan(w) \/ Cache(w) \/ LookupFails(w)
      PROVE  answer'[v] = answer[v]
  BY <1>1 DEF Ask, Cached, Scan, Cache, LookupFails, Answer
<1>2. ASSUME Ask(v) \/ Scan(v) \/ LookupFails(v)  PROVE answer'[v] \in {"none", "error"}
  BY <1>2 DEF Ask, Scan, LookupFails, Answer
<1>3. ASSUME NEW n \in Node, Restart(n)  PROVE answer'[v] \in {"none", "error"}
  BY <1>3 DEF Restart
<1>4. \/ answer' = answer \/ (\E n \in Node : Restart(n))
      \/ \E w \in Visitor : Ask(w) \/ Cached(w) \/ Scan(w) \/ Cache(w) \/ LookupFails(w)
  BY DEF Next, vars, lookups, CreateWhiteList, DeleteWhiteList, Arrive, ZAdd, Persist, ZRem,
         EditFails, Tick
<1>5. Cached(v) \/ Cache(v)
  BY <1>1, <1>2, <1>3, <1>4
<1>6. vpc[v] # "idle"
  BY <1>5 DEF Cached, Cache
<1> QED  BY <1>5, <1>6

\* AllowedFresh: whoever is let through because of the white list asks less
\* than CacheTTLSec and one look-up after its domain was on it.
THEOREM Allowed == Spec => AllowedFresh
<1>1. ASSUME Inv, [Next]_vars, NEW v \in Visitor, answer[v] = "none", answer'[v] = "allowed"
      PROVE  lastIn[asked[v]] < CacheTTLSec + MaxRequest
  <2> USE WhiteListAssumption
  <2>1. (Cached(v) \/ Cache(v)) /\ asked[v] \in Domain /\ at[v] \in Node
    BY <1>1, Answers
  <2>2. TypeOK /\ lastIn[asked[v]] \in Nat
    BY <1>1, <2>1 DEF Inv, TypeOK
  <2>3. CASE Cached(v)
    <3> DEFINE entry == cache[at[v]][asked[v]]
    <3>1. entry \in Entry /\ entry.ttl > 0 /\ Verdict(entry.listed) = "allowed"
      BY <1>1, <2>1, <2>2, <2>3 DEF Cached, Answer, Hit, TypeOK
    <3>2. Fresh(entry, asked[v]) /\ entry.listed /\ entry.ttl \in Nat
      BY <1>1, <2>1, <3>1 DEF Inv, CacheInv, Verdict, Entry
    <3> HIDE DEF entry
    <3> QED  BY <2>2, <3>1, <3>2 DEF Fresh
  <2>4. CASE Cache(v)
    <3>1. Verdict(found[v]) = "allowed" /\ vpc[v] = "cache" /\ busy[v] \in 0..MaxRequest
      BY <1>1, <2>2, <2>4 DEF Cache, Answer, TypeOK
    <3>2. lastIn[asked[v]] <= busy[v]
      BY <1>1, <2>2, <3>1 DEF Inv, FoundInv, Verdict
    <3> QED  BY <2>2, <3>1, <3>2
  <2> QED  BY <2>1, <2>3, <2>4
<1>2. Inv /\ [Next]_vars =>
        [\A v \in Visitor : answer[v] = "none" /\ answer'[v] = "allowed" =>
            lastIn[asked[v]] < CacheTTLSec + MaxRequest]_vars
  BY <1>1
<1> QED  BY <1>2, Invariance, PTL DEF Spec, AllowedFresh

\* RefusedFresh: whoever is not let through asks less than NegativeCacheTTLSec
\* and one look-up after its domain was off the white list, or after the list
\* was larger than what one ZSCAN returns.
THEOREM Refused == Spec => RefusedFresh
<1>1. ASSUME Inv, [Next]_vars, NEW v \in Visitor, answer[v] = "none", answer'[v] = "refused"
      PROVE  \E age \in {lastOut[asked[v]], lastLarge} : age < NegativeCacheTTLSec + MaxRequest
  <2> USE WhiteListAssumption
  <2>1. (Cached(v) \/ Cache(v)) /\ asked[v] \in Domain /\ at[v] \in Node
    BY <1>1, Answers
  <2>2. TypeOK /\ lastOut[asked[v]] \in Nat /\ lastLarge \in Nat
    BY <1>1, <2>1 DEF Inv, TypeOK
  <2>3. CASE Cached(v)
    <3> DEFINE entry == cache[at[v]][asked[v]]
    <3>1. entry \in Entry /\ entry.ttl > 0 /\ Verdict(entry.listed) = "refused"
      BY <1>1, <2>1, <2>2, <2>3 DEF Cached, Answer, Hit, TypeOK
    <3>2. Fresh(entry, asked[v]) /\ ~entry.listed /\ entry.ttl \in Nat
      BY <1>1, <2>1, <3>1 DEF Inv, CacheInv, Verdict, Entry
    <3> HIDE DEF entry
    <3> QED  BY <2>2, <3>1, <3>2 DEF Fresh
  <2>4. CASE Cache(v)
    <3>1. Verdict(found[v]) = "refused" /\ vpc[v] = "cache" /\ busy[v] \in 0..MaxRequest
      BY <1>1, <2>2, <2>4 DEF Cache, Answer, TypeOK
    <3>2. lastOut[asked[v]] <= busy[v] \/ lastLarge <= busy[v]
      BY <1>1, <2>2, <3>1 DEF Inv, FoundInv, Verdict
    <3> QED  BY <2>2, <3>1, <3>2
  <2> QED  BY <2>1, <2>3, <2>4
<1>2. Inv /\ [Next]_vars =>
        [\A v \in Visitor : answer[v] = "none" /\ answer'[v] = "refused" =>
            \E age \in {lastOut[asked[v]], lastLarge} :
                age < NegativeCacheTTLSec + MaxRequest]_vars
  BY <1>1
<1> QED  BY <1>2, Invariance, PTL DEF Spec, RefusedFresh
=============================================================================
