------------------------- MODULE PermitWorker_proofs -------------------------
(***************************************************************************)
(* Proofs about the permit worker, for any set of nodes and domains, any   *)
(* configuration that config.go validates, and any duration of a cycle     *)
(* shorter than the permit interval.                                       *)
(***************************************************************************)
EXTENDS PermitWorker, TLAPS

-----------------------------------------------------------------------------
(* Keys stay keys.                                                         *)

LEMMA PlusNumber ==
    ASSUME NEW a \in Number, NEW b \in Nat
    PROVE  Plus(a, b) \in Number
BY StoreAssumption DEF Plus, Number

LEMMA MissingKey == Missing \in Key
BY StoreAssumption DEF Missing, Key, Number, Ttl, NoKey, NoExpiry

LEMMA SetEXKey ==
    ASSUME NEW v \in Number, NEW t \in Nat \ {0}
    PROVE  SetEX(v, t) \in Key
BY DEF SetEX, Key, Ttl

LEMMA SetNXKey ==
    ASSUME NEW k \in Key, NEW v \in Number
    PROVE  SetNX(k, v) \in Key
BY DEF SetNX, Key, Ttl, NoExpiry

LEMMA IncrByKey ==
    ASSUME NEW k \in Key, NEW n \in Nat
    PROVE  IncrBy(k, n) \in Key
<1>1. Plus(k.val, n) \in Number
  BY PlusNumber DEF Key
<1>2. Plus(0, n) \in Number
  BY PlusNumber, StoreAssumption DEF Number
<1> QED
  BY <1>1, <1>2 DEF IncrBy, Key, Ttl, NoExpiry

LEMMA ExpireKey ==
    ASSUME NEW k \in Key, NEW t \in Int
    PROVE  Expire(k, t) \in Key
BY MissingKey DEF Expire, Key, Ttl

LEMMA AgedKey ==
    ASSUME NEW k \in Key
    PROVE  Aged(k) \in Key
BY MissingKey DEF Aged, Key, Ttl, NoKey, NoExpiry

-----------------------------------------------------------------------------
(* Every repository operation keeps the types of the store.                *)

LEMMA SetNXPermittedType ==
    ASSUME StoreTypeOK, NEW d \in Domain, SetNXPermitted(d)
    PROVE  StoreTypeOK'
<1>1. SetNX(permitted[d], 0) \in Key
  BY SetNXKey, StoreAssumption DEF StoreTypeOK, Number
<1> QED
  BY <1>1 DEF StoreTypeOK, SetNXPermitted

LEMMA ZAddDomainType ==
    ASSUME StoreTypeOK, NEW d \in Domain, ZAddDomain(d)
    PROVE  StoreTypeOK'
<1>1. [members |-> domains.members \cup {d},
       ttl |-> IF domains.members = {} THEN NoExpiry ELSE domains.ttl]
          \in [members : SUBSET Domain, ttl : Ttl]
  BY DEF StoreTypeOK, Ttl, NoExpiry
<1> QED
  BY <1>1 DEF StoreTypeOK, ZAddDomain

LEMMA UnlistType ==
    ASSUME StoreTypeOK, NEW d \in Domain
    PROVE  (IF domains.members \subseteq {d} THEN NoDomains
            ELSE [domains EXCEPT !.members = @ \ {d}])
               \in [members : SUBSET Domain, ttl : Ttl]
BY DEF StoreTypeOK, NoDomains, Ttl

LEMMA ZRemDomainType ==
    ASSUME StoreTypeOK, NEW d \in Domain, ZRemDomain(d)
    PROVE  StoreTypeOK'
BY UnlistType DEF StoreTypeOK, ZRemDomain

LEMMA DelNumbersType ==
    ASSUME StoreTypeOK, NEW d \in Domain, DelNumbers(d)
    PROVE  StoreTypeOK'
BY MissingKey DEF StoreTypeOK, DelNumbers

LEMMA SaveNumberType ==
    ASSUME StoreTypeOK, NEW d \in Domain, NEW v \in Number,
           SaveCurrentNumber(d, v) \/ SaveCurrentPermitNumber(d, v)
    PROVE  StoreTypeOK'
<1>1. SetEX(v, QueueEnableSec) \in Key
  BY SetEXKey, StoreAssumption
<1> QED
  BY <1>1 DEF StoreTypeOK, SaveCurrentNumber, SaveCurrentPermitNumber

LEMMA IncrPermittedType ==
    ASSUME StoreTypeOK, NEW d \in Domain, IncrPermitted(d)
    PROVE  StoreTypeOK'
<1>1. IncrBy(permitted[d], PermitUnitNumber) \in Key
  BY IncrByKey, StoreAssumption DEF StoreTypeOK
<1> QED
  BY <1>1 DEF StoreTypeOK, IncrPermitted

LEMMA ExpirePermittedType ==
    ASSUME StoreTypeOK, NEW d \in Domain, NEW t \in Nat, ExpirePermitted(d, t)
    PROVE  StoreTypeOK'
<1>1. Expire(permitted[d], t) \in Key
  BY ExpireKey DEF StoreTypeOK
<1> QED
  BY <1>1 DEF StoreTypeOK, ExpirePermitted

LEMMA ExtendCurrentType ==
    ASSUME StoreTypeOK, NEW d \in Domain, NEW t \in Nat, ExtendCurrentNumberTTL(d, t)
    PROVE  StoreTypeOK'
<1>1. Expire(current[d], t) \in Key
  BY ExpireKey DEF StoreTypeOK
<1> QED
  BY <1>1 DEF StoreTypeOK, ExtendCurrentNumberTTL

LEMMA SaveLastType ==
    ASSUME StoreTypeOK, NEW d \in Domain, NEW v \in Number, NEW t \in Nat \ {0},
           SaveLastNumber(d, v, t)
    PROVE  StoreTypeOK'
BY SetEXKey DEF StoreTypeOK, SaveLastNumber

LEMMA ExtendListType ==
    ASSUME StoreTypeOK
    PROVE  (IF domains.members = {} THEN NoDomains
            ELSE [domains EXCEPT !.ttl = 2 * QueueEnableSec])
               \in [members : SUBSET Domain, ttl : Ttl]
<1>1. 2 * QueueEnableSec \in Ttl
  BY StoreAssumption DEF Ttl
<1> QED
  BY <1>1 DEF StoreTypeOK, NoDomains, Ttl

LEMMA ExtendDomainsType ==
    ASSUME StoreTypeOK, ExtendDomainsTTL
    PROVE  StoreTypeOK'
BY ExtendListType DEF StoreTypeOK, ExtendDomainsTTL

LEMMA IncrCurrentType ==
    ASSUME StoreTypeOK, NEW d \in Domain, IncrCurrent(d)
    PROVE  StoreTypeOK'
<1>1. IncrBy(current[d], 1) \in Key
  BY IncrByKey DEF StoreTypeOK
<1> QED
  BY <1>1 DEF StoreTypeOK, IncrCurrent

LEMMA SetNXLockType ==
    ASSUME StoreTypeOK, NEW d \in Domain, SetNXLock(d)
    PROVE  StoreTypeOK'
<1>1. SetNX(lock[d], 1) \in Key
  BY SetNXKey, StoreAssumption DEF StoreTypeOK, Number
<1> QED
  BY <1>1 DEF StoreTypeOK, SetNXLock

LEMMA ExpireLockType ==
    ASSUME StoreTypeOK, NEW d \in Domain, ExpireLock(d)
    PROVE  StoreTypeOK'
<1>1. Expire(lock[d], PermitIntervalSec) \in Key
  BY ExpireKey, StoreAssumption DEF StoreTypeOK
<1> QED
  BY <1>1 DEF StoreTypeOK, ExpireLock

LEMMA AgeStoreType ==
    ASSUME StoreTypeOK, AgeStore
    PROVE  StoreTypeOK'
<1>1. (IF domains.ttl = 1 THEN NoDomains
       ELSE [domains EXCEPT !.ttl = IF @ > 1 THEN @ - 1 ELSE @])
          \in [members : SUBSET Domain, ttl : Ttl]
  <2>1. CASE domains.ttl = 1
    BY <2>1 DEF NoDomains, Ttl
  <2>2. CASE domains.ttl # 1
    <3>1. (IF domains.ttl > 1 THEN domains.ttl - 1 ELSE domains.ttl) \in Ttl
      BY <2>2 DEF StoreTypeOK, Ttl, NoKey, NoExpiry
    <3> QED
      BY <2>2, <3>1 DEF StoreTypeOK
  <2> QED
    BY <2>1, <2>2
<1> QED
  BY <1>1, AgedKey DEF StoreTypeOK, AgeStore

LEMMA SameStoreType ==
    ASSUME StoreTypeOK, UNCHANGED store
    PROVE  StoreTypeOK'
BY DEF StoreTypeOK, store

-----------------------------------------------------------------------------
(* The control flow keeps a node in or out of the loop body.               *)

LEMMA GotoFlow ==
    ASSUME FlowTypeOK, NEW n \in Node, NEW p \in Visiting, pc[n] \in Visiting, Goto(n, p)
    PROVE  FlowTypeOK'
BY DEF FlowTypeOK, Goto, Visiting, PC

LEMMA NextDomainFlow ==
    ASSUME FlowTypeOK, NEW n \in Node, NEW rest \in SUBSET Domain, NextDomain(n, rest)
    PROVE  FlowTypeOK'
<1>1. CASE rest = {} /\ pc' = [pc EXCEPT ![n] = "extendDomains"]
           /\ dom' = [dom EXCEPT ![n] = NoDomain] /\ todo' = [todo EXCEPT ![n] = {}]
  BY <1>1, StoreAssumption DEF FlowTypeOK, NextDomain, Visiting, PC, NoDomain
<1>2. ASSUME NEW d \in rest,
             pc' = [pc EXCEPT ![n] = "isEnabled"], dom' = [dom EXCEPT ![n] = d],
             todo' = [todo EXCEPT ![n] = rest \ {d}]
      PROVE  FlowTypeOK'
  BY <1>2 DEF FlowTypeOK, NextDomain, Visiting, PC
<1> QED
  BY <1>1, <1>2 DEF NextDomain

LEMMA EndCycleFlow ==
    ASSUME FlowTypeOK, NEW n \in Node, EndCycle(n)
    PROVE  FlowTypeOK'
BY StoreAssumption, WorkerAssumption
   DEF FlowTypeOK, EndCycle, Visiting, PC, NoDomain

LEMMA SameFlow ==
    ASSUME FlowTypeOK, UNCHANGED worker
    PROVE  FlowTypeOK'
BY DEF FlowTypeOK, worker

-----------------------------------------------------------------------------
(* Type correctness, one lemma for the commands of a cycle, one for        *)
(* failures and one for everyone else.                                     *)

LEMMA ReadTypes ==
    ASSUME TypeOK, NEW d \in Domain
    PROVE  /\ GetCurrentPermitNumber(d) \in -1..MaxNumber
           /\ GetLastNumber(d) \in Number
           /\ TtlReplies(permitted[d]) \subseteq Nat
           /\ current[d].val \in Number
<1>1. permitted[d] \in Key /\ last[d] \in Key /\ current[d] \in Key
  BY DEF TypeOK, StoreTypeOK
<1> QED
  BY <1>1, StoreAssumption
     DEF GetCurrentPermitNumber, GetLastNumber, TtlReplies, Key, Number, Ttl, NoKey, NoExpiry

LEMMA SpentType ==
    ASSUME NEW s \in 0..FullCredit
    PROVE  Spent(s) \in 0..FullCredit /\ Earned(s) \in 0..FullCredit
BY StoreAssumption, WorkerAssumption DEF Spent, Earned, FullCredit

LEMMA CycleType ==
    ASSUME TypeOK, NEW n \in Node, Cycle(n)
    PROVE  TypeOK'
<1> USE DEF TypeOK
<1> DEFINE d == dom[n]
<1>a. pc[n] \in Visiting => d \in Domain
  BY DEF FlowTypeOK
<1>b. todo[n] \in SUBSET Domain /\ domains.members \in SUBSET Domain
  BY DEF FlowTypeOK, StoreTypeOK
<1>c. NotRead \in [an : -1..MaxNumber, ttl : Nat, cn : Number]
  BY StoreAssumption DEF NotRead, Number
<1>d. NoEntry \in [enabled : BOOLEAN, ttl : Nat]
  BY DEF NoEntry
<1>e. CacheTTLSec \in Nat /\ NegativeCacheTTLSec \in Nat /\ QueueEnableSec \in Nat
  BY StoreAssumption, WorkerAssumption
<1>1. CASE StartCycle(n)
  <2>1. CASE domains.members = {}
    BY <1>1, <2>1, <1>c, EndCycleFlow, SameStoreType DEF StartCycle, EndCycle
  <2>2. CASE domains.members # {}
    BY <1>1, <2>2, <1>b, <1>c, NextDomainFlow, SameStoreType DEF StartCycle, NextDomain
  <2> QED
    BY <2>1, <2>2
<1>2. CASE IsEnabled(n)
  <2>1. d \in Domain /\ pc[n] \in Visiting
    BY <1>2, <1>a DEF IsEnabled, Visiting, PC
  <2>2. cache' \in [Node -> [Domain -> [enabled : BOOLEAN, ttl : Nat]]]
    BY <1>2, <1>e, <2>1 DEF IsEnabled
  <2>3. PICK p \in Visiting : Goto(n, p)
    BY <1>2 DEF IsEnabled, Visiting, PC
  <2> QED
    BY <1>2, <2>1, <2>2, <2>3, GotoFlow, SameStoreType DEF IsEnabled
<1>3. CASE ZRemDisabled(n)
  BY <1>3, <1>a, GotoFlow, ZRemDomainType DEF ZRemDisabled, Visiting, PC
<1>4. CASE DelDisabled(n)
  <2>1. d \in Domain
    BY <1>4, <1>a DEF DelDisabled, Visiting, PC
  <2> QED
    BY <1>4, <2>1, <1>b, <1>c, <1>d, NextDomainFlow, DelNumbersType
       DEF DelDisabled, NextDomain, FlushCache
<1>5. CASE TryLock(n)
  <2>1. d \in Domain /\ pc[n] \in Visiting
    BY <1>5, <1>a DEF TryLock, Visiting, PC
  <2>2. CASE NextDomain(n, todo[n]) /\ UNCHANGED store
    BY <1>5, <2>2, <1>b, <1>c, NextDomainFlow, SameStoreType DEF TryLock, NextDomain
  <2>3. CASE SetNXLock(d) /\ Goto(n, "expireLock") /\ UNCHANGED seen
    BY <1>5, <2>1, <2>3, GotoFlow, SetNXLockType DEF TryLock, Visiting, PC
  <2> QED
    BY <1>5, <2>2, <2>3 DEF TryLock
<1>6. CASE SetLockTTL(n)
  BY <1>6, <1>a, GotoFlow, ExpireLockType DEF SetLockTTL, Visiting, PC
<1>7. CASE GetPermit(n)
  <2>1. d \in Domain /\ pc[n] \in Visiting
    BY <1>7, <1>a DEF GetPermit, Visiting, PC
  <2> QED
    BY <1>7, <2>1, ReadTypes, GotoFlow, SameStoreType DEF GetPermit, Visiting, PC
<1>8. CASE GetTTL(n)
  <2>1. d \in Domain /\ pc[n] \in Visiting
    BY <1>8, <1>a DEF GetTTL, Visiting, PC
  <2> QED
    BY <1>8, <2>1, ReadTypes, GotoFlow, SameStoreType DEF GetTTL, Visiting, PC
<1>9. CASE GetCurrent(n)
  <2>1. d \in Domain /\ pc[n] \in Visiting
    BY <1>9, <1>a DEF GetCurrent, Visiting, PC
  <2>2. CASE EndCycle(n)
    BY <1>9, <2>2, <1>c, EndCycleFlow, SameStoreType DEF GetCurrent, EndCycle
  <2>3. CASE seen' = [seen EXCEPT ![n].cn = current[d].val] /\ Goto(n, "getLast")
    BY <1>9, <2>1, <2>3, ReadTypes, GotoFlow, SameStoreType DEF GetCurrent, Visiting, PC
  <2> QED
    BY <1>9, <2>2, <2>3 DEF GetCurrent
<1>10. CASE GetLast(n)
  <2>1. pc[n] \in Visiting
    BY <1>10 DEF GetLast, Visiting, PC
  <2>2. PICK p \in Visiting : Goto(n, p)
    BY <1>10 DEF GetLast, Visiting, PC
  <2>3. seen' \in [Node -> [an : -1..MaxNumber, ttl : Nat, cn : Number]]
    BY <1>10, <1>e DEF GetLast
  <2> QED
    BY <1>10, <2>1, <2>2, <2>3, GotoFlow, SameStoreType DEF GetLast
<1>11. CASE ZRemIdle(n)
  BY <1>11, <1>a, GotoFlow, ZRemDomainType DEF ZRemIdle, Visiting, PC
<1>12. CASE DelIdle(n)
  <2>1. d \in Domain
    BY <1>12, <1>a DEF DelIdle, Visiting, PC
  <2> QED
    BY <1>12, <2>1, <1>c, <1>d, EndCycleFlow, DelNumbersType DEF DelIdle, EndCycle, FlushCache
<1>13. CASE Incr(n)
  <2>1. d \in Domain /\ pc[n] \in Visiting
    BY <1>13, <1>a DEF Incr, Visiting, PC
  <2>2. credit' \in [Domain -> 0..FullCredit]
    BY <1>13, <2>1, SpentType DEF Incr
  <2> QED
    BY <1>13, <2>1, <2>2, GotoFlow, IncrPermittedType DEF Incr, Visiting, PC
<1>14. CASE ExpirePermit(n)
  <2>1. d \in Domain /\ pc[n] \in Visiting /\ seen[n].ttl \in Nat
    BY <1>14, <1>a DEF ExpirePermit, Visiting, PC
  <2> QED
    BY <1>14, <2>1, GotoFlow, ExpirePermittedType DEF ExpirePermit, Visiting, PC
<1>15. CASE ExtendCurrent(n)
  <2>1. d \in Domain /\ pc[n] \in Visiting /\ seen[n].ttl \in Nat
    BY <1>15, <1>a DEF ExtendCurrent, Visiting, PC
  <2> QED
    BY <1>15, <2>1, GotoFlow, ExtendCurrentType DEF ExtendCurrent, Visiting, PC
<1>16. CASE SaveLast(n)
  <2>1. d \in Domain /\ seen[n].cn \in Number /\ seen[n].ttl \in Nat
    BY <1>16, <1>a DEF SaveLast, Visiting, PC
  <2>2. CASE seen[n].ttl > 0 /\ SaveLastNumber(d, seen[n].cn, seen[n].ttl) /\ NextDomain(n, todo[n])
    <3>1. StoreTypeOK'
      BY <2>1, <2>2, SaveLastType
    <3> QED
      BY <1>16, <2>2, <3>1, <1>b, <1>c, NextDomainFlow DEF SaveLast, NextDomain
  <2>3. CASE EndCycle(n) /\ UNCHANGED store
    BY <1>16, <2>3, <1>c, EndCycleFlow, SameStoreType DEF SaveLast, EndCycle
  <2> QED
    BY <1>16, <2>2, <2>3 DEF SaveLast
<1>17. CASE ExtendDomains(n)
  BY <1>17, <1>c, EndCycleFlow, ExtendDomainsType DEF ExtendDomains, EndCycle
<1> QED
  BY <1>1, <1>2, <1>3, <1>4, <1>5, <1>6, <1>7, <1>8, <1>9, <1>10, <1>11, <1>12, <1>13,
     <1>14, <1>15, <1>16, <1>17 DEF Cycle

LEMMA FailureType ==
    ASSUME TypeOK, NEW n \in Node, CycleFails(n) \/ Crash(n) \/ RetryIncr(n) \/ RetryLock(n)
    PROVE  TypeOK'
<1> USE DEF TypeOK
<1>a. NotRead \in [an : -1..MaxNumber, ttl : Nat, cn : Number]
  BY StoreAssumption DEF NotRead, Number
<1>1. CASE CycleFails(n)
  <2>1. cache' \in [Node -> [Domain -> [enabled : BOOLEAN, ttl : Nat]]]
    <3>1. NoEntry \in [enabled : BOOLEAN, ttl : Nat]
      BY DEF NoEntry
    <3>2. CASE pc[n] \in Resetting
      <4>1. cache' = [cache EXCEPT ![n][dom[n]] = NoEntry]
        BY <1>1, <3>2 DEF CycleFails, FlushCache
      <4> QED
        BY <3>1, <4>1
    <3>3. CASE pc[n] \notin Resetting
      BY <1>1, <3>3 DEF CycleFails
    <3> QED
      BY <3>2, <3>3
  <2> QED
    BY <1>1, <2>1, <1>a, EndCycleFlow, SameStoreType DEF CycleFails, EndCycle
<1>2. CASE Crash(n)
  <2>1. FlowTypeOK'
    BY <1>2, StoreAssumption, WorkerAssumption
       DEF FlowTypeOK, Crash, Visiting, PC, NoDomain
  <2> QED
    BY <1>2, <2>1, <1>a, SameStoreType DEF Crash, NoEntry
<1>3. CASE RetryIncr(n)
  <2>1. dom[n] \in Domain
    BY <1>3 DEF RetryIncr, FlowTypeOK, Visiting, PC
  <2>2. credit' \in [Domain -> 0..FullCredit]
    BY <1>3, <2>1, SpentType DEF RetryIncr
  <2>3. UNCHANGED <<seen, cache, pipes>>
    BY <1>3 DEF RetryIncr, worker
  <2> QED
    BY <1>3, <2>1, <2>2, <2>3, SameFlow, IncrPermittedType DEF RetryIncr
<1>4. CASE RetryLock(n)
  <2>1. dom[n] \in Domain
    BY <1>4 DEF RetryLock, FlowTypeOK, Visiting, PC
  <2>2. UNCHANGED <<seen, cache>>
    BY <1>4 DEF RetryLock, worker
  <2> QED
    BY <1>4, <2>1, <2>2, SameFlow, SetNXLockType DEF RetryLock
<1> QED
  BY <1>1, <1>2, <1>3, <1>4

LEMMA TickType ==
    ASSUME TypeOK, Tick
    PROVE  TypeOK'
<1> USE DEF TypeOK
<1>1. StoreTypeOK'
  BY AgeStoreType DEF Tick
<1>2. FlowTypeOK'
  BY StoreAssumption, WorkerAssumption DEF FlowTypeOK, Tick
<1>3. cache' \in [Node -> [Domain -> [enabled : BOOLEAN, ttl : Nat]]]
  <2>1. ASSUME NEW m \in Node, NEW d \in Domain
        PROVE  (IF cache[m][d].ttl > 1 THEN [cache[m][d] EXCEPT !.ttl = @ - 1] ELSE NoEntry)
                   \in [enabled : BOOLEAN, ttl : Nat]
    <3>1. cache[m][d] \in [enabled : BOOLEAN, ttl : Nat]
      OBVIOUS
    <3>2. CASE cache[m][d].ttl > 1
      <4>1. cache[m][d].ttl - 1 \in Nat
        BY <3>1, <3>2
      <4> QED
        BY <3>1, <3>2, <4>1
    <3>3. CASE ~(cache[m][d].ttl > 1)
      BY <3>3 DEF NoEntry
    <3> QED
      BY <3>2, <3>3
  <2> QED
    BY <2>1 DEF Tick
<1>4. credit' \in [Domain -> 0..FullCredit]
  BY SpentType DEF Tick
<1> QED
  BY <1>1, <1>2, <1>3, <1>4 DEF Tick

LEMMA IssueType ==
    ASSUME pipes \in [Domain -> SUBSET Piped], NEW d \in Domain, NEW ps \in SUBSET Piped,
           Issue(d, ps)
    PROVE  pipes' \in [Domain -> SUBSET Piped]
BY DEF Issue

LEMMA GoesOnType ==
    ASSUME pipes \in [Domain -> SUBSET Piped], NEW d \in Domain, NEW p \in Piped,
           NEW rest \in SUBSET Piped, GoesOn(d, p, rest)
    PROVE  pipes' \in [Domain -> SUBSET Piped] /\ UNCHANGED <<worker, credit>>
<1>1. PICK others \in SUBSET {p} : Issue(d, (pipes[d] \ {p}) \cup others \cup rest)
  BY DEF GoesOn
<1>2. (pipes[d] \ {p}) \cup others \cup rest \in SUBSET Piped
  OBVIOUS
<1> QED
  BY <1>1, <1>2, IssueType DEF GoesOn

LEMMA VisitType ==
    ASSUME TypeOK, NEW d \in Domain, Visit(d)
    PROVE  TypeOK'
<1> USE DEF TypeOK
<1>1. /\ StoreTypeOK'
      /\ pipes' \in [Domain -> SUBSET Piped]
      /\ UNCHANGED <<worker, credit>>
  <2>1. CASE Enable(d)
    <3>1. pipes[d] \cup {"expireEnabled"} \in SUBSET Piped
      BY DEF Piped
    <3> QED
      BY <2>1, <3>1, IssueType, SetNXPermittedType DEF Enable, Begins
  <2>2. CASE ExpireEnabled(d)
    BY <2>2, GoesOnType, ExpirePermittedType, StoreAssumption DEF ExpireEnabled, Piped
  <2>3. CASE ListEnabled(d)
    BY <2>3, GoesOnType, ZAddDomainType DEF ListEnabled, Piped
  <2>4. CASE ExtendEnabled(d)
    BY <2>4, GoesOnType, ExtendDomainsType DEF ExtendEnabled, Piped
  <2>5. CASE TakeNumber(d)
    <3>1. pipes[d] \cup {"expireTaken"} \in SUBSET Piped
      BY DEF Piped
    <3> QED
      BY <2>5, <3>1, IssueType, IncrCurrentType DEF TakeNumber, Begins
  <2>6. CASE ExpireTaken(d)
    BY <2>6, GoesOnType, ExtendCurrentType, StoreAssumption DEF ExpireTaken, Piped
  <2> QED
    BY <2>1, <2>2, <2>3, <2>4, <2>5, <2>6 DEF Visit
<1> QED
  BY <1>1, SameFlow DEF worker

LEMMA EnvironmentType ==
    ASSUME TypeOK, Environment
    PROVE  TypeOK'
<1> USE DEF TypeOK
<1>1. ASSUME NEW d \in Domain, PipelineCut(d)
      PROVE  TypeOK'
  <2>1. pipes' \in [Domain -> SUBSET Piped] /\ UNCHANGED <<store, worker, credit>>
    BY <1>1 DEF PipelineCut
  <2> QED
    BY <2>1, SameFlow, SameStoreType DEF worker
<1>2. ASSUME NEW d \in AdminDomain, Admin(d)
      PROVE  TypeOK'
  <2>1. d \in Domain
    BY WorkerAssumption
  <2>2. ASSUME AdminExtend
        PROVE  StoreTypeOK'
    BY <2>2, ExtendDomainsType DEF AdminExtend
  <2>3. ASSUME NEW v \in Number, AdminSaveCurrent(d, v) \/ AdminSavePermit(d, v)
        PROVE  StoreTypeOK'
    BY <2>1, <2>3, SaveNumberType DEF AdminSaveCurrent, AdminSavePermit
  <2>4. ASSUME AdminZRem(d)
        PROVE  StoreTypeOK'
    BY <2>1, <2>4, ZRemDomainType DEF AdminZRem
  <2>5. ASSUME AdminDel(d)
        PROVE  StoreTypeOK'
    BY <2>1, <2>5, DelNumbersType DEF AdminDel
  <2>6. StoreTypeOK'
    BY <1>2, <2>2, <2>3, <2>4, <2>5 DEF Admin
  <2>7. UNCHANGED <<worker, pipes, credit>>
    BY <1>2 DEF Admin, AdminExtend, AdminSaveCurrent, AdminSavePermit, AdminZRem, AdminDel
  <2> QED
    BY <2>6, <2>7, SameFlow DEF worker
<1> QED
  BY <1>1, <1>2, VisitType, TickType DEF Environment

LEMMA InitType == Init => TypeOK
BY StoreAssumption, WorkerAssumption, MissingKey
   DEF Init, TypeOK, StoreInit, StoreTypeOK, FlowTypeOK, NoDomains, Ttl, NoDomain, NoEntry,
       NotRead, Number, FullCredit, Visiting, PC

LEMMA NextType == TypeOK /\ [Next]_vars => TypeOK'
<1> SUFFICES ASSUME TypeOK, [Next]_vars
             PROVE  TypeOK'
  OBVIOUS
<1>1. CASE Next
  BY <1>1, CycleType, FailureType, EnvironmentType DEF Next
<1>2. CASE UNCHANGED vars
  BY <1>2, SameStoreType, SameFlow DEF vars, worker, TypeOK
<1> QED
  BY <1>1, <1>2

\* The types of AccessController.Do and of the store it works on: no TTL is
\* ever stored as zero, no counter leaves its bound, and a node has a domain
\* exactly while it issues commands about one.
THEOREM TypeCorrect == Spec => []TypeOK
BY InitType, NextType, PTL DEF Spec

-----------------------------------------------------------------------------
(* One updater per domain.                                                 *)

\* A node that holds a lock has time left in its cycle, so the lock is there.
LEMMA HolderHasLock ==
    ASSUME Punctual, TypeOK, LockInv, NEW n \in Node, pc[n] \in Updating
    PROVE  dom[n] \in Domain /\ Live(lock[dom[n]])
<1>1. dom[n] \in Domain
  BY DEF TypeOK, FlowTypeOK, Updating, Visiting, PC
<1>2. CASE pc[n] = "expireLock"
  BY <1>1, <1>2 DEF LockInv, Live, NoKey, NoExpiry
<1>3. CASE pc[n] # "expireLock"
  <2>1. lock[dom[n]].ttl \in Int /\ busy[n] \in 0..MaxCycle
    BY <1>1 DEF TypeOK, StoreTypeOK, FlowTypeOK, Key, Ttl, NoKey, NoExpiry
  <2>2. lock[dom[n]].ttl + busy[n] >= PermitIntervalSec
    BY <1>3 DEF LockInv
  <2> QED
    BY <1>1, <2>1, <2>2, StoreAssumption, WorkerAssumption DEF Live, NoKey, Punctual
<1> QED
  BY <1>2, <1>3

\* The holder of a lock goes on to its next command.
LEMMA HolderMoves ==
    ASSUME TypeOK, LockInv, NEW n \in Node, NEW p \in Updating \ {"expireLock"},
           pc[n] \in Updating \ {"expireLock"}, Goto(n, p), UNCHANGED lock
    PROVE  LockInv'
BY DEF TypeOK, FlowTypeOK, LockInv, OneUpdater, Goto

\* A node does anything that neither takes a lock nor keeps one.
LEMMA NodeLeaves ==
    ASSUME TypeOK, LockInv, NEW n \in Node, UNCHANGED lock,
           pc' \in [Node -> PC], pc'[n] \notin Updating,
           \A m \in Node \ {n} : pc'[m] = pc[m] /\ dom'[m] = dom[m] /\ busy'[m] = busy[m]
    PROVE  LockInv'
BY DEF TypeOK, FlowTypeOK, LockInv, OneUpdater, Updating

LEMMA NextDomainLeaves ==
    ASSUME TypeOK, NEW n \in Node, NEW rest, NextDomain(n, rest)
    PROVE  /\ pc' \in [Node -> PC]
           /\ pc'[n] \notin Updating
           /\ \A m \in Node \ {n} : pc'[m] = pc[m] /\ dom'[m] = dom[m] /\ busy'[m] = busy[m]
BY DEF TypeOK, FlowTypeOK, NextDomain, Updating, PC

LEMMA EndCycleLeaves ==
    ASSUME TypeOK, NEW n \in Node, EndCycle(n)
    PROVE  /\ pc' \in [Node -> PC]
           /\ pc'[n] \notin Updating
           /\ \A m \in Node \ {n} : pc'[m] = pc[m] /\ dom'[m] = dom[m] /\ busy'[m] = busy[m]
BY DEF TypeOK, FlowTypeOK, EndCycle, Updating, PC

LEMMA SameLock ==
    ASSUME LockInv, UNCHANGED <<lock, worker>>
    PROVE  LockInv'
BY DEF LockInv, OneUpdater, worker

LEMMA TryLockLock ==
    ASSUME Punctual, TypeOK, LockInv, NEW n \in Node, TryLock(n)
    PROVE  LockInv'
<1>1. dom[n] \in Domain
  BY DEF TryLock, TypeOK, FlowTypeOK, Visiting, PC
<1>2. CASE NextDomain(n, todo[n]) /\ UNCHANGED store
  BY <1>2, NextDomainLeaves, NodeLeaves DEF store
<1>3. CASE ~Live(lock[dom[n]]) /\ SetNXLock(dom[n]) /\ Goto(n, "expireLock")
  \* Nobody else holds this lock, or it would be live.
  <2>1. \A m \in Node : pc[m] \in Updating => dom[m] # dom[n] /\ dom[m] \in Domain
    BY <1>3, HolderHasLock
  <2>2. pc[n] = "tryLock"
    BY DEF TryLock
  <2>3. /\ pc' = [pc EXCEPT ![n] = "expireLock"]
        /\ UNCHANGED <<dom, busy>>
        /\ lock' \in [Domain -> Key]
        /\ lock'[dom[n]].ttl = NoExpiry
        /\ \A d \in Domain \ {dom[n]} : lock'[d] = lock[d]
    <3>1. SetNX(lock[dom[n]], 1) \in Key
      <4>1. 1 \in Number
        BY StoreAssumption DEF Number
      <4>2. lock[dom[n]] \in Key
        BY <1>1 DEF TypeOK, StoreTypeOK
      <4> QED
        BY <4>1, <4>2, SetNXKey
    <3>2. SetNX(lock[dom[n]], 1).ttl = NoExpiry
      BY <1>3 DEF SetNX
    <3>3. lock' = [lock EXCEPT ![dom[n]] = SetNX(lock[dom[n]], 1)]
      BY <1>3 DEF SetNXLock
    <3>4. lock \in [Domain -> Key]
      BY DEF TypeOK, StoreTypeOK
    <3>5. pc' = [pc EXCEPT ![n] = "expireLock"] /\ UNCHANGED <<dom, busy>>
      BY <1>3 DEF Goto
    <3> QED
      BY <1>1, <3>1, <3>2, <3>3, <3>4, <3>5
  <2>4. pc \in [Node -> PC]
    BY DEF TypeOK, FlowTypeOK
  <2>5. \A m \in Node : pc'[m] = "expireLock" => lock'[dom'[m]].ttl = NoExpiry
    BY <1>1, <2>1, <2>3, <2>4 DEF LockInv, Updating
  <2>6. \A m \in Node : pc'[m] \in Updating \ {"expireLock"} =>
            lock'[dom'[m]].ttl + busy'[m] >= PermitIntervalSec
    BY <2>1, <2>3, <2>4 DEF LockInv
  <2>7. OneUpdater'
    BY <2>1, <2>3, <2>4 DEF LockInv, OneUpdater, Updating
  <2> QED
    BY <2>5, <2>6, <2>7 DEF LockInv
<1> QED
  BY <1>2, <1>3 DEF TryLock

LEMMA SetLockTTLLock ==
    ASSUME Punctual, TypeOK, LockInv, NEW n \in Node, SetLockTTL(n)
    PROVE  LockInv'
<1>1. dom[n] \in Domain /\ pc[n] = "expireLock" /\ lock[dom[n]].ttl = NoExpiry
  BY DEF SetLockTTL, TypeOK, FlowTypeOK, Visiting, PC, LockInv
<1>2. /\ pc' = [pc EXCEPT ![n] = "getPermit"]
      /\ UNCHANGED <<dom, busy>>
      /\ lock'[dom[n]].ttl = PermitIntervalSec
      /\ \A d \in Domain \ {dom[n]} : lock'[d] = lock[d]
  BY <1>1, StoreAssumption
     DEF SetLockTTL, Goto, ExpireLock, Expire, Live, NoKey, NoExpiry, TypeOK, StoreTypeOK, Key
<1>3. pc \in [Node -> PC] /\ busy[n] \in Nat
  BY DEF TypeOK, FlowTypeOK
<1>4. \A m \in Node \ {n} : pc[m] \in Updating => dom[m] \in Domain \ {dom[n]}
  BY <1>1, HolderHasLock DEF LockInv, OneUpdater, Updating
<1>5. \A m \in Node : pc'[m] = "expireLock" => lock'[dom'[m]].ttl = NoExpiry
  BY <1>2, <1>3, <1>4 DEF LockInv, Updating
<1>6. \A m \in Node : pc'[m] \in Updating \ {"expireLock"} =>
          lock'[dom'[m]].ttl + busy'[m] >= PermitIntervalSec
  <2>1. lock'[dom'[n]].ttl + busy'[n] >= PermitIntervalSec
    BY <1>2, <1>3, StoreAssumption
  <2>2. ASSUME NEW m \in Node \ {n}, pc'[m] \in Updating \ {"expireLock"}
        PROVE  lock'[dom'[m]].ttl + busy'[m] >= PermitIntervalSec
    <3>1. pc[m] = pc'[m]
      BY <1>2, <1>3
    <3> QED
      BY <1>2, <1>4, <2>2, <3>1 DEF LockInv
  <2> QED
    BY <2>1, <2>2
<1>7. OneUpdater'
  BY <1>1, <1>2, <1>3 DEF LockInv, OneUpdater, Updating
<1> QED
  BY <1>5, <1>6, <1>7 DEF LockInv

LEMMA CycleLock ==
    ASSUME Punctual, TypeOK, LockInv, NEW n \in Node, Cycle(n)
    PROVE  LockInv'
<1>1. CASE StartCycle(n)
  BY <1>1, EndCycleLeaves, NextDomainLeaves, NodeLeaves DEF StartCycle, store
<1>2. CASE IsEnabled(n)
  <2>1. UNCHANGED lock
    BY <1>2 DEF IsEnabled, store
  <2>2. /\ pc' \in [Node -> PC]
        /\ pc'[n] \notin Updating
        /\ \A m \in Node \ {n} : pc'[m] = pc[m] /\ dom'[m] = dom[m] /\ busy'[m] = busy[m]
    BY <1>2 DEF IsEnabled, Goto, TypeOK, FlowTypeOK, Updating, PC
  <2> QED
    BY <2>1, <2>2, NodeLeaves
<1>3. CASE ZRemDisabled(n)
  <2>1. UNCHANGED lock
    BY <1>3 DEF ZRemDisabled, ZRemDomain
  <2>2. /\ pc' \in [Node -> PC]
        /\ pc'[n] \notin Updating
        /\ \A m \in Node \ {n} : pc'[m] = pc[m] /\ dom'[m] = dom[m] /\ busy'[m] = busy[m]
    BY <1>3 DEF ZRemDisabled, Goto, TypeOK, FlowTypeOK, Updating, PC
  <2> QED
    BY <2>1, <2>2, NodeLeaves
<1>4. CASE DelDisabled(n)
  BY <1>4, NextDomainLeaves, NodeLeaves DEF DelDisabled, DelNumbers
<1>5. CASE TryLock(n)
  BY <1>5, TryLockLock
<1>6. CASE SetLockTTL(n)
  BY <1>6, SetLockTTLLock
<1>7. CASE GetPermit(n)
  BY <1>7, HolderMoves DEF GetPermit, Updating, store
<1>8. CASE GetTTL(n)
  BY <1>8, HolderMoves DEF GetTTL, Updating, store
<1>9. CASE GetCurrent(n)
  BY <1>9, HolderMoves, EndCycleLeaves, NodeLeaves DEF GetCurrent, Updating, store
<1>10. CASE GetLast(n)
  BY <1>10, HolderMoves DEF GetLast, Updating, store
<1>11. CASE ZRemIdle(n)
  BY <1>11, HolderMoves DEF ZRemIdle, ZRemDomain, Updating
<1>12. CASE DelIdle(n)
  BY <1>12, EndCycleLeaves, NodeLeaves DEF DelIdle, DelNumbers
<1>13. CASE Incr(n)
  BY <1>13, HolderMoves DEF Incr, IncrPermitted, Updating
<1>14. CASE ExpirePermit(n)
  BY <1>14, HolderMoves DEF ExpirePermit, ExpirePermitted, Updating
<1>15. CASE ExtendCurrent(n)
  BY <1>15, HolderMoves DEF ExtendCurrent, ExtendCurrentNumberTTL, Updating
<1>16. CASE SaveLast(n)
  <2>1. UNCHANGED lock
    BY <1>16 DEF SaveLast, SaveLastNumber, store
  <2> QED
    BY <1>16, <2>1, EndCycleLeaves, NextDomainLeaves, NodeLeaves DEF SaveLast
<1>17. CASE ExtendDomains(n)
  BY <1>17, EndCycleLeaves, NodeLeaves DEF ExtendDomains, ExtendDomainsTTL
<1> QED
  BY <1>1, <1>2, <1>3, <1>4, <1>5, <1>6, <1>7, <1>8, <1>9, <1>10, <1>11, <1>12, <1>13,
     <1>14, <1>15, <1>16, <1>17 DEF Cycle

LEMMA FailureLock ==
    ASSUME Punctual, TypeOK, LockInv, NEW n \in Node, CycleFails(n) \/ Crash(n) \/ RetryIncr(n) \/ RetryLock(n)
    PROVE  LockInv'
<1>1. CASE CycleFails(n)
  BY <1>1, EndCycleLeaves, NodeLeaves DEF CycleFails, store
<1>2. CASE Crash(n)
  <2>1. UNCHANGED lock
    BY <1>2 DEF Crash, store
  <2>2. /\ pc' \in [Node -> PC]
        /\ pc'[n] \notin Updating
        /\ \A m \in Node \ {n} : pc'[m] = pc[m] /\ dom'[m] = dom[m] /\ busy'[m] = busy[m]
    BY <1>2 DEF Crash, TypeOK, FlowTypeOK, Updating, PC
  <2> QED
    BY <2>1, <2>2, NodeLeaves
<1>3. CASE RetryIncr(n)
  BY <1>3, SameLock DEF RetryIncr, IncrPermitted
<1>4. CASE RetryLock(n)
  \* Nobody holds the lock that the lost SETNX takes.
  <2>1. \A m \in Node : pc[m] \in Updating => dom[m] # dom[n] /\ dom[m] \in Domain
    BY <1>4, HolderHasLock DEF RetryLock
  <2>2. \A m \in Node : pc[m] \in Updating => lock'[dom[m]] = lock[dom[m]]
    BY <1>4, <2>1 DEF RetryLock, SetNXLock, TypeOK, StoreTypeOK
  <2>3. UNCHANGED <<pc, dom, busy>>
    BY <1>4 DEF RetryLock, worker
  <2> QED
    BY <2>2, <2>3 DEF LockInv, OneUpdater, Updating
<1> QED
  BY <1>1, <1>2, <1>3, <1>4

\* Time takes as much from the lock as it adds to the cycle.
LEMMA TickLock ==
    ASSUME Punctual, TypeOK, LockInv, Tick
    PROVE  LockInv'
<1>1. \A n \in Node : pc[n] \in Updating =>
          dom[n] \in Domain /\ pc[n] # "sleep" /\ busy[n] \in 0..MaxCycle
  BY HolderHasLock DEF Updating, TypeOK, FlowTypeOK
<1>2. UNCHANGED <<pc, dom>>
  BY DEF Tick
<1>3. \A n \in Node : pc[n] \in Updating => lock'[dom[n]] = Aged(lock[dom[n]])
  BY <1>1 DEF Tick, AgeStore
<1>4. \A n \in Node : pc[n] \in Updating => busy'[n] = busy[n] + 1
  BY <1>1 DEF Tick
<1>5. \A n \in Node : pc'[n] = "expireLock" => lock'[dom'[n]].ttl = NoExpiry
  <2>1. ASSUME NEW n \in Node, pc[n] = "expireLock"
        PROVE  lock'[dom[n]].ttl = NoExpiry
    <3>1. lock[dom[n]].ttl = NoExpiry
      BY <2>1 DEF LockInv
    <3>2. lock'[dom[n]] = Aged(lock[dom[n]])
      BY <1>3, <2>1 DEF Updating
    <3>3. Aged(lock[dom[n]]) = lock[dom[n]]
      BY <3>1 DEF Aged, NoExpiry
    <3> QED
      BY <3>1, <3>2, <3>3
  <2> QED
    BY <1>2, <2>1
<1>6. ASSUME NEW n \in Node, pc'[n] \in Updating \ {"expireLock"}
      PROVE  lock'[dom'[n]].ttl + busy'[n] >= PermitIntervalSec
  <2>1. lock[dom[n]].ttl + busy[n] >= PermitIntervalSec /\ busy[n] < MaxCycle
    BY <1>1, <1>2, <1>6 DEF LockInv, Tick
  <2>2. lock[dom[n]] \in Key /\ lock[dom[n]].ttl \in Int
    BY <1>1, <1>2, <1>6 DEF TypeOK, StoreTypeOK, Key, Ttl, NoKey, NoExpiry
  <2>3. lock[dom[n]].ttl > 1
    BY <1>1, <1>2, <1>6, <2>1, <2>2, StoreAssumption, WorkerAssumption DEF Punctual
  <2>4. lock'[dom[n]].ttl = lock[dom[n]].ttl - 1
    BY <1>2, <1>3, <1>6, <2>2, <2>3 DEF Aged, Key
  <2> QED
    BY <1>1, <1>2, <1>4, <1>6, <2>1, <2>2, <2>4, StoreAssumption
<1>7. OneUpdater'
  BY <1>2 DEF LockInv, OneUpdater
<1> QED
  BY <1>5, <1>6, <1>7 DEF LockInv

LEMMA EnvironmentLock ==
    ASSUME Punctual, TypeOK, LockInv, Environment
    PROVE  LockInv'
<1>1. CASE Tick
  BY <1>1, TickLock
<1>2. CASE ~Tick
  <2>1. UNCHANGED <<lock, worker>>
    <3>1. ASSUME NEW d \in Domain, Visit(d) \/ PipelineCut(d)
          PROVE  UNCHANGED <<lock, worker>>
      BY <3>1 DEF Visit, Enable, ExpireEnabled, ListEnabled, ExtendEnabled, TakeNumber,
                  ExpireTaken, PipelineCut, GoesOn, SetNXPermitted, ExpirePermitted, ZAddDomain,
                  ExtendDomainsTTL, IncrCurrent, ExtendCurrentNumberTTL, store
    <3>2. ASSUME NEW d \in AdminDomain, Admin(d)
          PROVE  UNCHANGED <<lock, worker>>
      BY <3>2 DEF Admin, AdminExtend, AdminSaveCurrent, AdminSavePermit, AdminZRem, AdminDel,
                  ExtendDomainsTTL, SaveCurrentNumber, SaveCurrentPermitNumber, ZRemDomain,
                  DelNumbers
    <3> QED
      BY <1>2, <3>1, <3>2 DEF Environment
  <2> QED
    BY <2>1, SameLock
<1> QED
  BY <1>1, <1>2

LEMMA NextLock ==
    ASSUME Punctual, TypeOK, LockInv, [Next]_vars
    PROVE  LockInv'
<1>1. CASE Next
  BY <1>1, CycleLock, FailureLock, EnvironmentLock DEF Next
<1>2. CASE UNCHANGED vars
  BY <1>2, SameLock DEF vars, store
<1> QED
  BY <1>1, <1>2

\* Between winning the lock of a domain and the last write of its update, a
\* node is alone, if every cycle is shorter than the interval: with crashes,
\* failed and repeated commands, and a lock that is never released but only
\* expires.
THEOREM MutualExclusion == ASSUME Punctual PROVE Spec => []OneUpdater
<1>1. Init => LockInv
  BY DEF Init, LockInv, OneUpdater, Updating
<1>2. TypeOK /\ LockInv /\ [Next]_vars => LockInv'
  BY NextLock
<1>3. LockInv => OneUpdater
  BY DEF LockInv
<1> QED
  BY <1>1, <1>2, <1>3, TypeCorrect, PTL DEF Spec

=============================================================================
