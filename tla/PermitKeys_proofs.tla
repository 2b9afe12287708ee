--------------------------- MODULE PermitKeys_proofs ---------------------------
(***************************************************************************)
(* Without faults the workers and the requests leave nothing behind: no    *)
(* permit number without a TTL but in the hands of somebody about to give  *)
(* it one, and no answer that one cycle cached for the next.  For any      *)
(* nodes and domains, and cycles of any length up to the interval.         *)
(***************************************************************************)
EXTENDS PermitWorker_proofs

-----------------------------------------------------------------------------
(* How nodes move.                                                         *)

\* What a node does leaves the others where they are.
LEMMA OthersStay ==
    ASSUME TypeOK, NEW n \in Node,
           \/ \E p \in PC : Goto(n, p)
           \/ \E rest \in SUBSET Domain : NextDomain(n, rest)
           \/ EndCycle(n)
    PROVE  \A m \in Node \ {n} : pc'[m] = pc[m] /\ dom'[m] = dom[m]
BY DEF TypeOK, FlowTypeOK, Goto, NextDomain, EndCycle

\* Every command of a cycle is such a move.
LEMMA CycleMoves ==
    ASSUME TypeOK, NEW n \in Node, Cycle(n)
    PROVE  \/ \E p \in PC : Goto(n, p)
           \/ \E rest \in SUBSET Domain : NextDomain(n, rest)
           \/ EndCycle(n)
<1>1. todo[n] \in SUBSET Domain /\ domains.members \in SUBSET Domain
  BY DEF TypeOK, FlowTypeOK, StoreTypeOK
<1>2. CASE StartCycle(n) \/ DelDisabled(n) \/ DelIdle(n) \/ SaveLast(n) \/ ExtendDomains(n)
  BY <1>1, <1>2 DEF StartCycle, DelDisabled, DelIdle, SaveLast, ExtendDomains
<1>3. CASE IsEnabled(n) \/ GetLast(n)
  BY <1>3 DEF IsEnabled, GetLast, PC
<1>4. CASE TryLock(n) \/ GetCurrent(n)
  BY <1>1, <1>4 DEF TryLock, GetCurrent, PC
<1>5. CASE ZRemDisabled(n) \/ SetLockTTL(n) \/ GetPermit(n) \/ GetTTL(n) \/ ZRemIdle(n)
           \/ Incr(n) \/ ExpirePermit(n) \/ ExtendCurrent(n)
  BY <1>5 DEF ZRemDisabled, SetLockTTL, GetPermit, GetTTL, ZRemIdle, Incr, ExpirePermit,
              ExtendCurrent, PC
<1> QED
  BY <1>2, <1>3, <1>4, <1>5 DEF Cycle

\* A key that ages does not lose its expiry.
LEMMA AgedExpiry ==
    ASSUME NEW k \in Key, Aged(k).ttl = NoExpiry
    PROVE  k.ttl = NoExpiry
BY DEF Aged, Missing, Key, Ttl, NoKey, NoExpiry

\* What the clients and the administrator do, no worker is part of.
LEMMA OthersLeaveWorkers ==
    ASSUME Environment, ~Tick
    PROVE  UNCHANGED worker
<1>1. ASSUME NEW d \in Domain, Visit(d) \/ PipelineCut(d)
      PROVE  UNCHANGED worker
  BY <1>1 DEF Visit, Enable, ExpireEnabled, ListEnabled, ExtendEnabled, TakeNumber, ExpireTaken,
              PipelineCut, GoesOn
<1>2. ASSUME NEW d \in AdminDomain, Admin(d)
      PROVE  UNCHANGED worker
  BY <1>2 DEF Admin, AdminExtend, AdminSaveCurrent, AdminSavePermit, AdminZRem, AdminDel
<1> QED
  BY <1>1, <1>2 DEF Environment

-----------------------------------------------------------------------------
(* Permit numbers.                                                         *)

\* The requests about to give d's permit number a TTL are still there.
StillPiped(d) == "expireEnabled" \in pipes[d] => "expireEnabled" \in pipes'[d]

\* The permit number of d alone changes, and it has a TTL or is gone.
LEMMA PermitWritten ==
    ASSUME TypeOK, PermitNotOrphaned, NEW d \in Domain, NEW k, k.ttl # NoExpiry,
           permitted' = [permitted EXCEPT ![d] = k],
           \A e \in Domain \ {d} : StillPiped(e),
           \A n \in Node : pc[n] = "expirePermit" /\ dom[n] # d =>
               pc'[n] = "expirePermit" /\ dom'[n] = dom[n]
    PROVE  PermitNotOrphaned'
<1>1. permitted \in [Domain -> Key]
  BY DEF TypeOK, StoreTypeOK
<1>2. permitted'[d] = k
  BY <1>1
<1>3. ASSUME NEW e \in Domain, permitted'[e].ttl = NoExpiry
      PROVE  \/ "expireEnabled" \in pipes'[e]
             \/ \E n \in Node : pc'[n] = "expirePermit" /\ dom'[n] = e
  <2>1. e # d
    BY <1>2, <1>3
  <2>2. permitted[e].ttl = NoExpiry
    BY <1>1, <1>3, <2>1
  <2>3. CASE "expireEnabled" \in pipes[e]
    BY <2>1, <2>3 DEF StillPiped
  <2>4. CASE \E n \in Node : pc[n] = "expirePermit" /\ dom[n] = e
    BY <2>1, <2>4
  <2> QED
    BY <2>2, <2>3, <2>4 DEF PermitNotOrphaned
<1> QED
  BY <1>3 DEF PermitNotOrphaned

LEMMA PermitFrame ==
    ASSUME PermitNotOrphaned, UNCHANGED permitted,
           \A d \in Domain : StillPiped(d),
           \A n \in Node : pc[n] = "expirePermit" => pc'[n] = "expirePermit" /\ dom'[n] = dom[n]
    PROVE  PermitNotOrphaned'
BY DEF PermitNotOrphaned, StillPiped

LEMMA SamePipes ==
    ASSUME UNCHANGED pipes
    PROVE  \A d \in Domain : StillPiped(d)
BY DEF StillPiped

\* A request that goes on leaves those at other commands, and those on other
\* domains, where they are.
LEMMA OthersPiped ==
    ASSUME TypeOK, NEW d \in Domain, NEW p, NEW rest, GoesOn(d, p, rest)
    PROVE  /\ \A e \in Domain \ {d} : StillPiped(e)
           /\ p # "expireEnabled" => StillPiped(d)
BY DEF GoesOn, Issue, StillPiped, TypeOK

LEMMA MissingExpiry == Missing.ttl # NoExpiry
BY DEF Missing, NoKey, NoExpiry

LEMMA ExpireExpiry ==
    ASSUME NEW k \in Key, NEW t \in Nat
    PROVE  Expire(k, t).ttl # NoExpiry
BY DEF Expire, Missing, NoKey, NoExpiry

LEMMA CyclePermits ==
    ASSUME TypeOK, PermitNotOrphaned, NEW n \in Node, Cycle(n)
    PROVE  PermitNotOrphaned'
<1>0. /\ \A m \in Node \ {n} : pc'[m] = pc[m] /\ dom'[m] = dom[m]
      /\ \A d \in Domain : StillPiped(d)
  <2>1. UNCHANGED pipes
    BY DEF Cycle, StartCycle, IsEnabled, ZRemDisabled, DelDisabled, TryLock, SetLockTTL,
           GetPermit, GetTTL, GetCurrent, GetLast, ZRemIdle, DelIdle, Incr, ExpirePermit,
           ExtendCurrent, SaveLast, ExtendDomains
  <2> QED
    BY <2>1, CycleMoves, OthersStay, SamePipes
<1>1. CASE Incr(n)
  <2>1. pc'[n] = "expirePermit" /\ dom'[n] = dom[n] /\ pc[n] = "incr" /\ dom[n] \in Domain
    BY <1>1 DEF Incr, Goto, TypeOK, FlowTypeOK, Visiting, PC
  <2>2. \A d \in Domain \ {dom[n]} : permitted'[d] = permitted[d]
    BY <1>1 DEF Incr, IncrPermitted, TypeOK, StoreTypeOK
  <2> QED
    BY <1>0, <2>1, <2>2 DEF PermitNotOrphaned, StillPiped
<1>2. CASE ExpirePermit(n)
  <2>1. dom[n] \in Domain /\ seen[n].ttl \in Nat
    BY <1>2 DEF ExpirePermit, TypeOK, FlowTypeOK, Visiting, PC
  <2>2. permitted' = [permitted EXCEPT ![dom[n]] = Expire(permitted[dom[n]], seen[n].ttl)]
    BY <1>2 DEF ExpirePermit, ExpirePermitted
  <2>3. Expire(permitted[dom[n]], seen[n].ttl).ttl # NoExpiry
    BY <2>1, ExpireExpiry DEF TypeOK, StoreTypeOK
  <2>4. \A m \in Node : pc[m] = "expirePermit" /\ dom[m] # dom[n] =>
            pc'[m] = "expirePermit" /\ dom'[m] = dom[m]
    BY <1>0
  <2> QED
    BY <1>0, <2>1, <2>2, <2>3, <2>4, PermitWritten
<1>3. CASE DelDisabled(n) \/ DelIdle(n)
  <2>1. dom[n] \in Domain /\ pc[n] # "expirePermit"
    BY <1>3 DEF DelDisabled, DelIdle, TypeOK, FlowTypeOK, Visiting, PC
  <2>2. permitted' = [permitted EXCEPT ![dom[n]] = Missing]
    BY <1>3 DEF DelDisabled, DelIdle, DelNumbers
  <2> QED
    BY <1>0, <2>1, <2>2, MissingExpiry, PermitWritten
<1>4. CASE pc[n] # "expirePermit" /\ UNCHANGED permitted
  BY <1>0, <1>4, PermitFrame
<1>5. Cycle(n) /\ ~Incr(n) /\ ~ExpirePermit(n) /\ ~DelDisabled(n) /\ ~DelIdle(n) =>
          pc[n] # "expirePermit" /\ UNCHANGED permitted
  BY DEF Cycle, StartCycle, IsEnabled, ZRemDisabled, TryLock, SetLockTTL, GetPermit, GetTTL,
         GetCurrent, GetLast, ZRemIdle, ExtendCurrent, SaveLast, ExtendDomains, ZRemDomain,
         SetNXLock, ExpireLock, ExtendCurrentNumberTTL, SaveLastNumber, ExtendDomainsTTL, store
<1> QED
  BY <1>1, <1>2, <1>3, <1>4, <1>5

LEMMA VisitPermits ==
    ASSUME TypeOK, PermitNotOrphaned, NEW d \in Domain, Visit(d)
    PROVE  PermitNotOrphaned'
<1>1. UNCHANGED <<pc, dom>>
  BY DEF Visit, Enable, ExpireEnabled, ListEnabled, ExtendEnabled, TakeNumber, ExpireTaken,
         GoesOn, worker
<1>2. CASE Enable(d)
  <2>1. /\ "expireEnabled" \in pipes'[d]
        /\ \A e \in Domain \ {d} : pipes'[e] = pipes[e] /\ permitted'[e] = permitted[e]
    BY <1>2 DEF Enable, Begins, Issue, SetNXPermitted, TypeOK, StoreTypeOK
  <2> QED
    BY <1>1, <2>1 DEF PermitNotOrphaned
<1>3. CASE ExpireEnabled(d)
  <2>1. permitted' = [permitted EXCEPT ![d] = Expire(permitted[d], QueueEnableSec)]
    BY <1>3 DEF ExpireEnabled, ExpirePermitted
  <2>2. Expire(permitted[d], QueueEnableSec).ttl # NoExpiry
    BY ExpireExpiry, StoreAssumption DEF TypeOK, StoreTypeOK
  <2>3. \A e \in Domain \ {d} : StillPiped(e)
    BY <1>3, OthersPiped DEF ExpireEnabled
  <2> QED
    BY <1>1, <2>1, <2>2, <2>3, PermitWritten
<1>4. CASE ListEnabled(d) \/ ExtendEnabled(d) \/ ExpireTaken(d)
  <2>1. \A e \in Domain : StillPiped(e)
    BY <1>4, OthersPiped DEF ListEnabled, ExtendEnabled, ExpireTaken
  <2>2. UNCHANGED permitted
    BY <1>4 DEF ListEnabled, ExtendEnabled, ExpireTaken, ZAddDomain, ExtendDomainsTTL,
                ExtendCurrentNumberTTL
  <2> QED
    BY <1>1, <2>1, <2>2, PermitFrame
<1>5. CASE TakeNumber(d)
  <2>1. \A e \in Domain : StillPiped(e)
    BY <1>5 DEF TakeNumber, Begins, Issue, StillPiped, TypeOK
  <2> QED
    BY <1>1, <1>5, <2>1, PermitFrame DEF TakeNumber, IncrCurrent
<1> QED
  BY <1>2, <1>3, <1>4, <1>5 DEF Visit

LEMMA AdminPermits ==
    ASSUME TypeOK, PermitNotOrphaned, NEW d \in AdminDomain, Admin(d)
    PROVE  PermitNotOrphaned'
<1>1. d \in Domain
  BY WorkerAssumption
<1>2. UNCHANGED <<pc, dom>> /\ \A e \in Domain : StillPiped(e)
  BY SamePipes
     DEF Admin, AdminExtend, AdminSaveCurrent, AdminSavePermit, AdminZRem, AdminDel, worker
<1>3. ASSUME NEW v \in Number, AdminSavePermit(d, v)
      PROVE  PermitNotOrphaned'
  <2>1. SetEX(v, QueueEnableSec).ttl # NoExpiry
    BY StoreAssumption DEF SetEX, NoExpiry
  <2>2. permitted' = [permitted EXCEPT ![d] = SetEX(v, QueueEnableSec)]
    BY <1>3 DEF AdminSavePermit, SaveCurrentPermitNumber
  <2> QED
    BY <1>1, <1>2, <2>1, <2>2, PermitWritten
<1>4. ASSUME AdminDel(d)
      PROVE  PermitNotOrphaned'
  <2>1. permitted' = [permitted EXCEPT ![d] = Missing]
    BY <1>4 DEF AdminDel, DelNumbers
  <2> QED
    BY <1>1, <1>2, <2>1, MissingExpiry, PermitWritten
<1>5. ASSUME NEW v \in Number, AdminExtend \/ AdminSaveCurrent(d, v) \/ AdminZRem(d)
      PROVE  PermitNotOrphaned'
  BY <1>2, <1>5, PermitFrame
     DEF AdminExtend, AdminSaveCurrent, AdminZRem, ExtendDomainsTTL, SaveCurrentNumber, ZRemDomain
<1>6. 0 \in Number
  BY StoreAssumption DEF Number
<1> QED
  BY <1>3, <1>4, <1>5, <1>6 DEF Admin

LEMMA EnvironmentPermits ==
    ASSUME Faults = {}, TypeOK, PermitNotOrphaned, Environment
    PROVE  PermitNotOrphaned'
<1>1. CASE Tick
  <2>1. ASSUME NEW d \in Domain, permitted'[d].ttl = NoExpiry
        PROVE  permitted[d].ttl = NoExpiry
    BY <1>1, <2>1, AgedExpiry DEF Tick, AgeStore, TypeOK, StoreTypeOK
  <2> QED
    BY <1>1, <2>1 DEF Tick, PermitNotOrphaned
<1>2. ASSUME NEW d \in Domain, PipelineCut(d)
      PROVE  FALSE
  BY <1>2 DEF PipelineCut
<1> QED
  BY <1>1, <1>2, VisitPermits, AdminPermits DEF Environment

LEMMA NextPermits ==
    ASSUME Faults = {}, TypeOK, PermitNotOrphaned, [Next]_vars
    PROVE  PermitNotOrphaned'
<1>1. ASSUME NEW n \in Node, Cycle(n)
      PROVE  PermitNotOrphaned'
  BY <1>1, CyclePermits
<1>2. ASSUME NEW n \in Node, CycleFails(n) \/ Crash(n) \/ RetryIncr(n)
      PROVE  PermitNotOrphaned'
  BY <1>2 DEF CycleFails, Crash, RetryIncr
<1>3. ASSUME NEW n \in Node, RetryLock(n)
      PROVE  PermitNotOrphaned'
  BY <1>3, SamePipes, PermitFrame DEF RetryLock, SetNXLock, worker
<1>4. CASE Environment
  BY <1>4, EnvironmentPermits
<1>5. CASE UNCHANGED vars
  BY <1>5, SamePipes, PermitFrame DEF vars, store, worker
<1> QED
  BY <1>1, <1>2, <1>3, <1>4, <1>5 DEF Next

\* As long as nothing fails, a permit number that does not expire is one an
\* updater or a request within its pipeline is about to give a TTL, although an
\* INCRBY or a SETNX may recreate a key that has expired, been reset or been
\* deleted by the administrator meanwhile, and resets and requests of any number
\* come between the two commands.
THEOREM PermitsExpire == ASSUME Faults = {} PROVE Spec => []PermitNotOrphaned
<1>1. Init => PermitNotOrphaned
  BY MissingExpiry DEF Init, StoreInit, PermitNotOrphaned
<1>2. TypeOK /\ PermitNotOrphaned /\ [Next]_vars => PermitNotOrphaned'
  BY NextPermits
<1> QED
  BY <1>1, <1>2, TypeCorrect, PTL DEF Spec

-----------------------------------------------------------------------------
(* Cached answers.                                                         *)

\* Why WorkerCacheFresh holds: an answer does not outlive the sleep after the
\* cycle that cached it, and a cycle caches only what it has visited.
CacheInv ==
    /\ \A n \in Node, d \in Domain : cache[n][d].ttl <= PermitIntervalSec
    /\ \A n \in Node, d \in Domain : pc[n] = "sleep" => cache[n][d].ttl <= sleep[n]
    /\ \A n \in Node : \A d \in todo[n] : cache[n][d].ttl = 0
    /\ \A n \in Node : dom[n] \notin todo[n]
    /\ WorkerCacheFresh

\* Answers are kept, or age, or are flushed.
OnlyDropped ==
    \A n \in Node, d \in Domain :
        cache'[n][d].ttl \in Nat /\ cache'[n][d].ttl <= cache[n][d].ttl

LEMMA KeptAnswers ==
    ASSUME TypeOK, UNCHANGED cache
    PROVE  OnlyDropped
BY DEF TypeOK, OnlyDropped

LEMMA FlushedAnswer ==
    ASSUME TypeOK, NEW n \in Node, FlushCache(n, dom[n])
    PROVE  OnlyDropped
BY DEF TypeOK, FlushCache, NoEntry, OnlyDropped

LEMMA AnswerTypes ==
    ASSUME TypeOK, NEW m \in Node
    PROVE  /\ \A e \in Domain : cache[m][e].ttl \in Nat
           /\ todo[m] \subseteq Domain
           /\ sleep[m] \in Nat
           /\ pc[m] = "isEnabled" => dom[m] \in Domain
<1>1. sleep[m] \in 0..PermitIntervalSec
  BY DEF TypeOK, FlowTypeOK
<1>2. todo[m] \subseteq Domain /\ (pc[m] = "isEnabled" => dom[m] \in Domain)
  BY DEF TypeOK, FlowTypeOK, Visiting, PC
<1>3. \A e \in Domain : cache[m][e].ttl \in Nat
  BY DEF TypeOK
<1> QED
  BY <1>1, <1>2, <1>3, StoreAssumption

\* A smaller number keeps the bound.
LEMMA SmallerAnswer ==
    ASSUME NEW x \in Nat, NEW y \in Nat, NEW b \in Nat, y <= x, x <= b
    PROVE  y <= b
OBVIOUS

\* CacheInv for one node, which is all it speaks of at a time.
CacheNodeInv(n) ==
    /\ \A d \in Domain : cache[n][d].ttl <= PermitIntervalSec
    /\ \A d \in Domain : pc[n] = "sleep" => cache[n][d].ttl <= sleep[n]
    /\ \A d \in todo[n] : cache[n][d].ttl = 0
    /\ dom[n] \notin todo[n]
    /\ pc[n] = "isEnabled" => cache[n][dom[n]].ttl = 0

\* A node that does not move, while answers are dropped at most.
LEMMA NodeStays ==
    ASSUME TypeOK, CacheInv, OnlyDropped, NEW m \in Node,
           pc'[m] = pc[m] \/ pc'[m] \notin {"sleep", "isEnabled"},
           dom'[m] = dom[m], todo'[m] = todo[m], sleep'[m] = sleep[m]
    PROVE  CacheNodeInv(m)'
<1>1. /\ \A e \in Domain : cache[m][e].ttl \in Nat
      /\ todo[m] \subseteq Domain
      /\ sleep[m] \in Nat
      /\ pc[m] = "isEnabled" => dom[m] \in Domain
  BY AnswerTypes
<1>2. PermitIntervalSec \in Nat
  BY StoreAssumption
<1>3. \A e \in Domain : cache'[m][e].ttl \in Nat /\ cache'[m][e].ttl <= cache[m][e].ttl
  BY DEF OnlyDropped
<1>4. \A e \in Domain : cache'[m][e].ttl <= PermitIntervalSec
  BY <1>1, <1>2, <1>3 DEF CacheInv
<1>5. \A e \in Domain : pc'[m] = "sleep" => cache'[m][e].ttl <= sleep'[m]
  BY <1>1, <1>3 DEF CacheInv
<1>6. \A e \in todo'[m] : cache'[m][e].ttl = 0
  BY <1>1, <1>3 DEF CacheInv
<1>7. pc'[m] = "isEnabled" => cache'[m][dom'[m]].ttl = 0
  BY <1>1, <1>3 DEF CacheInv, WorkerCacheFresh
<1> QED
  BY <1>4, <1>5, <1>6, <1>7 DEF CacheInv, CacheNodeInv

LEMMA CacheByNode ==
    ASSUME \A m \in Node : CacheNodeInv(m)'
    PROVE  CacheInv'
BY DEF CacheInv, CacheNodeInv, WorkerCacheFresh

LEMMA CacheStays ==
    ASSUME TypeOK, CacheInv, OnlyDropped, UNCHANGED <<pc, dom, todo, sleep>>
    PROVE  CacheInv'
BY NodeStays, CacheByNode

\* A node moves on inside the loop body.
LEMMA CacheGoto ==
    ASSUME TypeOK, CacheInv, OnlyDropped, NEW n \in Node, NEW p \in Visiting \ {"isEnabled"},
           Goto(n, p)
    PROVE  CacheInv'
<1>1. UNCHANGED <<dom, todo, sleep>>
  BY DEF Goto
<1>2. \A m \in Node : pc'[m] = pc[m] \/ pc'[m] \notin {"sleep", "isEnabled"}
  BY DEF Goto, TypeOK, FlowTypeOK, Visiting
<1> QED
  BY <1>1, <1>2, NodeStays, CacheByNode

\* The next domain has not been asked about in this cycle.
LEMMA CacheNextDomain ==
    ASSUME TypeOK, CacheInv, OnlyDropped, NEW n \in Node, NEW rest \in SUBSET Domain,
           NextDomain(n, rest), \A d \in rest : cache[n][d].ttl = 0
    PROVE  CacheInv'
<1>1. ASSUME NEW m \in Node \ {n}
      PROVE  CacheNodeInv(m)'
  <2>1. pc'[m] = pc[m] /\ dom'[m] = dom[m] /\ todo'[m] = todo[m] /\ sleep'[m] = sleep[m]
    BY DEF TypeOK, FlowTypeOK, NextDomain
  <2> QED
    BY <2>1, NodeStays
<1>2. CacheNodeInv(n)'
  <2>1. pc'[n] # "sleep" /\ dom'[n] \notin todo'[n]
    BY DEF TypeOK, FlowTypeOK, NextDomain
  <2>2. todo'[n] \subseteq rest /\ (pc'[n] = "isEnabled" => dom'[n] \in rest)
    BY DEF TypeOK, FlowTypeOK, NextDomain
  <2>3. \A d \in rest : cache'[n][d].ttl = 0
    BY DEF OnlyDropped
  <2>4. \A d \in Domain : cache'[n][d].ttl <= PermitIntervalSec
    BY AnswerTypes, SmallerAnswer, StoreAssumption DEF OnlyDropped, CacheInv
  <2> QED
    BY <2>1, <2>2, <2>3, <2>4 DEF CacheNodeInv
<1> QED
  BY <1>1, <1>2, CacheByNode

\* The sleep is as long as any answer lives.
LEMMA CacheEndCycle ==
    ASSUME TypeOK, CacheInv, OnlyDropped, NEW n \in Node, EndCycle(n)
    PROVE  CacheInv'
<1>1. ASSUME NEW m \in Node \ {n}
      PROVE  CacheNodeInv(m)'
  <2>1. pc'[m] = pc[m] /\ dom'[m] = dom[m] /\ todo'[m] = todo[m] /\ sleep'[m] = sleep[m]
    BY DEF TypeOK, FlowTypeOK, EndCycle
  <2> QED
    BY <2>1, NodeStays
<1>2. CacheNodeInv(n)'
  <2>1. pc'[n] = "sleep" /\ sleep'[n] = PermitIntervalSec /\ todo'[n] = {}
    BY DEF TypeOK, FlowTypeOK, EndCycle
  <2>2. \A d \in Domain : cache'[n][d].ttl <= PermitIntervalSec
    BY AnswerTypes, SmallerAnswer, StoreAssumption DEF OnlyDropped, CacheInv
  <2> QED
    BY <2>1, <2>2 DEF CacheNodeInv
<1> QED
  BY <1>1, <1>2, CacheByNode

LEMMA IsEnabledCache ==
    ASSUME TypeOK, CacheInv, NEW n \in Node, IsEnabled(n)
    PROVE  CacheInv'
<1> DEFINE d == dom[n]
<1>1. d \in Domain /\ pc[n] = "isEnabled"
  BY DEF IsEnabled, TypeOK, FlowTypeOK, Visiting, PC
<1>2. /\ UNCHANGED <<dom, todo, sleep>>
      /\ pc'[n] \notin {"sleep", "isEnabled"}
      /\ \A m \in Node \ {n} : pc'[m] = pc[m]
  BY DEF IsEnabled, Goto, TypeOK, FlowTypeOK
<1>3. \A m \in Node, e \in Domain : m # n \/ e # d => cache'[m][e] = cache[m][e]
  BY DEF IsEnabled, TypeOK
<1>4. cache'[n][d].ttl <= PermitIntervalSec
  <2>1. cache[n][d].ttl = 0
    BY <1>1 DEF CacheInv, WorkerCacheFresh
  <2>2. cache'[n][d].ttl \in {CacheTTLSec, NegativeCacheTTLSec}
    BY <1>1, <2>1 DEF IsEnabled, TypeOK
  <2> QED
    BY <2>2, WorkerAssumption, StoreAssumption
<1>5. \A m \in Node : todo[m] \subseteq Domain /\ (pc[m] = "isEnabled" => dom[m] \in Domain)
  BY DEF TypeOK, FlowTypeOK, Visiting, PC
<1> QED
  BY <1>1, <1>2, <1>3, <1>4, <1>5 DEF CacheInv, WorkerCacheFresh

LEMMA CycleCache ==
    ASSUME TypeOK, CacheInv, NEW n \in Node, Cycle(n)
    PROVE  CacheInv'
<1>1. CASE StartCycle(n)
  <2>1. OnlyDropped
    BY <1>1, KeptAnswers DEF StartCycle
  <2>2. domains.members \in SUBSET Domain
    BY DEF TypeOK, StoreTypeOK
  <2>3. \A d \in Domain : cache[n][d].ttl = 0
    BY <1>1 DEF StartCycle, CacheInv, TypeOK
  <2> QED
    BY <1>1, <2>1, <2>2, <2>3, CacheEndCycle, CacheNextDomain DEF StartCycle
<1>2. CASE IsEnabled(n)
  BY <1>2, IsEnabledCache
<1>3. todo[n] \in SUBSET Domain /\ \A d \in todo[n] : cache[n][d].ttl = 0
  BY DEF TypeOK, FlowTypeOK, CacheInv
<1>4. CASE DelDisabled(n) \/ DelIdle(n)
  <2>1. OnlyDropped
    BY <1>4, FlushedAnswer DEF DelDisabled, DelIdle
  <2> QED
    BY <1>3, <1>4, <2>1, CacheNextDomain, CacheEndCycle DEF DelDisabled, DelIdle
<1>5. CASE TryLock(n) \/ GetCurrent(n) \/ SaveLast(n) \/ ExtendDomains(n)
  <2>1. OnlyDropped
    BY <1>5, KeptAnswers DEF TryLock, GetCurrent, SaveLast, ExtendDomains
  <2> QED
    BY <1>3, <1>5, <2>1, CacheNextDomain, CacheEndCycle, CacheGoto
       DEF TryLock, GetCurrent, SaveLast, ExtendDomains, Visiting, PC
<1>6. CASE ZRemDisabled(n) \/ SetLockTTL(n) \/ GetPermit(n) \/ GetTTL(n) \/ GetLast(n)
           \/ ZRemIdle(n) \/ Incr(n) \/ ExpirePermit(n) \/ ExtendCurrent(n)
  <2>1. OnlyDropped
    BY <1>6, KeptAnswers
       DEF ZRemDisabled, SetLockTTL, GetPermit, GetTTL, GetLast, ZRemIdle, Incr, ExpirePermit,
           ExtendCurrent
  <2>2. \E p \in Visiting \ {"isEnabled"} : Goto(n, p)
    BY <1>6 DEF ZRemDisabled, SetLockTTL, GetPermit, GetTTL, GetLast, ZRemIdle, Incr,
                ExpirePermit, ExtendCurrent, Visiting, PC
  <2> QED
    BY <2>1, <2>2, CacheGoto
<1> QED
  BY <1>1, <1>2, <1>4, <1>5, <1>6 DEF Cycle

LEMMA CrashCache ==
    ASSUME TypeOK, CacheInv, NEW n \in Node, Crash(n)
    PROVE  CacheInv'
<1>1. \A m \in Node \ {n} : /\ pc'[m] = pc[m] /\ dom'[m] = dom[m] /\ todo'[m] = todo[m]
                            /\ sleep'[m] = sleep[m] /\ cache'[m] = cache[m]
  BY DEF Crash, TypeOK, FlowTypeOK
<1>2. /\ pc'[n] = "sleep" /\ sleep'[n] = 0 /\ todo'[n] = {}
      /\ \A d \in Domain : cache'[n][d].ttl = 0
  BY DEF Crash, TypeOK, FlowTypeOK, NoEntry
<1> QED
  BY <1>1, <1>2, StoreAssumption DEF CacheInv, WorkerCacheFresh

\* While a node sleeps its answers age with its sleep.
LEMMA TickCache ==
    ASSUME TypeOK, CacheInv, Tick
    PROVE  CacheInv'
<1>1. ASSUME NEW m \in Node, NEW e \in Domain
      PROVE  /\ cache[m][e].ttl \in Nat
             /\ cache'[m][e].ttl = IF cache[m][e].ttl > 1 THEN cache[m][e].ttl - 1 ELSE 0
  <2>1. cache[m][e] \in [enabled : BOOLEAN, ttl : Nat]
    BY DEF TypeOK
  <2>2. cache'[m][e] = IF cache[m][e].ttl > 1 THEN [cache[m][e] EXCEPT !.ttl = @ - 1] ELSE NoEntry
    BY DEF Tick
  <2>3. CASE cache[m][e].ttl > 1
    BY <2>1, <2>2, <2>3
  <2>4. CASE ~(cache[m][e].ttl > 1)
    BY <2>1, <2>2, <2>4 DEF NoEntry
  <2> QED
    BY <2>3, <2>4
<1>2. OnlyDropped
  BY <1>1 DEF OnlyDropped
<1>3. ASSUME NEW m \in Node
      PROVE  CacheNodeInv(m)'
  <2>1. pc'[m] = pc[m] /\ dom'[m] = dom[m] /\ todo'[m] = todo[m]
    BY DEF Tick
  <2>2. CASE pc[m] # "sleep"
    <3>1. CacheNodeInv(m)
      BY DEF CacheInv, CacheNodeInv, WorkerCacheFresh
    <3>2. \A e \in Domain : cache'[m][e].ttl <= PermitIntervalSec
      BY <1>2, AnswerTypes, SmallerAnswer, StoreAssumption DEF OnlyDropped, CacheInv
    <3>3. \A e \in Domain : cache[m][e].ttl = 0 => cache'[m][e].ttl = 0
      BY <1>1
    <3> QED
      BY <2>1, <2>2, <3>1, <3>2, <3>3, AnswerTypes DEF CacheNodeInv
  <2>3. CASE pc[m] = "sleep"
    <3>1. sleep[m] \in Nat /\ sleep'[m] = IF sleep[m] > 0 THEN sleep[m] - 1 ELSE 0
      BY AnswerTypes DEF Tick
    <3>2. ASSUME NEW e \in Domain
          PROVE  cache'[m][e].ttl <= sleep'[m] /\ cache'[m][e].ttl <= PermitIntervalSec
      <4>1. cache[m][e].ttl <= sleep[m] /\ cache[m][e].ttl <= PermitIntervalSec
        BY <2>3 DEF CacheInv
      <4> QED
        BY <1>1, <3>1, <4>1, StoreAssumption
    <3>3. \A e \in todo'[m] : cache'[m][e].ttl = 0
      BY <1>1, <2>1, AnswerTypes DEF CacheInv
    <3>4. dom'[m] \notin todo'[m]
      BY <2>1 DEF CacheInv
    <3> QED
      BY <2>1, <2>3, <3>2, <3>3, <3>4 DEF CacheNodeInv
  <2> QED
    BY <2>2, <2>3
<1> QED
  BY <1>3, CacheByNode

LEMMA NextCache ==
    ASSUME TypeOK, CacheInv, [Next]_vars
    PROVE  CacheInv'
<1>1. ASSUME NEW n \in Node, Cycle(n)
      PROVE  CacheInv'
  BY <1>1, CycleCache
<1>2. ASSUME NEW n \in Node, CycleFails(n)
      PROVE  CacheInv'
  <2>1. OnlyDropped
    BY <1>2, KeptAnswers, FlushedAnswer DEF CycleFails
  <2> QED
    BY <1>2, <2>1, CacheEndCycle DEF CycleFails
<1>3. ASSUME NEW n \in Node, Crash(n)
      PROVE  CacheInv'
  BY <1>3, CrashCache
<1>4. CASE UNCHANGED worker
  BY <1>4, KeptAnswers, CacheStays DEF worker
<1>5. ASSUME NEW n \in Node, RetryIncr(n) \/ RetryLock(n)
      PROVE  UNCHANGED worker
  BY <1>5 DEF RetryIncr, RetryLock
<1>6. CASE Tick
  BY <1>6, TickCache
<1>7. CASE Environment /\ ~Tick
  BY <1>4, <1>7, OthersLeaveWorkers
<1>8. CASE UNCHANGED vars
  BY <1>4, <1>8 DEF vars
<1> QED
  BY <1>1, <1>2, <1>3, <1>4, <1>5, <1>6, <1>7, <1>8 DEF Next

\* The worker asks Redis in every cycle whether a queue is on, whatever fails
\* and although it asks through a cache: no answer outlives the sleep, because
\* config.go accepts no interval shorter than the TTLs of the cache.
THEOREM CacheFresh == Spec => []WorkerCacheFresh
<1>1. Init => CacheInv
  BY StoreAssumption DEF Init, CacheInv, WorkerCacheFresh, NoEntry, NoDomain
<1>2. TypeOK /\ CacheInv /\ [Next]_vars => CacheInv'
  BY NextCache
<1>3. CacheInv => WorkerCacheFresh
  BY DEF CacheInv
<1> QED
  BY <1>1, <1>2, <1>3, TypeCorrect, PTL DEF Spec
=============================================================================
