-------------------------- MODULE PermitPace_proofs --------------------------
(***************************************************************************)
(* The pace of the permit numbers, and the permit worker as an             *)
(* implementation of PermitPacer: one unit per interval and domain, for    *)
(* any number of nodes and any failure but a command executed twice.       *)
(***************************************************************************)
EXTENDS PermitWorker_proofs

-----------------------------------------------------------------------------
(* Preservation of PaceInv.                                                *)

\* Nothing about locks and increments happens, and node n, if it is then
\* deciding, was deciding about the same domain before.
LEMMA PaceFrame ==
    ASSUME PaceInv, UNCHANGED <<lock, credit>>,
           \A n \in Node : pc'[n] \in Deciding => pc[n] \in Deciding /\ dom'[n] = dom[n]
    PROVE  PaceInv'
BY DEF PaceInv

LEMMA NextDomainPace ==
    ASSUME TypeOK, NEW n \in Node, NEW rest, NextDomain(n, rest)
    PROVE  \A m \in Node : pc'[m] \in Deciding => pc[m] \in Deciding /\ dom'[m] = dom[m]
BY DEF TypeOK, FlowTypeOK, NextDomain, Deciding

LEMMA EndCyclePace ==
    ASSUME TypeOK, NEW n \in Node, EndCycle(n)
    PROVE  \A m \in Node : pc'[m] \in Deciding => pc[m] \in Deciding /\ dom'[m] = dom[m]
BY DEF TypeOK, FlowTypeOK, EndCycle, Deciding

LEMMA GotoPace ==
    ASSUME TypeOK, NEW n \in Node, NEW p, Goto(n, p), p \in Deciding => pc[n] \in Deciding
    PROVE  \A m \in Node : pc'[m] \in Deciding => pc[m] \in Deciding /\ dom'[m] = dom[m]
BY DEF TypeOK, FlowTypeOK, Goto

LEMMA TryLockPace ==
    ASSUME Punctual, TypeOK, LockInv, PaceInv, NEW n \in Node, TryLock(n)
    PROVE  PaceInv'
<1>1. dom[n] \in Domain
  BY DEF TryLock, TypeOK, FlowTypeOK, Visiting, PC
<1>2. CASE NextDomain(n, todo[n]) /\ UNCHANGED store
  BY <1>2, NextDomainPace, PaceFrame DEF TryLock, store
<1>3. CASE ~Live(lock[dom[n]]) /\ SetNXLock(dom[n]) /\ Goto(n, "expireLock")
  <2>1. credit[dom[n]] >= PermitIntervalSec
    BY <1>1, <1>3 DEF PaceInv, Live, NoKey
  <2>2. /\ lock'[dom[n]].ttl = NoExpiry
        /\ \A d \in Domain \ {dom[n]} : lock'[d] = lock[d]
        /\ UNCHANGED credit
    BY <1>1, <1>3 DEF TryLock, SetNXLock, SetNX, TypeOK, StoreTypeOK
  <2>3. \A m \in Node : pc'[m] \in Deciding => pc[m] \in Deciding /\ dom'[m] = dom[m]
    BY <1>3, GotoPace DEF Deciding
  \* Nobody who is deciding has this lock, or it would be live.
  <2>4. \A m \in Node : pc[m] \in Deciding => dom[m] \in Domain \ {dom[n]}
    BY <1>3, HolderHasLock DEF Deciding, Updating
  <2>5. \A m \in Node : pc'[m] \in Deciding =>
            /\ credit'[dom'[m]] >= PermitIntervalSec
            /\ credit'[dom'[m]] + lock'[dom'[m]].ttl >= 2 * PermitIntervalSec
    BY <2>2, <2>3, <2>4 DEF PaceInv
  <2>6. \A d \in Domain : lock'[d].ttl < 0 => credit'[d] >= PermitIntervalSec
    BY <2>1, <2>2 DEF PaceInv
  <2>7. \A d \in Domain : lock'[d].ttl > 0 => credit'[d] + lock'[d].ttl >= PermitIntervalSec
    BY <2>2 DEF PaceInv, NoExpiry
  <2> QED
    BY <2>5, <2>6, <2>7 DEF PaceInv
<1> QED
  BY <1>2, <1>3 DEF TryLock

LEMMA SetLockTTLPace ==
    ASSUME TypeOK, LockInv, PaceInv, NEW n \in Node, SetLockTTL(n)
    PROVE  PaceInv'
<1>1. dom[n] \in Domain /\ lock[dom[n]].ttl = NoExpiry
  BY DEF SetLockTTL, TypeOK, FlowTypeOK, Visiting, PC, LockInv
<1>2. credit[dom[n]] >= PermitIntervalSec
  BY <1>1 DEF PaceInv, NoExpiry
<1>3. /\ lock'[dom[n]].ttl = PermitIntervalSec
      /\ \A d \in Domain \ {dom[n]} : lock'[d] = lock[d]
      /\ UNCHANGED <<credit, dom>>
      /\ pc' = [pc EXCEPT ![n] = "getPermit"]
  BY <1>1, StoreAssumption
     DEF SetLockTTL, Goto, ExpireLock, Expire, Live, NoKey, NoExpiry, TypeOK, StoreTypeOK, Key
<1>4. pc \in [Node -> PC] /\ credit[dom[n]] \in Nat
  BY <1>1 DEF TypeOK, FlowTypeOK
<1>5. \A d \in Domain : lock'[d].ttl < 0 => credit'[d] >= PermitIntervalSec
  BY <1>2, <1>3 DEF PaceInv
<1>6. \A d \in Domain : lock'[d].ttl > 0 => credit'[d] + lock'[d].ttl >= PermitIntervalSec
  <2>1. credit[dom[n]] + PermitIntervalSec >= PermitIntervalSec
    BY <1>1, <1>4, StoreAssumption
  <2> QED
    BY <1>3, <2>1 DEF PaceInv
<1>7. ASSUME NEW m \in Node, pc'[m] \in Deciding
      PROVE  /\ credit'[dom'[m]] >= PermitIntervalSec
             /\ credit'[dom'[m]] + lock'[dom'[m]].ttl >= 2 * PermitIntervalSec
  <2>1. CASE dom[m] = dom[n]
    <3>1. credit[dom[n]] + PermitIntervalSec >= 2 * PermitIntervalSec
      BY <1>1, <1>2, <1>4, StoreAssumption
    <3> QED
      BY <1>2, <1>3, <2>1, <3>1
  <2>2. CASE dom[m] # dom[n]
    <3>1. pc[m] \in Deciding
      BY <1>3, <1>4, <1>7, <2>2
    <3>2. dom[m] \in Domain
      BY <3>1 DEF TypeOK, FlowTypeOK, Visiting, PC, Deciding
    <3> QED
      BY <1>3, <2>2, <3>1, <3>2 DEF PaceInv
  <2> QED
    BY <2>1, <2>2
<1> QED
  BY <1>5, <1>6, <1>7 DEF PaceInv

\* The increment spends an interval's worth.  The lock of the node that issues
\* it lives until the next is earned, and no other node decides about the
\* domain.
LEMMA IncrPace ==
    ASSUME Punctual, TypeOK, LockInv, PaceInv, NEW n \in Node, Incr(n)
    PROVE  PaceInv'
<1>1. /\ dom[n] \in Domain
      /\ pc[n] = "incr"
      /\ lock[dom[n]].ttl + busy[n] >= PermitIntervalSec
  BY DEF Incr, TypeOK, FlowTypeOK, Visiting, PC, LockInv, Updating
<1>2. busy[n] \in 0..MaxCycle /\ lock[dom[n]].ttl \in Int /\ pc \in [Node -> PC]
  BY <1>1 DEF TypeOK, FlowTypeOK, StoreTypeOK, Key, Ttl, NoKey, NoExpiry
<1>3. lock[dom[n]].ttl > 0
  BY <1>1, <1>2, StoreAssumption, WorkerAssumption DEF Punctual
<1>4. /\ UNCHANGED <<lock, dom>>
      /\ credit' = [credit EXCEPT ![dom[n]] = Spent(@)]
      /\ pc' = [pc EXCEPT ![n] = "expirePermit"]
  BY DEF Incr, IncrPermitted, Goto
<1>5. \A m \in Node \ {n} : pc[m] \in Deciding => dom[m] # dom[n]
  BY <1>1 DEF LockInv, OneUpdater, Deciding, Updating
<1>6. credit \in [Domain -> 0..FullCredit] /\ credit[dom[n]] \in Nat
  BY <1>1 DEF TypeOK
<1>7. \A d \in Domain \ {dom[n]} : credit'[d] = credit[d] /\ lock'[d] = lock[d]
  BY <1>4, <1>6
<1>8. credit'[dom[n]] + lock'[dom[n]].ttl >= PermitIntervalSec
  <2>1. credit[dom[n]] >= PermitIntervalSec
        /\ credit[dom[n]] + lock[dom[n]].ttl >= 2 * PermitIntervalSec
    BY <1>1 DEF PaceInv, Deciding
  <2>2. credit'[dom[n]] = credit[dom[n]] - PermitIntervalSec
    BY <1>1, <1>4, <1>6, <2>1, StoreAssumption DEF Spent
  <2> QED
    BY <1>1, <1>2, <1>4, <1>6, <2>1, <2>2, StoreAssumption
<1>9. ASSUME NEW m \in Node, pc'[m] \in Deciding
      PROVE  /\ credit'[dom'[m]] >= PermitIntervalSec
             /\ credit'[dom'[m]] + lock'[dom'[m]].ttl >= 2 * PermitIntervalSec
  <2>1. m # n /\ pc[m] \in Deciding
    BY <1>2, <1>4, <1>9 DEF Deciding
  <2>2. dom[m] \in Domain \ {dom[n]}
    BY <1>5, <2>1 DEF TypeOK, FlowTypeOK, Visiting, PC, Deciding
  <2> QED
    BY <1>4, <1>7, <2>1, <2>2 DEF PaceInv
<1> QED
  <2>1. \A d \in Domain : lock'[d].ttl < 0 => credit'[d] >= PermitIntervalSec
    BY <1>2, <1>3, <1>4, <1>7 DEF PaceInv
  <2>2. \A d \in Domain : lock'[d].ttl > 0 => credit'[d] + lock'[d].ttl >= PermitIntervalSec
    BY <1>7, <1>8 DEF PaceInv
  <2> QED
    BY <1>9, <2>1, <2>2 DEF PaceInv

LEMMA CyclePace ==
    ASSUME Punctual, TypeOK, LockInv, PaceInv, NEW n \in Node, Cycle(n)
    PROVE  PaceInv'
<1>1. CASE StartCycle(n)
  BY <1>1, EndCyclePace, NextDomainPace, PaceFrame DEF StartCycle, store
<1>2. CASE IsEnabled(n)
  <2>1. UNCHANGED <<lock, credit>>
    BY <1>2 DEF IsEnabled, store
  <2>2. PICK p \in PC \ Deciding : Goto(n, p)
    BY <1>2 DEF IsEnabled, PC, Deciding
  <2> QED
    BY <2>1, <2>2, GotoPace, PaceFrame
<1>3. CASE ZRemDisabled(n)
  BY <1>3, GotoPace, PaceFrame DEF ZRemDisabled, ZRemDomain, Deciding
<1>4. CASE DelDisabled(n)
  BY <1>4, NextDomainPace, PaceFrame DEF DelDisabled, DelNumbers
<1>5. CASE TryLock(n)
  BY <1>5, TryLockPace
<1>6. CASE SetLockTTL(n)
  BY <1>6, SetLockTTLPace
<1>7. CASE GetPermit(n)
  BY <1>7, GotoPace, PaceFrame DEF GetPermit, Deciding, store
<1>8. CASE GetTTL(n)
  BY <1>8, GotoPace, PaceFrame DEF GetTTL, Deciding, store
<1>9. CASE GetCurrent(n)
  BY <1>9, GotoPace, EndCyclePace, PaceFrame DEF GetCurrent, Deciding, store
<1>10. CASE GetLast(n)
  BY <1>10, GotoPace, PaceFrame DEF GetLast, Deciding, store
<1>11. CASE ZRemIdle(n)
  BY <1>11, GotoPace, PaceFrame DEF ZRemIdle, ZRemDomain, Deciding
<1>12. CASE DelIdle(n)
  BY <1>12, EndCyclePace, PaceFrame DEF DelIdle, DelNumbers
<1>13. CASE Incr(n)
  BY <1>13, IncrPace
<1>14. CASE ExpirePermit(n)
  BY <1>14, GotoPace, PaceFrame DEF ExpirePermit, ExpirePermitted, Deciding
<1>15. CASE ExtendCurrent(n)
  BY <1>15, GotoPace, PaceFrame DEF ExtendCurrent, ExtendCurrentNumberTTL, Deciding
<1>16. CASE SaveLast(n)
  <2>1. UNCHANGED <<lock, credit>>
    BY <1>16 DEF SaveLast, SaveLastNumber, store
  <2> QED
    BY <1>16, <2>1, NextDomainPace, EndCyclePace, PaceFrame DEF SaveLast
<1>17. CASE ExtendDomains(n)
  BY <1>17, EndCyclePace, PaceFrame DEF ExtendDomains, ExtendDomainsTTL
<1> QED
  BY <1>1, <1>2, <1>3, <1>4, <1>5, <1>6, <1>7, <1>8, <1>9, <1>10, <1>11, <1>12, <1>13,
     <1>14, <1>15, <1>16, <1>17 DEF Cycle

LEMMA TickPace ==
    ASSUME Punctual, TypeOK, LockInv, PaceInv, Tick
    PROVE  PaceInv'
<1>1. PermitIntervalSec \in Nat /\ MaxCycle \in Nat /\ MaxCycle < PermitIntervalSec
  BY StoreAssumption, WorkerAssumption DEF Punctual
<1>2. \A d \in Domain : /\ lock[d] \in Key /\ lock[d].ttl \in Int
                        /\ credit[d] \in 0..(PermitIntervalSec + MaxCycle)
                        /\ lock'[d] = Aged(lock[d])
                        /\ credit'[d] = Earned(credit[d])
  BY DEF TypeOK, StoreTypeOK, Tick, AgeStore, Key, Ttl, NoKey, NoExpiry, FullCredit
<1>3. ASSUME NEW d \in Domain
      PROVE  /\ lock'[d].ttl < 0 => credit'[d] >= PermitIntervalSec
             /\ lock'[d].ttl > 0 => credit'[d] + lock'[d].ttl >= PermitIntervalSec
  <2> DEFINE t == lock[d].ttl
  <2>0. t \in Ttl /\ t \in Int /\ lock[d] \in Key /\ lock'[d] = Aged(lock[d])
    BY <1>2 DEF Key
  <2>1. CASE t > 1
    <3>1. lock'[d].ttl = lock[d].ttl - 1
      BY <2>0, <2>1 DEF Aged, Key
    <3>2. credit[d] + lock[d].ttl >= PermitIntervalSec
      BY <1>2, <2>1 DEF PaceInv
    <3> QED
      BY <1>1, <1>2, <2>1, <3>1, <3>2 DEF Earned, FullCredit
  <2>2. CASE t = 1
    <3>1. lock'[d].ttl = NoKey
      BY <2>0, <2>2 DEF Aged, Missing
    <3>2. credit[d] + 1 >= PermitIntervalSec
      BY <2>2 DEF PaceInv
    <3> QED
      BY <1>1, <1>2, <3>1, <3>2 DEF Earned, FullCredit, NoKey
  <2>3. CASE t < 0
    <3>1. lock'[d] = lock[d]
      BY <2>0, <2>3 DEF Aged
    <3>2. credit[d] >= PermitIntervalSec
      BY <2>3 DEF PaceInv
    <3> QED
      BY <1>1, <1>2, <2>3, <3>1, <3>2 DEF Earned, FullCredit
  <2> QED
    BY <2>0, <2>1, <2>2, <2>3 DEF Ttl, NoKey, NoExpiry
\* Who is deciding has time left, and his lock more of it than a second.
<1>4. ASSUME NEW n \in Node, pc'[n] \in Deciding
      PROVE  /\ credit'[dom'[n]] >= PermitIntervalSec
             /\ credit'[dom'[n]] + lock'[dom'[n]].ttl >= 2 * PermitIntervalSec
  <2> DEFINE d == dom[n]
  <2>1. dom' = dom /\ pc[n] \in Deciding
    BY <1>4 DEF Tick
  <2>2. d \in Domain
    BY <2>1 DEF TypeOK, FlowTypeOK, Visiting, PC, Deciding
  <2>3. busy[n] \in Nat /\ busy[n] < MaxCycle
    BY <2>1 DEF Tick, TypeOK, FlowTypeOK, Deciding
  <2>4. lock[d].ttl + busy[n] >= PermitIntervalSec
    BY <2>1 DEF LockInv, Deciding, Updating
  <2>5. credit[d] >= PermitIntervalSec /\ credit[d] + lock[d].ttl >= 2 * PermitIntervalSec
    BY <2>1 DEF PaceInv
  <2>6. lock[d].ttl > 1 /\ lock[d].ttl >= PermitIntervalSec - MaxCycle + 1
    BY <1>1, <1>2, <2>2, <2>3, <2>4
  <2>7. lock'[d].ttl = lock[d].ttl - 1
    BY <1>2, <2>2, <2>6 DEF Aged, Key
  <2>8. credit'[d] = IF credit[d] < PermitIntervalSec + MaxCycle THEN credit[d] + 1
                     ELSE PermitIntervalSec + MaxCycle
    BY <1>2, <2>2 DEF Earned, FullCredit
  <2>9. credit'[d] >= PermitIntervalSec /\ credit'[d] + lock'[d].ttl >= 2 * PermitIntervalSec
    BY <1>1, <1>2, <2>2, <2>5, <2>6, <2>7, <2>8
  <2> QED
    BY <2>1, <2>9
<1> QED
  BY <1>3, <1>4 DEF PaceInv

LEMMA NextPace ==
    ASSUME Punctual, "retry" \notin Faults, TypeOK, LockInv, PaceInv, [Next]_vars
    PROVE  PaceInv'
<1>1. ASSUME NEW n \in Node, Cycle(n)
      PROVE  PaceInv'
  BY <1>1, CyclePace
<1>2. ASSUME NEW n \in Node, CycleFails(n)
      PROVE  PaceInv'
  BY <1>2, EndCyclePace, PaceFrame DEF CycleFails, store
<1>3. ASSUME NEW n \in Node, Crash(n)
      PROVE  PaceInv'
  <2>1. \A m \in Node : pc'[m] \in Deciding => pc[m] \in Deciding /\ dom'[m] = dom[m]
    BY <1>3 DEF Crash, TypeOK, FlowTypeOK, Deciding
  <2> QED
    BY <1>3, <2>1, PaceFrame DEF Crash, store
<1>4. ASSUME NEW n \in Node, RetryIncr(n) \/ RetryLock(n)
      PROVE  PaceInv'
  BY <1>4 DEF RetryIncr, RetryLock
<1>5. CASE Environment
  <2>1. CASE Tick
    BY <2>1, TickPace
  <2>2. CASE ~Tick
    <3>1. ASSUME NEW d \in Domain, Visit(d) \/ PipelineCut(d)
          PROVE  UNCHANGED <<lock, credit, worker>>
      BY <3>1 DEF Visit, Enable, ExpireEnabled, ListEnabled, ExtendEnabled, TakeNumber,
                  ExpireTaken, PipelineCut, GoesOn, SetNXPermitted, ExpirePermitted, ZAddDomain,
                  ExtendDomainsTTL, IncrCurrent, ExtendCurrentNumberTTL, store
    <3>2. ASSUME NEW d \in AdminDomain, Admin(d)
          PROVE  UNCHANGED <<lock, credit, worker>>
      BY <3>2 DEF Admin, AdminExtend, AdminSaveCurrent, AdminSavePermit, AdminZRem, AdminDel,
                  ExtendDomainsTTL, SaveCurrentNumber, SaveCurrentPermitNumber, ZRemDomain,
                  DelNumbers
    <3>3. UNCHANGED <<lock, credit, worker>>
      BY <1>5, <2>2, <3>1, <3>2 DEF Environment
    <3> QED
      BY <3>3, PaceFrame DEF worker
  <2> QED
    BY <2>1, <2>2
<1>6. CASE UNCHANGED vars
  BY <1>6, PaceFrame DEF vars, store, worker
<1> QED
  BY <1>1, <1>2, <1>3, <1>4, <1>5, <1>6 DEF Next

LEMMA InitPace == Init => LockInv /\ PaceInv
BY StoreAssumption, WorkerAssumption
   DEF FullCredit, Init, LockInv, OneUpdater, Updating, PaceInv, Deciding, StoreInit, Missing, NoKey

\* Units for one domain come no faster than one per PermitIntervalSec: whoever is
\* about to raise a permit number finds an interval's worth of seconds that no
\* earlier raise has used, although crashes, failed commands, cut pipelines and
\* resets intervene.
THEOREM Pace == ASSUME Punctual, "retry" \notin Faults PROVE Spec => []PaceKept
<1>1. TypeOK /\ LockInv /\ PaceInv /\ [Next]_vars => PaceInv'
  BY NextPace
<1>2. TypeOK /\ LockInv /\ [Next]_vars => LockInv'
  BY NextLock
<1>3. PaceInv => PaceKept
  BY DEF PaceInv, PaceKept, Deciding
<1> QED
  BY <1>1, <1>2, <1>3, InitPace, TypeCorrect, PTL DEF Spec

\* An idle queue is ended only with an interval earned since the last raise: a
\* node that has just raised a number and one that finds nobody waiting never
\* belong to one interval.
THEOREM Idle == ASSUME Punctual, "retry" \notin Faults PROVE Spec => []IdleForInterval
<1>1. TypeOK /\ LockInv /\ PaceInv /\ [Next]_vars => PaceInv'
  BY NextPace
<1>2. TypeOK /\ LockInv /\ [Next]_vars => LockInv'
  BY NextLock
<1>3. PaceInv => IdleForInterval
  BY DEF PaceInv, IdleForInterval, Deciding
<1> QED
  BY <1>1, <1>2, <1>3, InitPace, TypeCorrect, PTL DEF Spec

-----------------------------------------------------------------------------
(* The permit worker implements PermitPacer.                               *)

LEMMA PacerStutters ==
    ASSUME UNCHANGED <<permitted, credit>>
    PROVE  UNCHANGED Pacer!pacer
BY DEF Pacer!pacer, PermitNumbers, GetCurrentPermitNumber

\* The permit numbers after a step that writes one permit number.
LEMMA OneNumberChanges ==
    ASSUME TypeOK, NEW d \in Domain, NEW k, permitted' = [permitted EXCEPT ![d] = k]
    PROVE  PermitNumbers' = [PermitNumbers EXCEPT ![d] = IF Live(k) THEN k.val ELSE -1]
BY DEF TypeOK, StoreTypeOK, PermitNumbers, GetCurrentPermitNumber

\* Deleting the numbers of a queue closes it.
LEMMA DelNumbersCloses ==
    ASSUME TypeOK, NEW d \in Domain, UNCHANGED credit,
           permitted' = [permitted EXCEPT ![d] = Missing]
    PROVE  Pacer!Close(d)
<1>1. PermitNumbers' = [PermitNumbers EXCEPT ![d] = IF Live(Missing) THEN Missing.val ELSE -1]
  BY OneNumberChanges
<1>2. ~Live(Missing)
  BY DEF Live, Missing
<1> QED
  BY <1>1, <1>2 DEF Pacer!Close, Pacer!Off

LEMMA IncrGrants ==
    ASSUME TypeOK, PaceInv, NEW n \in Node, Incr(n)
    PROVE  Pacer!Grant(dom[n])
<1> DEFINE d == dom[n]
<1>1. d \in Domain
  BY DEF Incr, TypeOK, FlowTypeOK, Visiting, PC
<1>2. credit[d] \in Nat /\ credit[d] >= PermitIntervalSec
  BY <1>1 DEF Incr, PaceInv, Deciding, TypeOK
<1>3. permitted' = [permitted EXCEPT ![d] = IncrBy(permitted[d], PermitUnitNumber)]
  BY DEF Incr, IncrPermitted
<1>4. permitted[d] \in Key
  BY <1>1 DEF TypeOK, StoreTypeOK
<1>5. Live(IncrBy(permitted[d], PermitUnitNumber))
  BY DEF IncrBy, Live, NoKey, NoExpiry
<1>6. IncrBy(permitted[d], PermitUnitNumber).val = Pacer!Raised(PermitNumbers[d])
  BY <1>1, <1>4 DEF IncrBy, Plus, Live, Pacer!Raised, Pacer!Off, PermitNumbers,
                    GetCurrentPermitNumber, Key, Number
<1>7. PermitNumbers' = [PermitNumbers EXCEPT ![d] = Pacer!Raised(@)]
  BY <1>1, <1>3, <1>5, <1>6, OneNumberChanges
<1>8. credit' = [credit EXCEPT ![d] = @ - PermitIntervalSec]
  <2>1. Spent(credit[d]) = credit[d] - PermitIntervalSec
    BY <1>2, StoreAssumption DEF Spent
  <2> QED
    BY <2>1 DEF Incr
<1> QED
  BY <1>2, <1>7, <1>8 DEF Pacer!Grant

\* The EXPIRE after the INCRBY leaves the number, or deletes the queue.
LEMMA ExpirePermitCloses ==
    ASSUME TypeOK, NEW n \in Node, ExpirePermit(n)
    PROVE  Pacer!Close(dom[n]) \/ UNCHANGED Pacer!pacer
<1> DEFINE d == dom[n]
           k == Expire(permitted[d], seen[n].ttl)
<1>1. d \in Domain
  BY DEF ExpirePermit, TypeOK, FlowTypeOK, Visiting, PC
<1>2. PermitNumbers' = [PermitNumbers EXCEPT ![d] = IF Live(k) THEN k.val ELSE -1]
  BY <1>1, OneNumberChanges DEF ExpirePermit, ExpirePermitted
<1>3. UNCHANGED credit
  BY DEF ExpirePermit
<1>4. permitted[d] \in Key
  BY <1>1 DEF TypeOK, StoreTypeOK
<1>5. CASE Live(permitted[d]) /\ seen[n].ttl > 0
  <2>1. Live(k) /\ k.val = PermitNumbers[d]
    BY <1>1, <1>4, <1>5 DEF Expire, Live, Key, PermitNumbers, GetCurrentPermitNumber, NoKey,
                            TypeOK
  <2> QED
    BY <1>1, <1>2, <1>3, <2>1 DEF Pacer!pacer, PermitNumbers
<1>6. CASE ~(Live(permitted[d]) /\ seen[n].ttl > 0)
  <2>1. k = Missing
    BY <1>6 DEF Expire
  <2> QED
    BY <1>2, <1>3, <2>1 DEF Pacer!Close, Pacer!Off, Live, Missing
<1> QED
  BY <1>5, <1>6

LEMMA CyclePacer ==
    ASSUME TypeOK, PaceInv, NEW n \in Node, Cycle(n)
    PROVE  [Pacer!PacerNext]_(Pacer!pacer)
<1>1. pc[n] \in Visiting => dom[n] \in Domain
  BY DEF TypeOK, FlowTypeOK
<1>2. CASE DelDisabled(n) \/ DelIdle(n)
  BY <1>1, <1>2, DelNumbersCloses
     DEF DelDisabled, DelIdle, DelNumbers, Visiting, PC, Pacer!PacerNext
<1>3. CASE Incr(n)
  BY <1>1, <1>3, IncrGrants DEF Incr, Visiting, PC, Pacer!PacerNext
<1>4. CASE ExpirePermit(n)
  BY <1>1, <1>4, ExpirePermitCloses DEF ExpirePermit, Visiting, PC, Pacer!PacerNext
<1>5. CASE StartCycle(n) \/ IsEnabled(n) \/ TryLock(n) \/ SetLockTTL(n)
           \/ GetPermit(n) \/ GetTTL(n) \/ GetCurrent(n) \/ GetLast(n)
  <2>1. UNCHANGED <<permitted, credit>>
    BY <1>5 DEF StartCycle, IsEnabled, TryLock, SetLockTTL, GetPermit, GetTTL, GetCurrent,
                GetLast, SetNXLock, ExpireLock, store
  <2> QED
    BY <2>1, PacerStutters
<1>6. CASE ZRemDisabled(n) \/ ZRemIdle(n) \/ ExtendCurrent(n) \/ SaveLast(n) \/ ExtendDomains(n)
  <2>1. UNCHANGED <<permitted, credit>>
    BY <1>6 DEF ZRemDisabled, ZRemIdle, ExtendCurrent, SaveLast, ExtendDomains, ZRemDomain,
                ExtendCurrentNumberTTL, SaveLastNumber, ExtendDomainsTTL, store
  <2> QED
    BY <2>1, PacerStutters
<1> QED
  BY <1>2, <1>3, <1>4, <1>5, <1>6 DEF Cycle

\* A new queue opens at zero, a running one keeps its number.
LEMMA EnablePacer ==
    ASSUME TypeOK, NEW d \in Domain, Enable(d)
    PROVE  Pacer!Open(d) \/ UNCHANGED Pacer!pacer
<1> DEFINE k == SetNX(permitted[d], 0)
<1>1. PermitNumbers' = [PermitNumbers EXCEPT ![d] = IF Live(k) THEN k.val ELSE -1]
  BY OneNumberChanges DEF Enable, SetNXPermitted
<1>2. CASE Live(permitted[d])
  <2>1. Live(k) /\ k.val = PermitNumbers[d]
    BY <1>2 DEF SetNX, PermitNumbers, GetCurrentPermitNumber
  <2> QED
    BY <1>1, <2>1 DEF Pacer!pacer, PermitNumbers, Enable
<1>3. CASE ~Live(permitted[d])
  <2>1. Live(k) /\ k.val = 0
    BY <1>3 DEF SetNX, Live, NoKey, NoExpiry
  <2>2. PermitNumbers[d] = -1
    BY <1>3 DEF PermitNumbers, GetCurrentPermitNumber
  <2> QED
    BY <1>1, <2>1, <2>2 DEF Pacer!Open, Pacer!Off, Enable
<1> QED
  BY <1>2, <1>3

\* The EXPIRE of a request leaves the number as it is.
LEMMA ExpireEnabledPacer ==
    ASSUME TypeOK, NEW d \in Domain, ExpireEnabled(d)
    PROVE  UNCHANGED Pacer!pacer
<1> DEFINE k == Expire(permitted[d], QueueEnableSec)
<1>1. PermitNumbers' = [PermitNumbers EXCEPT ![d] = IF Live(k) THEN k.val ELSE -1]
  BY OneNumberChanges DEF ExpireEnabled, ExpirePermitted
<1>2. (IF Live(k) THEN k.val ELSE -1) = PermitNumbers[d]
  <2>1. permitted[d] \in Key
    BY DEF TypeOK, StoreTypeOK
  <2> QED
    BY <2>1, StoreAssumption
       DEF Expire, Live, Key, Missing, NoKey, PermitNumbers, GetCurrentPermitNumber
<1> QED
  BY <1>1, <1>2 DEF Pacer!pacer, PermitNumbers, ExpireEnabled, GoesOn

LEMMA VisitPacer ==
    ASSUME TypeOK, NEW d \in Domain, Visit(d) \/ PipelineCut(d)
    PROVE  Pacer!Open(d) \/ UNCHANGED Pacer!pacer
<1>1. CASE ListEnabled(d) \/ ExtendEnabled(d) \/ TakeNumber(d) \/ ExpireTaken(d) \/ PipelineCut(d)
  <2>1. UNCHANGED <<permitted, credit>>
    BY <1>1 DEF ListEnabled, ExtendEnabled, TakeNumber, ExpireTaken, PipelineCut, GoesOn,
                ZAddDomain, ExtendDomainsTTL, IncrCurrent, ExtendCurrentNumberTTL, store
  <2> QED
    BY <2>1, PacerStutters
<1> QED
  BY <1>1, EnablePacer, ExpireEnabledPacer DEF Visit

\* The administrator sets the permit number, or ends the queue.
LEMMA AdminPacer ==
    ASSUME TypeOK, NEW d \in AdminDomain, Admin(d)
    PROVE  Pacer!Assign(d) \/ Pacer!Close(d) \/ UNCHANGED Pacer!pacer
<1>1. d \in Domain
  BY WorkerAssumption
<1>2. ASSUME NEW v \in Number, AdminSavePermit(d, v)
      PROVE  Pacer!Assign(d)
  <2>1. permitted' = [permitted EXCEPT ![d] = SetEX(v, QueueEnableSec)]
    BY <1>2 DEF AdminSavePermit, SaveCurrentPermitNumber
  <2>2. Live(SetEX(v, QueueEnableSec)) /\ SetEX(v, QueueEnableSec).val = v
    BY StoreAssumption DEF SetEX, Live, NoKey
  <2>3. PermitNumbers' = [PermitNumbers EXCEPT ![d] = v]
    BY <1>1, <2>1, <2>2, OneNumberChanges
  <2> QED
    BY <1>2, <2>3 DEF Pacer!Assign, AdminSavePermit, Number
<1>3. ASSUME AdminDel(d)
      PROVE  Pacer!Close(d)
  BY <1>1, <1>3, DelNumbersCloses DEF AdminDel, DelNumbers
<1>4. ASSUME NEW v \in Number, AdminExtend \/ AdminSaveCurrent(d, v) \/ AdminZRem(d)
      PROVE  UNCHANGED Pacer!pacer
  BY <1>4, PacerStutters
     DEF AdminExtend, AdminSaveCurrent, AdminZRem, ExtendDomainsTTL, SaveCurrentNumber, ZRemDomain
<1>5. 0 \in Number
  BY StoreAssumption DEF Number
<1> QED
  BY <1>2, <1>3, <1>4, <1>5 DEF Admin

LEMMA TickPacer ==
    ASSUME TypeOK, Tick
    PROVE  Pacer!PacerTick
<1> DEFINE over == {d \in Domain : permitted[d].ttl = 1}
<1>1. ASSUME NEW d \in Domain
      PROVE  GetCurrentPermitNumber(d)' = IF d \in over THEN -1 ELSE PermitNumbers[d]
  <2>1. permitted'[d] = Aged(permitted[d])
    BY DEF Tick, AgeStore
  <2>2. permitted[d] \in Key
    BY DEF TypeOK, StoreTypeOK
  <2>3. CASE permitted[d].ttl > 1
    BY <2>1, <2>2, <2>3
       DEF Aged, Key, Live, NoKey, PermitNumbers, GetCurrentPermitNumber
  <2>4. CASE permitted[d].ttl = 1
    BY <2>1, <2>4 DEF Aged, Missing, Live, NoKey, GetCurrentPermitNumber
  <2>5. CASE permitted[d].ttl < 1
    <3>1. permitted'[d] = permitted[d]
      BY <2>1, <2>2, <2>5 DEF Aged, Key, Ttl, NoKey, NoExpiry
    <3> QED
      BY <2>5, <3>1 DEF PermitNumbers, GetCurrentPermitNumber
  <2> QED
    BY <2>2, <2>3, <2>4, <2>5 DEF Key, Ttl, NoKey, NoExpiry
<1>2. PermitNumbers' = [d \in Domain |-> IF d \in over THEN Pacer!Off ELSE PermitNumbers[d]]
  BY <1>1 DEF PermitNumbers, Pacer!Off
<1>3. credit' = [d \in Domain |-> IF credit[d] < PermitIntervalSec + MaxCycle
                                 THEN credit[d] + 1 ELSE credit[d]]
  <2>1. credit \in [Domain -> 0..FullCredit] /\ FullCredit \in Int
    BY StoreAssumption, WorkerAssumption DEF TypeOK, FullCredit
  <2>2. \A d \in Domain : Earned(credit[d]) = IF credit[d] < PermitIntervalSec + MaxCycle
                                              THEN credit[d] + 1 ELSE credit[d]
    BY <2>1 DEF Earned, FullCredit
  <2> QED
    BY <2>2 DEF Tick
<1>4. over \in SUBSET Domain
  OBVIOUS
<1> QED
  BY <1>2, <1>3, <1>4 DEF Pacer!PacerTick

LEMMA NextPacer ==
    ASSUME "retry" \notin Faults, TypeOK, PaceInv, [Next]_vars
    PROVE  [Pacer!PacerNext]_(Pacer!pacer)
<1>1. ASSUME NEW n \in Node, Cycle(n)
      PROVE  [Pacer!PacerNext]_(Pacer!pacer)
  BY <1>1, CyclePacer
<1>2. ASSUME NEW n \in Node, CycleFails(n) \/ Crash(n) \/ RetryIncr(n) \/ RetryLock(n)
      PROVE  [Pacer!PacerNext]_(Pacer!pacer)
  BY <1>2, PacerStutters DEF CycleFails, Crash, RetryIncr, RetryLock, store
<1>3. ASSUME NEW d \in Domain, Visit(d) \/ PipelineCut(d)
      PROVE  [Pacer!PacerNext]_(Pacer!pacer)
  BY <1>3, VisitPacer DEF Pacer!PacerNext
<1>4. ASSUME NEW d \in AdminDomain, Admin(d)
      PROVE  [Pacer!PacerNext]_(Pacer!pacer)
  BY <1>4, AdminPacer, WorkerAssumption DEF Pacer!PacerNext
<1>5. CASE Tick
  BY <1>5, TickPacer DEF Pacer!PacerNext
<1>6. CASE UNCHANGED vars
  BY <1>6, PacerStutters DEF vars, store
<1> QED
  BY <1>1, <1>2, <1>3, <1>4, <1>5, <1>6 DEF Next, Environment

LEMMA InitPacer == Init => Pacer!PacerInit
BY DEF FullCredit, Init, StoreInit, Pacer!PacerInit, Pacer!Off, PermitNumbers, GetCurrentPermitNumber,
       Missing, Live

\* The workers of all nodes together keep what PermitPacer promises: whatever
\* crashes, fails, is cut off or expires, a permit number only opens, closes, is
\* assigned by hand or rises by one unit, at the rate of one per interval.
THEOREM ImplementsPacer == ASSUME Punctual, "retry" \notin Faults PROVE Spec => PacerSpec
<1>1. TypeOK /\ LockInv /\ PaceInv /\ [Next]_vars => PaceInv'
  BY NextPace
<1>2. TypeOK /\ LockInv /\ [Next]_vars => LockInv'
  BY NextLock
<1>3. TypeOK /\ PaceInv /\ [Next]_vars => [Pacer!PacerNext]_(Pacer!pacer)
  BY NextPacer
<1> QED
  BY <1>1, <1>2, <1>3, InitPace, InitPacer, TypeCorrect, PTL
     DEF Spec, PacerSpec, Pacer!PacerSpec
=============================================================================
