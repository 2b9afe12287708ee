--------------------------- MODULE QueueAdmin_proofs ---------------------------
(***************************************************************************)
(* What is proved of the workers holds next to the administrator's         *)
(* handlers, for any nodes, domains and requests under way: PermitWorker   *)
(* allows for every command a handler issues.                              *)
(***************************************************************************)
EXTENDS QueueAdmin, PermitPace_proofs, PermitKeys_proofs

\* A handler under way knows the domain it is about.
HandlerInv ==
    /\ apc \in [Request -> AdminPC]
    /\ about \in [Request -> AdminDomain \cup {NoDomain}]
    /\ \A r \in Request : apc[r] # "idle" => about[r] \in AdminDomain

-----------------------------------------------------------------------------
(* The control flow of a handler.                                          *)

LEMMA ArriveInv ==
    ASSUME HandlerInv, NEW r \in Request, NEW p \in AdminPC, Arrive(r, p)
    PROVE  HandlerInv'
BY DEF HandlerInv, Arrive

LEMMA GoOnInv ==
    ASSUME HandlerInv, NEW r \in Request, NEW p \in AdminPC, apc[r] # "idle", GoOn(r, p)
    PROVE  HandlerInv'
BY DEF HandlerInv, GoOn

LEMMA RespondInv ==
    ASSUME HandlerInv, NEW r \in Request, Respond(r)
    PROVE  HandlerInv'
BY DEF HandlerInv, Respond, AdminPC

LEMMA HandleInv ==
    ASSUME HandlerInv, NEW r \in Request, Handle(r)
    PROVE  HandlerInv'
<1>1. CASE CreateQueue(r) \/ UpdateQueueByName(r) \/ DeleteQueueByName(r)
  BY <1>1, ArriveInv DEF CreateQueue, UpdateQueueByName, DeleteQueueByName, AdminPC
<1>2. CASE SkipEnable(r) \/ EnableQueue(r) \/ ExpireQueue(r) \/ ListQueue(r) \/ ExtendQueue(r)
           \/ MarkEnabled(r)
  BY <1>2, GoOnInv
     DEF SkipEnable, EnableQueue, ExpireQueue, ListQueue, ExtendQueue, MarkEnabled, AdminPC
<1>3. CASE ExtendList(r) \/ SaveCurrent(r) \/ ZRem(r)
  BY <1>3, GoOnInv DEF ExtendList, SaveCurrent, ZRem, AdminPC
<1>4. CASE SavePermit(r) \/ Del(r) \/ RequestFails(r)
  BY <1>4, RespondInv DEF SavePermit, Del, RequestFails
<1> QED
  BY <1>1, <1>2, <1>3, <1>4 DEF Handle

LEMMA AdminNextInv ==
    ASSUME HandlerInv, [AdminNext]_allVars
    PROVE  HandlerInv'
<1>1. ASSUME NEW r \in Request, Handle(r)
      PROVE  HandlerInv'
  BY <1>1, HandleInv
<1>2. CASE UNCHANGED <<apc, about>>
  BY <1>2 DEF HandlerInv
<1> QED
  BY <1>1, <1>2 DEF AdminNext, AdminTick, handler, allVars

-----------------------------------------------------------------------------
(* Every step of a handler is a step of PermitWorker's environment, or     *)
(* changes nothing it knows of.                                            *)

LEMMA HandleConforms ==
    ASSUME HandlerInv, NEW r \in Request, Handle(r)
    PROVE  Environment \/ UNCHANGED vars
<1>1. CASE CreateQueue(r) \/ UpdateQueueByName(r) \/ DeleteQueueByName(r)
  BY <1>1 DEF CreateQueue, UpdateQueueByName, DeleteQueueByName, Arrive
<1>2. CASE SkipEnable(r) \/ MarkEnabled(r) \/ RequestFails(r)
  BY <1>2 DEF SkipEnable, MarkEnabled, RequestFails
<1>3. CASE apc[r] # "idle"
  <2>1. about[r] \in AdminDomain /\ about[r] \in Domain
    BY <1>3, WorkerAssumption DEF HandlerInv
  <2>2. CASE EnableQueue(r) \/ ExpireQueue(r) \/ ListQueue(r) \/ ExtendQueue(r)
    BY <2>1, <2>2 DEF EnableQueue, ExpireQueue, ListQueue, ExtendQueue, Visit, Environment
  <2>3. CASE ExtendList(r)
    <3>1. AdminExtend
      BY <2>3 DEF ExtendList
    <3> QED
      BY <2>1, <3>1 DEF Admin, Environment
  <2>4. CASE SaveCurrent(r)
    <3>1. PICK v \in Number : AdminSaveCurrent(about[r], v)
      BY <2>4 DEF SaveCurrent
    <3> QED
      BY <2>1, <3>1 DEF Admin, Environment
  <2>5. CASE SavePermit(r)
    <3>1. PICK v \in Number : AdminSavePermit(about[r], v)
      BY <2>5 DEF SavePermit
    <3> QED
      BY <2>1, <3>1 DEF Admin, Environment
  <2>6. CASE ZRem(r)
    <3>1. AdminZRem(about[r])
      BY <2>6 DEF ZRem
    <3> QED
      BY <2>1, <3>1 DEF Admin, Environment
  <2>7. CASE Del(r)
    <3>1. AdminDel(about[r])
      BY <2>7 DEF Del
    <3> QED
      BY <2>1, <3>1 DEF Admin, Environment
  <2> QED
    BY <1>1, <1>2, <2>2, <2>3, <2>4, <2>5, <2>6, <2>7 DEF Handle
<1>4. CASE apc[r] = "idle"
  BY <1>1, <1>2, <1>4
     DEF Handle, EnableQueue, ExpireQueue, ListQueue, ExtendQueue, ExtendList, SaveCurrent, SavePermit, ZRem, Del
<1> QED
  BY <1>3, <1>4

LEMMA AdminNextConforms ==
    ASSUME HandlerInv, [AdminNext]_allVars
    PROVE  [Next]_vars
<1>1. ASSUME NEW r \in Request, Handle(r)
      PROVE  [Next]_vars
  BY <1>1, HandleConforms DEF Next
<1>2. ASSUME NEW n \in Node, Cycle(n)
      PROVE  [Next]_vars
  BY <1>2 DEF Next
<1>3. ASSUME NEW d \in Domain, Visit(d)
      PROVE  [Next]_vars
  BY <1>3 DEF Next, Environment
<1>4. CASE AdminTick
  BY <1>4 DEF AdminTick, Next, Environment
<1>5. CASE UNCHANGED allVars
  BY <1>5 DEF allVars
<1> QED
  BY <1>1, <1>2, <1>3, <1>4, <1>5 DEF AdminNext

\* The administrator's requests are among those PermitWorker allows for.
LEMMA AdminIsEnvironment == AdminSpec => Spec
<1>1. AdminInit => Init /\ HandlerInv
  BY DEF AdminInit, HandlerInv, AdminPC
<1>2. HandlerInv /\ [AdminNext]_allVars => HandlerInv'
  BY AdminNextInv
<1>3. HandlerInv /\ [AdminNext]_allVars => [Next]_vars
  BY AdminNextConforms
<1> QED
  BY <1>1, <1>2, <1>3, PTL DEF AdminSpec, Spec

\* Whatever the administrator creates, changes and deletes, and however his
\* requests fail, a domain has one updater at a time.
THEOREM OneUpdaterBesides == ASSUME Punctual PROVE AdminSpec => []OneUpdater
BY AdminIsEnvironment, MutualExclusion

\* ... and, as long as no pipeline is cut off, no permit number is left without a
\* TTL but by an update or an enabling under way, although a creation, a deletion
\* and a change of one queue interleave command by command.
THEOREM PermitsExpireBesides ==
    ASSUME Faults = {}
    PROVE  AdminSpec => []PermitNotOrphaned
BY AdminIsEnvironment, PermitsExpire
=============================================================================
