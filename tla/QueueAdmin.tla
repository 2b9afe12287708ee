------------------------------ MODULE QueueAdmin ------------------------------
(***************************************************************************)
(* The administrator's requests about queues, next to the workers and the  *)
(* clients: the handlers of api/queues.go with domain/viron.go, one Redis  *)
(* command a step.  Each node's handlers share a Waitingroom of their own, *)
(* of which only the memory of queues it has enabled is used.              *)
(*                                                                         *)
(* PermitWorker knows these handlers as commands that come in any order    *)
(* (Admin) and as requests that enable a queue (Enable); this module has   *)
(* the requests that issue them, for the domains of AdminDomain.           *)
(***************************************************************************)
EXTENDS PermitWorker

CONSTANT Request     \* requests that may be under way at the same time

VARIABLES
    apc,     \* the command a request issues next
    about,   \* the domain it is about
    server,  \* the node that serves it
    spent,   \* seconds it has taken
    marked   \* per node and domain: seconds left of "EnableQueue has run"

handler == <<apc, about, server, spent, marked>>
allVars == <<vars, handler>>

NoServer == "none"

AdminInit ==
    /\ Init
    /\ apc = [r \in Request |-> "idle"]
    /\ about = [r \in Request |-> NoDomain]
    /\ server = [r \in Request |-> NoServer]
    /\ spent = [r \in Request |-> 0]
    /\ marked = [n \in Node |-> [d \in Domain |-> 0]]

\* A request arrives whose first command is p.
Arrive(r, p) ==
    /\ apc[r] = "idle"
    /\ apc' = [apc EXCEPT ![r] = p]
    /\ \E d \in AdminDomain : about' = [about EXCEPT ![r] = d]
    /\ \E n \in Node : server' = [server EXCEPT ![r] = n]
    /\ UNCHANGED <<vars, spent, marked>>

\* Its handler goes on to command p.
GoOn(r, p) ==
    /\ apc' = [apc EXCEPT ![r] = p]
    /\ UNCHANGED <<about, server, spent>>

\* Its handler answers, with success or with an error.
Respond(r) ==
    /\ apc' = [apc EXCEPT ![r] = "idle"]
    /\ about' = [about EXCEPT ![r] = NoDomain]
    /\ server' = [server EXCEPT ![r] = NoServer]
    /\ spent' = [spent EXCEPT ![r] = 0]

Mark(r, sec) == marked' = [marked EXCEPT ![server[r]][about[r]] = sec]

-----------------------------------------------------------------------------
(* Faulty variants of steps below, each a mistake one could make in the    *)
(* code; no specification uses them.                                       *)

\* The permit number is saved like a flag, with SET and without a TTL.
SavePermitForGood(r) ==
    /\ apc[r] = "savePermit"
    /\ \E v \in Number : permitted' = [permitted EXCEPT ![about[r]] = SetEX(v, NoExpiry)]
    /\ Respond(r)
    /\ UNCHANGED <<current, last, lock, domains, worker, pipes, credit, marked>>

-----------------------------------------------------------------------------
(* The three requests.                                                     *)

CreateQueue(r) == Arrive(r, "enable")

UpdateQueueByName(r) == Arrive(r, "extend")

DeleteQueueByName(r) == Arrive(r, "zrem")

\* EnableQueue of CreateQueues, skipped while its node remembers having run it.
SkipEnable(r) ==
    /\ apc[r] = "enable"
    /\ marked[server[r]][about[r]] > 0
    /\ GoOn(r, "extend")
    /\ UNCHANGED <<vars, marked>>

\* The pipeline of EnableDomain: its commands are those of any request that
\* enables a queue, and this request is one of those at apc[r].
EnableQueue(r) ==
    /\ apc[r] = "enable"
    /\ marked[server[r]][about[r]] = 0
    /\ Enable(about[r])
    /\ GoOn(r, "expireEnabled")
    /\ UNCHANGED marked

ExpireQueue(r) ==
    /\ apc[r] = "expireEnabled"
    /\ ExpireEnabled(about[r])
    /\ GoOn(r, "zadd")
    /\ UNCHANGED marked

ListQueue(r) ==
    /\ apc[r] = "zadd"
    /\ ListEnabled(about[r])
    /\ GoOn(r, "expireList")
    /\ UNCHANGED marked

ExtendQueue(r) ==
    /\ apc[r] = "expireList"
    /\ ExtendEnabled(about[r])
    /\ GoOn(r, "mark")
    /\ UNCHANGED marked

\* ttlcache takes a TTL of zero for the cache's own, which is CacheTTLSec.
EnableCacheSec == IF QueueEnableSec \div 2 = 0 THEN CacheTTLSec ELSE QueueEnableSec \div 2

MarkEnabled(r) ==
    /\ apc[r] = "mark"
    /\ Mark(r, EnableCacheSec)
    /\ GoOn(r, "extend")
    /\ UNCHANGED vars

\* The commands of UpdateQueues.  Nothing compares the numbers of a request
\* before they are saved, so they are chosen there.
ExtendList(r) ==
    /\ apc[r] = "extend"
    /\ AdminExtend
    /\ GoOn(r, "saveCurrent")
    /\ UNCHANGED marked

SaveCurrent(r) ==
    /\ apc[r] = "saveCurrent"
    /\ \E v \in Number : AdminSaveCurrent(about[r], v)
    /\ GoOn(r, "savePermit")
    /\ UNCHANGED marked

SavePermit(r) ==
    /\ apc[r] = "savePermit"
    /\ \E v \in Number : AdminSavePermit(about[r], v)
    /\ Respond(r)
    /\ UNCHANGED marked

\* The commands of DeleteQueues, a Reset, which flushes what is remembered.
ZRem(r) ==
    /\ apc[r] = "zrem"
    /\ AdminZRem(about[r])
    /\ GoOn(r, "del")
    /\ UNCHANGED marked

Del(r) ==
    /\ apc[r] = "del"
    /\ AdminDel(about[r])
    /\ Mark(r, 0)
    /\ Respond(r)

\* A command fails, before or after Redis has executed it, and the handler
\* answers with an error; the flush of a Reset is deferred and happens.  Redis
\* gets all of the enabling pipeline or nothing (PipelineCut is otherwise).
RequestFails(r) ==
    /\ apc[r] \notin {"idle"} \cup Piped
    /\ IF apc[r] \in {"zrem", "del"} THEN Mark(r, 0) ELSE UNCHANGED marked
    /\ Respond(r)
    /\ UNCHANGED vars

Handle(r) ==
    \/ CreateQueue(r)   \/ UpdateQueueByName(r) \/ DeleteQueueByName(r)
    \/ SkipEnable(r)    \/ EnableQueue(r)       \/ ExpireQueue(r)
    \/ ListQueue(r)     \/ ExtendQueue(r)       \/ MarkEnabled(r)
    \/ ExtendList(r)    \/ SaveCurrent(r)       \/ SavePermit(r)
    \/ ZRem(r)          \/ Del(r)               \/ RequestFails(r)

-----------------------------------------------------------------------------
(* The workers, the clients and time go on around them.                    *)

\* A request under way has time left, as a cycle has.
AdminTick ==
    /\ Tick
    /\ \A r \in Request : apc[r] # "idle" => spent[r] < MaxCycle
    /\ spent' = [r \in Request |-> IF apc[r] = "idle" THEN 0 ELSE spent[r] + 1]
    /\ marked' = [n \in Node |-> [d \in Domain |->
                     IF marked[n][d] > 0 THEN marked[n][d] - 1 ELSE 0]]
    /\ UNCHANGED <<apc, about, server>>

\* A handler within the pipeline stays one of the requests that are there.
InPipe ==
    \A r \in Request : apc[r] \in Piped => apc[r] \in pipes[about[r]]

AdminNext ==
    /\ \/ \E r \in Request : Handle(r)
       \/ \E n \in Node : Cycle(n) /\ UNCHANGED handler
       \/ \E d \in Domain : Visit(d) /\ UNCHANGED handler
       \/ AdminTick
    /\ InPipe'

AdminSpec == AdminInit /\ [][AdminNext]_allVars

\* Handlers run on to their answers, besides the fairness of the workers, the
\* pipelines and time; nobody need send a request.
Serve(r) == apc[r] # "idle" /\ Handle(r) /\ InPipe'

FairAdminSpec ==
    /\ AdminSpec
    /\ WF_allVars(AdminTick /\ InPipe')
    /\ \A n \in Node : WF_allVars(Cycle(n) /\ UNCHANGED handler)
    /\ \A d \in Domain : WF_allVars(ExpireEnabled(d) /\ UNCHANGED handler /\ InPipe')
                        /\ WF_allVars(ListEnabled(d) /\ UNCHANGED handler /\ InPipe')
    /\ \A r \in Request : WF_allVars(Serve(r))

-----------------------------------------------------------------------------
(* Properties.                                                             *)

AdminPC == {"idle", "enable", "expireEnabled", "zadd", "expireList", "mark", "extend",
            "saveCurrent", "savePermit", "zrem", "del"}

\* A request that is under way is about a domain and on a node, and no other is.
HandlerTypeOK ==
    /\ apc \in [Request -> AdminPC]
    /\ about \in [Request -> AdminDomain \cup {NoDomain}]
    /\ server \in [Request -> Node \cup {NoServer}]
    /\ spent \in [Request -> 0..MaxCycle]
    /\ marked \in [Node -> [Domain -> 0..EnableCacheSec]]
    /\ \A r \in Request : apc[r] # "idle" => about[r] \in AdminDomain /\ server[r] \in Node

\* What an administrator leaves behind ends by itself: his requests save the
\* numbers of queues that are not listed, that a reset has just taken off the
\* list, or that their node only remembers having enabled, so that a queue is
\* on and no worker visits it.  Once he sends no more requests, each such queue
\* is listed or ends.
LeftAlone == \A r \in Request : apc[r] = "idle"

LeftQueueEnds == <>[]LeftAlone => UnlistedQueueEnds
=============================================================================
