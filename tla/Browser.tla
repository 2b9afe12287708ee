-------------------------------- MODULE Browser --------------------------------
(***************************************************************************)
(* One browser that asks for a domain in several tabs at once: requests    *)
(* that share a cookie, are under way at the same time, and whose answers  *)
(* arrive in any order.  The cookie is encoded with a key of the node that *)
(* sets it, which a node without configured keys makes up when it starts.  *)
(*                                                                         *)
(* The domain has a queue that is on and stays on, is not on the white     *)
(* list, and a permission does not end.  What the nodes have cached has no *)
(* exact age here, which is QueueCheck's: of the permit number they know a *)
(* value that is not too old, and that an ID was refused may be remembered *)
(* by any of them for a while after it has got access.                     *)
(***************************************************************************)
EXTENDS Integers, FiniteSets

CONSTANTS
    Tab,            \* the requests that may be under way at the same time
    Node,           \* the servers
    EntryDelaySec,  \* config: seconds before a client gets a serial number
    SharedKey,      \* whether the keys of the cookies are configured
    MaxFailures,    \* bound: of restarts, failing commands and lost answers together
    MaxNumber       \* bound: stands for itself and every larger number

ASSUME BrowserAssumption ==
    /\ IsFiniteSet(Tab)
    /\ EntryDelaySec \in Nat \ {0}
    /\ SharedKey \in BOOLEAN
    /\ MaxFailures \in Nat
    /\ MaxNumber \in Nat \ {0}

VARIABLES
    current,     \* Redis: <domain>_current_no
    number,      \* Redis: <domain>_permitted_no
    access,      \* Redis: the IDs that have access
    known,       \* a permit number that no node goes by less than
    refused,     \* the IDs with access that a node may remember to have none
    restarts,    \* how often a node has restarted
    failures,    \* how often a node has restarted, a command failed, an answer got lost
    jar,         \* the cookie the browser keeps
    pc,          \* the next step of the request of a tab
    at,          \* the node that serves it
    held,        \* the client the server has made of its cookie
    sets,        \* what its answer does to the cookie: keep, set or delete
    answer,      \* the answer that is on its way to a tab
    settled      \* ghost: the browser has been let in with nothing under way

tabs   == <<pc, at, held, sets, answer>>
redis  == <<current, number, access>>
caches == <<known, refused>>
faults == <<restarts, failures>>
vars   == <<redis, caches, faults, jar, tabs, settled>>

IDs == 1..(Cardinality(Tab) + 1)

NoNode == "none"

\* The key that node n encodes cookies with, and the only one it can decode.
Key(n) == IF SharedKey THEN [node |-> NoNode, start |-> 0]
                       ELSE [node |-> n, start |-> restarts[n]]

NoCookie == [id |-> 0, serial |-> 0, wait |-> 0, key |-> [node |-> NoNode, start |-> 0]]

Init ==
    /\ current = 0
    /\ number = 0
    /\ access = {}
    /\ known = 0
    /\ refused = {}
    /\ restarts = [n \in Node |-> 0]
    /\ failures = 0
    /\ jar = NoCookie
    /\ pc = [t \in Tab |-> "idle"]
    /\ at = [t \in Tab |-> NoNode]
    /\ held = [t \in Tab |-> NoCookie]
    /\ sets = [t \in Tab |-> "keep"]
    /\ answer = [t \in Tab |-> "none"]
    /\ settled = FALSE

-----------------------------------------------------------------------------
(* A request of tab t.                                                     *)

Send(t) ==
    /\ pc[t] = "idle"
    /\ pc' = [pc EXCEPT ![t] = "permitted"]
    /\ held' = [held EXCEPT ![t] = jar]
    /\ \E n \in Node : at' = [at EXCEPT ![t] = n]
    /\ UNCHANGED <<redis, caches, faults, jar, sets, answer, settled>>

\* The handler has come to answer a, which is on its way to the browser.
Reply(t, a, effect) ==
    /\ pc' = [pc EXCEPT ![t] = "reply"]
    /\ answer' = [answer EXCEPT ![t] = a]
    /\ sets' = [sets EXCEPT ![t] = effect]
    /\ at' = [at EXCEPT ![t] = NoNode]

Goto(t, p) ==
    /\ pc' = [pc EXCEPT ![t] = p]
    /\ UNCHANGED <<at, sets, answer>>

\* NewClientByContext: a cookie of another key is an error.
Decodable(t) == held[t] = NoCookie \/ held[t].key = Key(at[t])

\* Faulty variant: the cookie that cannot be decoded is left where it is.
UndecodableKept(t) ==
    /\ pc[t] = "permitted"
    /\ ~Decodable(t)
    /\ Reply(t, "error", "keep")
    /\ UNCHANGED <<redis, caches, faults, jar, held, settled>>

\* ... which also tells the browser to delete it.
Undecodable(t) ==
    /\ pc[t] = "permitted"
    /\ ~Decodable(t)
    /\ Reply(t, "error", "delete")
    /\ UNCHANGED <<redis, caches, faults, jar, held, settled>>

\* Faulty variant: only the serial number tells who is permitted.
JudgedByNumberOnly(t) ==
    /\ pc[t] = "permitted"
    /\ Decodable(t)
    /\ Goto(t, "assign")
    /\ UNCHANGED <<redis, caches, faults, jar, held, settled>>

\* IsPermittedClient: EXISTS of the ID, if there is one, unless the node remembers
\* the answer.  That an ID has access is not outdated here, that it has none may be:
\* a node remembers it even if another permits the client, or this one.
Permitted(t) ==
    /\ pc[t] = "permitted"
    /\ Decodable(t)
    /\ \/ held[t].id \in access /\ Reply(t, "in", "keep")
       \/ held[t].id \notin access \ refused /\ Goto(t, "assign")
    /\ UNCHANGED <<redis, caches, faults, jar, held, settled>>

HasSerialNumber(k) == k.id # 0 /\ k.serial # 0

CanTakeSerialNumber(k) == k.id # 0 /\ k.serial = 0 /\ k.wait = 0

InUse == {jar.id} \cup {held[u].id : u \in Tab}

\* AssignID: wait counts down to TakeSerialNumberTime, which has to be in the
\* past.  The new ID is one that neither the browser nor a request has, the least
\* of them.  Of the IDs whose cookies are gone everything is forgotten.
AssignID(t) ==
    \E i \in IDs \ InUse :
        /\ \A k \in IDs \ InUse : i <= k
        /\ held' = [held EXCEPT ![t] = [id |-> i, serial |-> 0, wait |-> EntryDelaySec + 1,
                                        key |-> Key(at[t])]]
        /\ access' = access \cap InUse
        /\ refused' = refused \cap InUse

\* Faulty variant: the cookie is saved before the serial number is assigned.
SavedTooEarly(t) ==
    LET cn == IF current < MaxNumber THEN current + 1 ELSE MaxNumber
    IN  /\ pc[t] = "assign"
        /\ \/ /\ held[t].id = 0
              /\ AssignID(t)
              /\ Reply(t, "wait", "set")
              /\ UNCHANGED current
           \/ /\ held[t].id # 0 /\ held[t].wait > 0
              /\ Reply(t, "wait", "set")
              /\ UNCHANGED <<current, held, access, refused>>
           \/ /\ CanTakeSerialNumber(held[t])
              /\ current' = cn
              /\ IF cn <= known THEN Goto(t, "permit") ELSE Reply(t, "wait", "set")
              /\ UNCHANGED <<held, access, refused>>
        /\ UNCHANGED <<number, known, faults, jar, settled>>

\* AssignSerialNumber and SaveToCookie.
AssignSerialNumber(t) ==
    LET cn == IF current < MaxNumber THEN current + 1 ELSE MaxNumber
    IN  /\ pc[t] = "assign"
        /\ \/ /\ HasSerialNumber(held[t])
              /\ Goto(t, "judge")
              /\ UNCHANGED <<current, held, access, refused>>
           \/ /\ held[t].id = 0
              /\ AssignID(t)
              /\ Reply(t, "wait", "set")
              /\ UNCHANGED current
           \/ /\ held[t].id # 0 /\ held[t].serial = 0 /\ held[t].wait > 0
              /\ Reply(t, "wait", "set")
              /\ UNCHANGED <<current, held, access, refused>>
           \/ /\ CanTakeSerialNumber(held[t])
              /\ current' = cn
              /\ held' = [held EXCEPT ![t].serial = cn]
              /\ Goto(t, "judge")
              /\ UNCHANGED <<access, refused>>
        /\ UNCHANGED <<number, known, faults, jar, settled>>

\* CheckAndPermitClient: first the permit number, as this node has cached it or
\* Redis has it; two saturated numbers compare either way.  A read that fails
\* when the remaining wait is told makes an error of the answer, with the same
\* cookie; it counts as one to wait here.
Judge(t) ==
    /\ pc[t] = "judge"
    /\ \E an \in known..number :
         \/ an >= held[t].serial /\ Goto(t, "permit")
         \/ (an < held[t].serial \/ held[t].serial = MaxNumber) /\ Reply(t, "wait", "set")
    /\ UNCHANGED <<redis, caches, faults, jar, held, settled>>

\* SETEX of the ID, which nodes may remember to have refused.
GiveAccess(i) ==
    /\ access' = access \cup {i}
    /\ refused' = refused \cup ({i} \ access)

\* ... then the access.
PermitClient(t) ==
    /\ pc[t] = "permit"
    /\ GiveAccess(held[t].id)
    /\ Reply(t, "in", "set")
    /\ UNCHANGED <<current, number, known, faults, jar, held, settled>>

\* The browser has been let in, no request is under way, and all nodes can decode
\* its cookie and have forgotten that they once refused it.
LetIn ==
    /\ jar.id \in access \ refused
    /\ \A n \in Node : jar.key = Key(n)
    /\ \A t \in Tab : pc[t] = "idle"

Settles == settled' = (settled \/ LetIn')

\* The request is over.
Done(t) ==
    /\ pc[t] = "reply"
    /\ pc' = [pc EXCEPT ![t] = "idle"]
    /\ held' = [held EXCEPT ![t] = NoCookie]
    /\ sets' = [sets EXCEPT ![t] = "keep"]
    /\ answer' = [answer EXCEPT ![t] = "none"]
    /\ UNCHANGED <<redis, caches, restarts, at>>

\* The answer reaches the browser.
Arrive(t) ==
    /\ Done(t)
    /\ jar' = CASE sets[t] = "keep" -> jar
                [] sets[t] = "set" -> held[t]
                [] sets[t] = "delete" -> NoCookie
    /\ UNCHANGED failures
    /\ Settles

Handle(t) ==
    \/ Undecodable(t) \/ Permitted(t)    \/ AssignSerialNumber(t)
    \/ Judge(t)       \/ PermitClient(t) \/ Arrive(t)

-----------------------------------------------------------------------------
(* Failures.                                                               *)

Fails == failures < MaxFailures /\ failures' = failures + 1

\* A command fails, before or after Redis has executed it: the answer is an error,
\* which sets the cookie if SaveToCookie has run.  A number that has been taken is
\* in no cookie then.
RequestFails(t) ==
    LET cn == IF current < MaxNumber THEN current + 1 ELSE MaxNumber
    IN  /\ Fails
        /\ \/ /\ pc[t] = "permitted"
              /\ Reply(t, "error", "keep")
              /\ UNCHANGED <<current, access, refused>>
           \/ /\ pc[t] = "assign" /\ CanTakeSerialNumber(held[t])
              /\ current' \in {current, cn}
              /\ Reply(t, "error", "keep")
              /\ UNCHANGED <<access, refused>>
           \/ /\ pc[t] = "judge"
              /\ Reply(t, "error", "set")
              /\ UNCHANGED <<current, access, refused>>
           \/ /\ pc[t] = "permit"
              /\ GiveAccess(held[t].id) \/ UNCHANGED <<access, refused>>
              /\ Reply(t, "error", "set")
              /\ UNCHANGED current
        /\ UNCHANGED <<number, known, restarts, jar, held, settled>>

\* The answer gets lost on its way.
Lose(t) ==
    /\ Fails
    /\ Done(t)
    /\ UNCHANGED jar
    /\ Settles

-----------------------------------------------------------------------------
(* The nodes, the workers and time.                                        *)

\* A node restarts, and makes up a new key unless one is configured.  The
\* requests it was serving fail.
Restart(n) ==
    LET served == {t \in Tab : at[t] = n}
    IN  /\ Fails
        /\ restarts' = [restarts EXCEPT ![n] = @ + 1]
        /\ pc' = [t \in Tab |-> IF t \in served THEN "idle" ELSE pc[t]]
        /\ at' = [t \in Tab |-> IF t \in served THEN NoNode ELSE at[t]]
        /\ held' = [t \in Tab |-> IF t \in served THEN NoCookie ELSE held[t]]
        /\ settled' = (settled /\ SharedKey)
        /\ UNCHANGED <<redis, caches, jar, sets, answer>>

\* A worker permits one more client.  The permit number is only compared with
\* numbers that have been taken, so it need not run ahead of them here.
Grant ==
    /\ number < current
    /\ number' = number + 1
    /\ UNCHANGED <<current, access, caches, faults, jar, tabs, settled>>

\* The number cached before this one was permitted is too old, on every node.
Refresh ==
    /\ known < number
    /\ known' = known + 1
    /\ UNCHANGED <<redis, refused, faults, jar, tabs, settled>>

\* What was cached of an ID before it got access is too old, on every node.
Forget(i) ==
    /\ i \in refused
    /\ refused' = refused \ {i}
    /\ UNCHANGED <<redis, known, faults, jar, tabs>>
    /\ Settles

Waiting == jar.wait > 0 \/ \E t \in Tab : held[t].wait > 0

Tick ==
    LET Aged(k) == [k EXCEPT !.wait = IF @ > 0 THEN @ - 1 ELSE 0]
    IN  /\ Waiting
        /\ jar' = Aged(jar)
        /\ held' = [t \in Tab |-> Aged(held[t])]
        /\ UNCHANGED <<redis, caches, faults, pc, at, sets, answer, settled>>

Next ==
    \/ \E t \in Tab : Send(t) \/ Handle(t) \/ RequestFails(t) \/ Lose(t)
    \/ \E n \in Node : Restart(n)
    \/ \E i \in IDs : Forget(i)
    \/ Grant
    \/ Refresh
    \/ Tick

Spec == Init /\ [][Next]_vars

\* The tabs keep asking, handlers run, answers arrive, workers permit, and what
\* is cached gets too old to be used.
Fairness ==
    /\ \A t \in Tab : WF_vars(Send(t)) /\ WF_vars(Handle(t))
    /\ WF_vars(Grant) /\ WF_vars(Refresh)
    /\ \A i \in IDs : WF_vars(Forget(i))
    /\ WF_vars(Tick)

FairSpec == Spec /\ Fairness

-----------------------------------------------------------------------------
(* Properties.                                                             *)

Cookie == [id : Nat, serial : Nat, wait : Nat, key : [node : Node \cup {NoNode}, start : Nat]]

\* Who is judged has an ID and a serial number, and no request is without a
\* node until its answer is on its way.
TypeOK ==
    /\ current \in 0..MaxNumber /\ number \in 0..current /\ known \in 0..number
    /\ refused \subseteq access
    /\ restarts \in [Node -> Nat] /\ failures \in Nat
    /\ jar \in Cookie /\ held \in [Tab -> Cookie]
    /\ pc \in [Tab -> {"idle", "permitted", "assign", "judge", "permit", "reply"}]
    /\ at \in [Tab -> Node \cup {NoNode}]
    /\ sets \in [Tab -> {"keep", "set", "delete"}]
    /\ answer \in [Tab -> {"none", "in", "wait", "error"}]
    /\ settled \in BOOLEAN
    /\ \A t \in Tab :
         /\ pc[t] \in {"permitted", "assign", "judge", "permit"} => at[t] \in Node
         /\ pc[t] \in {"judge", "permit"} => HasSerialNumber(held[t])

\* Every tab is let in again and again, however their answers overwrite each
\* other's cookies, whatever nodes remember of refusals and permit numbers, and
\* although a restart makes the cookie undecodable.
EveryTabGetsIn == \A t \in Tab : []<>(answer[t] = "in")

\* A cookie that one node sets can be decoded by all.
OneKey == SharedKey \/ \A m, n \in Node : m = n

\* A browser takes few numbers: each one it takes and does not use delays all
\* who come after it.  Tabs that take a number each, and answers without a serial
\* number that arrive late and make the browser forget one it has, make no more
\* than 1, 4 and 10 of them for one, two and three tabs.  That is so as long as its
\* cookies have one key, no node restarts, no command fails and no answer gets
\* lost: a cookie that cannot be decoded is deleted, and its number with it, and a
\* number whose request comes to nothing is in no cookie.
FewNumbers ==
    LET tabCount == Cardinality(Tab)
    IN  OneKey /\ failures = 0 =>
            current <= (tabCount * (tabCount + 1) * (tabCount + 2)) \div 6

\* Once it has been let in, no other request is under way and no node remembers
\* that it once refused the ID, no tab of the browser is told to wait again.
\* Before that one may be: by a node that goes by its refusal and an older permit
\* number, as late answers may make it forget the serial number.
StaysIn ==
    [][settled /\ settled' =>
         \A t \in Tab : answer'[t] = "wait" => answer[t] = "wait"]_vars
=============================================================================
