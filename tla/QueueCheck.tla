------------------------------ MODULE QueueCheck ------------------------------
(***************************************************************************)
(* The requests: api.queueHandler.Check on several nodes, with the cookies *)
(* of the clients and the in-memory caches of each node.  A step is one    *)
(* Redis command or what follows it up to the next, so requests of several *)
(* clients on one node interleave between a read and the caching of what   *)
(* was read.                                                               *)
(*                                                                         *)
(* The permit number is the one of PermitPacer, which the permit workers   *)
(* implement (PermitWorker): this module adds the requests, the current    *)
(* number, and the keys of permitted clients.  A Redis key that expires is *)
(* a key that may vanish at any Tick.                                      *)
(***************************************************************************)
EXTENDS PermitPacer, RemainingWait

CONSTANTS
    Node,                \* the servers
    Client,              \* browsers, each with one cookie for one domain
    Host,                \* Host[c]: the domain client c asks for
    QueueEnableSec,      \* config: how long an enabled queue lives
    CacheTTLSec,         \* config: TTL of a cached answer
    NegativeCacheTTLSec, \* config: TTL of a cached "no"
    EntryDelaySec,       \* config: seconds before a client gets a serial number
    PermittedAccessSec,  \* config: how long a permitted client has access
    MaxRequest,          \* assumption: no request lasts longer than this
    Resettable,          \* the domains whose queues may be reset
    Racing,              \* those where a worker acts on numbers it read too early
    Expiring,            \* the domains whose keys may expire
    WhiteListable,       \* the domains the administrator may put on the white list
    Faulty,              \* whether commands fail, nodes restart, answers get lost
    Horizon,             \* bound: ages are counted up to here
    MaxTold              \* bound: remaining waits are told up to here

ASSUME CheckAssumption ==
    /\ Unit \in Nat \ {0} /\ Interval \in Nat \ {0} /\ Jitter \in Nat
    /\ MaxNumber \in Nat \ {0}
    /\ Host \in [Client -> Domain]
    /\ QueueEnableSec \in Nat \ {0}
    \* The tags of config.go: what is cached is not older than the interval.
    /\ CacheTTLSec \in 1..Interval /\ NegativeCacheTTLSec \in 1..Interval
    /\ EntryDelaySec \in Nat \ {0}
    /\ PermittedAccessSec \in Nat \ {0}
    /\ MaxRequest \in Nat
    /\ Resettable \subseteq Domain /\ Racing \subseteq Resettable
    /\ Expiring \subseteq Domain
    /\ WhiteListable \subseteq Domain
    /\ Faulty \in BOOLEAN
    /\ Horizon \in Nat /\ MaxTold \in Nat

VARIABLES
    current,     \* Redis: <domain>_current_no, 0 when there is no such key
    access,      \* Redis: seconds left of the key of a client's ID
    whiteList,   \* Redis: the white list
    enableCache, \* per node and domain: seconds left of "EnableQueue has run"
    permitCache, \* per node and domain: a permit number and its seconds left
    clientCache, \* per node and client: a permission and its seconds left
    whiteCache,  \* per node and domain: being on the white list, seconds left
    cookie,      \* what the browser of a client keeps
    held,        \* the server's copy of it while a request is under way
    pc,          \* the next step of the request of a client
    at,          \* the node that serves it
    got,         \* what it has read and not yet cached
    busy,        \* seconds it has taken
    answer,      \* the last answer a client was sent
    told,        \* seconds left of the remaining wait it was told last
    ago,         \* ghost: ago[d][v], seconds since the permit number was v
    lapsed,      \* ghost: seconds since a client had access
    stale        \* ghost: clients whose serial number is of an earlier numbering

redis   == <<number, credit, current, access, whiteList>>
caches  == <<enableCache, permitCache, clientCache, whiteCache>>
request == <<cookie, held, pc, at, got, busy, answer, told>>
ghosts  == <<ago, lapsed, stale>>
vars    == <<redis, caches, request, ghosts>>

NoCookie == [id |-> FALSE, serial |-> 0, wait |-> 0]
Nothing  == -2      \* got: nothing read
NoNode   == "none"  \* at: no request under way
NoEntry  == [val |-> Nothing, ttl |-> 0]

\* ttlcache takes a TTL of zero for the cache's own, which is CacheTTLSec.
EnableCacheSec == IF QueueEnableSec \div 2 = 0 THEN CacheTTLSec ELSE QueueEnableSec \div 2

Init ==
    /\ PacerInit
    /\ current = [d \in Domain |-> 0]
    /\ access = [c \in Client |-> 0]
    /\ whiteList = {}
    /\ enableCache = [n \in Node |-> [d \in Domain |-> 0]]
    /\ permitCache = [n \in Node |-> [d \in Domain |-> NoEntry]]
    /\ clientCache = [n \in Node |-> [c \in Client |-> NoEntry]]
    /\ whiteCache = [n \in Node |-> [d \in Domain |-> NoEntry]]
    /\ cookie = [c \in Client |-> NoCookie]
    /\ held = [c \in Client |-> NoCookie]
    /\ pc = [c \in Client |-> "idle"]
    /\ at = [c \in Client |-> NoNode]
    /\ got = [c \in Client |-> Nothing]
    /\ busy = [c \in Client |-> 0]
    /\ answer = [c \in Client |-> "none"]
    /\ told = [c \in Client |-> 0]
    /\ ago = [d \in Domain |-> [v \in Off..MaxNumber |-> IF v = Off THEN 0 ELSE Horizon]]
    /\ lapsed = [c \in Client |-> Horizon]
    /\ stale = {}

-----------------------------------------------------------------------------
(* The frame of a request.                                                 *)

\* AssignID: from then on wait counts down to TakeSerialNumberTime, which has
\* to be in the past.
AssignID == [id |-> TRUE, serial |-> 0, wait |-> EntryDelaySec + 1]

HasSerialNumber(k) == k.id /\ k.serial # 0

CanTakeSerialNumber(k) == k.id /\ k.serial = 0 /\ k.wait = 0

\* The request goes on with step p.
Goto(c, p) ==
    /\ pc' = [pc EXCEPT ![c] = p]
    /\ got' = [got EXCEPT ![c] = Nothing]
    /\ UNCHANGED <<cookie, at, busy, answer, told>>

\* It has read v, which it caches next.
Read(c, v) ==
    /\ got' = [got EXCEPT ![c] = v]
    /\ UNCHANGED <<cookie, held, pc, at, busy, answer, told>>

\* SaveToCookie has run: the response will set the cookie.
Saved(c) == pc[c] \in {"judge", "permit", "remaining"}

\* The handler returns answer a with a remaining wait: the browser stores the
\* cookie, if the response has one, and shows the wait, or the response is lost.
Respond(c, a, wait) ==
    /\ \/ /\ cookie' = [cookie EXCEPT ![c] = IF Saved(c) THEN held[c] ELSE @]
          /\ told' = [told EXCEPT ![c] = wait]
       \/ Faulty /\ UNCHANGED <<cookie, told>>
    /\ pc' = [pc EXCEPT ![c] = "idle"]
    /\ answer' = [answer EXCEPT ![c] = a]
    /\ held' = [held EXCEPT ![c] = NoCookie]
    /\ got' = [got EXCEPT ![c] = Nothing]
    /\ busy' = [busy EXCEPT ![c] = 0]
    /\ at' = [at EXCEPT ![c] = NoNode]

\* An answer without a remaining wait: the client remembers the last one.
Answer(c, a) == Respond(c, a, told[c])

\* A client asks a node, to enable the queue or only to check.
Send(c, n, enable) ==
    /\ pc[c] = "idle"
    /\ pc' = [pc EXCEPT ![c] = IF enable THEN "enable" ELSE "isEnabled"]
    /\ at' = [at EXCEPT ![c] = n]
    /\ held' = [held EXCEPT ![c] = cookie[c]]
    /\ answer' = [answer EXCEPT ![c] = "none"]
    /\ UNCHANGED <<redis, caches, ghosts, cookie, got, busy, told>>

-----------------------------------------------------------------------------
(* Caches.                                                                 *)

Hit(entry) == entry.ttl > 0

Entry(v, positive) ==
    [val |-> v, ttl |-> IF positive THEN CacheTTLSec ELSE NegativeCacheTTLSec]

Aged(entry) == IF entry.ttl > 1 THEN [entry EXCEPT !.ttl = @ - 1] ELSE NoEntry

\* ago when the permit number of a domain changes.
Remember == ago' = [d \in Domain |-> [v \in Off..MaxNumber |->
                        IF number'[d] = v THEN 0 ELSE ago[d][v]]]

-----------------------------------------------------------------------------
(* Faulty variants of steps below, each a mistake one could make in the    *)
(* code.  No specification uses them: a property is worth checking when    *)
(* TLC finds it violated with one of them in place of the step.            *)

\* The INCR is a GET and a SET.
AssignByGetAndSet(c) ==
    LET d  == Host[c]
        cn == IF got[c] < MaxNumber THEN got[c] + 1 ELSE MaxNumber
    IN  /\ pc[c] = "assign"
        /\ \/ /\ HasSerialNumber(held[c])
              /\ Goto(c, "judge")
              /\ UNCHANGED <<held, current, stale>>
           \/ /\ ~held[c].id
              /\ held' = [held EXCEPT ![c] = AssignID]
              /\ Goto(c, "remaining")
              /\ UNCHANGED <<current, stale>>
           \/ /\ held[c].id /\ held[c].serial = 0 /\ got[c] = Nothing
              /\ Read(c, current[d])
              /\ UNCHANGED <<current, stale>>
           \/ /\ held[c].id /\ held[c].serial = 0 /\ got[c] # Nothing
              /\ current' = [current EXCEPT ![d] = cn]
              /\ held' = [held EXCEPT ![c].serial = cn]
              /\ stale' = stale \ {c}
              /\ Goto(c, "judge")
        /\ UNCHANGED <<number, credit, access, whiteList, caches, ago, lapsed>>

\* Who has no serial number gets an ID, even who has one.
AssignAnotherID(c) ==
    /\ pc[c] = "assign"
    /\ \/ /\ HasSerialNumber(held[c])
          /\ Goto(c, "judge")
          /\ UNCHANGED held
       \/ /\ held[c].serial = 0
          /\ held' = [held EXCEPT ![c] = AssignID]
          /\ Goto(c, "remaining")
    /\ UNCHANGED <<redis, caches, ghosts>>

\* A client gets its serial number with its first request.
AssignAtOnce(c) ==
    LET d  == Host[c]
        cn == IF current[d] < MaxNumber THEN current[d] + 1 ELSE MaxNumber
    IN  /\ pc[c] = "assign"
        /\ current' = [current EXCEPT ![d] = cn]
        /\ held' = [held EXCEPT ![c].serial = cn]
        /\ Goto(c, "judge")
        /\ UNCHANGED <<number, credit, access, whiteList, caches, ghosts>>

-----------------------------------------------------------------------------
(* Steps of a request of client c for domain Host[c] on node at[c].        *)

\* EnableQueue, unless this node has run it lately.
SkipEnable(c) ==
    /\ pc[c] = "enable"
    /\ enableCache[at[c]][Host[c]] > 0
    /\ Goto(c, "whiteList")
    /\ UNCHANGED <<redis, caches, held, ghosts>>

EnableDomain(c) ==
    LET d == Host[c]
    IN  /\ pc[c] = "enable"
        /\ enableCache[at[c]][d] = 0
        /\ IF number[d] = Off THEN Open(d) ELSE UNCHANGED <<number, credit>>
        /\ Goto(c, "enabled")
        /\ Remember
        /\ UNCHANGED <<current, access, whiteList, caches, held, lapsed, stale>>

\* flushCache, then the mark that keeps this node from enabling again.
MarkEnabled(c) ==
    /\ pc[c] = "enabled"
    /\ permitCache' = [permitCache EXCEPT ![at[c]][Host[c]] = NoEntry]
    /\ enableCache' = [enableCache EXCEPT ![at[c]][Host[c]] = EnableCacheSec]
    /\ Goto(c, "whiteList")
    /\ UNCHANGED <<redis, clientCache, whiteCache, held, ghosts>>

\* What follows currentPermitedNumber when it returns an: IsEnabledQueue,
\* CheckAndPermitClient or CalcRemainingWaitSecond.  Two saturated numbers
\* compare either way.
WithNumber(c, an) ==
    \/ /\ pc[c] = "isEnabled" /\ an # Off
       /\ Goto(c, "whiteList")
       /\ UNCHANGED held
    \/ /\ pc[c] = "isEnabled" /\ an = Off
       /\ Answer(c, "off")
    \/ /\ pc[c] = "judge" /\ an >= held[c].serial
       /\ Goto(c, "permit")
       /\ UNCHANGED held
    \/ /\ pc[c] = "judge" /\ (an < held[c].serial \/ held[c].serial = MaxNumber)
       /\ Goto(c, "remaining")
       /\ UNCHANGED held
    \/ /\ pc[c] = "remaining"
       /\ LET wait == CalcRemainingWaitSecond(held[c].serial, an, Unit, Interval)
          IN  Respond(c, "wait", IF wait > MaxTold THEN MaxTold ELSE wait)

UsesNumber == {"isEnabled", "judge", "remaining"}

\* Faulty variant: the cache keeps an entry alive as long as it is asked for.
CachedNumberTouches(c) ==
    LET entry == permitCache[at[c]][Host[c]]
    IN  /\ pc[c] \in UsesNumber /\ got[c] = Nothing
        /\ Hit(entry)
        /\ permitCache' = [permitCache EXCEPT ![at[c]][Host[c]] =
                              Entry(entry.val, entry.val # Off)]
        /\ WithNumber(c, entry.val)
        /\ UNCHANGED <<redis, enableCache, clientCache, whiteCache, ghosts>>

CachedNumber(c) ==
    LET entry == permitCache[at[c]][Host[c]]
    IN  /\ pc[c] \in UsesNumber /\ got[c] = Nothing
        /\ Hit(entry)
        /\ WithNumber(c, entry.val)
        /\ UNCHANGED <<redis, caches, ghosts>>

GetNumber(c) ==
    /\ pc[c] \in UsesNumber /\ got[c] = Nothing
    /\ ~Hit(permitCache[at[c]][Host[c]])
    /\ Read(c, number[Host[c]])
    /\ UNCHANGED <<redis, caches, ghosts>>

\* Faulty variant: that there is no queue is cached as long as a number.
CacheNumberAlike(c) ==
    /\ pc[c] \in UsesNumber /\ got[c] # Nothing
    /\ permitCache' = [permitCache EXCEPT ![at[c]][Host[c]] = Entry(got[c], TRUE)]
    /\ WithNumber(c, got[c])
    /\ UNCHANGED <<redis, enableCache, clientCache, whiteCache, ghosts>>

CacheNumber(c) ==
    /\ pc[c] \in UsesNumber /\ got[c] # Nothing
    /\ permitCache' = [permitCache EXCEPT ![at[c]][Host[c]] = Entry(got[c], got[c] # Off)]
    /\ WithNumber(c, got[c])
    /\ UNCHANGED <<redis, enableCache, clientCache, whiteCache, ghosts>>

\* IsInWhitelist.  Nothing deletes entries of this cache, so the read and the
\* caching of what was read are one step.
CheckWhiteList(c) ==
    LET entry  == whiteCache[at[c]][Host[c]]
        listed == IF Hit(entry) THEN entry.val = 1 ELSE Host[c] \in whiteList
    IN  /\ pc[c] = "whiteList"
        /\ \/ /\ listed
              /\ Answer(c, "white")
           \/ /\ ~listed
              /\ Goto(c, IF held[c].id THEN "permitted" ELSE "assign")
              /\ UNCHANGED held
        /\ whiteCache' = IF Hit(entry) THEN whiteCache
                         ELSE [whiteCache EXCEPT ![at[c]][Host[c]] =
                                 Entry(IF listed THEN 1 ELSE 0, listed)]
        /\ UNCHANGED <<redis, enableCache, permitCache, clientCache, ghosts>>

\* What follows IsPermittedClient.
WithPermission(c, ok) ==
    \/ ok = 1 /\ Answer(c, "in")
    \/ ok = 0 /\ Goto(c, "assign") /\ UNCHANGED held

\* Faulty variant: a permission stays cached as long as the client asks.
CachedPermissionTouches(c) ==
    LET entry == clientCache[at[c]][c]
    IN  /\ pc[c] = "permitted" /\ got[c] = Nothing
        /\ Hit(entry)
        /\ clientCache' = [clientCache EXCEPT ![at[c]][c] = Entry(entry.val, entry.val = 1)]
        /\ WithPermission(c, entry.val)
        /\ UNCHANGED <<redis, enableCache, permitCache, whiteCache, ghosts>>

CachedPermission(c) ==
    LET entry == clientCache[at[c]][c]
    IN  /\ pc[c] = "permitted" /\ got[c] = Nothing
        /\ Hit(entry)
        /\ WithPermission(c, entry.val)
        /\ UNCHANGED <<redis, caches, ghosts>>

GetPermission(c) ==
    /\ pc[c] = "permitted" /\ got[c] = Nothing
    /\ ~Hit(clientCache[at[c]][c])
    /\ Read(c, IF access[c] > 0 THEN 1 ELSE 0)
    /\ UNCHANGED <<redis, caches, ghosts>>

CachePermission(c) ==
    /\ pc[c] = "permitted" /\ got[c] # Nothing
    /\ clientCache' = [clientCache EXCEPT ![at[c]][c] = Entry(got[c], got[c] = 1)]
    /\ WithPermission(c, got[c])
    /\ UNCHANGED <<redis, enableCache, permitCache, whiteCache, ghosts>>

\* AssignSerialNumber and SaveToCookie: an ID first, and a serial number once
\* the entry delay is over.
AssignSerialNumber(c) ==
    LET d  == Host[c]
        cn == IF current[d] < MaxNumber THEN current[d] + 1 ELSE MaxNumber
    IN  /\ pc[c] = "assign"
        /\ \/ /\ HasSerialNumber(held[c])
              /\ Goto(c, "judge")
              /\ UNCHANGED <<held, current, stale>>
           \/ /\ ~held[c].id
              /\ held' = [held EXCEPT ![c] = AssignID]
              /\ Goto(c, "remaining")
              /\ UNCHANGED <<current, stale>>
           \/ /\ held[c].id /\ held[c].serial = 0 /\ held[c].wait > 0
              /\ Goto(c, "remaining")
              /\ UNCHANGED <<held, current, stale>>
           \/ /\ CanTakeSerialNumber(held[c])
              /\ current' = [current EXCEPT ![d] = cn]
              /\ held' = [held EXCEPT ![c].serial = cn]
              /\ stale' = stale \ {c}
              /\ Goto(c, "judge")
        /\ UNCHANGED <<number, credit, access, whiteList, caches, ago, lapsed>>

PermitClient(c) ==
    /\ pc[c] = "permit"
    /\ access' = [access EXCEPT ![c] = PermittedAccessSec]
    /\ lapsed' = [lapsed EXCEPT ![c] = 0]
    /\ Answer(c, "in")
    /\ UNCHANGED <<number, credit, current, whiteList, caches, ago, stale>>

Check(c) ==
    \/ SkipEnable(c)       \/ EnableDomain(c)     \/ MarkEnabled(c)
    \/ CachedNumber(c)     \/ GetNumber(c)        \/ CacheNumber(c)
    \/ CheckWhiteList(c)   \/ CachedPermission(c) \/ GetPermission(c)
    \/ CachePermission(c)  \/ AssignSerialNumber(c)
    \/ PermitClient(c)

-----------------------------------------------------------------------------
(* Failures.                                                               *)

\* A command fails, before or after Redis has executed it: the handler
\* returns the error.
RequestFails(c) ==
    /\ Faulty
    /\ pc[c] # "idle"
    /\ Answer(c, "error")
    /\ UNCHANGED <<redis, caches, ghosts>>

\* A node restarts: its caches are empty and its requests are gone.
Restart(n) ==
    LET served == {c \in Client : at[c] = n}
    IN  /\ Faulty
        /\ enableCache' = [enableCache EXCEPT ![n] = [d \in Domain |-> 0]]
        /\ permitCache' = [permitCache EXCEPT ![n] = [d \in Domain |-> NoEntry]]
        /\ clientCache' = [clientCache EXCEPT ![n] = [c \in Client |-> NoEntry]]
        /\ whiteCache' = [whiteCache EXCEPT ![n] = [d \in Domain |-> NoEntry]]
        /\ pc' = [c \in Client |-> IF c \in served THEN "idle" ELSE pc[c]]
        /\ answer' = [c \in Client |-> IF c \in served THEN "error" ELSE answer[c]]
        /\ held' = [c \in Client |-> IF c \in served THEN NoCookie ELSE held[c]]
        /\ got' = [c \in Client |-> IF c \in served THEN Nothing ELSE got[c]]
        /\ busy' = [c \in Client |-> IF c \in served THEN 0 ELSE busy[c]]
        /\ at' = [c \in Client |-> IF c \in served THEN NoNode ELSE at[c]]
        /\ UNCHANGED <<redis, cookie, told, ghosts>>

\* A cookie expires or is deleted.  The next one has a new ID, for which
\* neither Redis nor a cache knows anything.
ForgetCookie(c) ==
    /\ Faulty
    /\ pc[c] = "idle" /\ cookie[c] # NoCookie
    /\ cookie' = [cookie EXCEPT ![c] = NoCookie]
    /\ access' = [access EXCEPT ![c] = 0]
    /\ clientCache' = [n \in Node |-> [clientCache[n] EXCEPT ![c] = NoEntry]]
    /\ lapsed' = [lapsed EXCEPT ![c] = Horizon]
    /\ stale' = stale \ {c}
    /\ answer' = [answer EXCEPT ![c] = "none"]
    /\ told' = [told EXCEPT ![c] = 0]
    /\ UNCHANGED <<number, credit, current, whiteList, enableCache, permitCache, whiteCache,
                   held, pc, at, got, busy, ago>>

-----------------------------------------------------------------------------
(* The workers, the administrator and time.                                *)

\* The serial numbers of these domains start again.
Renumbered(ds) ==
    stale' = stale \cup {c \in Client : Host[c] \in ds
                            /\ (cookie[c].serial # 0 \/ held[c].serial # 0)}

\* A worker permits one more unit; without a current number it gives up,
\* unless the numbers are deleted after it has read them.
WorkerGrants(d) ==
    /\ (number[d] # Off /\ current[d] > 0) \/ d \in Racing
    /\ Grant(d)
    /\ Remember
    /\ UNCHANGED <<current, access, whiteList, caches, request, lapsed, stale>>

\* A worker resets a queue whose permit number is gone, or whose clients are
\* all permitted, or were when it read the numbers; the administrator any.
Reset(d) ==
    /\ d \in Resettable
    /\ number[d] = Off \/ current[d] \in 1..number[d] \/ d \in Racing
    /\ Close(d)
    /\ current' = [current EXCEPT ![d] = 0]
    /\ Renumbered({d})
    /\ Remember
    /\ UNCHANGED <<access, whiteList, caches, request, lapsed>>

\* UpdateQueues.
AdminUpdate(d) ==
    /\ Assign(d)
    /\ \E v \in 0..MaxNumber : current' = [current EXCEPT ![d] = v]
    /\ Renumbered({d})
    /\ Remember
    /\ UNCHANGED <<access, whiteList, caches, request, lapsed>>

\* AddWhiteListDomain and RemoveWhiteListDomain.
AdminWhiteList(d) ==
    /\ whiteList' = IF d \in whiteList THEN whiteList \ {d} ELSE whiteList \cup {d}
    /\ UNCHANGED <<number, credit, current, access, caches, request, ghosts>>

\* One second passes, and keys may expire with it.
Tick ==
    /\ \A c \in Client : pc[c] # "idle" => busy[c] < MaxRequest
    /\ PacerTick
    /\ \A d \in Domain \ Expiring : number'[d] = number[d]
    /\ \E gone \in SUBSET Expiring :
         /\ current' = [d \in Domain |-> IF d \in gone THEN 0 ELSE current[d]]
         /\ Renumbered(gone)
    /\ access' = [c \in Client |-> IF access[c] > 0 THEN access[c] - 1 ELSE 0]
    /\ enableCache' = [n \in Node |-> [d \in Domain |->
                         IF enableCache[n][d] > 0 THEN enableCache[n][d] - 1 ELSE 0]]
    /\ permitCache' = [n \in Node |-> [d \in Domain |-> Aged(permitCache[n][d])]]
    /\ clientCache' = [n \in Node |-> [c \in Client |-> Aged(clientCache[n][c])]]
    /\ whiteCache' = [n \in Node |-> [d \in Domain |-> Aged(whiteCache[n][d])]]
    /\ cookie' = [c \in Client |-> [cookie[c] EXCEPT !.wait = IF @ > 0 THEN @ - 1 ELSE 0]]
    /\ held' = [c \in Client |-> [held[c] EXCEPT !.wait = IF @ > 0 THEN @ - 1 ELSE 0]]
    /\ busy' = [c \in Client |-> IF pc[c] = "idle" THEN 0 ELSE busy[c] + 1]
    /\ told' = [c \in Client |-> IF told[c] > 0 THEN told[c] - 1 ELSE 0]
    /\ ago' = [d \in Domain |-> [v \in Off..MaxNumber |->
                  IF number'[d] = v THEN 0
                  ELSE IF ago[d][v] < Horizon THEN ago[d][v] + 1 ELSE Horizon]]
    /\ lapsed' = [c \in Client |->
                    IF access'[c] > 0 THEN 0
                    ELSE IF lapsed[c] < Horizon THEN lapsed[c] + 1 ELSE Horizon]
    /\ UNCHANGED <<whiteList, pc, at, got, answer>>

Next ==
    \/ \E c \in Client :
         \/ \E n \in Node, enable \in BOOLEAN : Send(c, n, enable)
         \/ Check(c)
         \/ RequestFails(c)
         \/ ForgetCookie(c)
    \/ \E n \in Node : Restart(n)
    \/ \E d \in Domain : WorkerGrants(d) \/ Reset(d)
    \/ \E d \in Manual : AdminUpdate(d)
    \/ \E d \in WhiteListable : AdminWhiteList(d)
    \/ Tick

Spec == Init /\ [][Next]_vars

\* Handlers run, clients poll, workers permit and time passes.
Fairness ==
    /\ WF_vars(Tick)
    /\ \A d \in Domain \ Racing : WF_vars(WorkerGrants(d))
    /\ \A c \in Client :
         /\ WF_vars(Check(c))
         /\ WF_vars(\E n \in Node, enable \in BOOLEAN : Send(c, n, enable))

FairSpec == Spec /\ Fairness

-----------------------------------------------------------------------------
(* Properties.                                                             *)

Steps == {"idle", "enable", "enabled", "isEnabled", "whiteList", "permitted", "assign",
          "judge", "permit", "remaining"}

Cookie == [id : BOOLEAN, serial : 0..MaxNumber, wait : 0..(EntryDelaySec + 1)]

RedisType ==
    /\ number \in [Domain -> Off..MaxNumber] /\ credit \in [Domain -> 0..(Interval + Jitter)]
    /\ current \in [Domain -> 0..MaxNumber]
    /\ access \in [Client -> 0..PermittedAccessSec]
    /\ whiteList \in SUBSET Domain

CacheType ==
    /\ enableCache \in [Node -> [Domain -> 0..EnableCacheSec]]
    /\ permitCache \in [Node -> [Domain -> [val : Nothing..MaxNumber, ttl : Nat]]]
    /\ clientCache \in [Node -> [Client -> [val : {Nothing, 0, 1}, ttl : Nat]]]
    /\ whiteCache \in [Node -> [Domain -> [val : {Nothing, 0, 1}, ttl : Nat]]]

\* What the code relies on without checking it: who is judged has a serial
\* number, and only who has an ID has one.
RequestType ==
    /\ cookie \in [Client -> Cookie] /\ held \in [Client -> Cookie]
    /\ pc \in [Client -> Steps] /\ at \in [Client -> Node \cup {NoNode}]
    /\ got \in [Client -> Nothing..MaxNumber] /\ busy \in [Client -> 0..MaxRequest]
    /\ told \in [Client -> 0..MaxTold]
    /\ answer \in [Client -> {"none", "off", "white", "in", "wait", "error"}]
    /\ \A c \in Client :
         /\ pc[c] # "idle" => at[c] \in Node
         /\ pc[c] = "permitted" => got[c] \in {Nothing, 0, 1}
         /\ pc[c] \in {"judge", "permit"} => held[c].serial # 0
         /\ cookie[c].serial # 0 => cookie[c].id
         /\ held[c].serial # 0 => held[c].id

GhostType ==
    /\ ago \in [Domain -> [Off..MaxNumber -> 0..Horizon]]
    /\ lapsed \in [Client -> 0..Horizon] /\ stale \in SUBSET Client

TypeOK == RedisType /\ CacheType /\ RequestType /\ GhostType

\* A client is permitted because of a permit number that reached its serial
\* number: the number may be cached, but it was the stored one less
\* than CacheTTLSec and two requests ago.
AdmissionFresh ==
    \A c \in Client : pc[c] = "permit" =>
        \E v \in held[c].serial..MaxNumber :
            ago[Host[c]][v] < CacheTTLSec + MaxRequest + busy[c]

\* A client is let through without a permission only while its domain has no
\* queue, or had none less than NegativeCacheTTLSec and one request ago.
LetThroughFresh ==
    [][\A c \in Client : pc[c] = "isEnabled" /\ answer'[c] = "off" =>
          ago[Host[c]][Off] < NegativeCacheTTLSec + MaxRequest]_vars

\* Access ends: a client is taken for permitted less than CacheTTLSec and
\* one request after its key has expired.
AccessFresh ==
    [][\A c \in Client : pc[c] = "permitted" /\ answer'[c] = "in" =>
          lapsed[c] < CacheTTLSec + MaxRequest]_vars

\* Nobody is told to wait much longer than necessary: who is let in before the
\* time it was told is over is early by less than the interval whose beginning
\* its unit came at, the seconds an earlier unit of its wait was late by, one
\* interval more for the -1 of a queue that is off, and the age of the number it
\* was told from.  It does not matter how often the queue ended in between, or by
\* which node each number was cached.  Excepted are numbers set by hand, and
\* who is let in by a cached number that the queue has lost: its wait was told
\* from the one the queue has now.
ToldWaitKept ==
    \A c \in Client :
        pc[c] = "permit" /\ Host[c] \notin Manual /\ number[Host[c]] >= held[c].serial =>
            told[c] < 2 * Interval + Jitter + NegativeCacheTTLSec + MaxRequest

Serials(c) == {cookie[c].serial, held[c].serial} \ {0}

\* No two clients hold the same serial number of one numbering, and none
\* holds a number that has not been handed out.
SerialsUnique ==
    \A a, b \in Client \ stale :
        \A s \in Serials(a) \cap Serials(b) :
            Host[a] = Host[b] /\ s < MaxNumber => a = b /\ s <= current[Host[a]]

\* A client that keeps asking gets in, once it has a cookie.
ClientGetsIn ==
    \A c \in Client : cookie[c].id ~> answer[c] \in {"in", "off", "white"}

\* A request to enable the queue leaves an enabled queue behind.
EnableTakesEffect == [][\A c \in Client : SkipEnable(c) => number[Host[c]] # Off]_vars
=============================================================================
