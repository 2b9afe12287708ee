----------------------------- MODULE PermitWorker -----------------------------
(***************************************************************************)
(* The permit worker: every node runs AccessController.Do, sleeps          *)
(* PermitIntervalSec seconds and runs it again.  A cycle visits the listed *)
(* domains in order; each step below is one Redis command of one node, so  *)
(* the cycles of several nodes, the requests that enable a queue or take a *)
(* number, the administrator and the expiry of keys interleave between any *)
(* two commands.                                                           *)
(***************************************************************************)
EXTENDS RedisStore, FiniteSets

CONSTANTS
    Node,                \* the servers; each has one worker goroutine
    CacheTTLSec,         \* config: TTL of a cached answer
    NegativeCacheTTLSec, \* config: TTL of a cached "not enabled"
    MaxCycle,            \* bound: no cycle lasts longer than this
    MaxPipes,            \* bound: stages of a domain's pipelines with a request in them
    AdminDomain,         \* the domains the administrator changes by hand
    Faults               \* which failures may happen

\* Config validation (gtefield) makes the interval at least both cache TTLs.
ASSUME WorkerAssumption ==
    /\ CacheTTLSec \in 1..PermitIntervalSec
    /\ NegativeCacheTTLSec \in 1..PermitIntervalSec
    /\ MaxCycle \in 0..PermitIntervalSec
    /\ MaxPipes \in Nat \ {0}
    /\ AdminDomain \subseteq Domain
    /\ Faults \subseteq {"error", "crash", "retry", "cut"}

\* What a lock with a TTL cannot do without, and nothing in the code ensures:
\* a worker is done before its lock expires.
Punctual == MaxCycle < PermitIntervalSec

VARIABLES
    pc,     \* the command a node issues next
    dom,    \* the domain it works on
    todo,   \* the domains of this cycle still to visit
    seen,   \* an, ttl and cn of Waitingroom.AppendPermitNumber
    cache,  \* the worker's currentPermitNumberCache: num >= 0, and its TTL
    sleep,  \* seconds of time.Sleep left
    busy,   \* seconds this cycle has taken
    pipes,  \* per domain: commands that requests within a pipeline issue next
    credit  \* ghost: a domain earns a second's worth of permits each second
            \* and spends PermitIntervalSec on each INCRBY

worker == <<pc, dom, todo, seen, cache, sleep, busy>>
vars   == <<store, worker, pipes, credit>>

NoDomain == 0
NoEntry  == [enabled |-> FALSE, ttl |-> 0]
NotRead  == [an |-> 0, ttl |-> 0, cn |-> 0]

\* What a domain can have earned at most: an INCRBY comes up to MaxCycle after
\* the lock its interval is counted from.
FullCredit == PermitIntervalSec + MaxCycle

Earned(s) == IF s < FullCredit THEN s + 1 ELSE FullCredit
Spent(s)  == IF s > PermitIntervalSec THEN s - PermitIntervalSec ELSE 0

Init ==
    /\ StoreInit
    /\ pc = [n \in Node |-> "sleep"]
    /\ dom = [n \in Node |-> NoDomain]
    /\ todo = [n \in Node |-> {}]
    /\ seen = [n \in Node |-> NotRead]
    /\ cache = [n \in Node |-> [d \in Domain |-> NoEntry]]
    /\ sleep = [n \in Node |-> 0]
    /\ busy = [n \in Node |-> 0]
    /\ pipes = [d \in Domain |-> {}]
    /\ credit = [d \in Domain |-> FullCredit]

-----------------------------------------------------------------------------
(* Control flow of Do.                                                     *)

\* Do goes on to command p for the same domain.
Goto(n, p) ==
    /\ pc' = [pc EXCEPT ![n] = p]
    /\ UNCHANGED <<dom, todo, sleep, busy>>

\* The next iteration of the loop over rest, or the command after the loop.
NextDomain(n, rest) ==
    /\ \/ /\ rest = {}
          /\ pc' = [pc EXCEPT ![n] = "extendDomains"]
          /\ dom' = [dom EXCEPT ![n] = NoDomain]
          /\ todo' = [todo EXCEPT ![n] = {}]
       \/ \E d \in rest :
            /\ \A e \in rest : d <= e
            /\ pc' = [pc EXCEPT ![n] = "isEnabled"]
            /\ dom' = [dom EXCEPT ![n] = d]
            /\ todo' = [todo EXCEPT ![n] = rest \ {d}]
    /\ seen' = [seen EXCEPT ![n] = NotRead]
    /\ UNCHANGED <<sleep, busy>>

\* Do returns, with an error or without; the loop of runServer sleeps.
EndCycle(n) ==
    /\ pc' = [pc EXCEPT ![n] = "sleep"]
    /\ dom' = [dom EXCEPT ![n] = NoDomain]
    /\ todo' = [todo EXCEPT ![n] = {}]
    /\ seen' = [seen EXCEPT ![n] = NotRead]
    /\ sleep' = [sleep EXCEPT ![n] = PermitIntervalSec]
    /\ busy' = [busy EXCEPT ![n] = 0]

\* The commands of Waitingroom.Reset.
Resetting == {"zremDisabled", "delDisabled", "zremIdle", "delIdle"}

FlushCache(n, d) == cache' = [cache EXCEPT ![n][d] = NoEntry]

-----------------------------------------------------------------------------
(* Faulty variants of commands below, each a mistake one could make in the *)
(* code.  No specification uses them: a property is worth checking when    *)
(* TLC finds it violated with one of them in place of the command.         *)

\* The EXPIRE of the lock is forgotten.
SetLockTTLForgotten(n) ==
    /\ pc[n] = "expireLock"
    /\ Goto(n, "getPermit")
    /\ UNCHANGED <<store, seen, cache, pipes, credit>>

\* The reply of SETNX is ignored.
TryLockIgnored(n) ==
    /\ pc[n] = "tryLock"
    /\ SetNXLock(dom[n])
    /\ Goto(n, "expireLock")
    /\ UNCHANGED <<seen, cache, pipes, credit>>

\* An enabled queue is cached for as long as EnableQueue caches it.
IsEnabledCachedLong(n) ==
    LET d   == dom[n]
        hit == cache[n][d].ttl > 0
        on  == IF hit THEN cache[n][d].enabled ELSE GetCurrentPermitNumber(d) >= 0
    IN  /\ pc[n] = "isEnabled"
        /\ Goto(n, IF on THEN "tryLock" ELSE "zremDisabled")
        /\ cache' = IF hit THEN cache
                    ELSE [cache EXCEPT ![n][d] = [enabled |-> on, ttl |-> QueueEnableSec]]
        /\ UNCHANGED <<store, seen, pipes, credit>>

\* A reset deletes the numbers and leaves the domain listed.
ZRemDisabledForgotten(n) ==
    /\ pc[n] = "zremDisabled"
    /\ Goto(n, "delDisabled")
    /\ UNCHANGED <<store, seen, cache, pipes, credit>>

\* INCRBY without the EXPIRE that follows it.
ExpirePermitForgotten(n) ==
    /\ pc[n] = "expirePermit"
    /\ Goto(n, "extendCurrent")
    /\ UNCHANGED <<store, seen, cache, pipes, credit>>

\* The TTL is used as it was read.
SaveLastUnchecked(n) ==
    /\ pc[n] = "saveLast"
    /\ SaveLastNumber(dom[n], seen[n].cn, seen[n].ttl)
    /\ NextDomain(n, todo[n])
    /\ UNCHANGED <<cache, pipes, credit>>

\* The lock is released after the update, as locks usually are.
SaveLastUnlocks(n) ==
    /\ pc[n] = "saveLast"
    /\ lock' = [lock EXCEPT ![dom[n]] = Missing]
    /\ NextDomain(n, todo[n])
    /\ UNCHANGED <<permitted, current, last, domains, cache, pipes, credit>>

\* The list of domains is left to expire.
ExtendDomainsForgotten(n) ==
    /\ pc[n] = "extendDomains"
    /\ EndCycle(n)
    /\ UNCHANGED <<store, cache, pipes, credit>>

-----------------------------------------------------------------------------
(* The commands of a cycle.                                                *)

StartCycle(n) ==
    /\ pc[n] = "sleep" /\ sleep[n] = 0
    /\ IF domains.members = {} THEN EndCycle(n)
                               ELSE NextDomain(n, domains.members)
    /\ UNCHANGED <<store, cache, pipes, credit>>

\* IsEnabledQueue: the cached permit number, else the stored one.
IsEnabled(n) ==
    LET d   == dom[n]
        hit == cache[n][d].ttl > 0
        on  == IF hit THEN cache[n][d].enabled ELSE GetCurrentPermitNumber(d) >= 0
    IN  /\ pc[n] = "isEnabled"
        /\ Goto(n, IF on THEN "tryLock" ELSE "zremDisabled")
        /\ cache' = IF hit THEN cache
                    ELSE [cache EXCEPT ![n][d] =
                            [enabled |-> on,
                             ttl |-> IF on THEN CacheTTLSec ELSE NegativeCacheTTLSec]]
        /\ UNCHANGED <<store, seen, pipes, credit>>

\* Reset of a listed domain whose permit number is gone.
ZRemDisabled(n) ==
    /\ pc[n] = "zremDisabled"
    /\ ZRemDomain(dom[n])
    /\ Goto(n, "delDisabled")
    /\ UNCHANGED <<seen, cache, pipes, credit>>

DelDisabled(n) ==
    /\ pc[n] = "delDisabled"
    /\ DelNumbers(dom[n])
    /\ FlushCache(n, dom[n])
    /\ NextDomain(n, todo[n])
    /\ UNCHANGED <<pipes, credit>>

\* SETNX of GetLockforPermittedNumber.  Who does not get it skips the domain.
TryLock(n) ==
    /\ pc[n] = "tryLock"
    /\ \/ /\ Live(lock[dom[n]])
          /\ NextDomain(n, todo[n])
          /\ UNCHANGED store
       \/ /\ ~Live(lock[dom[n]])
          /\ SetNXLock(dom[n])
          /\ Goto(n, "expireLock")
          /\ UNCHANGED seen
    /\ UNCHANGED <<cache, pipes, credit>>

\* EXPIRE of GetLockforPermittedNumber.
SetLockTTL(n) ==
    /\ pc[n] = "expireLock"
    /\ ExpireLock(dom[n])
    /\ Goto(n, "getPermit")
    /\ UNCHANGED <<seen, cache, pipes, credit>>

GetPermit(n) ==
    /\ pc[n] = "getPermit"
    /\ seen' = [seen EXCEPT ![n].an = GetCurrentPermitNumber(dom[n])]
    /\ Goto(n, "getTTL")
    /\ UNCHANGED <<store, cache, pipes, credit>>

GetTTL(n) ==
    /\ pc[n] = "getTTL"
    /\ \E t \in TtlReplies(permitted[dom[n]]) : seen' = [seen EXCEPT ![n].ttl = t]
    /\ Goto(n, "getCurrent")
    /\ UNCHANGED <<store, cache, pipes, credit>>

\* A domain nobody has taken a number for has no current number: redis.Nil
\* is an error here, and Do returns it.
GetCurrent(n) ==
    /\ pc[n] = "getCurrent"
    /\ \/ /\ ~Live(current[dom[n]])
          /\ EndCycle(n)
       \/ /\ Live(current[dom[n]])
          /\ seen' = [seen EXCEPT ![n].cn = current[dom[n]].val]
          /\ Goto(n, "getLast")
    /\ UNCHANGED <<store, cache, pipes, credit>>

\* The last read and the decision: nobody new and everybody permitted, or
\* one more unit, whose keys live on if it is not enough for all.
GetLast(n) ==
    LET cn == seen[n].cn
        an == seen[n].an
        ln == GetLastNumber(dom[n])
    IN  /\ pc[n] = "getLast"
        /\ \/ /\ Equal(ln, cn) /\ AtMost(cn, an)
              /\ Goto(n, "zremIdle")
              /\ UNCHANGED seen
           \/ /\ Differs(ln, cn) \/ Exceeds(cn, an)
              /\ Goto(n, "incr")
              /\ \/ /\ Exceeds(cn, Plus(an, PermitUnitNumber))
                    /\ seen' = [seen EXCEPT ![n].ttl = QueueEnableSec]
                 \/ /\ AtMost(cn, Plus(an, PermitUnitNumber))
                    /\ UNCHANGED seen
        /\ UNCHANGED <<store, cache, pipes, credit>>

\* Reset of an idle domain; AppendPermitNumber then returns
\* ErrClientNotIncrese, which ends the cycle as any error does.
ZRemIdle(n) ==
    /\ pc[n] = "zremIdle"
    /\ ZRemDomain(dom[n])
    /\ Goto(n, "delIdle")
    /\ UNCHANGED <<seen, cache, pipes, credit>>

DelIdle(n) ==
    /\ pc[n] = "delIdle"
    /\ DelNumbers(dom[n])
    /\ FlushCache(n, dom[n])
    /\ EndCycle(n)
    /\ UNCHANGED <<pipes, credit>>

Incr(n) ==
    /\ pc[n] = "incr"
    /\ IncrPermitted(dom[n])
    /\ credit' = [credit EXCEPT ![dom[n]] = Spent(@)]
    /\ Goto(n, "expirePermit")
    /\ UNCHANGED <<seen, cache, pipes>>

ExpirePermit(n) ==
    /\ pc[n] = "expirePermit"
    /\ ExpirePermitted(dom[n], seen[n].ttl)
    /\ Goto(n, "extendCurrent")
    /\ UNCHANGED <<seen, cache, pipes, credit>>

ExtendCurrent(n) ==
    /\ pc[n] = "extendCurrent"
    /\ ExtendCurrentNumberTTL(dom[n], seen[n].ttl)
    /\ Goto(n, "saveLast")
    /\ UNCHANGED <<seen, cache, pipes, credit>>

\* SETEX refuses a TTL of zero, and Do returns the error.
SaveLast(n) ==
    /\ pc[n] = "saveLast"
    /\ \/ /\ seen[n].ttl > 0
          /\ SaveLastNumber(dom[n], seen[n].cn, seen[n].ttl)
          /\ NextDomain(n, todo[n])
       \/ /\ seen[n].ttl <= 0
          /\ EndCycle(n)
          /\ UNCHANGED store
    /\ UNCHANGED <<cache, pipes, credit>>

ExtendDomains(n) ==
    /\ pc[n] = "extendDomains"
    /\ ExtendDomainsTTL
    /\ EndCycle(n)
    /\ UNCHANGED <<cache, pipes, credit>>

Cycle(n) ==
    \/ StartCycle(n)    \/ IsEnabled(n)     \/ ZRemDisabled(n)  \/ DelDisabled(n)
    \/ TryLock(n)       \/ SetLockTTL(n)    \/ GetPermit(n)     \/ GetTTL(n)
    \/ GetCurrent(n)    \/ GetLast(n)       \/ ZRemIdle(n)      \/ DelIdle(n)
    \/ Incr(n)          \/ ExpirePermit(n)  \/ ExtendCurrent(n) \/ SaveLast(n)
    \/ ExtendDomains(n)

-----------------------------------------------------------------------------
(* Failures.                                                               *)

\* A command fails and Do returns its error.  A command that was executed
\* but whose reply was lost is that command followed by this step.  A failed
\* reset flushes the cache all the same: the flush is deferred.
CycleFails(n) ==
    /\ "error" \in Faults
    /\ pc[n] # "sleep"
    /\ IF pc[n] \in Resetting THEN FlushCache(n, dom[n]) ELSE UNCHANGED cache
    /\ EndCycle(n)
    /\ UNCHANGED <<store, pipes, credit>>

\* The server stops anywhere and starts again: a new AccessController with
\* empty caches, whose first cycle starts at once.
Crash(n) ==
    /\ "crash" \in Faults
    /\ pc' = [pc EXCEPT ![n] = "sleep"]
    /\ dom' = [dom EXCEPT ![n] = NoDomain]
    /\ todo' = [todo EXCEPT ![n] = {}]
    /\ seen' = [seen EXCEPT ![n] = NotRead]
    /\ cache' = [cache EXCEPT ![n] = [d \in Domain |-> NoEntry]]
    /\ sleep' = [sleep EXCEPT ![n] = 0]
    /\ busy' = [busy EXCEPT ![n] = 0]
    /\ UNCHANGED <<store, pipes, credit>>

\* The client library sends a command again when its reply is lost, although
\* Redis has executed it.  It matters for two: an INCRBY is executed twice,
\* and a SETNX that took the lock finds it taken.
RetryIncr(n) ==
    /\ "retry" \in Faults
    /\ pc[n] = "incr"
    /\ IncrPermitted(dom[n])
    /\ credit' = [credit EXCEPT ![dom[n]] = Spent(@)]
    /\ UNCHANGED <<worker, pipes>>

RetryLock(n) ==
    /\ "retry" \in Faults
    /\ pc[n] = "tryLock"
    /\ ~Live(lock[dom[n]])
    /\ SetNXLock(dom[n])
    /\ UNCHANGED <<worker, pipes, credit>>

-----------------------------------------------------------------------------
(* Everyone else: requests of clients, the administrator, time.            *)

\* Requests on domain d issue the commands of ps next, each any number of them.
Issue(d, ps) ==
    /\ Cardinality(ps) <= MaxPipes
    /\ pipes' = [pipes EXCEPT ![d] = ps]

Begins(d, p) == Issue(d, pipes[d] \cup {p})

\* A request issues command p of its pipeline and goes on with those of rest;
\* others may be about to issue p as well.
GoesOn(d, p, rest) ==
    /\ p \in pipes[d]
    /\ \E others \in SUBSET {p} : Issue(d, (pipes[d] \ {p}) \cup others \cup rest)
    /\ UNCHANGED <<worker, credit>>

\* EnableDomain, any number of times at once: SETNX, EXPIRE, ZADD, EXPIRE.
Enable(d) ==
    /\ SetNXPermitted(d)
    /\ Begins(d, "expireEnabled")
    /\ UNCHANGED <<worker, credit>>

\* Faulty variant: a number that is there is taken to have its TTL.
ExpireEnabledForgotten(d) ==
    /\ GoesOn(d, "expireEnabled", {"zadd"})
    /\ UNCHANGED store

ExpireEnabled(d) ==
    /\ ExpirePermitted(d, QueueEnableSec)
    /\ GoesOn(d, "expireEnabled", {"zadd"})

ListEnabled(d) ==
    /\ ZAddDomain(d)
    /\ GoesOn(d, "zadd", {"expireList"})

ExtendEnabled(d) ==
    /\ ExtendDomainsTTL
    /\ GoesOn(d, "expireList", {})

\* IncrCurrentNumber: INCR, EXPIRE.
TakeNumber(d) ==
    /\ IncrCurrent(d)
    /\ Begins(d, "expireTaken")
    /\ UNCHANGED <<worker, credit>>

ExpireTaken(d) ==
    /\ ExtendCurrentNumberTTL(d, QueueEnableSec)
    /\ GoesOn(d, "expireTaken", {})

Visit(d) ==
    \/ Enable(d)     \/ ExpireEnabled(d) \/ ListEnabled(d) \/ ExtendEnabled(d)
    \/ TakeNumber(d) \/ ExpireTaken(d)

\* The connection breaks, or the server stops, before Redis has got all of a
\* pipeline.
PipelineCut(d) ==
    /\ "cut" \in Faults
    /\ \E p \in pipes[d] : pipes' = [pipes EXCEPT ![d] = @ \ {p}]
    /\ UNCHANGED <<store, worker, credit>>

\* The administrator's requests, one Redis command a step.  Several may be
\* under way, and each may fail half-way, so any command may come at any time:
\* UpdateQueues extends the list and saves two numbers, DeleteQueues is a
\* Reset, CreateQueues is an Enable, or nothing while its handler remembers
\* one, and an UpdateQueues.
AdminExtend ==
    /\ ExtendDomainsTTL
    /\ UNCHANGED <<worker, pipes, credit>>

AdminSaveCurrent(d, v) ==
    /\ SaveCurrentNumber(d, v)
    /\ UNCHANGED <<worker, pipes, credit>>

AdminSavePermit(d, v) ==
    /\ SaveCurrentPermitNumber(d, v)
    /\ UNCHANGED <<worker, pipes, credit>>

AdminZRem(d) ==
    /\ ZRemDomain(d)
    /\ UNCHANGED <<worker, pipes, credit>>

AdminDel(d) ==
    /\ DelNumbers(d)
    /\ UNCHANGED <<worker, pipes, credit>>

Admin(d) ==
    \/ AdminExtend
    \/ \E v \in Number : AdminSaveCurrent(d, v) \/ AdminSavePermit(d, v)
    \/ AdminZRem(d) \/ AdminDel(d)

\* One second passes.  A cycle under way has time left; a sleeping worker
\* wakes up when its timer fires or any time later.
Tick ==
    /\ \A n \in Node : pc[n] # "sleep" => busy[n] < MaxCycle
    /\ AgeStore
    /\ cache' = [n \in Node |-> [d \in Domain |->
                    IF cache[n][d].ttl > 1 THEN [cache[n][d] EXCEPT !.ttl = @ - 1]
                                           ELSE NoEntry]]
    /\ sleep' = [n \in Node |-> IF sleep[n] > 0 THEN sleep[n] - 1 ELSE 0]
    /\ busy' = [n \in Node |-> IF pc[n] = "sleep" THEN 0 ELSE busy[n] + 1]
    /\ credit' = [d \in Domain |-> Earned(credit[d])]
    /\ UNCHANGED <<pc, dom, todo, seen, pipes>>

Environment ==
    \/ \E d \in Domain : Visit(d) \/ PipelineCut(d)
    \/ \E d \in AdminDomain : Admin(d)
    \/ Tick

Next ==
    \/ \E n \in Node : Cycle(n) \/ CycleFails(n) \/ Crash(n) \/ RetryIncr(n) \/ RetryLock(n)
    \/ Environment

Spec == Init /\ [][Next]_vars

\* A goroutine that can run does run, what a pipeline has sent arrives, and
\* time passes.
Fairness ==
    /\ WF_vars(Tick)
    /\ \A n \in Node : WF_vars(Cycle(n))
    /\ \A d \in Domain : WF_vars(ExpireEnabled(d)) /\ WF_vars(ListEnabled(d))

FairSpec == Spec /\ Fairness

-----------------------------------------------------------------------------
(* Properties.                                                             *)

PC == {"sleep", "isEnabled", "zremDisabled", "delDisabled", "tryLock", "expireLock",
       "getPermit", "getTTL", "getCurrent", "getLast", "zremIdle", "delIdle", "incr",
       "expirePermit", "extendCurrent", "saveLast", "extendDomains"}

\* Commands issued between winning the lock of a domain and leaving it.
Updating == {"expireLock", "getPermit", "getTTL", "getCurrent", "getLast", "zremIdle",
             "delIdle", "incr", "expirePermit", "extendCurrent", "saveLast"}

\* Commands issued about a domain of the loop.
Visiting == PC \ {"sleep", "extendDomains"}

\* Commands of a request's pipeline after the first.
Piped == {"expireEnabled", "zadd", "expireList", "expireTaken"}

\* Where a node is: it works on a domain exactly inside the loop body.
FlowTypeOK ==
    /\ pc \in [Node -> PC]
    /\ dom \in [Node -> Domain \cup {NoDomain}]
    /\ todo \in [Node -> SUBSET Domain]
    /\ sleep \in [Node -> 0..PermitIntervalSec]
    /\ busy \in [Node -> 0..MaxCycle]
    /\ \A n \in Node : pc[n] \in Visiting <=> dom[n] \in Domain

\* Every variable keeps its type: TTLs are never zero, counters stay within
\* their bound, and no command runs without a domain.
TypeOK ==
    /\ StoreTypeOK
    /\ FlowTypeOK
    /\ seen \in [Node -> [an : -1..MaxNumber, ttl : Nat, cn : Number]]
    /\ cache \in [Node -> [Domain -> [enabled : BOOLEAN, ttl : Nat]]]
    /\ pipes \in [Domain -> SUBSET Piped]
    /\ credit \in [Domain -> 0..FullCredit]

\* Only the worker that won the lock updates a domain's permit number: no
\* two nodes are between SETNX and the last write for the same domain,
\* although the lock is a key that expires and nobody releases it.
OneUpdater ==
    \A m, n \in Node :
        /\ pc[m] \in Updating
        /\ pc[n] \in Updating
        /\ dom[m] = dom[n]
        => m = n

\* Permit numbers rise at the configured pace, whichever nodes raise them: a
\* worker about to raise one finds an interval's worth of seconds earned and not
\* yet spent.  So k raises in a row take at least k - 1 intervals less MaxCycle.
PaceKept == \A n \in Node : pc[n] = "incr" => credit[dom[n]] >= PermitIntervalSec

\* A queue is ended as idle only when its clients have had an interval since the
\* last raise, by whichever node, to use it: the unit that permits the last of
\* them and the decision that nobody new has come are never of one interval.
IdleForInterval ==
    \A n \in Node : pc[n] \in {"zremIdle", "delIdle"} => credit[dom[n]] >= PermitIntervalSec

\* Why OneUpdater holds, as an inductive invariant: the winner of SETNX sees
\* its lock without a TTL until it sets one, and what is left of that TTL is
\* then at least what is left of the interval since its cycle began.
LockInv ==
    /\ \A n \in Node : pc[n] = "expireLock" => lock[dom[n]].ttl = NoExpiry
    /\ \A n \in Node : pc[n] \in Updating \ {"expireLock"} =>
          lock[dom[n]].ttl + busy[n] >= PermitIntervalSec
    /\ OneUpdater

\* Commands between the EXPIRE of the lock and the INCRBY or the reset.
Deciding == {"getPermit", "getTTL", "getCurrent", "getLast", "incr", "zremIdle", "delIdle"}

\* Why PaceKept and IdleForInterval hold: a lock that is free, or taken and not
\* yet given a TTL, has outlived its interval, so that a whole one is earned; a
\* lock with a TTL ends when the next one is earned, and while its holder has
\* not raised the number yet, that will be the second.
PaceInv ==
    /\ \A d \in Domain : lock[d].ttl < 0 => credit[d] >= PermitIntervalSec
    /\ \A d \in Domain : lock[d].ttl > 0 => credit[d] + lock[d].ttl >= PermitIntervalSec
    /\ \A n \in Node : pc[n] \in Deciding =>
          /\ credit[dom[n]] >= PermitIntervalSec
          /\ credit[dom[n]] + lock[dom[n]].ttl >= 2 * PermitIntervalSec

\* A cycle never decides on an answer cached by an earlier cycle: config.go
\* requires the interval to be at least both cache TTLs.
WorkerCacheFresh ==
    \A n \in Node : pc[n] = "isEnabled" => cache[n][dom[n]].ttl = 0

\* A lock without a TTL has a worker about to give it one.
LockNotOrphaned ==
    \A d \in Domain : lock[d].ttl = NoExpiry =>
        \E n \in Node : pc[n] = "expireLock" /\ dom[n] = d

\* A permit number without a TTL has a worker or a request about to give it one:
\* neither an INCRBY that recreates an expired key nor the SETNX that enables a
\* queue leaves one that never ends.
PermitNotOrphaned ==
    \A d \in Domain : permitted[d].ttl = NoExpiry =>
        \/ "expireEnabled" \in pipes[d]
        \/ \E n \in Node : pc[n] = "expirePermit" /\ dom[n] = d

\* Whoever holds a number gets in: while the queue keeps its counters, the
\* permit number reaches every number handed out.
WaiterProgress ==
    \A d \in Domain, k \in 1..(MaxNumber - 1) :
        (Live(permitted[d]) /\ Live(current[d]) /\ current[d].val >= k)
            ~> (\/ permitted[d].val >= k
                \/ ~Live(permitted[d])
                \/ ~Live(current[d]))

\* A queue whose permit number is gone leaves the list of the workers.
DeadQueueLeaves ==
    \A d \in Domain :
        (d \in domains.members /\ ~Live(permitted[d]))
            ~> (d \notin domains.members \/ Live(permitted[d]))

\* Winning the lock of a domain does not keep it for ever: the next interval
\* can have an updater again.
LockReleased == \A d \in Domain : Live(lock[d]) ~> ~Live(lock[d])

\* A queue that has a permit number but has dropped off the list the workers go
\* through, because the list expired, or because a reset and a request that
\* enables it crossed, does not stay that way: it is listed again or it ends.
UnlistedQueueEnds ==
    \A d \in Domain :
        (Live(permitted[d]) /\ d \notin domains.members)
            ~> (d \in domains.members \/ ~Live(permitted[d]))

-----------------------------------------------------------------------------
(* The abstract specification the workers implement.                       *)

PermitNumbers == [d \in Domain |-> GetCurrentPermitNumber(d)]

Pacer == INSTANCE PermitPacer
            WITH Manual <- AdminDomain, Unit <- PermitUnitNumber,
                 Interval <- PermitIntervalSec, Jitter <- MaxCycle,
                 number <- PermitNumbers

\* Every step of the nodes, the clients, the administrator and time is a step
\* of the pacer: whichever nodes raise a permit number, in whatever order and
\* whatever fails in between, one unit is added per interval.
PacerSpec == Pacer!PacerSpec
=============================================================================
