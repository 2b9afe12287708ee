# TLA+ models of the waiting room

This directory models and verifies the waiting room: a server that puts the clients of a busy
domain in a queue, gives each a serial number, and lets in those whose number a periodic worker has
permitted. Several servers share one Redis; nothing else coordinates them.

The modules are TLA+, checked with TLC; theorems are proved with TLAPS. File and line references
are relative to the repository (`src/` there is this repository's root).

## 1. The system

| Component | State | Operations | Talks to |
|---|---|---|---|
| Permit worker (`domain/queue_access_controller.go`, `domain/waitingroom.go:86-165`, loop in `cmd/server.go:261-275`) | its own `Waitingroom` with its own caches | `Do`: list domains; per domain: is it on? else reset it; take the lock; read four values; reset or raise the permit number; at the end renew the list | Redis repository, cluster lock, Slack |
| Cluster lock (`repository/cluster.go`, `domain/cluster.go`) | `<domain>_permitted_no_lock` | SETNX, then EXPIRE. Nobody deletes it | Redis |
| Redis repository (`repository/waitingroom.go`) | per domain `_permitted_no`, `_current_no`, `_last_no`, all with a TTL; the sorted set `queue-domains`; `queue-whitelist`; one key per permitted client | one to four commands each, the larger ones pipelines (not transactions) | Redis |
| Check handler (`api/queues.go:166-240`) | none of its own | enable the queue or look whether it is on; white list; permission; number; permit or tell the remaining wait | `Waitingroom`, cookie |
| `Waitingroom` caches (`domain/waitingroom.go:16-55, 213-331`) | `enableCache`, `permittedClientCache`, `currentPermitNumberCache`, `whiteListCache`, per handler and node | read through, cached for `CacheTTLSec`, a "no" for `NegativeCacheTTLSec`; `flushCache` on enable and reset, of this instance only | repository |
| Client (`domain/client.go`) | the signed cookie: ID, serial number, when it may take one | decode, assign ID, assign number, save | browser |
| Queue administration (`api/queues.go:36-131`, `domain/viron.go`) | its own `Waitingroom` | list, update, create, delete queues | repository |
| White list administration (`api/whitelist.go`) | its own `Waitingroom` | list, add, remove | repository |
| Configuration (`domain/config.go`) | constants with validated relations | | all |
| Viron menu, telemetry, logging, generated docs, mocks, nginx example | none relevant | | |

Components interact only through Redis and the cookie. Each handler, and the worker, has its *own*
`Waitingroom`: a flush in one is not seen by another, not even in the same process.

What is hard about it: workers of all nodes and requests interleave between any two Redis commands;
keys of one queue have separate TTLs renewed by different parties; the lock is a key that expires and is
never released; a process may die, a command fail or be repeated between any two commands; caches
keep what is no longer stored; clients keep serial numbers of queues that have been reset. `PROJECT.json`
lists each hazard with its line and the properties aimed at it.

What makes each component correct:

* worker and lock: one updater per domain; one unit per interval; whoever waits is permitted;
  ended queues leave the list; nothing is left without a TTL; a reset does not hit waiting clients.
* check handler and caches: a decision rests on data of bounded age; access ends when it should.
* numbers and cookies: no number given twice; first come, first permitted; who keeps asking gets in.
* one browser: whichever of its requests overlap, and whatever becomes of its cookie, it gets in and stays in, and takes few numbers.
* administration: what an administrator leaves behind, in one request or half of one, ends by itself.
* white list: a change of the list is noticed soon, in both directions.

## 2. Modules

| Module | Models |
|---|---|
| `RedisStore` | the keys a queue is made of, values with TTLs, and the repository's operations on them |
| `PermitWorker` (extends `RedisStore`) | the workers of all nodes, one action per Redis command, with requests, administrator, time and failures around them |
| `PermitPacer` | abstract: what the workers together promise about the permit number |
| `QueueAdmin` (extends `PermitWorker`) | the administrator's handlers, one Redis command a step, next to the workers |
| `QueueCheck` (extends `PermitPacer` and `RemainingWait`) | the Check handler on several nodes, its caches, the clients' cookies |
| `Browser` | one browser with several requests under way at once, its cookie and the keys it is encoded with |
| `WhiteList` | the white list: look-ups with their cache and their scan, and the administrator's requests |
| `RemainingWait`, `Paging` | pure: the wait a client is told; the pages of the listings |
| `MCPermitWorker`, `MCQueueAdmin`, `MCQueueCheck`, `MCWhiteList` | symmetry and definitions for TLC |
| `PermitWorker_proofs`, `PermitPace_proofs`, `PermitKeys_proofs`, `QueueAdmin_proofs`, `QueueCheck_proofs`, `WhiteList_proofs`, `Browser_proofs`, `Answers_proofs` | theorems |

How the modules join: `PermitWorker` is shown to implement `PermitPacer` (`PacerSpec`), and `QueueCheck` is written with the pacer's own actions in
place of the workers, so that it assumes no more of them than that. `QueueAdmin` issues the commands that `PermitWorker` has as those of an environment, so what is proved of the
workers holds next to the real handlers (`OneUpdaterBesides`, `PermitsExpireBesides`). That `QueueCheck` moves the permit number as the pacer does, and that
`QueueAdmin` stays within the environment, is so by the way they are written; neither is claimed as a result.

### RedisStore

A key is a record of a value and its remaining seconds, `NoExpiry` (-1) or `NoKey` (-2) as Redis
reports them. `SetNX`, `IncrBy`, `Expire`, `SetEX` are Redis's commands with their edge cases: INCRBY
on a missing key creates one without expiry, EXPIRE with a TTL that is not positive deletes the
key, TTL replies are rounded, and -1/-2 come back from the client library as durations that round to zero
seconds. The pipelines of the repository are no transactions, so each of their commands is an operation here: `SetNXPermitted`, `ExpirePermitted`, `ZAddDomain` and `ExtendDomainsTTL`
are EnableDomain (158-170), `IncrCurrent` and `ExtendCurrentNumberTTL` IncrCurrentNumber (183-192), `ZRemDomain` and `DelNumbers` DisableDomain (142-153), `IncrPermitted` and
`ExpirePermitted` AppendPermitNumber (59-72). Numbers saturate at `MaxNumber`; comparing two saturated numbers may come out either way.

### PermitWorker

`pc[n]` names the command node n issues next; the actions follow `Do` from top to bottom:

| Code | Actions |
|---|---|
| `Do`: ZRANGE, loop, `ExtendDomainsTTL` (31-70) | `StartCycle`, `NextDomain`, `ExtendDomains`, `EndCycle` |
| `IsEnabledQueue` with the cache (waitingroom.go:232-238, 275-294) | `IsEnabled` |
| `Reset` of a queue without permit number (48-51) | `ZRemDisabled`, `DelDisabled` |
| `GetLockforPermittedNumber` | `TryLock`, `SetLockTTL` |
| the four reads of `AppendPermitNumber` (87-105) | `GetPermit`, `GetTTL`, `GetCurrent`, `GetLast` |
| the reset of an idle queue (107-126) | `ZRemIdle`, `DelIdle` |
| INCRBY, EXPIRE, EXPIRE, SETEX (128-145) | `Incr`, `ExpirePermit`, `ExtendCurrent`, `SaveLast` |
| any error | `CycleFails`; `GetCurrent` and `SaveLast` have their own |
| the process | `Crash`; `RetryIncr`, `RetryLock` for commands the client library repeats |
| the pipelines of requests (repository/waitingroom.go:158-170, 183-192) | `Visit`: `Enable`, `ExpireEnabled`, `ListEnabled`, `ExtendEnabled`; `TakeNumber`, `ExpireTaken`; `PipelineCut` if the rest does not reach Redis |

`pipes[d]` is the set of commands that requests within a pipeline on domain d issue next. Requests have no names: any number of them may be at one command, so
a request that goes on may leave others where it was (`GoesOn`). `MaxPipes` bounds at how many different commands requests are at once. What the worker does comes between any two of these
commands, as does a second.

Around them: `Admin`, and `Tick`, a second. The commands of the administrator's requests come in any order and number, a superset of what the handlers issue, failed requests
included; `QueueAdmin` has the handlers themselves. `MaxCycle` bounds how long a cycle takes, `Faults` chooses which failures occur: `"error"`, `"crash"`, `"retry"` and `"cut"` (pipelines). Slack messages are
not modelled as such; the time they take is time of the cycle.

### PermitPacer

What the code has is a lock of `PermitIntervalSec` that is taken at any time of a cycle before the INCRBY. So a unit comes up to `MaxCycle` seconds late in its interval, the next one may be on time, and
no fixed gap between two units is as long as the interval. The pacer says so with a credit (the generic cell rate algorithm): a domain earns a second each second, up to `Interval + Jitter`, and a unit costs `Interval`.
k units take at least k - 1 intervals less `Jitter`. `PermitWorker` maps `Interval` to `PermitIntervalSec` and `Jitter` to `MaxCycle`; its ghost `credit` is the pacer's.

### QueueCheck

`pc[c]` is the step of client c's request, `at[c]` the node, `held[c]` the server's copy of the cookie,
`got[c]` what has been read and not yet cached, so that another request can flush between the two.

| Code | Actions |
|---|---|
| `EnableQueue` (waitingroom.go:241-252) | `SkipEnable`, `EnableDomain`, `MarkEnabled` |
| `currentPermitedNumber` (275-294), used by `IsEnabledQueue`, `CheckAndPermitClient`, `CalcRemainingWaitSecond` | `CachedNumber`, `GetNumber`, `CacheNumber`, and `WithNumber` for what follows |
| `IsInWhitelist` (213-230) | `CheckWhiteList` |
| `IsPermittedClient` (254-273) | `CachedPermission`, `GetPermission`, `CachePermission` |
| `AssignSerialNumber` (314-331) and the cookie (client.go) | `AssignSerialNumber`, `Answer` |
| `PermitClient` (304) | `PermitClient` |
| `CalcRemainingWaitSecond` (333-349) | `RemainingWait` in `UsesNumber`, `Respond` |
| errors, restarts, lost answers and cookies | `RequestFails`, `Restart`, `Answer`, `ForgetCookie` |
| worker, administrator, time | `WorkerGrants`, `Reset`, `AdminUpdate`, `AdminWhiteList`, `Tick` |

A key that expires is one that may vanish at any `Tick` (for the domains of `Expiring`); only where an
exact age matters, in caches and client keys, are seconds counted. `ago`, `lapsed` and `stale` are ghosts: since when a
permit number is not the stored one, since when a client has no key, whose number is of an
earlier numbering. Abstractions: the pipelines EnableDomain, IncrCurrentNumber and DisableDomain are
one step here, since keys have no TTLs here that a command in between could see (PermitWorker takes them apart); the three commands of UpdateQueues are one step; a client asks
again only after an answer (`Browser` has requests that overlap); the entry delay is counted from the answer's cookie as in the code, in seconds.

`told` is a ghost too: the seconds left of the wait a client was told, counted up to `MaxTold`. The wait is computed with `Interval`, which is `PermitIntervalSec` as in the code, while the units come
at the workers' pace, with `Jitter`. It is set when the browser receives the answer; an answer that
is lost leaves it alone.

### QueueAdmin

`apc[r]` is the next command of request r, `marked` what the handlers of a node remember of queues they have enabled. Their
`Waitingroom` is not the Check handler's.

| Code | Actions |
|---|---|
| `CreateQueues` (viron.go:80-85), `EnableQueue` | `CreateQueue`, `SkipEnable`, or `EnableQueue`, `ExpireQueue`, `ListQueue`, `ExtendQueue` (the pipeline) and `MarkEnabled`; then as an update |
| `UpdateQueues` (64-78) | `UpdateQueueByName`, `ExtendList`, `SaveCurrent`, `SavePermit` |
| `DeleteQueues` (86-88), `Reset` | `DeleteQueueByName`, `ZRem`, `Del` |
| errors | `RequestFails`, after any command outside the pipeline |

Workers, clients and time are those of `PermitWorker`; its free `Admin` is not part of `AdminNext`. A handler within the pipeline is one of the requests `pipes` stands for and stays one until it goes on (`InPipe`).

### Browser

`jar` is the browser's cookie, `held[t]` what the server has made of it for the request of tab t, `sets[t]` what the answer will do to it.
Actions follow `Check` as far as the cookie matters: `Undecodable` (client.go:35-46), `Permitted`, `AssignSerialNumber`, `Judge`, `PermitClient`,
and `Arrive`, the answer at the browser, or `Lose`. `RequestFails` is a command that fails, before or after Redis has executed it, the INCR included, whose number is then in no cookie. `Restart` makes up a new key unless keys are configured (server.go:62-75). `MaxFailures` bounds these three together.

The queue is on and stays on, and a permission does not end. The caches of the nodes are here without the exact ages `QueueCheck` counts: `known` is a permit number that no node goes by less than, so `Judge` uses any number between `known` and the
stored one; `refused` are the IDs with access that some node may remember to have none, so `Permitted` may go either way for them. `Refresh` and `Forget` are the moments from which no such entry is left on any node. The caches are flushed by an enabling
request, which only makes them fresher. An ID that is nobody's any more may be given again, with its access and refusals forgotten, which keeps the number of IDs finite.

### WhiteList

`Ask`, `Cached`, `Scan`, `Cache`, `LookupFails` are `IsInWhitelist` (waitingroom.go:213-230) with the ZSCAN of repository/waitingroom.go:131: a list of
at most `ScanLimit` members is returned whole, a larger one in part, and the code does not follow the cursor. `ZAdd`, `Persist`, `ZRem`, `EditFails` are
the administrator's. `lastIn`, `lastOut` and `lastLarge` are ghosts: since when a domain was (not) on the list, and since when the list was too large.

### RemainingWait, Paging

Operators only. Nothing is left for TLC to explore in them; their theorems hold for all inputs, and `QueueCheck` uses the former.

## 3. Runs

Passing runs:

| Run | Properties | Bounds, and why they suffice |
|---|---|---|
| `worker_safety` | `TypeOK` `OneUpdater` `WorkerCacheFresh` `LockNotOrphaned` `PermitNotOrphaned` `PaceKept` `IdleForInterval` `PacerSpec` | 2 nodes are enough for a second updater; 1 domain, since the keys of domains are disjoint; interval 2 and cycle 1 let a lock expire between and during cycles; `QueueEnableSec` 3 lets a queue end inside a cycle; 3 numbers (0 to 2) allow two grants in a row; `MaxPipes` 1, any number of requests at one command of their pipelines. No administrator, no failures: a number assigned by hand could pass for a grant; the theorems on these properties include one |
| `worker_faults` | `OneUpdater` | 2 nodes, errors and crashes at every command, repeated INCRBY and SETNX, cut pipelines, and the administrator's commands between any two others; a queue that lives for 1 s, so that it ends within a cycle |
| `worker_liveness` | `WaiterProgress` `DeadQueueLeaves` `LockReleased` `UnlistedQueueEnds` | 2 nodes share the work, no faults; several grants and TTL extensions before the last number. Cycles take no time here (`MaxCycle` 0), commands of the nodes and of requests interleave as everywhere, and so do seconds with the commands of a pipeline |
| `admin_queues` | `PermitNotOrphaned` `LeftQueueEnds` | 1 domain and 1 request of the administrator under way, with the worker of 1 node and clients, command by command; cycles and requests of up to 1 s (`MaxCycle` 1) of a queue that lives for 2 s: keys expire between two commands of a cycle, a request, or a pipeline; numbers 0 and 1. Handlers run on to their answers (`FairAdminSpec`) |
| `check_fresh` | `TypeOK` `AdmissionFresh` `LetThroughFresh` `AccessFresh` | one client on one node with every failure, resets and numbers set by hand; `MaxRequest` 1 lets reading and caching fall in different seconds; `Horizon` 4 is the largest bound compared with |
| `check_shared` | `SerialsUnique` `AdmissionFresh` `ToldWaitKept` `LetThroughFresh` | 2 clients and 3 numbers on one node and its caches, resets and expiries (workers that act on numbers read too early, `Racing`, and the white list are in `check_fresh`); `MaxRequest` 0 and `Horizon` 2, the larger of the two age bounds compared with; units every 2 s that may be 1 s late (`Jitter`), and waits of up to `MaxTold` 6 s, less than the longest that 3 numbers counted from -1 can give but as long as the bound of `ToldWaitKept`, so that it can be exceeded |
| `check_progress` | `ClientGetsIn` | 2 clients and 3 numbers, so that one waits for the other's unit |
| `white_list` | `AllowedFresh` `RefusedFresh` | 2 look-ups and 2 administrators at once, so that one caches what the other has outdated; 2 domains with `ScanLimit` 1, so that the list gets too large; 1 node, since nodes share no cache; `Horizon` 3 is the larger bound |
| `tabs` | `FewNumbers` `StaysIn` `EveryTabGetsIn` | 2 tabs, enough for an answer that arrives late. 1 node with keys of its own making: `known` and `refused` stand for the caches of all nodes together, and a node's name only matters for its key and for the requests a restart ends. `MaxFailures` 1: one restart, one failing command or one lost answer, anywhere. Numbers up to 11, one more than it reaches |

The age bounds of `AdmissionFresh`, `LetThroughFresh`, `AccessFresh`, `AllowedFresh` and `RefusedFresh` are tight: with one second less each is violated, in `check_fresh` and `white_list`.
`FewNumbers` is tight as well: 1, 4 and 10 numbers are reached with one, two and three tabs. It is about nodes that have one key (`OneKey`) and have not
restarted, and requests that have not failed: a cookie that cannot be decoded is deleted, and its number with it, and a number whose request or answer comes to nothing is in no cookie.

Every property of a passing run is also checked against a faulty variant of a definition (the
definitions marked so in the modules, listed in `PROJECT.json`), which it must catch.

Runs that end in a violation, each of a sentence of the repository (quoted in `PROJECT.json`):

| Run | Shows |
|---|---|
| `lock_leak` | a crash between SETNX and EXPIRE ends updates of that domain for good (`repository/cluster.go:28`) |
| `head_of_line` | one domain without numbers keeps the worker from those behind it (`queue_access_controller.go:58`) |
| `enable_skipped` | enabling a queue that was reset does nothing (`waitingroom.go:242`); with the default configuration a queue nobody uses is reset after about 120 s and the mark lasts 150 s |

Behaviour that the models show and no run is kept for:

* With `MaxCycle = PermitIntervalSec`, a cycle as long as the interval, `OneUpdater` is violated: the lock expires under its
  holder, who may for instance wait for Slack without a time limit (`waitingroom.go:117`).
* With `"retry"` in `Faults`, `PaceKept` is violated: the INCRBY pipeline is repeated by the client library (`repository/waitingroom.go:61`).
* A refusal cached by one node (`waitingroom.go:267`) outlives the moment another node permits the client, which is then judged by its
  serial number again, against what this node has cached, and may be told to wait. `StaysIn` holds from when no node remembers a refusal.
* The worker gives the current number the TTL it has read from the permit number (`waitingroom.go:139`), which an enabling request may
  renew in between: the current number expires alone, numbers start again at 1, and newcomers are permitted at once until they have caught up.
* The decision to reset rests on numbers read before (`waitingroom.go:107`); a client that takes a number in between loses it.
* An update of a queue that is not listed (`domain/viron.go:64`) turns it on without listing it, and so does a creation that skips `EnableDomain`
  (line 81): no worker raises that permit number until a client enables the queue, or ends the queue before it expires.
* A worker that reads the TTL of a permit number between the SETNX and the EXPIRE of a request writes back zero, which deletes the key (`repository/waitingroom.go:161`, `waitingroom.go:92`, `136`).
* With `"cut"` in `Faults`, `PermitNotOrphaned` is violated: a connection that breaks between SETNX and EXPIRE of `EnableDomain` (`repository/waitingroom.go:161`) leaves a queue on
  for good, without a TTL and not listed, until a client enables it again, whereas `config.go:9` means it to be on for `QueueEnableSec` (「待合室を有効にしておく時間」).
* INCR of a new number without the EXPIRE of its pipeline (`repository/waitingroom.go:185`, `"cut"`) leaves a current number that outlives its queue.
* Every page of the administration's listings is empty (`viron.go:32`, `108`: start and end of the range are swapped), with the right total.
* A white list larger than what Redis returns with one ZSCAN is searched in part (`repository/waitingroom.go:131`), so a domain on it may be
  refused for good; `doc/rough_design.md:11` lets every domain on the list through. `RefusedFresh` excepts such lists.
* A domain on the white list for which a client has called the enabling path never has a current number, and is one that stops the domains behind it (`head_of_line`).
* A queue that is on and has waiting clients may drop off the list the workers go through:
  - a worker that has read that the queue is off resets it without taking the lock (`queue_access_controller.go:49`); if a client enables the queue in between and another worker, which holds
    the lock, comes to its INCRBY, that brings the permit number back after the reset, without an entry in the list;
  - in a cycle that takes a second or more, the INCRBY brings back a queue that has expired meanwhile and is no longer listed;
  - the list expires between the ZADD and the EXPIRE of a request that enables the queue (`repository/waitingroom.go:163-167`), which need only be a moment apart;
  - the error of an idle queue ends the cycle before it renews the list (`queue_access_controller.go:58`, `65`). If that happens in every cycle for as long as the list lives, twice `QueueEnableSec`, the list
    expires; it takes as many queues that become idle one after another as there are cycles in that time. Cycles that fail or crash every time do the same.

  `UnlistedQueueEnds` and `LeftQueueEnds` say that it does not stay so: a client enables the queue again, or it ends, and lets its clients through.
* A node whose cached number is of a queue that has been reset since lets a client in at once to whom another node has just told a long wait. `ToldWaitKept` excepts that.
* Two nodes without configured keys delete each other's cookies (`server.go:62`, `client.go:38`): in `tabs` with `Node = {n1, n2}` `EveryTabGetsIn` is violated,
  and a single tab that is sent to one after the other takes a new number each time.
* An answer that arrives late replaces a newer cookie, so a browser that was let in may be told to wait again if another of its requests was under way.
  `StaysIn` says that, apart from refusals remembered and a cookie no node can decode any more, this is the only way.
* A serial number survives the reset of its queue in the cookie (`client.go:99`): a client whose turn had come and who had not asked again waits behind
  the newcomers of the next numbering. `stale` marks these clients, and `SerialsUnique` is about the others.

Deadlock is checked in every run: there is always a Tick or a command.

### Fairness

`PermitWorker!FairSpec`: weak fairness of each worker's next command, of `Tick`, and of the commands a pipeline has yet to issue up to ZADD (`ExpireEnabled`, `ListEnabled`). The worker is a
goroutine in an endless loop without conditions, what has been sent to Redis arrives, and time passes. No fairness for clients, the
administrator, errors, crashes or cuts. Time cannot outrun a cycle by more than `MaxCycle`.

`QueueAdmin!FairAdminSpec`: the same, and weak fairness of each request under way (`Serve`): a handler runs to its answer. None for sending a request.

`QueueCheck!FairSpec`: weak fairness of `Tick`, of each request's next step, of each client sending its next request
(browsers poll; `ClientGetsIn` is about those that do), and of `WorkerGrants`, which is what `WaiterProgress` of
`PermitWorker` provides as long as the queue keeps its keys.

`Browser!FairSpec`: weak fairness of each tab's next request and of its handling up to the answer's arrival, of `Grant` (the same promise of the workers), of
`Tick`, and of `Refresh` and `Forget`, the end of the TTLs of what nodes have cached. `EveryTabGetsIn` is about tabs that keep asking. None for `Restart` or failures.

### Assumptions on time

Time advances by whole seconds. `MaxCycle` (worker) and `MaxRequest` (requests) bound how long an operation takes.
That a cycle is shorter than the interval, `Punctual`, is not ensured by the code (see above for what
happens otherwise), and the theorems below name it as a hypothesis where they need it.

## 4. Theorems

All for any constants that satisfy the named assumptions of the modules: any number of nodes, domains, requests, tabs, and any configuration.

Workers (`PermitWorker_proofs`, `PermitPace_proofs`, `PermitKeys_proofs`):

* `TypeCorrect`: `Spec => []TypeOK`. By one lemma per repository operation and one step per action.
* `MutualExclusion`: `Punctual` implies `Spec => []OneUpdater`. `OneUpdater` is not inductive: whether the lock still excludes others
  depends on time. `LockInv` adds what does: before its EXPIRE the holder's lock has no TTL, and after it
  the TTL left plus the seconds its cycle has taken are at least the interval, so a holder, whose cycle is shorter, has a live lock
  (`HolderHasLock`) and nobody else's SETNX succeeds.
* `Pace`, `Idle`: without repeated commands also `Spec => []PaceKept` and `Spec => []IdleForInterval`. `PaceInv`: a domain whose lock is free, or has no TTL yet, has an interval's credit; a
  TTL left covers what is left until then; and until its holder has raised the number, credit and TTL together are two intervals, so that the next holder finds one after this one has spent one.
* `ImplementsPacer`: under the same hypotheses `Spec => PacerSpec`, the refinement `worker_safety` checks. The mapping takes the value of the
  permit key, or Off, for `number`; one step per action shows a pacer step or a stutter, `PaceInv` gives the guard of `Grant`.
* `PermitsExpire`: without faults, no permit number is without a TTL but for the step in which a worker, or a request within its pipeline, is about to give it one.
  Inductive together with `TypeOK`: the only steps that make such a key lead to the EXPIRE, whatever others do in between, and nobody but its worker, or its request, leaves that step.
* `CacheFresh`: `Spec => []WorkerCacheFresh`, whatever fails. `CacheInv` says that no cached answer outlives the sleep under way, where the relation config.go
  requires of the settings is used, and that a cycle has cached nothing about the domains it has yet to visit.

Administrator (`QueueAdmin_proofs`):

* `OneUpdaterBesides` and `PermitsExpireBesides`: `MutualExclusion` and `PermitsExpire` of `AdminSpec`. The lemma `AdminIsEnvironment` shows each step of a handler to be a command `PermitWorker` allows
  its environment, or nothing it knows of; `HandlerInv` says whose domain a request is about. The second is as good as the free `Admin` and the pipelines' commands of `PermitWorker` are.

Requests (`QueueCheck_proofs`), for any number of nodes and clients, with all failures, resets, expiries and numbers set by hand:

* `CheckTypeCorrect`: `Spec => []TypeOK`. The lemma `Moves` sorts the steps of a request into three kinds (it goes on, has read something, or is
  answered) and `AssignSerialNumber`, so that each is looked at once.
* `NumbersUnique`: `Spec => []SerialsUnique`. `HeldInv` says that the server's copy of a cookie has the serial number the browser has, if it has one, and that
  nothing is held between requests. Numbers are then made only by `AssignSerialNumber`, from a counter that is at least every number of its
  numbering; a counter that is set back makes all who hold its numbers stale.
* `AdmissionsFresh` and `LetThroughOnlyOff`: `Spec => []AdmissionFresh` and `Spec => LetThroughFresh`. `NumberAge`: the age of a cached number plus what is left of its
  TTL is at most the whole TTL plus the longest request, and a number read is no older than the request.
* `AccessEnds`: `Spec => AccessFresh`, from `PermissionAge`, the same of permissions.

* `WaitsKept`: `Spec => []ToldWaitKept`: nobody is told to wait longer than necessary by more than the bound named there, in multiples of `PermitIntervalSec`, for workers whose units come as `ImplementsPacer` proves. `NumberPace` says that a number the permit number
  has left behind was left as long ago as it takes to rise from there, so that a cached number is not too far behind; `Due` is the time a client needs at best, from the number
  and the credit; `ToldInv` says that what is left of the wait told is never more than `Early` longer than what is due. `LeastUnits` of `Answers_proofs` shows that at the answer.

The ghosts stop counting at `Horizon`, so the age theorems say most when it is at least the bounds they name. Only `WaitsKept` needs it as a hypothesis
(`FarHorizon`, about the model's bound and not the code).

White list (`WhiteList_proofs`): `Allowed` and `Refused`, the two action properties of `white_list`. `FoundInv` bounds the age of what a look-up has found by the
seconds it has taken, and `CacheInv` the age of a cached answer together with what is left of its TTL by the whole TTL and the longest look-up.

Browser (`Browser_proofs`): `LetInStaysIn`, `Spec => StaysIn`. `SettledInv` says that once settled, the cookie in the jar has an ID with access that no node remembers as refused, and the key of every node;
each request under way holds the same ID and key, and its answer, if there is one, leaves the cookie alone and is no wait. The lemmas take the steps of the handlers, the failures and what goes on in the background one by one (`SettledStep`).
`NumbersFew`: `Spec => []FewNumbers`, for any number of tabs. `CookieInv` and `FlowInv` say where a cookie in play can have come from. Four groups of tabs count: `Newcomers`, without an ID; those whose delay is not over (`Delays`);
`Forgetting`, whose late answer will make the browser forget a number; `Taking`, which take a number next. `TollInv` weighs them: `Few` bounds the numbers taken and about to be taken by what
the tabs with an ID could have caused so far, less what the late answers still can, and each step keeps to it (`Paid`; one lemma per kind of step). The bound holds while `Calm`: no node has restarted and nothing has failed. The arithmetic is in lemmas of its own (`FewStep`, `FewBound`).

Pure functions (`Answers_proofs`): `LeastWait` (the wait told is the least number of intervals that suffices), `PagesAreEmpty`, `NothingIsListed`.

Only model-checked: liveness, which is out of the prover's reach (`WaiterProgress`, `DeadQueueLeaves`, `LockReleased`, `UnlistedQueueEnds`, `LeftQueueEnds`, `ClientGetsIn`, `EveryTabGetsIn`), and
`LockNotOrphaned`, which says little without faults and is violated with them (`lock_leak`).

## 5. Not modelled, and what is left

Not modelled: how a cookie is encrypted (only by which key), HTTP routing and parameter validation, telemetry, logging, the
texts sent to Slack, the Viron menu, generated code and mocks, the nginx example. None of them keeps state that a property could be about.

Abstracted, and where it matters: the exact ages of cached answers and overlapping requests of one browser are in different modules. `QueueCheck` has the caches with their TTLs and clients that wait for their answers;
`Browser` has overlapping requests and what nodes may have cached, of any age up to `Refresh` and `Forget`, for a queue that stays on. How long after it is let in a browser may
still be told to wait is therefore not a number here; it is the TTL of a cached refusal, which `CachePermission` of `QueueCheck` sets to `NegativeCacheTTLSec`. The white list is one flag per domain in `QueueCheck`.

Left to do:

1. `UnlistedQueueEnds` with several domains that end each other's cycles, and with cycles that take time on two nodes.
2. `admin_queues` with two nodes, whose handlers have memories of their own of the queues they have enabled, and with several requests at once.
3. A bound on how long a browser that has been let in may still be told to wait, with caches and overlapping requests in one module.
