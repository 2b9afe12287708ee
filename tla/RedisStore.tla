------------------------------ MODULE RedisStore ------------------------------
(***************************************************************************)
(* The Redis keys the waiting room keeps for each domain, and the          *)
(* operations of repository/waitingroom.go and repository/cluster.go on    *)
(* them.  Every node reads and writes the same store.                      *)
(*                                                                         *)
(* A key is its value and its remaining time to live in whole seconds.     *)
(* There is no clock: a Tick of the modules that use this store ages every *)
(* key by one second (AgeStore).                                           *)
(***************************************************************************)
EXTENDS Integers

CONSTANTS
    Domain,             \* host names; integers, in the order of the sorted set
    QueueEnableSec,     \* config: how long an enabled queue lives
    PermitIntervalSec,  \* config: period of the permit worker and TTL of its lock
    PermitUnitNumber,   \* config: clients permitted per interval
    MaxNumber           \* bound: stands for itself and every larger number

ASSUME StoreAssumption ==
    /\ Domain \subseteq Nat \ {0}
    /\ QueueEnableSec \in Nat \ {0}
    /\ PermitIntervalSec \in Nat \ {0}
    /\ PermitUnitNumber \in Nat \ {0}
    /\ MaxNumber \in Nat \ {0}

VARIABLES
    permitted,   \* <domain>_permitted_no
    current,     \* <domain>_current_no
    last,        \* <domain>_last_no
    lock,        \* <domain>_permitted_no_lock
    domains      \* queue-domains: the members and the TTL of the sorted set

store == <<permitted, current, last, lock, domains>>

-----------------------------------------------------------------------------
(* Redis keys.                                                             *)

NoKey    == -2      \* the TTL Redis reports for a key that does not exist
NoExpiry == -1      \* ... and for a key that never expires

Number == 0..MaxNumber
Ttl    == {NoKey, NoExpiry} \cup (Nat \ {0})
Key    == [val : Number, ttl : Ttl]

Missing == [val |-> 0, ttl |-> NoKey]

Live(k) == k.ttl # NoKey

\* Counters saturate at MaxNumber, and the comparisons of two saturated
\* numbers may come out either way: Equal and AtMost say what may hold,
\* Differs and Exceeds what may hold of their negations.
Plus(a, b)    == IF a + b > MaxNumber THEN MaxNumber ELSE a + b
Equal(a, b)   == a = b
Differs(a, b) == a # b \/ a = MaxNumber
AtMost(a, b)  == a <= b
Exceeds(a, b) == a > b \/ (a = MaxNumber /\ b = MaxNumber)

\* SET key v EX t, and the SETEX the code guards nowhere: Redis refuses t <= 0.
SetEX(v, t) == [val |-> v, ttl |-> t]

\* SETNX key v: keeps a live key as it is, creates one without expiry.
SetNX(k, v) == IF Live(k) THEN k ELSE [val |-> v, ttl |-> NoExpiry]

\* INCR and INCRBY: a missing key counts from zero and gets no expiry.
IncrBy(k, n) == IF Live(k) THEN [k EXCEPT !.val = Plus(@, n)]
                           ELSE [val |-> Plus(0, n), ttl |-> NoExpiry]

\* EXPIRE key t: no effect on a missing key, deletes the key when t <= 0.
Expire(k, t) == IF Live(k) /\ t > 0 THEN [k EXCEPT !.ttl = t] ELSE Missing

\* What go-redis makes of the TTL reply.  Redis rounds the remaining time to
\* the nearest second; -2 and -1 become nanoseconds, which a later EXPIRE or
\* SETEX writes as zero seconds.
TtlReplies(k) == IF k.ttl > 0 THEN {k.ttl - 1, k.ttl} ELSE {0}

\* One second passes for a key.
Aged(k) == IF k.ttl > 1 THEN [k EXCEPT !.ttl = @ - 1]
           ELSE IF k.ttl = 1 THEN Missing
           ELSE k

\* An empty sorted set does not exist, so it has no TTL.
NoDomains == [members |-> {}, ttl |-> NoKey]

-----------------------------------------------------------------------------
(* Repository operations.  Each names the keys it changes; the others of   *)
(* the store stay as they are.                                             *)

StoreInit ==
    /\ permitted = [d \in Domain |-> Missing]
    /\ current   = [d \in Domain |-> Missing]
    /\ last      = [d \in Domain |-> Missing]
    /\ lock      = [d \in Domain |-> Missing]
    /\ domains   = NoDomains

GetCurrentPermitNumber(d) ==
    IF Live(permitted[d]) THEN permitted[d].val ELSE -1

GetLastNumber(d) == IF Live(last[d]) THEN last[d].val ELSE 0

\* The pipelines are sent at once and are no transactions: commands of others
\* come in between.  EnableDomain is SetNXPermitted, ExpirePermitted, ZAddDomain
\* and ExtendDomainsTTL.
SetNXPermitted(d) ==
    /\ permitted' = [permitted EXCEPT ![d] = SetNX(@, 0)]
    /\ UNCHANGED <<current, last, lock, domains>>

\* A list that is created here has no TTL yet.
ZAddDomain(d) ==
    /\ domains' = [members |-> domains.members \cup {d},
                   ttl |-> IF domains.members = {} THEN NoExpiry ELSE domains.ttl]
    /\ UNCHANGED <<permitted, current, last, lock>>

\* DisableDomain is ZRemDomain, then DelNumbers.  The lock is not among the
\* deleted keys.
ZRemDomain(d) ==
    /\ domains' = IF domains.members \subseteq {d} THEN NoDomains
                  ELSE [domains EXCEPT !.members = @ \ {d}]
    /\ UNCHANGED <<permitted, current, last, lock>>

DelNumbers(d) ==
    /\ permitted' = [permitted EXCEPT ![d] = Missing]
    /\ current'   = [current EXCEPT ![d] = Missing]
    /\ last'      = [last EXCEPT ![d] = Missing]
    /\ UNCHANGED <<lock, domains>>

\* The two commands of the pipeline AppendPermitNumber.
IncrPermitted(d) ==
    /\ permitted' = [permitted EXCEPT ![d] = IncrBy(@, PermitUnitNumber)]
    /\ UNCHANGED <<current, last, lock, domains>>

ExpirePermitted(d, t) ==
    /\ permitted' = [permitted EXCEPT ![d] = Expire(@, t)]
    /\ UNCHANGED <<current, last, lock, domains>>

ExtendCurrentNumberTTL(d, t) ==
    /\ current' = [current EXCEPT ![d] = Expire(@, t)]
    /\ UNCHANGED <<permitted, last, lock, domains>>

\* Requires t > 0: the caller handles Redis's refusal.
SaveLastNumber(d, v, t) ==
    /\ last' = [last EXCEPT ![d] = SetEX(v, t)]
    /\ UNCHANGED <<permitted, current, lock, domains>>

ExtendDomainsTTL ==
    /\ domains' = IF domains.members = {} THEN NoDomains
                  ELSE [domains EXCEPT !.ttl = 2 * QueueEnableSec]
    /\ UNCHANGED <<permitted, current, last, lock>>

\* IncrCurrentNumber is IncrCurrent, then ExtendCurrentNumberTTL.
IncrCurrent(d) ==
    /\ current' = [current EXCEPT ![d] = IncrBy(@, 1)]
    /\ UNCHANGED <<permitted, last, lock, domains>>

\* The numbers an administrator sets.
SaveCurrentNumber(d, v) ==
    /\ current' = [current EXCEPT ![d] = SetEX(v, QueueEnableSec)]
    /\ UNCHANGED <<permitted, last, lock, domains>>

SaveCurrentPermitNumber(d, v) ==
    /\ permitted' = [permitted EXCEPT ![d] = SetEX(v, QueueEnableSec)]
    /\ UNCHANGED <<current, last, lock, domains>>

\* GetLockforPermittedNumber is two commands: SETNX without expiry, EXPIRE.
SetNXLock(d) ==
    /\ lock' = [lock EXCEPT ![d] = SetNX(@, 1)]
    /\ UNCHANGED <<permitted, current, last, domains>>

\* Faulty variant: the lock expires a second too early.
ExpireLockEarly(d) ==
    /\ lock' = [lock EXCEPT ![d] = Expire(@, PermitIntervalSec - 1)]
    /\ UNCHANGED <<permitted, current, last, domains>>

ExpireLock(d) ==
    /\ lock' = [lock EXCEPT ![d] = Expire(@, PermitIntervalSec)]
    /\ UNCHANGED <<permitted, current, last, domains>>

\* One second passes for every key.
AgeStore ==
    /\ permitted' = [d \in Domain |-> Aged(permitted[d])]
    /\ current'   = [d \in Domain |-> Aged(current[d])]
    /\ last'      = [d \in Domain |-> Aged(last[d])]
    /\ lock'      = [d \in Domain |-> Aged(lock[d])]
    /\ domains'   = IF domains.ttl = 1 THEN NoDomains
                    ELSE [domains EXCEPT !.ttl = IF @ > 1 THEN @ - 1 ELSE @]

StoreTypeOK ==
    /\ permitted \in [Domain -> Key]
    /\ current \in [Domain -> Key]
    /\ last \in [Domain -> Key]
    /\ lock \in [Domain -> Key]
    /\ domains \in [members : SUBSET Domain, ttl : Ttl]
=============================================================================
