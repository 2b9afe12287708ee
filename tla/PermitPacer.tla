----------------------------- MODULE PermitPacer -----------------------------
(***************************************************************************)
(* What the workers of all nodes together promise about the permit number  *)
(* of a domain, without nodes, locks, caches or Redis commands: whatever   *)
(* happens to the queue in between, units are granted no faster than one   *)
(* per Interval.  config.go states the rate the administrator counts on:   *)
(* PermitUnitNumber clients per PermitIntervalSec.  A unit may come up to  *)
(* Jitter seconds late in its interval and the next one on time, so the    *)
(* rate is a credit that grows by a second each second, up to              *)
(* Interval + Jitter, and of which a unit costs Interval.                  *)
(***************************************************************************)
EXTENDS Integers

CONSTANTS
    Domain,
    Manual,     \* the domains whose number an administrator assigns
    Unit,       \* clients permitted by one grant
    Interval,   \* seconds a unit costs
    Jitter,     \* seconds a unit may come late
    MaxNumber   \* bound: numbers saturate here

VARIABLES
    number,     \* the permit number of a domain, Off when it has no queue
    credit      \* seconds earned and not yet spent on units

pacer == <<number, credit>>

Off == -1

Raised(v) ==
    LET from == IF v = Off THEN 0 ELSE v
    IN  IF from + Unit > MaxNumber THEN MaxNumber ELSE from + Unit

PacerInit ==
    /\ number = [d \in Domain |-> Off]
    /\ credit = [d \in Domain |-> Interval + Jitter]

\* A worker permits one more unit.
Grant(d) ==
    /\ credit[d] >= Interval
    /\ number' = [number EXCEPT ![d] = Raised(@)]
    /\ credit' = [credit EXCEPT ![d] = @ - Interval]

\* The queue ends: reset by a worker or the administrator.
Close(d) ==
    /\ number' = [number EXCEPT ![d] = Off]
    /\ UNCHANGED credit

\* A request enables the queue: it starts at zero, a running one goes on.
Open(d) ==
    /\ number[d] = Off
    /\ number' = [number EXCEPT ![d] = 0]
    /\ UNCHANGED credit

\* The administrator chooses a number.
Assign(d) ==
    /\ \E v \in 0..MaxNumber : number' = [number EXCEPT ![d] = v]
    /\ UNCHANGED credit

\* One second passes; queues whose time is over end.
PacerTick ==
    /\ \E over \in SUBSET Domain :
         number' = [d \in Domain |-> IF d \in over THEN Off ELSE number[d]]
    /\ credit' = [d \in Domain |-> IF credit[d] < Interval + Jitter THEN credit[d] + 1 ELSE credit[d]]

PacerNext ==
    \/ \E d \in Domain : Grant(d) \/ Close(d) \/ Open(d)
    \/ \E d \in Manual : Assign(d)
    \/ PacerTick

PacerSpec == PacerInit /\ [][PacerNext]_pacer
=============================================================================
