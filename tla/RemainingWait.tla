----------------------------- MODULE RemainingWait -----------------------------
(***************************************************************************)
(* How long a waiting client is told to wait: the seconds until the        *)
(* interval in which the permit number reaches its serial number.          *)
(***************************************************************************)
EXTENDS Integers

\* Faulty variant: a difference that is a multiple of the unit is rounded up too.
RoundedUpAlways(serialNumber, cp, unit, interval) ==
    IF serialNumber - cp > 0 THEN ((serialNumber - cp) \div unit + 1) * interval ELSE 0

CalcRemainingWaitSecond(serialNumber, cp, unit, interval) ==
    LET waitDiff == serialNumber - cp
    IN  IF waitDiff <= 0 THEN 0
        ELSE IF waitDiff % unit = 0 THEN (waitDiff \div unit) * interval
        ELSE (waitDiff \div unit + 1) * interval
=============================================================================
