---------------------------- MODULE Answers_proofs ----------------------------
(***************************************************************************)
(* What the pure parts of the answers compute, for every input.            *)
(***************************************************************************)
EXTENDS Paging, RemainingWait, TLAPS

\* The administration never lists anything: whatever page of whatever positive
\* size is asked for, the range that GetQueues and GetWhiteList pass to ZRANGE
\* ends before it starts.
THEOREM PagesAreEmpty ==
    ASSUME NEW S, NEW members \in Seq(S), NEW page \in Nat, NEW perPage \in Nat \ {0}
    PROVE  ListPage(members, page, perPage) = <<>>
<1> DEFINE p == Page(page)
           q == PerPage(perPage)
<1>1. p \in Nat \ {0} /\ q \in Nat \ {0}
  BY DEF Page, PerPage, MaxPerPage
<1> HIDE DEF p, q
<1>2. p * q \in Nat /\ q * (p - 1) \in Nat /\ q * (p - 1) < p * q
  <2>1. PICK k \in Nat : p = k + 1
    BY <1>1
  <2>2. p * q = k * q + q /\ q * (p - 1) = k * q /\ k * q \in Nat
    BY <1>1, <2>1
  <2> QED  BY <1>1, <2>2
<1>3. ListPage(members, page, perPage) = ZRange(members, p * q, q * (p - 1))
  BY DEF ListPage, p, q
<1>4. ZRange(members, p * q, q * (p - 1)) = <<>>
  BY <1>2 DEF ZRange
<1> QED  BY <1>3, <1>4

\* Whatever queues and numbers there are, an administrator who asks for queues
\* is answered with success, an empty list and the number of all queues, and
\* likewise for the white list.
THEOREM NothingIsListed ==
    ASSUME NEW S, NEW members \in Seq(S), NEW current, NEW permitted,
           NEW page \in Nat, NEW perPage \in Nat \ {0}
    PROVE  LET nothing == [found |-> TRUE, shown |-> <<>>, total |-> Len(members)]
           IN  /\ GetQueues(members, current, permitted, page, perPage) = nothing
               /\ GetWhiteList(members, page, perPage) = nothing
<1>1. ListPage(members, page, perPage) = <<>>
  BY PagesAreEmpty
<1>2. DOMAIN << >> = {}
  OBVIOUS
<1>4. [i \in DOMAIN << >> |-> <<<< >>[i], current[<< >>[i]], permitted[<< >>[i]]>>] = << >>
  BY <1>2
<1> QED  BY <1>1, <1>2, <1>4 DEF GetQueues, GetWhiteList

\* Division with remainder, in the form the proof below uses.
LEMMA Division ==
    ASSUME NEW d \in Nat, NEW unit \in Nat \ {0}
    PROVE  /\ d \div unit \in Nat
           /\ d % unit \in 0..(unit - 1)
           /\ d = ((d \div unit) * unit) + (d % unit)
  OBVIOUS

\* Fewer than q units are less than q units, and q units less than q and a rest.
LEMMA LeastMultiple ==
    ASSUME NEW q \in Nat, NEW m \in Nat, NEW unit \in Nat \ {0}, NEW r \in Nat,
           m * unit >= (q * unit) + r
    PROVE  q <= m /\ (r > 0 => q < m)
<1>1. ASSUME NEW a \in Nat, NEW b \in Nat, a < b
      PROVE  (a * unit) + unit <= b * unit
  <2>1. PICK k \in Nat : b = a + 1 + k
    BY <1>1
  <2>2. b * unit = ((a * unit) + unit) + (k * unit) /\ k * unit \in Nat /\ a * unit \in Nat
    BY <2>1
  <2> QED  BY <2>2
<1>2. q * unit \in Nat /\ m * unit \in Nat
  OBVIOUS
<1>3. q <= m
  BY <1>1, <1>2
<1>4. ASSUME r > 0  PROVE q # m
  BY <1>2, <1>4
<1> QED  BY <1>3, <1>4

\* The units that a difference of x clients takes.
Units(x, unit) ==
    IF x <= 0 THEN 0 ELSE IF x % unit = 0 THEN x \div unit ELSE x \div unit + 1

LEMMA WaitInUnits ==
    ASSUME NEW s \in Int, NEW cp \in Int, NEW unit \in Nat \ {0}, NEW interval \in Nat
    PROVE  CalcRemainingWaitSecond(s, cp, unit, interval) = Units(s - cp, unit) * interval
<1>1. 0 * interval = 0
  OBVIOUS
<1> QED  BY <1>1 DEF CalcRemainingWaitSecond, Units

LEMMA LeastUnits ==
    ASSUME NEW x \in Int, NEW unit \in Nat \ {0}
    PROVE  /\ Units(x, unit) \in Nat
           /\ Units(x, unit) * unit >= x
           /\ \A m \in Nat : m * unit >= x => Units(x, unit) <= m
<1>1. CASE x <= 0
  <2>1. Units(x, unit) = 0 /\ 0 * unit = 0
    BY <1>1 DEF Units
  <2> QED  BY <1>1, <2>1
<1>2. CASE x > 0
  <2>1. PICK d \in Nat : d = x /\ d > 0
    BY <1>2
  <2>2. PICK q \in Nat, r \in 0..(unit - 1) :
          q = d \div unit /\ r = d % unit /\ d = (q * unit) + r
    BY Division
  <2>3. CASE r = 0
    <3>1. Units(x, unit) = q /\ q * unit >= x
      BY <2>1, <2>2, <2>3 DEF Units
    <3>2. ASSUME NEW m \in Nat, m * unit >= x  PROVE q <= m
      BY <2>1, <2>2, <2>3, <3>2, LeastMultiple
    <3> QED  BY <3>1, <3>2
  <2>4. CASE r > 0
    <3>1. Units(x, unit) = q + 1
      BY <2>1, <2>2, <2>4 DEF Units
    <3>2. (q + 1) * unit >= x
      <4>1. (q + 1) * unit = q * unit + unit /\ q * unit \in Nat
        OBVIOUS
      <4> QED  BY <4>1, <2>1, <2>2
    <3>3. ASSUME NEW m \in Nat, m * unit >= x  PROVE q + 1 <= m
      BY <2>1, <2>2, <2>4, <3>3, LeastMultiple
    <3> QED  BY <3>1, <3>2, <3>3
  <2> QED  BY <2>3, <2>4
<1> QED  BY <1>1, <1>2

\* The wait a client is told is the least number of intervals after which the
\* permit number, raised by one unit in each, has reached its serial number.
THEOREM LeastWait ==
    ASSUME NEW s \in Int, NEW cp \in Int, NEW unit \in Nat \ {0}, NEW interval \in Nat
    PROVE  \E n \in Nat :
             /\ CalcRemainingWaitSecond(s, cp, unit, interval) = n * interval
             /\ cp + n * unit >= s
             /\ \A m \in Nat : cp + m * unit >= s => n <= m
<1> DEFINE n == Units(s - cp, unit)
<1>1. n \in Nat /\ n * unit >= s - cp /\ \A m \in Nat : m * unit >= s - cp => n <= m
  BY LeastUnits
<1>2. CalcRemainingWaitSecond(s, cp, unit, interval) = n * interval
  BY WaitInUnits
<1> HIDE DEF n
<1>3. \A m \in Nat : m * unit \in Nat
  OBVIOUS
<1>4. cp + n * unit >= s /\ \A m \in Nat : cp + m * unit >= s => n <= m
  BY <1>1, <1>3
<1> QED  BY <1>1, <1>2, <1>4
=============================================================================
