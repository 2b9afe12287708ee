----------------------------- MODULE Browser_proofs -----------------------------
(***************************************************************************)
(* A browser that has been let in stays in, and one whose cookies have one *)
(* key takes few numbers: for any number of tabs, and any order of its     *)
(* answers.                                                                *)
(***************************************************************************)
EXTENDS Browser, FiniteSetTheorems, TLAPS

USE DEF redis, caches, faults

LEMMA KeyType == ASSUME NEW n \in Node, restarts \in [Node -> Nat]
                 PROVE  Key(n) \in [node : Node \cup {NoNode}, start : Nat]
  BY DEF Key

LEMMA TypeInit == Init => TypeOK
<1> SUFFICES ASSUME Init  PROVE TypeOK
  OBVIOUS
<1>1. NoCookie \in Cookie
  BY DEF NoCookie, Cookie
<1>2. /\ current \in 0..MaxNumber /\ number \in 0..current /\ known \in 0..number
      /\ restarts \in [Node -> Nat] /\ failures \in Nat /\ refused \subseteq access
  BY BrowserAssumption DEF Init
<1> QED  BY <1>1, <1>2 DEF Init, TypeOK

LEMMA TypeNext == TypeOK /\ [Next]_vars => TypeOK'
<1> SUFFICES ASSUME TypeOK, [Next]_vars  PROVE TypeOK'
  OBVIOUS
<1> USE BrowserAssumption
<1> USE DEF TypeOK
<1>1. ASSUME NEW t \in Tab, Send(t)  PROVE TypeOK'
  BY <1>1 DEF Send
<1>2. ASSUME NEW t \in Tab, Undecodable(t)  PROVE TypeOK'
  BY <1>2 DEF Undecodable, Reply
<1>3. ASSUME NEW t \in Tab, Permitted(t)  PROVE TypeOK'
  BY <1>3 DEF Permitted, Reply, Goto
<1>4. ASSUME NEW t \in Tab, AssignSerialNumber(t)  PROVE TypeOK'
  <2>1. UNCHANGED <<number, known, restarts, failures, jar, settled>> /\ at[t] \in Node /\ pc[t] = "assign"
    BY <1>4 DEF AssignSerialNumber
  <2>2. CASE HasSerialNumber(held[t]) /\ Goto(t, "judge") /\ UNCHANGED <<current, held, access, refused>>
    BY <2>1, <2>2 DEF Goto
  <2>3. CASE AssignID(t) /\ Reply(t, "wait", "set") /\ UNCHANGED current
    <3>1. PICK i \in 1..(Cardinality(Tab) + 1) :
            held' = [held EXCEPT ![t] = [id |-> i, serial |-> 0, wait |-> EntryDelaySec + 1,
                                         key |-> Key(at[t])]]
      BY <2>3 DEF AssignID, IDs
    <3>4. refused' \subseteq access'
      BY <2>3 DEF AssignID
    <3>2. [id |-> i, serial |-> 0, wait |-> EntryDelaySec + 1, key |-> Key(at[t])] \in Cookie
      BY <2>1, KeyType DEF Cookie
    <3>3. held' \in [Tab -> Cookie] /\ \A u \in Tab : u # t => held'[u] = held[u]
      BY <3>1, <3>2
    <3> QED  BY <2>1, <2>3, <3>3, <3>4 DEF Reply
  <2>4. CASE Reply(t, "wait", "set") /\ UNCHANGED <<current, held, access, refused>>
    BY <2>1, <2>4 DEF Reply
  <2>5. ASSUME CanTakeSerialNumber(held[t]), NEW cn \in 1..MaxNumber, cn >= current, current' = cn,
               held' = [held EXCEPT ![t].serial = cn], Goto(t, "judge"), UNCHANGED <<access, refused>>
        PROVE  TypeOK'
    <3>1. [held[t] EXCEPT !.serial = cn] \in Cookie
      BY <2>5 DEF Cookie
    <3>2. held' \in [Tab -> Cookie] /\ \A u \in Tab : u # t => held'[u] = held[u]
      BY <2>5, <3>1
    <3>3. HasSerialNumber(held'[t])
      BY <2>5 DEF Cookie, HasSerialNumber, CanTakeSerialNumber
    <3> QED  BY <2>1, <2>5, <3>2, <3>3 DEF Goto
  <2> DEFINE cn == IF current < MaxNumber THEN current + 1 ELSE MaxNumber
  <2>6. cn \in 1..MaxNumber /\ cn >= current
    OBVIOUS
  <2> QED  BY <1>4, <2>2, <2>3, <2>4, <2>5, <2>6 DEF AssignSerialNumber
<1>5. ASSUME NEW t \in Tab, Judge(t)  PROVE TypeOK'
  BY <1>5 DEF Judge, Reply, Goto
<1>6. ASSUME NEW t \in Tab, PermitClient(t)  PROVE TypeOK'
  BY <1>6 DEF PermitClient, GiveAccess, Reply
<1>7. ASSUME NEW t \in Tab, Arrive(t)  PROVE TypeOK'
  <2>1. NoCookie \in Cookie
    BY DEF NoCookie, Cookie
  <2>2. jar' \in Cookie /\ held' \in [Tab -> Cookie] /\ settled' \in BOOLEAN
    BY <1>7, <2>1 DEF Arrive, Done, Settles
  <2>3. \A u \in Tab : pc'[u] # "idle" => u # t /\ pc'[u] = pc[u] /\ held'[u] = held[u]
    BY <1>7 DEF Arrive, Done
  <2> QED  BY <1>7, <2>2, <2>3 DEF Arrive, Done
<1>8. ASSUME NEW n \in Node, Restart(n)  PROVE TypeOK'
  <2>1. NoCookie \in Cookie
    BY DEF NoCookie, Cookie
  <2>2. restarts' \in [Node -> Nat] /\ held' \in [Tab -> Cookie] /\ settled' \in BOOLEAN
    BY <1>8, <2>1 DEF Restart
  <2>3. pc' \in [Tab -> {"idle", "permitted", "assign", "judge", "permit", "reply"}]
    BY <1>8 DEF Restart
  <2>4. at' \in [Tab -> Node \cup {NoNode}]
    BY <1>8 DEF Restart
  <2>5. answer' \in [Tab -> {"none", "in", "wait", "error"}]
    BY <1>8 DEF Restart
  <2>6. \A u \in Tab : pc'[u] # "idle" => pc'[u] = pc[u] /\ held'[u] = held[u] /\ at'[u] = at[u]
    BY <1>8 DEF Restart
  <2>7. failures' \in Nat
    BY <1>8 DEF Restart, Fails
  <2> QED  BY <1>8, <2>2, <2>3, <2>4, <2>5, <2>6, <2>7 DEF Restart
<1>9. CASE Grant
  BY <1>9 DEF Grant, tabs
<1>10. CASE Tick
  <2> DEFINE Aged(k) == [k EXCEPT !.wait = IF @ > 0 THEN @ - 1 ELSE 0]
  <2>1. ASSUME NEW k \in Cookie  PROVE Aged(k) \in Cookie /\ (HasSerialNumber(k) => HasSerialNumber(Aged(k)))
    BY DEF Cookie, HasSerialNumber
  <2>2. jar' = Aged(jar) /\ held' = [t \in Tab |-> Aged(held[t])]
    BY <1>10 DEF Tick
  <2> HIDE DEF Aged
  <2>3. jar' \in Cookie /\ held' \in [Tab -> Cookie]
    BY <2>1, <2>2
  <2>4. \A t \in Tab : HasSerialNumber(held[t]) => HasSerialNumber(held'[t])
    BY <2>1, <2>2
  <2> QED  BY <1>10, <2>3, <2>4 DEF Tick
<1>11. ASSUME NEW t \in Tab, RequestFails(t)  PROVE TypeOK'
  <2> DEFINE cn == IF current < MaxNumber THEN current + 1 ELSE MaxNumber
  <2>1. /\ UNCHANGED <<number, known, restarts, jar, held, settled>> /\ failures' \in Nat
        /\ current' \in {current, cn} /\ refused' \subseteq access'
    BY <1>11 DEF RequestFails, Fails, GiveAccess
  <2>2. \E e \in {"keep", "set"} : Reply(t, "error", e)
    BY <1>11 DEF RequestFails
  <2>3. pc' \in [Tab -> {"idle", "permitted", "assign", "judge", "permit", "reply"}]
        /\ at' \in [Tab -> Node \cup {NoNode}] /\ sets' \in [Tab -> {"keep", "set", "delete"}]
        /\ answer' \in [Tab -> {"none", "in", "wait", "error"}]
    BY <2>2 DEF Reply
  <2>4. \A u \in Tab : pc'[u] # "reply" => pc'[u] = pc[u] /\ at'[u] = at[u]
    BY <2>2 DEF Reply
  <2>5. current' \in 0..MaxNumber /\ number' \in 0..current'
    BY <2>1
  <2> QED  BY <2>1, <2>3, <2>4, <2>5
<1>12. ASSUME NEW t \in Tab, Lose(t)  PROVE TypeOK'
  <2>1. NoCookie \in Cookie
    BY DEF NoCookie, Cookie
  <2>2. jar' \in Cookie /\ held' \in [Tab -> Cookie] /\ settled' \in BOOLEAN /\ failures' \in Nat
    BY <1>12, <2>1 DEF Lose, Done, Settles, Fails
  <2>3. \A u \in Tab : pc'[u] # "idle" => u # t /\ pc'[u] = pc[u] /\ held'[u] = held[u]
    BY <1>12 DEF Lose, Done
  <2> QED  BY <1>12, <2>2, <2>3 DEF Lose, Done
<1>13. CASE Refresh
  BY <1>13 DEF Refresh, tabs
<1>14. ASSUME NEW i \in IDs, Forget(i)  PROVE TypeOK'
  BY <1>14 DEF Forget, Settles, tabs
<1>15. CASE UNCHANGED vars
  BY <1>15 DEF vars, tabs
<1> QED
  BY <1>1, <1>2, <1>3, <1>4, <1>5, <1>6, <1>7, <1>8, <1>9, <1>10, <1>11, <1>12, <1>13, <1>14, <1>15
  DEF Next, Handle

-----------------------------------------------------------------------------

\* What a settled browser has: a cookie every node can decode, whose ID has
\* access and is not remembered to have none, and requests that carry it and come
\* no further than to be let in, or to fail.
SettledInv ==
    settled =>
        /\ jar.id \in access \ refused
        /\ \A n \in Node : jar.key = Key(n)
        /\ \A t \in Tab : pc[t] # "idle" =>
             /\ held[t].id = jar.id /\ held[t].key = jar.key
             /\ pc[t] = "permitted" \/ (pc[t] = "reply" /\ sets[t] = "keep")

Inv == TypeOK /\ SettledInv

\* In a settled browser no request goes on to have its serial number judged.
LEMMA SettledPermits ==
    ASSUME Inv, settled, NEW t \in Tab, Handle(t)
    PROVE  \/ Permitted(t) /\ Reply(t, "in", "keep")
           \/ Arrive(t) /\ sets[t] = "keep"
<1> USE DEF Inv, SettledInv
<1>1. pc[t] = "permitted" \/ (pc[t] = "reply" /\ sets[t] = "keep") \/ pc[t] = "idle"
  OBVIOUS
<1>2. CASE pc[t] = "reply" /\ sets[t] = "keep"
  BY <1>2 DEF Handle, Undecodable, Permitted, AssignSerialNumber, Judge, PermitClient
<1>3. CASE pc[t] = "permitted"
  <2>1. at[t] \in Node /\ held[t].key = jar.key /\ held[t].id \in access \ refused
    BY <1>3 DEF TypeOK
  <2>2. Decodable(t)
    BY <2>1 DEF Decodable
  <2> QED
    BY <1>3, <2>1, <2>2
    DEF Handle, Undecodable, Permitted, AssignSerialNumber, Judge, PermitClient, Arrive, Done
<1>4. pc[t] # "idle"
  BY DEF Handle, Undecodable, Permitted, AssignSerialNumber, Judge, PermitClient, Arrive, Done
<1> QED  BY <1>1, <1>2, <1>3, <1>4

\* A request of a settled browser that fails keeps the cookie.
LEMMA SettledFails ==
    ASSUME Inv, settled, NEW t \in Tab, RequestFails(t)
    PROVE  Reply(t, "error", "keep") /\ UNCHANGED <<access, refused, restarts, jar, held, settled>>
<1>1. pc[t] # "idle" /\ pc[t] # "reply"
  BY DEF RequestFails
<1>2. pc[t] = "permitted"
  BY <1>1 DEF Inv, SettledInv
<1> QED  BY <1>2 DEF RequestFails

\* A browser that has been let in with nothing under way has what it takes.
LEMMA LetInSettles ==
    ASSUME TypeOK', LetIn'
    PROVE  SettledInv'
  BY DEF LetIn, SettledInv

\* A request that is over without a change of the cookie leaves the rest as it is.
LEMMA SettledDone ==
    ASSUME Inv, settled, NEW t \in Tab, Done(t), UNCHANGED jar
    PROVE  SettledInv'
<1>1. UNCHANGED <<access, refused, restarts>>
  BY DEF Done
<1>2. \A u \in Tab : pc'[u] # "idle" =>
        u # t /\ pc'[u] = pc[u] /\ held'[u] = held[u] /\ sets'[u] = sets[u]
  BY DEF Done, Inv, TypeOK
<1> QED  BY <1>1, <1>2 DEF Inv, SettledInv, Key

LEMMA SettledStep == Inv /\ [Next]_vars => SettledInv'
<1> SUFFICES ASSUME Inv, [Next]_vars, settled'  PROVE SettledInv'
  BY DEF SettledInv
<1> USE DEF Inv
<1>1. ASSUME NEW t \in Tab, Send(t)  PROVE SettledInv'
  BY <1>1 DEF Send, SettledInv, TypeOK, Key
<1>2. ASSUME NEW t \in Tab, Handle(t), settled  PROVE SettledInv'
  <2>1. CASE Permitted(t) /\ Reply(t, "in", "keep")
    BY <1>2, <2>1 DEF Permitted, Reply, SettledInv, TypeOK, Key
  <2>2. CASE Arrive(t) /\ sets[t] = "keep"
    BY <1>2, <2>2, SettledDone DEF Arrive
  <2> QED  BY <1>2, <2>1, <2>2, SettledPermits
<1>3. ASSUME NEW t \in Tab, Handle(t), ~settled  PROVE SettledInv'
  <2>1. Arrive(t)
    BY <1>3 DEF Handle, Undecodable, Permitted, AssignSerialNumber, Judge, PermitClient
  <2>2. LetIn'
    BY <1>3, <2>1 DEF Arrive, Settles
  <2> QED  BY <2>2, TypeNext, LetInSettles
<1>4. ASSUME NEW t \in Tab, RequestFails(t)  PROVE SettledInv'
  <2>1. settled
    BY <1>4 DEF RequestFails
  <2>2. Reply(t, "error", "keep") /\ UNCHANGED <<access, refused, restarts, jar, held, settled>>
    BY <1>4, <2>1, SettledFails
  <2>3. pc[t] = "permitted"
    BY <1>4, <2>1 DEF RequestFails, SettledInv
  <2>4. \A u \in Tab : pc'[u] # "idle" =>
          /\ pc[u] # "idle"
          /\ \/ pc'[u] = "reply" /\ sets'[u] = "keep"
             \/ pc'[u] = pc[u] /\ sets'[u] = sets[u]
    BY <2>2, <2>3 DEF Reply, TypeOK
  <2> QED  BY <2>1, <2>2, <2>4 DEF SettledInv, Key
<1>5. ASSUME NEW t \in Tab, Lose(t)  PROVE SettledInv'
  <2>1. CASE settled
    BY <1>5, <2>1, SettledDone DEF Lose
  <2>2. CASE ~settled
    BY <1>5, <2>2, TypeNext, LetInSettles DEF Lose, Settles
  <2> QED  BY <2>1, <2>2
<1>6. ASSUME NEW n \in Node, Restart(n)  PROVE SettledInv'
  <2>1. settled /\ SharedKey /\ UNCHANGED <<jar, access, refused, sets>>
    BY <1>6 DEF Restart
  <2>2. \A k \in Node : Key(k)' = Key(k)
    BY <2>1 DEF Key
  <2>3. \A u \in Tab : pc'[u] # "idle" => pc'[u] = pc[u] /\ held'[u] = held[u]
    BY <1>6 DEF Restart
  <2> QED  BY <2>1, <2>2, <2>3 DEF SettledInv
<1>7. ASSUME NEW i \in IDs, Forget(i)  PROVE SettledInv'
  <2>1. CASE settled
    BY <1>7, <2>1 DEF Forget, tabs, SettledInv, Key
  <2>2. CASE ~settled
    BY <1>7, <2>2, TypeNext, LetInSettles DEF Forget, Settles
  <2> QED  BY <2>1, <2>2
<1>8. CASE Grant \/ Refresh
  BY <1>8 DEF Grant, Refresh, tabs, SettledInv, Key
<1>9. CASE Tick
  <2>1. jar'.id = jar.id /\ jar'.key = jar.key
    BY <1>9 DEF Tick, TypeOK, Cookie
  <2>2. \A t \in Tab : held'[t].id = held[t].id /\ held'[t].key = held[t].key
    BY <1>9 DEF Tick, TypeOK, Cookie
  <2>3. UNCHANGED <<access, refused, restarts, pc, sets, settled>>
    BY <1>9 DEF Tick
  <2> QED  BY <2>1, <2>2, <2>3 DEF SettledInv, Key
<1>10. CASE UNCHANGED vars
  BY <1>10 DEF vars, tabs, SettledInv, Key
<1> QED
  BY <1>1, <1>2, <1>3, <1>4, <1>5, <1>6, <1>7, <1>8, <1>9, <1>10 DEF Next

LEMMA Invariance == Spec => []Inv
<1>1. Init => Inv
  BY TypeInit DEF Init, Inv, SettledInv
<1>2. Inv /\ [Next]_vars => Inv'
  BY TypeNext, SettledStep DEF Inv
<1> QED  BY <1>1, <1>2, PTL DEF Spec

\* StaysIn: once a browser has been let in, with no other request under way and no
\* node that remembers to have refused it, no tab is told to wait again: however
\* many tabs and nodes there are, in whatever order their answers arrive, whatever
\* permit numbers the nodes have cached and whatever fails; with configured keys,
\* through any number of restarts.
THEOREM LetInStaysIn == Spec => StaysIn
<1>1. ASSUME Inv, [Next]_vars, settled, NEW t \in Tab, answer'[t] = "wait"
      PROVE  answer[t] = "wait"
  <2>1. ASSUME NEW u \in Tab, Handle(u)  PROVE answer'[t] \in {answer[t], "in", "none"}
    <3>1. CASE Permitted(u) /\ Reply(u, "in", "keep")
      BY <1>1, <3>1 DEF Reply, Inv, TypeOK
    <3>2. CASE Arrive(u) /\ sets[u] = "keep"
      BY <1>1, <3>2 DEF Arrive, Done, Inv, TypeOK
    <3> QED  BY <1>1, <2>1, <3>1, <3>2, SettledPermits
  <2>2. ASSUME NEW u \in Tab, RequestFails(u)  PROVE answer'[t] \in {answer[t], "error"}
    BY <1>1, <2>2, SettledFails DEF Reply, Inv, TypeOK
  <2>3. ASSUME NEW u \in Tab, Lose(u)  PROVE answer'[t] \in {answer[t], "none"}
    BY <1>1, <2>3 DEF Lose, Done, Inv, TypeOK
  <2>4. \/ answer' = answer
        \/ \E u \in Tab : Handle(u) \/ RequestFails(u) \/ Lose(u)
    BY <1>1 DEF Next, vars, tabs, Send, Restart, Grant, Refresh, Forget, Tick
  <2> QED  BY <1>1, <2>1, <2>2, <2>3, <2>4
<1>2. Inv /\ [Next]_vars =>
        [settled /\ settled' =>
             \A t \in Tab : answer'[t] = "wait" => answer[t] = "wait"]_vars
  BY <1>1
<1> QED  BY <1>2, Invariance, PTL DEF Spec, StaysIn

-----------------------------------------------------------------------------
(* Arithmetic: how many numbers k tabs may take, and what each of them that  *)
(* comes back from a late answer adds.                                       *)

Pair(k) == 3 * (k * (k + 1))

Triple(k) == (k * (k + 1)) * (k + 2)

\* What k tabs may take, but for their last pair.
Rest(k) == Triple(k) - Pair(k)

\* With room for k tabs of which l may still forget a number, c numbers taken
\* and p about to be.
Few(c, p, k, l) == 6 * (c + p) <= Rest(k) + Pair(k - l)

LEMMA ProductsGrow ==
    ASSUME NEW a \in Nat, NEW b \in Nat, NEW c \in Nat, NEW d \in Nat, a <= b, c <= d
    PROVE  a * c \in Nat /\ b * d \in Nat /\ a * c <= b * d
<1>1. PICK i \in Nat, j \in Nat : b = a + i /\ d = c + j
  <2>1. b - a \in Nat /\ d - c \in Nat /\ b = a + (b - a) /\ d = c + (d - c)
    OBVIOUS
  <2> QED  BY <2>1
<1>2. b * d = (a * c) + ((a * j) + ((i * c) + (i * j)))
  BY <1>1
<1>3. a * c \in Nat /\ a * j \in Nat /\ i * c \in Nat /\ i * j \in Nat
  BY <1>1
<1> QED  BY <1>2, <1>3

LEMMA PairsGrow ==
    ASSUME NEW a \in Nat, NEW b \in Nat, a <= b
    PROVE  /\ Pair(a) \in Nat /\ Pair(a) <= Pair(b) /\ 6 * a <= Pair(a)
           /\ Triple(a) \in Nat /\ Triple(a) <= Triple(b)
<1>1. a * (a + 1) \in Nat /\ a * (a + 1) <= b * (b + 1)
  BY ProductsGrow
<1>2. (a * (a + 1)) * (a + 2) \in Nat /\ (a * (a + 1)) * (a + 2) <= (b * (b + 1)) * (b + 2)
  <2>1. b * (b + 1) \in Nat /\ a + 2 <= b + 2 /\ a + 2 \in Nat /\ b + 2 \in Nat
    OBVIOUS
  <2> HIDE DEF Pair
  <2> DEFINE x == a * (a + 1)
             y == b * (b + 1)
  <2>2. x \in Nat /\ y \in Nat /\ x <= y
    BY <1>1, <2>1
  <2> HIDE DEF x, y
  <2>3. x * (a + 2) \in Nat /\ x * (a + 2) <= y * (b + 2)
    BY <2>1, <2>2, ProductsGrow
  <2> QED  BY <2>3 DEF x, y
<1>3. 2 * a <= a * (a + 1)
  <2>1. CASE a = 0
    BY <2>1
  <2>2. CASE a # 0
    <3>1. 2 <= a + 1
      BY <2>2
    <3>2. a * 2 <= a * (a + 1)
      BY <3>1, ProductsGrow
    <3> QED  BY <3>2
  <2> QED  BY <2>1, <2>2
<1> QED  BY <1>1, <1>2, <1>3 DEF Pair, Triple

\* The last pair apart, k tabs may take as many numbers as k - 1.
LEMMA LastPair ==
    ASSUME NEW k \in Nat
    PROVE  /\ Triple(k + 1) - Pair(k + 1) = Triple(k)
           /\ Pair(k + 1) = Pair(k) + 6 * (k + 1)
  BY DEF Triple, Pair

LEMMA RestGrows ==
    ASSUME NEW x \in Nat, NEW y \in Nat, x <= y
    PROVE  Rest(x) \in Nat /\ Rest(x) <= Rest(y) /\ Rest(x) + Pair(x) = Triple(x)
<1>1. Triple(0) = 0 /\ Pair(0) = 0 /\ Rest(0) = 0
  BY DEF Triple, Pair, Rest
<1>2. \A z \in Nat : z # 0 => z - 1 \in Nat /\ Rest(z) = Triple(z - 1)
  <2>1. ASSUME NEW z \in Nat, z # 0  PROVE z - 1 \in Nat /\ Rest(z) = Triple(z - 1)
    <3>1. PICK w \in Nat : z = w + 1 /\ z - 1 = w
      BY <2>1
    <3> QED  BY <3>1, LastPair DEF Rest
  <2> QED  BY <2>1
<1>3. Triple(x) \in Nat /\ Pair(x) \in Nat
  BY PairsGrow
<1>4. Rest(x) + Pair(x) = Triple(x)
  BY <1>3 DEF Rest
<1>5. CASE x = 0
  <2>1. Rest(y) \in Nat
    <3>1. y # 0 => Triple(y - 1) \in Nat
      BY <1>2, PairsGrow
    <3> QED  BY <1>1, <1>2, <3>1
  <2> QED  BY <1>1, <1>4, <1>5, <2>1
<1>6. CASE x # 0
  <2>1. /\ x - 1 \in Nat /\ y - 1 \in Nat /\ x - 1 <= y - 1
        /\ Rest(x) = Triple(x - 1) /\ Rest(y) = Triple(y - 1)
    BY <1>2, <1>6
  <2>2. Triple(x - 1) \in Nat /\ Triple(x - 1) <= Triple(y - 1)
    BY <2>1, PairsGrow
  <2> QED  BY <1>4, <2>1, <2>2
<1> QED  BY <1>5, <1>6

\* Numbers are only taken by those who were about to, as the room grows; or it
\* does grow, or a late answer has arrived, and anyone may come to be about to.
Pays(c, p, k, l, c1, p1, k1, l1) ==
    /\ p + l <= k /\ p1 + l1 <= k1 /\ k <= k1
    /\ \/ c1 + p1 <= c + p /\ l1 <= l
       \/ c1 = c /\ (k < k1 \/ l1 < l)

Toll == [taken : Nat, taking : Nat, room : Nat, late : Nat]

LEMMA FewStep ==
    ASSUME NEW s \in Toll, NEW r \in Toll,
           Pays(s.taken, s.taking, s.room, s.late, r.taken, r.taking, r.room, r.late),
           Few(s.taken, s.taking, s.room, s.late)
    PROVE  Few(r.taken, r.taking, r.room, r.late)
<1> DEFINE c == s.taken
           p == s.taking
           k == s.room
           l == s.late
           c1 == r.taken
           p1 == r.taking
           k1 == r.room
           l1 == r.late
<1>0. /\ c \in Nat /\ p \in Nat /\ k \in Nat /\ l \in Nat
      /\ c1 \in Nat /\ p1 \in Nat /\ k1 \in Nat /\ l1 \in Nat
      /\ p + l <= k /\ p1 + l1 <= k1 /\ k <= k1 /\ Few(c, p, k, l)
      /\ \/ c1 + p1 <= c + p /\ l1 <= l
         \/ c1 = c /\ (k < k1 \/ l1 < l)
  BY DEF Pays, Toll
<1> SUFFICES Few(c1, p1, k1, l1)
  OBVIOUS
<1> HIDE DEF c, p, k, l, c1, p1, k1, l1
<1> USE <1>0
<1>2. /\ k - l \in Nat /\ k1 - l1 \in Nat /\ p1 <= k1 - l1 /\ 6 * c <= Rest(k) + Pair(k - l)
      /\ 6 * (c + p) <= Rest(k) + Pair(k - l)
  <2>1. k - l \in Nat /\ k1 - l1 \in Nat /\ p1 <= k1 - l1 /\ 6 * c <= 6 * (c + p)
    BY <1>0
  <2>2. Rest(k) \in Nat /\ Pair(k - l) \in Nat
    BY <2>1, RestGrows, PairsGrow
  <2>3. 6 * (c + p) <= Rest(k) + Pair(k - l)
    BY DEF Few
  <2> QED  BY <2>1, <2>2, <2>3
<1>3. /\ Rest(k) \in Nat /\ Rest(k1) \in Nat /\ Rest(k) <= Rest(k1)
      /\ Pair(k - l) \in Nat /\ Pair(k1 - l1) \in Nat /\ 6 * (k1 - l1) <= Pair(k1 - l1)
  <2>1. Rest(k) \in Nat /\ Rest(k) <= Rest(k1)
    BY RestGrows
  <2>2. Rest(k1) \in Nat
    <3>1. k1 <= k1
      OBVIOUS
    <3> QED  BY <3>1, RestGrows
  <2>3. ASSUME NEW x \in Nat  PROVE Pair(x) \in Nat /\ 6 * x <= Pair(x)
    <3>1. x <= x
      OBVIOUS
    <3> QED  BY <3>1, PairsGrow
  <2> QED  BY <1>2, <2>1, <2>2, <2>3
<1>4. SUFFICES 6 * (c1 + p1) <= Rest(k1) + Pair(k1 - l1)
  BY DEF Few
<1>5. CASE c1 + p1 <= c + p /\ l1 <= l
  <2>1. k - l <= k1 - l1
    BY <1>5
  <2>2. Pair(k - l) <= Pair(k1 - l1)
    BY <1>2, <2>1, PairsGrow
  <2> QED  BY <1>2, <1>3, <1>5, <2>2
<1>6. CASE c1 = c /\ k < k1
  <2>1. PICK w \in Nat : k1 = w + 1
    <3>1. k1 - 1 \in Nat /\ k1 = (k1 - 1) + 1
      BY <1>6
    <3> QED  BY <3>1
  <2>2. Rest(k1) = Triple(w) /\ k <= w
    BY <1>6, <2>1, LastPair DEF Rest
  <2>3. Triple(k) \in Nat /\ Triple(k) <= Triple(w) /\ Triple(w) \in Nat
    BY <2>2, PairsGrow
  <2>4. Pair(k - l) <= Pair(k) /\ Pair(k) \in Nat
    <3>1. k - l <= k
      OBVIOUS
    <3> QED  BY <1>2, <3>1, PairsGrow
  <2>5. Rest(k) + Pair(k) = Triple(k)
    BY RestGrows
  <2>6. 6 * c <= Rest(k1)
    BY <1>2, <1>3, <2>2, <2>3, <2>4, <2>5
  <2>7. 6 * (c1 + p1) <= 6 * c + 6 * (k1 - l1)
    BY <1>2, <1>6
  <2> QED  BY <1>2, <1>3, <2>6, <2>7
<1>7. CASE c1 = c /\ l1 < l
  <2>1. PICK w \in Nat : k1 - l1 = w + 1
    <3>1. (k1 - l1) - 1 \in Nat /\ k1 - l1 = ((k1 - l1) - 1) + 1
      BY <1>2, <1>7
    <3> QED  BY <3>1
  <2>2. k - l <= w /\ Pair(w + 1) = Pair(w) + 6 * (w + 1)
    BY <1>2, <1>7, <2>1, LastPair
  <2>3. Pair(k - l) <= Pair(w) /\ Pair(w) \in Nat
    BY <1>2, <2>2, PairsGrow
  <2>4. 6 * (c1 + p1) <= 6 * c + 6 * (w + 1)
    BY <1>2, <1>7, <2>1
  <2> QED  BY <1>2, <1>3, <2>1, <2>2, <2>3, <2>4
<1> QED  BY <1>5, <1>6, <1>7

\* So they take no more than Triple of the room, a sixth of it each.
LEMMA FewBound ==
    ASSUME NEW c \in Nat, NEW p \in Nat, NEW k \in Nat, NEW l \in Nat,
           p + l <= k, Few(c, p, k, l)
    PROVE  6 * c <= Triple(k)
<1>1. k - l \in Nat /\ k - l <= k /\ k <= k
  OBVIOUS
<1>2. /\ Pair(k - l) \in Nat /\ Pair(k) \in Nat /\ Pair(k - l) <= Pair(k)
      /\ Triple(k) \in Nat
  BY <1>1, PairsGrow
<1>3. 6 * (c + p) <= (Triple(k) - Pair(k)) + Pair(k - l)
  BY DEF Few, Rest
<1> QED  BY <1>2, <1>3

-----------------------------------------------------------------------------
(* The cookies of a browser while no node restarts and nothing fails.      *)

Calm == failures = 0

\* The cookies that are kept, or that a request has.
InPlay == {jar} \cup {held[t] : t \in Tab}

\* A cookie has an ID and can be decoded, or it is none; it has a number only
\* when its delay is over, and access only then.
Sound(k) ==
    /\ k.id = 0 => k = NoCookie
    /\ k.id # 0 => \A n \in Node : k.key = Key(n)
    /\ k.wait > 0 => k.serial = 0
    /\ k.id \in access => k.wait = 0

\* Copies of a cookie count down together.
CookieInv ==
    /\ 0 \notin access
    /\ \A k \in InPlay : Sound(k)
    /\ \A k, m \in InPlay : k.id = m.id => k.wait = m.wait
    /\ \A t \in Tab : pc[t] = "idle" => held[t] = NoCookie
    /\ \A t \in Tab : sets[t] # "delete"

\* The cookie a tab sends, or has sent and the server is working on.
Shown(t) == IF pc[t] = "idle" THEN jar ELSE held[t]

\* The kept cookie's delay is one that a tab waits for; an answer never takes
\* the ID away; a request that keeps the cookie came from a browser with an ID.
FlowInv ==
    /\ jar.wait > 0 => \E t \in Tab : Shown(t).wait = jar.wait
    /\ \A t \in Tab :
         /\ pc[t] = "reply" => held[t].id # 0
         /\ pc[t] = "reply" /\ sets[t] = "keep" => jar.id # 0 /\ held[t].wait = 0
         /\ jar.id = 0 /\ pc[t] \notin {"idle", "reply"} => held[t].id = 0

LEMMA CalmBefore ==
    ASSUME TypeOK, [Next]_vars, Calm'
    PROVE  /\ Calm /\ restarts' = restarts /\ \A n \in Node : ~Restart(n)
           /\ \A t \in Tab : ~RequestFails(t) /\ ~Lose(t)
<1>1. ASSUME NEW n \in Node, Restart(n)  PROVE FALSE
  <2>1. failures \in Nat /\ failures' = failures + 1
    BY <1>1 DEF Restart, Fails, TypeOK
  <2> QED  BY <2>1 DEF Calm
<1>2. ASSUME NEW t \in Tab, RequestFails(t) \/ Lose(t)  PROVE FALSE
  <2>1. failures \in Nat /\ failures' = failures + 1
    BY <1>2 DEF RequestFails, Lose, Fails, TypeOK
  <2> QED  BY <2>1 DEF Calm
<1>3. \/ restarts' = restarts /\ failures' = failures
      \/ \E n \in Node : Restart(n)
      \/ \E t \in Tab : RequestFails(t) \/ Lose(t)
  BY DEF Next, vars, tabs, Send, Handle, Undecodable, Permitted, AssignSerialNumber, Judge,
         PermitClient, Arrive, Done, Grant, Refresh, Forget, Tick
<1> QED  BY <1>1, <1>2, <1>3 DEF Calm

\* While no node restarts, every cookie can be decoded.
Serve(t) ==
    \/ Send(t)  \/ Permitted(t)    \/ AssignSerialNumber(t)
    \/ Judge(t) \/ PermitClient(t) \/ Arrive(t)

\* The steps that are no request's, and leave the cookies alone.
Background == Grant \/ Refresh \/ (\E i \in IDs : Forget(i)) \/ UNCHANGED vars

LEMMA BackgroundKeeps ==
    ASSUME Background
    PROVE  UNCHANGED <<current, access, restarts, jar, pc, held, sets>>
  BY DEF Background, Grant, Refresh, Forget, vars, tabs

LEMMA Undisturbed ==
    ASSUME TypeOK, CookieInv, OneKey, [Next]_vars, Calm'
    PROVE  \/ \E t \in Tab : Serve(t)
           \/ Background
           \/ Tick
<1>1. /\ \A n \in Node : ~Restart(n)
      /\ \A t \in Tab : ~RequestFails(t) /\ ~Lose(t)
  BY CalmBefore
<1>2. ASSUME NEW t \in Tab, Undecodable(t)  PROVE FALSE
  <2>1. at[t] \in Node /\ held[t] \in InPlay /\ ~Decodable(t)
    BY <1>2 DEF Undecodable, TypeOK, InPlay
  <2>2. Sound(held[t])
    BY <2>1 DEF CookieInv
  <2> QED  BY <2>1, <2>2 DEF Sound, Decodable
<1>3. \/ \E t \in Tab : Serve(t)
      \/ Background
      \/ Tick
  BY <1>1, <1>2 DEF Next, Handle, Serve, Background
<1> QED  BY <1>3

\* What a step does to the cookies in play and to those with access.
CookieStep ==
    \/ UNCHANGED access /\ InPlay' \subseteq InPlay \cup {NoCookie}
    \/ \E k \in InPlay : k.serial # 0 /\ access' = access \cup {k.id} /\ InPlay' = InPlay
    \/ \E k \in Cookie :
         /\ k.id # 0 /\ k.serial = 0 /\ \A n \in Node : k.key = Key(n)
         /\ \A m \in InPlay : m.id # k.id
         /\ access' \subseteq access \ {k.id} /\ InPlay' \subseteq InPlay \cup {k}
    \/ \E k \in InPlay, cn \in Nat :
         /\ CanTakeSerialNumber(k)
         /\ UNCHANGED access /\ InPlay' \subseteq InPlay \cup {[k EXCEPT !.serial = cn]}

LEMMA CookiesType == ASSUME TypeOK  PROVE NoCookie \in Cookie /\ InPlay \subseteq Cookie
  BY DEF TypeOK, NoCookie, Cookie, InPlay

LEMMA ServeCookies ==
    ASSUME TypeOK, CookieInv, OneKey, Calm, NEW t \in Tab, Serve(t)
    PROVE  CookieStep
<1> USE DEF TypeOK
<1>1. jar \in InPlay /\ \A u \in Tab : held[u] \in InPlay
  BY DEF InPlay
<1>2. CASE Send(t)
  BY <1>1, <1>2 DEF Send, CookieStep, InPlay
<1>3. CASE Permitted(t) \/ Judge(t)
  BY <1>3 DEF Permitted, Judge, CookieStep, InPlay
<1>4. CASE PermitClient(t)
  BY <1>1, <1>4 DEF PermitClient, GiveAccess, CookieStep, InPlay, HasSerialNumber
<1>5. CASE Arrive(t)
  <2>1. UNCHANGED access /\ held' = [held EXCEPT ![t] = NoCookie] /\ jar' \in {jar, held[t]}
    BY <1>5 DEF Arrive, Done, CookieInv
  <2> QED  BY <1>1, <2>1 DEF CookieStep, InPlay
<1>6. CASE AssignSerialNumber(t)
  <2>1. at[t] \in Node /\ UNCHANGED jar
    BY <1>6 DEF AssignSerialNumber
  <2>2. CASE UNCHANGED <<held, access>>
    BY <2>1, <2>2 DEF CookieStep, InPlay
  <2>3. CASE AssignID(t)
    <3>1. PICK i \in 1..(Cardinality(Tab) + 1) :
            /\ i # jar.id /\ \A u \in Tab : i # held[u].id
            /\ held' = [held EXCEPT ![t] = [id |-> i, serial |-> 0, wait |-> EntryDelaySec + 1,
                                            key |-> Key(at[t])]]
            /\ access' \subseteq access \ {i}
      BY <2>3 DEF AssignID, IDs, InUse
    <3> DEFINE k == [id |-> i, serial |-> 0, wait |-> EntryDelaySec + 1, key |-> Key(at[t])]
    <3>2. k \in Cookie
      BY <2>1, KeyType, BrowserAssumption DEF Cookie
    <3>3. \A n \in Node : Key(at[t]) = Key(n)
      BY <2>1 DEF Key, OneKey
    <3>4. \A m \in InPlay : m.id # k.id
      BY <3>1 DEF InPlay
    <3>5. InPlay' \subseteq InPlay \cup {k}
      BY <2>1, <3>1 DEF InPlay
    <3> QED  BY <3>1, <3>2, <3>3, <3>4, <3>5 DEF CookieStep
  <2>4. CASE CanTakeSerialNumber(held[t]) /\ UNCHANGED access
    <3> DEFINE cn == IF current < MaxNumber THEN current + 1 ELSE MaxNumber
    <3>1. cn \in Nat
      BY BrowserAssumption
    <3>2. held' = [held EXCEPT ![t].serial = cn] \/ held' = held
      BY <1>6, <2>4 DEF AssignSerialNumber, CanTakeSerialNumber, HasSerialNumber, AssignID
    <3> HIDE DEF cn
    <3>3. InPlay' \subseteq InPlay \cup {[held[t] EXCEPT !.serial = cn]}
      BY <2>1, <3>2 DEF InPlay
    <3> QED  BY <1>1, <2>4, <3>1, <3>3 DEF CookieStep
  <2> QED  BY <1>6, <2>2, <2>3, <2>4 DEF AssignSerialNumber
<1> QED  BY <1>2, <1>3, <1>4, <1>5, <1>6 DEF Serve

LEMMA CookiesKept ==
    ASSUME TypeOK, CookieInv, CookieStep, UNCHANGED restarts
    PROVE  /\ 0 \notin access'
           /\ \A k \in InPlay' : Sound(k)'
           /\ \A k, m \in InPlay' : k.id = m.id => k.wait = m.wait
<1> DEFINE None(S, acc) ==
             /\ 0 \notin acc
             /\ \A k \in S : /\ k.id = 0 => k = NoCookie
                             /\ k.id # 0 => \A n \in Node : k.key = Key(n)
                             /\ k.wait > 0 => k.serial = 0
                             /\ k.id \in acc => k.wait = 0
             /\ \A k, m \in S : k.id = m.id => k.wait = m.wait
<1>1. None(InPlay, access)
  BY DEF CookieInv, Sound
<1>2. InPlay \subseteq Cookie /\ \A k \in Cookie : k.id \in Nat /\ k.serial \in Nat /\ k.wait \in Nat
  BY CookiesType DEF Cookie
<1>3. SUFFICES None(InPlay', access')
  BY DEF Sound, Key
<1>4. NoCookie.id = 0 /\ NoCookie.serial = 0 /\ NoCookie.wait = 0
  BY DEF NoCookie
<1>5. CASE UNCHANGED access /\ InPlay' \subseteq InPlay \cup {NoCookie}
  BY <1>1, <1>2, <1>4, <1>5
<1>6. ASSUME NEW k \in InPlay, k.serial # 0, access' = access \cup {k.id}, InPlay' = InPlay
      PROVE  None(InPlay', access')
  <2>1. k.id # 0 /\ k.wait = 0
    BY <1>1, <1>2, <1>4, <1>6
  <2> QED  BY <1>1, <1>6, <2>1
<1>7. ASSUME NEW k \in Cookie, k.id # 0, k.serial = 0, \A n \in Node : k.key = Key(n),
             \A m \in InPlay : m.id # k.id,
             access' \subseteq access \ {k.id}, InPlay' \subseteq InPlay \cup {k}
      PROVE  None(InPlay', access')
  BY <1>1, <1>7
<1>8. ASSUME NEW k \in InPlay, NEW cn \in Nat, CanTakeSerialNumber(k), UNCHANGED access,
             InPlay' \subseteq InPlay \cup {[k EXCEPT !.serial = cn]}
      PROVE  None(InPlay', access')
  <2> DEFINE j == [k EXCEPT !.serial = cn]
  <2>1. j.id = k.id /\ j.wait = 0 /\ k.wait = 0 /\ j.key = k.key /\ k.id # 0
    BY <1>2, <1>8 DEF CanTakeSerialNumber, Cookie
  <2> HIDE DEF j
  <2>2. InPlay' \subseteq InPlay \cup {j}
    BY <1>8 DEF j
  <2> QED  BY <1>1, <1>8, <2>1, <2>2
<1> QED  BY <1>5, <1>6, <1>7, <1>8 DEF CookieStep

\* Time passes for all the cookies alike.
Aged(k) == [k EXCEPT !.wait = IF @ > 0 THEN @ - 1 ELSE 0]

LEMMA AgedCookie ==
    ASSUME NEW k \in Cookie
    PROVE  /\ Aged(k).id = k.id /\ Aged(k).serial = k.serial /\ Aged(k).key = k.key
           /\ Aged(k).wait = IF k.wait > 0 THEN k.wait - 1 ELSE 0
           /\ k.wait \in Nat /\ Aged(k).wait \in Nat
           /\ k = NoCookie => Aged(k) = NoCookie
  BY DEF Aged, Cookie, NoCookie

LEMMA TickCookies ==
    ASSUME TypeOK, Tick
    PROVE  /\ jar' = Aged(jar) /\ \A t \in Tab : held'[t] = Aged(held[t]) /\ Shown(t)' = Aged(Shown(t))
           /\ InPlay' = {Aged(k) : k \in InPlay}
           /\ UNCHANGED <<current, number, access, restarts, pc, at, sets, answer, settled>>
<1>1. jar' = Aged(jar) /\ UNCHANGED <<current, number, access, restarts, pc, at, sets, answer, settled>>
  BY DEF Tick, Aged
<1>2. held' = [t \in Tab |-> Aged(held[t])]
  BY DEF Tick, Aged
<1>3. \A t \in Tab : held'[t] = Aged(held[t])
  BY <1>2
<1>4. InPlay' = {Aged(k) : k \in InPlay}
  BY <1>1, <1>3 DEF InPlay
<1> QED  BY <1>1, <1>3, <1>4 DEF Shown

LEMMA CookieInvStep ==
    ASSUME TypeOK, CookieInv, OneKey, [Next]_vars, Calm'
    PROVE  CookieInv'
<1>1. Calm /\ restarts' = restarts
  BY CalmBefore
<1>2. ASSUME NEW t \in Tab, Serve(t)  PROVE CookieInv'
  <2>1. CookieStep
    BY <1>1, <1>2, ServeCookies
  <2>2. \A u \in Tab : pc'[u] = "idle" => held'[u] = NoCookie
    BY <1>2 DEF TypeOK, CookieInv, Serve, Send, Permitted, AssignSerialNumber, AssignID, Judge,
                PermitClient, GiveAccess, Arrive, Done, Reply, Goto
  <2>3. \A u \in Tab : sets'[u] # "delete"
    BY <1>2 DEF TypeOK, CookieInv, Serve, Send, Permitted, AssignSerialNumber, Judge,
                PermitClient, GiveAccess, Arrive, Done, Reply, Goto
  <2> QED  BY <1>1, <2>1, <2>2, <2>3, CookiesKept DEF CookieInv
<1>3. CASE Tick
  <2>1. InPlay \subseteq Cookie
    BY CookiesType
  <2>2. ASSUME NEW k \in InPlay  PROVE Sound(Aged(k))'
    BY <1>3, <2>1, AgedCookie, TickCookies DEF CookieInv, Sound, Key
  <2>3. ASSUME NEW k \in InPlay, NEW m \in InPlay, Aged(k).id = Aged(m).id
        PROVE  Aged(k).wait = Aged(m).wait
    BY <2>1, <2>3, AgedCookie DEF CookieInv
  <2>4. \A t \in Tab : pc'[t] = "idle" => held'[t] = NoCookie
    <3>1. \A t \in Tab : pc[t] = "idle" => held[t] = NoCookie /\ Aged(held[t]) = NoCookie
      BY AgedCookie, CookiesType DEF CookieInv
    <3> QED  BY <1>3, <3>1, TickCookies
  <2>5. 0 \notin access' /\ \A t \in Tab : sets'[t] # "delete"
    BY <1>3, TickCookies DEF CookieInv
  <2>6. InPlay' = {Aged(k) : k \in InPlay}
    BY <1>3, TickCookies
  <2> QED  BY <2>2, <2>3, <2>4, <2>5, <2>6 DEF CookieInv
<1>4. CASE Background
  BY <1>4, BackgroundKeeps DEF CookieInv, InPlay, Sound, Key
<1> QED  BY <1>2, <1>3, <1>4, Undisturbed

LEMMA FlowInvStep ==
    ASSUME TypeOK, CookieInv, FlowInv, OneKey, [Next]_vars, Calm'
    PROVE  FlowInv'
<1> USE DEF TypeOK
<1>1. jar \in Cookie /\ \A u \in Tab : held[u] \in Cookie /\ held[u].id \in Nat /\ Sound(held[u])
  BY DEF CookieInv, InPlay, Cookie
<1> DEFINE Delay == jar.wait > 0 => \E t \in Tab : Shown(t).wait = jar.wait
           Kept(t) ==
             /\ pc[t] = "reply" => held[t].id # 0
             /\ pc[t] = "reply" /\ sets[t] = "keep" => jar.id # 0 /\ held[t].wait = 0
             /\ jar.id = 0 /\ pc[t] \notin {"idle", "reply"} => held[t].id = 0
<1>2. SUFFICES Delay' /\ \A t \in Tab : Kept(t)'
  BY DEF FlowInv
<1>3. ASSUME NEW t \in Tab, Serve(t)  PROVE Delay' /\ \A u \in Tab : Kept(u)'
  <2>1. CASE Send(t)
    <3>1. jar' = jar /\ \A u \in Tab : Shown(u)' = Shown(u)
      BY <2>1 DEF Send, Shown
    <3>2. \A u \in Tab : Kept(u)'
      BY <2>1 DEF Send, FlowInv
    <3> QED  BY <3>1, <3>2 DEF FlowInv
  <2>2. CASE Permitted(t)
    <3>1. jar' = jar /\ \A u \in Tab : Shown(u)' = Shown(u)
      BY <2>2 DEF Permitted, Reply, Goto, Shown
    <3>2. held[t].id \in access => held[t].id # 0 /\ held[t].wait = 0
      BY <1>1 DEF CookieInv, Sound
    <3>3. \A u \in Tab : Kept(u)'
      BY <2>2, <3>2 DEF Permitted, Reply, Goto, FlowInv
    <3> QED  BY <3>1, <3>3 DEF FlowInv
  <2>3. CASE Judge(t) \/ PermitClient(t)
    <3>1. jar' = jar /\ \A u \in Tab : Shown(u)' = Shown(u)
      BY <2>3 DEF Judge, PermitClient, GiveAccess, Reply, Goto, Shown
    <3>2. \A u \in Tab : Kept(u)'
      BY <2>3 DEF Judge, PermitClient, GiveAccess, Reply, Goto, FlowInv, HasSerialNumber
    <3> QED  BY <3>1, <3>2 DEF FlowInv
  <2>4. CASE Arrive(t)
    <3>1. held' = [held EXCEPT ![t] = NoCookie] /\ pc' = [pc EXCEPT ![t] = "idle"]
          /\ sets' = [sets EXCEPT ![t] = "keep"] /\ pc[t] = "reply"
      BY <2>4 DEF Arrive, Done
    <3>2. \/ sets[t] = "keep" /\ jar' = jar
          \/ sets[t] = "set" /\ jar' = held[t]
      BY <2>4 DEF Arrive, Done, CookieInv
    <3>3. jar'.id # 0
      BY <3>1, <3>2 DEF FlowInv
    <3>4. Shown(t)' = jar'
      BY <3>1 DEF Shown
    <3>5. \A u \in Tab : Kept(u)'
      BY <3>1, <3>3 DEF FlowInv
    <3> QED  BY <3>4, <3>5
  <2>5. CASE AssignSerialNumber(t)
    <3>1. jar' = jar /\ pc[t] = "assign" /\ \A u \in Tab : pc'[u] = "idle" <=> pc[u] = "idle"
      BY <2>5 DEF AssignSerialNumber, Reply, Goto
    <3>2. \A u \in Tab : u # t => pc'[u] = pc[u] /\ held'[u] = held[u] /\ sets'[u] = sets[u]
      BY <2>5 DEF AssignSerialNumber, Reply, Goto, AssignID
    <3>3. /\ held[t].id = 0 \/ (held'[t].id = held[t].id /\ held'[t].wait = held[t].wait)
          /\ pc'[t] = "reply" => held'[t].id # 0 /\ sets'[t] = "set"
          /\ pc'[t] # "reply" => held'[t].id = held[t].id
      BY <2>5 DEF AssignSerialNumber, Reply, Goto, AssignID, IDs, CanTakeSerialNumber,
                  HasSerialNumber, Cookie
    <3>4. Delay'
      <4>1. SUFFICES ASSUME jar.wait > 0  PROVE \E u \in Tab : Shown(u)'.wait = jar.wait
        BY <3>1
      <4>2. PICK u \in Tab : Shown(u).wait = jar.wait
        BY <4>1 DEF FlowInv
      <4>3. u = t => held[t].id # 0
        BY <1>1, <3>1, <4>1, <4>2 DEF Sound, NoCookie, Shown
      <4> QED  BY <3>1, <3>2, <3>3, <4>2, <4>3 DEF Shown
    <3>5. \A u \in Tab : Kept(u)'
      BY <3>1, <3>2, <3>3 DEF FlowInv
    <3> QED  BY <3>4, <3>5
  <2> QED  BY <1>3, <2>1, <2>2, <2>3, <2>4, <2>5 DEF Serve
<1>4. CASE Tick
  <2>1. /\ jar' = Aged(jar) /\ \A t \in Tab : held'[t] = Aged(held[t]) /\ Shown(t)' = Aged(Shown(t))
        /\ UNCHANGED <<pc, sets>>
    BY <1>4, TickCookies
  <2>2. \A t \in Tab : Shown(t) \in Cookie
    BY <1>1 DEF Shown
  <2>3. Delay'
    <3>1. SUFFICES ASSUME Aged(jar).wait > 0  PROVE \E t \in Tab : Shown(t)'.wait = Aged(jar).wait
      BY <2>1
    <3>2. jar.wait > 0
      BY <1>1, <3>1, AgedCookie
    <3>3. PICK t \in Tab : Shown(t).wait = jar.wait
      BY <3>2 DEF FlowInv
    <3>4. Aged(Shown(t)).wait = Aged(jar).wait
      BY <1>1, <2>2, <3>3, AgedCookie
    <3> QED  BY <2>1, <3>4
  <2>4. jar'.id = jar.id /\ \A t \in Tab : held'[t].id = held[t].id /\ (held[t].wait = 0 => held'[t].wait = 0)
    BY <1>1, <2>1, AgedCookie
  <2>5. \A t \in Tab : Kept(t)'
    BY <2>1, <2>4 DEF FlowInv
  <2> QED  BY <2>3, <2>5
<1>5. CASE Background
  BY <1>5, BackgroundKeeps DEF FlowInv, Shown
<1> QED  BY <1>3, <1>4, <1>5, Undisturbed

-----------------------------------------------------------------------------
(* The tabs that take numbers.                                             *)

Newcomers == {t \in Tab : Shown(t).id = 0}

Delays == {Shown(t).wait : t \in Tab} \ {0}

\* A late answer that will make the browser forget a number it has.
Forgetting == {t \in Tab : /\ pc[t] = "reply" /\ sets[t] = "set"
                           /\ CanTakeSerialNumber(held[t])}

\* A request that will not change the cookie.
Keeps(t) ==
    \/ pc[t] = "reply" /\ sets[t] = "keep"
    \/ pc[t] = "permitted" /\ held[t].serial # 0

\* The tabs that take a number next, if nothing else arrives.
Taking == {t \in Tab : \/ pc[t] # "reply" /\ CanTakeSerialNumber(Shown(t))
                       \/ Keeps(t) /\ CanTakeSerialNumber(jar)}

\* The tabs that have had an ID whose delay is over: a delay that is over for
\* all who wait for it, or a tab that gets an ID of a new delay, changes that.
Room == (Cardinality(Tab) - Cardinality(Newcomers)) - Cardinality(Delays)

LEMMA FiniteTabs ==
    ASSUME NEW S \in SUBSET Tab
    PROVE  IsFiniteSet(S) /\ Cardinality(S) \in Nat
  BY BrowserAssumption, FS_Subset, FS_CardinalityType

LEMMA SubsetCount ==
    ASSUME NEW S \in SUBSET Tab, NEW T \in SUBSET S
    PROVE  /\ Cardinality(S) \in Nat /\ Cardinality(T) \in Nat /\ Cardinality(T) <= Cardinality(S)
           /\ \A x \in S \ T : Cardinality(T) < Cardinality(S)
<1>1. Cardinality(S) \in Nat /\ Cardinality(T) \in Nat /\ Cardinality(T) <= Cardinality(S)
  BY FiniteTabs, FS_Subset
<1>2. Cardinality(S) = Cardinality(T) => S = T
  BY FiniteTabs, FS_Subset
<1> QED  BY <1>1, <1>2

LEMMA ImageCount ==
    ASSUME NEW S, IsFiniteSet(S), NEW f
    PROVE  LET I == {f[s] : s \in S}
           IN  IsFiniteSet(I) /\ Cardinality(I) \in Nat /\ Cardinality(I) <= Cardinality(S)
<1> DEFINE I == {f[s] : s \in S}
           g == [s \in S |-> f[s]]
<1>1. g \in Surjection(S, I)
  BY DEF Surjection
<1> QED  BY <1>1, FS_Surjection, FS_CardinalityType

LEMMA DisjointCount ==
    ASSUME NEW S \in SUBSET Tab, NEW T \in SUBSET Tab, S \cap T = {}
    PROVE  Cardinality(S \cup T) = Cardinality(S) + Cardinality(T)
<1>1. IsFiniteSet(S) /\ IsFiniteSet(T) /\ Cardinality(S) \in Nat /\ Cardinality(T) \in Nat
  BY FiniteTabs
<1>2. Cardinality(S \cup T) = Cardinality(S) + Cardinality(T) - Cardinality(S \cap T)
  BY <1>1, FS_Union
<1> QED  BY <1>1, <1>2, FS_EmptySet

\* There is room for those who take a number and those who will forget one.
Counts ==
    /\ Cardinality(Newcomers) \in Nat /\ Cardinality(Delays) \in Nat
    /\ Cardinality(Taking) \in Nat /\ Cardinality(Forgetting) \in Nat
    /\ Room \in Nat /\ Room <= Cardinality(Tab)
    /\ Cardinality(Taking) + Cardinality(Forgetting) <= Room

LEMMA Counted ==
    ASSUME TypeOK, CookieInv, FlowInv
    PROVE  Counts
<1> DEFINE Delaying == {t \in Tab : Shown(t).wait # 0}
<1>1. \A t \in Tab : /\ Shown(t) \in Cookie /\ held[t] \in Cookie
                     /\ Sound(Shown(t)) /\ Sound(held[t])
  BY DEF Shown, TypeOK, CookieInv, InPlay
<1>2. \A t \in Tab : Shown(t).id \in Nat /\ Shown(t).wait \in Nat /\ held[t].id \in Nat /\ held[t].wait \in Nat
                     /\ held[t].serial \in Nat
  BY <1>1 DEF Cookie
<1>3. Newcomers \cap Delaying = {}
  BY <1>1 DEF Newcomers, Sound, NoCookie
<1>4. (Newcomers \cup Delaying) \cap Forgetting = {}
  BY DEF Newcomers, Forgetting, CanTakeSerialNumber, Shown
<1>5. ASSUME NEW t \in Taking  PROVE t \notin Newcomers \cup Delaying \cup Forgetting
  <2>1. CASE pc[t] # "reply" /\ CanTakeSerialNumber(Shown(t))
    BY <2>1 DEF CanTakeSerialNumber, Newcomers, Forgetting
  <2>2. CASE pc[t] = "reply" /\ sets[t] = "keep"
    <3>1. t \in Tab /\ Shown(t) = held[t] /\ held[t].id # 0 /\ held[t].wait = 0
      BY <2>2 DEF Taking, Shown, FlowInv
    <3> QED  BY <2>2, <3>1 DEF Newcomers, Forgetting
  <2>3. CASE pc[t] = "permitted" /\ held[t].serial # 0
    <3>1. t \in Tab /\ Shown(t) = held[t]
      BY <2>3 DEF Taking, Shown
    <3>2. held[t].id # 0 /\ held[t].wait = 0
      BY <1>1, <1>2, <2>3, <3>1 DEF Sound, NoCookie
    <3> QED  BY <2>3, <3>1, <3>2 DEF Newcomers, Forgetting
  <2> QED  BY <2>1, <2>2, <2>3 DEF Taking, Keeps
<1>6. Newcomers \in SUBSET Tab /\ Delaying \in SUBSET Tab /\ Forgetting \in SUBSET Tab /\ Taking \in SUBSET Tab
  BY DEF Newcomers, Forgetting, Taking
<1>7. /\ Cardinality(Newcomers) \in Nat /\ Cardinality(Delaying) \in Nat
      /\ Cardinality(Forgetting) \in Nat /\ Cardinality(Taking) \in Nat /\ Cardinality(Tab) \in Nat
  BY <1>6, FiniteTabs
<1>8. Cardinality(Delays) \in Nat /\ Cardinality(Delays) <= Cardinality(Delaying)
  <2> DEFINE f == [t \in Tab |-> Shown(t).wait]
  <2>1. Delays = {f[t] : t \in Delaying}
    BY DEF Delays
  <2>2. IsFiniteSet(Delaying)
    BY <1>6, FiniteTabs
  <2> HIDE DEF Delaying, f
  <2> QED  BY <2>1, <2>2, ImageCount
<1> HIDE DEF Delaying
<1>9. Cardinality(Newcomers \cup Delaying) = Cardinality(Newcomers) + Cardinality(Delaying)
  BY <1>3, <1>6, DisjointCount
<1>10. Cardinality((Newcomers \cup Delaying) \cup Forgetting)
         = Cardinality(Newcomers) + Cardinality(Delaying) + Cardinality(Forgetting)
  <2>1. Newcomers \cup Delaying \in SUBSET Tab
    BY <1>6
  <2> QED  BY <1>4, <1>6, <1>9, <2>1, DisjointCount
<1>11. Cardinality(((Newcomers \cup Delaying) \cup Forgetting) \cup Taking)
         = Cardinality(Newcomers) + Cardinality(Delaying) + Cardinality(Forgetting) + Cardinality(Taking)
  <2>1. /\ (Newcomers \cup Delaying) \cup Forgetting \in SUBSET Tab
        /\ ((Newcomers \cup Delaying) \cup Forgetting) \cap Taking = {}
    BY <1>5, <1>6
  <2> QED  BY <1>6, <1>10, <2>1, DisjointCount
<1>12. Cardinality(((Newcomers \cup Delaying) \cup Forgetting) \cup Taking) <= Cardinality(Tab)
  <2>1. ((Newcomers \cup Delaying) \cup Forgetting) \cup Taking \in SUBSET Tab
    BY <1>6
  <2> QED  BY <2>1, BrowserAssumption, FS_Subset
<1> QED  BY <1>7, <1>8, <1>11, <1>12 DEF Counts, Room

\* A step that takes numbers takes them from those who were about to, or makes
\* room, or is a late answer.
Paid ==
    /\ Room <= Room'
    /\ \/ /\ current' + Cardinality(Taking') <= current + Cardinality(Taking)
          /\ Cardinality(Forgetting') <= Cardinality(Forgetting)
       \/ /\ current' = current
          /\ Room < Room' \/ Cardinality(Forgetting') < Cardinality(Forgetting)

LEMMA DelaysFinite == IsFiniteSet(Delays) /\ Cardinality(Delays) \in Nat
<1> DEFINE f == [t \in Tab |-> Shown(t).wait]
           I == {f[t] : t \in Tab}
<1>1. IsFiniteSet(I)
  BY BrowserAssumption, ImageCount
<1>2. Delays = I \ {0}
  BY DEF Delays
<1> HIDE DEF I
<1> QED  BY <1>1, <1>2, FS_RemoveElement, FS_CardinalityType

LEMMA NewcomersCount ==
    ASSUME Newcomers' \subseteq Newcomers
    PROVE  /\ Cardinality(Newcomers) \in Nat /\ Cardinality(Newcomers') \in Nat /\ Cardinality(Tab) \in Nat
           /\ Cardinality(Newcomers') <= Cardinality(Newcomers)
<1>1. Newcomers \in SUBSET Tab /\ Newcomers' \in SUBSET Newcomers /\ Tab \in SUBSET Tab
  BY DEF Newcomers
<1> HIDE DEF Newcomers
<1> QED  BY <1>1, SubsetCount, FiniteTabs

\* Nothing new: nobody comes to be about to take a number.
LEMMA NothingNew ==
    ASSUME TypeOK, UNCHANGED current, Newcomers' \subseteq Newcomers, Delays' \subseteq Delays,
           Forgetting' \subseteq Forgetting,
           \/ Taking' \subseteq Taking
           \/ Forgetting' # Forgetting
    PROVE  Paid
<1>1. Taking \in SUBSET Tab /\ Forgetting \in SUBSET Tab /\ current \in Nat
  BY DEF Taking, Forgetting, TypeOK
<1>2. /\ Cardinality(Newcomers) \in Nat /\ Cardinality(Newcomers') \in Nat /\ Cardinality(Tab) \in Nat
      /\ Cardinality(Newcomers') <= Cardinality(Newcomers)
  BY NewcomersCount
<1>3. /\ Cardinality(Delays) \in Nat /\ Cardinality(Delays') \in Nat
      /\ Cardinality(Delays') <= Cardinality(Delays)
  BY DelaysFinite, FS_Subset, FS_CardinalityType
<1>4. Room <= Room'
  BY <1>2, <1>3 DEF Room
<1>5. /\ Cardinality(Forgetting) \in Nat /\ Cardinality(Forgetting') \in Nat
      /\ Cardinality(Forgetting') <= Cardinality(Forgetting)
      /\ Forgetting' # Forgetting => Cardinality(Forgetting') < Cardinality(Forgetting)
  BY <1>1, SubsetCount
<1>6. CASE Taking' \subseteq Taking
  <2>1. /\ Cardinality(Taking) \in Nat /\ Cardinality(Taking') \in Nat
        /\ Cardinality(Taking') <= Cardinality(Taking)
    BY <1>1, <1>6, SubsetCount
  <2> QED  BY <1>1, <1>4, <1>5, <2>1 DEF Paid
<1> QED  BY <1>4, <1>5, <1>6 DEF Paid

\* What tab t alone does to the tabs that count.
LEMMA OneTab ==
    ASSUME NEW t \in Tab, UNCHANGED jar,
           \A u \in Tab : u # t => pc'[u] = pc[u] /\ held'[u] = held[u] /\ sets'[u] = sets[u]
    PROVE  /\ \A u \in Tab : u # t => /\ Shown(u)' = Shown(u)
                                      /\ u \in Forgetting' <=> u \in Forgetting
                                      /\ u \in Taking' <=> u \in Taking
                                      /\ u \in Newcomers' <=> u \in Newcomers
           /\ Delays' \subseteq Delays \cup {Shown(t)'.wait}
<1>1. \A u \in Tab : u # t => Shown(u)' = Shown(u)
  BY DEF Shown
<1>2. \A u \in Tab : u # t => /\ u \in Forgetting' <=> u \in Forgetting
                              /\ u \in Newcomers' <=> u \in Newcomers
  BY <1>1 DEF Forgetting, Newcomers, CanTakeSerialNumber
<1>3. \A u \in Tab : u # t => (u \in Taking' <=> u \in Taking)
  BY <1>1 DEF Taking, Keeps, CanTakeSerialNumber
<1>4. Delays' \subseteq Delays \cup {Shown(t)'.wait}
  BY <1>1 DEF Delays
<1> QED  BY <1>1, <1>2, <1>3, <1>4

LEMMA SamePaid ==
    ASSUME TypeOK, NEW t \in Tab, UNCHANGED <<current, jar>>,
           \A u \in Tab : u # t => pc'[u] = pc[u] /\ held'[u] = held[u] /\ sets'[u] = sets[u],
           Shown(t)'.id = 0 => Shown(t).id = 0,
           Shown(t)'.wait \in Delays \cup {0},
           t \in Forgetting' => t \in Forgetting,
           t \in Taking' => t \in Taking
    PROVE  Paid
<1>1. t \in Newcomers' => t \in Newcomers
  BY DEF Newcomers
<1>2. Delays' \subseteq Delays
  BY OneTab DEF Delays
<1>3. Newcomers' \subseteq Tab /\ Forgetting' \subseteq Tab /\ Taking' \subseteq Tab
  BY DEF Newcomers, Forgetting, Taking
<1>4. Newcomers' \subseteq Newcomers /\ Forgetting' \subseteq Forgetting /\ Taking' \subseteq Taking
  BY <1>1, <1>3, OneTab
<1> QED  BY <1>2, <1>4, NothingNew

LEMMA AssignPaid ==
    ASSUME TypeOK, CookieInv, FlowInv, NEW t \in Tab, AssignSerialNumber(t)
    PROVE  Paid
<1>1. /\ pc[t] = "assign" /\ UNCHANGED jar /\ Shown(t) = held[t] /\ held[t] \in Cookie
      /\ \A u \in Tab : u # t => pc'[u] = pc[u] /\ held'[u] = held[u] /\ sets'[u] = sets[u]
      /\ pc'[t] # "idle" /\ Shown(t)' = held'[t]
  BY DEF AssignSerialNumber, Reply, Goto, AssignID, TypeOK, Shown
<1>2. held[t].wait \in Delays \cup {0}
  BY <1>1 DEF Delays
<1>3. CASE HasSerialNumber(held[t]) /\ Goto(t, "judge") /\ UNCHANGED <<current, held, access, refused>>
  <2>1. pc'[t] = "judge" /\ Shown(t)' = Shown(t)
    BY <1>1, <1>3 DEF Goto, TypeOK
  <2>2. t \notin Forgetting' /\ (t \in Taking' => t \in Taking)
    BY <1>1, <2>1 DEF Forgetting, Taking, Keeps, CanTakeSerialNumber
  <2> QED  BY <1>1, <1>2, <1>3, <2>1, <2>2, SamePaid
<1>4. CASE /\ held[t].id # 0 /\ held[t].serial = 0 /\ held[t].wait > 0
           /\ Reply(t, "wait", "set") /\ UNCHANGED <<current, held, access, refused>>
  <2>1. pc'[t] = "reply" /\ sets'[t] = "set" /\ Shown(t)' = Shown(t) /\ held[t].wait # 0
    BY <1>1, <1>4 DEF Reply, TypeOK, Cookie
  <2>2. t \notin Forgetting' /\ t \notin Taking'
    BY <1>1, <1>4, <2>1 DEF Forgetting, Taking, Keeps, CanTakeSerialNumber
  <2> QED  BY <1>1, <1>2, <1>4, <2>1, <2>2, SamePaid
<1>5. CASE held[t].id = 0 /\ AssignID(t) /\ Reply(t, "wait", "set") /\ UNCHANGED current
  <2>1. /\ pc'[t] = "reply" /\ sets'[t] = "set"
        /\ held'[t].id # 0 /\ held'[t].wait = EntryDelaySec + 1 /\ held'[t].wait # 0
    BY <1>5, BrowserAssumption DEF Reply, TypeOK, AssignID, IDs
  <2>2. Taking' \subseteq Taking /\ Forgetting' \subseteq Forgetting
    <3>1. t \notin Forgetting' /\ t \notin Taking'
      BY <2>1 DEF Forgetting, Taking, Keeps, CanTakeSerialNumber
    <3>2. Forgetting' \subseteq Tab /\ Taking' \subseteq Tab
      BY DEF Forgetting, Taking
    <3> QED  BY <1>1, <3>1, <3>2, OneTab
  <2>3. /\ Taking \in SUBSET Tab /\ Forgetting \in SUBSET Tab /\ Newcomers \in SUBSET Tab
        /\ Newcomers' \in SUBSET Tab /\ t \in Newcomers /\ t \notin Newcomers'
    BY <1>1, <1>5, <2>1 DEF Taking, Forgetting, Newcomers
  <2>4. Newcomers' \subseteq Newcomers
    BY <1>1, <2>3, OneTab
  <2>5. /\ Cardinality(Newcomers) \in Nat /\ Cardinality(Newcomers') \in Nat
        /\ Cardinality(Newcomers') < Cardinality(Newcomers)
    BY <2>3, <2>4, SubsetCount
  <2>6. /\ Cardinality(Delays) \in Nat /\ Cardinality(Delays') \in Nat
        /\ Cardinality(Delays') <= Cardinality(Delays) + 1
    <3> DEFINE w == Shown(t)'.wait
    <3>1. Delays' \subseteq Delays \cup {w}
      BY <1>1, OneTab
    <3>2. IsFiniteSet(Delays \cup {w}) /\ Cardinality(Delays \cup {w}) <= Cardinality(Delays) + 1
      BY DelaysFinite, FS_AddElement
    <3>3. /\ IsFiniteSet(Delays') /\ Cardinality(Delays') <= Cardinality(Delays \cup {w})
          /\ Cardinality(Delays \cup {w}) \in Nat
      BY <3>1, <3>2, FS_Subset, FS_CardinalityType
    <3> QED  BY <3>2, <3>3, DelaysFinite, FS_CardinalityType
  <2>7. /\ Cardinality(Taking) \in Nat /\ Cardinality(Taking') \in Nat
        /\ Cardinality(Forgetting) \in Nat /\ Cardinality(Forgetting') \in Nat
        /\ Cardinality(Taking') <= Cardinality(Taking)
        /\ Cardinality(Forgetting') <= Cardinality(Forgetting)
    BY <2>2, <2>3, SubsetCount
  <2>8. Room <= Room'
    <3>1. Cardinality(Tab) \in Nat
      BY BrowserAssumption, FS_CardinalityType
    <3> QED  BY <2>5, <2>6, <3>1 DEF Room
  <2> QED  BY <1>5, <2>7, <2>8 DEF Paid, TypeOK
<1>6. CASE /\ CanTakeSerialNumber(held[t])
           /\ current' = (IF current < MaxNumber THEN current + 1 ELSE MaxNumber)
           /\ held' = [held EXCEPT ![t].serial = IF current < MaxNumber THEN current + 1 ELSE MaxNumber]
           /\ Goto(t, "judge") /\ UNCHANGED <<access, refused>>
  <2>1. current \in Nat /\ current' \in Nat /\ current' <= current + 1 /\ current' # 0
        /\ held'[t] = [held[t] EXCEPT !.serial = current']
    BY <1>1, <1>6, BrowserAssumption DEF TypeOK
  <2>2. /\ pc'[t] = "judge" /\ held'[t].serial # 0 /\ held'[t].id = held[t].id /\ held'[t].wait = held[t].wait
    BY <1>1, <1>6, <2>1 DEF Goto, TypeOK, Cookie
  <2>3. /\ Taking \in SUBSET Tab /\ Forgetting \in SUBSET Tab /\ Newcomers' \in SUBSET Tab
        /\ Taking' \in SUBSET Tab /\ Forgetting' \in SUBSET Tab
        /\ t \in Taking /\ t \notin Taking' /\ t \notin Forgetting'
        /\ t \in Newcomers' => t \in Newcomers
    BY <1>1, <1>6, <2>2 DEF Taking, Forgetting, Newcomers, Keeps, CanTakeSerialNumber
  <2>4. Taking' \subseteq Taking /\ Forgetting' \subseteq Forgetting /\ Newcomers' \subseteq Newcomers
    BY <1>1, <2>3, OneTab
  <2>5. /\ Cardinality(Taking) \in Nat /\ Cardinality(Taking') \in Nat
        /\ Cardinality(Forgetting) \in Nat /\ Cardinality(Forgetting') \in Nat
        /\ Cardinality(Taking') < Cardinality(Taking)
        /\ Cardinality(Forgetting') <= Cardinality(Forgetting)
    BY <2>3, <2>4, SubsetCount
  <2>6. Delays' \subseteq Delays
    <3>1. held'[t].wait \in Delays \cup {0}
      BY <1>2, <2>2
    <3> QED  BY <1>1, <3>1, OneTab DEF Delays
  <2>7. /\ Cardinality(Delays) \in Nat /\ Cardinality(Delays') \in Nat
        /\ Cardinality(Delays') <= Cardinality(Delays)
    BY <2>6, DelaysFinite, FS_Subset, FS_CardinalityType
  <2>8. Room <= Room'
    BY <2>4, <2>7, NewcomersCount DEF Room
  <2> QED  BY <2>1, <2>5, <2>8 DEF Paid
<1> QED  BY <1>3, <1>4, <1>5, <1>6 DEF AssignSerialNumber

LEMMA ArrivePaid ==
    ASSUME TypeOK, CookieInv, FlowInv, NEW t \in Tab, Arrive(t)
    PROVE  Paid
<1>1. /\ pc[t] = "reply" /\ UNCHANGED current /\ Shown(t) = held[t]
      /\ pc' = [pc EXCEPT ![t] = "idle"] /\ held' = [held EXCEPT ![t] = NoCookie]
      /\ sets' = [sets EXCEPT ![t] = "keep"]
      /\ held[t] \in Cookie /\ jar \in Cookie /\ held[t].id # 0
  BY DEF Arrive, Done, TypeOK, Shown, FlowInv
<1>2. /\ pc'[t] = "idle" /\ Shown(t)' = jar' /\ t \notin Forgetting'
      /\ \A u \in Tab : u # t => pc'[u] = pc[u] /\ held'[u] = held[u] /\ sets'[u] = sets[u]
  BY <1>1 DEF TypeOK, Shown, Forgetting
<1>3. CASE sets[t] = "keep"
  <2>1. UNCHANGED jar /\ jar.id # 0
    BY <1>1, <1>3 DEF Arrive, Done, FlowInv
  <2>2. jar.wait \in Delays \cup {0}
    BY <1>1 DEF FlowInv, Delays, Cookie
  <2>3. t \in Taking' => t \in Taking
    BY <1>1, <1>2, <1>3, <2>1 DEF Taking, Keeps, CanTakeSerialNumber
  <2> QED  BY <1>1, <1>2, <2>1, <2>2, <2>3, SamePaid
<1>4. CASE sets[t] = "set"
  <2>1. jar' = held[t]
    BY <1>4 DEF Arrive, Done
  <2>2. \A u \in Tab : Shown(u)' = IF pc'[u] = "idle" THEN held[t] ELSE held[u]
    BY <1>2, <2>1 DEF Shown
  <2>3. Newcomers' \subseteq Newcomers
    BY <1>1, <1>2, <2>2 DEF Newcomers, Shown
  <2>4. Delays' \subseteq Delays
    <3>1. ASSUME NEW u \in Tab  PROVE Shown(u)'.wait \in {Shown(v).wait : v \in Tab}
      <4>1. CASE pc'[u] = "idle"
        BY <1>1, <2>2, <4>1
      <4>2. CASE pc'[u] # "idle"
        BY <1>2, <2>2, <4>2 DEF Shown
      <4> QED  BY <4>1, <4>2
    <3> QED  BY <3>1 DEF Delays
  <2>5. Forgetting' \subseteq Forgetting
    BY <1>1, <1>2 DEF Forgetting, CanTakeSerialNumber
  <2>6. CASE CanTakeSerialNumber(held[t])
    <3>1. t \in Forgetting
      BY <1>1, <1>4, <2>6 DEF Forgetting
    <3> QED  BY <1>1, <1>2, <2>3, <2>4, <2>5, <3>1, NothingNew
  <2>7. CASE ~CanTakeSerialNumber(held[t])
    <3>1. ASSUME NEW u \in Tab, u \in Taking'  PROVE u \in Taking
      <4>1. ~CanTakeSerialNumber(jar)'
        BY <2>1, <2>7 DEF CanTakeSerialNumber
      <4>2. pc'[u] # "reply" /\ CanTakeSerialNumber(Shown(u))'
        BY <3>1, <4>1 DEF Taking, CanTakeSerialNumber
      <4>3. pc'[u] # "idle"
        BY <2>2, <2>7, <4>2 DEF CanTakeSerialNumber
      <4>4. u # t /\ pc[u] = pc'[u] /\ Shown(u)' = Shown(u)
        BY <1>2, <2>2, <4>3 DEF Shown
      <4> QED  BY <4>2, <4>4 DEF Taking, CanTakeSerialNumber
    <3>2. Taking' \subseteq Taking
      BY <3>1 DEF Taking
    <3> QED  BY <1>1, <2>3, <2>4, <2>5, <3>2, NothingNew
  <2> QED  BY <2>6, <2>7
<1> QED  BY <1>3, <1>4 DEF TypeOK, CookieInv

LEMMA ServePaid ==
    ASSUME TypeOK, CookieInv, FlowInv, NEW t \in Tab, Serve(t)
    PROVE  Paid
<1>1. ASSUME Send(t) \/ Permitted(t) \/ Judge(t) \/ PermitClient(t)
      PROVE  Paid
  <2>1. /\ UNCHANGED <<current, jar>> /\ Shown(t)' = Shown(t)
        /\ \A u \in Tab : u # t => pc'[u] = pc[u] /\ held'[u] = held[u] /\ sets'[u] = sets[u]
    BY <1>1 DEF Send, Permitted, Judge, PermitClient, GiveAccess, Reply, Goto, TypeOK, Shown
  <2>2. Shown(t) \in Cookie /\ Shown(t).wait \in Delays \cup {0}
    BY DEF Delays, Shown, TypeOK
  <2>3. CASE Send(t)
    <3>1. pc[t] = "idle" /\ pc'[t] = "permitted" /\ held'[t] = jar
      BY <2>3 DEF Send, TypeOK
    <3>2. t \notin Forgetting' /\ (t \in Taking' => t \in Taking)
      BY <2>1, <3>1 DEF Forgetting, Taking, Keeps, Shown, CanTakeSerialNumber
    <3> QED  BY <2>1, <2>2, <3>2, SamePaid
  <2>4. CASE Permitted(t)
    <3>1. pc[t] = "permitted" /\ held' = held /\ Shown(t) = held[t]
      BY <2>4 DEF Permitted, Shown
    <3>2. CASE held[t].id \in access /\ Reply(t, "in", "keep")
      <4>1. pc'[t] = "reply" /\ sets'[t] = "keep"
        BY <3>2 DEF Reply, TypeOK
      <4>2. held[t].id # 0 /\ held[t].wait = 0
        BY <3>2 DEF CookieInv, Sound, InPlay
      <4>3. t \notin Forgetting' /\ (t \in Taking' => t \in Taking)
        BY <2>1, <3>1, <4>1, <4>2 DEF Forgetting, Taking, Keeps, CanTakeSerialNumber
      <4> QED  BY <2>1, <2>2, <4>3, SamePaid
    <3>3. CASE Goto(t, "assign")
      <4>1. pc'[t] = "assign"
        BY <3>3 DEF Goto, TypeOK
      <4>2. t \notin Forgetting' /\ (t \in Taking' => t \in Taking)
        BY <2>1, <3>1, <4>1 DEF Forgetting, Taking, Keeps, CanTakeSerialNumber
      <4> QED  BY <2>1, <2>2, <4>2, SamePaid
    <3> QED  BY <2>4, <3>2, <3>3 DEF Permitted
  <2>5. CASE Judge(t) \/ PermitClient(t)
    <3>1. /\ pc[t] \in {"judge", "permit"} /\ held' = held /\ held[t].serial # 0
          /\ \/ pc'[t] = "permit"
             \/ pc'[t] = "reply" /\ sets'[t] = "set"
      BY <2>5 DEF Judge, PermitClient, GiveAccess, Reply, Goto, TypeOK, HasSerialNumber
    <3>2. t \notin Forgetting' /\ t \notin Taking'
      BY <2>1, <3>1 DEF Forgetting, Taking, Keeps, Shown, CanTakeSerialNumber
    <3> QED  BY <2>1, <2>2, <3>2, SamePaid
  <2> QED  BY <1>1, <2>3, <2>4, <2>5
<1> QED  BY <1>1, AssignPaid, ArrivePaid DEF Serve

LEMMA TickPaid ==
    ASSUME TypeOK, CookieInv, FlowInv, Tick
    PROVE  Paid
<1>1. /\ jar' = Aged(jar) /\ UNCHANGED <<current, pc, sets>>
      /\ \A t \in Tab : held'[t] = Aged(held[t]) /\ Shown(t)' = Aged(Shown(t))
  BY TickCookies
<1>2. \A t \in Tab : Shown(t) \in Cookie /\ held[t] \in Cookie /\ jar \in Cookie
  BY DEF Shown, TypeOK
<1>3. Newcomers' = Newcomers
  BY <1>1, <1>2, AgedCookie DEF Newcomers
<1>4. Delays \subseteq Nat \ {0} /\ \A t \in Tab : Shown(t).wait \in Delays \cup {0}
  BY <1>2 DEF Delays, Cookie
<1>5. Delays' = {w - 1 : w \in Delays \ {1}}
  <2>1. \A t \in Tab : /\ Shown(t).wait \in Nat
                       /\ Shown(t)'.wait = IF Shown(t).wait > 0 THEN Shown(t).wait - 1 ELSE 0
    BY <1>1, <1>2, AgedCookie
  <2>2. ASSUME NEW w \in Delays'  PROVE w \in {v - 1 : v \in Delays \ {1}}
    <3>1. PICK t \in Tab : w = Shown(t)'.wait /\ w # 0
      BY <2>2 DEF Delays
    <3>2. Shown(t).wait \in Nat /\ Shown(t).wait > 1 /\ w = Shown(t).wait - 1
      BY <2>1, <3>1
    <3>3. Shown(t).wait \in Delays \ {1}
      BY <3>2 DEF Delays
    <3> QED  BY <3>2, <3>3
  <2>3. ASSUME NEW v \in Delays \ {1}  PROVE v - 1 \in Delays'
    <3>1. PICK t \in Tab : v = Shown(t).wait /\ v # 0
      BY <2>3 DEF Delays
    <3>2. Shown(t)'.wait = v - 1 /\ v - 1 # 0
      BY <2>1, <2>3, <3>1
    <3> QED  BY <3>2 DEF Delays
  <2> QED  BY <2>2, <2>3
<1>6. /\ Cardinality(Delays) \in Nat /\ Cardinality(Delays') \in Nat
      /\ Cardinality(Delays') <= Cardinality(Delays)
      /\ 1 \in Delays => Cardinality(Delays') < Cardinality(Delays)
  <2>1. IsFiniteSet(Delays \ {1}) /\ Cardinality(Delays) \in Nat
        /\ Cardinality(Delays \ {1}) = IF 1 \in Delays THEN Cardinality(Delays) - 1 ELSE Cardinality(Delays)
    BY DelaysFinite, FS_RemoveElement
  <2> DEFINE f == [w \in Delays \ {1} |-> w - 1]
  <2>2. Delays' = {f[w] : w \in Delays \ {1}}
    BY <1>5
  <2> HIDE DEF f
  <2>3. Cardinality(Delays') \in Nat /\ Cardinality(Delays') <= Cardinality(Delays \ {1})
    BY <2>1, <2>2, ImageCount
  <2> QED  BY <2>1, <2>3
<1>7. Cardinality(Newcomers) \in Nat /\ Cardinality(Tab) \in Nat
  BY <1>3, NewcomersCount
<1>8. Room <= Room' /\ (1 \in Delays => Room < Room')
  BY <1>3, <1>6, <1>7 DEF Room
<1>9. CASE 1 \in Delays
  BY <1>1, <1>8, <1>9 DEF Paid
<1>10. CASE 1 \notin Delays
  <2>1. ASSUME NEW k \in Cookie, k.wait # 1
        PROVE  CanTakeSerialNumber(Aged(k)) <=> CanTakeSerialNumber(k)
    BY <2>1, AgedCookie DEF CanTakeSerialNumber
  <2>2. jar.wait # 1
    BY <1>4, <1>10 DEF FlowInv
  <2>3. \A t \in Tab : Shown(t).wait # 1
    BY <1>4, <1>10
  <2>4. \A t \in Tab : held[t].wait # 1 /\ (held'[t].serial = held[t].serial)
    <3>1. \A t \in Tab : pc[t] = "idle" => held[t].wait = 0
      BY DEF CookieInv, NoCookie
    <3> QED  BY <1>1, <1>2, <2>3, <3>1, AgedCookie DEF Shown
  <2>5. /\ CanTakeSerialNumber(jar)' <=> CanTakeSerialNumber(jar)
        /\ \A t \in Tab : /\ CanTakeSerialNumber(Shown(t))' <=> CanTakeSerialNumber(Shown(t))
                          /\ CanTakeSerialNumber(held[t])' <=> CanTakeSerialNumber(held[t])
    <3>1. /\ CanTakeSerialNumber(Aged(jar)) <=> CanTakeSerialNumber(jar)
          /\ \A t \in Tab :
               /\ CanTakeSerialNumber(Aged(Shown(t))) <=> CanTakeSerialNumber(Shown(t))
               /\ CanTakeSerialNumber(Aged(held[t])) <=> CanTakeSerialNumber(held[t])
      <4>1. CanTakeSerialNumber(Aged(jar)) <=> CanTakeSerialNumber(jar)
        BY <2>1, <2>2 DEF TypeOK
      <4>2. ASSUME NEW t \in Tab
            PROVE  /\ CanTakeSerialNumber(Aged(Shown(t))) <=> CanTakeSerialNumber(Shown(t))
                   /\ CanTakeSerialNumber(Aged(held[t])) <=> CanTakeSerialNumber(held[t])
        <5>1. /\ Shown(t) \in Cookie /\ Shown(t).wait # 1
              /\ held[t] \in Cookie /\ held[t].wait # 1
          BY <1>2, <2>3, <2>4
        <5> QED  BY <2>1, <5>1
      <4> QED  BY <4>1, <4>2
    <3>2. CanTakeSerialNumber(jar)' <=> CanTakeSerialNumber(jar)
      BY <1>1, <3>1 DEF CanTakeSerialNumber
    <3>3. ASSUME NEW t \in Tab
          PROVE  /\ CanTakeSerialNumber(Shown(t))' <=> CanTakeSerialNumber(Shown(t))
                 /\ CanTakeSerialNumber(held[t])' <=> CanTakeSerialNumber(held[t])
      <4>1. Shown(t)' = Aged(Shown(t)) /\ held'[t] = Aged(held[t])
        BY <1>1
      <4>2. CanTakeSerialNumber(Shown(t))' <=> CanTakeSerialNumber(Aged(Shown(t)))
        BY <4>1 DEF CanTakeSerialNumber
      <4>3. CanTakeSerialNumber(held[t])' <=> CanTakeSerialNumber(Aged(held[t]))
        BY <4>1 DEF CanTakeSerialNumber
      <4> QED  BY <3>1, <4>2, <4>3
    <3> QED  BY <3>2, <3>3
  <2>6. Forgetting' = Forgetting
    BY <1>1, <2>5 DEF Forgetting
  <2>7. Taking' = Taking
    BY <1>1, <2>4, <2>5 DEF Taking, Keeps
  <2>8. Cardinality(Taking) \in Nat /\ Cardinality(Forgetting) \in Nat /\ current \in Nat
    <3>1. Taking \in SUBSET Tab /\ Forgetting \in SUBSET Tab
      BY DEF Taking, Forgetting
    <3> QED  BY <3>1, FiniteTabs DEF TypeOK
  <2> QED  BY <1>1, <1>8, <2>6, <2>7, <2>8 DEF Paid
<1> QED  BY <1>9, <1>10

LEMMA PaidStep ==
    ASSUME TypeOK, CookieInv, FlowInv, OneKey, [Next]_vars, Calm'
    PROVE  Paid
<1>1. CASE Background
  <2>1. UNCHANGED <<current, jar, pc, held, sets>>
    BY <1>1, BackgroundKeeps
  <2>2. \A t \in Tab : Shown(t)' = Shown(t)
    BY <2>1 DEF Shown
  <2>3. Newcomers' = Newcomers /\ Delays' = Delays /\ Forgetting' = Forgetting /\ Taking' = Taking
    BY <2>1, <2>2 DEF Newcomers, Delays, Forgetting, Taking, Keeps, CanTakeSerialNumber
  <2> QED  BY <2>1, <2>3, NothingNew
<1> QED  BY <1>1, ServePaid, TickPaid, Undisturbed

\* What holds while no node restarts and nothing fails: of the cookies, of the tabs that count, and
\* of the numbers they have taken.
CookiesFlow == Calm => CookieInv /\ FlowInv

TabsCounted == Calm => Counts

TollInv == Calm => Few(current, Cardinality(Taking), Room, Cardinality(Forgetting))

LEMMA CookiesFlowInvariance == OneKey => (Spec => [](TypeOK /\ CookiesFlow /\ TabsCounted))
<1> SUFFICES ASSUME OneKey  PROVE Spec => [](TypeOK /\ CookiesFlow /\ TabsCounted)
  OBVIOUS
<1>1. Init => TypeOK /\ CookiesFlow
  <2> SUFFICES ASSUME Init  PROVE CookieInv /\ FlowInv
    BY TypeInit DEF CookiesFlow
  <2>1. CookieInv
    BY DEF Init, CookieInv, InPlay, Sound, NoCookie
  <2>2. FlowInv
    BY DEF Init, FlowInv, NoCookie
  <2> QED  BY <2>1, <2>2
<1>2. TypeOK /\ CookiesFlow /\ [Next]_vars => TypeOK' /\ CookiesFlow'
  <2> SUFFICES ASSUME TypeOK, CookiesFlow, [Next]_vars  PROVE CookiesFlow'
    BY TypeNext
  <2>1. ASSUME Calm'  PROVE Calm
    BY <2>1, CalmBefore
  <2> QED  BY <2>1, CookieInvStep, FlowInvStep DEF CookiesFlow
<1>3. TypeOK /\ CookiesFlow => TabsCounted
  BY Counted DEF CookiesFlow, TabsCounted
<1> QED  BY <1>1, <1>2, <1>3, PTL DEF Spec

LEMMA OneKeyFew == OneKey => (Spec => []FewNumbers)
<1> SUFFICES ASSUME OneKey  PROVE Spec => []FewNumbers
  OBVIOUS
<1> DEFINE OK == TypeOK /\ CookiesFlow /\ TabsCounted
           N == Cardinality(Tab)
<1>1. N \in Nat
  BY BrowserAssumption, FS_CardinalityType
<1>2. Init => TollInv
  <2> SUFFICES ASSUME Init  PROVE Few(current, Cardinality(Taking), Room, Cardinality(Forgetting))
    BY DEF TollInv
  <2>1. \A t \in Tab : Shown(t) = NoCookie /\ pc[t] = "idle"
    BY DEF Init, Shown
  <2>2. Newcomers = Tab /\ Delays = {} /\ Forgetting = {} /\ Taking = {}
    BY <2>1 DEF Newcomers, Delays, Forgetting, Taking, Keeps, CanTakeSerialNumber, NoCookie
  <2>3. Room = 0 /\ Cardinality(Taking) = 0 /\ Cardinality(Forgetting) = 0 /\ current = 0
    BY <1>1, <2>2, FS_EmptySet DEF Room, Init
  <2>4. Few(0, 0, 0, 0)
    BY DEF Few, Rest, Pair, Triple
  <2> QED  BY <2>3, <2>4
<1>3. OK /\ OK' /\ TollInv /\ [Next]_vars => TollInv'
  <2> SUFFICES ASSUME OK, OK', TollInv, [Next]_vars, Calm'
               PROVE  Few(current, Cardinality(Taking), Room, Cardinality(Forgetting))'
    BY DEF TollInv
  <2>1. CookieInv /\ FlowInv /\ Counts /\ Counts'
    BY CalmBefore DEF CookiesFlow, TabsCounted
  <2>2. Paid
    BY <2>1, PaidStep
  <2> DEFINE p == Cardinality(Taking)
             l == Cardinality(Forgetting)
  <2>3. /\ current \in Nat /\ p \in Nat /\ Room \in Nat /\ l \in Nat /\ p + l <= Room
        /\ current' \in Nat /\ p' \in Nat /\ Room' \in Nat /\ l' \in Nat /\ p' + l' <= Room'
    BY <2>1 DEF Counts, TypeOK
  <2>4. /\ Room <= Room'
        /\ \/ current' + p' <= current + p /\ l' <= l
           \/ current' = current /\ (Room < Room' \/ l' < l)
    BY <2>2 DEF Paid
  <2>5. Few(current, p, Room, l)
    BY CalmBefore DEF TollInv
  <2> HIDE DEF p, l
  <2>6. Few(current', p', Room', l')
    <3> DEFINE x == [taken |-> current, taking |-> p, room |-> Room, late |-> l]
    <3>1. x \in Toll /\ x' \in Toll
      BY <2>3 DEF Toll
    <3>2. /\ Pays(x.taken, x.taking, x.room, x.late, x'.taken, x'.taking, x'.room, x'.late)
          /\ Few(x.taken, x.taking, x.room, x.late)
      BY <2>3, <2>4, <2>5 DEF Pays
    <3>3. Few(x'.taken, x'.taking, x'.room, x'.late)
      <4> HIDE DEF x
      <4> QED  BY <3>1, <3>2, FewStep
    <3> QED  BY <3>3
  <2> QED  BY <2>6 DEF Few, p, l
<1>4. OK /\ TollInv => FewNumbers
  <2> SUFFICES ASSUME OK, TollInv, Calm
               PROVE  current <= (N * (N + 1) * (N + 2)) \div 6
    BY DEF FewNumbers, Calm
  <2> DEFINE p == Cardinality(Taking)
             l == Cardinality(Forgetting)
  <2>1. /\ current \in Nat /\ p \in Nat /\ l \in Nat /\ Room \in Nat /\ Room <= N /\ p + l <= Room
    BY DEF TabsCounted, Counts, TypeOK
  <2>2. Few(current, p, Room, l)
    BY DEF TollInv
  <2> HIDE DEF p, l
  <2>3. 6 * current <= Triple(Room)
    BY <2>1, <2>2, FewBound
  <2>4. Triple(Room) \in Nat /\ Triple(Room) <= Triple(N) /\ Triple(N) \in Nat
    BY <1>1, <2>1, PairsGrow
  <2>5. Triple(N) = N * (N + 1) * (N + 2)
    BY DEF Triple
  <2> HIDE DEF N
  <2> QED  BY <2>1, <2>3, <2>4, <2>5
<1> QED  BY <1>2, <1>3, <1>4, CookiesFlowInvariance, PTL DEF Spec

\* FewNumbers: with n tabs, a browser whose cookies have one key takes no more
\* than n (n + 1) (n + 2) / 6 numbers while no node restarts, no command fails and
\* no answer gets lost.
THEOREM NumbersFew == Spec => []FewNumbers
<1>1. ~OneKey => (Spec => []FewNumbers)
  <2> SUFFICES ASSUME ~OneKey  PROVE Spec => []FewNumbers
    OBVIOUS
  <2>1. FewNumbers
    BY DEF FewNumbers
  <2> QED  BY <2>1, PTL
<1> QED  BY <1>1, OneKeyFew, PTL
=============================================================================
