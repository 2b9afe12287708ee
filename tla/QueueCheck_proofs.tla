--------------------------- MODULE QueueCheck_proofs ---------------------------
(***************************************************************************)
(* The requests of any number of clients on any number of nodes: types,    *)
(* the age of what a decision rests on, and serial numbers.                *)
(***************************************************************************)
EXTENDS QueueCheck, Answers_proofs, TLAPS

Replies == {"none", "off", "white", "in", "wait", "error"}

\* What a step of a request does to it: it goes on to a command, has read a
\* number, or is answered.
GoesOn(c) ==
    /\ \E p \in Steps \ {"idle"} :
         Goto(c, p) /\ (p \in {"judge", "permit"} => held[c].serial # 0)
    /\ UNCHANGED held

Reads(c) ==
    \E v \in Off..MaxNumber : Read(c, v) /\ (pc[c] = "permitted" => v \in {0, 1})

Responds(c) ==
    \E a \in Replies, wait \in 0..MaxTold : Respond(c, a, wait)

LEMMA WaitType ==
    ASSUME NEW s \in Int, NEW cp \in Int
    PROVE  CalcRemainingWaitSecond(s, cp, Unit, Interval) \in Nat
<1> USE CheckAssumption
<1>1. ASSUME NEW m \in Nat, NEW i \in Nat  PROVE m * i \in Nat
  BY <1>1
<1>2. ASSUME NEW m \in Nat, NEW u \in Nat \ {0}  PROVE m \div u \in Nat
  BY <1>2
<1>3. CASE s - cp <= 0
  BY <1>3 DEF CalcRemainingWaitSecond
<1>4. CASE ~(s - cp <= 0)
  <2>1. (s - cp) \in Nat /\ (s - cp) \div Unit \in Nat
    BY <1>2, <1>4
  <2>2. /\ ((s - cp) \div Unit) * Interval \in Nat
        /\ ((s - cp) \div Unit + 1) * Interval \in Nat
    BY <1>1, <2>1
  <2> QED  BY <1>4, <2>2 DEF CalcRemainingWaitSecond
<1> QED  BY <1>3, <1>4

LEMMA NumberMoves ==
    ASSUME RequestType, NEW c \in Client, NEW an \in Int, WithNumber(c, an)
    PROVE  GoesOn(c) \/ Responds(c)
<1> USE CheckAssumption
<1>1. /\ held[c].serial \in Int /\ told[c] \in 0..MaxTold
      /\ pc[c] = "judge" => held[c].serial # 0
  BY DEF RequestType, Cookie
<1>2. ASSUME NEW p \in {"whiteList", "permit", "remaining"}, Goto(c, p), UNCHANGED held,
             p = "permit" => pc[c] = "judge"
      PROVE  GoesOn(c)
  BY <1>1, <1>2 DEF GoesOn, Steps
<1>3. ASSUME Answer(c, "off")  PROVE Responds(c)
  BY <1>1, <1>3 DEF Answer, Responds, Replies
<1>4. ASSUME NEW wait \in Nat,
             Respond(c, "wait", IF wait > MaxTold THEN MaxTold ELSE wait)
      PROVE  Responds(c)
  <2>1. (IF wait > MaxTold THEN MaxTold ELSE wait) \in 0..MaxTold
    OBVIOUS
  <2> QED  BY <1>4, <2>1 DEF Responds, Replies
<1> QED  BY <1>1, <1>2, <1>3, <1>4, WaitType DEF WithNumber

\* Every step of a request is one of these, but for those of AssignSerialNumber
\* that change the cookie.
LEMMA Moves ==
    ASSUME RedisType, CacheType, RequestType, NEW c \in Client, Check(c)
    PROVE  pc[c] # "idle" /\ (GoesOn(c) \/ Reads(c) \/ Responds(c) \/ AssignSerialNumber(c))
<1> USE CheckAssumption
<1>1. Host[c] \in Domain /\ told[c] \in 0..MaxTold /\ got[c] \in Int
  BY DEF RequestType, Nothing
<1>2. ASSUME pc[c] # "idle", NEW p \in {"enabled", "whiteList", "permitted", "assign"},
             Goto(c, p), UNCHANGED held
      PROVE  GoesOn(c)
  BY <1>2 DEF GoesOn, Steps
<1>3. ASSUME NEW a \in {"white", "in"}, Answer(c, a)  PROVE Responds(c)
  BY <1>1, <1>3 DEF Answer, Responds, Replies
<1>4. CASE SkipEnable(c) \/ EnableDomain(c) \/ MarkEnabled(c)
  BY <1>2, <1>4 DEF SkipEnable, EnableDomain, MarkEnabled
<1>5. CASE CachedNumber(c)
  <2>1. pc[c] # "idle" /\ at[c] \in Node
    BY <1>5 DEF CachedNumber, UsesNumber, RequestType
  <2>2. permitCache[at[c]][Host[c]].val \in Int
    BY <1>1, <2>1 DEF CacheType, Nothing
  <2> QED  BY <1>5, <2>1, <2>2, NumberMoves DEF CachedNumber
<1>6. CASE CacheNumber(c)
  BY <1>1, <1>6, NumberMoves DEF CacheNumber, UsesNumber
<1>7. CASE GetNumber(c)
  BY <1>1, <1>7 DEF GetNumber, UsesNumber, Reads, RedisType
<1>8. CASE CheckWhiteList(c)
  BY <1>2, <1>3, <1>8 DEF CheckWhiteList
<1>9. CASE CachedPermission(c) \/ CachePermission(c)
  BY <1>2, <1>3, <1>9 DEF CachedPermission, CachePermission, WithPermission
<1>10. CASE GetPermission(c)
  BY <1>10 DEF GetPermission, Reads, Off
<1>11. CASE AssignSerialNumber(c)
  BY <1>11 DEF AssignSerialNumber
<1>12. CASE PermitClient(c)
  BY <1>3, <1>12 DEF PermitClient
<1> QED
  BY <1>4, <1>5, <1>6, <1>7, <1>8, <1>9, <1>10, <1>11, <1>12 DEF Check

-----------------------------------------------------------------------------
(* Types.                                                                  *)

LEMMA CookieTypes ==
    /\ NoCookie \in Cookie /\ AssignID \in Cookie
    /\ \A k \in Cookie : [k EXCEPT !.wait = IF @ > 0 THEN @ - 1 ELSE 0] \in Cookie
    /\ \A k \in Cookie, v \in 0..MaxNumber : [k EXCEPT !.serial = v] \in Cookie
  BY CheckAssumption DEF Cookie, NoCookie, AssignID

LEMMA GoesOnType ==
    ASSUME RequestType, NEW c \in Client, pc[c] # "idle", GoesOn(c)
    PROVE  RequestType'
  BY CheckAssumption DEF RequestType, GoesOn, Goto, Nothing

LEMMA ReadsType ==
    ASSUME RequestType, NEW c \in Client, Reads(c)
    PROVE  RequestType'
  BY CheckAssumption DEF RequestType, Reads, Read, Nothing, Off

LEMMA RespondsType ==
    ASSUME RequestType, NEW c \in Client, Responds(c)
    PROVE  RequestType'
<1> USE CheckAssumption
<1>1. PICK a \in Replies, wait \in 0..MaxTold : Respond(c, a, wait)
  BY DEF Responds
<1>2. NoCookie \in Cookie /\ NoCookie.serial = 0
  BY CookieTypes DEF NoCookie
<1>3. cookie' \in [Client -> Cookie]
  BY <1>1 DEF RequestType, Respond
<1>4. \A b \in Client : cookie'[b].serial # 0 => cookie'[b].id
  BY <1>1 DEF RequestType, Respond
<1>5. /\ held' \in [Client -> Cookie] /\ at' \in [Client -> Node \cup {NoNode}]
      /\ pc' \in [Client -> Steps] /\ busy' \in [Client -> 0..MaxRequest]
  BY <1>1, <1>2 DEF RequestType, Respond, Steps
<1>6. /\ got' \in [Client -> Nothing..MaxNumber] /\ told' \in [Client -> 0..MaxTold]
      /\ answer' \in [Client -> {"none", "off", "white", "in", "wait", "error"}]
  BY <1>1 DEF RequestType, Respond, Replies, Nothing
<1>7. ASSUME NEW b \in Client
      PROVE  /\ pc'[b] # "idle" => at'[b] \in Node
             /\ pc'[b] = "permitted" => got'[b] \in {Nothing, 0, 1}
             /\ pc'[b] \in {"judge", "permit"} => held'[b].serial # 0
             /\ held'[b].serial # 0 => held'[b].id
  <2>1. CASE b = c
    BY <1>1, <1>2, <2>1 DEF RequestType, Respond
  <2>2. CASE b # c
    BY <1>1, <2>2 DEF RequestType, Respond
  <2> QED  BY <2>1, <2>2
<1> QED  BY <1>3, <1>4, <1>5, <1>6, <1>7 DEF RequestType

LEMMA AssignType ==
    ASSUME RedisType, RequestType, NEW c \in Client, AssignSerialNumber(c)
    PROVE  RequestType' /\ current' \in [Domain -> 0..MaxNumber] /\ stale' \subseteq stale
<1> USE CheckAssumption
<1> DEFINE cn == IF current[Host[c]] < MaxNumber THEN current[Host[c]] + 1 ELSE MaxNumber
<1>1. cn \in 1..MaxNumber /\ pc[c] = "assign"
  BY DEF RedisType, AssignSerialNumber
<1>2. ASSUME NEW p \in {"judge", "remaining"}, Goto(c, p), held' \in [Client -> Cookie],
             \A b \in Client : b # c => held'[b] = held[b],
             held'[c].serial # 0 => held'[c].id,
             p = "judge" => held'[c].serial # 0
      PROVE  RequestType'
  <2>1. \A b \in Client :
          /\ pc'[b] # "idle" => at'[b] \in Node
          /\ pc'[b] = "permitted" => got'[b] \in {Nothing, 0, 1}
          /\ pc'[b] \in {"judge", "permit"} => held'[b].serial # 0
          /\ cookie'[b].serial # 0 => cookie'[b].id
          /\ held'[b].serial # 0 => held'[b].id
    BY <1>1, <1>2 DEF RequestType, Goto
  <2> QED  BY <1>2, <2>1 DEF RequestType, Goto, Steps, Nothing
<1>3. CASE /\ \/ HasSerialNumber(held[c]) /\ Goto(c, "judge")
              \/ Goto(c, "remaining")
           /\ UNCHANGED <<held, current, stale>>
  BY <1>2, <1>3 DEF RequestType, RedisType, HasSerialNumber
<1>4. CASE held' = [held EXCEPT ![c] = AssignID] /\ Goto(c, "remaining") /\ UNCHANGED <<current, stale>>
  <2>1. held' \in [Client -> Cookie] /\ \A b \in Client : b # c => held'[b] = held[b]
    BY <1>4, CookieTypes DEF RequestType
  <2>2. held'[c].serial = 0
    BY <1>4 DEF RequestType, AssignID
  <2> QED  BY <1>2, <1>4, <2>1, <2>2 DEF RedisType
<1>5. CASE /\ CanTakeSerialNumber(held[c]) /\ Goto(c, "judge")
           /\ current' = [current EXCEPT ![Host[c]] = cn]
           /\ held' = [held EXCEPT ![c].serial = cn]
           /\ stale' = stale \ {c}
  <2> HIDE DEF cn
  <2>1. held' = [held EXCEPT ![c] = [held[c] EXCEPT !.serial = cn]] /\ held[c] \in Cookie
    BY <1>5 DEF RequestType
  <2>2. held' \in [Client -> Cookie] /\ \A b \in Client : b # c => held'[b] = held[b]
    <3>1. [held[c] EXCEPT !.serial = cn] \in Cookie
      BY <1>1, <2>1, CookieTypes
    <3> QED  BY <2>1, <3>1 DEF RequestType
  <2>3. held'[c].serial = cn /\ held'[c].id
    BY <1>5, <2>1 DEF RequestType, CanTakeSerialNumber, Cookie
  <2>4. current' \in [Domain -> 0..MaxNumber]
    BY <1>1, <1>5 DEF RedisType
  <2> QED  BY <1>1, <1>2, <1>5, <2>2, <2>3, <2>4
<1> QED
  BY <1>3, <1>4, <1>5 DEF AssignSerialNumber, CanTakeSerialNumber

LEMMA SendType ==
    ASSUME RequestType, NEW c \in Client, NEW n \in Node, NEW enable \in BOOLEAN, Send(c, n, enable)
    PROVE  RequestType'
  BY DEF RequestType, Send, Steps

LEMMA RestartType ==
    ASSUME RequestType, NEW n \in Node, Restart(n)
    PROVE  RequestType'
<1> USE CheckAssumption
<1>1. NoCookie \in Cookie /\ NoCookie.serial = 0
  BY CookieTypes DEF NoCookie
<1>2. /\ pc' \in [Client -> Steps] /\ at' \in [Client -> Node \cup {NoNode}]
      /\ held' \in [Client -> Cookie]
  BY <1>1 DEF RequestType, Restart, Steps
<1>3. /\ got' \in [Client -> Nothing..MaxNumber] /\ busy' \in [Client -> 0..MaxRequest]
      /\ answer' \in [Client -> {"none", "off", "white", "in", "wait", "error"}]
  BY DEF RequestType, Restart, Nothing
<1>4. \A b \in Client :
        \/ pc'[b] = "idle" /\ held'[b] = NoCookie
        \/ pc'[b] = pc[b] /\ at'[b] = at[b] /\ got'[b] = got[b] /\ held'[b] = held[b]
  BY DEF RequestType, Restart
<1> QED  BY <1>1, <1>2, <1>3, <1>4 DEF RequestType, Restart

LEMMA ForgetType ==
    ASSUME RequestType, NEW c \in Client, ForgetCookie(c)
    PROVE  RequestType'
<1>1. NoCookie \in Cookie /\ NoCookie.serial = 0
  BY CookieTypes DEF NoCookie
<1>2. /\ cookie' \in [Client -> Cookie] /\ told' \in [Client -> 0..MaxTold]
      /\ answer' \in [Client -> {"none", "off", "white", "in", "wait", "error"}]
      /\ \A b \in Client : cookie'[b].serial # 0 => cookie'[b].id
  BY CheckAssumption, <1>1 DEF RequestType, ForgetCookie
<1>3. UNCHANGED <<held, pc, at, got, busy>>
  BY DEF ForgetCookie
<1> QED  BY <1>2, <1>3 DEF RequestType

LEMMA TickType ==
    ASSUME RequestType, Tick
    PROVE  RequestType'
<1> USE CheckAssumption
<1> DEFINE Older(k) == [k EXCEPT !.wait = IF @ > 0 THEN @ - 1 ELSE 0]
<1>1. \A k \in Cookie : Older(k) \in Cookie /\ Older(k).serial = k.serial /\ Older(k).id = k.id
  BY CookieTypes DEF Cookie
<1>2. /\ cookie' = [c \in Client |-> Older(cookie[c])]
      /\ held' = [c \in Client |-> Older(held[c])]
  BY DEF Tick
<1> HIDE DEF Older
<1>3. /\ cookie' \in [Client -> Cookie] /\ held' \in [Client -> Cookie]
      /\ \A c \in Client : /\ cookie'[c].serial = cookie[c].serial /\ cookie'[c].id = cookie[c].id
                           /\ held'[c].serial = held[c].serial /\ held'[c].id = held[c].id
  BY <1>1, <1>2 DEF RequestType
<1>4. busy' \in [Client -> 0..MaxRequest] /\ told' \in [Client -> 0..MaxTold]
  BY DEF RequestType, Tick
<1>5. UNCHANGED <<pc, at, got, answer>>
  BY DEF Tick
<1> QED  BY <1>3, <1>4, <1>5 DEF RequestType

LEMMA RequestTypeStep ==
    ASSUME RedisType, CacheType, RequestType, [Next]_vars
    PROVE  RequestType'
<1> USE CheckAssumption
<1>1. ASSUME NEW c \in Client, NEW n \in Node, NEW enable \in BOOLEAN, Send(c, n, enable)
      PROVE  RequestType'
  BY <1>1, SendType
<1>2. ASSUME NEW c \in Client, Check(c)  PROVE RequestType'
  BY <1>2, Moves, GoesOnType, ReadsType, RespondsType, AssignType
<1>3. ASSUME NEW c \in Client, RequestFails(c)  PROVE RequestType'
  <2>1. told[c] \in 0..MaxTold
    BY DEF RequestType
  <2>2. Responds(c)
    BY <1>3, <2>1 DEF RequestFails, Answer, Responds, Replies
  <2> QED  BY <2>2, RespondsType
<1>4. ASSUME NEW c \in Client, ForgetCookie(c)  PROVE RequestType'
  BY <1>4, ForgetType
<1>5. ASSUME NEW n \in Node, Restart(n)  PROVE RequestType'
  BY <1>5, RestartType
<1>6. CASE UNCHANGED request
  BY <1>6 DEF request, RequestType
<1>7. CASE Tick
  BY <1>7, TickType
<1>8. ASSUME NEW d \in Domain, WorkerGrants(d) \/ Reset(d) \/ AdminWhiteList(d)
      PROVE  UNCHANGED request
  BY <1>8 DEF WorkerGrants, Reset, AdminWhiteList
<1>9. ASSUME NEW d \in Manual, AdminUpdate(d)  PROVE UNCHANGED request
  BY <1>9 DEF AdminUpdate
<1>10. UNCHANGED vars => UNCHANGED request
  BY DEF vars
<1> QED
  BY <1>1, <1>2, <1>3, <1>4, <1>5, <1>6, <1>7, <1>8, <1>9, <1>10 DEF Next

LEMMA RaisedType == \A v \in Off..MaxNumber : Raised(v) \in 0..MaxNumber
  BY CheckAssumption DEF Raised, Off

LEMMA RedisTypeStep ==
    ASSUME RedisType, RequestType, [Next]_vars
    PROVE  RedisType'
<1> USE CheckAssumption DEF Off
<1>1. CASE UNCHANGED redis
  BY <1>1 DEF redis, RedisType
<1>2. ASSUME NEW c \in Client, EnableDomain(c)  PROVE RedisType'
  BY <1>2 DEF EnableDomain, Open, RedisType, Off
<1>3. ASSUME NEW c \in Client, AssignSerialNumber(c)  PROVE RedisType'
  BY <1>3, AssignType DEF AssignSerialNumber, RedisType
<1>4. ASSUME NEW c \in Client, PermitClient(c) \/ ForgetCookie(c)  PROVE RedisType'
  BY <1>4 DEF PermitClient, ForgetCookie, RedisType
<1>5. ASSUME NEW d \in Domain, WorkerGrants(d)  PROVE RedisType'
  BY <1>5, RaisedType DEF WorkerGrants, Grant, RedisType, Off
<1>6. ASSUME NEW d \in Domain, Reset(d)  PROVE RedisType'
  BY <1>6 DEF Reset, Close, RedisType, Off
<1>7. ASSUME NEW d \in Manual, AdminUpdate(d)  PROVE RedisType'
  <2>1. PICK v \in 0..MaxNumber : number' = [number EXCEPT ![d] = v]
    BY <1>7 DEF AdminUpdate, Assign
  <2>2. PICK w \in 0..MaxNumber : current' = [current EXCEPT ![d] = w]
    BY <1>7 DEF AdminUpdate
  <2>3. UNCHANGED <<credit, access, whiteList>>
    BY <1>7 DEF AdminUpdate, Assign
  <2>4. number' \in [Domain -> Off..MaxNumber]
    <3>1. v \in Off..MaxNumber
      BY DEF Off
    <3>2. ASSUME NEW S, number \in [Domain -> S], v \in S
          PROVE  [number EXCEPT ![d] = v] \in [Domain -> S]
      BY <3>2
    <3> QED  BY <2>1, <3>1, <3>2 DEF RedisType
  <2>5. current' \in [Domain -> 0..MaxNumber]
    BY <2>2 DEF RedisType
  <2> QED  BY <2>3, <2>4, <2>5 DEF RedisType
<1>8. ASSUME NEW d \in WhiteListable, AdminWhiteList(d)  PROVE RedisType'
  BY <1>8 DEF AdminWhiteList, RedisType
<1>9. CASE Tick
  <2>1. number' \in [Domain -> Off..MaxNumber] /\ whiteList' \in SUBSET Domain
    BY <1>9 DEF Tick, PacerTick, RedisType
  <2>2. \A x \in 0..(Interval + Jitter) :
          (IF x < Interval + Jitter THEN x + 1 ELSE x) \in 0..(Interval + Jitter)
    OBVIOUS
  <2>3. credit' \in [Domain -> 0..(Interval + Jitter)]
    BY <1>9, <2>2 DEF Tick, PacerTick, RedisType
  <2>4. current' \in [Domain -> 0..MaxNumber] /\ access' \in [Client -> 0..PermittedAccessSec]
    BY <1>9 DEF Tick, RedisType
  <2> QED  BY <2>1, <2>3, <2>4 DEF RedisType
<1>10. ASSUME NEW c \in Client, Check(c)
       PROVE  UNCHANGED redis \/ EnableDomain(c) \/ AssignSerialNumber(c) \/ PermitClient(c)
  BY <1>10 DEF Check, SkipEnable, MarkEnabled, CachedNumber, GetNumber, CacheNumber,
               CheckWhiteList, CachedPermission, GetPermission, CachePermission
<1>11. ASSUME NEW c \in Client,
              RequestFails(c) \/ \E n \in Node, enable \in BOOLEAN : Send(c, n, enable)
       PROVE  UNCHANGED redis
  BY <1>11 DEF Send, RequestFails
<1>12. UNCHANGED vars => UNCHANGED redis
  BY DEF vars
<1>13. ASSUME NEW n \in Node, Restart(n)  PROVE UNCHANGED redis
  BY <1>13 DEF Restart
<1> QED
  BY <1>1, <1>2, <1>3, <1>4, <1>5, <1>6, <1>7, <1>8, <1>9, <1>10, <1>11, <1>12, <1>13 DEF Next

NumberEntry == [val : Nothing..MaxNumber, ttl : Nat]

FlagEntry == [val : {Nothing, 0, 1}, ttl : Nat]

LEMMA EntryTypes ==
    /\ NoEntry \in NumberEntry /\ NoEntry \in FlagEntry
    /\ EnableCacheSec \in Nat
    /\ \A v \in Nothing..MaxNumber, positive \in BOOLEAN : Entry(v, positive) \in NumberEntry
    /\ \A v \in {Nothing, 0, 1}, positive \in BOOLEAN : Entry(v, positive) \in FlagEntry
    /\ \A entry \in NumberEntry : Aged(entry) \in NumberEntry
    /\ \A entry \in FlagEntry : Aged(entry) \in FlagEntry
<1> USE CheckAssumption DEF NumberEntry, FlagEntry, NoEntry, Nothing
<1>1. NoEntry \in NumberEntry /\ NoEntry \in FlagEntry
  OBVIOUS
<1>2. EnableCacheSec \in Nat
  BY DEF EnableCacheSec
<1>3. /\ \A v \in Nothing..MaxNumber, positive \in BOOLEAN : Entry(v, positive) \in NumberEntry
      /\ \A v \in {Nothing, 0, 1}, positive \in BOOLEAN : Entry(v, positive) \in FlagEntry
  BY DEF Entry
<1>4. \A entry \in NumberEntry : Aged(entry) \in NumberEntry
  BY <1>1 DEF Aged
<1>5. \A entry \in FlagEntry : Aged(entry) \in FlagEntry
  BY <1>1 DEF Aged
<1> QED  BY <1>1, <1>2, <1>3, <1>4, <1>5

LEMMA CacheTypeStep ==
    ASSUME CacheType, RequestType, [Next]_vars
    PROVE  CacheType'
<1> USE CheckAssumption
<1> USE DEF CacheType, NumberEntry, FlagEntry
<1>1. CASE UNCHANGED caches
  BY <1>1 DEF caches
<1>2. ASSUME NEW c \in Client, MarkEnabled(c)  PROVE CacheType'
  <2>1. EnableCacheSec \in 0..EnableCacheSec
    BY EntryTypes
  <2> QED  BY <1>2, <2>1, EntryTypes DEF MarkEnabled
<1>3. ASSUME NEW c \in Client, CacheNumber(c)  PROVE CacheType'
  <2>1. Entry(got[c], got[c] # Off) \in NumberEntry
    BY EntryTypes DEF RequestType
  <2> QED  BY <1>3, <2>1 DEF CacheNumber
<1>4. ASSUME NEW c \in Client, CheckWhiteList(c)  PROVE CacheType'
  <2>1. /\ [val |-> 1, ttl |-> CacheTTLSec] \in FlagEntry
        /\ [val |-> 0, ttl |-> NegativeCacheTTLSec] \in FlagEntry
    OBVIOUS
  <2>2. PICK entry \in FlagEntry :
          whiteCache' \in {whiteCache, [whiteCache EXCEPT ![at[c]][Host[c]] = entry]}
    BY <1>4, <2>1 DEF CheckWhiteList, Entry
  <2>3. UNCHANGED <<enableCache, permitCache, clientCache>>
    BY <1>4 DEF CheckWhiteList
  <2>4. whiteCache' \in [Node -> [Domain -> FlagEntry]]
    <3> HIDE DEF FlagEntry
    <3>1. whiteCache \in [Node -> [Domain -> FlagEntry]]
      BY DEF FlagEntry
    <3>2. at[c] \in Node /\ Host[c] \in Domain
      BY <1>4 DEF CheckWhiteList, RequestType
    <3> HIDE DEF CacheType
    <3> QED  BY <2>2, <3>1, <3>2
  <2> QED  BY <2>3, <2>4
<1>5. ASSUME NEW c \in Client, CachePermission(c)  PROVE CacheType'
  <2>1. Entry(got[c], got[c] = 1) \in FlagEntry
    BY <1>5, EntryTypes DEF RequestType, CachePermission
  <2> QED  BY <1>5, <2>1 DEF CachePermission
<1>6. ASSUME NEW c \in Client, ForgetCookie(c)  PROVE CacheType'
  BY <1>6, EntryTypes DEF ForgetCookie
<1>7. ASSUME NEW n \in Node, Restart(n)  PROVE CacheType'
  <2>1. /\ [d \in Domain |-> 0] \in [Domain -> 0..EnableCacheSec]
        /\ [d \in Domain |-> NoEntry] \in [Domain -> NumberEntry]
        /\ [d \in Domain |-> NoEntry] \in [Domain -> FlagEntry]
        /\ [c \in Client |-> NoEntry] \in [Client -> FlagEntry]
    BY EntryTypes
  <2> QED  BY <1>7, <2>1 DEF Restart
<1>8. CASE Tick
  <2>1. enableCache' \in [Node -> [Domain -> 0..EnableCacheSec]]
    <3>1. ASSUME NEW k \in 0..EnableCacheSec
          PROVE  (IF k > 0 THEN k - 1 ELSE 0) \in 0..EnableCacheSec
      BY EntryTypes
    <3>2. \A n \in Node, d \in Domain : enableCache[n][d] \in 0..EnableCacheSec
      OBVIOUS
    <3> QED  BY <1>8, <3>1, <3>2 DEF Tick
  <2>2. permitCache' \in [Node -> [Domain -> NumberEntry]]
    BY <1>8, EntryTypes DEF Tick
  <2>3. clientCache' \in [Node -> [Client -> FlagEntry]]
    BY <1>8, EntryTypes DEF Tick
  <2>4. whiteCache' \in [Node -> [Domain -> FlagEntry]]
    BY <1>8, EntryTypes DEF Tick
  <2> QED  BY <2>1, <2>2, <2>3, <2>4
<1>9. ASSUME NEW c \in Client, Check(c)
      PROVE  \/ UNCHANGED caches
             \/ MarkEnabled(c) \/ CacheNumber(c) \/ CheckWhiteList(c) \/ CachePermission(c)
  BY <1>9 DEF Check, SkipEnable, EnableDomain, CachedNumber, GetNumber, CachedPermission,
              GetPermission, AssignSerialNumber, PermitClient
<1>10. ASSUME NEW c \in Client,
              RequestFails(c) \/ \E n \in Node, enable \in BOOLEAN : Send(c, n, enable)
       PROVE  UNCHANGED caches
  BY <1>10 DEF Send, RequestFails
<1>11. ASSUME NEW d, WorkerGrants(d) \/ Reset(d) \/ AdminUpdate(d) \/ AdminWhiteList(d)
       PROVE  UNCHANGED caches
  BY <1>11 DEF WorkerGrants, Reset, AdminUpdate, AdminWhiteList
<1>12. UNCHANGED vars => UNCHANGED caches
  BY DEF vars
<1> HIDE DEF CacheType
<1> QED
  BY <1>1, <1>2, <1>3, <1>4, <1>5, <1>6, <1>7, <1>8, <1>9, <1>10, <1>11, <1>12 DEF Next

LEMMA GhostTypeStep ==
    ASSUME RedisType, RequestType, GhostType, [Next]_vars
    PROVE  GhostType'
<1> USE CheckAssumption DEF Off
<1>1. CASE Tick
  <2>1. stale' \in SUBSET Client
    BY <1>1 DEF GhostType, Tick, Renumbered
  <2>2. lapsed' \in [Client -> 0..Horizon]
    BY <1>1 DEF GhostType, Tick
  <2>3. ago' \in [Domain -> [Off..MaxNumber -> 0..Horizon]]
    <3>1. \A d \in Domain, v \in Off..MaxNumber :
            (IF number'[d] = v THEN 0 ELSE IF ago[d][v] < Horizon THEN ago[d][v] + 1 ELSE Horizon)
              \in 0..Horizon
      BY DEF GhostType
    <3> QED  BY <1>1, <3>1 DEF Tick
  <2> QED  BY <2>1, <2>2, <2>3 DEF GhostType
<1>2. CASE Remember /\ lapsed' = lapsed /\ stale' \in SUBSET Client
  <2>1. \A d \in Domain, v \in Off..MaxNumber :
          (IF number'[d] = v THEN 0 ELSE ago[d][v]) \in 0..Horizon
    BY DEF GhostType
  <2>2. ago' \in [Domain -> [Off..MaxNumber -> 0..Horizon]]
    BY <1>2, <2>1 DEF Remember
  <2> QED  BY <1>2, <2>2 DEF GhostType
<1>3. CASE ago' = ago /\ lapsed' = lapsed /\ stale' \in SUBSET Client
  <2> HIDE CheckAssumption DEF Off
  <2>1. /\ ago \in [Domain -> [Off..MaxNumber -> 0..Horizon]]
        /\ lapsed \in [Client -> 0..Horizon]
    BY DEF GhostType
  <2> QED  BY <1>3, <2>1 DEF GhostType
<1>4. ASSUME NEW c \in Client, PermitClient(c) \/ ForgetCookie(c)  PROVE GhostType'
  <2>1. ago' = ago /\ stale' \in {stale, stale \ {c}}
    BY <1>4 DEF PermitClient, ForgetCookie
  <2>2. \E x \in 0..Horizon : lapsed' = [lapsed EXCEPT ![c] = x]
    BY <1>4 DEF PermitClient, ForgetCookie
  <2>3. lapsed' \in [Client -> 0..Horizon] /\ stale' \in SUBSET Client
    BY <2>1, <2>2 DEF GhostType
  <2> HIDE CheckAssumption DEF Off
  <2>4. ago \in [Domain -> [Off..MaxNumber -> 0..Horizon]]
    BY DEF GhostType
  <2> QED  BY <2>1, <2>3, <2>4 DEF GhostType
<1>5. ASSUME NEW c \in Client, Check(c)
      PROVE  \/ PermitClient(c)
             \/ lapsed' = lapsed /\ stale' \in SUBSET Client /\ (ago' = ago \/ Remember)
  <2>1. CASE AssignSerialNumber(c)
    BY <2>1, AssignType DEF GhostType, AssignSerialNumber
  <2> QED
    BY <1>5, <2>1 DEF GhostType, ghosts, Check, SkipEnable, EnableDomain, MarkEnabled, CachedNumber,
          GetNumber, CacheNumber, CheckWhiteList, CachedPermission, GetPermission, CachePermission
<1>6. ASSUME NEW c \in Client,
             RequestFails(c) \/ \E n \in Node, enable \in BOOLEAN : Send(c, n, enable)
      PROVE  ago' = ago /\ lapsed' = lapsed /\ stale' \in SUBSET Client
  BY <1>6 DEF Send, RequestFails, ghosts, GhostType
<1>7. ASSUME NEW d, WorkerGrants(d) \/ Reset(d) \/ AdminUpdate(d) \/ AdminWhiteList(d)
      PROVE  lapsed' = lapsed /\ stale' \in SUBSET Client /\ (ago' = ago \/ Remember)
  BY <1>7 DEF WorkerGrants, Reset, AdminUpdate, AdminWhiteList, Renumbered, ghosts, GhostType
<1>8. ASSUME NEW n \in Node, Restart(n)
      PROVE  ago' = ago /\ lapsed' = lapsed /\ stale' \in SUBSET Client
  BY <1>8 DEF Restart, ghosts, GhostType
<1>9. UNCHANGED vars => ago' = ago /\ lapsed' = lapsed /\ stale' \in SUBSET Client
  BY DEF vars, ghosts, GhostType
<1> QED
  BY <1>1, <1>2, <1>3, <1>4, <1>5, <1>6, <1>7, <1>8, <1>9 DEF Next

LEMMA TypeInit == Init => TypeOK
<1> SUFFICES ASSUME Init  PROVE TypeOK
  OBVIOUS
<1> USE CheckAssumption
<1>1. RedisType
  BY DEF Init, PacerInit, RedisType, Off
<1>2. CacheType
  BY EntryTypes DEF Init, CacheType, NumberEntry, FlagEntry
<1>3. RequestType
  BY CookieTypes DEF Init, RequestType, Nothing, Steps, NoCookie
<1>4. GhostType
  BY DEF Init, GhostType
<1> QED  BY <1>1, <1>2, <1>3, <1>4 DEF TypeOK

LEMMA TypeStep == TypeOK /\ [Next]_vars => TypeOK'
  BY RedisTypeStep, CacheTypeStep, RequestTypeStep, GhostTypeStep DEF TypeOK

\* The types of Check and of what it works on: whatever overlaps, fails and
\* expires, nobody is judged without a serial number, no cookie has one and no
\* ID, and no counter leaves its bound.
THEOREM CheckTypeCorrect == Spec => []TypeOK
  BY TypeInit, TypeStep, PTL DEF Spec

-----------------------------------------------------------------------------
(* Serial numbers.                                                         *)

\* The server's copy of a cookie is of the request under way, and has the
\* serial number the browser has, if it has one.
HeldInv ==
    \A c \in Client :
        /\ pc[c] = "idle" => held[c].serial = 0
        /\ pc[c] # "idle" => cookie[c].serial \in {0, held[c].serial}

\* What a step does to the cookies.
LEMMA CookieSteps ==
    ASSUME TypeOK, [Next]_vars
    PROVE  \/ UNCHANGED <<cookie, held>> /\ \A c \in Client : pc[c] = "idle" <=> pc'[c] = "idle"
           \/ Tick
           \/ \E c \in Client :
                \/ \E n \in Node, enable \in BOOLEAN : Send(c, n, enable)
                \/ Responds(c)
                \/ AssignSerialNumber(c)
                \/ ForgetCookie(c)
           \/ \E n \in Node : Restart(n)
<1> DEFINE Kept == UNCHANGED <<cookie, held>> /\ \A c \in Client : pc[c] = "idle" <=> pc'[c] = "idle"
<1>1. ASSUME NEW c \in Client, Check(c)  PROVE Kept \/ Responds(c) \/ AssignSerialNumber(c)
  <2>1. pc[c] # "idle" /\ (GoesOn(c) \/ Reads(c) \/ Responds(c) \/ AssignSerialNumber(c))
    BY <1>1, Moves DEF TypeOK
  <2>2. CASE GoesOn(c)
    BY <2>1, <2>2 DEF GoesOn, Goto, TypeOK, RequestType
  <2>3. CASE Reads(c)
    BY <2>3 DEF Reads, Read
  <2> QED  BY <2>1, <2>2, <2>3
<1>2. ASSUME NEW c \in Client, RequestFails(c)  PROVE Responds(c)
  BY <1>2 DEF RequestFails, Answer, Responds, Replies, TypeOK, RequestType
<1>3. ASSUME NEW d, WorkerGrants(d) \/ Reset(d) \/ AdminUpdate(d) \/ AdminWhiteList(d)  PROVE Kept
  BY <1>3 DEF WorkerGrants, Reset, AdminUpdate, AdminWhiteList, request
<1>4. UNCHANGED vars => Kept
  BY DEF vars, request
<1> HIDE DEF Kept
<1>5. \/ Kept \/ Tick
      \/ \E c \in Client :
           \/ \E n \in Node, enable \in BOOLEAN : Send(c, n, enable)
           \/ Responds(c) \/ AssignSerialNumber(c) \/ ForgetCookie(c)
      \/ \E n \in Node : Restart(n)
  BY <1>1, <1>2, <1>3, <1>4 DEF Next
<1> QED  BY <1>5 DEF Kept

\* A second that passes leaves serial numbers alone.
LEMMA TickSerials ==
    ASSUME TypeOK, Tick, NEW c \in Client
    PROVE  cookie'[c].serial = cookie[c].serial /\ held'[c].serial = held[c].serial
<1>1. \A k \in Cookie : [k EXCEPT !.wait = IF @ > 0 THEN @ - 1 ELSE 0].serial = k.serial
  BY DEF Cookie
<1> QED  BY <1>1 DEF Tick, TypeOK, RequestType

\* What AssignSerialNumber does to the cookie of the request.
LEMMA AssignSerials ==
    ASSUME TypeOK, HeldInv, NEW c \in Client, AssignSerialNumber(c)
    PROVE  /\ UNCHANGED cookie /\ pc[c] = "assign" /\ pc'[c] # "idle"
           /\ \A b \in Client : b # c => held'[b] = held[b] /\ pc'[b] = pc[b]
           /\ \/ held'[c].serial = held[c].serial /\ UNCHANGED <<current, stale>>
              \/ /\ held[c].serial = 0 /\ cookie[c].serial = 0
                 /\ held'[c].serial = current'[Host[c]]
                 /\ stale' = stale \ {c}
                 /\ current' = [current EXCEPT ![Host[c]] =
                                  IF @ < MaxNumber THEN @ + 1 ELSE MaxNumber]
<1> USE CheckAssumption DEF TypeOK
<1>1. /\ UNCHANGED cookie /\ pc[c] = "assign" /\ pc'[c] # "idle"
      /\ \A b \in Client : b # c => held'[b] = held[b] /\ pc'[b] = pc[b]
  BY DEF AssignSerialNumber, Goto, RequestType
<1>2. CASE UNCHANGED <<held, current, stale>>
  BY <1>1, <1>2
<1>3. CASE ~held[c].id /\ held' = [held EXCEPT ![c] = AssignID] /\ UNCHANGED <<current, stale>>
  <2>1. held[c].serial = 0 /\ held'[c].serial = 0
    BY <1>3 DEF RequestType, AssignID
  <2> QED  BY <1>1, <1>3, <2>1
<1>4. CASE /\ CanTakeSerialNumber(held[c])
           /\ current' = [current EXCEPT ![Host[c]] =
                            IF current[Host[c]] < MaxNumber THEN current[Host[c]] + 1 ELSE MaxNumber]
           /\ held' = [held EXCEPT ![c].serial =
                            IF current[Host[c]] < MaxNumber THEN current[Host[c]] + 1 ELSE MaxNumber]
           /\ stale' = stale \ {c}
  <2>1. held[c].serial = 0 /\ cookie[c].serial = 0
    BY <1>1, <1>4 DEF CanTakeSerialNumber, HeldInv
  <2>2. held'[c].serial = current'[Host[c]]
    BY <1>4 DEF RequestType, RedisType, Cookie
  <2> QED  BY <1>1, <1>4, <2>1, <2>2
<1> QED  BY <1>2, <1>3, <1>4 DEF AssignSerialNumber

LEMMA HeldStep == TypeOK /\ HeldInv /\ [Next]_vars => HeldInv'
<1> SUFFICES ASSUME TypeOK, HeldInv, [Next]_vars  PROVE HeldInv'
  OBVIOUS
<1>1. CASE UNCHANGED <<cookie, held>> /\ \A c \in Client : pc[c] = "idle" <=> pc'[c] = "idle"
  BY <1>1 DEF HeldInv
<1>2. CASE Tick
  <2>1. UNCHANGED pc
    BY <1>2 DEF Tick
  <2> QED  BY <1>2, <2>1, TickSerials DEF HeldInv
<1>3. ASSUME NEW c \in Client, NEW n \in Node, NEW enable \in BOOLEAN, Send(c, n, enable)
      PROVE  HeldInv'
  BY <1>3 DEF Send, HeldInv, TypeOK, RequestType
<1>4. ASSUME NEW c \in Client, Responds(c)  PROVE HeldInv'
  BY <1>4 DEF Responds, Respond, HeldInv, TypeOK, RequestType, NoCookie
<1>5. ASSUME NEW c \in Client, AssignSerialNumber(c)  PROVE HeldInv'
  <2>1. cookie[c].serial \in {0, held[c].serial}
    BY <1>5, AssignSerials DEF HeldInv
  <2>2. cookie'[c].serial \in {0, held'[c].serial} /\ pc'[c] # "idle"
    BY <1>5, <2>1, AssignSerials
  <2>3. ASSUME NEW b \in Client, b # c
        PROVE  held'[b] = held[b] /\ pc'[b] = pc[b] /\ cookie'[b] = cookie[b]
    BY <1>5, <2>3, AssignSerials
  <2> QED  BY <2>2, <2>3 DEF HeldInv
<1>6. ASSUME NEW c \in Client, ForgetCookie(c)  PROVE HeldInv'
  BY <1>6 DEF ForgetCookie, HeldInv, TypeOK, RequestType, NoCookie
<1>7. ASSUME NEW n \in Node, Restart(n)  PROVE HeldInv'
  BY <1>7 DEF Restart, HeldInv, TypeOK, RequestType, NoCookie
<1> QED
  BY <1>1, <1>2, <1>3, <1>4, <1>5, <1>6, <1>7, CookieSteps

\* Only AssignSerialNumber makes new serial numbers.
LEMMA NoNewSerials ==
    ASSUME TypeOK, HeldInv, [Next]_vars, NEW b \in Client,
           ~AssignSerialNumber(b) \/ held'[b].serial = held[b].serial
    PROVE  Serials(b)' \subseteq Serials(b)
<1> USE DEF Serials
<1>1. CASE UNCHANGED <<cookie, held>>
  BY <1>1
<1>2. CASE Tick
  BY <1>2, TickSerials
<1>3. ASSUME NEW c \in Client, NEW n \in Node, NEW enable \in BOOLEAN, Send(c, n, enable)
      PROVE  Serials(b)' \subseteq Serials(b)
  BY <1>3 DEF Send, TypeOK, RequestType
<1>4. ASSUME NEW c \in Client, Responds(c)  PROVE Serials(b)' \subseteq Serials(b)
  BY <1>4 DEF Responds, Respond, TypeOK, RequestType, NoCookie
<1>5. ASSUME NEW c \in Client, AssignSerialNumber(c)  PROVE Serials(b)' \subseteq Serials(b)
  BY <1>5, AssignSerials
<1>6. ASSUME NEW c \in Client, ForgetCookie(c)  PROVE Serials(b)' \subseteq Serials(b)
  BY <1>6 DEF ForgetCookie, TypeOK, RequestType, NoCookie
<1>7. ASSUME NEW n \in Node, Restart(n)  PROVE Serials(b)' \subseteq Serials(b)
  BY <1>7 DEF Restart, TypeOK, RequestType, NoCookie
<1> QED
  BY <1>1, <1>2, <1>3, <1>4, <1>5, <1>6, <1>7, CookieSteps

\* Whoever has a serial number and is not stale after a step was not before it,
\* and the counter it took its number from has not been set back: whenever one
\* is, all who have numbers become stale.
LEMMA CountersKept ==
    ASSUME TypeOK, HeldInv, [Next]_vars, ~\E c \in Client : AssignSerialNumber(c),
           NEW b \in Client, b \notin stale', Serials(b)' # {}
    PROVE  b \notin stale /\ current'[Host[b]] = current[Host[b]]
<1> USE CheckAssumption
<1>1. CASE UNCHANGED <<current, stale>>
  BY <1>1
<1>2. ASSUME NEW ds, Renumbered(ds), UNCHANGED <<cookie, held>> \/ Tick
      PROVE  b \notin stale /\ Host[b] \notin ds
  <2>1. cookie'[b].serial = cookie[b].serial /\ held'[b].serial = held[b].serial
    BY <1>2, TickSerials
  <2>2. cookie[b].serial # 0 \/ held[b].serial # 0
    BY <2>1 DEF Serials
  <2> QED  BY <1>2, <2>2 DEF Renumbered
<1>3. ASSUME NEW d \in Domain, Reset(d)  PROVE b \notin stale /\ current'[Host[b]] = current[Host[b]]
  <2>1. b \notin stale /\ Host[b] \notin {d}
    BY <1>2, <1>3 DEF Reset, request
  <2> QED  BY <1>3, <2>1 DEF Reset, TypeOK, RedisType
<1>4. ASSUME NEW d \in Manual, AdminUpdate(d)  PROVE b \notin stale /\ current'[Host[b]] = current[Host[b]]
  <2>1. b \notin stale /\ Host[b] \notin {d}
    BY <1>2, <1>4 DEF AdminUpdate, request
  <2> QED  BY <1>4, <2>1 DEF AdminUpdate, TypeOK, RedisType
<1>5. CASE Tick
  <2>1. PICK gone \in SUBSET Expiring :
          /\ current' = [d \in Domain |-> IF d \in gone THEN 0 ELSE current[d]]
          /\ Renumbered(gone)
    BY <1>5 DEF Tick
  <2>2. b \notin stale /\ Host[b] \notin gone /\ Host[b] \in Domain
    BY <1>2, <1>5, <2>1
  <2> QED  BY <2>1, <2>2
<1>6. ASSUME NEW c \in Client, ForgetCookie(c)
      PROVE  b \notin stale /\ current'[Host[b]] = current[Host[b]]
  <2>1. Serials(c)' = {}
    BY <1>6 DEF ForgetCookie, HeldInv, Serials, TypeOK, RequestType, NoCookie
  <2> QED  BY <1>6, <2>1 DEF ForgetCookie
<1>7. ASSUME NEW c \in Client, Check(c)  PROVE UNCHANGED <<current, stale>>
  BY <1>7 DEF Check, SkipEnable, EnableDomain, MarkEnabled, CachedNumber, GetNumber, CacheNumber,
              CheckWhiteList, CachedPermission, GetPermission, CachePermission, PermitClient,
              redis, ghosts
<1>8. ASSUME NEW c \in Client,
             RequestFails(c) \/ \E n \in Node, enable \in BOOLEAN : Send(c, n, enable)
      PROVE  UNCHANGED <<current, stale>>
  BY <1>8 DEF Send, RequestFails, redis, ghosts
<1>9. ASSUME NEW d, WorkerGrants(d) \/ AdminWhiteList(d)  PROVE UNCHANGED <<current, stale>>
  BY <1>9 DEF WorkerGrants, AdminWhiteList, ghosts
<1>10. ASSUME NEW n \in Node, Restart(n)  PROVE UNCHANGED <<current, stale>>
  BY <1>10 DEF Restart, redis, ghosts
<1>11. UNCHANGED vars => UNCHANGED <<current, stale>>
  BY DEF vars, redis, ghosts
<1> QED
  BY <1>1, <1>3, <1>4, <1>5, <1>6, <1>7, <1>8, <1>9, <1>10, <1>11 DEF Next

LEMMA UniqueStep == TypeOK /\ HeldInv /\ SerialsUnique /\ [Next]_vars => SerialsUnique'
<1> SUFFICES ASSUME TypeOK, HeldInv, SerialsUnique, [Next]_vars,
                    NEW a \in Client, NEW b \in Client, a \notin stale', b \notin stale',
                    NEW s, s \in Serials(a)', s \in Serials(b)', Host[a] = Host[b], s < MaxNumber
             PROVE  a = b /\ s <= current'[Host[a]]
  BY DEF SerialsUnique
<1> USE CheckAssumption
<1>1. CASE ~\E c \in Client : AssignSerialNumber(c)
  <2>1. s \in Serials(a) /\ s \in Serials(b)
    BY <1>1, NoNewSerials
  <2>2. a \notin stale /\ b \notin stale /\ current'[Host[a]] = current[Host[a]]
    BY <1>1, CountersKept
  <2> QED  BY <2>1, <2>2 DEF SerialsUnique
<1>2. ASSUME NEW c \in Client, AssignSerialNumber(c)  PROVE a = b /\ s <= current'[Host[a]]
  <2>1. CASE held'[c].serial = held[c].serial /\ UNCHANGED <<current, stale>>
    <3>1. \A e \in Client : held'[e].serial = held[e].serial
      BY <1>2, <2>1, AssignSerials
    <3>2. s \in Serials(a) /\ s \in Serials(b)
      BY <3>1, NoNewSerials
    <3> QED  BY <2>1, <3>2 DEF SerialsUnique
  <2>2. CASE /\ held[c].serial = 0 /\ cookie[c].serial = 0
             /\ held'[c].serial = current'[Host[c]]
             /\ stale' = stale \ {c}
             /\ current' = [current EXCEPT ![Host[c]] = IF @ < MaxNumber THEN @ + 1 ELSE MaxNumber]
    <3>1. ASSUME NEW e \in Client, e # c
          PROVE  Serials(e)' = Serials(e) /\ (e \notin stale' => e \notin stale)
      BY <1>2, <2>2, <3>1, AssignSerials DEF Serials
    <3>2. Serials(c)' \subseteq {current'[Host[c]]}
      BY <1>2, <2>2, AssignSerials DEF Serials
    <3>3. /\ \A d \in Domain : /\ current[d] \in 0..MaxNumber /\ current'[d] \in 0..MaxNumber
                                /\ current'[d] >= current[d]
          /\ current'[Host[c]] < MaxNumber => current'[Host[c]] = current[Host[c]] + 1
          /\ Host[a] \in Domain /\ Host[c] \in Domain
      BY <2>2 DEF TypeOK, RedisType
    <3>4. ASSUME NEW e \in Client, e # c, e \notin stale', s \in Serials(e)'
          PROVE  s <= current[Host[e]]
      BY <3>1, <3>4 DEF SerialsUnique
    <3>5. s \in Int
      <4>1. cookie'[a] \in Cookie /\ held'[a] \in Cookie
        BY TypeStep DEF TypeOK, RequestType
      <4> QED  BY <4>1 DEF Serials, Cookie
    <3>6. CASE a = c /\ b = c
      BY <3>2, <3>3, <3>5, <3>6
    <3>7. CASE a # c /\ b # c
      <4>1. a = b /\ s <= current[Host[a]]
        <5>1. s \in Serials(a) /\ s \in Serials(b) /\ a \notin stale /\ b \notin stale
          BY <3>1, <3>7
        <5> QED  BY <5>1 DEF SerialsUnique
      <4>2. current[Host[a]] \in Int /\ current'[Host[a]] \in Int /\ current'[Host[a]] >= current[Host[a]]
        BY <3>3
      <4> QED  BY <3>5, <4>1, <4>2
    <3>8. ASSUME NEW e \in Client, e # c, e \notin stale', s \in Serials(e)', s \in Serials(c)',
                 Host[e] = Host[c]
          PROVE  FALSE
      BY <3>2, <3>3, <3>4, <3>5, <3>8
    <3> QED  BY <3>6, <3>7, <3>8
  <2> QED  BY <1>2, <2>1, <2>2, AssignSerials
<1> QED  BY <1>1, <1>2

\* No serial number of one numbering is given to two clients, and none that has
\* not been handed out, however their requests interleave on however many
\* nodes, and although counters expire and are reset and set by hand.
THEOREM NumbersUnique == Spec => []SerialsUnique
<1>1. Init => TypeOK /\ HeldInv /\ SerialsUnique
  <2>1. Init => HeldInv /\ SerialsUnique
    BY DEF Init, HeldInv, SerialsUnique, Serials, NoCookie
  <2> QED  BY <2>1, TypeInit
<1>2. TypeOK /\ HeldInv /\ SerialsUnique /\ [Next]_vars => (TypeOK /\ HeldInv /\ SerialsUnique)'
  BY TypeStep, HeldStep, UniqueStep
<1> QED  BY <1>1, <1>2, PTL DEF Spec

-----------------------------------------------------------------------------
(* The age of what a decision rests on.                                    *)

\* A request that has read a number or a permission and not yet used it.
Decided(c) == CachedNumber(c) \/ CacheNumber(c)

\* What a step does to the request of b.
LEMMA RequestSteps ==
    ASSUME TypeOK, [Next]_vars, NEW b \in Client
    PROVE  \/ Tick
           \/ /\ UNCHANGED <<pc[b], got[b], busy[b], held[b]>>
              /\ pc[b] = "idle" \/ UNCHANGED answer[b]
           \/ pc'[b] = "idle" /\ got'[b] = Nothing
           \/ /\ pc[b] = "idle" /\ pc'[b] \in {"enable", "isEnabled"}
              /\ UNCHANGED got[b] /\ answer'[b] = "none"
           \/ /\ pc[b] # "idle" /\ got'[b] = Nothing /\ UNCHANGED <<busy[b], answer[b]>>
              /\ pc'[b] = "permit" => pc[b] = "judge" /\ Decided(b) /\ UNCHANGED held[b]
           \/ GetNumber(b)
           \/ GetPermission(b)
<1> DEFINE Same(c) == /\ UNCHANGED <<pc[c], got[c], busy[c], held[c]>>
                      /\ pc[c] = "idle" \/ UNCHANGED answer[c]
           Done(c) == pc'[c] = "idle" /\ got'[c] = Nothing
           Sent(c) == /\ pc[c] = "idle" /\ pc'[c] \in {"enable", "isEnabled"}
                      /\ UNCHANGED got[c] /\ answer'[c] = "none"
           Gone(c) == /\ pc[c] # "idle" /\ got'[c] = Nothing /\ UNCHANGED <<busy[c], answer[c]>>
                      /\ pc'[c] = "permit" => pc[c] = "judge" /\ Decided(c) /\ UNCHANGED held[c]
<1> USE DEF TypeOK, RequestType
<1>1. CASE UNCHANGED <<pc, got, busy, held, answer>>
  BY <1>1
<1>2. ASSUME NEW c \in Client, Check(c), c # b  PROVE Same(b)
  <2>1. CASE GoesOn(c)
    BY <1>2, <2>1 DEF GoesOn, Goto
  <2>2. CASE Reads(c)
    BY <1>2, <2>2 DEF Reads, Read
  <2>3. CASE Responds(c)
    BY <1>2, <2>3 DEF Responds, Respond
  <2>4. CASE AssignSerialNumber(c)
    BY <1>2, <2>4 DEF AssignSerialNumber, Goto
  <2> QED  BY <1>2, <2>1, <2>2, <2>3, <2>4, Moves
<1>3. CASE Check(b)
  <2>1. ASSUME NEW an, WithNumber(b, an), Decided(b)  PROVE Gone(b) \/ Done(b)
    BY <2>1 DEF WithNumber, Goto, Answer, Respond, Decided, CachedNumber, CacheNumber, UsesNumber
  <2>2. CASE Decided(b)
    BY <2>1, <2>2 DEF Decided, CachedNumber, CacheNumber
  <2>3. CASE SkipEnable(b) \/ EnableDomain(b) \/ MarkEnabled(b) \/ AssignSerialNumber(b)
    BY <2>3 DEF SkipEnable, EnableDomain, MarkEnabled, AssignSerialNumber, Goto
  <2>4. CASE CheckWhiteList(b)
    BY <2>4 DEF CheckWhiteList, Goto, Answer, Respond
  <2>5. CASE CachedPermission(b) \/ CachePermission(b)
    BY <2>5 DEF CachedPermission, CachePermission, WithPermission, Goto, Answer, Respond
  <2>6. CASE PermitClient(b)
    BY <2>6 DEF PermitClient, Answer, Respond
  <2> QED  BY <1>3, <2>2, <2>3, <2>4, <2>5, <2>6 DEF Check, Decided
<1>4. ASSUME NEW c \in Client, RequestFails(c)  PROVE Same(b) \/ Done(b)
  BY <1>4 DEF RequestFails, Answer, Respond
<1>5. ASSUME NEW c \in Client, NEW n \in Node, NEW enable \in BOOLEAN, Send(c, n, enable)
      PROVE  Same(b) \/ Sent(b)
  BY <1>5 DEF Send
<1>6. ASSUME NEW c \in Client, ForgetCookie(c)  PROVE Same(b)
  BY <1>6 DEF ForgetCookie
<1>7. ASSUME NEW n \in Node, Restart(n)  PROVE Same(b) \/ Done(b)
  BY <1>7 DEF Restart
<1>8. ASSUME NEW d, WorkerGrants(d) \/ Reset(d) \/ AdminUpdate(d) \/ AdminWhiteList(d)
      PROVE  UNCHANGED <<pc, got, busy, held, answer>>
  BY <1>8 DEF WorkerGrants, Reset, AdminUpdate, AdminWhiteList, request
<1>9. UNCHANGED vars => UNCHANGED <<pc, got, busy, held, answer>>
  BY DEF vars, request
<1> QED
  BY <1>1, <1>2, <1>3, <1>4, <1>5, <1>6, <1>7, <1>8, <1>9 DEF Next

\* A request under way has no answer yet, and an idle client no request.
Waiting(c) ==
    /\ pc[c] = "idle" => got[c] = Nothing
    /\ pc[c] # "idle" => answer[c] = "none"

\* A permission, read or cached, was one of a key that lived as long ago as the
\* request has taken, or as the entry has been there besides.
PermissionAge ==
    \A c \in Client :
        /\ Waiting(c)
        /\ access[c] > 0 => lapsed[c] = 0
        /\ pc[c] = "permitted" /\ got[c] = 1 => lapsed[c] <= busy[c]
        /\ \A n \in Node : clientCache[n][c].val = 1 =>
              lapsed[c] + clientCache[n][c].ttl <= CacheTTLSec + MaxRequest

\* What a step does to the keys and the caches of permissions.
LEMMA PermissionSteps ==
    ASSUME TypeOK, [Next]_vars
    PROVE  \/ UNCHANGED <<access, lapsed, clientCache>>
           \/ Tick
           \/ \E c \in Client : CachePermission(c) \/ PermitClient(c) \/ ForgetCookie(c)
           \/ \E n \in Node : Restart(n)
<1>1. ASSUME NEW c \in Client, Check(c)
      PROVE  UNCHANGED <<access, lapsed, clientCache>> \/ CachePermission(c) \/ PermitClient(c)
  BY <1>1 DEF Check, SkipEnable, EnableDomain, MarkEnabled, CachedNumber, GetNumber, CacheNumber,
              CheckWhiteList, CachedPermission, GetPermission, AssignSerialNumber,
              redis, caches, ghosts
<1>2. ASSUME NEW c \in Client,
             RequestFails(c) \/ \E n \in Node, enable \in BOOLEAN : Send(c, n, enable)
      PROVE  UNCHANGED <<access, lapsed, clientCache>>
  BY <1>2 DEF Send, RequestFails, redis, caches, ghosts
<1>3. ASSUME NEW d, WorkerGrants(d) \/ Reset(d) \/ AdminUpdate(d) \/ AdminWhiteList(d)
      PROVE  UNCHANGED <<access, lapsed, clientCache>>
  BY <1>3 DEF WorkerGrants, Reset, AdminUpdate, AdminWhiteList, caches, ghosts
<1>4. UNCHANGED vars => UNCHANGED <<access, lapsed, clientCache>>
  BY DEF vars, redis, caches, ghosts
<1> QED  BY <1>1, <1>2, <1>3, <1>4 DEF Next

LEMMA WaitingStep ==
    ASSUME TypeOK, [Next]_vars, NEW c \in Client, Waiting(c)
    PROVE  Waiting(c)'
<1>1. CASE Tick
  BY <1>1 DEF Tick, Waiting
<1>2. CASE GetNumber(c) \/ GetPermission(c)
  BY <1>2 DEF GetNumber, GetPermission, Read, Waiting, UsesNumber
<1> QED  BY <1>1, <1>2, RequestSteps DEF Waiting

LEMMA PermissionAgeStep == TypeOK /\ PermissionAge /\ [Next]_vars => PermissionAge'
<1> SUFFICES ASSUME TypeOK, PermissionAge, [Next]_vars, NEW c \in Client
             PROVE  /\ (access[c] > 0 => lapsed[c] = 0)'
                    /\ (pc[c] = "permitted" /\ got[c] = 1 => lapsed[c] <= busy[c])'
                    /\ (\A n \in Node : clientCache[n][c].val = 1 =>
                          lapsed[c] + clientCache[n][c].ttl <= CacheTTLSec + MaxRequest)'
  BY WaitingStep DEF PermissionAge
<1> USE CheckAssumption
<1> DEFINE Bound == CacheTTLSec + MaxRequest
<1>1. /\ lapsed[c] \in Nat /\ busy[c] \in 0..MaxRequest /\ access[c] \in Nat /\ got[c] \in Int
      /\ \A n \in Node : /\ clientCache[n] \in [Client -> [val : {Nothing, 0, 1}, ttl : Nat]]
                         /\ clientCache[n][c].ttl \in Nat
      /\ Bound \in Nat
  BY DEF TypeOK, RedisType, RequestType, CacheType, GhostType, Nothing
<1>2. /\ access[c] > 0 => lapsed[c] = 0
      /\ pc[c] = "permitted" /\ got[c] = 1 => lapsed[c] <= busy[c]
  BY DEF PermissionAge
<1>3. CASE Tick
  <2>1. /\ access'[c] > 0 => access[c] > 0 /\ lapsed'[c] = 0
        /\ lapsed'[c] \in Nat /\ lapsed'[c] <= lapsed[c] + 1
        /\ access'[c] = IF access[c] > 0 THEN access[c] - 1 ELSE 0
    BY <1>1, <1>3 DEF Tick, TypeOK, GhostType
  <2>2. pc'[c] = pc[c] /\ got'[c] = got[c] /\ (pc[c] # "idle" => busy'[c] = busy[c] + 1)
    BY <1>3 DEF Tick
  <2>3. pc'[c] = "permitted" /\ got'[c] = 1 => lapsed'[c] <= busy'[c]
    BY <1>1, <1>2, <2>1, <2>2
  <2>4. ASSUME NEW n \in Node, clientCache'[n][c].val = 1
        PROVE  lapsed'[c] + clientCache'[n][c].ttl <= Bound
    <3>1. clientCache'[n][c] = Aged(clientCache[n][c])
      BY <1>3 DEF Tick
    <3>2. clientCache[n][c].val = 1 /\ clientCache'[n][c].ttl = clientCache[n][c].ttl - 1
      BY <1>1, <2>4, <3>1 DEF Aged, NoEntry, Nothing
    <3>3. lapsed[c] + clientCache[n][c].ttl <= Bound
      BY <3>2 DEF PermissionAge
    <3> QED  BY <1>1, <2>1, <3>2, <3>3
  <2> QED  BY <2>1, <2>3, <2>4
<1>4. CASE ~Tick
  <2>1. access'[c] > 0 => lapsed'[c] = 0
    <3>1. CASE UNCHANGED <<access, lapsed>>
      BY <3>1 DEF PermissionAge
    <3>2. ASSUME NEW b \in Client, PermitClient(b) \/ ForgetCookie(b)
          PROVE  access'[c] > 0 => lapsed'[c] = 0
      <4>1. \/ UNCHANGED <<access[c], lapsed[c]>>
            \/ access'[c] = 0
            \/ lapsed'[c] = 0
        BY <3>2 DEF PermitClient, ForgetCookie, TypeOK, RedisType, GhostType
      <4> QED  BY <1>2, <4>1
    <3>3. ASSUME NEW b \in Client, CachePermission(b)  PROVE UNCHANGED <<access, lapsed>>
      BY <3>3 DEF CachePermission, redis, ghosts
    <3>4. ASSUME NEW n \in Node, Restart(n)  PROVE UNCHANGED <<access, lapsed>>
      BY <3>4 DEF Restart, redis, ghosts
    <3> QED  BY <1>4, <3>1, <3>2, <3>3, <3>4, PermissionSteps
  <2>2. /\ lapsed'[c] \in Nat
        /\ lapsed'[c] <= lapsed[c] \/ (pc'[c] = "idle" /\ \A n \in Node : clientCache'[n][c] = NoEntry)
    <3>1. CASE UNCHANGED lapsed
      BY <1>1, <3>1
    <3>2. ASSUME NEW b \in Client, PermitClient(b)  PROVE lapsed'[c] \in {0, lapsed[c]}
      BY <3>2 DEF PermitClient, TypeOK, GhostType
    <3>3. ASSUME NEW b \in Client, ForgetCookie(b)
          PROVE  \/ lapsed'[c] = lapsed[c]
                 \/ /\ pc'[c] = "idle" /\ lapsed'[c] \in Nat
                    /\ \A n \in Node : clientCache'[n][c] = NoEntry
      BY <1>1, <3>3 DEF ForgetCookie, TypeOK, GhostType
    <3>4. ASSUME NEW b \in Client, CachePermission(b)  PROVE UNCHANGED lapsed
      BY <3>4 DEF CachePermission, ghosts
    <3>5. ASSUME NEW n \in Node, Restart(n)  PROVE UNCHANGED lapsed
      BY <3>5 DEF Restart, ghosts
    <3> QED  BY <1>1, <1>4, <3>1, <3>2, <3>3, <3>4, <3>5, PermissionSteps
  <2>3. pc'[c] = "permitted" /\ got'[c] = 1 => lapsed'[c] <= busy'[c]
    <3>1. CASE GetNumber(c)
      BY <3>1 DEF GetNumber, Read, UsesNumber
    <3>2. CASE GetPermission(c)
      <4>1. UNCHANGED <<lapsed, busy>> /\ (got'[c] = 1 => access[c] > 0)
        BY <3>2 DEF GetPermission, Read, ghosts, TypeOK, RequestType
      <4> QED  BY <1>1, <4>1 DEF PermissionAge
    <3>3. CASE UNCHANGED <<pc[c], got[c], busy[c]>>
      <4> SUFFICES ASSUME pc[c] = "permitted", got[c] = 1  PROVE lapsed'[c] <= busy'[c]
        BY <3>3
      <4>1. lapsed'[c] <= lapsed[c] /\ lapsed[c] <= busy[c] /\ busy'[c] = busy[c]
        BY <1>2, <2>2, <3>3
      <4> QED  BY <1>1, <2>2, <4>1
    <3>4. CASE got'[c] = Nothing
      BY <3>4 DEF Nothing
    <3> QED  BY <1>4, <3>1, <3>2, <3>3, <3>4, RequestSteps
  <2>4. ASSUME NEW n \in Node, clientCache'[n][c].val = 1
        PROVE  lapsed'[c] + clientCache'[n][c].ttl <= Bound
    <3>1. CASE clientCache'[n][c] = clientCache[n][c]
      BY <1>1, <2>2, <2>4, <3>1 DEF PermissionAge, NoEntry, Nothing
    <3>2. CASE clientCache'[n][c] = NoEntry
      BY <2>4, <3>2 DEF NoEntry, Nothing
    <3>3. ASSUME NEW b \in Client, PermitClient(b) \/ ForgetCookie(b)
          PROVE  clientCache'[n][c] \in {clientCache[n][c], NoEntry}
      BY <1>1, <3>3 DEF PermitClient, ForgetCookie, caches, TypeOK, CacheType
    <3>4. ASSUME NEW m \in Node, Restart(m)  PROVE clientCache'[n][c] \in {clientCache[n][c], NoEntry}
      BY <3>4 DEF Restart, TypeOK, CacheType
    <3>5. ASSUME NEW b \in Client, CachePermission(b)
          PROVE  \/ clientCache'[n][c] = clientCache[n][c]
                 \/ lapsed'[c] + clientCache'[n][c].ttl <= Bound
      <4>1. CASE b = c /\ n = at[c]
        <5>1. clientCache'[n][c] = Entry(got[c], got[c] = 1)
          BY <3>5, <4>1 DEF CachePermission, TypeOK, CacheType
        <5>2. got[c] = 1 /\ clientCache'[n][c].ttl = CacheTTLSec
          BY <2>4, <5>1 DEF Entry
        <5>3. pc[c] = "permitted" /\ lapsed' = lapsed
          BY <3>5, <4>1 DEF CachePermission, ghosts
        <5> QED  BY <1>1, <5>2, <5>3 DEF PermissionAge
      <4>2. CASE ~(b = c /\ n = at[c])
        BY <3>5, <4>2 DEF CachePermission, TypeOK, CacheType
      <4> QED  BY <4>1, <4>2
    <3> QED  BY <1>4, <3>1, <3>2, <3>3, <3>4, <3>5, PermissionSteps
  <2> QED  BY <2>1, <2>3, <2>4
<1> QED  BY <1>3, <1>4

\* What another client's step, or that of a node, a worker, the administrator or
\* the clock, does to the answer of c.
LEMMA AnswersOf ==
    ASSUME TypeOK, [Next]_vars, NEW c \in Client, ~Check(c)
    PROVE  answer'[c] \in {answer[c], "none", "error"}
<1> USE DEF TypeOK, RequestType
<1>1. ASSUME NEW b \in Client, b # c, Check(b)  PROVE UNCHANGED answer[c]
  <2>1. CASE GoesOn(b) \/ Reads(b) \/ AssignSerialNumber(b)
    BY <2>1 DEF GoesOn, Goto, Reads, Read, AssignSerialNumber
  <2>2. CASE Responds(b)
    BY <1>1, <2>2 DEF Responds, Respond
  <2> QED  BY <1>1, <2>1, <2>2, Moves
<1>2. ASSUME NEW b \in Client, RequestFails(b)  PROVE answer'[c] \in {answer[c], "error"}
  BY <1>2 DEF RequestFails, Answer, Respond
<1>3. ASSUME NEW b \in Client,
             ForgetCookie(b) \/ \E n \in Node, enable \in BOOLEAN : Send(b, n, enable)
      PROVE  answer'[c] \in {answer[c], "none"}
  BY <1>3 DEF Send, ForgetCookie
<1>4. ASSUME NEW n \in Node, Restart(n)  PROVE answer'[c] \in {answer[c], "error"}
  BY <1>4 DEF Restart
<1>5. ASSUME NEW d, WorkerGrants(d) \/ Reset(d) \/ AdminUpdate(d) \/ AdminWhiteList(d)
      PROVE  UNCHANGED answer
  BY <1>5 DEF WorkerGrants, Reset, AdminUpdate, AdminWhiteList, request
<1>6. Tick \/ UNCHANGED vars => UNCHANGED answer
  BY DEF Tick, vars, request
<1> QED  BY <1>1, <1>2, <1>3, <1>4, <1>5, <1>6 DEF Next

\* Who is let in at IsPermittedClient is by one of two steps.
LEMMA TakenForPermitted ==
    ASSUME TypeOK, PermissionAge, [Next]_vars, NEW c \in Client, pc[c] = "permitted", answer'[c] = "in"
    PROVE  \/ CachedPermission(c) /\ clientCache[at[c]][c].val = 1
           \/ CachePermission(c) /\ got[c] = 1
<1> USE DEF TypeOK, RequestType
<1>1. answer[c] = "none"
  BY DEF PermissionAge, Waiting
<1>2. Check(c)
  BY <1>1, AnswersOf
<1>3. CachedPermission(c) \/ GetPermission(c) \/ CachePermission(c)
  BY <1>2 DEF Check, SkipEnable, EnableDomain, MarkEnabled, CachedNumber, GetNumber, CacheNumber,
              UsesNumber, CheckWhiteList, AssignSerialNumber, PermitClient
<1>4. CASE GetPermission(c)
  BY <1>1, <1>4 DEF GetPermission, Read
<1>5. CASE CachedPermission(c) \/ CachePermission(c)
  BY <1>1, <1>5 DEF CachedPermission, CachePermission, WithPermission, Goto
<1> QED  BY <1>3, <1>4, <1>5

\* Nobody is taken for permitted longer than a cached permission lives and a
\* request takes after the key of the client has expired, on any node, however
\* often the entry is used.
THEOREM AccessEnds == Spec => AccessFresh
<1> USE CheckAssumption
<1>1. Init => TypeOK /\ PermissionAge
  <2>1. Init => PermissionAge
    BY DEF Init, PermissionAge, Waiting, NoEntry, Nothing
  <2> QED  BY <2>1, TypeInit
<1>2. TypeOK /\ PermissionAge /\ [Next]_vars => (TypeOK /\ PermissionAge)'
  BY TypeStep, PermissionAgeStep
<1>3. ASSUME TypeOK, PermissionAge, [Next]_vars
      PROVE  [\A c \in Client : pc[c] = "permitted" /\ answer'[c] = "in" =>
                 lapsed[c] < CacheTTLSec + MaxRequest]_vars
  <2> SUFFICES ASSUME NEW c \in Client, pc[c] = "permitted", answer'[c] = "in"
               PROVE  lapsed[c] < CacheTTLSec + MaxRequest
    OBVIOUS
  <2>1. lapsed[c] \in Nat /\ busy[c] \in 0..MaxRequest /\ at[c] \in Node
    BY <1>3 DEF TypeOK, GhostType, RequestType
  <2>2. CASE CachedPermission(c) /\ clientCache[at[c]][c].val = 1
    <3>1. clientCache[at[c]][c].ttl \in Nat /\ clientCache[at[c]][c].ttl > 0
      BY <1>3, <2>1, <2>2 DEF CachedPermission, Hit, TypeOK, CacheType
    <3>2. lapsed[c] + clientCache[at[c]][c].ttl <= CacheTTLSec + MaxRequest
      BY <1>3, <2>1, <2>2 DEF PermissionAge
    <3> QED  BY <2>1, <3>1, <3>2
  <2>3. CASE CachePermission(c) /\ got[c] = 1
    BY <1>3, <2>1, <2>3 DEF PermissionAge
  <2> QED  BY <1>3, <2>2, <2>3, TakenForPermitted
<1> QED  BY <1>1, <1>2, <1>3, PTL DEF Spec, AccessFresh

\* How long a number may be cached: that there is no queue, for less.
NumberTTL(v) == IF v = Off THEN NegativeCacheTTLSec ELSE CacheTTLSec

\* The same of permit numbers.
NumberAge ==
    /\ \A d \in Domain : ago[d][number[d]] = 0
    /\ \A n \in Node, d \in Domain : LET entry == permitCache[n][d] IN
         Hit(entry) => /\ entry.val \in Off..MaxNumber
                       /\ ago[d][entry.val] + entry.ttl <= NumberTTL(entry.val) + MaxRequest
    /\ \A c \in Client :
         /\ Waiting(c)
         /\ pc[c] \in UsesNumber /\ got[c] # Nothing =>
              got[c] \in Off..MaxNumber /\ ago[Host[c]][got[c]] <= busy[c]

\* What a step does to the permit number and its caches.
LEMMA NumberSteps ==
    ASSUME TypeOK, [Next]_vars
    PROVE  \/ Tick
           \/ UNCHANGED permitCache /\ (UNCHANGED <<number, ago>> \/ Remember)
           \/ /\ UNCHANGED <<number, ago>>
              /\ \E c \in Client : MarkEnabled(c) \/ CacheNumber(c)
           \/ UNCHANGED <<number, ago>> /\ \E n \in Node : Restart(n)
<1> DEFINE Kept == UNCHANGED permitCache /\ (UNCHANGED <<number, ago>> \/ Remember)
<1>1. ASSUME NEW c \in Client, Check(c)
      PROVE  \/ Kept
             \/ UNCHANGED <<number, ago>> /\ (MarkEnabled(c) \/ CacheNumber(c))
  <2>1. CASE SkipEnable(c) \/ CachedNumber(c) \/ GetNumber(c) \/ CachedPermission(c) \/ GetPermission(c)
    BY <2>1 DEF SkipEnable, CachedNumber, GetNumber, CachedPermission, GetPermission,
                redis, caches, ghosts
  <2>2. CASE CheckWhiteList(c) \/ CachePermission(c) \/ AssignSerialNumber(c) \/ PermitClient(c)
    BY <2>2 DEF CheckWhiteList, CachePermission, AssignSerialNumber, PermitClient,
                redis, caches, ghosts
  <2>3. CASE EnableDomain(c)
    BY <2>3 DEF EnableDomain, caches
  <2>4. CASE MarkEnabled(c) \/ CacheNumber(c)
    BY <2>4 DEF MarkEnabled, CacheNumber, redis, ghosts
  <2> QED  BY <1>1, <2>1, <2>2, <2>3, <2>4 DEF Check
<1>2. ASSUME NEW c \in Client,
             \/ RequestFails(c) \/ ForgetCookie(c)
             \/ \E n \in Node, enable \in BOOLEAN : Send(c, n, enable)
      PROVE  Kept
  BY <1>2 DEF Send, RequestFails, ForgetCookie, redis, caches, ghosts
<1>3. ASSUME NEW d, WorkerGrants(d) \/ Reset(d) \/ AdminUpdate(d) \/ AdminWhiteList(d)
      PROVE  Kept
  BY <1>3 DEF WorkerGrants, Reset, AdminUpdate, AdminWhiteList, caches, ghosts
<1>4. ASSUME NEW n \in Node, Restart(n)  PROVE UNCHANGED <<number, ago>>
  BY <1>4 DEF Restart, redis, ghosts
<1>5. UNCHANGED vars => Kept
  BY DEF vars, redis, caches, ghosts
<1> HIDE DEF Kept
<1>6. \/ Tick \/ Kept
      \/ UNCHANGED <<number, ago>> /\ \E c \in Client : MarkEnabled(c) \/ CacheNumber(c)
      \/ UNCHANGED <<number, ago>> /\ \E n \in Node : Restart(n)
  BY <1>1, <1>2, <1>3, <1>4, <1>5 DEF Next
<1> QED  BY <1>6 DEF Kept

\* The ages of permit numbers grow by a second with each second, and not otherwise.
LEMMA AgoSteps ==
    ASSUME TypeOK, NumberAge, [Next]_vars, NEW d \in Domain
    PROVE  /\ ago'[d][number'[d]] = 0
           /\ \A v \in Off..MaxNumber :
                /\ ago[d][v] \in Nat /\ ago'[d][v] \in Nat
                /\ ago'[d][v] <= ago[d][v] + 1
                /\ ~Tick => ago'[d][v] <= ago[d][v]
<1> USE CheckAssumption
<1>1. /\ \A v \in Off..MaxNumber : ago[d][v] \in Nat
      /\ number'[d] \in Off..MaxNumber
  <2>1. number' \in [Domain -> Off..MaxNumber]
    BY RedisTypeStep DEF TypeOK, RedisType
  <2>2. ago \in [Domain -> [Off..MaxNumber -> 0..Horizon]]
    BY DEF TypeOK, GhostType
  <2> QED  BY <2>1, <2>2 DEF Off
<1>2. CASE UNCHANGED <<number, ago>>
  BY <1>1, <1>2 DEF NumberAge
<1>3. CASE Remember
  <2>1. \A v \in Off..MaxNumber : ago'[d][v] = IF number'[d] = v THEN 0 ELSE ago[d][v]
    BY <1>3 DEF Remember
  <2> QED  BY <1>1, <2>1
<1>4. CASE Tick
  <2>1. \A v \in Off..MaxNumber : ago'[d][v] =
          IF number'[d] = v THEN 0 ELSE IF ago[d][v] < Horizon THEN ago[d][v] + 1 ELSE Horizon
    BY <1>4 DEF Tick
  <2>2. \A v \in Off..MaxNumber : ago[d][v] <= Horizon
    <3>1. ago \in [Domain -> [Off..MaxNumber -> 0..Horizon]]
      BY DEF TypeOK, GhostType
    <3> QED  BY <3>1 DEF Off
  <2> QED  BY <1>1, <1>4, <2>1, <2>2
<1> QED  BY <1>2, <1>3, <1>4, NumberSteps

LEMMA NumberAgeStep == TypeOK /\ NumberAge /\ [Next]_vars => NumberAge'
<1> SUFFICES ASSUME TypeOK, NumberAge, [Next]_vars  PROVE NumberAge'
  OBVIOUS
<1> USE CheckAssumption
<1>1. ASSUME NEW n \in Node, NEW d \in Domain, Hit(permitCache'[n][d])
      PROVE  /\ permitCache'[n][d].val \in Off..MaxNumber
             /\ ago'[d][permitCache'[n][d].val] + permitCache'[n][d].ttl
                  <= NumberTTL(permitCache'[n][d].val) + MaxRequest
  <2> DEFINE entry == permitCache[n][d]
             new == permitCache'[n][d]
  <2>1. /\ entry \in NumberEntry /\ entry.ttl \in Nat /\ new.ttl \in Nat
        /\ \A v : NumberTTL(v) + MaxRequest \in Nat
    <3>1. entry \in NumberEntry /\ new \in NumberEntry
      BY CacheTypeStep DEF TypeOK, CacheType, NumberEntry
    <3> QED  BY <3>1 DEF NumberEntry, NumberTTL
  <2>2. CASE new = entry /\ ~Tick
    <3>1. /\ entry.val \in Off..MaxNumber
          /\ ago[d][entry.val] + entry.ttl <= NumberTTL(entry.val) + MaxRequest
      BY <1>1, <2>2 DEF NumberAge
    <3> HIDE DEF entry
    <3> QED  BY <2>1, <2>2, <3>1, AgoSteps
  <2>3. CASE new = NoEntry
    BY <1>1, <2>3 DEF Hit, NoEntry
  <2>4. CASE Tick
    <3>1. new = Aged(entry)
      BY <2>4 DEF Tick
    <3>2. Hit(entry) /\ new.val = entry.val /\ new.ttl = entry.ttl - 1
      BY <1>1, <2>1, <3>1 DEF Aged, Hit, NoEntry, NumberEntry
    <3>3. /\ entry.val \in Off..MaxNumber
          /\ ago[d][entry.val] + entry.ttl <= NumberTTL(entry.val) + MaxRequest
      BY <3>2 DEF NumberAge
    <3> HIDE DEF entry, new
    <3>4. /\ new.val \in Off..MaxNumber
          /\ ago'[d][new.val] + new.ttl <= NumberTTL(new.val) + MaxRequest
      BY <2>1, <3>2, <3>3, AgoSteps
    <3> QED  BY <3>4 DEF new
  <2>5. ASSUME NEW c \in Client, MarkEnabled(c)  PROVE new \in {entry, NoEntry}
    BY <2>5 DEF MarkEnabled, TypeOK, CacheType
  <2>6. ASSUME NEW m \in Node, Restart(m)  PROVE new \in {entry, NoEntry}
    BY <2>6 DEF Restart, TypeOK, CacheType
  <2>7. ASSUME NEW c \in Client, CacheNumber(c), UNCHANGED <<number, ago>>, new # entry
        PROVE  /\ new.val \in Off..MaxNumber
               /\ ago'[d][new.val] + new.ttl <= NumberTTL(new.val) + MaxRequest
    <3>1. d = Host[c] /\ new = Entry(got[c], got[c] # Off)
      BY <2>7 DEF CacheNumber, TypeOK, CacheType
    <3>2. got[c] \in Off..MaxNumber /\ ago[Host[c]][got[c]] <= busy[c]
      BY <2>7 DEF CacheNumber, NumberAge
    <3>3. new.val = got[c] /\ new.ttl = NumberTTL(new.val)
      BY <3>1 DEF Entry, NumberTTL
    <3>4. busy[c] \in 0..MaxRequest /\ ago[d][got[c]] \in Nat
      BY <3>2, AgoSteps DEF TypeOK, RequestType
    <3> HIDE DEF new
    <3> QED  BY <2>1, <2>7, <3>1, <3>2, <3>3, <3>4
  <2>8. ~Tick => \/ new \in {entry, NoEntry}
                 \/ \E c \in Client : CacheNumber(c) /\ UNCHANGED <<number, ago>>
    BY <2>5, <2>6, NumberSteps
  <2> QED  BY <2>2, <2>3, <2>4, <2>7, <2>8
<1>2. ASSUME NEW c \in Client, pc'[c] \in UsesNumber, got'[c] # Nothing
      PROVE  got'[c] \in Off..MaxNumber /\ ago'[Host[c]][got'[c]] <= busy'[c]
  <2>1. /\ Host[c] \in Domain /\ busy[c] \in Nat
        /\ pc[c] = "idle" => got[c] = Nothing
    BY DEF TypeOK, RequestType, NumberAge, Waiting
  <2>2. CASE Tick
    <3>1. pc'[c] = pc[c] /\ got'[c] = got[c] /\ busy'[c] = busy[c] + 1
      BY <1>2, <2>2 DEF Tick, UsesNumber
    <3>2. got[c] \in Off..MaxNumber /\ ago[Host[c]][got[c]] <= busy[c]
      BY <1>2, <3>1 DEF NumberAge
    <3> QED  BY <2>1, <3>1, <3>2, AgoSteps
  <2>3. CASE UNCHANGED <<pc[c], got[c], busy[c]>> /\ ~Tick
    <3>1. got[c] \in Off..MaxNumber /\ ago[Host[c]][got[c]] <= busy[c]
      BY <1>2, <2>3 DEF NumberAge
    <3> QED  BY <2>1, <2>3, <3>1, AgoSteps
  <2>4. CASE GetNumber(c)
    <3>1. got'[c] = number[Host[c]] /\ UNCHANGED <<number, ago, busy>>
      BY <2>4 DEF GetNumber, Read, TypeOK, RequestType, redis, ghosts
    <3>2. ago[Host[c]][number[Host[c]]] = 0 /\ number[Host[c]] \in Off..MaxNumber
      BY <2>1 DEF NumberAge, TypeOK, RedisType
    <3> QED  BY <2>1, <3>1, <3>2
  <2>5. CASE GetPermission(c)
    BY <1>2, <2>5 DEF GetPermission, Read, UsesNumber
  <2> QED  BY <1>2, <2>1, <2>2, <2>3, <2>4, <2>5, RequestSteps
<1>3. \A d \in Domain : ago'[d][number'[d]] = 0
  BY AgoSteps
<1>4. \A c \in Client : Waiting(c)'
  BY WaitingStep DEF NumberAge
<1> QED  BY <1>1, <1>2, <1>3, <1>4 DEF NumberAge

\* The number a request goes by.
LEMMA DecidingNumber ==
    ASSUME TypeOK, NumberAge, NEW c \in Client, Decided(c)
    PROVE  \E v \in Off..MaxNumber :
             WithNumber(c, v) /\ ago[Host[c]][v] < NumberTTL(v) + MaxRequest
<1> USE CheckAssumption
<1>1. Host[c] \in Domain /\ busy[c] \in 0..MaxRequest /\ \A v : NumberTTL(v) \in Nat \ {0}
  BY DEF TypeOK, RequestType, NumberTTL
<1>2. \A v \in Off..MaxNumber : ago[Host[c]][v] \in Nat
  BY <1>1 DEF TypeOK, GhostType, Off
<1>3. CASE CachedNumber(c)
  <2> DEFINE entry == permitCache[at[c]][Host[c]]
  <2>1. WithNumber(c, entry.val) /\ Hit(entry) /\ at[c] \in Node
    BY <1>3 DEF CachedNumber, UsesNumber, TypeOK, RequestType
  <2>2. entry.ttl \in Nat /\ entry.ttl > 0
    BY <1>1, <2>1 DEF Hit, TypeOK, CacheType
  <2>3. /\ entry.val \in Off..MaxNumber
        /\ ago[Host[c]][entry.val] + entry.ttl <= NumberTTL(entry.val) + MaxRequest
    BY <1>1, <2>1 DEF NumberAge
  <2> HIDE DEF entry
  <2> QED  BY <1>1, <1>2, <2>1, <2>2, <2>3
<1>4. CASE CacheNumber(c)
  <2>1. WithNumber(c, got[c]) /\ got[c] \in Off..MaxNumber /\ ago[Host[c]][got[c]] <= busy[c]
    BY <1>4 DEF CacheNumber, NumberAge
  <2> QED  BY <1>1, <1>2, <2>1
<1> QED  BY <1>3, <1>4 DEF Decided

LEMMA AdmissionStep == TypeOK /\ NumberAge /\ AdmissionFresh /\ [Next]_vars => AdmissionFresh'
<1> SUFFICES ASSUME TypeOK, NumberAge, AdmissionFresh, [Next]_vars,
                    NEW c \in Client, pc'[c] = "permit"
             PROVE  \E v \in held'[c].serial..MaxNumber :
                      ago'[Host[c]][v] < CacheTTLSec + MaxRequest + busy'[c]
  BY DEF AdmissionFresh
<1> USE CheckAssumption
<1>1. /\ Host[c] \in Domain /\ busy[c] \in Nat
      /\ held[c].serial \in 0..MaxNumber /\ held'[c].serial \in 0..MaxNumber
  <2>1. held' \in [Client -> Cookie]
    BY RequestTypeStep DEF TypeOK, RequestType
  <2> QED  BY <2>1 DEF TypeOK, RequestType, Cookie
<1>2. \A v \in Off..MaxNumber : v \in held[c].serial..MaxNumber => v # Off
  BY <1>1 DEF Off
<1>3. CASE Tick
  <2>1. pc'[c] = pc[c] /\ busy'[c] = busy[c] + 1 /\ held'[c].serial = held[c].serial
    BY <1>3, TickSerials DEF Tick
  <2>2. PICK v \in held[c].serial..MaxNumber :
          ago[Host[c]][v] < CacheTTLSec + MaxRequest + busy[c]
    BY <2>1 DEF AdmissionFresh
  <2>3. v \in Off..MaxNumber
    BY <1>1 DEF Off
  <2>4. ago[Host[c]][v] \in Nat /\ ago'[Host[c]][v] \in Nat /\ ago'[Host[c]][v] <= ago[Host[c]][v] + 1
    BY <1>1, <2>3, AgoSteps
  <2> QED  BY <1>1, <2>1, <2>2, <2>4
<1>4. CASE UNCHANGED <<pc[c], busy[c], held[c]>> /\ ~Tick
  <2>1. PICK v \in held[c].serial..MaxNumber :
          ago[Host[c]][v] < CacheTTLSec + MaxRequest + busy[c]
    BY <1>4 DEF AdmissionFresh
  <2>2. v \in Off..MaxNumber
    BY <1>1 DEF Off
  <2>3. ago[Host[c]][v] \in Nat /\ ago'[Host[c]][v] \in Nat /\ ago'[Host[c]][v] <= ago[Host[c]][v]
    BY <1>1, <1>4, <2>2, AgoSteps
  <2> QED  BY <1>1, <1>4, <2>1, <2>3
<1>5. CASE pc[c] = "judge" /\ Decided(c) /\ UNCHANGED <<held[c], busy[c]>>
  <2>1. PICK v \in Off..MaxNumber :
          WithNumber(c, v) /\ ago[Host[c]][v] < NumberTTL(v) + MaxRequest
    BY <1>5, DecidingNumber
  <2>2. v >= held[c].serial
    BY <1>5, <2>1 DEF WithNumber, Goto, Answer, Respond, TypeOK, RequestType
  <2>3. held[c].serial # 0
    BY <1>5 DEF TypeOK, RequestType
  <2>4. v \in held[c].serial..MaxNumber /\ NumberTTL(v) = CacheTTLSec
    BY <1>1, <2>2, <2>3 DEF Off, NumberTTL
  <2>5. ~Tick
    BY <1>5 DEF Tick
  <2>6. ago[Host[c]][v] \in Nat /\ ago'[Host[c]][v] \in Nat /\ ago'[Host[c]][v] <= ago[Host[c]][v]
    BY <1>1, <2>5, AgoSteps
  <2> QED  BY <1>1, <1>5, <2>1, <2>4, <2>6
<1>6. ~GetNumber(c) /\ ~GetPermission(c)
  BY DEF GetNumber, GetPermission, Read, UsesNumber
<1> QED  BY <1>3, <1>4, <1>5, <1>6, RequestSteps

LEMMA NumberAgeInit == Init => NumberAge
<1> SUFFICES ASSUME Init  PROVE NumberAge
  OBVIOUS
<1>1. \A d \in Domain : ago[d][number[d]] = 0
  <2>1. ASSUME NEW d \in Domain
        PROVE  number[d] = Off /\ ago[d] = [v \in Off..MaxNumber |-> IF v = Off THEN 0 ELSE Horizon]
    BY DEF Init, PacerInit
  <2>2. Off \in Off..MaxNumber
    BY CheckAssumption DEF Off
  <2> QED  BY <2>1, <2>2
<1>2. \A c \in Client : Waiting(c) /\ pc[c] \notin UsesNumber
  BY DEF Init, Waiting, UsesNumber
<1>3. \A n \in Node, d \in Domain : ~Hit(permitCache[n][d])
  <2>1. \A n \in Node, d \in Domain : permitCache[n][d] = NoEntry
    BY DEF Init
  <2> QED  BY <2>1 DEF Hit, NoEntry
<1> QED  BY <1>1, <1>2, <1>3 DEF NumberAge

\* A client is let in by a permit number that reached its serial number and that
\* no cache, node or slow request has kept for longer than the TTL of a cached
\* number and two requests.
THEOREM AdmissionsFresh == Spec => []AdmissionFresh
<1>1. Init => TypeOK /\ NumberAge /\ AdmissionFresh
  <2>1. Init => AdmissionFresh
    BY DEF Init, AdmissionFresh
  <2> QED  BY <2>1, TypeInit, NumberAgeInit
<1>2. TypeOK /\ NumberAge /\ AdmissionFresh /\ [Next]_vars
        => (TypeOK /\ NumberAge /\ AdmissionFresh)'
  BY TypeStep, NumberAgeStep, AdmissionStep
<1> QED  BY <1>1, <1>2, PTL DEF Spec

\* Nobody is let through for want of a queue longer than a cached -1 lives and
\* a request takes after the queue has begun.
THEOREM LetThroughOnlyOff == Spec => LetThroughFresh
<1>1. Init => TypeOK /\ NumberAge
  BY TypeInit, NumberAgeInit
<1>2. TypeOK /\ NumberAge /\ [Next]_vars => (TypeOK /\ NumberAge)'
  BY TypeStep, NumberAgeStep
<1>3. ASSUME TypeOK, NumberAge, [Next]_vars
      PROVE  [\A c \in Client : pc[c] = "isEnabled" /\ answer'[c] = "off" =>
                 ago[Host[c]][Off] < NegativeCacheTTLSec + MaxRequest]_vars
  <2> SUFFICES ASSUME NEW c \in Client, pc[c] = "isEnabled", answer'[c] = "off"
               PROVE  ago[Host[c]][Off] < NegativeCacheTTLSec + MaxRequest
    OBVIOUS
  <2>1. answer[c] = "none"
    BY <1>3 DEF NumberAge, Waiting
  <2>2. Check(c)
    BY <1>3, <2>1, AnswersOf
  <2>3. Decided(c) \/ GetNumber(c)
    BY <2>2 DEF Check, SkipEnable, EnableDomain, MarkEnabled, Decided, CheckWhiteList,
                CachedPermission, GetPermission, CachePermission, AssignSerialNumber, PermitClient
  <2>4. ~GetNumber(c)
    BY <2>1 DEF GetNumber, Read
  <2>5. PICK v \in Off..MaxNumber :
          WithNumber(c, v) /\ ago[Host[c]][v] < NumberTTL(v) + MaxRequest
    BY <1>3, <2>3, <2>4, DecidingNumber
  <2>6. v = Off
    BY <2>1, <2>5 DEF WithNumber, Goto
  <2> QED  BY <2>5, <2>6 DEF NumberTTL
<1> QED  BY <1>1, <1>2, <1>3, PTL DEF Spec, LetThroughFresh

-----------------------------------------------------------------------------
(* How the permit number moves, and the waits told from it.                *)

\* What a step does to the permit number.
LEMMA NumberChanges ==
    ASSUME [Next]_vars
    PROVE  \/ Tick
           \/ UNCHANGED <<number, credit>> /\ (UNCHANGED ago \/ Remember)
           \/ Remember /\ \E d \in Domain : Grant(d) \/ Close(d) \/ Open(d)
           \/ Remember /\ \E d \in Manual : Assign(d)
<1>1. ASSUME NEW c \in Client, Check(c)
      PROVE  \/ UNCHANGED <<number, credit>> /\ (UNCHANGED ago \/ Remember)
             \/ Remember /\ \E d \in Domain : Open(d)
  <2>1. CASE SkipEnable(c) \/ MarkEnabled(c) \/ CachedNumber(c) \/ GetNumber(c) \/ CacheNumber(c)
    BY <2>1 DEF SkipEnable, MarkEnabled, CachedNumber, GetNumber, CacheNumber, redis, ghosts
  <2>2. CASE CheckWhiteList(c) \/ CachedPermission(c) \/ GetPermission(c) \/ CachePermission(c)
    BY <2>2 DEF CheckWhiteList, CachedPermission, GetPermission, CachePermission, redis, ghosts
  <2>3. CASE AssignSerialNumber(c) \/ PermitClient(c)
    BY <2>3 DEF AssignSerialNumber, PermitClient
  <2>4. CASE EnableDomain(c)
    <3>1. Host[c] \in Domain
      BY CheckAssumption
    <3> QED  BY <2>4, <3>1 DEF EnableDomain
  <2> QED  BY <1>1, <2>1, <2>2, <2>3, <2>4 DEF Check
<1>2. ASSUME NEW c \in Client,
             \/ RequestFails(c) \/ ForgetCookie(c)
             \/ \E n \in Node, enable \in BOOLEAN : Send(c, n, enable)
      PROVE  UNCHANGED <<number, credit, ago>>
  BY <1>2 DEF Send, RequestFails, ForgetCookie, redis, ghosts
<1>3. ASSUME NEW d \in Domain, WorkerGrants(d) \/ Reset(d)
      PROVE  Remember /\ (Grant(d) \/ Close(d))
  BY <1>3 DEF WorkerGrants, Reset
<1>4. ASSUME NEW d \in Manual, AdminUpdate(d)  PROVE Remember /\ Assign(d)
  BY <1>4 DEF AdminUpdate
<1>5. ASSUME NEW d, AdminWhiteList(d)  PROVE UNCHANGED <<number, credit, ago>>
  BY <1>5 DEF AdminWhiteList, ghosts
<1>6. ASSUME NEW n \in Node, Restart(n)  PROVE UNCHANGED <<number, credit, ago>>
  BY <1>6 DEF Restart, redis, ghosts
<1>7. UNCHANGED vars => UNCHANGED <<number, credit, ago>>
  BY DEF vars, redis, ghosts
<1> QED  BY <1>1, <1>2, <1>3, <1>4, <1>5, <1>6, <1>7 DEF Next

\* How long the number takes to rise by x.
Span(x) == Units(x, Unit) * Interval

\* It is monotone and subadditive.
LEMMA SpanGrows ==
    /\ \A s, cp \in Int : CalcRemainingWaitSecond(s, cp, Unit, Interval) = Span(s - cp)
    /\ \A x \in Int : /\ Span(x) \in Nat
                      /\ x <= 0 => Span(x) = 0
                      /\ x > 0 => Span(x) >= Interval
                      /\ x <= Unit => Span(x) <= Interval
    /\ \A x, y \in Int : x <= y => Span(x) <= Span(y)
    /\ \A x, y \in Int : Span(x + y) <= Span(x) + Span(y)
<1>1. Unit \in Nat \ {0} /\ Interval \in Nat
  BY CheckAssumption
<1>2. \A s, cp \in Int : CalcRemainingWaitSecond(s, cp, Unit, Interval) = Span(s - cp)
  BY <1>1, WaitInUnits DEF Span
<1>3. ASSUME NEW a \in Nat, NEW b \in Nat, a <= b  PROVE a * Interval <= b * Interval
  <2>1. PICK k \in Nat : b = a + k
    BY <1>3
  <2>2. b * Interval = (a * Interval) + (k * Interval) /\ k * Interval \in Nat /\ a * Interval \in Nat
    BY <1>1, <2>1
  <2> QED  BY <2>2
<1>4. \A n \in Nat : n * Interval \in Nat /\ n * Unit \in Nat
  BY <1>1
<1>5. ASSUME NEW x \in Int, NEW y \in Int, x <= y  PROVE Span(x) <= Span(y)
  <2>1. Units(x, Unit) \in Nat /\ Units(y, Unit) \in Nat /\ Units(y, Unit) * Unit >= y
    BY <1>1, LeastUnits
  <2>2. Units(y, Unit) * Unit >= x
    BY <1>4, <1>5, <2>1
  <2>3. Units(x, Unit) <= Units(y, Unit)
    BY <1>1, <2>1, <2>2, LeastUnits
  <2> QED  BY <1>3, <2>1, <2>3 DEF Span
<1>6. ASSUME NEW x \in Int, NEW y \in Int  PROVE Span(x + y) <= Span(x) + Span(y)
  <2>1. PICK a \in Nat : a = Units(x, Unit) /\ a * Unit >= x
    BY <1>1, LeastUnits
  <2>2. PICK b \in Nat : b = Units(y, Unit) /\ b * Unit >= y
    BY <1>1, LeastUnits
  <2>3. x + y \in Int /\ Units(x + y, Unit) \in Nat
    BY <1>1, LeastUnits
  <2>4. /\ (a + b) * Unit = (a * Unit) + (b * Unit) /\ a + b \in Nat
        /\ (a + b) * Interval = (a * Interval) + (b * Interval)
    BY <1>1
  <2>5. (a + b) * Unit >= x + y
    BY <1>4, <2>1, <2>2, <2>4
  <2>6. Units(x + y, Unit) <= a + b
    BY <1>1, <2>3, <2>4, <2>5, LeastUnits
  <2>7. Units(x + y, Unit) * Interval <= (a + b) * Interval
    BY <1>3, <2>3, <2>4, <2>6
  <2> QED  BY <2>1, <2>2, <2>4, <2>7 DEF Span
<1>7. ASSUME NEW x \in Int
      PROVE  /\ Span(x) \in Nat
             /\ x <= 0 => Span(x) = 0
             /\ x > 0 => Span(x) >= Interval
             /\ x <= Unit => Span(x) <= Interval
  <2>1. PICK n \in Nat : /\ n = Units(x, Unit) /\ n * Unit >= x
                         /\ \A m \in Nat : m * Unit >= x => n <= m
    BY <1>1, LeastUnits
  <2>2. /\ 0 * Unit = 0 /\ 1 * Unit = Unit /\ 0 * Interval = 0 /\ 1 * Interval = Interval
        /\ 0 \in Nat /\ 1 \in Nat
    BY <1>1
  <2>3. x <= 0 => n = 0
    BY <2>1, <2>2
  <2>4. x > 0 => n >= 1
    BY <2>1, <2>2
  <2>5. x <= Unit => n <= 1
    BY <2>1, <2>2
  <2>6. n * Interval \in Nat /\ (n >= 1 => n * Interval >= Interval) /\ (n <= 1 => n * Interval <= Interval)
    BY <1>3, <1>4, <2>2
  <2> QED  BY <2>1, <2>2, <2>3, <2>4, <2>5, <2>6 DEF Span
<1> QED  BY <1>2, <1>5, <1>6, <1>7

\* A queue that is off counts from zero when it opens.
From(v) == IF v = Off THEN 0 ELSE v

\* What the pace of the worker says about the past: a number that the permit
\* number has left behind was left as long ago as it takes to rise from there,
\* but for the interval that was under way and the seconds a unit was late by.
NumberPace ==
    \A d \in Domain \ Manual : \A v \in Off..MaxNumber :
        number[d] > v /\ ago[d][v] < Horizon =>
            ago[d][v] >= (Span(number[d] - From(v)) - (Interval + Jitter)) + credit[d]

\* The seconds until a client with serial number s is permitted at best.
Due(d, s) ==
    IF number[d] >= s \/ Span(s - From(number[d])) <= credit[d] THEN 0
    ELSE Span(s - From(number[d])) - credit[d]

\* The numbers of one domain whose number nobody sets by hand, before and after
\* a step: the same, off, opened at zero or raised when a unit has been earned.
LEMMA NumberMovesOn ==
    ASSUME TypeOK, [Next]_vars, NEW d \in Domain, d \notin Manual
    PROVE  /\ number[d] \in Off..MaxNumber /\ number'[d] \in Off..MaxNumber
           /\ credit[d] \in 0..(Interval + Jitter) /\ credit'[d] \in 0..(Interval + Jitter)
           /\ \/ /\ ~Tick
                 /\ \/ UNCHANGED <<number[d], credit[d]>>
                    \/ number'[d] = Off /\ UNCHANGED credit[d]
                    \/ number[d] = Off /\ number'[d] = 0 /\ UNCHANGED credit[d]
                    \/ credit[d] >= Interval /\ number'[d] = Raised(number[d])
                       /\ credit'[d] = credit[d] - Interval
                 /\ \/ UNCHANGED <<number, ago>>
                    \/ Remember
              \/ /\ Tick
                 /\ number'[d] \in {Off, number[d]}
                 /\ credit'[d] = IF credit[d] < Interval + Jitter THEN credit[d] + 1 ELSE credit[d]
<1>1. /\ number[d] \in Off..MaxNumber /\ number'[d] \in Off..MaxNumber
      /\ credit[d] \in 0..(Interval + Jitter) /\ credit'[d] \in 0..(Interval + Jitter)
  BY TypeStep DEF TypeOK, RedisType
<1>2. number \in [Domain -> Off..MaxNumber] /\ credit \in [Domain -> 0..(Interval + Jitter)]
  BY DEF TypeOK, RedisType
<1>3. CASE Tick
  BY <1>1, <1>2, <1>3 DEF Tick, PacerTick
<1>4. CASE ~Tick
  <2>1. \/ UNCHANGED <<number, credit>>
        \/ Remember /\ \E e \in Domain : Grant(e) \/ Close(e) \/ Open(e)
        \/ Remember /\ \E e \in Manual : Assign(e)
    BY <1>4, NumberChanges
  <2>2. ASSUME NEW e \in Domain, Grant(e) \/ Close(e) \/ Open(e), Remember
        PROVE  \/ UNCHANGED <<number[d], credit[d]>>
               \/ number'[d] = Off /\ UNCHANGED credit[d]
               \/ number[d] = Off /\ number'[d] = 0 /\ UNCHANGED credit[d]
               \/ credit[d] >= Interval /\ number'[d] = Raised(number[d])
                       /\ credit'[d] = credit[d] - Interval
    BY <1>2, <2>2 DEF Grant, Close, Open
  <2>3. ASSUME NEW e \in Manual, Assign(e)  PROVE UNCHANGED <<number[d], credit[d]>>
    <3>1. PICK v \in 0..MaxNumber : number' = [number EXCEPT ![e] = v]
      BY <2>3 DEF Assign
    <3> QED  BY <1>2, <2>3, <3>1 DEF Assign
  <2>4. UNCHANGED <<number, ago>> \/ Remember
    BY <1>4, NumberChanges
  <2> QED  BY <1>1, <1>4, <2>1, <2>2, <2>3, <2>4
<1> QED  BY <1>3, <1>4

LEMMA NumberPaceStep == TypeOK /\ NumberPace /\ [Next]_vars => NumberPace'
<1> SUFFICES ASSUME TypeOK, NumberPace, [Next]_vars, NEW d \in Domain \ Manual,
                    NEW v \in Off..MaxNumber, number'[d] > v, ago'[d][v] < Horizon
             PROVE  ago'[d][v] >= (Span(number'[d] - From(v)) - (Interval + Jitter)) + credit'[d]
  BY DEF NumberPace
<1>1. /\ Interval \in Nat /\ Jitter \in Nat /\ MaxNumber \in Nat /\ Horizon \in Nat /\ Unit \in Nat
      /\ v \in Int /\ v >= Off /\ v <= MaxNumber /\ From(v) \in Nat /\ From(v) >= v
  BY CheckAssumption DEF Off, From
<1>2. ago[d][v] \in Nat /\ ago[d][v] <= Horizon /\ ago'[d][v] \in Nat
  <2>1. ago[d][v] \in 0..Horizon /\ ago'[d][v] \in 0..Horizon
    BY TypeStep DEF TypeOK, GhostType
  <2> QED  BY <1>1, <2>1
<1>3. number[d] > v /\ ago[d][v] < Horizon =>
        ago[d][v] >= (Span(number[d] - From(v)) - (Interval + Jitter)) + credit[d]
  BY DEF NumberPace
<1>4. /\ number[d] \in Int /\ number[d] >= Off /\ number'[d] \in Int /\ number'[d] >= Off
      /\ number[d] <= MaxNumber /\ number'[d] <= MaxNumber
      /\ credit[d] \in Nat /\ credit[d] <= Interval + Jitter /\ credit'[d] \in Nat
  BY <1>1, NumberMovesOn DEF Off
<1>11. /\ number[d] - From(v) \in Int /\ number'[d] - From(v) \in Int
       /\ (number[d] - From(v)) + Unit \in Int /\ Unit \in Int
  BY <1>1, <1>4
<1>5. Span(number[d] - From(v)) \in Nat /\ Span(number'[d] - From(v)) \in Nat
  BY <1>11, SpanGrows
<1>6. CASE Tick
  <2>1. ago'[d][v] = IF number'[d] = v THEN 0
                     ELSE IF ago[d][v] < Horizon THEN ago[d][v] + 1 ELSE Horizon
    BY <1>6 DEF Tick
  <2>2. number'[d] \in {Off, number[d]}
        /\ credit'[d] = IF credit[d] < Interval + Jitter THEN credit[d] + 1 ELSE credit[d]
    BY <1>6, NumberMovesOn
  <2>3. number'[d] = number[d]
    BY <1>1, <2>2 DEF Off
  <2> QED  BY <1>1, <1>2, <1>3, <1>4, <1>5, <2>1, <2>2, <2>3
<1>7. CASE ~Tick /\ UNCHANGED <<number[d], credit[d]>>
  <2>1. ago'[d][v] = ago[d][v]
    <3>1. CASE Remember
      <4>1. ago'[d][v] = IF number'[d] = v THEN 0 ELSE ago[d][v]
        BY <3>1 DEF Remember
      <4> QED  BY <1>1, <1>4, <4>1
    <3> QED  BY <1>7, <3>1, NumberMovesOn
  <2> QED  BY <1>3, <1>7, <2>1
<1>8. CASE ~Tick /\ credit[d] >= Interval /\ number'[d] = Raised(number[d])
                       /\ credit'[d] = credit[d] - Interval
  <2>1. /\ From(number[d]) \in Nat /\ number'[d] <= From(number[d]) + Unit
    BY <1>1, <1>4, <1>8 DEF Raised, From, Off
  <2>2. CASE number[d] > v
    <3>1. ago'[d][v] = ago[d][v]
      <4>1. CASE Remember
        <5>1. ago'[d][v] = IF number'[d] = v THEN 0 ELSE ago[d][v]
          BY <4>1 DEF Remember
        <5> QED  BY <1>1, <1>4, <5>1
      <4> QED  BY <1>8, <4>1, NumberMovesOn
    <3>2. From(number[d]) = number[d]
      BY <1>1, <1>4, <2>2 DEF From, Off
    <3>3. number'[d] - From(v) <= (number[d] - From(v)) + Unit
      BY <1>1, <1>4, <2>1, <3>2
    <3>4. Span(number'[d] - From(v)) <= Span((number[d] - From(v)) + Unit)
      BY <1>11, <3>3, SpanGrows
    <3>5. Span((number[d] - From(v)) + Unit) <= Span(number[d] - From(v)) + Span(Unit)
      BY <1>11, SpanGrows
    <3>6. Span(Unit) \in Nat /\ Span(Unit) <= Interval
      BY <1>1, <1>11, SpanGrows
    <3>7. Span((number[d] - From(v)) + Unit) \in Nat
      BY <1>11, SpanGrows
    <3> QED  BY <1>1, <1>2, <1>3, <1>4, <1>5, <1>8, <2>2, <3>1, <3>4, <3>5, <3>6, <3>7
  <2>3. CASE ~(number[d] > v)
    <3>1. From(number[d]) <= From(v)
      BY <1>1, <1>4, <2>3 DEF From, Off
    <3>2. number'[d] - From(v) <= Unit
      BY <1>1, <1>4, <2>1, <3>1
    <3>3. Span(number'[d] - From(v)) <= Interval
      BY <1>11, <3>2, SpanGrows
    <3> QED  BY <1>1, <1>2, <1>4, <1>5, <1>8, <3>3
  <2> QED  BY <2>2, <2>3
<1>9. CASE number[d] = Off /\ number'[d] = 0 /\ UNCHANGED credit[d]
  <2>1. number'[d] - From(v) <= 0
    BY <1>1, <1>9
  <2>2. Span(number'[d] - From(v)) = 0
    BY <1>11, <2>1, SpanGrows
  <2> QED  BY <1>1, <1>2, <1>4, <1>9, <2>2
<1>10. CASE number'[d] = Off
  BY <1>1, <1>10 DEF Off
<1> QED  BY <1>6, <1>7, <1>8, <1>9, <1>10, NumberMovesOn

\* A client is never due sooner than by the second that passes.
LEMMA DueStep ==
    ASSUME TypeOK, [Next]_vars, NEW d \in Domain, d \notin Manual, NEW s \in 1..MaxNumber
    PROVE  /\ Due(d, s) \in Nat /\ Due(d, s)' \in Nat
           /\ Due(d, s)' >= Due(d, s) - 1
           /\ ~Tick => Due(d, s)' >= Due(d, s)
<1> DEFINE n == number[d]
           m == number'[d]
           u == credit[d]
           w == credit'[d]
<1>1. /\ n \in Off..MaxNumber /\ m \in Off..MaxNumber /\ u \in 0..(Interval + Jitter) /\ w \in 0..(Interval + Jitter)
      /\ Due(d, s) = IF n >= s \/ Span(s - From(n)) <= u THEN 0 ELSE Span(s - From(n)) - u
      /\ Due(d, s)' = IF m >= s \/ Span(s - From(m)) <= w THEN 0 ELSE Span(s - From(m)) - w
  BY NumberMovesOn DEF Due, From, Span
<1>2. \/ /\ ~Tick
         /\ \/ m = n /\ w = u
            \/ m = Off /\ w = u
            \/ n = Off /\ m = 0 /\ w = u
            \/ u >= Interval /\ m = Raised(n) /\ w = u - Interval
      \/ Tick /\ m \in {Off, n} /\ w = IF u < Interval + Jitter THEN u + 1 ELSE u
  BY NumberMovesOn
<1> HIDE DEF n, m, u, w
<1>3. /\ Interval \in Nat /\ Jitter \in Nat /\ MaxNumber \in Nat /\ Unit \in Nat \ {0} /\ s \in Nat /\ s > 0 /\ s <= MaxNumber
      /\ n \in Int /\ m \in Int /\ u \in Nat /\ u <= Interval + Jitter /\ w \in Nat /\ w <= Interval + Jitter
      /\ From(n) \in Nat /\ From(m) \in Nat
      /\ n < s => From(n) < s
      /\ m < s => From(m) < s
  BY <1>1, CheckAssumption DEF Off, From
<1>10. /\ s - From(n) \in Int /\ s - From(m) \in Int
       /\ (s - From(m)) + Unit \in Int /\ Unit \in Int
       /\ n < s => s - From(n) > 0
       /\ m < s => s - From(m) > 0
  BY <1>3
<1>4. /\ Span(s - From(n)) \in Nat /\ Span(s - From(m)) \in Nat
      /\ n < s => Span(s - From(n)) >= Interval
      /\ m < s => Span(s - From(m)) >= Interval
  BY <1>10, SpanGrows
<1>5. Due(d, s) \in Nat /\ Due(d, s)' \in Nat
  BY <1>1, <1>3, <1>4
<1>6. CASE m = Off
  <2>1. s - From(n) <= s - From(m) /\ m < s
    BY <1>3, <1>6 DEF From, Off
  <2>2. Span(s - From(n)) <= Span(s - From(m))
    BY <1>10, <2>1, SpanGrows
  <2>3. w <= u + 1 /\ (~Tick => w <= u)
    BY <1>2, <1>3, <1>6 DEF Raised
  <2> QED  BY <1>1, <1>3, <1>4, <1>5, <2>1, <2>2, <2>3
<1>7. CASE m = n /\ w <= u + 1 /\ (~Tick => w = u)
  BY <1>1, <1>3, <1>4, <1>5, <1>7
<1>8. CASE n = Off /\ m = 0 /\ w = u
  <2>1. From(n) = 0 /\ From(m) = 0 /\ n < s /\ m < s
    BY <1>3, <1>8 DEF From, Off
  <2> QED  BY <1>1, <1>3, <1>4, <1>5, <1>8, <2>1
<1>9. CASE u >= Interval /\ m = Raised(n) /\ w = u - Interval
  <2>1. m \in Nat /\ From(m) = m /\ (m >= s \/ m = From(n) + Unit)
    BY <1>1, <1>3, <1>9 DEF Raised, From, Off
  <2>2. m <= From(n) + Unit
    BY <1>3, <1>9 DEF Raised, From, Off
  <2>3. CASE m >= s
    <3>1. s - From(n) <= Unit
      BY <1>3, <2>2, <2>3
    <3>2. Span(s - From(n)) <= Interval
      BY <1>10, <3>1, SpanGrows
    <3> QED  BY <1>1, <1>3, <1>4, <1>5, <1>9, <2>3, <3>2
  <2>4. CASE ~(m >= s)
    <3>1. s - From(n) = (s - From(m)) + Unit
      BY <1>3, <2>1, <2>4
    <3>2. Span((s - From(m)) + Unit) <= Span(s - From(m)) + Span(Unit)
      BY <1>10, SpanGrows
    <3>3. Span(Unit) \in Nat /\ Span(Unit) <= Interval
      BY <1>10, SpanGrows
    <3> QED  BY <1>1, <1>3, <1>4, <1>5, <1>9, <2>4, <3>1, <3>2, <3>3
  <2> QED  BY <2>3, <2>4
<1> QED  BY <1>2, <1>3, <1>6, <1>7, <1>8, <1>9

\* How early the remaining wait may end: as ToldWaitKept has it.
Early == 2 * Interval + Jitter + NegativeCacheTTLSec + MaxRequest

\* The bound on ages is one the ages that matter stay below.
FarHorizon ==
    /\ CacheTTLSec + MaxRequest <= Horizon
    /\ NegativeCacheTTLSec + MaxRequest <= Horizon

\* Who has no number yet was told of the first interval at most, and who has one
\* was told less than Early longer than it is due.
ToldInv ==
    \A c \in Client : Host[c] \notin Manual =>
        /\ cookie[c].serial = 0 => told[c] <= Interval
        /\ cookie[c].serial # 0 => told[c] < Early + Due(Host[c], cookie[c].serial)

\* The wait of a client that goes by v is at most Early longer than it is due
\* by the number of the queue: v is only so old, and the permit number cannot
\* have risen by more meanwhile.
LEMMA WaitStated ==
    ASSUME TypeOK, NumberPace, FarHorizon, NEW d \in Domain, d \notin Manual,
           NEW s \in 0..MaxNumber, NEW v \in Off..MaxNumber,
           ago[d][v] < NumberTTL(v) + MaxRequest
    PROVE  /\ Span(s - v) \in Nat
           /\ s = 0 => Span(s - v) <= Interval
           /\ s # 0 => Span(s - v) < Early + Due(d, s)
<1> DEFINE n == number[d]
           u == credit[d]
           a == ago[d][v]
<1>1. /\ Interval \in Nat /\ Jitter \in Nat /\ MaxNumber \in Nat /\ Horizon \in Nat /\ Unit \in Nat \ {0}
      /\ MaxRequest \in Nat /\ CacheTTLSec \in 1..Interval /\ NegativeCacheTTLSec \in 1..Interval
      /\ v \in Int /\ v >= Off /\ v <= MaxNumber /\ From(v) \in Nat
      /\ s \in Nat /\ s <= MaxNumber /\ Off = -1
      /\ v = Off \/ From(v) = v
      /\ v = Off => From(v) = 0
  BY CheckAssumption DEF Off, From
<1>2. /\ n \in Int /\ n >= Off /\ n <= MaxNumber /\ u \in Nat /\ u <= Interval + Jitter /\ From(n) \in Nat
      /\ n = Off \/ From(n) = n
      /\ n = Off => From(n) = 0
  <2>1. n \in Off..MaxNumber /\ u \in 0..(Interval + Jitter)
    BY DEF TypeOK, RedisType
  <2> HIDE DEF n, u
  <2> QED  BY <1>1, <2>1 DEF From
<1>3. a \in Nat /\ a < Horizon
  <2>1. a \in 0..Horizon
    BY DEF TypeOK, GhostType
  <2>2. a < NumberTTL(v) + MaxRequest /\ NumberTTL(v) + MaxRequest <= Horizon
    BY <1>1 DEF NumberTTL, FarHorizon
  <2> HIDE DEF a
  <2> QED  BY <1>1, <2>1, <2>2 DEF NumberTTL
<1>4. n > v => a >= (Span(n - From(v)) - (Interval + Jitter)) + u
  BY <1>3 DEF NumberPace
<1>5. Due(d, s) = IF n >= s \/ Span(s - From(n)) <= u THEN 0 ELSE Span(s - From(n)) - u
  BY DEF Due
<1>6. a < (IF v = Off THEN NegativeCacheTTLSec ELSE CacheTTLSec) + MaxRequest
  BY DEF NumberTTL
<1> HIDE DEF n, u, a
<1>7. /\ s - v \in Int /\ s - From(v) \in Int /\ s - From(n) \in Int /\ n - From(v) \in Int
      /\ 1 \in Int /\ (s - From(v)) + 1 \in Int /\ (s - From(n)) + (n - From(v)) \in Int
  BY <1>1, <1>2
<1>8. /\ Span(s - v) \in Nat /\ Span(s - From(v)) \in Nat
      /\ Span(s - From(n)) \in Nat /\ Span(n - From(v)) \in Nat
  BY <1>7, SpanGrows
\* Counting from -1 costs one interval at most.
<1>9. /\ Span(s - v) <= Span(s - From(v)) + (IF v = Off THEN Interval ELSE 0)
  <2>1. CASE v = Off
    <3>1. s - v = (s - From(v)) + 1
      BY <1>1, <2>1
    <3>2. Span((s - From(v)) + 1) <= Span(s - From(v)) + Span(1)
      BY <1>7, SpanGrows
    <3>3. 1 <= Unit
      BY <1>1
    <3>4. Span(1) \in Nat /\ Span(1) <= Interval
      BY <1>7, <3>3, SpanGrows
    <3> QED  BY <1>1, <1>8, <2>1, <3>1, <3>2, <3>4
  <2>2. CASE v # Off
    <3>1. From(v) = v
      BY <1>1, <2>2
    <3> QED  BY <1>1, <1>8, <2>2, <3>1
  <2> QED  BY <2>1, <2>2
<1>10. s = 0 => Span(s - v) <= Interval
  <2>1. s = 0 => s - From(v) <= 0
    BY <1>1
  <2>2. s = 0 => Span(s - From(v)) = 0
    BY <1>7, <2>1, SpanGrows
  <2> QED  BY <1>1, <1>8, <1>9, <2>2
<1>11. ASSUME s # 0  PROVE Span(s - v) < Early + Due(d, s)
  <2>1. /\ Early \in Nat /\ Early > Interval + Interval + Jitter
        /\ Early >= Interval + Jitter + MaxRequest + CacheTTLSec
        /\ Early >= Interval + Jitter + MaxRequest + Interval + NegativeCacheTTLSec
    BY <1>1 DEF Early
  <2>2. CASE n > v
    <3>1. n >= From(v) /\ From(n) = n
      BY <1>1, <1>2, <2>2
    <3>2. Span(n - From(v)) <= Interval + Jitter + a - u
      BY <1>1, <1>2, <1>3, <1>4, <1>8, <2>2
    <3>3. CASE n >= s
      <4>1. s - From(v) <= n - From(v)
        BY <1>1, <1>2, <3>3
      <4>2. Span(s - From(v)) <= Span(n - From(v))
        BY <1>7, <4>1, SpanGrows
      <4> QED  BY <1>1, <1>2, <1>3, <1>5, <1>6, <1>8, <1>9, <2>1, <3>2, <3>3, <4>2
    <3>4. CASE ~(n >= s)
      <4>1. s - From(v) = (s - From(n)) + (n - From(v))
        BY <1>1, <1>2, <3>1
      <4>2. Span((s - From(n)) + (n - From(v))) <= Span(s - From(n)) + Span(n - From(v))
        BY <1>7, SpanGrows
      <4> QED  BY <1>1, <1>2, <1>3, <1>5, <1>6, <1>8, <1>9, <2>1, <3>2, <3>4, <4>1, <4>2
    <3> QED  BY <3>3, <3>4
  <2>3. CASE ~(n > v)
    <3>1. From(n) <= From(v)
      BY <1>1, <1>2, <2>3
    <3>2. s - From(v) <= s - From(n)
      BY <1>1, <1>2, <3>1
    <3>3. Span(s - From(v)) <= Span(s - From(n))
      BY <1>7, <3>2, SpanGrows
    <3>4. n >= s => s - From(v) <= 0
      BY <1>1, <1>2, <2>3
    <3>5. n >= s => Span(s - From(v)) = 0
      BY <1>7, <3>4, SpanGrows
    <3> QED  BY <1>1, <1>2, <1>5, <1>8, <1>9, <2>1, <3>3, <3>5
  <2> QED  BY <2>2, <2>3
<1> QED  BY <1>8, <1>10, <1>11

\* A request that is answered without a remaining wait leaves what the client
\* was told, and at most gives it the number it has just taken.
LEMMA AnswerKeepsWait ==
    ASSUME TypeOK, HeldInv, NEW c \in Client, NEW a, Answer(c, a), pc[c] # "idle", NEW b \in Client
    PROVE  /\ told'[b] = told[b]
           /\ cookie'[b].serial = cookie[b].serial \/ cookie[b].serial = 0
<1>1. cookie[c].serial \in {0, held[c].serial}
  BY DEF HeldInv
<1> QED  BY <1>1 DEF Answer, Respond, TypeOK, RequestType

\* What a step does to what client b was told.
LEMMA ToldSteps ==
    ASSUME TypeOK, NumberAge, HeldInv, [Next]_vars, NEW b \in Client
    PROVE  \/ Tick
           \/ /\ told'[b] = told[b]
              /\ cookie'[b].serial = cookie[b].serial \/ cookie[b].serial = 0
           \/ told'[b] = 0 /\ cookie'[b].serial = 0
           \/ /\ UNCHANGED <<number, credit>> /\ cookie'[b].serial = held[b].serial
              /\ \E v \in Off..MaxNumber :
                   /\ ago[Host[b]][v] < NumberTTL(v) + MaxRequest
                   /\ told'[b] <= Span(held[b].serial - v)
<1> DEFINE Kept == /\ told'[b] = told[b]
                   /\ cookie'[b].serial = cookie[b].serial \/ cookie[b].serial = 0
           Told == /\ UNCHANGED <<number, credit>> /\ cookie'[b].serial = held[b].serial
                   /\ \E v \in Off..MaxNumber :
                        /\ ago[Host[b]][v] < NumberTTL(v) + MaxRequest
                        /\ told'[b] <= Span(held[b].serial - v)
<1>1. UNCHANGED <<cookie, told>> => Kept
  OBVIOUS
<1>2. ASSUME NEW c \in Client, Check(c), ~Decided(c)  PROVE Kept
  <2>1. pc[c] # "idle"
    BY <1>2, Moves DEF TypeOK
  <2>2. CASE SkipEnable(c) \/ EnableDomain(c) \/ MarkEnabled(c) \/ AssignSerialNumber(c)
    BY <2>2 DEF SkipEnable, EnableDomain, MarkEnabled, AssignSerialNumber, Goto
  <2>3. CASE GetNumber(c) \/ GetPermission(c)
    BY <2>3 DEF GetNumber, GetPermission, Read
  <2>4. CASE CheckWhiteList(c) \/ CachedPermission(c) \/ CachePermission(c) \/ PermitClient(c)
    <3>1. UNCHANGED <<cookie, told>> \/ Answer(c, "white") \/ Answer(c, "in")
      BY <2>4 DEF CheckWhiteList, CachedPermission, CachePermission, WithPermission, PermitClient, Goto
    <3> QED  BY <2>1, <3>1, AnswerKeepsWait
  <2> QED  BY <1>2, <2>2, <2>3, <2>4 DEF Check, Decided
<1>3. ASSUME NEW c \in Client, Decided(c)  PROVE Kept \/ Told
  <2>1. PICK v \in Off..MaxNumber :
          WithNumber(c, v) /\ ago[Host[c]][v] < NumberTTL(v) + MaxRequest
    BY <1>3, DecidingNumber
  <2>2. UNCHANGED <<number, credit>> /\ pc[c] # "idle"
    BY <1>3 DEF Decided, CachedNumber, CacheNumber, UsesNumber, redis
  <2>3. CASE Answer(c, "off")
    BY <2>2, <2>3, AnswerKeepsWait
  <2>4. CASE pc[c] = "remaining"
    <3> DEFINE wait == CalcRemainingWaitSecond(held[c].serial, v, Unit, Interval)
    <3>1. Respond(c, "wait", IF wait > MaxTold THEN MaxTold ELSE wait)
      BY <2>1, <2>4 DEF WithNumber
    <3>2. held[c].serial \in Int /\ v \in Int /\ MaxTold \in Nat
      BY CheckAssumption DEF TypeOK, RequestType, Cookie, Off
    <3>3. wait = Span(held[c].serial - v) /\ wait \in Nat
      <4>1. held[c].serial - v \in Int
        BY <3>2
      <4> QED  BY <3>2, <4>1, SpanGrows
    <3> HIDE DEF wait
    <3>4. CASE b = c
      <4>1. CASE /\ cookie' = [cookie EXCEPT ![c] = IF Saved(c) THEN held[c] ELSE @]
                 /\ told' = [told EXCEPT ![c] = IF wait > MaxTold THEN MaxTold ELSE wait]
        <5>1. cookie'[b] = held[b] /\ told'[b] = IF wait > MaxTold THEN MaxTold ELSE wait
          BY <2>4, <3>4, <4>1 DEF Saved, TypeOK, RequestType
        <5>2. told'[b] <= Span(held[b].serial - v)
          BY <3>2, <3>3, <3>4, <5>1
        <5> QED  BY <2>1, <2>2, <3>4, <5>1, <5>2
      <4>2. CASE UNCHANGED <<cookie, told>>
        BY <4>2
      <4> QED  BY <3>1, <4>1, <4>2 DEF Respond
    <3>5. CASE b # c
      BY <3>1, <3>5 DEF Respond, TypeOK, RequestType
    <3> QED  BY <3>4, <3>5
  <2> QED  BY <2>1, <2>3, <2>4 DEF WithNumber, Goto
<1>4. ASSUME NEW c \in Client, RequestFails(c)  PROVE Kept
  BY <1>4, AnswerKeepsWait DEF RequestFails
<1>5. ASSUME NEW c \in Client, NEW n \in Node, NEW enable \in BOOLEAN, Send(c, n, enable)
      PROVE  UNCHANGED <<cookie, told>>
  BY <1>5 DEF Send
<1>6. ASSUME NEW c \in Client, ForgetCookie(c)
      PROVE  Kept \/ (told'[b] = 0 /\ cookie'[b].serial = 0)
  BY <1>6 DEF ForgetCookie, TypeOK, RequestType, NoCookie
<1>7. ASSUME NEW n \in Node, Restart(n)  PROVE UNCHANGED <<cookie, told>>
  BY <1>7 DEF Restart
<1>8. ASSUME NEW d, WorkerGrants(d) \/ Reset(d) \/ AdminUpdate(d) \/ AdminWhiteList(d)
      PROVE  UNCHANGED <<cookie, told>>
  BY <1>8 DEF WorkerGrants, Reset, AdminUpdate, AdminWhiteList, request
<1>9. UNCHANGED vars => UNCHANGED <<cookie, told>>
  BY DEF vars, request
<1> HIDE DEF Kept, Told
<1>10. \/ Tick \/ Kept \/ Told
       \/ told'[b] = 0 /\ cookie'[b].serial = 0
  BY <1>1, <1>2, <1>3, <1>4, <1>5, <1>6, <1>7, <1>8, <1>9 DEF Next
<1> QED  BY <1>10 DEF Kept, Told

LEMMA ToldStep ==
    ASSUME TypeOK, NumberAge, NumberPace, HeldInv, FarHorizon, ToldInv, [Next]_vars
    PROVE  ToldInv'
<1> SUFFICES ASSUME NEW c \in Client, Host[c] \notin Manual
             PROVE  /\ cookie'[c].serial = 0 => told'[c] <= Interval
                    /\ cookie'[c].serial # 0 =>
                         told'[c] < Early + Due(Host[c], cookie[c].serial)'
  BY DEF ToldInv, Early
<1> DEFINE d == Host[c]
           s == cookie[c].serial
           r == cookie'[c].serial
           DueThen(q) == IF number'[d] >= q \/ Span(q - From(number'[d])) <= credit'[d] THEN 0
                         ELSE Span(q - From(number'[d])) - credit'[d]
<1>1. /\ d \in Domain /\ d \notin Manual /\ Interval \in Nat
      /\ Early \in Nat /\ Early > Interval
  BY CheckAssumption DEF Early
<1>2. /\ s \in 0..MaxNumber /\ r \in 0..MaxNumber /\ held[c].serial \in 0..MaxNumber
      /\ told[c] \in Nat /\ told'[c] \in Nat
  <2>1. cookie \in [Client -> Cookie] /\ cookie' \in [Client -> Cookie]
        /\ held[c] \in Cookie /\ told[c] \in 0..MaxTold /\ told'[c] \in 0..MaxTold
    BY TypeStep DEF TypeOK, RequestType
  <2>2. cookie[c] \in Cookie /\ cookie'[c] \in Cookie
    BY <2>1
  <2> QED  BY <2>1, <2>2 DEF Cookie
<1>3. /\ s = 0 => told[c] <= Interval
      /\ s # 0 => told[c] < Early + Due(d, s)
  BY DEF ToldInv
<1>4. Due(d, cookie[c].serial)' = DueThen(r)
  BY DEF Due, Span, From
<1>5. ASSUME NEW q \in 1..MaxNumber
      PROVE  /\ Due(d, q) \in Nat /\ DueThen(q) \in Nat
             /\ DueThen(q) >= Due(d, q) - 1
             /\ ~Tick => DueThen(q) >= Due(d, q)
  <2>1. Due(d, q)' = DueThen(q)
    BY DEF Due, Span, From
  <2>2. /\ Due(d, q) \in Nat /\ Due(d, q)' \in Nat
        /\ Due(d, q)' >= Due(d, q) - 1
        /\ ~Tick => Due(d, q)' >= Due(d, q)
    BY <1>1, DueStep
  <2> HIDE DEF DueThen
  <2> QED  BY <2>1, <2>2
<1>6. CASE Tick
  <2>1. r = s
    BY <1>6, TickSerials
  <2>2. told'[c] = IF told[c] > 0 THEN told[c] - 1 ELSE 0
    BY <1>6 DEF Tick
  <2> HIDE DEF r, s, d, DueThen
  <2> QED  BY <1>1, <1>2, <1>3, <1>4, <1>5, <2>1, <2>2 DEF r, d
<1>7. CASE ~Tick /\ told'[c] = told[c] /\ (r = s \/ s = 0)
  <2> HIDE DEF r, s, d, DueThen
  <2> QED  BY <1>1, <1>2, <1>3, <1>4, <1>5, <1>7 DEF r, d
<1>8. CASE told'[c] = 0 /\ r = 0
  BY <1>1, <1>8
<1>9. CASE /\ UNCHANGED <<number, credit>> /\ r = held[c].serial
           /\ \E v \in Off..MaxNumber :
                   /\ ago[d][v] < NumberTTL(v) + MaxRequest
                   /\ told'[c] <= Span(held[c].serial - v)
  <2>1. PICK v \in Off..MaxNumber :
          ago[d][v] < NumberTTL(v) + MaxRequest /\ told'[c] <= Span(held[c].serial - v)
    BY <1>9
  <2>2. /\ Span(held[c].serial - v) \in Nat
        /\ held[c].serial = 0 => Span(held[c].serial - v) <= Interval
        /\ held[c].serial # 0 => Span(held[c].serial - v) < Early + Due(d, held[c].serial)
    BY <1>1, <1>2, <2>1, WaitStated
  <2>3. Due(d, held[c].serial) = DueThen(r)
    BY <1>9 DEF Due
  <2>4. r # 0 => Due(d, held[c].serial) \in Nat
    BY <1>2, <1>5, <1>9
  <2> HIDE DEF r, d, DueThen
  <2> QED  BY <1>1, <1>2, <1>4, <1>9, <2>1, <2>2, <2>3, <2>4 DEF r, d
<1> QED  BY <1>6, <1>7, <1>8, <1>9, ToldSteps

\* Nobody is told to wait much longer than necessary, for any nodes, caches,
\* units and intervals, and however often the queue ends and starts again while
\* the client waits.  The wait is the one the handler computes, in multiples of
\* PermitIntervalSec (Interval), while the units come at the pace that is proved
\* of the workers (ImplementsPacer): n units take (n - 1) * Interval - Jitter seconds
\* or more.
THEOREM WaitsKept == FarHorizon => (Spec => []ToldWaitKept)
<1> DEFINE WaitInv == TypeOK /\ NumberAge /\ NumberPace /\ HeldInv /\ ToldInv
<1> SUFFICES ASSUME FarHorizon  PROVE Spec => []ToldWaitKept
  OBVIOUS
<1>1. Init => WaitInv
  <2> SUFFICES ASSUME Init  PROVE NumberPace /\ HeldInv /\ ToldInv
    BY TypeInit, NumberAgeInit
  <2>1. NumberPace
    <3>1. ASSUME NEW d \in Domain, NEW v \in Off..MaxNumber  PROVE ~(number[d] > v)
      BY CheckAssumption DEF Init, PacerInit, Off
    <3> QED  BY <3>1 DEF NumberPace
  <2>2. HeldInv
    BY DEF Init, HeldInv, NoCookie
  <2>3. ToldInv
    BY CheckAssumption DEF Init, ToldInv, NoCookie
  <2> QED  BY <2>1, <2>2, <2>3
<1>2. WaitInv /\ [Next]_vars => WaitInv'
  BY TypeStep, NumberAgeStep, NumberPaceStep, HeldStep, ToldStep
<1>3. WaitInv => ToldWaitKept
  <2> SUFFICES ASSUME WaitInv, NEW c \in Client, pc[c] = "permit", Host[c] \notin Manual,
                      number[Host[c]] >= held[c].serial
               PROVE  told[c] < Early
    BY CheckAssumption DEF ToldWaitKept, Early
  <2>1. held[c].serial # 0 /\ cookie[c].serial \in {0, held[c].serial}
    BY DEF HeldInv, TypeOK, RequestType
  <2>2. told[c] \in 0..MaxTold /\ Early \in Nat /\ Early > Interval /\ Interval \in Nat
    BY CheckAssumption DEF TypeOK, RequestType, Early
  <2>3. CASE cookie[c].serial = 0
    BY <2>2, <2>3 DEF ToldInv
  <2>4. CASE cookie[c].serial = held[c].serial
    <3>1. Due(Host[c], cookie[c].serial) = 0
      BY <2>4 DEF Due
    <3>2. told[c] < Early + Due(Host[c], cookie[c].serial)
      BY <2>1, <2>4 DEF ToldInv
    <3> QED  BY <2>2, <3>1, <3>2
  <2> QED  BY <2>1, <2>3, <2>4
<1> QED  BY <1>1, <1>2, <1>3, PTL DEF Spec
=============================================================================
