-------------------------- MODULE AdmissionProofs --------------------------
(***************************************************************************)
(* Proofs about the limits of QueueMessage, for any number of concurrent   *)
(* requests, domains, limits and policy changes.                           *)
(***************************************************************************)
EXTENDS Admission, FiniteSetTheorems, TLAPS

Steps == {"countWs", "countDom", "incrWs", "incrDom", "insert"}
Row == [dom : Domains, at : 0 .. MaxTime, hour : Hours]

----------------------------------------------------------------------------
(* The hour of a tick is an hour.                                          *)

LEMMA Quotient ==
  ASSUME NEW a \in Nat, NEW k \in Nat \ {0}
  PROVE  a \div k \in Nat /\ k * (a \div k) <= a /\ a < k * (a \div k) + k
  OBVIOUS

LEMMA Cancel ==
  ASSUME NEW p \in Nat, NEW q \in Nat, NEW k \in Nat \ {0}, k * p < k * q + k
  PROVE  p <= q
<1> SUFFICES ASSUME p >= q + 1 PROVE FALSE  OBVIOUS
<1>1. k * p >= k * (q + 1)  OBVIOUS
<1>2. k * (q + 1) = k * q + k  OBVIOUS
<1>3. k * p \in Nat /\ k * q \in Nat  OBVIOUS
<1> QED  BY <1>1, <1>2, <1>3

LEMMA HourOfTick ==
  ASSUME TypeOK
  PROVE  now \div Hour \in Hours
<1>0. now \in Nat /\ MaxTime \in Nat /\ Hour \in Nat \ {0} /\ now <= MaxTime
  BY AdmissionAssumption DEF TypeOK
<1>1. now \div Hour \in Nat /\ Hour * (now \div Hour) <= now  BY <1>0, Quotient
<1>2. MaxTime \div Hour \in Nat /\ MaxTime < Hour * (MaxTime \div Hour) + Hour
  BY <1>0, Quotient
<1>3. Hour * (now \div Hour) \in Nat /\ Hour * (MaxTime \div Hour) \in Nat
  BY <1>0, <1>1, <1>2
<1>4. Hour * (now \div Hour) < Hour * (MaxTime \div Hour) + Hour
  BY <1>0, <1>1, <1>2, <1>3
<1>5. now \div Hour <= MaxTime \div Hour  BY <1>0, <1>1, <1>2, <1>4, Cancel
<1> QED  BY <1>1, <1>2, <1>5 DEF Hours

----------------------------------------------------------------------------
(* What a step does to the handlers.                                       *)

OthersRest(c) == \A g \in Handlers : g # c => req'[g] = req[g]
Kept(c) == req'[c].dom = req[c].dom /\ req'[c].pol = req[c].pol /\ req'[c].key = req[c].key

LEMMA IdleIs == Idle.pc = "idle" /\ Idle \notin Request
  BY DEF Idle, Request

LEMMA Busy ==
  ASSUME TypeOK, NEW c \in Handlers, req[c].pc # "idle"
  PROVE  /\ req[c] \in Request /\ req[c].pc \in Steps /\ req[c].dom \in Domains
         /\ req[c].pol \in Policy /\ req[c].key \in Hours
<1>1. req[c] \in Request  BY IdleIs DEF TypeOK
<1> QED  BY <1>1 DEF Request, Steps

LEMMA GotoMoves ==
  ASSUME TypeOK, NEW c \in Handlers, req[c].pc # "idle", NEW step \in Steps, Goto(c, step)
  PROVE  /\ req' \in [Handlers -> Request \union {Idle}]
         /\ OthersRest(c) /\ Kept(c) /\ req'[c].pc = step
<1>1. req[c] \in Request  BY Busy
<1>2. req' = [req EXCEPT ![c] = [req[c] EXCEPT !.pc = step]]  BY DEF Goto, TypeOK
<1>3. [req[c] EXCEPT !.pc = step] \in Request  BY <1>1 DEF Request, Steps
<1>4. /\ [req[c] EXCEPT !.pc = step].pc = step
      /\ [req[c] EXCEPT !.pc = step].dom = req[c].dom
      /\ [req[c] EXCEPT !.pc = step].pol = req[c].pol
      /\ [req[c] EXCEPT !.pc = step].key = req[c].key
  BY <1>1 DEF Request
<1> QED  BY <1>2, <1>3, <1>4 DEF TypeOK, OthersRest, Kept

LEMMA AnswerMoves ==
  ASSUME TypeOK, NEW c \in Handlers, Answer(c)
  PROVE  /\ req' \in [Handlers -> Request \union {Idle}]
         /\ OthersRest(c) /\ req'[c] = Idle /\ req'[c].pc = "idle"
  BY IdleIs DEF TypeOK, Answer, OthersRest

\* The policy a request reads is a policy.
LEMMA PolicyTyped ==
  ASSUME TypeOK PROVE WorkspacePolicy \in Policy
  BY AdmissionAssumption DEF TypeOK, WorkspacePolicy, Policy

LEMMA NormalizedTyped ==
  ASSUME NEW ws \in PolicyRates, NEW d \in PolicyRates, NEW list \in SUBSET (Domains \union {Blank})
  PROVE  Normalized(ws, d, list) \in Policy /\ Normalized(ws, d, list).ws >= 1
  BY AdmissionAssumption DEF Normalized, Policy, NormalizeDomains

LEMMA BeginMoves ==
  ASSUME TypeOK, NEW c \in Handlers, Begin(c)
  PROVE  /\ req' \in [Handlers -> Request \union {Idle}]
         /\ OthersRest(c) /\ req'[c].pc = "countWs" /\ req'[c].pol = WorkspacePolicy
<1>1. PICK d \in Domains :
        req' = [req EXCEPT ![c] = [pc |-> "countWs", dom |-> d, pol |-> WorkspacePolicy, key |-> 0]]
  BY Zenon DEF Begin
<1>2. 0 \in Hours
  BY Quotient, AdmissionAssumption DEF Hours
<1>3. [pc |-> "countWs", dom |-> d, pol |-> WorkspacePolicy, key |-> 0] \in Request
  BY <1>2, PolicyTyped DEF Request
<1> QED  BY <1>1, <1>3 DEF TypeOK, OthersRest

LEMMA IncrWorkspaceMoves ==
  ASSUME TypeOK, NEW c \in Handlers, IncrWorkspace(c)
  PROVE  /\ req' \in [Handlers -> Request \union {Idle}] /\ OthersRest(c)
         /\ \/ req'[c] = Idle
            \/ /\ req'[c].pc = "incrDom" /\ req'[c].key = now \div Hour
               /\ req'[c].dom = req[c].dom /\ req'[c].pol = req[c].pol
               /\ ~Over(wsCount'[now \div Hour], WorkspacePerHour)
<1> DEFINE h == now \div Hour
           r == [req[c] EXCEPT !.pc = "incrDom", !.key = h]
<1>0. h \in Hours /\ req[c] \in Request
  BY HourOfTick, Busy DEF IncrWorkspace
<1>1. CASE Answer(c)  BY <1>1, AnswerMoves
<1>2. CASE ~Over(wsCount'[h], WorkspacePerHour)
  <2>1. req' = [req EXCEPT ![c] = r]  BY <1>2, Zenon DEF IncrWorkspace, TypeOK
  <2> HIDE DEF h
  <2>2. r \in Request /\ r.pc = "incrDom" /\ r.key = h /\ r.dom = req[c].dom /\ r.pol = req[c].pol
    BY <1>0, Zenon DEF Request
  <2>3. req' \in [Handlers -> Request \union {Idle}] /\ OthersRest(c) /\ req'[c] = r
    BY <2>1, <2>2 DEF TypeOK, OthersRest
  <2> QED  BY <1>2, <2>2, <2>3 DEF h
<1> QED  BY <1>1, <1>2 DEF IncrWorkspace

\* No counter goes back.
CountersGrow == /\ \A h \in Hours : wsCount'[h] \in Nat /\ wsCount'[h] >= wsCount[h]
                /\ \A h \in Hours, d \in Domains : /\ domCount'[h][d] \in Nat
                                                   /\ domCount'[h][d] >= domCount[h][d]

Begins(c) == /\ req[c].pc = "idle" /\ req'[c].pc = "countWs"
             /\ req'[c].pol = WorkspacePolicy /\ UNCHANGED rows
Ends(c) == req[c].pc # "idle" /\ req'[c].pc = "idle" /\ UNCHANGED rows
Stores(c) == req[c].pc = "insert" /\ req'[c].pc = "idle" /\ CreateMessage(c)
PassesRate(c) == /\ req[c].pc = "countWs" /\ req'[c].pc = "countDom" /\ Kept(c)
                 /\ ~OverWorkspaceRate(req[c].pol) /\ UNCHANGED rows
PassesBlocks(c) == /\ req[c].pc = "countDom" /\ req'[c].pc = "incrWs" /\ Kept(c)
                   /\ ~Blocked(req[c].pol, req[c].dom) /\ UNCHANGED rows
ChargesWorkspace(c) ==
    LET h == now \div Hour IN
    /\ req[c].pc = "incrWs" /\ req'[c].pc = "incrDom" /\ req'[c].key = h
    /\ req'[c].dom = req[c].dom /\ req'[c].pol = req[c].pol /\ UNCHANGED rows
    /\ wsCount'[h] = wsCount[h] + 1 /\ wsCount'[h] <= WorkspacePerHour
ChargesDomain(c) ==
    LET k == req[c].key
        d == req[c].dom
    IN
    /\ req[c].pc = "incrDom" /\ req'[c].pc = "insert" /\ Kept(c) /\ UNCHANGED rows
    /\ domCount'[k][d] = domCount[k][d] + 1 /\ domCount'[k][d] <= DomainPerHour

\* One request moves on.
Turn(c) ==
    /\ OthersRest(c) /\ CountersGrow /\ UNCHANGED <<now, stored, highest>>
    /\ \/ Begins(c) \/ Ends(c) \/ Stores(c) \/ PassesRate(c) \/ PassesBlocks(c)
       \/ ChargesWorkspace(c) \/ ChargesDomain(c)

CountersTyped == wsCount \in [Hours -> Nat] /\ domCount \in [Hours -> [Domains -> Nat]]

LEMMA CountersStay ==
  ASSUME TypeOK, UNCHANGED counters PROVE CountersGrow /\ CountersTyped'
  BY DEF TypeOK, counters, CountersGrow, CountersTyped

\* INCR of the workspace's key.
LEMMA WorkspaceCharged ==
  ASSUME TypeOK, wsCount' = [wsCount EXCEPT ![now \div Hour] = @ + 1], UNCHANGED domCount
  PROVE  /\ CountersGrow /\ CountersTyped'
         /\ wsCount'[now \div Hour] = wsCount[now \div Hour] + 1
<1> DEFINE h == now \div Hour
<1>1. h \in Hours  BY HourOfTick
<1> HIDE DEF h
<1>2. wsCount' = [wsCount EXCEPT ![h] = @ + 1]  BY DEF h
<1>0. wsCount \in [Hours -> Nat] /\ wsCount[h] + 1 \in Nat  BY <1>1 DEF TypeOK
<1>3. /\ \A i \in Hours : wsCount'[i] = IF i = h THEN wsCount[i] + 1 ELSE wsCount[i]
      /\ wsCount' \in [Hours -> Nat]
  BY <1>0, <1>1, <1>2
<1>4. /\ \A i \in Hours : wsCount'[i] \in Nat /\ wsCount'[i] >= wsCount[i]
      /\ wsCount'[h] = wsCount[h] + 1
  BY <1>1, <1>3 DEF TypeOK
<1>5. domCount' \in [Hours -> [Domains -> Nat]]  BY DEF TypeOK
<1> QED  BY <1>3, <1>4, <1>5 DEF CountersGrow, CountersTyped, TypeOK, h

\* INCR of the domain's key.
LEMMA DomainCharged ==
  ASSUME TypeOK, NEW k \in Hours, NEW d \in Domains,
         domCount' = [domCount EXCEPT ![k][d] = @ + 1], UNCHANGED wsCount
  PROVE  CountersGrow /\ CountersTyped' /\ domCount'[k][d] = domCount[k][d] + 1
<1> DEFINE f == [domCount[k] EXCEPT ![d] = @ + 1]
<1>1. domCount[k] \in [Domains -> Nat]  BY DEF TypeOK
<1>2. f \in [Domains -> Nat] /\ \A e \in Domains : f[e] = IF e = d THEN domCount[k][e] + 1
                                                                   ELSE domCount[k][e]
  BY <1>1
<1>3. domCount' = [domCount EXCEPT ![k] = f]  BY DEF TypeOK
<1> HIDE DEF f
<1>4. domCount' \in [Hours -> [Domains -> Nat]]  BY <1>2, <1>3 DEF TypeOK
<1>5. \A h \in Hours : domCount'[h] = IF h = k THEN f ELSE domCount[h]
  BY <1>3, Zenon DEF TypeOK
<1>6. \A h \in Hours, e \in Domains : domCount'[h][e] >= domCount[h][e]
  BY <1>1, <1>2, <1>5 DEF TypeOK
<1>7. domCount'[k][d] = domCount[k][d] + 1  BY <1>2, <1>5
<1> QED  BY <1>4, <1>6, <1>7 DEF CountersGrow, CountersTyped, TypeOK

LEMMA StoredTyped ==
  ASSUME TypeOK, NEW c \in Handlers, req[c].pc # "idle", CreateMessage(c)
  PROVE  rows' \in Seq(Row)
<1>1. [dom |-> req[c].dom, at |-> now, hour |-> req[c].key] \in Row
  BY Busy DEF Row, TypeOK
<1>2. rows \in Seq(Row)  BY DEF TypeOK, Row
<1> HIDE DEF Row
<1> QED  BY <1>1, <1>2 DEF CreateMessage

\* Every step of QueueMessage is a turn, and keeps the types.
LEMMA QueueMessageTurns ==
  ASSUME TypeOK, NEW c \in Handlers, QueueMessage(c)
  PROVE  /\ Turn(c) /\ req' \in [Handlers -> Request \union {Idle}] /\ CountersTyped'
         /\ rows' \in Seq(Row)
<1>r. rows \in Seq(Row)  BY DEF TypeOK, Row
<1>1. CASE Begin(c)
  BY <1>1, <1>r, BeginMoves, CountersStay, Zenon DEF Begin, Turn, Begins
<1>2. CASE CountWorkspace(c)
  <2>1. CASE OverWorkspaceRate(req[c].pol)
    BY <1>2, <1>r, <2>1, AnswerMoves, CountersStay DEF CountWorkspace, Turn, Ends
  <2>2. CASE ~OverWorkspaceRate(req[c].pol)
    <3>1. "countDom" \in Steps  BY DEF Steps
    <3> QED  BY <1>2, <1>r, <2>2, <3>1, GotoMoves, CountersStay DEF CountWorkspace, Turn, PassesRate
  <2> QED  BY <2>1, <2>2
<1>3. CASE CountDomain(c)
  <2>1. CASE Answer(c)
    BY <1>3, <1>r, <2>1, AnswerMoves, CountersStay DEF CountDomain, Turn, Ends
  <2>2. CASE ~Blocked(req[c].pol, req[c].dom) /\ Goto(c, "incrWs")
    <3>1. "incrWs" \in Steps  BY DEF Steps
    <3> QED  BY <1>3, <1>r, <2>2, <3>1, GotoMoves, CountersStay DEF CountDomain, Turn, PassesBlocks
  <2> QED  BY <1>3, <2>1, <2>2 DEF CountDomain
<1>4. CASE IncrWorkspace(c)
  <2>1. /\ CountersGrow /\ CountersTyped' /\ wsCount'[now \div Hour] = wsCount[now \div Hour] + 1
    BY <1>4, WorkspaceCharged DEF IncrWorkspace
  <2>2. UNCHANGED <<now, stored, highest, rows>> /\ req[c].pc = "incrWs"
    BY <1>4 DEF IncrWorkspace
  <2>3. wsCount'[now \div Hour] \in Nat
    BY HourOfTick, <2>1 DEF CountersGrow
  <2>4. ~Over(wsCount'[now \div Hour], WorkspacePerHour)
          => wsCount'[now \div Hour] <= WorkspacePerHour
    BY <2>3, AdmissionAssumption DEF Over
  <2> QED  BY <1>4, <1>r, <2>1, <2>2, <2>4, IncrWorkspaceMoves, IdleIs
           DEF Turn, Ends, ChargesWorkspace
<1>5. CASE IncrDomain(c)
  <2>0. req[c].key \in Hours /\ req[c].dom \in Domains /\ req[c].pc = "incrDom"
    BY <1>5, Busy, SMTT(30) DEF IncrDomain
  <2>1. /\ CountersGrow /\ CountersTyped'
        /\ domCount'[req[c].key][req[c].dom] = domCount[req[c].key][req[c].dom] + 1
    BY <1>5, <2>0, DomainCharged, Zenon DEF IncrDomain
  <2>2. UNCHANGED <<now, stored, highest, rows>>
    BY <1>5 DEF IncrDomain
  <2>3. CASE Answer(c)
    BY <1>r, <2>0, <2>1, <2>2, <2>3, AnswerMoves DEF Turn, Ends
  <2>4. CASE ~Over(domCount'[req[c].key][req[c].dom], DomainPerHour) /\ Goto(c, "insert")
    <3>1. "insert" \in Steps  BY DEF Steps
    <3>2. domCount'[req[c].key][req[c].dom] <= DomainPerHour
      BY <2>0, <2>1, <2>4, AdmissionAssumption DEF CountersGrow, Over
    <3> QED  BY <1>r, <2>0, <2>1, <2>2, <2>4, <3>1, <3>2, GotoMoves DEF Turn, ChargesDomain
  <2> QED  BY <1>5, <2>3, <2>4 DEF IncrDomain
<1>6. CASE Insert(c)
  BY <1>6, AnswerMoves, CountersStay, StoredTyped DEF Insert, Turn, Stores
<1>7. CASE CallFails(c)
  <2>0. Answer(c) /\ req[c].pc # "idle" /\ UNCHANGED <<now, stored, highest>>
    BY <1>7 DEF CallFails
  <2>1. CASE UNCHANGED <<rows, counters>>
    BY <1>r, <2>0, <2>1, AnswerMoves, CountersStay DEF Turn, Ends
  <2>2. CASE /\ wsCount' = [wsCount EXCEPT ![now \div Hour] = @ + 1]
             /\ UNCHANGED <<rows, domCount>>
    BY <1>r, <2>0, <2>2, AnswerMoves, WorkspaceCharged DEF Turn, Ends
  <2>3. CASE /\ domCount' = [domCount EXCEPT ![req[c].key][req[c].dom] = @ + 1]
             /\ UNCHANGED <<rows, wsCount>>
    <3>1. req[c].key \in Hours /\ req[c].dom \in Domains  BY <2>0, Busy, SMTT(30)
    <3>2. CountersGrow /\ CountersTyped'  BY <2>3, <3>1, DomainCharged, Zenon
    <3> QED  BY <1>r, <2>0, <2>3, <3>2, AnswerMoves DEF Turn, Ends
  <2>4. CASE req[c].pc = "insert" /\ CreateMessage(c) /\ UNCHANGED counters
    BY <2>0, <2>4, AnswerMoves, CountersStay, StoredTyped DEF Turn, Stores
  <2> QED  BY <1>7, <2>1, <2>2, <2>3, <2>4 DEF CallFails
<1> QED  BY <1>1, <1>2, <1>3, <1>4, <1>5, <1>6, <1>7 DEF QueueMessage

LEMMA TypeStep ==
  ASSUME TypeOK, [Next]_vars PROVE TypeOK'
<1>t. rows \in Seq(Row)  BY DEF TypeOK, Row
<1>1. ASSUME NEW c \in Handlers, QueueMessage(c)  PROVE TypeOK'
  <2>1. /\ req' \in [Handlers -> Request \union {Idle}] /\ CountersTyped'
        /\ rows' \in Seq(Row) /\ UNCHANGED <<now, stored, highest>>
    BY <1>1, QueueMessageTurns DEF Turn
  <2>2. calls' \in Nat /\ posts' \in Nat /\ faults' \in Nat
    BY <1>1 DEF QueueMessage, Begin, CountWorkspace, CountDomain, IncrWorkspace, IncrDomain, Insert,
                CallFails, bounds, TypeOK
  <2>3. unearned' \in BOOLEAN
    BY <1>1, Zenon DEF QueueMessage, Begin, CountWorkspace, CountDomain, IncrWorkspace, IncrDomain, Insert,
                CallFails, TypeOK
  <2> QED  BY <2>1, <2>2, <2>3 DEF TypeOK, CountersTyped, Row
<1>2. CASE Tick
  BY <1>2, AdmissionAssumption DEF Tick, TypeOK, counters, bounds
<1>3. CASE PostWorkspacePolicy
  <2>1. PICK ws \in PolicyRates, d \in PolicyRates, list \in SUBSET (Domains \union {Blank}) :
          UpsertWorkspacePolicy(Normalized(ws, d, list))
    BY <1>3 DEF PostWorkspacePolicy
  <2>2. stored' \in Policy  BY <2>1, NormalizedTyped DEF UpsertWorkspacePolicy
  <2>3. highest' \in Nat
    BY <2>1, <2>2 DEF UpsertWorkspacePolicy, TypeOK, Policy
  <2> QED  BY <1>3, <2>2, <2>3 DEF PostWorkspacePolicy, TypeOK, counters
<1>4. CASE UNCHANGED vars
  BY <1>4 DEF vars, counters, bounds, TypeOK
<1> QED  BY <1>1, <1>2, <1>3, <1>4 DEF Next, AtRest

LEMMA InitType == ASSUME Init PROVE TypeOK
<1>1. stored \in Policy
  BY NormalizedTyped DEF Init, NoPolicy, Policy
<1>2. WorkspacePolicy.ws \in Nat
  <2>1. CASE stored = NoPolicy  BY <2>1, AdmissionAssumption DEF WorkspacePolicy
  <2>2. CASE stored # NoPolicy
    <3>1. PICK ws \in PolicyRates, d \in PolicyRates : stored = Normalized(ws, d, {})
      BY <2>2 DEF Init
    <3>2. stored.ws >= 1 /\ stored.ws \in Int  BY <1>1, <3>1, NormalizedTyped DEF Policy
    <3> QED  BY <2>2, <3>2 DEF WorkspacePolicy
  <2> QED  BY <2>1, <2>2
<1>3. now \in 0 .. MaxTime  BY AdmissionAssumption DEF Init
<1>4. rows \in Seq([dom : Domains, at : 0 .. MaxTime, hour : Hours])  BY DEF Init
<1>5. wsCount \in [Hours -> Nat] /\ domCount \in [Hours -> [Domains -> Nat]]  BY DEF Init
<1> QED  BY <1>1, <1>2, <1>3, <1>4, <1>5, Zenon DEF Init, TypeOK

\* The types, for every instance.
THEOREM AdmissionTypeCorrect == Spec => []TypeOK
<1>1. Init => TypeOK  BY InitType
<1>2. TypeOK /\ [Next]_vars => TypeOK'  BY TypeStep
<1> QED  BY <1>1, <1>2, PTL DEF Spec

\* Every step is a turn of a request, or leaves requests, rows and counters alone.
LEMMA Turns ==
  ASSUME TypeOK, [Next]_vars
  PROVE  \/ \E c \in Handlers : Turn(c)
         \/ UNCHANGED <<rows, req, wsCount, domCount>>
<1>1. ASSUME NEW c \in Handlers, QueueMessage(c)  PROVE Turn(c)
  BY <1>1, QueueMessageTurns
<1> QED  BY <1>1 DEF Next, Tick, PostWorkspacePolicy, AtRest, vars, counters

----------------------------------------------------------------------------
(* Blocked domains.                                                        *)

\* A request past the checks goes to a domain that neither list of its own
\* reading blocks.
Cleared ==
    /\ \A i \in DOMAIN rows : rows[i].dom \notin ConfigBlocked
    /\ \A c \in Handlers : req[c].pc \in {"incrWs", "incrDom", "insert"}
                              => ~Blocked(req[c].pol, req[c].dom)

\* The rows after an INSERT.
LEMMA RowsAfter ==
  ASSUME TypeOK, NEW c \in Handlers, CreateMessage(c)
  PROVE  /\ rows \in Seq(Row) /\ Len(rows) \in Nat /\ DOMAIN rows = 1 .. Len(rows)
         /\ DOMAIN rows' = DOMAIN rows \union {Len(rows) + 1}
         /\ \A i \in DOMAIN rows : rows'[i] = rows[i]
         /\ rows'[Len(rows) + 1] = [dom |-> req[c].dom, at |-> now, hour |-> req[c].key]
<1>1. rows \in Seq(Row)  BY DEF TypeOK, Row
<1>2. Len(rows) \in Nat /\ DOMAIN rows = 1 .. Len(rows)  BY <1>1
<1>3. /\ DOMAIN rows' = 1 .. Len(rows) + 1
      /\ \A i \in DOMAIN rows : rows'[i] = rows[i]
      /\ rows'[Len(rows) + 1] = [dom |-> req[c].dom, at |-> now, hour |-> req[c].key]
  BY <1>1, <1>2 DEF CreateMessage
<1>4. 1 .. Len(rows) + 1 = (1 .. Len(rows)) \union {Len(rows) + 1}  BY <1>2
<1> QED  BY <1>1, <1>2, <1>3, <1>4

LEMMA ClearedStep ==
  ASSUME TypeOK, Cleared, [Next]_vars PROVE Cleared'
<1>1. ASSUME NEW c \in Handlers, Turn(c)  PROVE Cleared'
  <2>1. \A g \in Handlers : req'[g].pc \in {"incrWs", "incrDom", "insert"}
                              => ~Blocked(req'[g].pol, req'[g].dom)
    BY <1>1 DEF Turn, OthersRest, Begins, Ends, Stores, PassesRate, PassesBlocks, ChargesWorkspace,
                ChargesDomain, Kept, Cleared
  <2>2. \A i \in DOMAIN rows' : rows'[i].dom \notin ConfigBlocked
    <3>1. CASE Stores(c)
      <4>1. req[c].dom \notin ConfigBlocked  BY <3>1 DEF Stores, Cleared, Blocked
      <4>2. rows'[Len(rows) + 1].dom = req[c].dom
        <5>1. rows'[Len(rows) + 1] = [dom |-> req[c].dom, at |-> now, hour |-> req[c].key]
          BY <3>1, RowsAfter DEF Stores
        <5> QED  BY <5>1
      <4> QED  BY <3>1, <4>1, <4>2, RowsAfter, Zenon DEF Stores, Cleared
    <3>2. CASE ~Stores(c)
      BY <1>1, <3>2 DEF Turn, Begins, Ends, PassesRate, PassesBlocks, ChargesWorkspace,
                        ChargesDomain, Cleared
    <3> QED  BY <3>1, <3>2
  <2> QED  BY <2>1, <2>2, SMTT(30) DEF Cleared, Blocked
<1>2. CASE UNCHANGED <<rows, req, wsCount, domCount>>
  BY <1>2 DEF Cleared, Blocked
<1> QED  BY <1>1, <1>2, Turns

\* A blocked domain gets no message, although the policy may change between the
\* check and the INSERT.
THEOREM BlockedDomainsStayOut == Spec => []BlockedNeverAdmitted
<1>1. Init => TypeOK /\ Cleared
  <2> SUFFICES ASSUME Init PROVE Cleared  BY InitType
  <2>1. \A c \in Handlers : req[c].pc = "idle"  BY IdleIs DEF Init
  <2> QED  BY <2>1 DEF Init, Cleared
<1>2. TypeOK /\ Cleared /\ [Next]_vars => (TypeOK /\ Cleared)'
  BY TypeStep, ClearedStep
<1>3. Cleared => BlockedNeverAdmitted
  BY DEF Cleared, Blocked, BlockedNeverAdmitted
<1> QED  BY <1>1, <1>2, <1>3, PTL DEF Spec

----------------------------------------------------------------------------
(* Counting rows and requests.                                             *)

LEMMA Shrinks ==
  ASSUME NEW S, NEW T, IsFiniteSet(S), T \subseteq S
  PROVE  /\ IsFiniteSet(T) /\ Cardinality(T) \in Nat /\ Cardinality(S) \in Nat
         /\ Cardinality(T) <= Cardinality(S)
  BY FS_Subset, FS_CardinalityType

LEMMA GrowsByOne ==
  ASSUME NEW S, NEW T, NEW x, IsFiniteSet(S), T \subseteq S \union {x}
  PROVE  /\ IsFiniteSet(T) /\ Cardinality(T) \in Nat /\ Cardinality(S) \in Nat
         /\ Cardinality(T) <= Cardinality(S) + 1
<1>1. /\ IsFiniteSet(S \union {x})
      /\ \/ Cardinality(S \union {x}) = Cardinality(S)
         \/ Cardinality(S \union {x}) = Cardinality(S) + 1
  BY FS_AddElement, Zenon
<1>2. Cardinality(S) \in Nat  BY FS_CardinalityType
<1>3. IsFiniteSet(T) /\ Cardinality(T) \in Nat /\ Cardinality(T) <= Cardinality(S \union {x})
  BY <1>1, Shrinks
<1> QED  BY <1>1, <1>2, <1>3

LEMMA LosesOne ==
  ASSUME NEW S, NEW T, NEW x \in S, IsFiniteSet(S), T \subseteq S \ {x}
  PROVE  /\ IsFiniteSet(T) /\ Cardinality(T) \in Nat /\ Cardinality(S) \in Nat
         /\ Cardinality(T) <= Cardinality(S) - 1
<1>1. IsFiniteSet(S \ {x}) /\ Cardinality(S \ {x}) = Cardinality(S) - 1
  BY FS_RemoveElement
<1>2. Cardinality(S) \in Nat  BY FS_CardinalityType
<1>3. IsFiniteSet(T) /\ Cardinality(T) \in Nat /\ Cardinality(T) <= Cardinality(S \ {x})
  BY <1>1, Shrinks
<1> QED  BY <1>1, <1>2, <1>3

LEMMA FinitelyMany ==
  ASSUME TypeOK
  PROVE  /\ IsFiniteSet(DOMAIN rows) /\ IsFiniteSet(Handlers)
         /\ \A S \in SUBSET (DOMAIN rows) : IsFiniteSet(S) /\ Cardinality(S) \in Nat
         /\ \A S \in SUBSET Handlers : /\ IsFiniteSet(S) /\ Cardinality(S) \in Nat
                                       /\ Cardinality(S) <= Cardinality(Handlers)
<1>1. Len(rows) \in Nat /\ DOMAIN rows = 1 .. Len(rows)  BY DEF TypeOK
<1>2. IsFiniteSet(DOMAIN rows)  BY <1>1, FS_Interval
<1>3. IsFiniteSet(Handlers)  BY AdmissionAssumption
<1> QED  BY <1>2, <1>3, Shrinks

----------------------------------------------------------------------------
(* The hourly limiter.                                                     *)

RowsOf(h, ds) == {i \in DOMAIN rows : rows[i].hour = h /\ rows[i].dom \in ds}
Standing(h, ds, steps) ==
    {c \in Handlers : req[c].pc \in steps /\ req[c].key = h /\ req[c].dom \in ds}

\* The requests let pass in an hour grow only by one that has just been charged.
LEMMA PassedStep ==
  ASSUME TypeOK, NEW c \in Handlers, Turn(c), NEW h \in Hours, NEW ds,
         NEW steps \in {{"incrDom", "insert"}, {"insert"}}
  PROVE  /\ Passed(h, ds, steps) \in Nat /\ Passed(h, ds, steps)' \in Nat
         /\ \/ Passed(h, ds, steps)' <= Passed(h, ds, steps)
            \/ /\ Passed(h, ds, steps)' <= Passed(h, ds, steps) + 1
               /\ req[c].pc \notin steps /\ req'[c].pc \in steps
               /\ req'[c].key = h /\ req'[c].dom \in ds
<1> DEFINE R == RowsOf(h, ds)
           S == Standing(h, ds, steps)
<1>1. /\ Passed(h, ds, steps) = Cardinality(R) + Cardinality(S)
      /\ Passed(h, ds, steps)' = Cardinality(R') + Cardinality(S')
  BY DEF Passed, RowsOf, Standing
<1>2. /\ IsFiniteSet(R) /\ IsFiniteSet(S) /\ Cardinality(R) \in Nat /\ Cardinality(S) \in Nat
  BY FinitelyMany DEF RowsOf, Standing
<1>3. S' \subseteq S \union {c}
  BY DEF Turn, OthersRest, Standing
<1>4. CASE Stores(c)
  <2>1. c \notin S'  BY <1>4 DEF Stores, Standing
  <2>2. rows'[Len(rows) + 1] = [dom |-> req[c].dom, at |-> now, hour |-> req[c].key]
    BY <1>4, RowsAfter DEF Stores
  <2>3. /\ DOMAIN rows' = DOMAIN rows \union {Len(rows) + 1}
        /\ \A i \in DOMAIN rows : rows'[i] = rows[i]
    BY <1>4, RowsAfter, Zenon DEF Stores
  <2>4. R' \subseteq R \union {Len(rows) + 1}
    BY <2>3 DEF RowsOf
  <2>5. CASE req[c].key = h /\ req[c].dom \in ds
    <3>1. c \in S  BY <1>4, <2>5 DEF Stores, Standing
    <3>2. S' \subseteq S \ {c}  BY <1>3, <2>1
    <3>3. /\ IsFiniteSet(S') /\ Cardinality(S') \in Nat /\ Cardinality(S') <= Cardinality(S) - 1
      BY <1>2, <3>1, <3>2, LosesOne
    <3>4. /\ IsFiniteSet(R') /\ Cardinality(R') \in Nat /\ Cardinality(R') <= Cardinality(R) + 1
      BY <1>2, <2>4, GrowsByOne, Zenon
    <3> HIDE DEF R, S
    <3> QED  BY <1>1, <1>2, <3>3, <3>4
  <2>6. CASE ~(req[c].key = h /\ req[c].dom \in ds)
    <3>1. Len(rows) + 1 \notin R'  BY <2>2, <2>6 DEF RowsOf
    <3>2. R' \subseteq R /\ S' \subseteq S  BY <1>3, <2>1, <2>4, <3>1
    <3>3. /\ Cardinality(R') \in Nat /\ Cardinality(R') <= Cardinality(R)
          /\ Cardinality(S') \in Nat /\ Cardinality(S') <= Cardinality(S)
      BY <1>2, <3>2, Shrinks
    <3> HIDE DEF R, S
    <3> QED  BY <1>1, <1>2, <3>3
  <2> QED  BY <2>5, <2>6
<1>5. CASE ~Stores(c)
  <2>1. R' = R
    BY <1>5, SMTT(30) DEF Turn, Begins, Ends, PassesRate, PassesBlocks, ChargesWorkspace, ChargesDomain, RowsOf
  <2>2. CASE c \in S \/ c \notin S'
    <3>1. S' \subseteq S  BY <1>3, <2>2
    <3>2. Cardinality(S') \in Nat /\ Cardinality(S') <= Cardinality(S)
      BY <1>2, <3>1, Shrinks
    <3> HIDE DEF R, S
    <3> QED  BY <1>1, <1>2, <2>1, <3>2
  <2>3. CASE c \notin S /\ c \in S'
    <3>1. req'[c].pc \in steps /\ req'[c].key = h /\ req'[c].dom \in ds
      BY <2>3, SMTT(30) DEF Standing
    <3>2. req[c].pc \notin steps
      BY <1>5, <2>3, <3>1 DEF Turn, Begins, Ends, PassesRate, PassesBlocks, ChargesWorkspace,
                              ChargesDomain, Kept, Standing
    <3>3. Cardinality(S') \in Nat /\ Cardinality(S') <= Cardinality(S) + 1
      BY <1>2, <1>3, GrowsByOne, Zenon
    <3> HIDE DEF R, S
    <3> QED  BY <1>1, <1>2, <2>1, <3>1, <3>2, <3>3, SMTT(30)
  <2> QED  BY <2>2, <2>3, SMTT(30)
<1> QED  BY <1>4, <1>5

\* The limiter's counters bound what it has let pass, and so do the limits.
Charged ==
    \A h \in Hours :
        /\ Passed(h, Domains, {"incrDom", "insert"}) <= wsCount[h]
        /\ Passed(h, Domains, {"incrDom", "insert"}) <= WorkspacePerHour
        /\ \A d \in Domains : /\ Passed(h, {d}, {"insert"}) <= domCount[h][d]
                              /\ Passed(h, {d}, {"insert"}) <= DomainPerHour

LEMMA ChargedStep ==
  ASSUME TypeOK, Charged, [Next]_vars PROVE Charged'
<1>1. ASSUME NEW c \in Handlers, Turn(c)  PROVE Charged'
  <2> SUFFICES ASSUME NEW h \in Hours
      PROVE  /\ Passed(h, Domains, {"incrDom", "insert"})' <= wsCount'[h]
             /\ Passed(h, Domains, {"incrDom", "insert"})' <= WorkspacePerHour
             /\ \A d \in Domains : /\ Passed(h, {d}, {"insert"})' <= domCount'[h][d]
                                   /\ Passed(h, {d}, {"insert"})' <= DomainPerHour
    BY DEF Charged
  <2>n. WorkspacePerHour \in Nat /\ DomainPerHour \in Nat  BY AdmissionAssumption
  <2>1. /\ Passed(h, Domains, {"incrDom", "insert"})' <= wsCount'[h]
        /\ Passed(h, Domains, {"incrDom", "insert"})' <= WorkspacePerHour
    <3> DEFINE P == Passed(h, Domains, {"incrDom", "insert"})
    <3>1. P \in Nat /\ P' \in Nat
      BY <1>1, PassedStep
    <3>2. P <= wsCount[h] /\ P <= WorkspacePerHour  BY DEF Charged
    <3>3. wsCount[h] \in Nat /\ wsCount'[h] \in Nat /\ wsCount'[h] >= wsCount[h]
      BY <1>1 DEF Turn, CountersGrow, TypeOK
    <3>4. \/ P' <= P
          \/ /\ P' <= P + 1
             /\ req[c].pc \notin {"incrDom", "insert"} /\ req'[c].pc \in {"incrDom", "insert"}
             /\ req'[c].key = h
      BY <1>1, PassedStep
    <3> HIDE DEF P
    <3>5. CASE P' <= P  BY <2>n, <3>1, <3>2, <3>3, <3>5, SMTT(30) DEF P
    <3>6. CASE /\ P' <= P + 1
               /\ req[c].pc \notin {"incrDom", "insert"} /\ req'[c].pc \in {"incrDom", "insert"}
               /\ req'[c].key = h
      <4>1. ChargesWorkspace(c)
        BY <1>1, <3>6 DEF Turn, Begins, Ends, Stores, PassesRate, PassesBlocks, ChargesDomain
      <4>2. wsCount'[h] = wsCount[h] + 1 /\ wsCount'[h] <= WorkspacePerHour
        BY <3>6, <4>1 DEF ChargesWorkspace
      <4> QED  BY <2>n, <3>1, <3>2, <3>3, <3>6, <4>2, SMTT(30) DEF P
    <3> QED  BY <3>4, <3>5, <3>6, SMTT(30)
  <2>2. ASSUME NEW d \in Domains
        PROVE  /\ Passed(h, {d}, {"insert"})' <= domCount'[h][d]
               /\ Passed(h, {d}, {"insert"})' <= DomainPerHour
    <3> DEFINE P == Passed(h, {d}, {"insert"})
    <3>1. P \in Nat /\ P' \in Nat
      BY <1>1, PassedStep
    <3>2. P <= domCount[h][d] /\ P <= DomainPerHour  BY DEF Charged
    <3>3. domCount[h][d] \in Nat /\ domCount'[h][d] \in Nat /\ domCount'[h][d] >= domCount[h][d]
      BY <1>1 DEF Turn, CountersGrow, TypeOK
    <3>4. \/ P' <= P
          \/ /\ P' <= P + 1
             /\ req[c].pc \notin {"insert"} /\ req'[c].pc \in {"insert"}
             /\ req'[c].key = h /\ req'[c].dom \in {d}
      BY <1>1, PassedStep
    <3> HIDE DEF P
    <3>5. CASE P' <= P  BY <2>n, <3>1, <3>2, <3>3, <3>5, SMTT(30) DEF P
    <3>6. CASE /\ P' <= P + 1
               /\ req[c].pc \notin {"insert"} /\ req'[c].pc \in {"insert"}
               /\ req'[c].key = h /\ req'[c].dom \in {d}
      <4>1. ChargesDomain(c)
        BY <1>1, <3>6, SMTT(30) DEF Turn, Begins, Ends, Stores, PassesRate, PassesBlocks, ChargesWorkspace
      <4>2. domCount'[h][d] = domCount[h][d] + 1 /\ domCount'[h][d] <= DomainPerHour
        BY <3>6, <4>1, SMTT(30) DEF ChargesDomain, Kept
      <4> QED  BY <2>n, <3>1, <3>2, <3>3, <3>6, <4>2, SMTT(30) DEF P
    <3> QED  BY <3>4, <3>5, <3>6
  <2> QED  BY <2>1, <2>2
<1>2. CASE UNCHANGED <<rows, req, wsCount, domCount>>
  BY <1>2 DEF Charged, Passed
<1> QED  BY <1>1, <1>2, Turns

\* RedisLimiter.Allow lets no more requests pass in a clock hour than the limits of
\* the workspace and of the recipient's domain, for any number of them at once.
THEOREM LimiterHolds == Spec => []HourlyLimitKept
<1>1. Init => TypeOK /\ Charged
  <2> SUFFICES ASSUME Init PROVE Charged  BY InitType
  <2>0. TypeOK  BY InitType
  <2>1. \A c \in Handlers : req[c].pc = "idle"  BY IdleIs DEF Init
  <2>2. \A h, ds : \A steps \in {{"incrDom", "insert"}, {"insert"}} : Passed(h, ds, steps) = 0
    <3> SUFFICES ASSUME NEW h, NEW ds, NEW steps \in {{"incrDom", "insert"}, {"insert"}}
                 PROVE  Passed(h, ds, steps) = 0
      OBVIOUS
    <3>1. RowsOf(h, ds) = {}  BY DEF Init, RowsOf
    <3>2. Standing(h, ds, steps) = {}  BY <2>1 DEF Standing
    <3>3. Passed(h, ds, steps) = Cardinality(RowsOf(h, ds)) + Cardinality(Standing(h, ds, steps))
      BY DEF Passed, RowsOf, Standing
    <3>4. Cardinality({}) = 0  BY FS_EmptySet
    <3> QED  BY <3>1, <3>2, <3>3, <3>4
  <2> QED  BY <2>2, AdmissionAssumption DEF Init, Charged
<1>2. TypeOK /\ Charged /\ [Next]_vars => (TypeOK /\ Charged)'
  BY TypeStep, ChargedStep
<1>3. Charged => HourlyLimitKept
  BY DEF Charged, HourlyLimitKept
<1> QED  BY <1>1, <1>2, <1>3, PTL DEF Spec

----------------------------------------------------------------------------
(* The tenant's rate.                                                      *)

\* Every policy in force or in a handler's hands asks for at least one message an
\* hour, and for no more than the highest so far.
RatesKnown ==
    /\ WorkspacePolicy.ws \in 1 .. highest
    /\ \A c \in Handlers : req[c].pc # "idle" => req[c].pol.ws \in 1 .. highest

LEMMA RatesStep ==
  ASSUME TypeOK, RatesKnown, [Next]_vars
  PROVE  RatesKnown' /\ highest' \in Nat /\ highest' >= highest
<1>h. highest \in Nat  BY DEF TypeOK
<1>1. ASSUME NEW c \in Handlers, Turn(c)
      PROVE  RatesKnown' /\ highest' \in Nat /\ highest' >= highest
  <2>1. highest' = highest /\ WorkspacePolicy' = WorkspacePolicy
    BY <1>1, SMTT(30) DEF Turn, WorkspacePolicy
  <2>2. \A g \in Handlers : req'[g].pc # "idle" => \/ req[g].pc # "idle" /\ req'[g].pol = req[g].pol
                                                   \/ req'[g].pol = WorkspacePolicy
    BY <1>1 DEF Turn, OthersRest, Begins, Ends, Stores, PassesRate, PassesBlocks, ChargesWorkspace,
                ChargesDomain, Kept
  <2>3. \A g \in Handlers : req'[g].pc # "idle" => req'[g].pol.ws \in 1 .. highest'
    BY <2>1, <2>2 DEF RatesKnown
  <2> QED  BY <1>h, <2>1, <2>3 DEF RatesKnown
<1>2. CASE PostWorkspacePolicy
  <2>1. PICK ws \in PolicyRates, d \in PolicyRates, list \in SUBSET (Domains \union {Blank}) :
          UpsertWorkspacePolicy(Normalized(ws, d, list))
    BY <1>2 DEF PostWorkspacePolicy
  <2>2. stored' \in Policy /\ stored'.ws >= 1
    BY <2>1, NormalizedTyped DEF UpsertWorkspacePolicy
  <2>3. stored'.ws \in Int  BY <2>2 DEF Policy
  <2>4. highest' = IF stored'.ws > highest THEN stored'.ws ELSE highest
    BY <2>1 DEF UpsertWorkspacePolicy
  <2>5. highest' \in Nat /\ highest' >= highest /\ stored'.ws \in 1 .. highest'
    BY <1>h, <2>2, <2>3, <2>4
  <2>6. stored' # NoPolicy  BY <2>2 DEF NoPolicy
  <2>7. WorkspacePolicy' = stored'  BY <2>6 DEF WorkspacePolicy
  <2>8. \A c \in Handlers : req[c].pc # "idle" => req[c].pol.ws \in 1 .. highest'
    BY <1>h, <2>5 DEF RatesKnown
  <2>9. req' = req  BY <1>2 DEF PostWorkspacePolicy
  <2> QED  BY <2>5, <2>7, <2>8, <2>9 DEF RatesKnown
<1>3. CASE Tick \/ UNCHANGED vars
  <2>1. highest' = highest /\ stored' = stored /\ req' = req  BY <1>3 DEF Tick, vars
  <2> QED  BY <1>h, <2>1 DEF RatesKnown, WorkspacePolicy
<1> QED  BY <1>1, <1>2, <1>3, QueueMessageTurns DEF Next, AtRest

Recent == {i \in DOMAIN rows : rows[i].dom \in Domains /\ rows[i].at >= now - Hour}
InFlight == {c \in Handlers : req[c].pc \notin {"idle", "countWs"}}

LEMMA OvershootStep ==
  ASSUME TypeOK, RatesKnown, OvershootBounded, [Next]_vars PROVE OvershootBounded'
<1> DEFINE K == Cardinality(Handlers)
<1>f. /\ IsFiniteSet(Recent) /\ IsFiniteSet(InFlight)
      /\ Cardinality(Recent) \in Nat /\ Cardinality(InFlight) \in Nat /\ K \in Nat
  BY FinitelyMany DEF Recent, InFlight
<1>i. Cardinality(Recent) + Cardinality(InFlight) <= highest + K - 1
  BY DEF OvershootBounded, CountMessagesSince, Recent, InFlight
<1>h. /\ highest \in Nat /\ highest' \in Nat /\ highest' >= highest  BY RatesStep DEF TypeOK
<1>s. SUFFICES Cardinality(Recent') + Cardinality(InFlight') <= highest' + K - 1
  BY DEF OvershootBounded, CountMessagesSince, Recent, InFlight
<1>1. ASSUME NEW c \in Handlers, Turn(c)
      PROVE  Cardinality(Recent') + Cardinality(InFlight') <= highest' + K - 1
  <2>1. InFlight' \subseteq InFlight \union {c} /\ InFlight' \subseteq Handlers
    BY <1>1 DEF Turn, OthersRest, InFlight
  <2>2. CASE Stores(c)
    <3>1. c \in InFlight /\ c \notin InFlight'  BY <2>2 DEF Stores, InFlight
    <3>2. Cardinality(InFlight') \in Nat /\ Cardinality(InFlight') <= Cardinality(InFlight) - 1
      <4>1. InFlight' \subseteq InFlight \ {c}  BY <2>1, <3>1
      <4> QED  BY <1>f, <3>1, <4>1, LosesOne, Zenon
    <3>3. Cardinality(Recent') \in Nat /\ Cardinality(Recent') <= Cardinality(Recent) + 1
      <4>1. now' = now  BY <1>1 DEF Turn
      <4>2. /\ DOMAIN rows' = DOMAIN rows \union {Len(rows) + 1}
            /\ \A i \in DOMAIN rows : rows'[i] = rows[i]
        BY <2>2, RowsAfter, Zenon DEF Stores
      <4>3. Recent' \subseteq Recent \union {Len(rows) + 1}
        BY <4>1, <4>2 DEF Recent
      <4> QED  BY <1>f, <4>3, GrowsByOne, Zenon
    <3> QED  BY <1>f, <1>i, <1>h, <3>2, <3>3
  <2>3. CASE ~Stores(c)
    <3>1. Recent' = Recent
      BY <1>1, <2>3 DEF Turn, Begins, Ends, PassesRate, PassesBlocks, ChargesWorkspace,
                        ChargesDomain, Recent
    <3>2. CASE c \in InFlight \/ c \notin InFlight'
      <4>1. InFlight' \subseteq InFlight  BY <2>1, <3>2
      <4>2. Cardinality(InFlight') \in Nat /\ Cardinality(InFlight') <= Cardinality(InFlight)
        BY <1>f, <4>1, Shrinks
      <4> QED  BY <1>f, <1>i, <1>h, <3>1, <4>2
    \* The count it has just made was below its limit, whatever is in flight.
    <3>3. CASE c \notin InFlight /\ c \in InFlight'
      <4>1. PassesRate(c)
        BY <1>1, <2>3, <3>3 DEF Turn, Begins, Ends, PassesBlocks, ChargesWorkspace, ChargesDomain,
                                InFlight
      <4>2. req[c].pol.ws \in 1 .. highest  BY <4>1 DEF PassesRate, RatesKnown
      <4>3. ~(Cardinality(Recent) >= req[c].pol.ws)
        BY <1>h, <4>1, <4>2 DEF PassesRate, OverWorkspaceRate, CountMessagesSince, Recent
      <4>4. Cardinality(Recent) <= highest - 1  BY <1>f, <1>h, <4>2, <4>3
      <4>5. Cardinality(InFlight') \in Nat /\ Cardinality(InFlight') <= K
        BY <2>1, FinitelyMany
      <4> QED  BY <1>f, <1>h, <3>1, <4>4, <4>5, SMTT(30)
    <3> QED  BY <3>2, <3>3, SMTT(30)
  <2> QED  BY <2>2, <2>3
<1>2. CASE Tick \/ PostWorkspacePolicy \/ UNCHANGED vars
  <2>1. rows' = rows /\ req' = req /\ (now' = now \/ now' = now + 1)
    BY <1>2 DEF Tick, PostWorkspacePolicy, vars
  <2>2. Recent' \subseteq Recent
    <3>1. \A i \in DOMAIN rows : rows[i].at \in Int
      <4>1. rows \in Seq(Row)  BY DEF TypeOK, Row
      <4>2. \A i \in DOMAIN rows : rows[i] \in Row  BY <4>1
      <4> QED  BY <4>2, AdmissionAssumption DEF Row
    <3>2. now \in Int /\ Hour \in Int  BY AdmissionAssumption DEF TypeOK
    <3> QED  BY <2>1, <3>1, <3>2 DEF Recent
  <2>3. InFlight' = InFlight  BY <2>1 DEF InFlight
  <2>4. Cardinality(Recent') \in Nat /\ Cardinality(Recent') <= Cardinality(Recent)
    BY <1>f, <2>2, Shrinks
  <2> QED  BY <1>f, <1>i, <1>h, <2>3, <2>4
<1> QED  BY <1>1, <1>2, QueueMessageTurns DEF Next, AtRest

\* The tenant's limit is overshot by no more than the other requests in flight,
\* although QueueMessage counts and inserts in separate statements.
THEOREM OvershootIsBounded == Spec => []OvershootBounded
<1>1. Init => TypeOK /\ RatesKnown /\ OvershootBounded
  <2> SUFFICES ASSUME Init PROVE RatesKnown /\ OvershootBounded  BY InitType
  <2>0. TypeOK  BY InitType
  <2>1. \A c \in Handlers : req[c].pc = "idle"  BY IdleIs DEF Init
  <2>2. WorkspacePolicy.ws \in 1 .. highest
    <3>1. CASE stored = NoPolicy
      BY <3>1, AdmissionAssumption DEF Init, WorkspacePolicy
    <3>2. CASE stored # NoPolicy
      <4>1. PICK ws \in PolicyRates, d \in PolicyRates : stored = Normalized(ws, d, {})
        BY <3>2 DEF Init
      <4>2. stored.ws >= 1 /\ stored.ws \in Int  BY <2>0, <4>1, NormalizedTyped, SMTT(30) DEF TypeOK, Policy
      <4> QED  BY <3>2, <4>2 DEF Init, WorkspacePolicy
    <3> QED  BY <3>1, <3>2, SMTT(30)
  <2>3. RatesKnown  BY <2>1, <2>2 DEF RatesKnown
  <2>4. Recent = {} /\ InFlight = {}  BY <2>1 DEF Init, Recent, InFlight
  <2>5. Cardinality(Recent) = 0 /\ Cardinality(InFlight) = 0  BY <2>4, FS_EmptySet
  <2>6. highest >= 1 /\ highest \in Nat  BY <2>0, <2>2 DEF TypeOK
  <2>7. Cardinality(Handlers) \in Nat  BY <2>0, FinitelyMany
  <2>8. Cardinality(Recent) + Cardinality(InFlight) <= highest + Cardinality(Handlers) - 1
    BY <2>5, <2>6, <2>7
  <2>9. OvershootBounded
    BY <2>8 DEF OvershootBounded, CountMessagesSince, Recent, InFlight
  <2> QED  BY <2>3, <2>9
<1>2. TypeOK /\ RatesKnown /\ OvershootBounded /\ [Next]_vars
        => (TypeOK /\ RatesKnown /\ OvershootBounded)'
  BY TypeStep, RatesStep, OvershootStep
<1> QED  BY <1>1, <1>2, PTL DEF Spec
=============================================================================
