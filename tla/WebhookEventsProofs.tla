------------------------ MODULE WebhookEventsProofs ------------------------
(***************************************************************************)
(* Proofs about provider events, for any bodies, any number of concurrent  *)
(* deliveries and replays, and any number of failures; and, in the second  *)
(* part, about what a body is taken to mean, for any series of bodies.     *)
(***************************************************************************)
EXTENDS WebhookEvents, Integers, FiniteSetTheorems, TLAPS

Statuses == {"none", "applied", "replayed", "dead_letter"}
Settled == {"applied", "replayed"}
Goroutine == [pc : {"idle", "insert", "claim", "apply", "commit", "reject"},
              body : Bodies \union {<<>>}, todo : SUBSET Nat, ids : SUBSET Keys,
              key : Keys \union {DeadLetterKey(<<>>)}, count : Nat]

RowsTyped ==
    /\ status \in [Keys -> Statuses] /\ attempts \in [Keys -> Nat]
    /\ effects \in [Keys -> Nat] /\ replays \in [Keys -> Nat]

\* A goroutine runs the steps of its own route.
Fits(p, q) ==
    /\ q \in Goroutine
    /\ p \in Handlers => q.pc # "claim"
    /\ p \in Replayers => q.pc \in {"idle", "claim", "apply", "commit"}

\* An open transaction holds its row, which is as the transaction found it.
Owns(p, q) ==
    q.pc \in {"apply", "commit"} =>
      /\ q.key \in Keys /\ rowLock[q.key] = p
      /\ p \in Handlers => status[q.key] = "none" /\ q.count = 0 /\ q.key.ev # BadRecord
      /\ p \in Replayers => status[q.key] = "dead_letter" /\ q.count = attempts[q.key]

\* The events of a body are recorded, current or still to come.
Walks(p, q) ==
    p \in Handlers /\ q.pc # "idle" =>
      /\ q.body \in Bodies /\ q.todo \subseteq ParsedEvents(q.body)
      /\ q.pc = "reject" => q.todo = {}
      /\ \A i \in ParsedEvents(q.body) :
           \/ status[IdentityKey(q.body[i], q.body)] # "none"
           \/ i \in q.todo
           \/ q.pc \in {"apply", "commit"} /\ q.key = IdentityKey(q.body[i], q.body)

Recorded(b) ==
    /\ \A i \in ParsedEvents(b) : status[IdentityKey(b[i], b)] # "none"
    /\ Rejected(b) => status[DeadLetterKey(b)] # "none"

Safe ==
    /\ RowsTyped /\ rowLock \in [Keys -> Procs \union {NoProc}]
    /\ proc \in [Procs -> Goroutine]
    /\ acked \subseteq Bodies /\ \A b \in acked : Recorded(b)
    /\ \A p \in Procs : Fits(p, proc[p]) /\ Owns(p, proc[p]) /\ Walks(p, proc[p])

----------------------------------------------------------------------------
(* The rows a step may touch.                                              *)

LEMMA KeysAre ==
  /\ \A e \in Events, b \in Bodies : IdentityKey(e, b) \in Keys
  /\ \A b \in Bodies : DeadLetterKey(b) \in Keys
<1> DEFINE Identities == {IdentityKey(e, b) : e \in Events, b \in Bodies}
           Letters == {DeadLetterKey(b) : b \in Bodies}
<1>1. Identities \subseteq Keys /\ Letters \subseteq Keys  BY DEF Keys
<1>2. \A e \in Events, b \in Bodies : IdentityKey(e, b) \in Identities  OBVIOUS
<1>3. \A b \in Bodies : DeadLetterKey(b) \in Letters  OBVIOUS
<1> HIDE DEF Identities, Letters
<1> QED  BY <1>1, <1>2, <1>3

LEMMA EventKey ==
  ASSUME NEW b \in Bodies, NEW i \in ParsedEvents(b)
  PROVE  /\ IdentityKey(b[i], b) \in Keys /\ IdentityKey(b[i], b).ev # BadRecord
         /\ i \in Nat
<1>1. b \in Seq(Events \union {BadRecord}) /\ i \in DOMAIN b /\ b[i] # BadRecord
  BY WebhookAssumption DEF ParsedEvents
<1>2. b[i] \in Events /\ i \in Nat  BY <1>1
<1>3. IdentityKey(b[i], b).ev = b[i]  BY DEF IdentityKey
<1> QED  BY <1>1, <1>2, <1>3, KeysAre

LEMMA DeadKey ==
  ASSUME NEW b \in Bodies
  PROVE  DeadLetterKey(b) \in Keys /\ DeadLetterKey(b).ev = BadRecord
<1>1. DeadLetterKey(b).ev = BadRecord  BY DEF DeadLetterKey
<1> QED  BY <1>1, KeysAre

RowsRest == UNCHANGED <<status, attempts, lists, effects, replays>>
Commits(p) == proc[p].pc = "commit" /\ Commit(p)
Deadens(p) ==
    /\ p \in Handlers /\ proc[p].pc = "reject" /\ InsertDeadLetter(proc[p].body)
    /\ UNCHANGED <<lists, rowLock, effects, replays>>

\* A row is written by the transaction that holds it, or it is a dead letter
\* that was not there.
Writes(p) == RowsRest \/ Commits(p) \/ Deadens(p)

LEMMA Parts ==
  ASSUME Safe, NEW p \in Procs
  PROVE  /\ proc[p] \in Goroutine /\ Fits(p, proc[p]) /\ Owns(p, proc[p]) /\ Walks(p, proc[p])
         /\ RowsTyped /\ rowLock \in [Keys -> Procs \union {NoProc}]
         /\ proc \in [Procs -> Goroutine]
  BY DEF Safe

\* A commit writes the row the transaction holds.
LEMMA CommitWrites ==
  ASSUME Safe, NEW p \in Procs, Commits(p)
  PROVE  LET k == proc[p].key IN
         /\ k \in Keys /\ rowLock[k] = p /\ status[k] \in {"none", "dead_letter"}
         /\ status'[k] \in Statuses \ {"none"}
         /\ status'[k] \in Settled <=> Outcome(k) = "applied"
         /\ attempts'[k] = proc[p].count + 1
         /\ \A l \in Keys : l # k => status'[l] = status[l] /\ attempts'[l] = attempts[l]
         /\ \A l \in Keys : rowLock'[l] = IF rowLock[l] = p THEN NoProc ELSE rowLock[l]
<1> DEFINE k == proc[p].key
<1>1. k \in Keys /\ rowLock[k] = p /\ status[k] \in {"none", "dead_letter"}
  BY Parts DEF Owns, Commits, Procs
<1>2. Outcome(k) \in {"applied", "dead_letter"}  BY DEF Outcome
<1>3. /\ status' = [status EXCEPT ![k] =
                      IF Outcome(k) = "applied" /\ p \in Replayers THEN "replayed" ELSE Outcome(k)]
      /\ attempts' = [attempts EXCEPT ![k] = proc[p].count + 1]
      /\ rowLock' = [l \in Keys |-> IF rowLock[l] = p THEN NoProc ELSE rowLock[l]]
  BY DEF Commits, Commit, Unlock
<1>4. status \in [Keys -> Statuses] /\ attempts \in [Keys -> Nat]  BY Parts DEF RowsTyped
<1> HIDE DEF k
<1>5. status'[k] \in Statuses \ {"none"} /\ (status'[k] \in Settled <=> Outcome(k) = "applied")
  BY <1>1, <1>2, <1>3, <1>4 DEF Statuses, Settled
<1> QED  BY <1>1, <1>3, <1>4, <1>5 DEF k

LEMMA DeadenWrites ==
  ASSUME Safe, NEW p \in Procs, Deadens(p)
  PROVE  LET k == DeadLetterKey(proc[p].body) IN
         /\ proc[p].body \in Bodies /\ k \in Keys
         /\ status'[k] # "none"
         /\ status[k] # "none" => UNCHANGED <<status, attempts>>
         /\ status[k] = "none" => /\ status' = [status EXCEPT ![k] = "dead_letter"]
                                  /\ attempts' = [attempts EXCEPT ![k] = 1]
<1> DEFINE k == DeadLetterKey(proc[p].body)
<1>1. proc[p].body \in Bodies  BY Parts DEF Walks, Deadens
<1>2. k \in Keys  BY <1>1, DeadKey
<1>3. status \in [Keys -> Statuses]  BY Parts DEF RowsTyped
<1>4. /\ status[k] # "none" => UNCHANGED <<status, attempts>>
      /\ status[k] = "none" => /\ status' = [status EXCEPT ![k] = "dead_letter"]
                               /\ attempts' = [attempts EXCEPT ![k] = 1]
  BY DEF Deadens, InsertDeadLetter
<1> HIDE DEF k
<1> QED  BY <1>1, <1>2, <1>3, <1>4 DEF k

\* No row ever disappears.
LEMMA RowsStay ==
  ASSUME Safe, NEW p \in Procs, Writes(p), NEW k \in Keys, status[k] # "none"
  PROVE  status'[k] # "none"
<1>0. status \in [Keys -> Statuses]  BY Parts DEF RowsTyped
<1>1. CASE RowsRest  BY <1>1 DEF RowsRest
<1>2. CASE Commits(p)  BY <1>2, CommitWrites
<1>3. CASE Deadens(p)  BY <1>0, <1>3, DeadenWrites
<1> QED  BY <1>1, <1>2, <1>3 DEF Writes

\* The lock of another goroutine stays, and so does the row behind it.
LEMMA HeldStays ==
  ASSUME Safe, NEW p \in Procs, Writes(p), NEW g \in Procs, g # p,
         \A k \in Keys : rowLock[k] = g => rowLock'[k] = g
  PROVE  Owns(g, proc[g])'
           \/ proc'[g] # proc[g]
<1> SUFFICES ASSUME proc'[g] = proc[g], proc[g].pc \in {"apply", "commit"}
             PROVE  Owns(g, proc[g])'
  BY DEF Owns
<1> DEFINE k == proc[g].key
<1>0. /\ k \in Keys /\ rowLock[k] = g
      /\ g \in Handlers => status[k] = "none" /\ proc[g].count = 0 /\ k.ev # BadRecord
      /\ g \in Replayers => status[k] = "dead_letter" /\ proc[g].count = attempts[k]
  BY Parts DEF Owns
<1>1. status'[k] = status[k] /\ attempts'[k] = attempts[k]
  <2>1. CASE RowsRest  BY <2>1 DEF RowsRest
  <2>2. CASE Commits(p)  BY <1>0, <2>2, CommitWrites
  <2>3. CASE Deadens(p)
    <3>1. DeadLetterKey(proc[p].body) # k \/ status[k] # "none"
      <4>1. g \in Handlers \/ g \in Replayers  BY DEF Procs
      <4>2. DeadLetterKey(proc[p].body).ev = BadRecord  BY <2>3, DeadenWrites, DeadKey
      <4> QED  BY <1>0, <4>1, <4>2
    <3>2. status \in [Keys -> Statuses] /\ attempts \in [Keys -> Nat]  BY Parts DEF RowsTyped
    <3> HIDE DEF k
    <3> QED  BY <1>0, <2>3, <3>1, <3>2, DeadenWrites
  <2> QED  BY <2>1, <2>2, <2>3 DEF Writes
<1> QED  BY <1>0, <1>1 DEF Owns


LEMMA RowsTypedStep ==
  ASSUME Safe, NEW p \in Procs, Writes(p)
  PROVE  RowsTyped'
<1>0. RowsTyped  BY Parts
<1>1. CASE RowsRest  BY <1>0, <1>1 DEF RowsRest, RowsTyped
<1>2. CASE Commits(p)
  <2> DEFINE k == proc[p].key
  <2>1. k \in Keys /\ status'[k] \in Statuses  BY <1>2, CommitWrites
  <2>2. proc[p].count \in Nat  BY Parts DEF Goroutine
  <2>3. /\ \E s : status' = [status EXCEPT ![k] = s]
        /\ attempts' = [attempts EXCEPT ![k] = proc[p].count + 1]
        /\ \E n \in {effects[k], effects[k] + 1} : effects' = [effects EXCEPT ![k] = n]
        /\ \E n \in {replays[k], replays[k] + 1} : replays' = [replays EXCEPT ![k] = n]
    BY <1>2, Zenon DEF Commits, Commit
  <2> HIDE DEF k
  <2> QED  BY <1>0, <2>1, <2>2, <2>3 DEF RowsTyped
<1>3. CASE Deadens(p)
  <2>1. effects' = effects /\ replays' = replays  BY <1>3 DEF Deadens
  <2> QED  BY <1>0, <1>3, <2>1, DeadenWrites DEF RowsTyped, Statuses
<1> QED  BY <1>1, <1>2, <1>3 DEF Writes

\* A goroutine takes a free lock, releases its own, or leaves the locks alone.
Locks(p) ==
    \/ rowLock' = rowLock
    \/ \E k \in Keys : rowLock[k] = NoProc /\ rowLock' = [rowLock EXCEPT ![k] = p]
    \/ rowLock' = [k \in Keys |-> IF rowLock[k] = p THEN NoProc ELSE rowLock[k]]

LEMMA LocksStep ==
  ASSUME Safe, NEW p \in Procs, Locks(p)
  PROVE  /\ rowLock' \in [Keys -> Procs \union {NoProc}]
         /\ \A g \in Procs : g # p => \A k \in Keys : rowLock[k] = g => rowLock'[k] = g
<1>1. rowLock \in [Keys -> Procs \union {NoProc}] /\ NoProc \notin Procs
  BY WebhookAssumption DEF Safe
<1> QED  BY <1>1 DEF Locks

\* Where a step leaves the goroutine that takes it, and what it acknowledges.
Lands(p) ==
    /\ \E q \in Goroutine : proc' = [proc EXCEPT ![p] = q] /\ Fits(p, q)
    /\ Owns(p, proc[p])' /\ Walks(p, proc[p])'
    /\ acked' \subseteq Bodies /\ \A b \in acked' : b \in acked \/ Recorded(b)'

LEMMA IdleProcIs == IdleProc \in Goroutine /\ IdleProc.pc = "idle"
  BY DEF IdleProc, Goroutine

LEMMA WalksStays ==
  ASSUME Safe, NEW p \in Procs, Writes(p), NEW g \in Procs, proc'[g] = proc[g]
  PROVE  Walks(g, proc[g])'
<1> SUFFICES ASSUME g \in Handlers, proc[g].pc # "idle"
             PROVE  Walks(g, proc[g])'
  BY DEF Walks
<1> DEFINE q == proc[g]
<1>1. /\ q.body \in Bodies /\ q.todo \subseteq ParsedEvents(q.body)
      /\ q.pc = "reject" => q.todo = {}
      /\ \A i \in ParsedEvents(q.body) :
           \/ status[IdentityKey(q.body[i], q.body)] # "none"
           \/ i \in q.todo
           \/ q.pc \in {"apply", "commit"} /\ q.key = IdentityKey(q.body[i], q.body)
  BY Parts DEF Walks
<1>2. \A i \in ParsedEvents(q.body) :
        status[IdentityKey(q.body[i], q.body)] # "none" => status'[IdentityKey(q.body[i], q.body)] # "none"
  BY <1>1, EventKey, RowsStay
<1>3. \A e, b : IdentityKey(e, b)' = IdentityKey(e, b)  BY DEF IdentityKey
<1> QED  BY <1>1, <1>2 DEF Walks

LEMMA RecordedStays ==
  ASSUME Safe, NEW p \in Procs, Writes(p), NEW b \in Bodies, Recorded(b)
  PROVE  Recorded(b)'
<1>1. \A i \in ParsedEvents(b) : status'[IdentityKey(b[i], b)] # "none"
  BY EventKey, RowsStay DEF Recorded
<1>2. Rejected(b) => status'[DeadLetterKey(b)] # "none"
  BY DeadKey, RowsStay DEF Recorded
<1> QED  BY <1>1, <1>2 DEF Recorded

\* The invariant survives any step of this form.
LEMMA Advance ==
  ASSUME Safe, NEW p \in Procs, Writes(p), Locks(p), Lands(p)
  PROVE  Safe'
<1>1. RowsTyped' /\ rowLock' \in [Keys -> Procs \union {NoProc}]  BY RowsTypedStep, LocksStep
<1>2. PICK q \in Goroutine : proc' = [proc EXCEPT ![p] = q] /\ Fits(p, q)  BY Zenon DEF Lands
<1>3. /\ proc' \in [Procs -> Goroutine] /\ proc'[p] = q
      /\ \A g \in Procs : g # p => proc'[g] = proc[g]
  BY <1>2 DEF Safe
<1>4. acked' \subseteq Bodies /\ \A b \in acked' : Recorded(b)'
  <2>1. \A b \in acked : b \in Bodies /\ Recorded(b)  BY DEF Safe
  <2> QED  BY <2>1, RecordedStays DEF Lands
<1>5. ASSUME NEW g \in Procs
      PROVE  (Fits(g, proc[g]) /\ Owns(g, proc[g]) /\ Walks(g, proc[g]))'
  <2>1. CASE g = p
    <3>1. Fits(p, proc[p])'  BY <1>2, <1>3 DEF Fits
    <3> QED  BY <2>1, <3>1 DEF Lands
  <2>2. CASE g # p
    <3>1. proc'[g] = proc[g]  BY <1>3, <2>2
    <3>2. Fits(g, proc[g])'  BY <3>1, Parts DEF Fits
    <3>3. Owns(g, proc[g])'  BY <2>2, <3>1, LocksStep, HeldStays
    <3>4. Walks(g, proc[g])'  BY <3>1, WalksStays
    <3> QED  BY <3>2, <3>3, <3>4
  <2> QED  BY <2>1, <2>2
<1> QED  BY <1>1, <1>3, <1>4, <1>5 DEF Safe


----------------------------------------------------------------------------
(* The steps of a goroutine.                                               *)

LEMMA IdleLands ==
  ASSUME Safe, NEW p \in Procs, proc' = [proc EXCEPT ![p] = IdleProc], acked' = acked
  PROVE  Lands(p)
<1>1. proc'[p] = IdleProc  BY DEF Safe
<1>2. Fits(p, IdleProc)  BY IdleProcIs DEF Fits
<1>3. Owns(p, proc[p])' /\ Walks(p, proc[p])'  BY <1>1, IdleProcIs DEF Owns, Walks
<1>4. acked' \subseteq Bodies  BY DEF Safe
<1> QED  BY <1>2, <1>3, <1>4, IdleProcIs, Zenon DEF Lands

\* A handler goes on with the events left, given that the others are recorded.
LEMMA NextEventLands ==
  ASSUME Safe, NEW h \in Handlers, NEW T, T \subseteq ParsedEvents(proc[h].body),
         proc[h].body \in Bodies, NextEvent(h, T),
         \A i \in ParsedEvents(proc[h].body) :
           i \in T \/ status'[IdentityKey(proc[h].body[i], proc[h].body)] # "none"
  PROVE  Lands(h)
<1> DEFINE b == proc[h].body
<1>0. /\ h \in Procs /\ h \notin Replayers /\ proc[h] \in Goroutine /\ acked \subseteq Bodies
      /\ proc \in [Procs -> Goroutine]
  BY WebhookAssumption DEF Procs, Safe
<1>n. T \in SUBSET Nat  BY EventKey
<1>1. CASE T # {}
  <2> DEFINE q == [proc[h] EXCEPT !.pc = "insert", !.todo = T]
  <2>1. proc' = [proc EXCEPT ![h] = q] /\ acked' = acked  BY <1>1 DEF NextEvent, Set
  <2>2. q \in Goroutine /\ q.pc = "insert" /\ q.todo = T /\ q.body = b
    BY <1>0, <1>n, Zenon DEF Goroutine
  <2> HIDE DEF q
  <2>3. proc'[h] = q  BY <1>0, <2>1
  <2>4. Fits(h, q)  BY <1>0, <2>2 DEF Fits
  <2>5. Owns(h, proc[h])'  BY <2>2, <2>3 DEF Owns
  <2>6. Walks(h, proc[h])'  BY <2>2, <2>3 DEF Walks
  <2> QED  BY <1>0, <2>1, <2>2, <2>4, <2>5, <2>6, Zenon DEF Lands
<1>2. CASE T = {} /\ Rejected(b)
  <2> DEFINE q == [proc[h] EXCEPT !.pc = "reject", !.todo = {}]
  <2>1. proc' = [proc EXCEPT ![h] = q] /\ acked' = acked  BY <1>2 DEF NextEvent, Set
  <2>2. q \in Goroutine /\ q.pc = "reject" /\ q.todo = {} /\ q.body = b
    BY <1>0, Zenon DEF Goroutine
  <2> HIDE DEF q
  <2>3. proc'[h] = q  BY <1>0, <2>1
  <2>4. Fits(h, q)  BY <1>0, <2>2 DEF Fits
  <2>5. Owns(h, proc[h])'  BY <2>2, <2>3 DEF Owns
  <2>6. Walks(h, proc[h])'  BY <1>2, <2>2, <2>3 DEF Walks
  <2> QED  BY <1>0, <2>1, <2>2, <2>4, <2>5, <2>6, Zenon DEF Lands
<1>3. CASE T = {} /\ ~Rejected(b)
  <2>1. proc' = [proc EXCEPT ![h] = IdleProc] /\ acked' = acked \union {b}
    BY <1>3 DEF NextEvent, Set
  <2>2. proc'[h] = IdleProc  BY <1>0, <2>1
  <2>3. Fits(h, IdleProc)  BY IdleProcIs DEF Fits
  <2>4. Owns(h, proc[h])' /\ Walks(h, proc[h])'  BY <2>2, IdleProcIs DEF Owns, Walks
  <2>5. \A i \in ParsedEvents(b) : status'[IdentityKey(b[i], b)] # "none"  BY <1>3
  <2>6. ASSUME NEW a \in acked' PROVE a \in acked \/ Recorded(a)'
    <3>1. CASE a = b  BY <1>3, <2>5, <3>1 DEF Recorded
    <3> QED  BY <2>1, <3>1
  <2> QED  BY <1>0, <2>1, <2>3, <2>4, <2>6, IdleProcIs, Zenon DEF Lands
<1> QED  BY <1>1, <1>2, <1>3

LEMMA NextReplayLands ==
  ASSUME Safe, NEW r \in Replayers, NEW I \in SUBSET Keys, NextReplay(r, I)
  PROVE  Lands(r)
<1>0. /\ r \in Procs /\ r \notin Handlers /\ proc[r] \in Goroutine /\ acked \subseteq Bodies
      /\ proc \in [Procs -> Goroutine]
  BY WebhookAssumption DEF Procs, Safe
<1>1. CASE I = {}
  <2>1. proc' = [proc EXCEPT ![r] = IdleProc] /\ acked' = acked  BY <1>1 DEF NextReplay, Set
  <2> QED  BY <1>0, <2>1, IdleLands, Zenon
<1>2. CASE I # {}
  <2> DEFINE q == [proc[r] EXCEPT !.pc = "claim", !.ids = I]
  <2>1. proc' = [proc EXCEPT ![r] = q] /\ acked' = acked  BY <1>2, Zenon DEF NextReplay, Set
  <2>2. q \in Goroutine /\ q.pc = "claim"  BY <1>0, Zenon DEF Goroutine
  <2> HIDE DEF q
  <2>3. proc'[r] = q  BY <1>0, <2>1
  <2>4. Fits(r, q)  BY <1>0, <2>2 DEF Fits
  <2>5. Owns(r, proc[r])' /\ Walks(r, proc[r])'  BY <1>0, <2>2, <2>3 DEF Owns, Walks
  <2> QED  BY <1>0, <2>1, <2>2, <2>4, <2>5, Zenon DEF Lands
<1> QED  BY <1>1, <1>2


LEMMA ReceiveStep ==
  ASSUME Safe, NEW h \in Handlers, Receive(h)
  PROVE  Safe' /\ Writes(h)
<1>0. /\ h \in Procs /\ h \notin Replayers /\ acked \subseteq Bodies
      /\ proc \in [Procs -> Goroutine]
  BY WebhookAssumption, SMTT(30) DEF Procs, Safe
<1>1. PICK b \in Bodies :
        proc' = [proc EXCEPT ![h] =
                   [IdleProc EXCEPT !.pc = IF ParsedEvents(b) = {} THEN "reject" ELSE "insert",
                                    !.body = b, !.todo = ParsedEvents(b)]]
  BY Zenon DEF Receive, Set
<1> DEFINE q == [IdleProc EXCEPT !.pc = IF ParsedEvents(b) = {} THEN "reject" ELSE "insert",
                                 !.body = b, !.todo = ParsedEvents(b)]
<1>2. ParsedEvents(b) \in SUBSET Nat  BY EventKey, SMTT(30)
<1>3. /\ q \in Goroutine /\ q.pc = (IF ParsedEvents(b) = {} THEN "reject" ELSE "insert")
      /\ q.body = b /\ q.todo = ParsedEvents(b)
  BY <1>2, Zenon DEF Goroutine, IdleProc
<1>4. proc' = [proc EXCEPT ![h] = q]  BY <1>1
<1> HIDE DEF q
<1>5. proc'[h] = q  BY <1>0, <1>4
<1>6. Fits(h, q)  BY <1>0, <1>3 DEF Fits
<1>7. Owns(h, proc[h])' /\ Walks(h, proc[h])'  BY <1>3, <1>5 DEF Owns, Walks
<1>8. acked' = acked /\ RowsRest /\ rowLock' = rowLock  BY DEF Receive, RowsRest, locks
<1>9. Lands(h)  BY <1>0, <1>3, <1>4, <1>6, <1>7, <1>8, Zenon DEF Lands
<1> QED  BY <1>0, <1>8, <1>9, Advance DEF Writes, Locks

LEMMA InsertStep ==
  ASSUME Safe, NEW h \in Handlers, Insert(h)
  PROVE  Safe' /\ Writes(h)
<1> DEFINE b == proc[h].body
<1>0. /\ h \in Procs /\ h \notin Replayers /\ acked \subseteq Bodies /\ proc[h] \in Goroutine
      /\ proc \in [Procs -> Goroutine] /\ rowLock \in [Keys -> Procs \union {NoProc}]
  BY WebhookAssumption DEF Procs, Safe
<1>1. PICK i \in proc[h].todo :
        LET k == IdentityKey(b[i], b)
            rest == proc[h].todo \ {i}
        IN \/ status[k] # "none" /\ NextEvent(h, rest) /\ UNCHANGED rowLock
           \/ /\ status[k] = "none" /\ rowLock[k] = NoProc
              /\ rowLock' = [rowLock EXCEPT ![k] = h]
              /\ Set(h, [proc[h] EXCEPT !.pc = "apply", !.key = k, !.todo = rest, !.count = 0])
              /\ UNCHANGED acked
  BY Zenon DEF Insert
<1> DEFINE k == IdentityKey(b[i], b)
           rest == proc[h].todo \ {i}
<1>2. RowsRest /\ proc[h].pc = "insert"  BY DEF Insert, RowsRest
<1>3. /\ b \in Bodies /\ proc[h].todo \subseteq ParsedEvents(b)
      /\ \A j \in ParsedEvents(b) : status[IdentityKey(b[j], b)] # "none" \/ j \in proc[h].todo
  BY <1>0, <1>2, Parts DEF Walks
<1>4. k \in Keys /\ k.ev # BadRecord  BY <1>3, EventKey
<1>5. status' = status  BY <1>2 DEF RowsRest
<1>6. CASE status[k] # "none" /\ NextEvent(h, rest) /\ UNCHANGED rowLock
  <2>1. \A j \in ParsedEvents(b) : j \in rest \/ status'[IdentityKey(b[j], b)] # "none"
    BY <1>3, <1>5, <1>6
  <2>2. Lands(h)  BY <1>3, <1>6, <2>1, NextEventLands
  <2> QED  BY <1>0, <1>2, <1>6, <2>2, Advance DEF Writes, Locks
<1>7. CASE /\ status[k] = "none" /\ rowLock[k] = NoProc
           /\ rowLock' = [rowLock EXCEPT ![k] = h]
           /\ Set(h, [proc[h] EXCEPT !.pc = "apply", !.key = k, !.todo = rest, !.count = 0])
           /\ UNCHANGED acked
  <2> DEFINE q == [proc[h] EXCEPT !.pc = "apply", !.key = k, !.todo = rest, !.count = 0]
  <2>t. rest \in SUBSET Nat  BY <1>0 DEF Goroutine
  <2> HIDE DEF k, rest
  <2>1. /\ q \in Goroutine /\ q.pc = "apply" /\ q.key = k /\ q.todo = rest /\ q.count = 0
        /\ q.body = b
    BY <1>0, <1>4, <2>t, Zenon DEF Goroutine
  <2>2. proc' = [proc EXCEPT ![h] = q]  BY <1>7 DEF Set
  <2> HIDE DEF q
  <2>3. proc'[h] = q /\ rowLock'[k] = h  BY <1>0, <1>4, <1>7, <2>2
  <2>4. Fits(h, q)  BY <1>0, <2>1 DEF Fits
  <2>5. Owns(h, proc[h])'  BY <1>0, <1>4, <1>5, <1>7, <2>1, <2>3 DEF Owns
  <2>6. Walks(h, proc[h])'  BY <1>3, <1>5, <2>1, <2>3 DEF Walks, k, rest
  <2>7. Lands(h)  BY <1>0, <1>7, <2>1, <2>2, <2>4, <2>5, <2>6, Zenon DEF Lands
  <2> QED  BY <1>0, <1>2, <1>4, <1>7, <2>7, Advance, Zenon DEF Writes, Locks
<1> QED  BY <1>1, <1>6, <1>7

LEMMA ListStep ==
  ASSUME Safe, NEW r \in Replayers, ListToReplay(r)
  PROVE  Safe' /\ Writes(r)
<1>1. PICK ids \in SUBSET DeadLetters : NextReplay(r, ids)
  BY DEF ListToReplay, ListWebhookDeadLettersByID, ListWebhookDeadLetters
<1>2. ids \in SUBSET Keys  BY DEF DeadLetters
<1>3. RowsRest /\ rowLock' = rowLock /\ r \in Procs  BY DEF ListToReplay, RowsRest, locks, Procs
<1> QED  BY <1>1, <1>2, <1>3, NextReplayLands, Advance DEF Writes, Locks

LEMMA ClaimStep ==
  ASSUME Safe, NEW r \in Replayers, Claim(r)
  PROVE  Safe' /\ Writes(r)
<1>0. /\ r \in Procs /\ r \notin Handlers /\ acked \subseteq Bodies /\ proc[r] \in Goroutine
      /\ proc \in [Procs -> Goroutine] /\ rowLock \in [Keys -> Procs \union {NoProc}]
      /\ attempts \in [Keys -> Nat]
  BY WebhookAssumption, SMTT(30) DEF Procs, Safe, RowsTyped
<1>1. PICK k \in proc[r].ids :
        \/ /\ status[k] = "dead_letter" /\ rowLock[k] = NoProc
           /\ rowLock' = [rowLock EXCEPT ![k] = r]
           /\ Set(r, [proc[r] EXCEPT !.pc = "apply", !.key = k, !.count = attempts[k]])
           /\ UNCHANGED acked
        \/ NextReplay(r, proc[r].ids \ {k}) /\ UNCHANGED rowLock
  BY Zenon DEF Claim
<1>2. k \in Keys /\ proc[r].ids \ {k} \in SUBSET Keys  BY <1>0 DEF Goroutine
<1>3. RowsRest /\ status' = status /\ attempts' = attempts  BY DEF Claim, RowsRest
<1>4. CASE NextReplay(r, proc[r].ids \ {k}) /\ UNCHANGED rowLock
  BY <1>0, <1>2, <1>3, <1>4, NextReplayLands, Advance DEF Writes, Locks
<1>5. CASE /\ status[k] = "dead_letter" /\ rowLock[k] = NoProc
           /\ rowLock' = [rowLock EXCEPT ![k] = r]
           /\ Set(r, [proc[r] EXCEPT !.pc = "apply", !.key = k, !.count = attempts[k]])
           /\ UNCHANGED acked
  <2> DEFINE q == [proc[r] EXCEPT !.pc = "apply", !.key = k, !.count = attempts[k]]
  <2>1. q \in Goroutine /\ q.pc = "apply" /\ q.key = k /\ q.count = attempts[k]
    BY <1>0, <1>2, Zenon DEF Goroutine
  <2>2. proc' = [proc EXCEPT ![r] = q]  BY <1>5 DEF Set
  <2> HIDE DEF q
  <2>3. proc'[r] = q /\ rowLock'[k] = r  BY <1>0, <1>2, <1>5, <2>2
  <2>4. Fits(r, q)  BY <1>0, <2>1 DEF Fits
  <2>5. Owns(r, proc[r])' /\ Walks(r, proc[r])'
    BY <1>0, <1>2, <1>3, <1>5, <2>1, <2>3 DEF Owns, Walks
  <2>6. Lands(r)  BY <1>0, <1>5, <2>1, <2>2, <2>4, <2>5, Zenon DEF Lands
  <2> QED  BY <1>0, <1>2, <1>3, <1>5, <2>6, Advance, Zenon DEF Writes, Locks
<1> QED  BY <1>1, <1>4, <1>5

LEMMA ApplyStep ==
  ASSUME Safe, NEW p \in Procs, Apply(p)
  PROVE  Safe' /\ Writes(p)
<1> DEFINE q == [proc[p] EXCEPT !.pc = "commit"]
<1>0. /\ acked \subseteq Bodies /\ proc[p] \in Goroutine /\ proc \in [Procs -> Goroutine]
      /\ Owns(p, proc[p]) /\ Walks(p, proc[p])
  BY DEF Safe
<1>1. /\ proc[p].pc = "apply" /\ proc' = [proc EXCEPT ![p] = q] /\ RowsRest
      /\ rowLock' = rowLock /\ acked' = acked /\ status' = status /\ attempts' = attempts
  BY DEF Apply, Set, RowsRest
<1>2. /\ q \in Goroutine /\ q.pc = "commit" /\ q.key = proc[p].key /\ q.count = proc[p].count
      /\ q.body = proc[p].body /\ q.todo = proc[p].todo
  BY <1>0 DEF Goroutine
<1> HIDE DEF q
<1>3. proc'[p] = q  BY <1>0, <1>1
<1>4. Fits(p, q)  BY <1>2 DEF Fits
<1>5. Owns(p, proc[p])'  BY <1>0, <1>1, <1>2, <1>3, SMTT(30) DEF Owns
<1>6. Walks(p, proc[p])'  BY <1>0, <1>1, <1>2, <1>3 DEF Walks
<1>7. Lands(p)  BY <1>0, <1>1, <1>2, <1>4, <1>5, <1>6, Zenon DEF Lands
<1> QED  BY <1>1, <1>7, Advance DEF Writes, Locks


\* A commit releases the locks of its transaction.
LEMMA CommitLocks ==
  ASSUME NEW p, Commits(p)
  PROVE  Writes(p) /\ Locks(p)
  BY DEF Commits, Commit, Unlock, Writes, Locks

LEMMA FinishStep ==
  ASSUME Safe, NEW p \in Procs, Finish(p)
  PROVE  Safe' /\ Writes(p)
<1>0. Commits(p) /\ proc[p].pc = "commit"  BY DEF Finish, Commits
<1>1. Writes(p) /\ Locks(p)  BY <1>0, CommitLocks
<1>2. proc[p] \in Goroutine /\ Owns(p, proc[p]) /\ Walks(p, proc[p])  BY DEF Safe
<1>3. CASE p \in Handlers
  <2> DEFINE b == proc[p].body
  <2>1. NextEvent(p, proc[p].todo)  BY <1>3 DEF Finish
  <2>2. /\ b \in Bodies /\ proc[p].todo \subseteq ParsedEvents(b)
        /\ \A i \in ParsedEvents(b) : \/ status[IdentityKey(b[i], b)] # "none"
                                      \/ i \in proc[p].todo
                                      \/ proc[p].key = IdentityKey(b[i], b)
    BY <1>0, <1>2, <1>3, SMTT(30) DEF Walks
  <2>3. status'[proc[p].key] # "none"  BY <1>0, CommitWrites, SMTT(30)
  <2>4. \A i \in ParsedEvents(b) : i \in proc[p].todo \/ status'[IdentityKey(b[i], b)] # "none"
    BY <1>1, <2>2, <2>3, EventKey, RowsStay
  <2>5. Lands(p)  BY <1>3, <2>1, <2>2, <2>4, NextEventLands
  <2> QED  BY <1>1, <2>5, Advance
<1>4. CASE p \in Replayers
  <2>1. NextReplay(p, proc[p].ids \ {proc[p].key})  BY <1>4, WebhookAssumption DEF Finish
  <2>2. proc[p].ids \ {proc[p].key} \in SUBSET Keys  BY <1>2 DEF Goroutine
  <2>3. Lands(p)  BY <1>4, <2>1, <2>2, NextReplayLands
  <2> QED  BY <1>1, <2>3, Advance
<1> QED  BY <1>3, <1>4 DEF Procs

LEMMA RejectStep ==
  ASSUME Safe, NEW h \in Handlers, Reject(h)
  PROVE  Safe' /\ Writes(h)
<1> DEFINE b == proc[h].body
<1>0. /\ h \in Procs /\ proc \in [Procs -> Goroutine] /\ acked \subseteq Bodies
      /\ Walks(h, proc[h])
  BY DEF Procs, Safe
<1>1. Deadens(h) /\ rowLock' = rowLock /\ proc[h].pc = "reject"
  BY DEF Reject, Deadens, locks
<1>2. Writes(h) /\ Locks(h)  BY <1>1 DEF Writes, Locks
<1>3. proc' = [proc EXCEPT ![h] = IdleProc] /\ acked' = acked \union {b}
  BY DEF Reject, Set
<1>4. b \in Bodies /\ \A i \in ParsedEvents(b) : status[IdentityKey(b[i], b)] # "none"
  BY <1>0, <1>1 DEF Walks
<1>5. ASSUME NEW a \in acked' PROVE a \in acked \/ Recorded(a)'
  <2>1. \A i \in ParsedEvents(b) : status'[IdentityKey(b[i], b)] # "none"
    BY <1>0, <1>2, <1>4, EventKey, RowsStay
  <2>2. status'[DeadLetterKey(b)] # "none"  BY <1>0, <1>1, DeadenWrites
  <2>3. CASE a = b  BY <2>1, <2>2, <2>3 DEF Recorded
  <2> QED  BY <1>3, <2>3
<1>6. Lands(h)
  <2>1. proc'[h] = IdleProc /\ Fits(h, IdleProc)  BY <1>0, <1>3, IdleProcIs DEF Fits, Procs
  <2>2. Owns(h, proc[h])' /\ Walks(h, proc[h])'  BY <2>1, IdleProcIs, SMTT(30) DEF Owns, Walks
  <2> QED  BY <1>0, <1>3, <1>4, <1>5, <2>1, <2>2, IdleProcIs, Zenon DEF Lands
<1> QED  BY <1>0, <1>2, <1>6, Advance

LEMMA FailStep ==
  ASSUME Safe, NEW p \in Procs, Fail(p)
  PROVE  Safe' /\ Writes(p)
<1>1. Writes(p) /\ Locks(p)
  <2>1. CASE Unlock(p) /\ UNCHANGED <<status, attempts, lists, effects, replays>>
    BY <2>1 DEF Unlock, Writes, RowsRest, Locks
  <2>2. CASE proc[p].pc = "commit" /\ Commit(p)
    BY <2>2, CommitLocks DEF Commits
  <2>3. CASE /\ proc[p].pc = "reject" /\ InsertDeadLetter(proc[p].body)
             /\ UNCHANGED <<lists, locks, effects, replays>>
    <3>1. p \in Handlers  BY <2>3, Parts DEF Fits, Procs
    <3> QED  BY <2>3, <3>1 DEF Deadens, Writes, Locks, locks
  <2> QED  BY <2>1, <2>2, <2>3 DEF Fail
<1>2. proc' = [proc EXCEPT ![p] = IdleProc] /\ acked' = acked  BY DEF Fail, Set
<1>3. Lands(p)  BY <1>2, IdleLands, Zenon
<1> QED  BY <1>1, <1>3, Advance

LEMMA SafeInit ==
  ASSUME Init
  PROVE  Safe
<1>1. \A p \in Procs : proc[p] = IdleProc  BY DEF Init
<1>2. \A p \in Procs : Fits(p, proc[p]) /\ Owns(p, proc[p]) /\ Walks(p, proc[p])
  BY <1>1, IdleProcIs DEF Fits, Owns, Walks
<1>3. status \in [Keys -> Statuses]  BY DEF Init, Statuses
<1>4. attempts \in [Keys -> Nat] /\ effects \in [Keys -> Nat] /\ replays \in [Keys -> Nat]
  BY DEF Init
<1>5. proc \in [Procs -> Goroutine] /\ rowLock \in [Keys -> Procs \union {NoProc}] /\ acked = {}
  BY IdleProcIs DEF Init
<1> QED  BY <1>2, <1>3, <1>4, <1>5 DEF Safe, RowsTyped

\* Every step writes rows on behalf of one goroutine.
LEMMA SafeStep ==
  ASSUME Safe, [Next]_vars
  PROVE  Safe' /\ (RowsRest \/ \E p \in Procs : Writes(p))
<1>1. CASE UNCHANGED vars
  <2>1. /\ UNCHANGED <<status, attempts, effects, replays, rowLock, proc, acked>>
        /\ RowsRest
    BY <1>1 DEF vars, locks, RowsRest
  <2> QED  BY <2>1 DEF Safe, RowsTyped, Fits, Owns, Walks, Recorded
<1>2. CASE AtRest  BY <1>1, <1>2 DEF AtRest
<1>3. ASSUME NEW h \in Handlers, ReceiveWebhookEvent(h)
      PROVE  Safe' /\ \E p \in Procs : Writes(p)
  <2>1. h \in Procs  BY DEF Procs
  <2> QED  BY <1>3, <2>1, ReceiveStep, InsertStep, ApplyStep, FinishStep, RejectStep, FailStep
           DEF ReceiveWebhookEvent
<1>4. ASSUME NEW r \in Replayers, ReplayWebhookDeadLetters(r)
      PROVE  Safe' /\ \E p \in Procs : Writes(p)
  <2>1. r \in Procs  BY DEF Procs
  <2> QED  BY <1>4, <2>1, ListStep, ClaimStep, ApplyStep, FinishStep, FailStep
           DEF ReplayWebhookDeadLetters
<1> QED  BY <1>1, <1>2, <1>3, <1>4, SMTT(30) DEF Next

\* Transactions own their rows and bodies are walked to their end.
THEOREM TransactionsAreSafe == Spec => []Safe
<1>1. Init => Safe  BY SafeInit
<1>2. Safe /\ [Next]_vars => Safe'  BY SafeStep
<1> QED  BY <1>1, <1>2, PTL DEF Spec

LEMMA AckedFromSafe ==
  ASSUME Safe
  PROVE  AckedIsRecorded
  BY DEF Safe, Recorded, ParsedEvents, AckedIsRecorded

\* receiveWebhookEvent answers 202 only when every event of the body, and its
\* rejected records, have a committed row, and no row ever disappears.
THEOREM AckedMeansRecorded == Spec => []AckedIsRecorded
  BY TransactionsAreSafe, AckedFromSafe, PTL


----------------------------------------------------------------------------
(* The rows and the lists.                                                 *)

\* A settled row is that of an event that calls for something, with one effect;
\* attempt_count follows the replays.
RowSound(k) ==
    /\ status[k] \in Settled => Outcome(k) = "applied"
    /\ effects[k] = (IF status[k] \in Settled THEN 1 ELSE 0)
    /\ status[k] = "none" => replays[k] = 0
    /\ status[k] # "none" => attempts[k] = 1 + replays[k]

\* The recipients a list owes to the settled rows.
Owed(l) == {k.ev.email : k \in {k \in Keys : status[k] \in Settled /\ ListOf(k) = l}}

Sound ==
    /\ \A k \in Keys : RowSound(k)
    /\ suppressed = Owed("suppressions") /\ unsubscribed = Owed("unsubscribes")

LEMMA ListedApplies ==
  ASSUME NEW k, ListOf(k) # "none"
  PROVE  k.ev.email # "" /\ Outcome(k) = "applied"
<1>1. k.ev.email # ""  BY DEF ListOf
<1> QED  BY <1>1 DEF Outcome

LEMMA SoundInit ==
  ASSUME Init
  PROVE  Sound
<1>1. ASSUME NEW k \in Keys
      PROVE  /\ status[k] \in {"none", "dead_letter"} /\ effects[k] = 0 /\ replays[k] = 0
             /\ attempts[k] = IF status[k] = "none" THEN 0 ELSE 1
  BY DEF Init
<1>2. \A k \in Keys : RowSound(k)  BY <1>1 DEF RowSound, Settled
<1>3. \A l : Owed(l) = {}  BY <1>1 DEF Owed, Settled
<1>4. suppressed = {} /\ unsubscribed = {}  BY DEF Init
<1> QED  BY <1>2, <1>3, <1>4 DEF Sound

LEMMA CommitSound ==
  ASSUME Safe, Sound, NEW p \in Procs, Commits(p)
  PROVE  Sound'
<1> DEFINE k == proc[p].key
<1>0. /\ status \in [Keys -> Statuses] /\ attempts \in [Keys -> Nat]
      /\ effects \in [Keys -> Nat] /\ replays \in [Keys -> Nat]
  BY DEF Safe, RowsTyped
<1>1. /\ k \in Keys /\ status[k] \in {"none", "dead_letter"}
      /\ status'[k] \in Statuses \ {"none"}
      /\ status'[k] \in Settled <=> Outcome(k) = "applied"
      /\ attempts'[k] = proc[p].count + 1
      /\ \A l \in Keys : l # k => status'[l] = status[l] /\ attempts'[l] = attempts[l]
  BY CommitWrites
<1>2. /\ effects' = [effects EXCEPT ![k] = IF Outcome(k) = "applied" THEN effects[k] + 1 ELSE effects[k]]
      /\ replays' = [replays EXCEPT ![k] = IF p \in Replayers THEN replays[k] + 1 ELSE replays[k]]
      /\ suppressed' = suppressed \union (IF ListOf(k) = "suppressions" THEN {k.ev.email} ELSE {})
      /\ unsubscribed' = unsubscribed \union (IF ListOf(k) = "unsubscribes" THEN {k.ev.email} ELSE {})
  BY DEF Commits, Commit
<1>3. /\ p \in Handlers => status[k] = "none" /\ proc[p].count = 0 /\ p \notin Replayers
      /\ p \in Replayers => status[k] = "dead_letter" /\ proc[p].count = attempts[k]
      /\ p \in Handlers \/ p \in Replayers
  BY Parts, WebhookAssumption DEF Owns, Commits, Procs
<1>4. \A l \in Keys : RowSound(l)  BY DEF Sound
<1> HIDE DEF k
<1>5. ASSUME NEW l \in Keys
      PROVE  RowSound(l)'
  <2>1. CASE l # k
    <3>1. /\ status'[l] = status[l] /\ attempts'[l] = attempts[l]
          /\ effects'[l] = effects[l] /\ replays'[l] = replays[l]
      BY <1>0, <1>1, <1>2, <2>1
    <3>2. Outcome(l)' = Outcome(l)  BY DEF Outcome, ListOf, ClassifyLegacyBounce
    <3> QED  BY <1>4, <3>1, <3>2 DEF RowSound
  <2>2. CASE l = k
    <3>1. RowSound(k)  BY <1>1, <1>4
    <3>2. effects[k] = 0 /\ status[k] \notin Settled  BY <1>1, <3>1 DEF RowSound, Settled
    <3>3. effects'[k] = IF Outcome(k) = "applied" THEN 1 ELSE 0  BY <1>0, <1>1, <1>2, <3>2
    <3>4. attempts'[k] = 1 + replays'[k]
      <4>1. CASE p \in Handlers
        <5>1. replays'[k] = 0  BY <1>0, <1>1, <1>2, <1>3, <3>1, <4>1 DEF RowSound
        <5> QED  BY <1>1, <1>3, <4>1, <5>1, SMTT(30)
      <4>2. CASE p \in Replayers
        <5>1. replays'[k] = replays[k] + 1  BY <1>0, <1>1, <1>2, <4>2, SMTT(30)
        <5>2. attempts[k] = 1 + replays[k]  BY <1>3, <3>1, <4>2 DEF RowSound
        <5> QED  BY <1>0, <1>1, <1>3, <4>2, <5>1, <5>2, SMTT(30)
      <4> QED  BY <1>3, <4>1, <4>2
    <3> QED  BY <1>1, <2>2, <3>3, <3>4 DEF RowSound
  <2> QED  BY <2>1, <2>2, SMTT(30)
<1>6. ASSUME NEW name \in Lists, NEW list,
             list = Owed(name)
      PROVE  list \union (IF ListOf(k) = name THEN {k.ev.email} ELSE {}) = Owed(name)'
  <2>1. \A l \in Keys : status[l] \in Settled => status'[l] \in Settled
    BY <1>1 DEF Settled
  <2>2. \A l \in Keys : status'[l] \in Settled => status[l] \in Settled \/ l = k
    BY <1>1
  <2>3. ListOf(k) = name => status'[k] \in Settled  BY <1>1, ListedApplies, Zenon DEF Lists
  <2>4. ASSUME NEW e
        PROVE  e \in Owed(name)' <=> e \in Owed(name) \/ (ListOf(k) = name /\ e = k.ev.email)
    <3>1. e \in Owed(name) <=> \E l \in Keys : status[l] \in Settled /\ ListOf(l) = name /\ e = l.ev.email
      BY DEF Owed
    <3>2. e \in Owed(name)' <=> \E l \in Keys : status'[l] \in Settled /\ ListOf(l) = name /\ e = l.ev.email
      BY DEF Owed
    <3> QED  BY <1>1, <2>1, <2>2, <2>3, <3>1, <3>2
  <2> QED  BY <1>6, <2>4
<1>7. suppressed' = Owed("suppressions")' /\ unsubscribed' = Owed("unsubscribes")'
  BY <1>2, <1>6, SMTT(30) DEF Sound, Lists
<1> QED  BY <1>5, <1>7 DEF Sound


LEMMA DeadenSound ==
  ASSUME Safe, Sound, NEW p \in Procs, Deadens(p)
  PROVE  Sound'
<1> DEFINE k == DeadLetterKey(proc[p].body)
<1>0. status \in [Keys -> Statuses] /\ attempts \in [Keys -> Nat]  BY DEF Safe, RowsTyped
<1>1. /\ k \in Keys
      /\ status[k] # "none" => UNCHANGED <<status, attempts>>
      /\ status[k] = "none" => /\ status' = [status EXCEPT ![k] = "dead_letter"]
                               /\ attempts' = [attempts EXCEPT ![k] = 1]
  BY DeadenWrites
<1>2. UNCHANGED <<suppressed, unsubscribed, effects, replays>>  BY DEF Deadens, lists
<1> HIDE DEF k
<1>3. ASSUME NEW l \in Keys
      PROVE  RowSound(l)' /\ (status'[l] \in Settled <=> status[l] \in Settled)
  <2>1. RowSound(l)  BY DEF Sound
  <2>2. Outcome(l)' = Outcome(l)  BY DEF Outcome, ListOf, ClassifyLegacyBounce
  <2>3. \/ status'[l] = status[l] /\ attempts'[l] = attempts[l]
        \/ status[l] = "none" /\ status'[l] = "dead_letter" /\ attempts'[l] = 1
    BY <1>0, <1>1
  <2> QED  BY <1>2, <2>1, <2>2, <2>3 DEF RowSound, Settled
<1>4. \A name : Owed(name)' = Owed(name)  BY <1>3 DEF Owed
<1> QED  BY <1>2, <1>3, <1>4 DEF Sound

LEMMA SoundStep ==
  ASSUME Safe, Sound, [Next]_vars
  PROVE  Sound'
<1>1. CASE RowsRest
  <2>1. UNCHANGED <<status, attempts, suppressed, unsubscribed, effects, replays>>
    BY <1>1 DEF RowsRest, lists
  <2>2. \A k \in Keys : RowSound(k)'
    BY <2>1 DEF Sound, RowSound, Outcome, ListOf, ClassifyLegacyBounce
  <2>3. \A name : Owed(name)' = Owed(name)  BY <2>1 DEF Owed
  <2> QED  BY <2>1, <2>2, <2>3 DEF Sound
<1>2. ASSUME NEW p \in Procs, Writes(p)
      PROVE  Sound'
  BY <1>1, <1>2, CommitSound, DeadenSound DEF Writes
<1> QED  BY <1>1, <1>2, SafeStep

\* The log is sound and the lists are what it owes.
THEOREM LogIsSound == Spec => []Sound
<1>1. Init => Sound  BY SoundInit
<1>2. Safe /\ Sound /\ [Next]_vars => Sound'  BY SoundStep
<1> QED  BY <1>1, <1>2, TransactionsAreSafe, PTL DEF Spec

\* The keys of an event with a provider identity: one for all its bodies, and
\* the one migration 000013 gave it.
LEMMA OneIdentity ==
  ASSUME NEW e \in Events, e.ident, NEW k \in Keys \ {LegacyKey(e)}, k.ev = e
  PROVE  k = [ev |-> e, body |-> <<>>]
<1>1. \/ \E d \in Events, b \in Bodies : k = IdentityKey(d, b)
      \/ \E b \in Bodies : k = DeadLetterKey(b)
      \/ \E d \in Legacy : k = LegacyKey(d)
  BY DEF Keys
<1>2. ASSUME NEW d \in Events, NEW b \in Bodies, k = IdentityKey(d, b)
      PROVE  k = [ev |-> e, body |-> <<>>]
  <2>1. d = e  BY <1>2 DEF IdentityKey
  <2> QED  BY <1>2, <2>1 DEF IdentityKey
<1>3. ASSUME NEW b \in Bodies, k = DeadLetterKey(b)
      PROVE  FALSE
  <2>1. e = BadRecord  BY <1>3 DEF DeadLetterKey
  <2>2. ~BadRecord.ident  BY DEF BadRecord
  <2> QED  BY <2>1, <2>2
<1>4. ASSUME NEW d \in Legacy, k = LegacyKey(d)
      PROVE  FALSE
  <2>1. d = e  BY <1>4 DEF LegacyKey
  <2> QED  BY <1>4, <2>1
<1> QED  BY <1>1, <1>2, <1>3, <1>4

LEMMA OnceFromSound ==
  ASSUME Sound
  PROVE  AppliedOnce
<1>1. \A k \in Keys : effects[k] = (IF status[k] \in {"applied", "replayed"} THEN 1 ELSE 0)
  BY DEF Sound, RowSound, Settled
<1>2. ASSUME NEW e \in Events, e.ident
      PROVE  Cardinality({k \in Keys \ {LegacyKey(e)} : k.ev = e /\ effects[k] > 0}) <= 1
  <2> DEFINE one == [ev |-> e, body |-> <<>>]
             S == {k \in Keys \ {LegacyKey(e)} : k.ev = e /\ effects[k] > 0}
  <2>1. S \subseteq {one}  BY <1>2, OneIdentity
  <2> HIDE DEF S, one
  <2>2. IsFiniteSet({one}) /\ Cardinality({one}) = 1  BY FS_Singleton, Zenon
  <2>3. Cardinality(S) <= Cardinality({one})  BY <2>1, <2>2, FS_Subset, SMTT(30)
  <2> QED  BY <2>2, <2>3 DEF S
<1> QED  BY <1>1, <1>2 DEF AppliedOnce

\* An event takes effect at most once, whatever bodies carry it, however often
\* they are delivered or replayed at once, and wherever a transaction fails:
\* the application commits together with the status that rules out another.
THEOREM EventsApplyOnce == Spec => []AppliedOnce
  BY LogIsSound, OnceFromSound, PTL

LEMMA ListedIs ==
  ASSUME NEW k, k.ev.email # ""
  PROVE  /\ ListOf(k) = "suppressions" <=>
              \/ k.ev.kind \in {"bounce_permanent", "complaint"}
              \/ k.ev.kind = "bounce" /\ k.ev.reason = "permanent"
         /\ ListOf(k) = "unsubscribes" <=> k.ev.kind = "unsubscribe"
<1>1. CASE k.ev.kind # "bounce"  BY <1>1 DEF ListOf, ClassifyLegacyBounce
<1>2. CASE k.ev.kind = "bounce" /\ k.ev.reason = "permanent"
  BY <1>2 DEF ListOf, ClassifyLegacyBounce
<1>3. CASE k.ev.kind = "bounce" /\ k.ev.reason = "temporary"
  BY <1>3 DEF ListOf, ClassifyLegacyBounce
<1>4. CASE k.ev.kind = "bounce" /\ k.ev.reason \notin {"permanent", "temporary"}
  BY <1>4 DEF ListOf, ClassifyLegacyBounce
<1> QED  BY <1>1, <1>2, <1>3, <1>4

LEMMA MatchFromSound ==
  ASSUME Sound
  PROVE  ListsMatchLog
<1>1. \A k \in Keys : status[k] \in Settled => k.ev.email # ""
  BY DEF Sound, RowSound, Outcome
<1>2. ASSUME NEW e, NEW name
      PROVE  e \in Owed(name) <=> \E k \in Keys : k.ev.email = e /\ status[k] \in Settled /\ ListOf(k) = name
  BY DEF Owed
<1>3. ASSUME NEW e
      PROVE  /\ e \in suppressed <=> \E k \in Keys :
                  /\ k.ev.email = e /\ status[k] \in Settled
                  /\ \/ k.ev.kind \in {"bounce_permanent", "complaint"}
                     \/ k.ev.kind = "bounce" /\ k.ev.reason = "permanent"
             /\ e \in unsubscribed <=> \E k \in Keys :
                  /\ k.ev.email = e /\ status[k] \in Settled
                  /\ k.ev.kind = "unsubscribe"
  <2>1. suppressed = Owed("suppressions") /\ unsubscribed = Owed("unsubscribes")  BY DEF Sound
  <2>2. \A k \in Keys : status[k] \in Settled =>
          /\ ListOf(k) = "suppressions" <=> \/ k.ev.kind \in {"bounce_permanent", "complaint"}
                                            \/ k.ev.kind = "bounce" /\ k.ev.reason = "permanent"
          /\ ListOf(k) = "unsubscribes" <=> k.ev.kind = "unsubscribe"
    BY <1>1, ListedIs
  <2>3. /\ e \in suppressed <=>
             \E k \in Keys : k.ev.email = e /\ status[k] \in Settled /\ ListOf(k) = "suppressions"
        /\ e \in unsubscribed <=>
             \E k \in Keys : k.ev.email = e /\ status[k] \in Settled /\ ListOf(k) = "unsubscribes"
    BY <1>2, <2>1
  <2> QED  BY <2>2, <2>3, Zenon
<1> QED  BY <1>3 DEF Settled, ListsMatchLog

\* A recipient is on a list exactly when an event that calls for it has been
\* applied: no rolled back delivery and no other event leaves an entry behind.
THEOREM ListsFollowTheLog == Spec => []ListsMatchLog
  BY LogIsSound, MatchFromSound, PTL

LEMMA CountsFromSound ==
  ASSUME Sound
  PROVE  AttemptsCounted
  BY DEF Sound, RowSound, AttemptsCounted

\* attempt_count is one for the delivery and one for each committed replay,
\* even when replays of a row run at once.
THEOREM AttemptsAreCounted == Spec => []AttemptsCounted
  BY LogIsSound, CountsFromSound, PTL

----------------------------------------------------------------------------
(* The parser (WebhookParser).  Joining sequences first: Join is a         *)
(* recursive function, and what it returns is shown at the least length    *)
(* at which it could fail.                                                 *)

\* A set of naturals that is not empty has a least element.
LEMMA Least ==
    ASSUME NEW T \in SUBSET Nat, T # {} PROVE \E m \in T : \A k \in T : m <= k
<1> DEFINE R == OpToRel(<, Nat)
<1>1. IsWellFoundedOn(R, Nat)
  BY NatLessThanWellFounded, Zenon
<1>3. \A x, y \in Nat : x < y => <<x, y>> \in R
  BY DEF OpToRel
<1> HIDE DEF R
<1>2. PICK m \in T : \A y \in T : ~ (<<y, m>> \in R)
  BY <1>1, WFMin, Zenon
<1>4. \A k \in T : ~(k < m)
  BY <1>2, <1>3, Zenon
<1>5. \A k \in T : m <= k
  BY <1>4
<1> QED BY <1>5

\* Induction up to a number, over a set.
LEMMA UpTo ==
    ASSUME NEW n \in Nat, NEW P, 0 \in P, \A k \in 0..n - 1 : k \in P => k + 1 \in P
    PROVE  \A k \in 0..n : k \in P
<1> DEFINE T == {k \in 0..n : k \notin P}
<1> SUFFICES ASSUME T # {} PROVE FALSE
  OBVIOUS
<1>1. T \in SUBSET Nat
  OBVIOUS
<1>2. PICK m \in T : \A k \in T : m <= k
  BY <1>1, Least, Zenon
<1>3. m \in 0..n /\ m \notin P /\ m # 0
  BY <1>2
<1>4. m - 1 \in 0..n - 1 /\ m - 1 \in 0..n /\ (m - 1) + 1 = m /\ ~(m <= m - 1)
  BY <1>3
<1>5. m - 1 \in P
  BY <1>2, <1>4
<1> QED BY <1>3, <1>4, <1>5

Has(s, x) == \E k \in DOMAIN s : s[k] = x

\* A sequence of one element holds that one.
LEMMA HasOne ==
    ASSUME NEW y PROVE /\ \A S : y \in S => <<y>> \in Seq(S)
                       /\ \A x : Has(<<y>>, x) <=> x = y
<1>1. DOMAIN <<y>> = {1} /\ <<y>>[1] = y
  OBVIOUS
<1>2. ASSUME NEW S, y \in S PROVE <<y>> \in Seq(S)
  BY <1>2
<1> QED BY <1>1, <1>2, Zenon DEF Has

\* The empty one holds none.
LEMMA HasNone == \A x : ~Has(<<>>, x)
<1>1. DOMAIN <<>> = {}
  OBVIOUS
<1> QED BY <1>1, Zenon DEF Has

\* A function on 1..n is a sequence.
LEMMA FunctionIsSeq ==
    ASSUME NEW S, NEW n \in Nat, NEW f, f \in [1..n -> S] PROVE f \in Seq(S)
OBVIOUS

\* A concatenation holds what its two parts hold.
LEMMA HasConcat ==
    ASSUME NEW S, NEW s \in Seq(S), NEW t \in Seq(S)
    PROVE  s \o t \in Seq(S) /\ \A x : Has(s \o t, x) <=> Has(s, x) \/ Has(t, x)
<1>0. s \o t \in Seq(S)
  OBVIOUS
<1> SUFFICES ASSUME NEW x PROVE Has(s \o t, x) <=> Has(s, x) \/ Has(t, x)
  BY <1>0
<1>1. ASSUME NEW j \in DOMAIN (s \o t), (s \o t)[j] = x PROVE Has(s, x) \/ Has(t, x)
  <2>1. CASE j <= Len(s)
    <3>1. j \in DOMAIN s /\ (s \o t)[j] = s[j]
      BY <2>1
    <3> QED BY <1>1, <3>1, Zenon DEF Has
  <2>2. CASE ~(j <= Len(s))
    <3>1. j - Len(s) \in DOMAIN t /\ (s \o t)[j] = t[j - Len(s)]
      BY <2>2
    <3> QED BY <1>1, <3>1, Zenon DEF Has
  <2> QED BY <2>1, <2>2
<1>2. ASSUME NEW j \in DOMAIN s, s[j] = x PROVE Has(s \o t, x)
  <2>1. j \in DOMAIN (s \o t) /\ (s \o t)[j] = s[j]
    OBVIOUS
  <2> QED BY <1>2, <2>1, Zenon DEF Has
<1>3. ASSUME NEW j \in DOMAIN t, t[j] = x PROVE Has(s \o t, x)
  <2>1. Len(s) + j \in DOMAIN (s \o t) /\ (s \o t)[Len(s) + j] = t[j]
    OBVIOUS
  <2> QED BY <1>3, <2>1, Zenon DEF Has
<1>4. Has(s \o t, x) => Has(s, x) \/ Has(t, x)
  <2> SUFFICES ASSUME Has(s \o t, x) PROVE Has(s, x) \/ Has(t, x)
    OBVIOUS
  <2>1. PICK j \in DOMAIN (s \o t) : (s \o t)[j] = x
    BY Zenon DEF Has
  <2> QED BY <1>1, <2>1, Zenon
<1>5. Has(s, x) => Has(s \o t, x)
  <2> SUFFICES ASSUME Has(s, x) PROVE Has(s \o t, x)
    OBVIOUS
  <2>1. PICK j \in DOMAIN s : s[j] = x
    BY Zenon DEF Has
  <2> QED BY <1>2, <2>1, Zenon
<1>6. Has(t, x) => Has(s \o t, x)
  <2> SUFFICES ASSUME Has(t, x) PROVE Has(s \o t, x)
    OBVIOUS
  <2>1. PICK j \in DOMAIN t : t[j] = x
    BY Zenon DEF Has
  <2> QED BY <1>3, <2>1, Zenon
<1> QED BY <1>4, <1>5, <1>6, Zenon

\* The concatenation of the first i parts, for the i up to m.
Joins(f, ss, m) == \A i \in 1..m : f[i] = IF i = 1 THEN ss[i] ELSE f[i - 1] \o ss[i]

\* Joining is possible, one part after the other.
LEMMA JoinOne ==
    ASSUME NEW S, NEW ss \in Seq(Seq(S)), NEW k \in 0..Len(ss) - 1,
           NEW f \in [1..Len(ss) -> Seq(S)], Joins(f, ss, k)
    PROVE  \E g \in [1..Len(ss) -> Seq(S)] : Joins(g, ss, k + 1)
<1>h. \A s, t \in Seq(S) : s \o t \in Seq(S) /\ \A x : Has(s \o t, x) <=> Has(s, x) \/ Has(t, x)
  BY HasConcat, Zenon
<1>1. /\ k + 1 \in 1..Len(ss) /\ ss[k + 1] \in Seq(S)
      /\ k # 0 => k \in 1..Len(ss) /\ f[k] \in Seq(S)
  <2>1. Len(ss) \in Nat /\ ss \in [1..Len(ss) -> Seq(S)]
    OBVIOUS
  <2>2. k + 1 \in 1..Len(ss) /\ (k # 0 => k \in 1..Len(ss))
    BY <2>1
  <2> QED BY <2>1, <2>2, Zenon
<1>2. PICK v \in Seq(S) : v = IF k = 0 THEN ss[k + 1] ELSE f[k] \o ss[k + 1]
  <2>1. CASE k = 0
    BY <1>1, <2>1, Zenon
  <2>2. CASE k # 0
    <3>1. f[k] \o ss[k + 1] \in Seq(S)
      BY <1>h, <1>1, <2>2, Zenon
    <3> QED BY <2>2, <3>1, Zenon
  <2> QED BY <2>1, <2>2, Zenon
<1> DEFINE g == [f EXCEPT ![k + 1] = v]
<1>3. g \in [1..Len(ss) -> Seq(S)] /\ g[k + 1] = v /\ \A i \in 1..Len(ss) : i # k + 1 => g[i] = f[i]
  BY <1>1
<1> HIDE DEF g
<1>4. ASSUME NEW i \in 1..k + 1 PROVE g[i] = IF i = 1 THEN ss[i] ELSE g[i - 1] \o ss[i]
  <2>1. CASE i = k + 1
    <3>1. CASE k = 0
      BY <1>2, <1>3, <2>1, <3>1
    <3>2. CASE k # 0
      <4>1. i # 1 /\ i - 1 = k /\ k # k + 1
        BY <2>1, <3>2
      <4>2. g[i - 1] = f[k]
        BY <1>1, <1>3, <3>2, <4>1, Zenon
      <4> QED BY <1>2, <1>3, <2>1, <3>2, <4>1, <4>2, Zenon
    <3> QED BY <3>1, <3>2
  <2>2. CASE i # k + 1
    <3>1. i \in 1..k /\ i \in 1..Len(ss)
      BY <2>2
    <3>2. i # 1 => i - 1 \in 1..Len(ss) /\ i - 1 # k + 1
      BY <3>1
    <3>3. f[i] = IF i = 1 THEN ss[i] ELSE f[i - 1] \o ss[i]
      BY <3>1, Zenon DEF Joins
    <3> QED BY <1>3, <2>2, <3>1, <3>2, <3>3, Zenon
  <2> QED BY <2>1, <2>2
<1>5. Joins(g, ss, k + 1)
  BY <1>4, Zenon DEF Joins
<1> QED BY <1>3, <1>5, Zenon

\* So the parts are joined at every length.
LEMMA JoinAll ==
    ASSUME NEW S, NEW ss \in Seq(Seq(S))
    PROVE  \E f : f = [i \in 1..Len(ss) |-> IF i = 1 THEN ss[i] ELSE f[i - 1] \o ss[i]]
<1> DEFINE P == {k \in Nat : \E f \in [1..Len(ss) -> Seq(S)] : Joins(f, ss, k)}
<1>1. 0 \in P
  <2>1. ss \in [1..Len(ss) -> Seq(S)] /\ Joins(ss, ss, 0) /\ 0 \in Nat
    BY DEF Joins
  <2> QED BY <2>1, Zenon
<1>2. ASSUME NEW k \in 0..Len(ss) - 1, k \in P PROVE k + 1 \in P
  <2>1. PICK f \in [1..Len(ss) -> Seq(S)] : Joins(f, ss, k)
    BY <1>2, Zenon
  <2>2. k + 1 \in Nat
    OBVIOUS
  <2> QED BY <2>1, <2>2, JoinOne, Zenon
<1>3. Len(ss) \in P
  <2>1. Len(ss) \in Nat /\ Len(ss) \in 0..Len(ss)
    OBVIOUS
  <2> HIDE DEF P
  <2> QED BY <1>1, <1>2, <2>1, UpTo, Zenon
<1>4. PICK f \in [1..Len(ss) -> Seq(S)] : Joins(f, ss, Len(ss))
  BY <1>3, Zenon
<1>5. f = [i \in 1..Len(ss) |-> IF i = 1 THEN ss[i] ELSE f[i - 1] \o ss[i]]
  BY <1>4, Zenon DEF Joins
<1> QED BY <1>5, Zenon

\* Up to k parts are joined as they should.
Joined(f, ss, S, k) ==
    f[k] \in Seq(S) /\ \A x : Has(f[k], x) <=> \E i \in 1..k : Has(ss[i], x)

\* What is joined holds what the parts hold.
LEMMA JoinHolds ==
    ASSUME NEW S, NEW ss \in Seq(Seq(S)), NEW f, Len(ss) # 0,
           f = [i \in 1..Len(ss) |-> IF i = 1 THEN ss[i] ELSE f[i - 1] \o ss[i]]
    PROVE  Joined(f, ss, S, Len(ss))
<1>h. \A s, t \in Seq(S) : s \o t \in Seq(S) /\ \A x : Has(s \o t, x) <=> Has(s, x) \/ Has(t, x)
  BY HasConcat, Zenon
<1> DEFINE P == {k \in Nat : k = 0 \/ Joined(f, ss, S, k)}
<1>1. ASSUME NEW k \in 0..Len(ss) - 1, k \in P PROVE k + 1 \in P
  <2>1. k + 1 \in 1..Len(ss) /\ k + 1 \in Nat /\ ss[k + 1] \in Seq(S)
    OBVIOUS
  <2>2. CASE k = 0
    <3>1. f[1] = ss[1] /\ 1..1 = {1} /\ ss[1] \in Seq(S) /\ k + 1 = 1
      BY <2>1, <2>2
    <3>2. Joined(f, ss, S, 1)
      BY <3>1, Zenon DEF Joined
    <3> QED BY <2>1, <3>1, <3>2, Zenon
  <2>3. CASE k # 0
    <3>0. (k + 1) - 1 = k /\ k + 1 # 1
      BY <2>3
    <3>1. f[k + 1] = f[k] \o ss[k + 1]
      BY <2>1, <3>0, Zenon
    <3>2. Joined(f, ss, S, k)
      BY <1>1, <2>3, Zenon
    <3>3. f[k] \in Seq(S)
      BY <3>2 DEF Joined
    <3>4. \A x : Has(f[k + 1], x) <=> Has(f[k], x) \/ Has(ss[k + 1], x)
      <4>1. \A x : Has(f[k] \o ss[k + 1], x) <=> Has(f[k], x) \/ Has(ss[k + 1], x)
        BY <1>h, <2>1, <3>3, Zenon
      <4> QED BY <3>1, <4>1, Zenon
    <3>5. 1..k + 1 = 1..k \union {k + 1}
      <4>1. \A m \in Nat : 1..m + 1 = 1..m \union {m + 1}
        OBVIOUS
      <4>2. k \in Nat
        BY <1>1
      <4> QED BY <4>1, <4>2, Zenon
    <3>6. \A x : Has(f[k + 1], x) <=> \E i \in 1..k + 1 : Has(ss[i], x)
      BY <3>2, <3>4, <3>5, Zenon DEF Joined
    <3>7. f[k + 1] \in Seq(S)
      <4>1. f[k] \o ss[k + 1] \in Seq(S)
        BY <1>h, <2>1, <3>3, Zenon
      <4> QED BY <3>1, <4>1, Zenon
    <3> QED BY <2>1, <3>6, <3>7, Zenon DEF Joined
  <2> QED BY <2>2, <2>3
<1>2. Len(ss) \in P
  <2>1. Len(ss) \in Nat /\ Len(ss) \in 0..Len(ss) /\ 0 \in P
    OBVIOUS
  <2> HIDE DEF P
  <2> QED BY <1>1, <2>1, UpTo, Zenon
<1> QED BY <1>2, Zenon

CONSTANT Series
VARIABLES body, todo, rejected, log, listed, left, coming, delivered, answered, emptied

Parser == INSTANCE WebhookParser WITH suppressed <- listed, unsubscribed <- left

\* Join returns what its parts hold.
LEMMA Flattened ==
    ASSUME NEW S, NEW ss \in Seq(Seq(S))
    PROVE  /\ Parser!Join(ss) \in Seq(S)
           /\ \A x : Has(Parser!Join(ss), x) <=> \E i \in DOMAIN ss : Has(ss[i], x)
<1> DEFINE F == CHOOSE f : f = [i \in 1..Len(ss) |-> IF i = 1 THEN ss[i] ELSE f[i - 1] \o ss[i]]
<1>1. DOMAIN ss = 1..Len(ss)
  OBVIOUS
<1>2. Parser!Join(ss) = IF ss = <<>> THEN <<>> ELSE F[Len(ss)]
  BY Zenon DEF Parser!Join
<1>3. CASE ss = <<>>
  <2>1. <<>> \in Seq(S) /\ DOMAIN <<>> = {}
    OBVIOUS
  <2> QED BY <1>2, <1>3, <2>1, Zenon DEF Has
<1>4. CASE ss # <<>>
  <2>1. F = [i \in 1..Len(ss) |-> IF i = 1 THEN ss[i] ELSE F[i - 1] \o ss[i]]
    BY JoinAll, Zenon
  <2> HIDE DEF F
  <2>n. Len(ss) # 0
    BY <1>4
  <2>2. Joined(F, ss, S, Len(ss))
    BY <2>n, <2>1, JoinHolds, Zenon
  <2> QED BY <1>1, <1>2, <1>4, <2>2, Zenon DEF Joined
<1> QED BY <1>3, <1>4

\* What an element of a body can be, and what the parser can make of it.
ElementsOfJSON == Parser!JSONObjects \union {Parser!NotObject}
Texts == STRING \union {Parser!Blank, "text"}
EventsMade == {Parser!Event(o, a, r) : o \in Parser!JSONObjects, a \in Texts, r \in Texts}

\* The least element is the one CHOOSE finds.
LEMMA MinIs ==
    ASSUME NEW T \in SUBSET Nat, NEW m \in T, \A k \in T : m <= k
    PROVE  (CHOOSE x \in T : \A y \in T : x <= y) = m
<1>1. \A k \in T : k <= m => k = m
  OBVIOUS
<1>2. \A x \in T : (\A y \in T : x <= y) => x = m
  BY <1>1
<1> QED BY <1>2, Zenon

\* The first text that is stated.
LEMMA FirstIs ==
    ASSUME NEW s, NEW n \in Nat, DOMAIN s = 1..n, NEW m \in 1..n, s[m] # Parser!Blank,
           \A k \in 1..m - 1 : s[k] = Parser!Blank
    PROVE  Parser!FirstText(s) = s[m]
<1> DEFINE T == {i \in DOMAIN s : s[i] # Parser!Blank}
<1>1. T \in SUBSET Nat /\ m \in T
  OBVIOUS
<1>2. \A k \in T : m <= k
  OBVIOUS
<1>3. (CHOOSE x \in T : \A y \in T : x <= y) = m
  <2> HIDE DEF T
  <2> QED BY <1>1, <1>2, MinIs, Zenon
<1>4. T # {}
  BY <1>1
<1> QED BY <1>3, <1>4, Zenon DEF Parser!FirstText

\* None is stated.
LEMMA FirstIsBlank ==
    ASSUME NEW s, \A k \in DOMAIN s : s[k] = Parser!Blank PROVE Parser!FirstText(s) = Parser!Blank
<1>1. {i \in DOMAIN s : s[i] # Parser!Blank} = {}
  OBVIOUS
<1> QED BY <1>1, Zenon DEF Parser!FirstText

\* The first of two texts.
LEMMA FirstOfTwo ==
    ASSUME NEW a, NEW b PROVE Parser!FirstText(<<a, b>>) = IF a # Parser!Blank THEN a ELSE b
<1> DEFINE s == <<a, b>>
<1>0. DOMAIN s = 1..2 /\ s[1] = a /\ s[2] = b
  OBVIOUS
<1>d. 1..2 = {1, 2} /\ 2 \in Nat /\ 1..1 - 1 = {} /\ 1..2 - 1 = {1}
  OBVIOUS
<1> HIDE DEF s
<1>1. CASE a # Parser!Blank
  <2>1. Parser!FirstText(s) = s[1]
    BY <1>0, <1>1, <1>d, FirstIs, Zenon
  <2> QED BY <1>0, <1>1, <2>1 DEF s
<1>2. CASE a = Parser!Blank /\ b # Parser!Blank
  <2>1. 2 \in 1..2 /\ s[2] # Parser!Blank /\ \A k \in 1..2 - 1 : s[k] = Parser!Blank
    BY <1>0, <1>2, <1>d
  <2>2. Parser!FirstText(s) = s[2]
    BY <1>0, <1>d, <2>1, FirstIs, Zenon
  <2> QED BY <1>0, <1>2, <2>2 DEF s
<1>3. CASE a = Parser!Blank /\ b = Parser!Blank
  <2>1. Parser!FirstText(s) = Parser!Blank
    BY <1>0, <1>3, <1>d, FirstIsBlank, Zenon
  <2> QED BY <1>0, <1>3, <2>1 DEF s
<1> QED BY <1>1, <1>2, <1>3

\* The first of five texts.
LEMMA FirstOfFive ==
    ASSUME NEW a, NEW b, NEW c, NEW d, NEW e, e # Parser!Blank
    PROVE  Parser!FirstText(<<a, b, c, d, e>>)
             = IF a # Parser!Blank THEN a ELSE IF b # Parser!Blank THEN b ELSE IF c # Parser!Blank THEN c
               ELSE IF d # Parser!Blank THEN d ELSE e
<1> DEFINE s == <<a, b, c, d, e>>
<1>0. DOMAIN s = 1..5 /\ s[1] = a /\ s[2] = b /\ s[3] = c /\ s[4] = d /\ s[5] = e
  OBVIOUS
<1>d. /\ 1..5 = {1, 2, 3, 4, 5} /\ 5 \in Nat /\ 1..1 - 1 = {} /\ 1..2 - 1 = {1}
      /\ 1..3 - 1 = {1, 2} /\ 1..4 - 1 = {1, 2, 3} /\ 1..5 - 1 = {1, 2, 3, 4}
  OBVIOUS
<1> HIDE DEF s
<1>f. ASSUME NEW m \in {1, 2, 3, 4, 5}, s[m] # Parser!Blank, \A k \in 1..m - 1 : s[k] = Parser!Blank
      PROVE  Parser!FirstText(s) = s[m]
  BY <1>0, <1>d, <1>f, FirstIs, Zenon
<1>1. CASE a # Parser!Blank
  <2>1. Parser!FirstText(s) = s[1]
    BY <1>0, <1>1, <1>d, <1>f, Zenon
  <2> QED BY <1>0, <1>1, <2>1 DEF s
<1>2. CASE a = Parser!Blank /\ b # Parser!Blank
  <2>1. s[2] # Parser!Blank /\ \A k \in 1..2 - 1 : s[k] = Parser!Blank
    BY <1>0, <1>2, <1>d
  <2>2. Parser!FirstText(s) = s[2]
    BY <1>f, <2>1, Zenon
  <2> QED BY <1>0, <1>2, <2>2 DEF s
<1>3. CASE a = Parser!Blank /\ b = Parser!Blank /\ c # Parser!Blank
  <2>1. Parser!FirstText(s) = s[3]
    BY <1>0, <1>3, <1>d, <1>f, Zenon
  <2> QED BY <1>0, <1>3, <2>1 DEF s
<1>4. CASE a = Parser!Blank /\ b = Parser!Blank /\ c = Parser!Blank /\ d # Parser!Blank
  <2>1. Parser!FirstText(s) = s[4]
    BY <1>0, <1>4, <1>d, <1>f, Zenon
  <2> QED BY <1>0, <1>4, <2>1 DEF s
<1>5. CASE a = Parser!Blank /\ b = Parser!Blank /\ c = Parser!Blank /\ d = Parser!Blank
  <2>1. Parser!FirstText(s) = s[5]
    BY <1>0, <1>5, <1>d, <1>f, Zenon
  <2> QED BY <1>0, <1>5, <2>1 DEF s
<1> QED BY <1>1, <1>2, <1>3, <1>4, <1>5

\* The texts the code compares with are not blank.
LEMMA BlankIsNone ==
    Parser!Blank \notin {"bounce_permanent", "bounce_temporary", "bounce_unclassified", "bounce",
                         "complaint", "unsubscribe", "unknown", "hard_bounce", "soft_bounce",
                         "dropped", "permanent", "hard", "5.x", "transient", "temporary", "soft",
                         "4.x"}
<1>1. Parser!Blank = ""
  BY Zenon DEF Parser!Blank
<1>2. "" \notin {"bounce_permanent", "bounce_temporary", "bounce_unclassified", "bounce",
                "complaint", "unsubscribe", "unknown", "hard_bounce", "soft_bounce",
                "dropped", "permanent", "hard", "5.x", "transient", "temporary", "soft",
                "4.x"}
  BY Zenon
<1> QED BY <1>1, <1>2, Zenon

\* What the fields say of the class of a bounce.
SesClass(o) ==
    IF o.bounce = Parser!None THEN Parser!Blank
    ELSE Parser!Class(o.bounce.kind, {"permanent", "hard"}, {"transient", "temporary", "soft"})
MailgunClass(o) ==
    IF o.data = Parser!None THEN Parser!Blank
    ELSE Parser!Class(o.data.severity, {"permanent"}, {"temporary"})
PostmarkClass(o) ==
    IF Parser!RawType(o) = "bounce" THEN Parser!Class(o.postmark, {"hard"}, {"soft", "transient"})
    ELSE Parser!Blank

\* The type of an event: its name, or the first field that states a class.
LEMMA TypeIs ==
    ASSUME NEW o
    PROVE  LET b == SesClass(o)
               d == MailgunClass(o)
               s == Parser!ClassifyEnhancedSMTPStatus(o.status)
               p == PostmarkClass(o)
               w == Parser!RawType(o)
           IN Parser!EventType(o)
                = IF w \notin {"bounce", "dropped"} THEN Parser!NormalizeWebhookEventType(w)
                  ELSE IF b # Parser!Blank THEN b ELSE IF d # Parser!Blank THEN d
                  ELSE IF s # Parser!Blank THEN s ELSE IF p # Parser!Blank THEN p
                  ELSE "bounce_unclassified"
<1> DEFINE b == SesClass(o)
           d == MailgunClass(o)
           s == Parser!ClassifyEnhancedSMTPStatus(o.status)
           p == PostmarkClass(o)
           w == Parser!RawType(o)
           t == Parser!NormalizeWebhookEventType(w)
<1>1. w \in {"bounce", "dropped"} <=> t = "bounce_unclassified"
  BY BlankIsNone DEF Parser!NormalizeWebhookEventType
<1>2. Parser!EventType(o) = IF t # "bounce_unclassified" THEN t
                            ELSE Parser!FirstText(<<b, d, s, p, t>>)
  BY Zenon DEF Parser!EventType, Parser!ClassifyProviderBounce, SesClass, MailgunClass, PostmarkClass
<1> HIDE DEF b, d, s, p, t, w
<1>3. ASSUME t = "bounce_unclassified"
      PROVE  Parser!FirstText(<<b, d, s, p, t>>)
               = IF b # Parser!Blank THEN b ELSE IF d # Parser!Blank THEN d
                 ELSE IF s # Parser!Blank THEN s ELSE IF p # Parser!Blank THEN p ELSE t
  <2>1. t # Parser!Blank
    BY <1>3, BlankIsNone
  <2> QED BY <2>1, FirstOfFive
<1>4. Parser!EventType(o)
        = IF w \notin {"bounce", "dropped"} THEN t
          ELSE IF b # Parser!Blank THEN b ELSE IF d # Parser!Blank THEN d
          ELSE IF s # Parser!Blank THEN s ELSE IF p # Parser!Blank THEN p
          ELSE "bounce_unclassified"
  BY <1>1, <1>2, <1>3, Zenon
<1> QED BY <1>4, Zenon DEF b, d, s, p, t, w

\* A statement is permanent, temporary or none, in the words of its place.
Says(o, i) ==
    IF Parser!Statements(o)[i] \in Parser!PermanentWords[i] THEN "bounce_permanent"
    ELSE IF Parser!Statements(o)[i] \in Parser!TemporaryWords[i] THEN "bounce_temporary"
    ELSE Parser!Blank

\* The fields of the code are the statements after the name, in the same order.
LEMMA FieldsSay ==
    ASSUME NEW o
    PROVE  /\ SesClass(o) = Says(o, 2) /\ MailgunClass(o) = Says(o, 3)
           /\ Parser!ClassifyEnhancedSMTPStatus(o.status) = Says(o, 4)
           /\ PostmarkClass(o) = Says(o, 5)
<1> DEFINE kind == IF o.bounce = Parser!None THEN Parser!Blank ELSE o.bounce.kind
           severity == IF o.data = Parser!None THEN Parser!Blank ELSE o.data.severity
           postmark == IF Parser!RawType(o) = "bounce" THEN o.postmark ELSE Parser!Blank
<1>1. Parser!Statements(o) = <<Parser!RawType(o), kind, severity, o.status, postmark>>
  BY Zenon DEF Parser!Statements
<1>2. /\ SesClass(o) = Parser!Class(kind, {"permanent", "hard"}, {"transient", "temporary", "soft"})
      /\ MailgunClass(o) = Parser!Class(severity, {"permanent"}, {"temporary"})
      /\ PostmarkClass(o) = Parser!Class(postmark, {"hard"}, {"soft", "transient"})
  BY BlankIsNone DEF SesClass, MailgunClass, PostmarkClass, Parser!Class
<1> HIDE DEF kind, severity, postmark
<1>3. SesClass(o) = Says(o, 2)
  BY <1>1, <1>2 DEF Says, Parser!Class, Parser!PermanentWords, Parser!TemporaryWords
<1>4. MailgunClass(o) = Says(o, 3)
  BY <1>1, <1>2 DEF Says, Parser!Class, Parser!PermanentWords, Parser!TemporaryWords
<1>5. Parser!ClassifyEnhancedSMTPStatus(o.status) = Says(o, 4)
  BY <1>1 DEF Says, Parser!ClassifyEnhancedSMTPStatus, Parser!PermanentWords, Parser!TemporaryWords
<1>6. PostmarkClass(o) = Says(o, 5)
  BY <1>1, <1>2 DEF Says, Parser!Class, Parser!PermanentWords, Parser!TemporaryWords
<1> QED BY <1>3, <1>4, <1>5, <1>6

\* No text is both.
LEMMA WordsDiffer ==
    \A i \in 1..5 : Parser!PermanentWords[i] \intersect Parser!TemporaryWords[i] = {}
  BY DEF Parser!PermanentWords, Parser!TemporaryWords

\* The parser never writes the type that a replay judges by its reason.
LEMMA TypeIsKnown ==
    ASSUME NEW o PROVE Parser!EventType(o) \notin {"bounce", "unknown"}
<1>1. \A i : Says(o, i) \in {"bounce_permanent", "bounce_temporary", Parser!Blank}
  BY DEF Says
<1> QED BY <1>1, TypeIs, FieldsSay, BlankIsNone DEF Parser!NormalizeWebhookEventType

\* The name is the first statement; only it can be of a word that is a class.
LEMMA NameSays ==
    ASSUME NEW o
    PROVE  LET w == Parser!RawType(o) IN
           /\ Says(o, 1) = IF w = "hard_bounce" THEN "bounce_permanent"
                           ELSE IF w = "soft_bounce" THEN "bounce_temporary" ELSE Parser!Blank
           /\ w \in {"hard_bounce", "soft_bounce"}
                => Parser!NormalizeWebhookEventType(w) = Says(o, 1)
<1>1. Parser!Statements(o)[1] = Parser!RawType(o)
  BY DEF Parser!Statements
<1> QED BY <1>1, BlankIsNone
        DEF Says, Parser!PermanentWords, Parser!TemporaryWords, Parser!NormalizeWebhookEventType

\* A bounce is permanent if the first place that states a class says so.
LEMMA PermanentIs ==
    ASSUME NEW o
    PROVE  Parser!Permanent(o) <=>
             /\ Parser!RawType(o) \in Parser!Bounces
             /\ \E i \in 1..5 : /\ Says(o, i) = "bounce_permanent"
                                /\ \A j \in 1..(i - 1) : Says(o, j) # "bounce_temporary"
<1>1. \A i \in 1..5 :
        /\ Says(o, i) = "bounce_permanent" <=> Parser!Statements(o)[i] \in Parser!PermanentWords[i]
        /\ Says(o, i) = "bounce_temporary" <=> Parser!Statements(o)[i] \in Parser!TemporaryWords[i]
  BY WordsDiffer, BlankIsNone DEF Says
<1>2. \A i \in 1..5 : \A j \in 1..(i - 1) : j \in 1..5
  OBVIOUS
<1> QED BY <1>1, <1>2, Zenon DEF Parser!Permanent

\* An object gets the type of a permanent bounce exactly if it is one.
LEMMA TypedAsStated ==
    ASSUME NEW o
    PROVE  /\ Parser!RawType(o) \in {"complaint", "unsubscribe"}
                => Parser!EventType(o) = Parser!RawType(o)
           /\ Parser!EventType(o) = "complaint" => Parser!RawType(o) = "complaint"
           /\ Parser!EventType(o) = "bounce_permanent" <=> Parser!Permanent(o)
<1> DEFINE w == Parser!RawType(o)
           type == Parser!EventType(o)
           v(i) == Says(o, i)
<1>1. \A i : v(i) \in {"bounce_permanent", "bounce_temporary", Parser!Blank}
  BY DEF Says
<1>2. type = IF w \notin {"bounce", "dropped"} THEN Parser!NormalizeWebhookEventType(w)
             ELSE IF v(2) # Parser!Blank THEN v(2) ELSE IF v(3) # Parser!Blank THEN v(3)
             ELSE IF v(4) # Parser!Blank THEN v(4) ELSE IF v(5) # Parser!Blank THEN v(5)
             ELSE "bounce_unclassified"
  BY TypeIs, FieldsSay
<1>3. /\ v(1) = IF w = "hard_bounce" THEN "bounce_permanent"
                ELSE IF w = "soft_bounce" THEN "bounce_temporary" ELSE Parser!Blank
      /\ w \in {"hard_bounce", "soft_bounce"} => Parser!NormalizeWebhookEventType(w) = v(1)
  BY NameSays
<1>4. Parser!Permanent(o) <=>
        /\ w \in {"hard_bounce", "soft_bounce", "bounce", "dropped"}
        /\ \/ v(1) = "bounce_permanent"
           \/ v(2) = "bounce_permanent" /\ v(1) # "bounce_temporary"
           \/ /\ v(3) = "bounce_permanent"
              /\ v(1) # "bounce_temporary" /\ v(2) # "bounce_temporary"
           \/ /\ v(4) = "bounce_permanent"
              /\ v(1) # "bounce_temporary" /\ v(2) # "bounce_temporary" /\ v(3) # "bounce_temporary"
           \/ /\ v(5) = "bounce_permanent"
              /\ v(1) # "bounce_temporary" /\ v(2) # "bounce_temporary" /\ v(3) # "bounce_temporary"
              /\ v(4) # "bounce_temporary"
  <2> HIDE DEF v
  <2>1. Parser!Permanent(o) <=>
          /\ w \in Parser!Bounces
          /\ \E i \in 1..5 : v(i) = "bounce_permanent" /\ \A j \in 1..(i - 1) : v(j) # "bounce_temporary"
    BY PermanentIs DEF v
  <2> QED BY <2>1, SMTT(30) DEF Parser!Bounces
<1> DEFINE Agrees == /\ w \in {"complaint", "unsubscribe"} => type = w
                     /\ type = "complaint" => w = "complaint"
                     /\ type = "bounce_permanent" <=> Parser!Permanent(o)
<1> HIDE DEF v, type, w
<1>5. ASSUME w \in {"bounce", "dropped"} PROVE Agrees
  <2>1. v(1) = Parser!Blank
    BY <1>3, <1>5
  <2> QED BY <1>1, <1>2, <1>4, <1>5, <2>1, BlankIsNone
<1>6. ASSUME w \in {"hard_bounce", "soft_bounce"} PROVE Agrees
  <2>1. type = v(1) /\ v(1) \in {"bounce_permanent", "bounce_temporary"}
    BY <1>2, <1>3, <1>6
  <2> QED BY <1>4, <1>6, <2>1
<1>7. ASSUME w \notin {"hard_bounce", "soft_bounce", "bounce", "dropped"} PROVE Agrees
  <2>1. /\ type = Parser!NormalizeWebhookEventType(w) /\ ~Parser!Permanent(o)
    BY <1>2, <1>4, <1>7
  <2> QED BY <1>7, <2>1, BlankIsNone DEF Parser!NormalizeWebhookEventType
<1> QED
  <2>1. Agrees
    BY <1>5, <1>6, <1>7
  <2> QED BY <2>1, Zenon DEF Agrees, w, type

\* An event is made of an object: its type, one of those it is about, the object's identity.
Made(o, e) ==
    /\ e.type = Parser!EventType(o) /\ e.email \in Parser!About(o)
    /\ e.ident = Parser!ProviderWebhookIdentity(o, e.type, e.email)

\* The fields of an event.
LEMMA EventIs ==
    ASSUME NEW o, NEW a, NEW r
    PROVE  /\ Parser!Event(o, a, r).type = Parser!EventType(o)
           /\ Parser!Event(o, a, r).email = a
           /\ Parser!Event(o, a, r).ident = Parser!ProviderWebhookIdentity(o, Parser!EventType(o), a)
BY DEF Parser!Event

\* An object states its reason and its address in texts.
LEMMA FieldsAreTexts ==
    ASSUME NEW o \in Parser!JSONObjects
    PROVE  /\ Parser!FirstText(<<o.reason, Parser!ReasonFromNestedObjects(o)>>) \in Texts
           /\ Parser!FirstText(<<o.email, Parser!EmailFromNestedObjects(o)>>) \in Texts
<1>t. \A a, b \in Texts : Parser!FirstText(<<a, b>>) \in Texts
  BY FirstOfTwo, Zenon
<1>1. o.reason \in Texts /\ o.email \in Texts /\ o.destination \in Texts
  BY DEF Parser!JSONObjects, Texts
<1>2. o.bounce # Parser!None => o.bounce.kind \in Texts
  BY DEF Parser!JSONObjects, Texts
<1>3. o.data # Parser!None => o.data.reason \in Texts /\ o.data.email \in Texts
  BY DEF Parser!JSONObjects, Texts
<1>4. Parser!Blank \in Texts
  BY DEF Texts
<1>5. PICK k \in Texts : k = IF o.bounce = Parser!None THEN Parser!Blank ELSE o.bounce.kind
  BY <1>2, <1>4, Zenon
<1>6. PICK r \in Texts : r = IF o.data = Parser!None THEN Parser!Blank ELSE o.data.reason
  BY <1>3, <1>4, Zenon
<1>7. PICK e \in Texts : e = IF o.data = Parser!None THEN Parser!Blank ELSE o.data.email
  BY <1>3, <1>4, Zenon
<1>8. Parser!ReasonFromNestedObjects(o) \in Texts
  <2>1. Parser!ReasonFromNestedObjects(o) = Parser!FirstText(<<k, r>>)
    BY <1>5, <1>6, Zenon DEF Parser!ReasonFromNestedObjects
  <2> QED BY <1>t, <2>1, Zenon
<1>9. Parser!EmailFromNestedObjects(o) \in Texts
  <2>1. Parser!EmailFromNestedObjects(o) = Parser!FirstText(<<o.destination, e>>)
    BY <1>7, Zenon DEF Parser!EmailFromNestedObjects
  <2> QED BY <1>t, <1>1, <2>1, Zenon
<1> QED BY <1>t, <1>1, <1>8, <1>9, Zenon

\* The events of an object are made of it, and all it is about have theirs.
LEMMA ParsedObject ==
    ASSUME NEW o \in Parser!JSONObjects
    PROVE  /\ Parser!ParseWebhookEventObject(o) \in Seq(EventsMade)
           /\ \A e : Has(Parser!ParseWebhookEventObject(o), e) => Made(o, e)
           /\ Parser!EventType(o) # Parser!Blank =>
                \A a \in Parser!About(o) :
                    \E e : Has(Parser!ParseWebhookEventObject(o), e) /\ e.email = a
<1> DEFINE reason == Parser!FirstText(<<o.reason, Parser!ReasonFromNestedObjects(o)>>)
           email == Parser!FirstText(<<o.email, Parser!EmailFromNestedObjects(o)>>)
           rs == Parser!SesBouncedRecipients(o)
<1>0. reason \in Texts /\ email \in Texts
  BY FieldsAreTexts, Zenon
<1>m. ASSUME NEW a \in Parser!About(o), NEW r PROVE Made(o, Parser!Event(o, a, r))
  BY EventIs DEF Made
<1>1. CASE rs = <<>>
  <2>1. Parser!About(o) = {email} \ {Parser!Blank}
    BY <1>1, Zenon DEF Parser!About
  <2>2. Parser!ParseWebhookEventObject(o)
          = IF Parser!EventType(o) = Parser!Blank \/ email = Parser!Blank THEN <<>>
            ELSE <<Parser!Event(o, email, reason)>>
    BY <1>1, Zenon DEF Parser!ParseWebhookEventObject
  <2> HIDE DEF reason, email, rs
  <2>3. CASE Parser!EventType(o) = Parser!Blank \/ email = Parser!Blank
    <3>1. Parser!ParseWebhookEventObject(o) = <<>>
      BY <2>2, <2>3, Zenon
    <3>2. <<>> \in Seq(EventsMade)
      OBVIOUS
    <3>3. \A e : ~Has(<<>>, e)
      BY HasNone
    <3>4. Parser!EventType(o) # Parser!Blank => Parser!About(o) = {}
      BY <2>1, <2>3
    <3> QED BY <3>1, <3>2, <3>3, <3>4, Zenon
  <2>4. CASE ~(Parser!EventType(o) = Parser!Blank \/ email = Parser!Blank)
    <3>1. Parser!ParseWebhookEventObject(o) = <<Parser!Event(o, email, reason)>>
      BY <2>2, <2>4, Zenon
    <3>2. \A x : Has(<<Parser!Event(o, email, reason)>>, x) <=> x = Parser!Event(o, email, reason)
      BY HasOne, Zenon
    <3>3. Parser!Event(o, email, reason) \in EventsMade
      BY <1>0 DEF EventsMade
    <3>4. <<Parser!Event(o, email, reason)>> \in Seq(EventsMade)
      BY <3>3, HasOne, Zenon
    <3>5. Parser!About(o) = {email}
      BY <2>1, <2>4
    <3>6. Made(o, Parser!Event(o, email, reason))
      BY <1>m, <3>5, Zenon
    <3>7. Parser!Event(o, email, reason).email = email
      BY EventIs, Zenon
    <3> QED BY <3>1, <3>2, <3>4, <3>5, <3>6, <3>7, Zenon
  <2> QED BY <2>3, <2>4
<1>2. CASE rs # <<>>
  <2> DEFINE of(i) == Parser!Event(o, rs[i].email, IF rs[i].diagnostic THEN "text" ELSE reason)
             ss == [i \in DOMAIN rs |-> IF rs[i].email = Parser!Blank THEN <<>> ELSE <<of(i)>>]
  <2>1. Parser!ParseWebhookEventObject(o) = Parser!Join(ss)
    BY <1>2, Zenon DEF Parser!ParseWebhookEventObject
  <2>2. Parser!About(o) = {rs[i].email : i \in DOMAIN rs} \ {Parser!Blank}
    BY <1>2, Zenon DEF Parser!About
  <2>3. rs \in Seq([email : STRING, diagnostic : BOOLEAN])
    <3>1. o.bounce = Parser!None \/ o.bounce.recipients \in Seq([email : STRING, diagnostic : BOOLEAN])
      <4>1. o.bounce \in {Parser!None}
              \union [kind : STRING, recipients : Seq([email : STRING, diagnostic : BOOLEAN])]
        BY Zenon DEF Parser!JSONObjects
      <4> QED BY <4>1, Zenon
    <3> QED BY <1>2, <3>1, Zenon DEF Parser!SesBouncedRecipients
  <2> HIDE DEF reason, email, rs
  <2>4. \A i \in DOMAIN rs : rs[i].email \in Texts
    <3>1. \A i \in DOMAIN rs : rs[i] \in [email : STRING, diagnostic : BOOLEAN]
      <4> DEFINE R == [email : STRING, diagnostic : BOOLEAN]
      <4>1. rs \in Seq(R)
        BY <2>3, Zenon
      <4> HIDE DEF R
      <4>2. \A i \in DOMAIN rs : rs[i] \in R
        BY <4>1
      <4> QED BY <4>2, Zenon DEF R
    <3> QED BY <3>1, Zenon DEF Texts
  <2>5. "text" \in Texts
    BY Zenon DEF Texts
  <2>6. \A i \in DOMAIN rs : of(i) \in EventsMade /\ of(i).email = rs[i].email
    <3> TAKE i \in DOMAIN rs
    <3>1. PICK r \in Texts : r = IF rs[i].diagnostic THEN "text" ELSE reason
      BY <1>0, <2>5, Zenon
    <3>2. Parser!Event(o, rs[i].email, r) \in EventsMade
      BY <2>4 DEF EventsMade
    <3>3. Parser!Event(o, rs[i].email, r).email = rs[i].email
      BY EventIs
    <3> QED BY <3>1, <3>2, <3>3, Zenon
  <2>7. \A i \in DOMAIN rs : rs[i].email # Parser!Blank => Made(o, of(i))
    BY <1>m, <2>2, Zenon
  <2> HIDE DEF of
  <2>8. /\ DOMAIN ss = DOMAIN rs
        /\ \A i \in DOMAIN rs : ss[i] = IF rs[i].email = Parser!Blank THEN <<>> ELSE <<of(i)>>
    BY Zenon
  <2>9. ss \in Seq(Seq(EventsMade))
    <3>1. \A i \in DOMAIN rs : ss[i] \in Seq(EventsMade)
      <4>1. <<>> \in Seq(EventsMade)
        OBVIOUS
      <4>2. \A i \in DOMAIN rs : <<of(i)>> \in Seq(EventsMade)
        BY <2>6, HasOne, Zenon
      <4> QED BY <2>8, <4>1, <4>2, Zenon
    <3>2. DOMAIN rs = 1..Len(rs) /\ Len(rs) \in Nat
      BY <2>3
    <3>3. ss \in [1..Len(rs) -> Seq(EventsMade)]
      BY <2>8, <3>1, <3>2, Zenon
    <3> HIDE DEF ss
    <3> QED BY <3>2, <3>3, FunctionIsSeq, Zenon
  <2>10. \A i \in DOMAIN rs : \A x : Has(ss[i], x) <=> rs[i].email # Parser!Blank /\ x = of(i)
    <3>1. \A x : ~Has(<<>>, x)
      BY HasNone
    <3>2. \A y, x : Has(<<y>>, x) <=> x = y
      BY HasOne, Zenon
    <3> QED BY <2>8, <3>1, <3>2, Zenon
  <2> HIDE DEF ss
  <2>11. /\ Parser!Join(ss) \in Seq(EventsMade)
         /\ \A x : Has(Parser!Join(ss), x) <=> \E i \in DOMAIN ss : Has(ss[i], x)
    BY <2>9, Flattened, Zenon
  <2>12. \A x : Has(Parser!Join(ss), x)
                  <=> \E i \in DOMAIN rs : rs[i].email # Parser!Blank /\ x = of(i)
    BY <2>8, <2>10, <2>11, Zenon
  <2>13. \A e : Has(Parser!Join(ss), e) => Made(o, e)
    BY <2>7, <2>12, Zenon
  <2>14. \A a \in Parser!About(o) : \E e : Has(Parser!Join(ss), e) /\ e.email = a
    <3> TAKE a \in Parser!About(o)
    <3>1. PICK i \in DOMAIN rs : a = rs[i].email /\ rs[i].email # Parser!Blank
      BY <2>2, Zenon
    <3>2. Has(Parser!Join(ss), of(i)) /\ of(i).email = a
      BY <2>6, <2>12, <3>1, Zenon
    <3> QED BY <3>2, Zenon
  <2> QED BY <2>1, <2>11, <2>13, <2>14, Zenon
<1> QED BY <1>1, <1>2

\* The events of a body are made of its objects, and all they are about have theirs.
LEMMA ParsedBody ==
    ASSUME NEW b \in Seq(ElementsOfJSON)
    PROVE  /\ Parser!ParseWebhookEvents(b).events \in Seq(EventsMade)
           /\ \A e : Has(Parser!ParseWebhookEvents(b).events, e)
                       => \E i \in DOMAIN b : b[i] # Parser!NotObject /\ Made(b[i], e)
           /\ \A i \in DOMAIN b : b[i] # Parser!NotObject /\ Parser!EventType(b[i]) # Parser!Blank =>
                \A a \in Parser!About(b[i]) : \E e :
                    /\ Has(Parser!ParseWebhookEvents(b).events, e)
                    /\ e.type = Parser!EventType(b[i]) /\ e.email = a
<1> DEFINE ss == [i \in DOMAIN b |-> IF b[i] = Parser!NotObject THEN <<>>
                                     ELSE Parser!ParseWebhookEventObject(b[i])]
<1>1. Parser!ParseWebhookEvents(b).events = Parser!Join(ss)
  BY Zenon DEF Parser!ParseWebhookEvents
<1>2. /\ DOMAIN ss = DOMAIN b
      /\ \A i \in DOMAIN b : ss[i] = IF b[i] = Parser!NotObject THEN <<>>
                                     ELSE Parser!ParseWebhookEventObject(b[i])
  BY Zenon
<1> HIDE DEF ss
<1>3. \A i \in DOMAIN b : b[i] # Parser!NotObject => b[i] \in Parser!JSONObjects
  <2>1. \A i \in DOMAIN b : b[i] \in ElementsOfJSON
    BY SMTT(30)
  <2> QED BY <2>1, Zenon DEF ElementsOfJSON
<1>4. ASSUME NEW i \in DOMAIN b
      PROVE  /\ ss[i] \in Seq(EventsMade)
             /\ \A e : Has(ss[i], e) => b[i] # Parser!NotObject /\ Made(b[i], e)
             /\ b[i] # Parser!NotObject /\ Parser!EventType(b[i]) # Parser!Blank =>
                  \A a \in Parser!About(b[i]) : \E e : Has(ss[i], e) /\ e.email = a
  <2>1. CASE b[i] = Parser!NotObject
    <3>1. ss[i] = <<>>
      BY <1>2, <2>1, Zenon
    <3>2. <<>> \in Seq(EventsMade)
      OBVIOUS
    <3> QED BY <2>1, <3>1, <3>2, HasNone, Zenon
  <2>2. CASE b[i] # Parser!NotObject
    <3>1. ss[i] = Parser!ParseWebhookEventObject(b[i])
      BY <1>2, <2>2, Zenon
    <3>2. b[i] \in Parser!JSONObjects
      BY <1>3, <2>2, Zenon
    <3>3. /\ ss[i] \in Seq(EventsMade)
          /\ \A e : Has(ss[i], e) => Made(b[i], e)
          /\ Parser!EventType(b[i]) # Parser!Blank =>
               \A a \in Parser!About(b[i]) : \E e : Has(ss[i], e) /\ e.email = a
      <4>1. PICK o \in Parser!JSONObjects : o = b[i]
        BY <3>2
      <4>2. ss[i] = Parser!ParseWebhookEventObject(o)
        BY <3>1, <4>1, Zenon
      <4>3. /\ ss[i] \in Seq(EventsMade)
            /\ \A e : Has(ss[i], e) => Made(o, e)
            /\ Parser!EventType(o) # Parser!Blank =>
                 \A a \in Parser!About(o) : \E e : Has(ss[i], e) /\ e.email = a
        BY <4>2, ParsedObject
      <4> QED BY <4>1, <4>3, Zenon
    <3> QED BY <2>2, <3>3, Zenon
  <2> QED BY <2>1, <2>2
<1>5. ss \in Seq(Seq(EventsMade))
  <2>1. DOMAIN b = 1..Len(b) /\ Len(b) \in Nat
    OBVIOUS
  <2>2. ss \in [1..Len(b) -> Seq(EventsMade)]
    <3>1. ss = [i \in DOMAIN b |-> ss[i]]
      BY Zenon DEF ss
    <3> QED BY <1>2, <1>4, <2>1, <3>1, Zenon
  <2> QED BY <2>1, <2>2, FunctionIsSeq, Zenon
<1>6. /\ Parser!Join(ss) \in Seq(EventsMade)
      /\ \A x : Has(Parser!Join(ss), x) <=> \E i \in DOMAIN b : Has(ss[i], x)
  BY <1>2, <1>5, Flattened, Zenon
<1>7. \A e : Has(Parser!Join(ss), e)
               => \E i \in DOMAIN b : b[i] # Parser!NotObject /\ Made(b[i], e)
  BY <1>4, <1>6, Zenon
<1>8. ASSUME NEW i \in DOMAIN b, b[i] # Parser!NotObject, Parser!EventType(b[i]) # Parser!Blank,
             NEW a \in Parser!About(b[i])
      PROVE  \E e : /\ Has(Parser!Join(ss), e)
                    /\ e.type = Parser!EventType(b[i]) /\ e.email = a
  <2>1. PICK e : Has(ss[i], e) /\ e.email = a
    BY <1>4, <1>8, Zenon
  <2>2. Made(b[i], e) /\ Has(Parser!Join(ss), e)
    BY <1>4, <1>6, <2>1, Zenon
  <2>3. e.type = Parser!EventType(b[i])
    BY <2>2, Zenon DEF Made
  <2> QED BY <2>1, <2>2, <2>3, Zenon
<1> QED BY <1>1, <1>6, <1>7, <1>8, Zenon

----------------------------------------------------------------------------
(* The deliveries.                                                         *)

\* What is still to be stored comes from the body in progress, which was delivered.
Received ==
    /\ coming \in Seq(Seq(ElementsOfJSON)) /\ body \in Seq(ElementsOfJSON)
    /\ todo \in Seq(EventsMade)
    /\ body # <<>> => body \in delivered
    /\ \A e : Has(todo, e) => \E i \in DOMAIN body : body[i] # Parser!NotObject /\ Made(body[i], e)

\* With these lists an event of this type about this address has had its effect.
Reaches(l, u, type, a) ==
    /\ type \in {"bounce_permanent", "complaint"} => a \in l
    /\ type = "unsubscribe" => a \in u

Carried(type, a) == Reaches(listed, left, type, a)

\* The key of a row tells its type and its address, unless it is a dead letter without one.
Keyed(row) ==
    \/ row.key.body = <<>> /\ row.key.ident[2] = row.type /\ row.key.ident[3] = row.email
    \/ row.key.body # <<>> /\ row.key.ident[1] = row.type /\ row.key.ident[2] = row.email
    \/ row.key.ident[1] = "unknown" /\ row.key.ident[2] = Parser!Blank

Logged(row) ==
    /\ row = [key |-> row.key, type |-> row.type, email |-> row.email, reason |-> row.reason,
              status |-> row.status]
    /\ row.type # "bounce" /\ Keyed(row)

\* What is logged has had its effect.
Effected == \A row \in log : Logged(row) /\ Carried(row.type, row.email)

\* Everyone a body is about has been reached, or is still to be with one of these events.
Kept(l, u, b) ==
    \A i \in DOMAIN b : b[i] # Parser!NotObject =>
        \A a \in Parser!About(b[i]) : Reaches(l, u, Parser!EventType(b[i]), a)

Open(l, u, b, events) ==
    \A i \in DOMAIN b : b[i] # Parser!NotObject =>
        \A a \in Parser!About(b[i]) :
            \/ Reaches(l, u, Parser!EventType(b[i]), a)
            \/ \E e : Has(events, e) /\ e.type = Parser!EventType(b[i]) /\ e.email = a

\* Those the body in progress is about have been reached or are still to be; those of the
\* answered bodies have been.
Promised == Open(listed, left, body, todo) /\ \A b \in answered : Kept(listed, left, b)

\* The rest of a sequence holds what is not its head.
LEMMA HasTail ==
    ASSUME NEW S, NEW s \in Seq(S), s # <<>>
    PROVE  /\ Head(s) \in S /\ Tail(s) \in Seq(S) /\ Has(s, Head(s))
           /\ \A x : Has(s, x) <=> x = Head(s) \/ Has(Tail(s), x)
<1>1. Head(s) \in S /\ Tail(s) \in Seq(S) /\ 1 \in DOMAIN s /\ s[1] = Head(s)
  OBVIOUS
<1>2. Has(s, Head(s))
  BY <1>1, Zenon DEF Has
<1>3. ASSUME NEW k \in DOMAIN s, k # 1 PROVE k - 1 \in DOMAIN Tail(s) /\ Tail(s)[k - 1] = s[k]
  BY <1>3
<1>4. ASSUME NEW k \in DOMAIN Tail(s) PROVE k + 1 \in DOMAIN s /\ s[k + 1] = Tail(s)[k]
  OBVIOUS
<1>5. ASSUME NEW x, Has(s, x) PROVE x = Head(s) \/ Has(Tail(s), x)
  <2>1. PICK k \in DOMAIN s : s[k] = x
    BY <1>5, Zenon DEF Has
  <2>2. CASE k = 1
    BY <1>1, <2>1, <2>2, Zenon
  <2>3. CASE k # 1
    BY <1>3, <2>1, <2>3, Zenon DEF Has
  <2> QED BY <2>2, <2>3
<1>6. ASSUME NEW x, Has(Tail(s), x) PROVE Has(s, x)
  <2>1. PICK k \in DOMAIN Tail(s) : Tail(s)[k] = x
    BY <1>6, Zenon DEF Has
  <2> QED BY <1>4, <2>1, Zenon DEF Has
<1> QED BY <1>1, <1>2, <1>5, <1>6, Zenon

\* What the lists hold and what was delivered stays.
LEMMA ListsGrow ==
    ASSUME [Parser!Next]_(Parser!vars)
    PROVE  listed \subseteq listed' /\ left \subseteq left' /\ delivered \subseteq delivered'
<1>a. ASSUME NEW type, NEW a, Parser!ApplyWebhookEvent(type, a)
      PROVE  listed \subseteq listed' /\ left \subseteq left'
  BY <1>a DEF Parser!ApplyWebhookEvent
<1>1. CASE Parser!Deliver
  BY <1>1 DEF Parser!Deliver
<1>2. CASE Parser!ProcessWebhookEvent
  <2>1. \/ UNCHANGED <<listed, left>>
        \/ \E type, a : Parser!ApplyWebhookEvent(type, a)
    BY <1>2, Zenon DEF Parser!ProcessWebhookEvent
  <2>2. delivered' = delivered
    BY <1>2, Zenon DEF Parser!ProcessWebhookEvent
  <2> QED BY <1>a, <2>1, <2>2
<1>3. CASE Parser!Answer
  BY <1>3 DEF Parser!Answer
<1>4. CASE Parser!Fail
  BY <1>4 DEF Parser!Fail
<1>5. ASSUME NEW row \in log, Parser!Replay(row)
      PROVE  listed \subseteq listed' /\ left \subseteq left' /\ delivered \subseteq delivered'
  <2>1. \/ UNCHANGED <<listed, left>>
        \/ \E type, a : Parser!ApplyWebhookEvent(type, a)
    BY <1>5, Zenon DEF Parser!Replay
  <2>2. delivered' = delivered
    BY <1>5, Zenon DEF Parser!Replay
  <2> QED BY <1>a, <2>1, <2>2
<1>6. CASE Parser!AtRest \/ UNCHANGED Parser!vars
  BY <1>6 DEF Parser!AtRest, Parser!vars
<1> QED BY <1>1, <1>2, <1>3, <1>4, <1>5, <1>6, Zenon DEF Parser!Next

\* A step leaves what is to be stored traced to the delivered body.
LEMMA ReceivedStep ==
    ASSUME Received, [Parser!Next]_(Parser!vars)
    PROVE  Received'
<1>n. \A x : ~Has(<<>>, x)
  BY HasNone
<1>1. CASE Parser!Deliver
  <2> DEFINE b == Head(coming)
             events == Parser!ParseWebhookEvents(b).events
  <2>1. coming \in Seq(Seq(ElementsOfJSON)) /\ coming # <<>> /\ coming' = Tail(coming)
    BY <1>1, Zenon DEF Parser!Deliver, Received
  <2>2. b \in Seq(ElementsOfJSON) /\ Tail(coming) \in Seq(Seq(ElementsOfJSON))
    BY <2>1, HasTail, Zenon
  <2>3. \/ UNCHANGED <<body, todo>>
        \/ body' = b /\ todo' = events
    BY <1>1, Zenon DEF Parser!Deliver
  <2>4. delivered' = delivered \union {b}
    BY <1>1, Zenon DEF Parser!Deliver
  <2>5. CASE UNCHANGED <<body, todo>>
    BY <2>1, <2>2, <2>4, <2>5, Zenon DEF Received
  <2>6. CASE body' = b /\ todo' = events
    <3>1. /\ events \in Seq(EventsMade)
          /\ \A e : Has(events, e) => \E i \in DOMAIN b : b[i] # Parser!NotObject /\ Made(b[i], e)
      BY <2>2, ParsedBody, Zenon
    <3> HIDE DEF b, events
    <3> QED BY <2>1, <2>2, <2>4, <2>6, <3>1, Zenon DEF Received, Made
  <2> QED BY <2>3, <2>5, <2>6
<1>2. CASE Parser!ProcessWebhookEvent
  <2>1. todo # <<>> /\ todo' = Tail(todo) /\ UNCHANGED <<body, coming, delivered>>
    BY <1>2, Zenon DEF Parser!ProcessWebhookEvent
  <2>2. Tail(todo) \in Seq(EventsMade) /\ \A x : Has(Tail(todo), x) => Has(todo, x)
    BY <2>1, HasTail, Zenon DEF Received
  <2> QED BY <2>1, <2>2, Zenon DEF Received, Made
<1>3. CASE body' = <<>> /\ todo' = <<>> /\ UNCHANGED <<coming, delivered>>
  <2>1. <<>> \in Seq(ElementsOfJSON) /\ <<>> \in Seq(EventsMade)
    OBVIOUS
  <2> QED BY <1>n, <1>3, <2>1, Zenon DEF Received
<1>4. CASE UNCHANGED <<body, todo, coming, delivered>>
  BY <1>4, Zenon DEF Received, Made
<1>5. CASE Parser!Answer
  BY <1>3, <1>5, Zenon DEF Parser!Answer
<1>6. CASE Parser!Fail
  BY <1>3, <1>6, Zenon DEF Parser!Fail
<1>7. ASSUME NEW row \in log, Parser!Replay(row) PROVE Received'
  BY <1>4, <1>7, Zenon DEF Parser!Replay
<1>8. CASE Parser!AtRest \/ UNCHANGED Parser!vars
  BY <1>4, <1>8, Zenon DEF Parser!AtRest, Parser!vars
<1> QED BY <1>1, <1>2, <1>5, <1>6, <1>7, <1>8, Zenon DEF Parser!Next

\* What had its effect keeps it.
LEMMA StaysCarried ==
    ASSUME [Parser!Next]_(Parser!vars), NEW type, NEW a, Carried(type, a)
    PROVE  Carried(type, a)'
BY ListsGrow DEF Carried, Reaches

\* The event that is stored next comes from the body, and its type is stored as it is.
LEMMA EventIsMade ==
    ASSUME Received, todo # <<>>
    PROVE  /\ body # <<>> /\ body \in delivered /\ Has(todo, Head(todo))
           /\ \E i \in DOMAIN body : body[i] # Parser!NotObject /\ Made(body[i], Head(todo))
           /\ Head(todo).type \notin {"bounce", "unknown"}
           /\ Parser!ClassifyStoredWebhookBounce(Head(todo).type, Head(todo).reason)
                = Head(todo).type
<1>1. Has(todo, Head(todo))
  BY HasTail, Zenon DEF Received
<1>2. PICK i \in DOMAIN body : body[i] # Parser!NotObject /\ Made(body[i], Head(todo))
  BY <1>1, Zenon DEF Received
<1>3. body # <<>>
  BY <1>2
<1>4. Head(todo).type = Parser!EventType(body[i])
  BY <1>2, Zenon DEF Made
<1>5. Head(todo).type \notin {"bounce", "unknown"}
  BY <1>4, TypeIsKnown
<1>6. Parser!ClassifyStoredWebhookBounce(Head(todo).type, Head(todo).reason) = Head(todo).type
  BY <1>5, Zenon DEF Parser!ClassifyStoredWebhookBounce
<1> QED BY <1>1, <1>2, <1>3, <1>5, <1>6, Zenon DEF Received

\* The identity of an event: the provider's with its type and address, or its content.
LEMMA KeyIs ==
    ASSUME NEW o, NEW e, Made(o, e), NEW reason, NEW key,
           key = Parser!WebhookIdentityKey(e, e.type, reason, body)
    PROVE  \/ key.body = <<>> /\ key.ident[2] = e.type /\ key.ident[3] = e.email
           \/ key.body = body /\ key.ident[1] = e.type /\ key.ident[2] = e.email
<1>1. PICK id : id = Parser!FirstText(o.ids)
  OBVIOUS
<1>2. PICK type : type = e.type
  OBVIOUS
<1>3. PICK email : email = e.email
  OBVIOUS
<1>4. PICK ident : ident = e.ident
  OBVIOUS
<1>5. ident = <<>> \/ ident = <<id, type, email>>
  BY <1>1, <1>2, <1>3, <1>4, Zenon DEF Made, Parser!ProviderWebhookIdentity
<1>6. \/ ident # <<>> /\ key = [ident |-> ident, body |-> <<>>]
      \/ key = [ident |-> <<type, email, reason>>, body |-> body]
  BY <1>2, <1>3, <1>4, Zenon DEF Parser!WebhookIdentityKey
<1>7. \/ key.body = <<>> /\ key.ident[2] = type /\ key.ident[3] = email
      \/ key.body = body /\ key.ident[1] = type /\ key.ident[2] = email
  BY <1>5, <1>6, SMTT(30)
<1> QED BY <1>2, <1>3, <1>7, Zenon

\* Storing an event: it has its effect afterwards, for it is new or a row of its identity is there.
LEMMA Processed ==
    ASSUME Received, Effected, Parser!ProcessWebhookEvent, NEW e, e = Head(todo)
    PROVE  /\ Carried(e.type, e.email)'
           /\ \/ log' = log
              \/ \E row : log' = log \union {row} /\ Logged(row)
                          /\ row.type = e.type /\ row.email = e.email
           /\ \/ listed' = listed
              \/ /\ e.type \in {"bounce_permanent", "complaint"}
                 /\ listed' = listed \union {e.email}
<1>1. todo # <<>>
  BY Zenon DEF Parser!ProcessWebhookEvent
<1>3. PICK i \in DOMAIN body : Made(body[i], e)
  BY <1>1, EventIsMade, Zenon
<1>4. /\ body # <<>> /\ e.type \notin {"bounce", "unknown"}
      /\ Parser!ClassifyStoredWebhookBounce(e.type, e.reason) = e.type
  BY <1>1, EventIsMade, Zenon
<1>5. PICK reason :
        reason = (IF e.reason = Parser!Blank /\ e.type # Parser!Blank THEN "provider" ELSE e.reason)
  OBVIOUS
<1>6. PICK key : key = Parser!WebhookIdentityKey(e, e.type, reason, body)
  OBVIOUS
<1>7. \/ /\ \E row \in log : row.key = key
         /\ UNCHANGED <<log, listed, left>>
      \/ /\ log' = log \union {[key |-> key, type |-> e.type, email |-> e.email,
                                reason |-> reason, status |-> Parser!Status(e.type)]}
         /\ Parser!ApplyWebhookEvent(e.type, e.email)
  BY <1>4, <1>5, <1>6, Zenon DEF Parser!ProcessWebhookEvent
<1>8. \/ key.body = <<>> /\ key.ident[2] = e.type /\ key.ident[3] = e.email
      \/ key.body = body /\ key.ident[1] = e.type /\ key.ident[2] = e.email
  BY <1>3, <1>6, KeyIs, Zenon
<1>9. CASE /\ \E row \in log : row.key = key
           /\ UNCHANGED <<log, listed, left>>
  <2>1. PICK row \in log : row.key = key
    BY <1>9, Zenon
  <2>2. Keyed(row) /\ Carried(row.type, row.email)
    BY <2>1, Zenon DEF Effected, Logged
  <2>3. (row.type = e.type /\ row.email = e.email) \/ e.type = Parser!Blank
    BY <1>4, <1>8, <2>1, <2>2, Zenon DEF Keyed
  <2>4. Carried(e.type, e.email)
    <3>1. CASE row.type = e.type /\ row.email = e.email
      BY <2>2, <3>1, Zenon
    <3>2. CASE e.type = Parser!Blank
      BY <3>2, BlankIsNone, Zenon DEF Carried, Reaches
    <3> QED BY <2>3, <3>1, <3>2
  <2>5. Carried(e.type, e.email)'
    BY <1>9, <2>4, Zenon DEF Carried, Reaches
  <2> QED BY <1>9, <2>5, Zenon
<1>10. CASE /\ log' = log \union {[key |-> key, type |-> e.type, email |-> e.email,
                                   reason |-> reason, status |-> Parser!Status(e.type)]}
            /\ Parser!ApplyWebhookEvent(e.type, e.email)
  <2>1. PICK type : type = e.type
    BY Zenon
  <2>2. PICK a : a = e.email
    OBVIOUS
  <2>3. PICK row : row = [key |-> key, type |-> type, email |-> a,
                          reason |-> reason, status |-> Parser!Status(type)]
    BY Zenon
  <2>4. row.key = key /\ row.type = type /\ row.email = a
    BY <2>3
  <2>5. row = [key |-> row.key, type |-> row.type, email |-> row.email, reason |-> row.reason,
               status |-> row.status]
    BY <2>3
  <2>6. Keyed(row)
    BY <1>4, <1>8, <2>1, <2>2, <2>4, Zenon DEF Keyed
  <2>7. Logged(row)
    BY <1>4, <2>1, <2>4, <2>5, <2>6, Zenon DEF Logged
  <2>8. log' = log \union {row}
    BY <1>10, <2>1, <2>2, <2>3, Zenon
  <2>9. Parser!ApplyWebhookEvent(type, a)
    BY <1>10, <2>1, <2>2, Zenon
  <2>10. /\ type \in {"bounce_permanent", "complaint"} => a \in listed'
         /\ type = "unsubscribe" => a \in left'
         /\ \/ listed' = listed
            \/ type \in {"bounce_permanent", "complaint"} /\ listed' = listed \union {a}
    BY <2>9 DEF Parser!ApplyWebhookEvent
  <2> QED BY <2>1, <2>2, <2>4, <2>7, <2>8, <2>10, Zenon DEF Carried, Reaches
<1> QED BY <1>7, <1>9, <1>10

\* A step leaves every row with its effect.
LEMMA EffectedStep ==
    ASSUME Received, Effected, [Parser!Next]_(Parser!vars)
    PROVE  Effected'
<1>a. ASSUME NEW row, Logged(row) PROVE Logged(row)'
  BY <1>a, Zenon DEF Logged, Keyed
<1>b. \A row \in log : Logged(row)' /\ Carried(row.type, row.email)'
  BY <1>a, StaysCarried, Zenon DEF Effected
<1>c. ASSUME NEW b, NEW why, log' = log \union {Parser!DeadLetter(b, why)}
      PROVE  Effected'
  <2>1. PICK row : row = Parser!DeadLetter(b, why)
    OBVIOUS
  <2>2. /\ row.key.ident[1] = "unknown" /\ row.key.ident[2] = Parser!Blank
        /\ row.type = "unknown"
        /\ row = [key |-> row.key, type |-> row.type, email |-> row.email, reason |-> row.reason,
                  status |-> row.status]
    BY <2>1 DEF Parser!DeadLetter
  <2>3. Logged(row)' /\ Carried(row.type, row.email)'
    BY <2>2, Zenon DEF Logged, Keyed, Carried, Reaches
  <2>4. log' = log \union {row}
    BY <1>c, <2>1, Zenon
  <2> QED BY <1>b, <2>3, <2>4, Zenon DEF Effected
<1>d. CASE log' = log
  BY <1>b, <1>d, Zenon DEF Effected
<1>1. CASE Parser!Deliver
  BY <1>1, <1>c, <1>d, Zenon DEF Parser!Deliver
<1>2. CASE Parser!ProcessWebhookEvent
  <2>1. PICK e : e = Head(todo)
    OBVIOUS
  <2>2. Carried(e.type, e.email)'
    BY <1>2, <2>1, Processed, Zenon
  <2>3. \/ log' = log
        \/ \E row : log' = log \union {row} /\ Logged(row)
                    /\ row.type = e.type /\ row.email = e.email
    BY <1>2, <2>1, Processed, Zenon
  <2>4. ASSUME NEW row, log' = log \union {row}, Logged(row), row.type = e.type, row.email = e.email
        PROVE  Effected'
    <3>1. Logged(row)' /\ Carried(row.type, row.email)'
      BY <1>a, <2>2, <2>4, Zenon
    <3> QED BY <1>b, <2>4, <3>1, Zenon DEF Effected
  <2> QED BY <1>d, <2>3, <2>4, Zenon
<1>3. CASE Parser!Answer
  BY <1>3, <1>c, <1>d, Zenon DEF Parser!Answer
<1>4. CASE Parser!Fail
  BY <1>4, <1>d, Zenon DEF Parser!Fail
<1>5. ASSUME NEW row \in log, Parser!Replay(row) PROVE Effected'
  <2>1. PICK mark : log' = (log \ {row}) \union {[row EXCEPT !.status = mark]}
    BY <1>5, Zenon DEF Parser!Replay
  <2>2. PICK new : new = [row EXCEPT !.status = mark]
    BY Zenon
  <2>3. Logged(row) /\ Carried(row.type, row.email)'
    BY <1>5, StaysCarried, Zenon DEF Effected
  <2>4. row = [key |-> row.key, type |-> row.type, email |-> row.email, reason |-> row.reason,
               status |-> row.status]
    BY <2>3, Zenon DEF Logged
  <2>5. /\ new.key = row.key /\ new.type = row.type /\ new.email = row.email
        /\ new = [key |-> new.key, type |-> new.type, email |-> new.email, reason |-> new.reason,
                  status |-> new.status]
    BY <2>2, <2>4
  <2>6. Logged(new)' /\ Carried(new.type, new.email)'
    BY <2>3, <2>5, Zenon DEF Logged, Keyed
  <2>7. log' = (log \ {row}) \union {new}
    BY <2>1, <2>2, Zenon
  <2> QED BY <1>b, <2>6, <2>7, Zenon DEF Effected
<1>6. CASE Parser!AtRest \/ UNCHANGED Parser!vars
  BY <1>6, <1>d, Zenon DEF Parser!AtRest, Parser!vars
<1> QED BY <1>1, <1>2, <1>3, <1>4, <1>5, <1>6, Zenon DEF Parser!Next

\* A step leaves the promise to those the bodies report.
LEMMA PromisedStep ==
    ASSUME Received, Effected, Promised, [Parser!Next]_(Parser!vars)
    PROVE  Promised'
<1>n. ASSUME NEW b, Open(listed, left, b, <<>>) PROVE Kept(listed, left, b)
  BY <1>n, HasNone, Zenon DEF Kept, Open
<1>m. listed \subseteq listed' /\ left \subseteq left'
  BY ListsGrow, Zenon
<1>l. ASSUME NEW type, NEW a, Reaches(listed, left, type, a) PROVE Reaches(listed', left', type, a)
  BY <1>l, <1>m, Zenon DEF Reaches
<1>o. \A b : Kept(listed, left, b) => Kept(listed', left', b)
  BY <1>l, Zenon DEF Kept
<1>r. \A b, es : Open(listed, left, b, es) => Open(listed', left', b, es)
  BY <1>l, Zenon DEF Open
<1>s. \A l, u, es : Open(l, u, <<>>, es)
  BY DEF Open
<1>e. ASSUME NEW b \in Seq(ElementsOfJSON)
      PROVE  Open(listed, left, b, Parser!ParseWebhookEvents(b).events)
  <2>1. ASSUME NEW i \in DOMAIN b, b[i] # Parser!NotObject, NEW a \in Parser!About(b[i])
        PROVE  \/ Reaches(listed, left, Parser!EventType(b[i]), a)
               \/ \E e : /\ Has(Parser!ParseWebhookEvents(b).events, e)
                         /\ e.type = Parser!EventType(b[i]) /\ e.email = a
    <3>1. CASE Parser!EventType(b[i]) = Parser!Blank
      BY <3>1, BlankIsNone, Zenon DEF Reaches
    <3>2. CASE Parser!EventType(b[i]) # Parser!Blank
      BY <2>1, <3>2, ParsedBody, Zenon
    <3> QED BY <3>1, <3>2
  <2> QED BY <2>1, Zenon DEF Open
<1>d. CASE UNCHANGED <<body, todo, answered>>
  BY <1>d, <1>o, <1>r, Zenon DEF Promised
<1>1. CASE Parser!Deliver
  <2>1. PICK b : b = Head(coming)
    BY Zenon
  <2>2. PICK events : events = Parser!ParseWebhookEvents(b).events
    BY Zenon
  <2>3. coming # <<>> /\ coming \in Seq(Seq(ElementsOfJSON))
    BY <1>1, Zenon DEF Parser!Deliver, Received
  <2>4. b \in Seq(ElementsOfJSON)
    BY <2>1, <2>3, HasTail, Zenon
  <2>5. Open(listed, left, b, events)
    BY <1>e, <2>2, <2>4, Zenon
  <2>6. \/ events = <<>> /\ answered' = answered \union {b} /\ UNCHANGED <<body, todo>>
        \/ body' = b /\ todo' = events /\ answered' = answered
    BY <1>1, <2>1, <2>2, Zenon DEF Parser!Deliver
  <2>7. CASE events = <<>> /\ answered' = answered \union {b} /\ UNCHANGED <<body, todo>>
    <3>1. Kept(listed, left, b)
      BY <1>n, <2>5, <2>7, Zenon
    <3> QED BY <1>o, <1>r, <2>7, <3>1, Zenon DEF Promised
  <2>8. CASE body' = b /\ todo' = events /\ answered' = answered
    BY <1>o, <1>r, <2>5, <2>8, Zenon DEF Promised
  <2> QED BY <2>6, <2>7, <2>8
<1>2. CASE Parser!ProcessWebhookEvent
  <2>1. PICK e : e = Head(todo)
    BY Zenon
  <2>2. PICK b : b = body
    BY Zenon
  <2>3. todo # <<>> /\ body' = b /\ answered' = answered /\ todo' = Tail(todo)
    BY <1>2, <2>2, Zenon DEF Parser!ProcessWebhookEvent
  <2>4. Reaches(listed', left', e.type, e.email)
    BY <1>2, <2>1, Processed, Zenon DEF Carried
  <2>5. \A x : Has(todo, x) <=> x = e \/ Has(todo', x)
    BY <2>1, <2>3, HasTail, Zenon DEF Received
  <2>6. ASSUME NEW i \in DOMAIN b, b[i] # Parser!NotObject, NEW a \in Parser!About(b[i])
        PROVE  \/ Reaches(listed', left', Parser!EventType(b[i]), a)
               \/ \E x : Has(todo', x) /\ x.type = Parser!EventType(b[i]) /\ x.email = a
    <3>1. \/ Reaches(listed, left, Parser!EventType(b[i]), a)
          \/ \E x : Has(todo, x) /\ x.type = Parser!EventType(b[i]) /\ x.email = a
      BY <2>2, <2>6, Zenon DEF Promised, Open
    <3>2. CASE Reaches(listed, left, Parser!EventType(b[i]), a)
      BY <1>l, <3>2, Zenon
    <3>3. ASSUME NEW x, Has(todo, x), x.type = Parser!EventType(b[i]), x.email = a
          PROVE  Reaches(listed', left', Parser!EventType(b[i]), a) \/ Has(todo', x)
      BY <2>4, <2>5, <3>3, Zenon
    <3> QED BY <3>1, <3>2, <3>3, Zenon
  <2>7. Open(listed', left', body', todo')
    <3>1. PICK l, u, es : l = listed' /\ u = left' /\ es = todo'
      BY Zenon
    <3>2. Open(l, u, b, es)
      BY <2>6, <3>1, Zenon DEF Open
    <3> QED BY <2>3, <3>1, <3>2, Zenon
  <2> QED BY <1>o, <2>3, <2>7, Zenon DEF Promised
<1>3. CASE Parser!Answer
  <2>1. todo = <<>> /\ answered' = answered \union {body} /\ body' = <<>>
    BY <1>3, Zenon DEF Parser!Answer
  <2>2. Kept(listed, left, body)
    BY <1>n, <2>1, Zenon DEF Promised
  <2> QED BY <1>o, <1>s, <2>1, <2>2, Zenon DEF Promised
<1>4. CASE Parser!Fail
  <2>1. answered' = answered /\ body' = <<>>
    BY <1>4, Zenon DEF Parser!Fail
  <2> QED BY <1>o, <1>s, <2>1, Zenon DEF Promised
<1>5. ASSUME NEW row \in log, Parser!Replay(row) PROVE Promised'
  BY <1>5, <1>d, Zenon DEF Parser!Replay
<1>6. CASE Parser!AtRest \/ UNCHANGED Parser!vars
  BY <1>6, <1>d, Zenon DEF Parser!AtRest, Parser!vars
<1> QED BY <1>1, <1>2, <1>3, <1>4, <1>5, <1>6, Zenon DEF Parser!Next

\* A step leaves evidence of every suppression.
LEMMA EvidenceStep ==
    ASSUME Received, Effected, Parser!SuppressedOnEvidence, [Parser!Next]_(Parser!vars)
    PROVE  Parser!SuppressedOnEvidence'
<1> DEFINE Evidence(a, bs) == \E o \in Parser!Objects(bs) :
                /\ a \in Parser!About(o)
                /\ Parser!RawType(o) = "complaint" \/ Parser!Permanent(o)
<1>a. delivered \subseteq delivered'
  BY ListsGrow, Zenon
<1>b. Parser!Objects(delivered) \subseteq Parser!Objects(delivered')
  BY <1>a, Zenon DEF Parser!Objects
<1>c. \A a \in listed : Evidence(a, delivered')
  BY <1>b, Zenon DEF Parser!SuppressedOnEvidence
<1>d. ASSUME \A a \in listed' : Evidence(a, delivered') PROVE Parser!SuppressedOnEvidence'
  BY <1>d, Zenon DEF Parser!SuppressedOnEvidence
<1>e. CASE listed' = listed
  BY <1>c, <1>d, <1>e, Zenon
<1>1. CASE Parser!Deliver
  BY <1>1, <1>e, Zenon DEF Parser!Deliver
<1>2. CASE Parser!ProcessWebhookEvent
  <2>1. PICK e : e = Head(todo)
    BY Zenon
  <2>2. todo # <<>>
    BY <1>2, Zenon DEF Parser!ProcessWebhookEvent
  <2>3. \/ listed' = listed
        \/ /\ e.type \in {"bounce_permanent", "complaint"}
           /\ listed' = listed \union {e.email}
    BY <1>2, <2>1, Processed, Zenon
  <2>4. CASE e.type \in {"bounce_permanent", "complaint"} /\ listed' = listed \union {e.email}
    <3>1. PICK i \in DOMAIN body : body[i] # Parser!NotObject /\ Made(body[i], e)
      BY <2>1, <2>2, EventIsMade, Zenon
    <3>2. PICK o : o = body[i]
      BY Zenon
    <3>3. o \in Parser!Objects(delivered)
      <4>1. body \in delivered
        BY <2>2, EventIsMade, Zenon
      <4>2. o \in Parser!Elements(body) /\ o # Parser!NotObject
        BY <3>1, <3>2, Zenon DEF Parser!Elements
      <4> QED BY <4>1, <4>2, Zenon DEF Parser!Objects
    <3>4. Parser!EventType(o) \in {"bounce_permanent", "complaint"} /\ e.email \in Parser!About(o)
      BY <2>4, <3>1, <3>2, Zenon DEF Made
    <3>5. Parser!RawType(o) = "complaint" \/ Parser!Permanent(o)
      BY <3>4, TypedAsStated, Zenon
    <3>6. Evidence(e.email, delivered')
      <4>1. o \in Parser!Objects(delivered')
        BY <1>b, <3>3, Zenon
      <4>2. /\ e.email \in Parser!About(o)
            /\ Parser!RawType(o) = "complaint" \/ Parser!Permanent(o)
        BY <3>4, <3>5, Zenon
      <4> QED BY <4>1, <4>2, Zenon
    <3> QED BY <1>c, <1>d, <2>4, <3>6, Zenon
  <2> QED BY <1>e, <2>3, <2>4, Zenon
<1>3. CASE Parser!Answer
  BY <1>3, <1>e, Zenon DEF Parser!Answer
<1>4. CASE Parser!Fail
  BY <1>4, <1>e, Zenon DEF Parser!Fail
<1>5. ASSUME NEW row \in log, Parser!Replay(row) PROVE listed' = listed
  <2>1. PICK type : type = row.type
    BY Zenon
  <2>2. PICK a : a = row.email
    BY Zenon
  <2>3. Parser!ClassifyStoredWebhookBounce(row.type, row.reason) = type
    BY <1>5, <2>1, Zenon DEF Effected, Logged, Parser!ClassifyStoredWebhookBounce
  <2>4. listed' = listed \/ Parser!ApplyWebhookEvent(type, a)
    BY <1>5, <2>2, <2>3, Zenon DEF Parser!Replay
  <2>5. type \in {"bounce_permanent", "complaint"} => a \in listed
    BY <1>5, <2>1, <2>2, Zenon DEF Effected, Carried, Reaches
  <2> QED BY <2>4, <2>5 DEF Parser!ApplyWebhookEvent
<1>6. CASE Parser!AtRest \/ UNCHANGED Parser!vars
  BY <1>6, <1>e, Zenon DEF Parser!AtRest, Parser!vars
<1> QED BY <1>1, <1>2, <1>3, <1>4, <1>5, <1>6, <1>e, Zenon DEF Parser!Next

\* At the start nothing is received, logged or promised.
LEMMA ParserInit ==
    ASSUME Parser!WellFormed, Parser!Init
    PROVE  Received /\ Effected /\ Promised /\ Parser!SuppressedOnEvidence
<1>1. /\ body = <<>> /\ todo = <<>> /\ log = {} /\ listed = {} /\ answered = {}
      /\ coming \in Series
  BY Zenon DEF Parser!Init
<1>2. coming \in Seq(Seq(ElementsOfJSON))
  BY <1>1, Zenon DEF Parser!WellFormed, ElementsOfJSON
<1>3. <<>> \in Seq(ElementsOfJSON) /\ <<>> \in Seq(EventsMade) /\ DOMAIN <<>> = {}
  OBVIOUS
<1>4. Received
  BY <1>1, <1>2, <1>3, HasNone, Zenon DEF Received
<1>5. Promised
  BY <1>1, <1>3, Zenon DEF Promised, Open
<1>6. Effected /\ Parser!SuppressedOnEvidence
  BY <1>1, Zenon DEF Effected, Parser!SuppressedOnEvidence
<1> QED BY <1>4, <1>5, <1>6

\* What the webhook log and the lists hold is traced to the deliveries, for any series of bodies.
LEMMA ParserInvariant ==
    ASSUME Parser!WellFormed
    PROVE  Parser!Spec => [](Received /\ Effected /\ Promised /\ Parser!SuppressedOnEvidence)
<1>1. Parser!Init => Received /\ Effected /\ Promised /\ Parser!SuppressedOnEvidence
  BY ParserInit, Zenon
<1>2. Received /\ Effected /\ Promised /\ Parser!SuppressedOnEvidence /\ [Parser!Next]_(Parser!vars)
        => (Received /\ Effected /\ Promised /\ Parser!SuppressedOnEvidence)'
  BY ReceivedStep, EffectedStep, PromisedStep, EvidenceStep, Zenon
<1> QED BY <1>1, <1>2, PTL DEF Parser!Spec

\* Whatever bodies providers deliver, an address is suppressed only if a delivered object about it
\* is a complaint or a bounce that is permanent by its name or by a field, with no earlier field to
\* the contrary.
THEOREM SuppressionHasEvidence ==
    ASSUME Parser!WellFormed
    PROVE  Parser!Spec => []Parser!SuppressedOnEvidence
BY ParserInvariant, PTL

\* Whoever an answered body reports as complaining, unsubscribed or permanently bounced
\* is on the list, whatever was delivered, failed or replayed before.
THEOREM ReportsAreListed ==
    ASSUME Parser!WellFormed
    PROVE  Parser!Spec => []Parser!ReportedIsListed
<1>1. ASSUME Promised PROVE Parser!ReportedIsListed
  <2>1. ASSUME NEW o \in Parser!Objects(answered), NEW a \in Parser!About(o)
        PROVE  Reaches(listed, left, Parser!EventType(o), a)
    <3>1. PICK b \in answered : o \in Parser!Elements(b) /\ o # Parser!NotObject
      BY Zenon DEF Parser!Objects
    <3>2. PICK i \in DOMAIN b : o = b[i]
      BY <3>1, Zenon DEF Parser!Elements
    <3>3. Kept(listed, left, b)
      BY <1>1, <3>1, Zenon DEF Promised
    <3> QED BY <3>1, <3>2, <3>3, Zenon DEF Kept
  <2>2. ASSUME NEW o \in Parser!Objects(answered),
               Parser!EventType(o) \in {"bounce_permanent", "complaint"}
        PROVE  Parser!About(o) \subseteq listed
    BY <2>1, <2>2, Zenon DEF Reaches
  <2>3. ASSUME NEW o \in Parser!Objects(answered), Parser!EventType(o) = "unsubscribe"
        PROVE  Parser!About(o) \subseteq left
    BY <2>1, <2>3, Zenon DEF Reaches
  <2>4. ASSUME NEW o \in Parser!Objects(answered),
               Parser!RawType(o) = "complaint" \/ Parser!Permanent(o)
        PROVE  Parser!About(o) \subseteq listed
    BY <2>2, <2>4, TypedAsStated, Zenon
  <2>5. ASSUME NEW o \in Parser!Objects(answered), Parser!RawType(o) = "unsubscribe"
        PROVE  Parser!About(o) \subseteq left
    BY <2>3, <2>5, TypedAsStated, Zenon
  <2> QED BY <2>4, <2>5, Zenon DEF Parser!ReportedIsListed
<1> QED BY <1>1, ParserInvariant, PTL
=============================================================================
