---------------------------- MODULE StartupProofs ----------------------------
(***************************************************************************)
(* Proofs about Startup for any number of processes and migration files.   *)
(* What a process knows of the file it is at has to be kept while others   *)
(* move: the files before it are on record, whoever has run a script and   *)
(* not yet committed is alone with that file, and whether its transaction  *)
(* has changed the schema is still true when it commits.                   *)
(***************************************************************************)
EXTENDS Startup, TLAPS

InTransaction(p) == pc[p] \in {"record", "commit"}

\* What process p relies on at each step of the loop.
Knows(p) ==
    /\ pc[p] # "down" => file[p] >= 1 /\ \A g \in 1..Files : g < file[p] => g \in recorded
    /\ pc[p] \in {"exec", "record", "commit"} => file[p] <= Files
    /\ InTransaction(p) => (changed[p] <=> file[p] \notin recorded)
    /\ pc[p] = "commit" => file[p] \notin recorded
    /\ pc[p] \in {"bootstrap", "serving", "stopping"} => file[p] = Files + 1

Alone == \A p, q \in Processes :
    p # q /\ InTransaction(p) /\ InTransaction(q) => file[p] # file[q]

\* The files on record have no gap.
Prefix == \A f \in recorded : \A g \in 1..f : g \in recorded

IInv ==
    /\ TypeOK /\ RecordedIffApplied /\ Prefix /\ Alone
    /\ \A p \in Processes : Knows(p)

LEMMA InitIInv == Init => IInv
  BY StartupAssumption DEF Init, IInv, TypeOK, RecordedIffApplied, Prefix, Alone, Knows, InTransaction

\* A process that ends takes only its own knowledge with it.
LEMMA ExitKeeps ==
  ASSUME IInv, NEW p \in Processes, Exit(p), UNCHANGED <<recorded, effect>>,
         faults' \in 0..MaxFaults
  PROVE  IInv'
<1>1. TypeOK'
  BY StartupAssumption DEF IInv, TypeOK, Exit, Goto
<1>2. RecordedIffApplied' /\ Prefix'
  BY DEF IInv, RecordedIffApplied, Prefix
<1>3. ASSUME NEW q \in Processes
      PROVE  /\ q = p => pc'[q] = "down"
             /\ q # p => pc'[q] = pc[q] /\ file'[q] = file[q] /\ changed'[q] = changed[q]
  BY Zenon DEF IInv, TypeOK, Exit, Goto
<1>4. Alone'
  BY <1>3 DEF IInv, Alone, InTransaction
<1>5. ASSUME NEW q \in Processes PROVE Knows(q)'
  <2>1. CASE q = p
    BY <1>3, <2>1 DEF Knows, InTransaction
  <2>2. CASE q # p
    BY <1>3, <2>2 DEF IInv, Knows, InTransaction
  <2> QED BY <2>1, <2>2
<1> QED BY <1>1, <1>2, <1>4, <1>5 DEF IInv

\* A process that only moves keeps the rest, if it knows enough where it goes.
LEMMA MoveKeeps ==
  ASSUME IInv, NEW p \in Processes, UNCHANGED <<recorded, effect, faults>>,
         NEW step \in {"check", "exec", "bootstrap", "serving", "stopping"},
         Goto(p, step), UNCHANGED changed,
         NEW n \in 0..Files + 1, file' = [file EXCEPT ![p] = n],
         n >= 1, \A g \in 1..Files : g < n => g \in recorded,
         step = "exec" => n <= Files,
         step \in {"bootstrap", "serving", "stopping"} => n = Files + 1
  PROVE  IInv'
<1>1. TypeOK'
  BY StartupAssumption DEF IInv, TypeOK, Goto
<1>2. RecordedIffApplied' /\ Prefix'
  BY DEF IInv, RecordedIffApplied, Prefix
<1>3. ASSUME NEW q \in Processes
      PROVE  /\ q = p => pc'[q] = step /\ file'[q] = n
             /\ q # p => pc'[q] = pc[q] /\ file'[q] = file[q]
  BY DEF IInv, TypeOK, Goto
<1>4. Alone'
  BY <1>3 DEF IInv, Alone, InTransaction
<1>5. ASSUME NEW q \in Processes PROVE Knows(q)'
  <2>1. CASE q = p
    BY <1>3, <2>1 DEF Knows, InTransaction
  <2>2. CASE q # p
    BY <1>3, <2>2 DEF IInv, Knows, InTransaction
  <2> QED BY <2>1, <2>2
<1> QED BY <1>1, <1>2, <1>4, <1>5 DEF IInv

\* The script runs: no one else is in a transaction on the file.
LEMMA ExecKeeps ==
  ASSUME IInv, NEW p \in Processes, Exec(p)
  PROVE  IInv'
<1>1. CASE Exit(p)
  <2>1. UNCHANGED <<recorded, effect>> /\ faults' \in 0..MaxFaults
    BY DEF Exec, IInv, TypeOK
  <2> QED BY <1>1, <2>1, ExitKeeps
<1>2. CASE /\ changed' = [changed EXCEPT ![p] = effect[file[p]] = 0]
           /\ Goto(p, "record") /\ UNCHANGED file
  <2>1. UNCHANGED <<recorded, effect, faults, file>> /\ pc[p] = "exec"
    BY <1>2 DEF Exec
  <2>2. file[p] \in 1..Files
    BY <2>1, StartupAssumption DEF IInv, Knows, TypeOK
  <2>3. effect[file[p]] = 0 <=> file[p] \notin recorded
    BY <2>2 DEF IInv, RecordedIffApplied
  <2>4. ASSUME NEW q \in Processes
        PROVE  /\ q = p => pc'[q] = "record" /\ (changed'[q] <=> file[q] \notin recorded)
               /\ q # p => pc'[q] = pc[q] /\ changed'[q] = changed[q]
    BY <1>2, <2>3, Zenon DEF IInv, TypeOK, Goto
  <2>5. TypeOK'
    BY <1>2, <2>1 DEF IInv, TypeOK, Goto
  <2>6. RecordedIffApplied' /\ Prefix'
    BY <2>1 DEF IInv, RecordedIffApplied, Prefix
  <2>7. \A q \in Processes \ {p} : ~(file[q] = file[p] /\ InTransaction(q))
    BY DEF Exec, InTransaction
  <2>8. Alone'
    BY <2>1, <2>4, <2>7 DEF IInv, Alone, InTransaction
  <2>9. ASSUME NEW q \in Processes PROVE Knows(q)'
    <3>1. CASE q = p
      BY <2>1, <2>2, <2>4, <3>1 DEF IInv, Knows, InTransaction
    <3>2. CASE q # p
      BY <2>1, <2>4, <3>2 DEF IInv, Knows, InTransaction
    <3> QED BY <3>1, <3>2
  <2> QED BY <2>5, <2>6, <2>8, <2>9 DEF IInv
<1> QED BY <1>1, <1>2 DEF Exec

LEMMA RecordKeeps ==
  ASSUME IInv, NEW p \in Processes, Record(p)
  PROVE  IInv'
<1>1. CASE file[p] \in recorded
  <2>1. Exit(p) /\ UNCHANGED <<recorded, effect>> /\ faults' \in 0..MaxFaults
    BY <1>1 DEF Record, IInv, TypeOK
  <2> QED BY <2>1, ExitKeeps
<1>2. CASE file[p] \notin recorded
  <2>1. UNCHANGED <<recorded, effect, file, changed, faults>> /\ pc[p] = "record" /\ Goto(p, "commit")
    BY <1>2 DEF Record
  <2>2. ASSUME NEW q \in Processes
        PROVE  /\ q = p => pc'[q] = "commit"
               /\ q # p => pc'[q] = pc[q]
    BY <2>1 DEF IInv, TypeOK, Goto
  <2>3. TypeOK'
    BY <2>1 DEF IInv, TypeOK, Goto
  <2>4. RecordedIffApplied' /\ Prefix'
    BY <2>1 DEF IInv, RecordedIffApplied, Prefix
  <2>5. Alone'
    BY <2>1, <2>2 DEF IInv, Alone, InTransaction
  <2>6. ASSUME NEW q \in Processes PROVE Knows(q)'
    BY <1>2, <2>1, <2>2 DEF IInv, Knows, InTransaction
  <2> QED BY <2>3, <2>4, <2>5, <2>6 DEF IInv
<1> QED BY <1>1, <1>2

\* The commit puts the next file on record and no one else's transaction is on it.
LEMMA CommitKeeps ==
  ASSUME IInv, NEW p \in Processes, Commit(p)
  PROVE  IInv'
<1> DEFINE f == file[p]
<1>1. /\ pc[p] = "commit" /\ f \in 1..Files /\ f \notin recorded /\ changed[p]
      /\ \A g \in 1..Files : g < f => g \in recorded
  BY StartupAssumption DEF Commit, IInv, Knows, TypeOK, InTransaction
<1>2. recorded' = recorded \union {f} /\ effect' = [effect EXCEPT ![f] = @ + 1]
  BY <1>1 DEF Commit
<1>3. RecordedIffApplied'
  BY <1>1, <1>2 DEF IInv, RecordedIffApplied, TypeOK
<1>4. Prefix'
  BY <1>1, <1>2, StartupAssumption DEF IInv, Prefix, TypeOK
<1>5. ASSUME NEW q \in Processes, q # p
      PROVE  pc'[q] = pc[q] /\ file'[q] = file[q] /\ changed'[q] = changed[q]
  BY <1>5 DEF Commit, Exit, Goto, IInv, TypeOK
<1>6. (pc'[p] = "check" /\ file'[p] = f + 1) \/ pc'[p] = "down"
  BY <1>1 DEF Commit, Exit, Goto, IInv, TypeOK
<1>7. TypeOK'
  <2>1. recorded' \subseteq 1..Files /\ effect' \in [1..Files -> Nat]
    <3>1. effect \in [1..Files -> Nat] /\ recorded \subseteq 1..Files
      BY DEF IInv, TypeOK
    <3>2. effect[f] + 1 \in Nat
      BY <1>1, <3>1
    <3> HIDE DEF f
    <3> QED BY <1>1, <1>2, <3>1, <3>2, Zenon
  <2>2. f + 1 \in 0..Files + 1 /\ 0 \in 0..Files + 1
    BY <1>1, StartupAssumption
  <2>3. pc' \in [Processes -> {"down", "check", "exec", "record", "commit", "bootstrap", "serving", "stopping"}]
        /\ file' \in [Processes -> 0..Files + 1] /\ changed' \in [Processes -> BOOLEAN]
    BY <2>2, Zenon DEF Commit, Exit, Goto, IInv, TypeOK
  <2>4. faults' \in 0..MaxFaults
    BY StartupAssumption DEF Commit, Fault, IInv, TypeOK
  <2> QED BY <2>1, <2>3, <2>4 DEF TypeOK
<1>8. Alone'
  BY <1>5, <1>6 DEF IInv, Alone, InTransaction
<1>9. ASSUME NEW q \in Processes PROVE Knows(q)'
  <2>1. CASE q = p
    BY <1>1, <1>2, <1>6, <2>1 DEF Knows, InTransaction
  <2>2. CASE q # p
    <3>1. InTransaction(q) => file[q] # f
      BY <1>1, <2>2 DEF IInv, Alone, InTransaction
    <3> QED BY <1>2, <1>5, <2>2, <3>1 DEF IInv, Knows, InTransaction
  <2> QED BY <2>1, <2>2
<1> QED BY <1>3, <1>4, <1>7, <1>8, <1>9 DEF IInv

LEMMA IsAppliedKeeps ==
  ASSUME IInv, NEW p \in Processes, IsApplied(p)
  PROVE  IInv'
<1>1. /\ pc[p] = "check" /\ file[p] \in 1..Files + 1 /\ UNCHANGED <<recorded, effect, changed, faults>>
      /\ \A g \in 1..Files : g < file[p] => g \in recorded
      /\ file = [file EXCEPT ![p] = file[p]]
  BY StartupAssumption DEF IsApplied, IInv, Knows, TypeOK
<1>2. CASE LoopDone(p)
  <2>1. Goto(p, "bootstrap") /\ file' = [file EXCEPT ![p] = file[p]] /\ file[p] = Files + 1
    BY <1>1, <1>2, StartupAssumption DEF IsApplied, LoopDone
  <2>2. file[p] \in 0..Files + 1 /\ file[p] >= 1
    BY <1>1, StartupAssumption
  <2> QED BY <1>1, <2>1, <2>2, MoveKeeps, Zenon
<1>3. CASE ~LoopDone(p) /\ file[p] \in recorded
  <2>1. pc' = pc /\ file' = [file EXCEPT ![p] = file[p] + 1] /\ file[p] + 1 \in 1..Files + 1
    BY <1>1, <1>3, StartupAssumption DEF IsApplied, LoopDone
  <2>2. Goto(p, "check")
    BY <1>1, <2>1 DEF Goto, IInv, TypeOK
  <2>3. \A g \in 1..Files : g < file[p] + 1 => g \in recorded
    BY <1>1, <1>3
  <2> DEFINE n == file[p] + 1
  <2>4. n \in 0..Files + 1 /\ n >= 1
    BY <2>1, StartupAssumption
  <2> HIDE DEF n
  <2> QED BY <1>1, <2>1, <2>2, <2>3, <2>4, MoveKeeps, Zenon DEF n
<1>4. CASE ~LoopDone(p) /\ file[p] \notin recorded
  <2>1. Goto(p, "exec") /\ file' = [file EXCEPT ![p] = file[p]] /\ file[p] <= Files
    BY <1>1, <1>4, StartupAssumption DEF IsApplied, LoopDone
  <2>2. file[p] \in 0..Files + 1 /\ file[p] >= 1
    BY <1>1, StartupAssumption
  <2> QED BY <1>1, <2>1, <2>2, MoveKeeps, Zenon
<1> QED BY <1>2, <1>3, <1>4

\* Serving and stopping leave the loop behind.
LEMMA ServiceKeeps ==
  ASSUME IInv, NEW p \in Processes, Start(p) \/ Bootstrap(p) \/ Signal(p)
  PROVE  IInv'
<1>1. CASE Start(p)
  <2>1. Goto(p, "check") /\ file' = [file EXCEPT ![p] = 1] /\ UNCHANGED <<recorded, effect, changed, faults>>
    BY <1>1 DEF Start
  <2>2. 1 \in 0..Files + 1 /\ 1 >= 1 /\ \A g \in 1..Files : g < 1 => g \in recorded
    BY StartupAssumption
  <2> QED BY <2>1, <2>2, MoveKeeps, Zenon
<1>2. ASSUME NEW step \in {"serving", "stopping"}, Goto(p, step),
             UNCHANGED <<recorded, effect, file, changed, faults>>,
             pc[p] \in {"bootstrap", "serving"}
      PROVE  IInv'
  <2>1. /\ file[p] = Files + 1 /\ file' = [file EXCEPT ![p] = file[p]]
        /\ \A g \in 1..Files : g < file[p] => g \in recorded
    BY <1>2 DEF IInv, Knows, TypeOK
  <2>2. file[p] \in 0..Files + 1 /\ file[p] >= 1
    BY <2>1, StartupAssumption
  <2> QED BY <1>2, <2>1, <2>2, MoveKeeps, Zenon
<1>3. CASE Bootstrap(p)
  BY <1>2, <1>3 DEF Bootstrap
<1>4. CASE Signal(p)
  BY <1>2, <1>4 DEF Signal
<1> QED BY <1>1, <1>3, <1>4

LEMMA StepIInv == IInv /\ [Next]_vars => IInv'
<1> SUFFICES ASSUME IInv, [Next]_vars PROVE IInv'
  OBVIOUS
<1>1. CASE UNCHANGED vars
  BY <1>1 DEF vars, IInv, TypeOK, RecordedIffApplied, Prefix, Alone, Knows, InTransaction
<1>2. ASSUME NEW p \in Processes, Run(p) \/ Signal(p) \/ Fail(p)
      PROVE  IInv'
  <2>1. CASE Start(p) \/ Bootstrap(p) \/ Signal(p)
    BY <2>1, ServiceKeeps
  <2>2. CASE Up(p)
    BY <2>2, IsAppliedKeeps, ExecKeeps, RecordKeeps, CommitKeeps DEF Up
  <2>3. CASE Shutdown(p) \/ Fail(p)
    <3>1. Exit(p) /\ UNCHANGED <<recorded, effect>>
      BY <2>3 DEF Shutdown, Fail
    <3>2. faults' \in 0..MaxFaults
      BY <2>3, StartupAssumption DEF Shutdown, Fail, Fault, IInv, TypeOK
    <3> QED BY <3>1, <3>2, ExitKeeps
  <2> QED BY <1>2, <2>1, <2>2, <2>3 DEF Run
<1> QED BY <1>1, <1>2 DEF Next

\* The invariant says what the properties say.
LEMMA IInvImplies == IInv => TypeOK /\ RecordedIffApplied /\ InOrder /\ ServesOnFullSchema
<1> SUFFICES ASSUME IInv PROVE InOrder /\ ServesOnFullSchema
  BY DEF IInv
<1>1. InOrder
  <2> SUFFICES ASSUME NEW f \in 1..Files, effect[f] > 0, NEW g \in 1..f
               PROVE  effect[g] > 0
    BY DEF InOrder
  <2>1. f \in recorded /\ g \in 1..Files
    BY StartupAssumption DEF IInv, RecordedIffApplied
  <2>2. g \in recorded
    BY <2>1 DEF IInv, Prefix
  <2> QED BY <2>1, <2>2 DEF IInv, RecordedIffApplied
<1>2. ServesOnFullSchema
  <2> SUFFICES ASSUME NEW p \in Processes, pc[p] \in {"bootstrap", "serving", "stopping"}
               PROVE  recorded = 1..Files
    BY DEF ServesOnFullSchema
  <2>1. file[p] = Files + 1 /\ \A g \in 1..Files : g < file[p] => g \in recorded
    BY DEF IInv, Knows
  <2>2. \A g \in 1..Files : g \in recorded
    BY <2>1, StartupAssumption
  <2>3. recorded \subseteq 1..Files
    BY DEF IInv, TypeOK
  <2> QED BY <2>2, <2>3, Zenon
<1> QED BY <1>1, <1>2

THEOREM Invariant == Spec => []IInv
  BY InitIInv, StepIInv, PTL DEF Spec

\* The state is of the declared shape, for any number of processes and files.
THEOREM StartupTyped == Spec => []TypeOK
  BY Invariant, IInvImplies, PTL

\* Up applies each migration at most once and records exactly what it applied,
\* however many processes migrate the database at the same time and wherever
\* they crash or lose an answer.
THEOREM MigratedOnce == Spec => []RecordedIffApplied
  BY Invariant, IInvImplies, PTL

\* Up applies the files in the order of their names.
THEOREM MigratedInOrder == Spec => []InOrder
  BY Invariant, IInvImplies, PTL

\* Run starts the server only when every migration is on record.
THEOREM ServedComplete == Spec => []ServesOnFullSchema
  BY Invariant, IInvImplies, PTL
=============================================================================
