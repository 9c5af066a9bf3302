------------------------------- MODULE Startup -------------------------------
(***************************************************************************)
(* Run from its start to its end for several processes on one database:    *)
(* the migrations, file by file and statement by statement, the bootstrap, *)
(* serving, and the ways a process ends.  Something else restarts it.      *)
(***************************************************************************)
EXTENDS Naturals, FiniteSets

CONSTANTS
    Processes,
    Files,         \* number of migration files, in the order of their names
    NotRepeatable, \* files that fail on a schema that has them, as 000011 does
    MaxFaults      \* bound on crashes and failed calls

ASSUME StartupAssumption ==
    Files \in Nat /\ NotRepeatable \subseteq 1..Files /\ MaxFaults \in Nat

VARIABLES
    recorded,  \* schema_migrations
    effect,    \* how often each file has changed the schema
    pc,        \* what each process does
    file,      \* the file its loop is at
    changed,   \* its open transaction has changed the schema
    faults

vars == <<recorded, effect, pc, file, changed, faults>>

TypeOK ==
    /\ recorded \subseteq 1..Files
    /\ effect \in [1..Files -> Nat]
    /\ pc \in [Processes -> {"down", "check", "exec", "record", "commit", "bootstrap", "serving", "stopping"}]
    /\ file \in [Processes -> 0..Files + 1]
    /\ changed \in [Processes -> BOOLEAN]
    /\ faults \in 0..MaxFaults

Init ==
    /\ recorded = {} /\ effect = [f \in 1..Files |-> 0]
    /\ pc = [p \in Processes |-> "down"] /\ file = [p \in Processes |-> 0]
    /\ changed = [p \in Processes |-> FALSE] /\ faults = 0

Goto(p, step) == pc' = [pc EXCEPT ![p] = step]

\* The process ends; the database rolls back what it has not committed.
Exit(p) ==
    /\ Goto(p, "down")
    /\ file' = [file EXCEPT ![p] = 0] /\ changed' = [changed EXCEPT ![p] = FALSE]

Fault == faults < MaxFaults /\ faults' = faults + 1

----------------------------------------------------------------------------
\* Configuration, the connection and CREATE TABLE IF NOT EXISTS schema_migrations.
Start(p) ==
    /\ pc[p] = "down"
    /\ Goto(p, "check") /\ file' = [file EXCEPT ![p] = 1]
    /\ UNCHANGED <<recorded, effect, changed, faults>>

\* Mutant: the loop ends before the last file.
LoopDoneEarly(p) == file[p] >= Files

LoopDone(p) == file[p] > Files

\* Mutant: a file on record is not recognised.
IsAppliedNever(p) ==
    /\ pc[p] = "check"
    /\ Goto(p, IF LoopDone(p) THEN "bootstrap" ELSE "exec")
    /\ UNCHANGED <<recorded, effect, file, changed, faults>>

\* isApplied is asked outside the transaction that applies the file.
IsApplied(p) ==
    /\ pc[p] = "check"
    /\ IF LoopDone(p) THEN Goto(p, "bootstrap") /\ UNCHANGED file
       ELSE IF file[p] \in recorded THEN file' = [file EXCEPT ![p] = @ + 1] /\ UNCHANGED pc
       ELSE Goto(p, "exec") /\ UNCHANGED file
    /\ UNCHANGED <<recorded, effect, changed, faults>>

\* Mutant: the script runs on the pool and is not part of the transaction.
ExecOutside(p) ==
    /\ pc[p] = "exec"
    /\ \A q \in Processes \ {p} : ~(file[q] = file[p] /\ pc[q] \in {"record", "commit"})
    /\ \/ /\ effect[file[p]] = 0 \/ file[p] \notin NotRepeatable
          /\ effect' = [effect EXCEPT ![file[p]] = IF @ = 0 THEN 1 ELSE @]
          /\ Goto(p, "record") /\ UNCHANGED <<file, changed>>
       \/ effect[file[p]] > 0 /\ Exit(p) /\ UNCHANGED effect
    /\ UNCHANGED <<recorded, faults>>

\* The script runs in a transaction and waits for the locks of another process
\* that has run it.  Run again it has no effect, or fails, as two CREATE ... IF
\* NOT EXISTS may when they race, and always if it cannot be repeated.
Exec(p) ==
    /\ pc[p] = "exec"
    /\ \A q \in Processes \ {p} : ~(file[q] = file[p] /\ pc[q] \in {"record", "commit"})
    /\ \/ /\ effect[file[p]] = 0 \/ file[p] \notin NotRepeatable
          /\ changed' = [changed EXCEPT ![p] = effect[file[p]] = 0]
          /\ Goto(p, "record") /\ UNCHANGED file
       \/ effect[file[p]] > 0 /\ Exit(p)
    /\ UNCHANGED <<recorded, effect, faults>>

\* INSERT INTO schema_migrations; its primary key refuses a second one.
Record(p) ==
    /\ pc[p] = "record"
    /\ IF file[p] \in recorded THEN Exit(p)
       ELSE Goto(p, "commit") /\ UNCHANGED <<file, changed>>
    /\ UNCHANGED <<recorded, effect, faults>>

\* The answer to COMMIT may be lost.
Commit(p) ==
    /\ pc[p] = "commit"
    /\ recorded' = recorded \union {file[p]}
    /\ effect' = [effect EXCEPT ![file[p]] = IF changed[p] THEN @ + 1 ELSE @]
    /\ \/ /\ Goto(p, "check") /\ file' = [file EXCEPT ![p] = @ + 1]
          /\ changed' = [changed EXCEPT ![p] = FALSE] /\ UNCHANGED faults
       \/ Fault /\ Exit(p)

Up(p) == IsApplied(p) \/ Exec(p) \/ Record(p) \/ Commit(p)

\* Redis, the sealer, the default workspace; then the goroutines are started.
Bootstrap(p) ==
    /\ pc[p] = "bootstrap"
    /\ Goto(p, "serving")
    /\ UNCHANGED <<recorded, effect, file, changed, faults>>

\* SIGINT or SIGTERM ends the contexts; Shutdown waits for the requests.
Signal(p) ==
    /\ pc[p] = "serving"
    /\ Goto(p, "stopping")
    /\ UNCHANGED <<recorded, effect, file, changed, faults>>

Shutdown(p) ==
    /\ pc[p] = "stopping"
    /\ Exit(p)
    /\ UNCHANGED <<recorded, effect, faults>>

\* An error on the way, of the listener, or a crash.
Fail(p) ==
    /\ pc[p] # "down" /\ Fault
    /\ Exit(p)
    /\ UNCHANGED <<recorded, effect>>

Run(p) == Start(p) \/ Up(p) \/ Bootstrap(p) \/ Shutdown(p)

Next == \E p \in Processes : Run(p) \/ Signal(p) \/ Fail(p)

Spec == Init /\ [][Next]_vars

\* Assumed: a supervisor, which is no part of the repository, restarts what has
\* ended; and a process that runs goes on.
FairSpec == Spec /\ \A p \in Processes : WF_vars(Run(p))

----------------------------------------------------------------------------
(* Properties.                                                             *)

\* However many processes start at once and wherever they fail, a file changes
\* the schema once, and is on record exactly if it has.
RecordedIffApplied ==
    \A f \in 1..Files : effect[f] = (IF f \in recorded THEN 1 ELSE 0)

\* A file is applied only after all files before it.
InOrder == \A f \in 1..Files : effect[f] > 0 => \A g \in 1..f : effect[g] > 0

\* A process serves only on the schema it was built for, even if it lost the race
\* for a file to another process.
ServesOnFullSchema ==
    \A p \in Processes : pc[p] \in {"bootstrap", "serving", "stopping"} => recorded = 1..Files

\* Whatever has failed before, restarting brings every process into service.
AlwaysServesAgain == \A p \in Processes : []<>(pc[p] = "serving")
=============================================================================
