----------------------------- MODULE WorkQueue -----------------------------
(***************************************************************************)
(* What the queue promises its callers: Enqueue and ScheduleRetry add an   *)
(* id, and Dequeue hands out the oldest ready id or some retry that is     *)
(* due.  Which of the two is left open; MessageDelivery relies on no more. *)
(***************************************************************************)
EXTENDS Sequences

CONSTANT Ids

VARIABLES
    ready,    \* ids to be processed at once, oldest first
    waiting,  \* retries whose time has not come
    due,      \* retries whose time has come
    taken     \* what the last Dequeue handed out, and from where

vars == <<ready, waiting, due, taken>>

Init == ready = <<>> /\ waiting = {} /\ due = {} /\ taken = <<>>

Enqueue(x) ==
    /\ ready' = Append(ready, x)
    /\ UNCHANGED <<waiting, due, taken>>

\* Scheduling an id again replaces its old time.
ScheduleRetry(x) ==
    /\ waiting' = waiting \union {x}
    /\ due' = due \ {x}
    /\ UNCHANGED <<ready, taken>>

ComeDue(x) ==
    /\ x \in waiting
    /\ waiting' = waiting \ {x}
    /\ due' = due \union {x}
    /\ UNCHANGED <<ready, taken>>

TakeReady ==
    /\ ready # <<>>
    /\ ready' = Tail(ready)
    /\ taken' = <<"ready", Head(ready)>>
    /\ UNCHANGED <<waiting, due>>

TakeRetry(x) ==
    /\ x \in due
    /\ due' = due \ {x}
    /\ taken' = <<"retry", x>>
    /\ UNCHANGED <<ready, waiting>>

Next ==
    \/ \E x \in Ids : Enqueue(x) \/ ScheduleRetry(x) \/ ComeDue(x) \/ TakeRetry(x)
    \/ TakeReady

Spec == Init /\ [][Next]_vars

============================================================================
