-------------------------- MODULE MessageDelivery --------------------------
(***************************************************************************)
(* The life of a message in maild: QueueMessage accepts it, the worker of  *)
(* some process runs ProcessOne on it, RecoverQueue republishes or expires *)
(* it, and an operator's RetryMessages sends a failed one round again.     *)
(*                                                                         *)
(* PostgreSQL (messages, message_attempts, suppressions) and Redis (ready  *)
(* list, retry set) are shared.  Every statement the service issues is one *)
(* step, so all handlers interleave at that grain.  A call that fails may  *)
(* have taken effect before its error came back.                           *)
(***************************************************************************)
EXTENDS Naturals, Sequences, FiniteSets

CONSTANTS
    Messages,       \* message ids, as the id column assigns them
    Workers,        \* one MessageWorker.Run loop per process
    Recoverers,     \* one runRecovery loop per process
    Operators,      \* concurrent callers of POST /v1/messages/retry
    MaxAttempts,    \* MessageService.maxAttempts
    RecoveryLimit,  \* the limit recoverMessages passes to RecoverQueue
    MaxFaults,      \* bound: failed calls and crashes in one behaviour
    MaxRetries,     \* bound: manual retries of one message
    MaxCopies       \* bound: copies of an id in the ready list before it ages

ASSUME DeliveryAssumption ==
    /\ Messages \subseteq Nat \ {0}
    /\ MaxAttempts \in Nat \ {0}
    /\ RecoveryLimit \in Nat \ {0}
    /\ MaxFaults \in Nat /\ MaxRetries \in Nat /\ MaxCopies \in Nat \ {0}

VARIABLES
    status,     \* messages.status, "none" before the INSERT
    scheduled,  \* messages.scheduled_at: NULL, in the future, or due
    stale,      \* updated_at is past queuedGrace (queued) or sendingLease (sending)
    attempts,   \* message_attempts rows of the message: number and success
    blocked,    \* the recipient is in suppressions or unsubscribes
    ready,      \* Redis list maild:queue:messages, oldest first
    retry,      \* Redis set maild:queue:retry: not a member, waiting, or due
    req,        \* where the QueueMessage request of the message stands
    pc, msg, no,    \* the worker's step in ProcessOne, its message and attemptNo
    recPc, recIds,  \* the recovery loop's step and the ids left to enqueue
    opPc, opMsg,    \* the retryMessage call's step and its message
    faults,         \* failed calls and crashes so far
    \* Observers, read by no guard but the bounds:
    submitted,  \* how often Send was called for the message
    acked,      \* some Send of the message returned nil
    retried,    \* manual retries of the message that took effect
    clobbered,  \* a retry's roll-back overwrote a status it had not written
    dirtyPop    \* the recipient was blocked when the worker took the id

rowVars == <<status, scheduled, stale>>
workerVars == <<pc, msg, no, dirtyPop>>
recVars == <<recPc, recIds>>
opVars == <<opPc, opMsg>>
seenVars == <<submitted, acked, retried, clobbered>>
vars == <<rowVars, attempts, blocked, ready, retry, req, workerVars, recVars,
          opVars, faults, seenVars>>

Statuses == {"none", "queued", "sending", "sent", "failed", "suppressed", "unknown"}
Settled == {"sent", "failed", "suppressed", "unknown"}

\* The steps of ProcessOne at which the worker believes it holds the claim.
Owning == {"number", "creds", "send", "logSent", "markSent", "logError",
           "markFailed", "retryAt", "markUnknown"}
WorkerSteps == {"idle", "get", "check", "suppress", "claim", "schedule"} \union Owning

NoMessage == 0
Attempt == [no : Nat, ok : BOOLEAN]

TypeOK ==
    /\ status \in [Messages -> Statuses]
    /\ scheduled \in [Messages -> {"null", "future", "due"}]
    /\ stale \in [Messages -> BOOLEAN]
    /\ attempts \in [Messages -> SUBSET Attempt]
    /\ blocked \in [Messages -> BOOLEAN]
    /\ ready \in Seq(Messages)
    /\ retry \in [Messages -> {"none", "future", "due"}]
    /\ req \in [Messages -> {"new", "insertQueued", "insertSuppressed", "enqueue",
                             "created", "error"}]
    /\ pc \in [Workers -> WorkerSteps]
    /\ msg \in [Workers -> Messages \union {NoMessage}]
    /\ no \in [Workers -> Nat]
    /\ dirtyPop \in [Workers -> BOOLEAN]
    /\ recPc \in [Recoverers -> {"idle", "claim", "enqueue"}]
    /\ recIds \in [Recoverers -> SUBSET Messages]
    /\ opPc \in [Operators -> {"idle", "transition", "enqueue", "revert"}]
    /\ opMsg \in [Operators -> Messages \union {NoMessage}]
    /\ faults \in Nat
    /\ submitted \in [Messages -> Nat]
    /\ acked \in [Messages -> BOOLEAN]
    /\ retried \in [Messages -> Nat]
    /\ clobbered \in [Messages -> BOOLEAN]

Init ==
    /\ status = [m \in Messages |-> "none"]
    /\ scheduled = [m \in Messages |-> "null"]
    /\ stale = [m \in Messages |-> FALSE]
    /\ attempts = [m \in Messages |-> {}]
    /\ blocked \in [Messages -> BOOLEAN]
    /\ ready = <<>>
    /\ retry = [m \in Messages |-> "none"]
    /\ req = [m \in Messages |-> "new"]
    /\ pc = [w \in Workers |-> "idle"]
    /\ msg = [w \in Workers |-> NoMessage]
    /\ no = [w \in Workers |-> 0]
    /\ dirtyPop = [w \in Workers |-> FALSE]
    /\ recPc = [r \in Recoverers |-> "idle"]
    /\ recIds = [r \in Recoverers |-> {}]
    /\ opPc = [o \in Operators |-> "idle"]
    /\ opMsg = [o \in Operators |-> NoMessage]
    /\ faults = 0
    /\ submitted = [m \in Messages |-> 0]
    /\ acked = [m \in Messages |-> FALSE]
    /\ retried = [m \in Messages |-> 0]
    /\ clobbered = [m \in Messages |-> FALSE]

----------------------------------------------------------------------------
(* The statements of store/postgres on a message row.                      *)

SetMessageStatus(m, s) ==
    /\ status' = [status EXCEPT ![m] = s]
    /\ scheduled' = [scheduled EXCEPT ![m] = IF s = "queued" THEN @ ELSE "null"]
    /\ stale' = [stale EXCEPT ![m] = FALSE]

\* Mutant: a transition that is also satisfied by a row already there.
TransitionRepeatable(m, from, to) ==
    /\ status[m] \in {from, to}
    /\ SetMessageStatus(m, to)

\* The UPDATE ... WHERE status = from, when it matches the row.
TransitionMessageStatus(m, from, to) ==
    /\ status[m] = from
    /\ SetMessageStatus(m, to)

\* Mutant: a late worker reschedules a message whose lease has expired.
SetMessageRetryAtUnguarded(m) ==
    /\ status' = [status EXCEPT ![m] = "queued"]
    /\ scheduled' = [scheduled EXCEPT ![m] = "future"]
    /\ stale' = [stale EXCEPT ![m] = FALSE]

SetMessageRetryAt(m) ==
    /\ status[m] = "sending"
    /\ status' = [status EXCEPT ![m] = "queued"]
    /\ scheduled' = [scheduled EXCEPT ![m] = "future"]
    /\ stale' = [stale EXCEPT ![m] = FALSE]

\* Mutant: no unique index on (message_id, attempt_no).
InsertAttemptTwice(m, n, ok) ==
    attempts' = [attempts EXCEPT ![m] = @ \union {[no |-> n, ok |-> ok]}]

\* UNIQUE (message_id, attempt_no) refuses a number that is already there.
InsertAttempt(m, n, ok) ==
    /\ \A a \in attempts[m] : a.no # n
    /\ attempts' = [attempts EXCEPT ![m] = @ \union {[no |-> n, ok |-> ok]}]

Enqueue(m) == ready' = Append(ready, m)

Fault ==
    /\ faults < MaxFaults
    /\ faults' = faults + 1

----------------------------------------------------------------------------
(* QueueMessage, after admission control let the request through.          *)

\* IsSuppressed and IsUnsubscribed.  No row of either table is ever deleted, so
\* the two reads find what one read of both tables at the second read finds.
CheckRecipient(m) ==
    /\ req[m] = "new"
    /\ req' = [req EXCEPT ![m] = IF blocked[m] THEN "insertSuppressed" ELSE "insertQueued"]
    /\ UNCHANGED <<rowVars, attempts, blocked, ready, retry, workerVars, recVars,
                   opVars, faults, seenVars>>

CreateMessage(m) ==
    /\ \/ /\ req[m] = "insertQueued"
          /\ status' = [status EXCEPT ![m] = "queued"]
          /\ req' = [req EXCEPT ![m] = "enqueue"]
       \/ /\ req[m] = "insertSuppressed"
          /\ status' = [status EXCEPT ![m] = "suppressed"]
          /\ req' = [req EXCEPT ![m] = "created"]
    /\ UNCHANGED <<scheduled, stale, attempts, blocked, ready, retry, workerVars,
                   recVars, opVars, faults, seenVars>>

EnqueueCreated(m) ==
    /\ req[m] = "enqueue"
    /\ Enqueue(m)
    /\ req' = [req EXCEPT ![m] = "created"]
    /\ UNCHANGED <<rowVars, attempts, blocked, retry, workerVars, recVars, opVars,
                   faults, seenVars>>

\* A call failed, possibly after taking effect, or the process died: the caller
\* sees an error.  (CreateMessage, then this, is a queued row whose INSERT failed late.)
RequestFails(m) ==
    /\ req[m] \notin {"created", "error"}
    /\ Fault
    /\ req' = [req EXCEPT ![m] = "error"]
    /\ \/ UNCHANGED <<status, ready>>
       \/ /\ req[m] = "insertSuppressed"
          /\ status' = [status EXCEPT ![m] = "suppressed"]
          /\ UNCHANGED ready
       \/ req[m] = "enqueue" /\ Enqueue(m) /\ UNCHANGED status
    /\ UNCHANGED <<scheduled, stale, attempts, blocked, retry, workerVars, recVars, opVars,
                   seenVars>>

\* AddSuppression or AddUnsubscribe names the recipient.
BlockRecipient(m) ==
    /\ ~blocked[m]
    /\ blocked' = [blocked EXCEPT ![m] = TRUE]
    /\ UNCHANGED <<rowVars, attempts, ready, retry, req, workerVars, recVars, opVars,
                   faults, seenVars>>

QueueMessage(m) == CheckRecipient(m) \/ CreateMessage(m) \/ EnqueueCreated(m)

----------------------------------------------------------------------------
(* MessageWorker.Run: pop an id and run ProcessOne on it.                  *)

Goto(w, step) ==
    /\ pc' = [pc EXCEPT ![w] = step]
    /\ UNCHANGED <<msg, no, dirtyPop>>

Return(w) ==
    /\ pc' = [pc EXCEPT ![w] = "idle"]
    /\ msg' = [msg EXCEPT ![w] = NoMessage]
    /\ no' = [no EXCEPT ![w] = 0]
    /\ dirtyPop' = [dirtyPop EXCEPT ![w] = FALSE]

\* Dequeue hands out the oldest ready id or a retry that is due.
Dequeue(w, m) ==
    /\ pc[w] = "idle"
    /\ \/ /\ ready # <<>> /\ m = Head(ready)
          /\ ready' = Tail(ready)
          /\ UNCHANGED retry
       \/ /\ retry[m] = "due"
          /\ retry' = [retry EXCEPT ![m] = "none"]
          /\ UNCHANGED ready
    /\ pc' = [pc EXCEPT ![w] = "get"]
    /\ msg' = [msg EXCEPT ![w] = m]
    /\ dirtyPop' = [dirtyPop EXCEPT ![w] = blocked[m]]
    /\ UNCHANGED <<rowVars, attempts, blocked, req, no, recVars, opVars, faults, seenVars>>

GetMessage(w) ==
    /\ pc[w] = "get"
    /\ IF status[msg[w]] = "queued" THEN Goto(w, "check") ELSE Return(w)
    /\ UNCHANGED <<rowVars, attempts, blocked, ready, retry, req, recVars, opVars,
                   faults, seenVars>>

\* Mutant: the worker trusts the check QueueMessage made.
RecheckSkipped(w) ==
    /\ pc[w] = "check"
    /\ Goto(w, "claim")
    /\ UNCHANGED <<rowVars, attempts, blocked, ready, retry, req, recVars, opVars,
                   faults, seenVars>>

RecheckRecipient(w) ==
    /\ pc[w] = "check"
    /\ Goto(w, IF blocked[msg[w]] THEN "suppress" ELSE "claim")
    /\ UNCHANGED <<rowVars, attempts, blocked, ready, retry, req, recVars, opVars,
                   faults, seenVars>>

Suppress(w) ==
    /\ pc[w] = "suppress"
    /\ SetMessageStatus(msg[w], "suppressed")
    /\ Return(w)
    /\ UNCHANGED <<attempts, blocked, ready, retry, req, recVars, opVars, faults, seenVars>>

\* The compare-and-set queued -> sending; the loser returns without an error.
Claim(w) ==
    /\ pc[w] = "claim"
    /\ \/ /\ TransitionMessageStatus(msg[w], "queued", "sending")
          /\ Goto(w, "number")
       \/ /\ status[msg[w]] # "queued"
          /\ UNCHANGED rowVars
          /\ Return(w)
    /\ UNCHANGED <<attempts, blocked, ready, retry, req, recVars, opVars, faults, seenVars>>

\* COALESCE(MAX(attempt_no), 0) + 1
NextAttemptNo(w) ==
    \E n \in {0} \union {a.no : a \in attempts[msg[w]]} :
        /\ \A a \in attempts[msg[w]] : a.no <= n
        /\ no' = [no EXCEPT ![w] = n + 1]

NumberAttempt(w) ==
    /\ pc[w] = "number"
    /\ \/ /\ NextAttemptNo(w)
          /\ pc' = [pc EXCEPT ![w] = "creds"]
          /\ UNCHANGED <<msg, dirtyPop, faults>>
       \/ Fault /\ Goto(w, "retryAt")
    /\ UNCHANGED <<rowVars, attempts, blocked, ready, retry, req, recVars, opVars, seenVars>>

ResolveCredentials(w) ==
    /\ pc[w] = "creds"
    /\ \/ Goto(w, "send") /\ UNCHANGED faults
       \/ Fault /\ Goto(w, "retryAt")
    /\ UNCHANGED <<rowVars, attempts, blocked, ready, retry, req, recVars, opVars, seenVars>>

\* An error may hide an acceptance by the relay; no state of maild can tell.
Send(w) ==
    /\ pc[w] = "send"
    /\ submitted' = [submitted EXCEPT ![msg[w]] = @ + 1]
    /\ \/ /\ acked' = [acked EXCEPT ![msg[w]] = TRUE]
          /\ Goto(w, "logSent")
       \/ UNCHANGED acked /\ Goto(w, "logError")
    /\ UNCHANGED <<rowVars, attempts, blocked, ready, retry, req, recVars, opVars,
                   faults, retried, clobbered>>

\* InsertAttempt: any error, a taken attempt number included, leads to "unknown".
RecordAttempt(w, ok, next) ==
    /\ \/ /\ InsertAttempt(msg[w], no[w], ok)
          /\ \/ Goto(w, next) /\ UNCHANGED faults
             \/ Fault /\ Goto(w, "markUnknown")
       \/ /\ UNCHANGED attempts
          /\ Goto(w, "markUnknown")
          /\ \/ \E a \in attempts[msg[w]] : a.no = no[w] /\ UNCHANGED faults
             \/ Fault
    /\ UNCHANGED <<rowVars, blocked, ready, retry, req, recVars, opVars, seenVars>>

\* Mutant: a success is reported without its attempt row.
LogSentSkipped(w) ==
    /\ pc[w] = "logSent"
    /\ Goto(w, "markSent")
    /\ UNCHANGED <<rowVars, attempts, blocked, ready, retry, req, recVars, opVars, faults,
                   seenVars>>

LogSent(w) ==
    /\ pc[w] = "logSent"
    /\ RecordAttempt(w, TRUE, "markSent")

LogErrorLate(w) ==
    /\ pc[w] = "logError"
    /\ RecordAttempt(w, FALSE, IF no[w] > MaxAttempts THEN "markFailed" ELSE "retryAt")

LogError(w) ==
    /\ pc[w] = "logError"
    /\ RecordAttempt(w, FALSE, IF no[w] >= MaxAttempts THEN "markFailed" ELSE "retryAt")

MarkSent(w) ==
    /\ pc[w] = "markSent"
    /\ \/ SetMessageStatus(msg[w], "sent") /\ Return(w) /\ UNCHANGED faults
       \/ /\ SetMessageStatus(msg[w], "sent") \/ UNCHANGED rowVars
          /\ Fault
          /\ Goto(w, "markUnknown")
    /\ UNCHANGED <<attempts, blocked, ready, retry, req, recVars, opVars, seenVars>>

MarkUnknown(w) ==
    /\ pc[w] = "markUnknown"
    /\ SetMessageStatus(msg[w], "unknown")
    /\ Return(w)
    /\ UNCHANGED <<attempts, blocked, ready, retry, req, recVars, opVars, faults, seenVars>>

\* sending -> failed; ErrMessageClaimLost when the claim has expired meanwhile.
MarkFailed(w) ==
    /\ pc[w] = "markFailed"
    /\ \/ TransitionMessageStatus(msg[w], "sending", "failed")
       \/ status[msg[w]] # "sending" /\ UNCHANGED rowVars
    /\ Return(w)
    /\ UNCHANGED <<attempts, blocked, ready, retry, req, recVars, opVars, faults, seenVars>>

\* scheduleRetryState: the row first, then the delayed entry in Redis.
ScheduleRetryState(w) ==
    /\ \/ /\ pc[w] = "retryAt"
          /\ \/ SetMessageRetryAt(msg[w]) /\ Goto(w, "schedule")
             \/ status[msg[w]] # "sending" /\ UNCHANGED rowVars /\ Return(w)
          /\ UNCHANGED retry
       \/ /\ pc[w] = "schedule"
          /\ retry' = [retry EXCEPT ![msg[w]] = "future"]
          /\ Return(w)
          /\ UNCHANGED rowVars
    /\ UNCHANGED <<attempts, blocked, ready, req, recVars, opVars, faults, seenVars>>

\* A call whose error ProcessOne only returns, a cancelled context, or a crash:
\* the popped id is gone and the row stays as the last statement left it.
Abandon(w) ==
    /\ pc[w] # "idle"
    /\ Fault
    /\ Return(w)
    /\ UNCHANGED <<rowVars, attempts, blocked, ready, retry, req, recVars, opVars, seenVars>>

ProcessOne(w) ==
    \/ GetMessage(w) \/ RecheckRecipient(w) \/ Suppress(w) \/ Claim(w)
    \/ NumberAttempt(w) \/ ResolveCredentials(w) \/ Send(w) \/ LogSent(w) \/ LogError(w)
    \/ MarkSent(w) \/ MarkUnknown(w) \/ MarkFailed(w) \/ ScheduleRetryState(w)

----------------------------------------------------------------------------
(* RecoverQueue, run at start-up and every 30 seconds.                     *)

\* Mutant: an expired claim is requeued instead of marked unknown.
MarkStaleSendingQueued(r) ==
    LET expired == {m \in Messages : status[m] = "sending" /\ stale[m]}
    IN  /\ recPc[r] = "idle"
        /\ status' = [m \in Messages |-> IF m \in expired THEN "queued" ELSE status[m]]
        /\ stale' = [m \in Messages |-> stale[m] /\ m \notin expired]
        /\ recPc' = [recPc EXCEPT ![r] = "claim"]
        /\ UNCHANGED <<scheduled, attempts, blocked, ready, retry, req, workerVars,
                       recIds, opVars, faults, seenVars>>

MarkStaleSendingUnknown(r) ==
    LET expired == {m \in Messages : status[m] = "sending" /\ stale[m]}
    IN  /\ recPc[r] = "idle"
        /\ status' = [m \in Messages |-> IF m \in expired THEN "unknown" ELSE status[m]]
        /\ stale' = [m \in Messages |-> stale[m] /\ m \notin expired]
        /\ recPc' = [recPc EXCEPT ![r] = "claim"]
        /\ UNCHANGED <<scheduled, attempts, blocked, ready, retry, req, workerVars,
                       recIds, opVars, faults, seenVars>>

\* Mutant: scheduled_at <= now() without IS NULL OR.
RecoveryCandidatesScheduled ==
    {m \in Messages : status[m] = "queued" /\ stale[m] /\ scheduled[m] = "due"}

RecoveryCandidates ==
    {m \in Messages : status[m] = "queued" /\ stale[m] /\ scheduled[m] # "future"}

\* Ages are not ordered here: at the limit any batch of that size may be taken.
ClaimQueuedMessagesForRecovery(r) ==
    /\ recPc[r] = "claim"
    /\ \E ids \in SUBSET RecoveryCandidates :
        /\ \/ ids = RecoveryCandidates /\ Cardinality(ids) <= RecoveryLimit
           \/ ids # RecoveryCandidates /\ Cardinality(ids) = RecoveryLimit
        /\ stale' = [m \in Messages |-> stale[m] /\ m \notin ids]
        /\ scheduled' = [m \in Messages |-> IF m \in ids THEN "null" ELSE scheduled[m]]
        /\ recIds' = [recIds EXCEPT ![r] = ids]
        /\ recPc' = [recPc EXCEPT ![r] = IF ids = {} THEN "idle" ELSE "enqueue"]
    /\ UNCHANGED <<status, attempts, blocked, ready, retry, req, workerVars, opVars,
                   faults, seenVars>>

EnqueueRecovered(r) ==
    /\ recPc[r] = "enqueue"
    /\ \E m \in recIds[r] :
        /\ \A k \in recIds[r] : m <= k
        /\ Enqueue(m)
        /\ recIds' = [recIds EXCEPT ![r] = @ \ {m}]
        /\ recPc' = [recPc EXCEPT ![r] = IF recIds[r] = {m} THEN "idle" ELSE "enqueue"]
    /\ UNCHANGED <<rowVars, attempts, blocked, retry, req, workerVars, opVars, faults,
                   seenVars>>

\* An error ends the pass; the remaining ids wait for the next grace period.
RecoveryFails(r) ==
    /\ recPc[r] # "idle"
    /\ Fault
    /\ recPc' = [recPc EXCEPT ![r] = "idle"]
    /\ recIds' = [recIds EXCEPT ![r] = {}]
    /\ UNCHANGED <<rowVars, attempts, blocked, ready, retry, req, workerVars, opVars,
                   seenVars>>

RecoverQueue(r) ==
    MarkStaleSendingUnknown(r) \/ ClaimQueuedMessagesForRecovery(r) \/ EnqueueRecovered(r)

----------------------------------------------------------------------------
(* RetryMessages: retryMessage on one id of the operator's list.           *)

OpReturn(o) ==
    /\ opPc' = [opPc EXCEPT ![o] = "idle"]
    /\ opMsg' = [opMsg EXCEPT ![o] = NoMessage]

\* The status is read here and may be stale by the time of the transition.
RetryRead(o, m) ==
    /\ opPc[o] = "idle"
    /\ status[m] = "failed"
    /\ retried[m] < MaxRetries
    /\ opPc' = [opPc EXCEPT ![o] = "transition"]
    /\ opMsg' = [opMsg EXCEPT ![o] = m]
    /\ UNCHANGED <<rowVars, attempts, blocked, ready, retry, req, workerVars, recVars,
                   faults, seenVars>>

RetryTransition(o) ==
    LET m == opMsg[o]
    IN  /\ opPc[o] = "transition"
        /\ \/ /\ TransitionMessageStatus(m, "failed", "queued")
              /\ opPc' = [opPc EXCEPT ![o] = "enqueue"]
              /\ retried' = [retried EXCEPT ![m] = @ + 1]
              /\ UNCHANGED opMsg
           \/ /\ status[m] # "failed"
              /\ OpReturn(o)
              /\ UNCHANGED <<rowVars, retried>>
        /\ UNCHANGED <<attempts, blocked, ready, retry, req, workerVars, recVars, faults,
                       submitted, acked, clobbered>>

RetryEnqueue(o) ==
    /\ opPc[o] = "enqueue"
    /\ \/ Enqueue(opMsg[o]) /\ OpReturn(o) /\ UNCHANGED faults
       \/ /\ Enqueue(opMsg[o]) \/ UNCHANGED ready
          /\ Fault
          /\ opPc' = [opPc EXCEPT ![o] = "revert"]
          /\ UNCHANGED opMsg
    /\ UNCHANGED <<rowVars, attempts, blocked, retry, req, workerVars, recVars, seenVars>>

\* The roll-back does not look at the status it overwrites.
RetryRevert(o) ==
    LET m == opMsg[o]
    IN  /\ opPc[o] = "revert"
        /\ SetMessageStatus(m, "failed")
        /\ clobbered' = [clobbered EXCEPT ![m] = @ \/ status[m] \notin {"queued", "failed"}]
        /\ OpReturn(o)
        /\ UNCHANGED <<attempts, blocked, ready, retry, req, workerVars, recVars, faults,
                       submitted, acked, retried>>

RetryFails(o) ==
    /\ opPc[o] # "idle"
    /\ Fault
    /\ OpReturn(o)
    /\ UNCHANGED <<rowVars, attempts, blocked, ready, retry, req, workerVars, recVars,
                   seenVars>>

RetryMessage(o) == RetryTransition(o) \/ RetryEnqueue(o) \/ RetryRevert(o)

----------------------------------------------------------------------------
(* The passage of time, and Redis restarting without its data.             *)

Copies(m) == Cardinality({i \in DOMAIN ready : ready[i] = m})

Age(m) ==
    /\ status[m] = "sending" \/ (status[m] = "queued" /\ Copies(m) < MaxCopies)
    /\ ~stale[m]
    /\ stale' = [stale EXCEPT ![m] = TRUE]
    /\ UNCHANGED <<status, scheduled, attempts, blocked, ready, retry, req, workerVars,
                   recVars, opVars, faults, seenVars>>

\* The row and the Redis entry come due by different clocks.
RowDue(m) ==
    /\ scheduled[m] = "future"
    /\ scheduled' = [scheduled EXCEPT ![m] = "due"]
    /\ UNCHANGED <<status, stale, attempts, blocked, ready, retry, req, workerVars,
                   recVars, opVars, faults, seenVars>>

EntryDue(m) ==
    /\ retry[m] = "future"
    /\ retry' = [retry EXCEPT ![m] = "due"]
    /\ UNCHANGED <<rowVars, attempts, blocked, ready, req, workerVars, recVars, opVars,
                   faults, seenVars>>

QueueLost ==
    /\ Fault
    /\ ready' = <<>>
    /\ retry' = [m \in Messages |-> "none"]
    /\ UNCHANGED <<rowVars, attempts, blocked, req, workerVars, recVars, opVars, seenVars>>

----------------------------------------------------------------------------
Next ==
    \/ \E m \in Messages :
        QueueMessage(m) \/ RequestFails(m) \/ BlockRecipient(m) \/ Age(m) \/ RowDue(m)
        \/ EntryDue(m)
    \/ \E w \in Workers :
        (\E m \in Messages : Dequeue(w, m)) \/ ProcessOne(w) \/ Abandon(w)
    \/ \E r \in Recoverers : RecoverQueue(r) \/ RecoveryFails(r)
    \/ \E o \in Operators :
        (\E m \in Messages : RetryRead(o, m)) \/ RetryMessage(o) \/ RetryFails(o)
    \/ QueueLost

Spec == Init /\ [][Next]_vars

\* The loops of a running process keep taking steps, calls return and time
\* passes.  Nobody has to call the API, block a recipient or fail.
Fairness ==
    /\ \A w \in Workers :
        WF_vars((\E m \in Messages : Dequeue(w, m)) \/ ProcessOne(w))
    /\ \A r \in Recoverers : WF_vars(RecoverQueue(r))
    /\ \A o \in Operators : WF_vars(RetryMessage(o))
    /\ \A m \in Messages : WF_vars(Age(m)) /\ WF_vars(RowDue(m)) /\ WF_vars(EntryDue(m))

FairSpec == Spec /\ Fairness

----------------------------------------------------------------------------
(* Properties.                                                             *)

Owns(w, m) == msg[w] = m /\ pc[w] \in Owning

\* The claim of ProcessOne (TransitionMessageStatus queued -> sending) admits one
\* worker at a time, whatever duplicates recovery, retries and lost calls leave in
\* Redis, as long as no retry roll-back has overwritten a live status.
ClaimExclusive ==
    \A m \in Messages : \A v, w \in Workers :
        ~clobbered[m] /\ Owns(v, m) /\ Owns(w, m) => v = w

\* Once Send has returned nil, ProcessOne, RecoverQueue and RetryMessages never
\* bring the message back to Send: neither its row nor any worker is on the way
\* there (with the same proviso about the roll-back).
NoResendAfterAck ==
    \A m \in Messages : acked[m] /\ ~clobbered[m] =>
        /\ status[m] \notin {"none", "queued", "failed"}
        /\ \A w \in Workers : msg[w] = m => pc[w] \notin {"number", "creds", "send"}

\* A row reads "sent" only if the relay accepted the message and message_attempts
\* holds a successful attempt, so the timeline can always show it.
SentIsRecorded ==
    \A m \in Messages :
        status[m] = "sent" => acked[m] /\ \E a \in attempts[m] : a.ok

\* MAX(attempt_no) + 1 and the unique index keep attempt numbers dense: 1..n, one
\* row each, even when two workers number an attempt of the message concurrently.
AttemptsDense ==
    \A m \in Messages :
        /\ {a.no : a \in attempts[m]} = 1 .. Cardinality(attempts[m])
        /\ \A a, b \in attempts[m] : a.no = b.no => a = b

\* A message is given up ("failed") only after maxAttempts recorded attempts.
FailedAfterBudget ==
    \A m \in Messages :
        status[m] = "failed" => Cardinality(attempts[m]) >= MaxAttempts

\* Whatever is lost, duplicated or abandoned, Send is called at most maxAttempts
\* times for a message, plus once for every manual retry that took effect.
SubmissionBudget ==
    \A m \in Messages : submitted[m] <= MaxAttempts + retried[m]

\* scheduled_at is set only on queued rows: every other status write clears it, so
\* a later requeue is never hidden from recovery by an old schedule.
ScheduleOnlyWhileQueued ==
    \A m \in Messages : scheduled[m] # "null" => status[m] = "queued"

\* A recipient suppressed before a worker takes the id off the queue is never
\* submitted to SMTP by that worker (ProcessOne re-checks both lists).
BlockedIsNotSubmitted ==
    \A w \in Workers : pc[w] \in Owning => ~dirtyPop[w]

\* An unknown, sent or suppressed message is never queued again by maild itself:
\* recovery and late workers only move it among those three outcomes.
OutcomeIsFinal ==
    [][\A m \in Messages :
        status[m] \in {"unknown", "sent", "suppressed"} /\ ~clobbered'[m] =>
            status'[m] \in {"unknown", "sent", "suppressed"}]_vars

\* Every queued or sending message settles, although the enqueue, the popped id,
\* the claim or the retry entry may be lost: recovery and the lease see to it.
EveryMessageSettles ==
    \A m \in Messages :
        status[m] \in {"queued", "sending"} ~> status[m] \in Settled

\* An id is in Redis, or on its way there, only if its row is committed: no
\* worker ever meets an id without a message behind it.
EntriesHaveRows ==
    \A m \in Messages :
        \/ \E i \in DOMAIN ready : ready[i] = m
        \/ retry[m] # "none"
        \/ \E r \in Recoverers : m \in recIds[r]
        \/ \E w \in Workers : msg[w] = m
        => status[m] # "none"

----------------------------------------------------------------------------
(* What the documentation says and the code does not keep.                 *)

\* README.md: a duplicate is possible "when an SMTP send returns an error".  Read
\* the other way: a message whose Send returned nil is not submitted again.
AckedIsNeverResubmitted ==
    [][\A m \in Messages : acked[m] => submitted'[m] = submitted[m]]_vars

\* README.md on 500: "maild could not queue or process the request."
ErrorMeansNotSubmitted ==
    \A m \in Messages : req[m] = "error" => submitted[m] = 0

\* The landing page: "exponential backoff", "Retries are scheduled": a retry is
\* not claimed while both its scheduled_at and its delayed entry lie in the future.
BackoffIsKept ==
    [][\A m \in Messages :
        status[m] = "queued" /\ status'[m] = "sending" /\ scheduled[m] = "future" =>
            retry[m] # "future"]_vars

============================================================================
