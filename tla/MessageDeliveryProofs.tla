---------------------- MODULE MessageDeliveryProofs ------------------------
(***************************************************************************)
(* Theorems about MessageDelivery for every set of messages, workers,      *)
(* recovery loops and operators, and every value of the bounds.            *)
(***************************************************************************)
EXTENDS MessageDelivery, TLAPS

(* Type correctness.  TypeOK is inductive once a step in progress is known *)
(* to have a message in hand.  It is proved by groups of variables.        *)

RowTyped ==
    /\ status \in [Messages -> Statuses]
    /\ scheduled \in [Messages -> {"null", "future", "due"}]
    /\ stale \in [Messages -> BOOLEAN]

QueueTyped ==
    /\ ready \in Seq(Messages)
    /\ retry \in [Messages -> {"none", "future", "due"}]

RequestTyped ==
    /\ req \in [Messages -> {"new", "insertQueued", "insertSuppressed", "enqueue",
                             "created", "error"}]
    /\ blocked \in [Messages -> BOOLEAN]
    /\ faults \in Nat

WorkerTyped ==
    /\ pc \in [Workers -> WorkerSteps]
    /\ msg \in [Workers -> Messages \union {NoMessage}]
    /\ no \in [Workers -> Nat]
    /\ dirtyPop \in [Workers -> BOOLEAN]
    /\ \A w \in Workers : pc[w] # "idle" => msg[w] \in Messages

LoopTyped ==
    /\ recPc \in [Recoverers -> {"idle", "claim", "enqueue"}]
    /\ recIds \in [Recoverers -> SUBSET Messages]

OpTyped ==
    /\ opPc \in [Operators -> {"idle", "transition", "enqueue", "revert"}]
    /\ opMsg \in [Operators -> Messages \union {NoMessage}]
    /\ \A o \in Operators : opPc[o] # "idle" => opMsg[o] \in Messages

SeenTyped ==
    /\ attempts \in [Messages -> SUBSET Attempt]
    /\ submitted \in [Messages -> Nat]
    /\ acked \in [Messages -> BOOLEAN]
    /\ retried \in [Messages -> Nat]
    /\ clobbered \in [Messages -> BOOLEAN]

Typed ==
    /\ RowTyped /\ QueueTyped /\ RequestTyped /\ WorkerTyped
    /\ LoopTyped /\ OpTyped /\ SeenTyped

\* What the groups say together is TypeOK, and that a step has a message in hand.
LEMMA TypedIsTypeOK == Typed => TypeOK
  BY DEF Typed, RowTyped, QueueTyped, RequestTyped, WorkerTyped, LoopTyped, OpTyped,
         SeenTyped, TypeOK

----------------------------------------------------------------------------
(* The building blocks of the actions keep their group typed.              *)

\* SetMessageStatus keeps a row well-typed.
LEMMA SetStatusTyped ==
    ASSUME RowTyped, NEW m \in Messages, NEW s \in Statuses, SetMessageStatus(m, s)
    PROVE  RowTyped'
  BY DEF RowTyped, SetMessageStatus

\* SetMessageRetryAt keeps a row well-typed.
LEMMA RetryAtTyped ==
    ASSUME RowTyped, NEW m \in Messages, SetMessageRetryAt(m)
    PROVE  RowTyped'
  BY DEF RowTyped, SetMessageRetryAt, Statuses

\* A worker that goes on to another step of ProcessOne keeps its message.
LEMMA GotoTyped ==
    ASSUME WorkerTyped, NEW w \in Workers, NEW s \in WorkerSteps, pc[w] # "idle", Goto(w, s)
    PROVE  WorkerTyped'
  BY DEF WorkerTyped, Goto

\* A worker that returns from ProcessOne is idle and well-typed.
LEMMA ReturnTyped ==
    ASSUME WorkerTyped, NEW w \in Workers, Return(w)
    PROVE  WorkerTyped'
<1>1. "idle" \in WorkerSteps
  BY DEF WorkerSteps
<1> QED
  BY <1>1 DEF WorkerTyped, Return

\* LPUSH keeps the ready list a list of message ids.
LEMMA EnqueueTyped ==
    ASSUME ready \in Seq(Messages), NEW m \in Messages, Enqueue(m)
    PROVE  ready' \in Seq(Messages)
  BY DEF Enqueue

\* A retryMessage call that returns leaves its caller idle.
LEMMA OpReturnTyped ==
    ASSUME OpTyped, NEW o \in Operators, OpReturn(o)
    PROVE  OpTyped'
  BY DEF OpTyped, OpReturn

\* An attempt row is a number with an outcome.
LEMMA InsertTyped ==
    ASSUME attempts \in [Messages -> SUBSET Attempt], NEW m \in Messages, NEW n \in Nat,
           NEW ok \in BOOLEAN, InsertAttempt(m, n, ok)
    PROVE  attempts' \in [Messages -> SUBSET Attempt]
<1>1. [no |-> n, ok |-> ok] \in Attempt
  BY DEF Attempt
<1> QED
  BY <1>1 DEF InsertAttempt

----------------------------------------------------------------------------
(* Every action keeps every group typed.                                   *)

\* maild starts with an empty, well-typed state.
LEMMA InitTyped == Init => Typed
  BY DEF Init, Typed, RowTyped, QueueTyped, RequestTyped, WorkerTyped, LoopTyped, OpTyped,
         SeenTyped, Statuses, WorkerSteps, NoMessage

\* The statements of all handlers keep the message rows well-typed.
LEMMA RowStep == Typed /\ Next => RowTyped'
<1> SUFFICES ASSUME Typed, Next PROVE RowTyped'
  OBVIOUS
<1>0. RowTyped /\ WorkerTyped /\ OpTyped
  BY DEF Typed
<1>s. {"queued", "sending", "sent", "failed", "suppressed", "unknown"} \subseteq Statuses
  BY DEF Statuses
<1>u. UNCHANGED rowVars => RowTyped'
  BY <1>0 DEF RowTyped, rowVars
<1>1. ASSUME NEW m \in Messages, QueueMessage(m) \/ RequestFails(m) PROVE RowTyped'
  <2>1. CASE CheckRecipient(m) \/ EnqueueCreated(m)
    BY <2>1, <1>u DEF CheckRecipient, EnqueueCreated
  <2>2. CASE CreateMessage(m) \/ RequestFails(m)
    <3>1. scheduled' = scheduled /\ stale' = stale
      BY <2>2 DEF CreateMessage, RequestFails
    <3>2. \/ status' = status
          \/ status' = [status EXCEPT ![m] = "queued"]
          \/ status' = [status EXCEPT ![m] = "suppressed"]
      BY <2>2 DEF CreateMessage, RequestFails
    <3>3. status' \in [Messages -> Statuses]
      <4>1. CASE status' = status
        BY <4>1, <1>0 DEF RowTyped
      <4>2. CASE status' = [status EXCEPT ![m] = "queued"]
        BY <4>2, <1>0, <1>s DEF RowTyped
      <4>3. CASE status' = [status EXCEPT ![m] = "suppressed"]
        BY <4>3, <1>0, <1>s DEF RowTyped
      <4> QED BY <3>2, <4>1, <4>2, <4>3
    <3> QED BY <3>1, <3>3, <1>0 DEF RowTyped
  <2> QED BY <1>1, <2>1, <2>2 DEF QueueMessage
<1>2. ASSUME NEW m \in Messages, BlockRecipient(m) \/ Age(m) \/ RowDue(m) \/ EntryDue(m)
      PROVE  RowTyped'
  <2>1. CASE BlockRecipient(m) \/ EntryDue(m)
    BY <2>1, <1>u DEF BlockRecipient, EntryDue
  <2>2. CASE Age(m)
    BY <2>2, <1>0 DEF Age, RowTyped
  <2>3. CASE RowDue(m)
    BY <2>3, <1>0 DEF RowDue, RowTyped
  <2> QED BY <1>2, <2>1, <2>2, <2>3
<1>3. ASSUME NEW w \in Workers, NEW m \in Messages, Dequeue(w, m) PROVE RowTyped'
  BY <1>3, <1>u DEF Dequeue
<1>4. ASSUME NEW w \in Workers, ProcessOne(w) \/ Abandon(w) PROVE RowTyped'
  <2>1. pc[w] # "idle" => msg[w] \in Messages
    BY <1>0 DEF WorkerTyped
  <2>2. CASE GetMessage(w) \/ RecheckRecipient(w) \/ NumberAttempt(w) \/ ResolveCredentials(w)
             \/ Send(w) \/ LogSent(w) \/ LogError(w) \/ Abandon(w)
    BY <2>2, <1>u, Zenon DEF GetMessage, RecheckRecipient, NumberAttempt, ResolveCredentials, Send,
                      LogSent, LogError, RecordAttempt, Abandon
  <2>3. CASE Suppress(w)
    BY <2>3, <2>1, <1>0, <1>s, SetStatusTyped DEF Suppress
  <2>4. CASE Claim(w)
    BY <2>4, <2>1, <1>0, <1>s, <1>u, SetStatusTyped DEF Claim, TransitionMessageStatus
  <2>5. CASE MarkSent(w)
    BY <2>5, <2>1, <1>0, <1>s, <1>u, SetStatusTyped DEF MarkSent
  <2>6. CASE MarkUnknown(w)
    BY <2>6, <2>1, <1>0, <1>s, SetStatusTyped DEF MarkUnknown
  <2>7. CASE MarkFailed(w)
    BY <2>7, <2>1, <1>0, <1>s, <1>u, SetStatusTyped DEF MarkFailed, TransitionMessageStatus
  <2>8. CASE ScheduleRetryState(w)
    BY <2>8, <2>1, <1>0, <1>u, RetryAtTyped DEF ScheduleRetryState
  <2> QED BY <1>4, <2>2, <2>3, <2>4, <2>5, <2>6, <2>7, <2>8 DEF ProcessOne
<1>5. ASSUME NEW r \in Recoverers, RecoverQueue(r) \/ RecoveryFails(r) PROVE RowTyped'
  <2>1. CASE EnqueueRecovered(r) \/ RecoveryFails(r)
    BY <2>1, <1>u DEF EnqueueRecovered, RecoveryFails
  <2>2. CASE MarkStaleSendingUnknown(r)
    BY <2>2, <1>0, <1>s DEF MarkStaleSendingUnknown, RowTyped
  <2>3. CASE ClaimQueuedMessagesForRecovery(r)
    BY <2>3, <1>0 DEF ClaimQueuedMessagesForRecovery, RowTyped
  <2> QED BY <1>5, <2>1, <2>2, <2>3 DEF RecoverQueue
<1>6. ASSUME NEW o \in Operators, NEW m \in Messages, RetryRead(o, m) PROVE RowTyped'
  BY <1>6, <1>u DEF RetryRead
<1>7. ASSUME NEW o \in Operators, RetryMessage(o) \/ RetryFails(o) PROVE RowTyped'
  <2>1. opPc[o] # "idle" => opMsg[o] \in Messages
    BY <1>0 DEF OpTyped
  <2>2. CASE RetryEnqueue(o) \/ RetryFails(o)
    BY <2>2, <1>u DEF RetryEnqueue, RetryFails
  <2>3. CASE RetryTransition(o)
    BY <2>3, <2>1, <1>0, <1>s, <1>u, SetStatusTyped DEF RetryTransition, TransitionMessageStatus
  <2>4. CASE RetryRevert(o)
    BY <2>4, <2>1, <1>0, <1>s, SetStatusTyped DEF RetryRevert
  <2> QED BY <1>7, <2>2, <2>3, <2>4 DEF RetryMessage
<1>8. CASE QueueLost
  BY <1>8, <1>u DEF QueueLost
<1> QED
  BY <1>1, <1>2, <1>3, <1>4, <1>5, <1>6, <1>7, <1>8 DEF Next

\* The Redis operations of all handlers keep list and retry set well-typed.
LEMMA QueueStep == Typed /\ Next => QueueTyped'
<1> SUFFICES ASSUME Typed, Next PROVE QueueTyped'
  OBVIOUS
<1>0. QueueTyped /\ WorkerTyped /\ OpTyped /\ LoopTyped
  BY DEF Typed
<1>u. UNCHANGED <<ready, retry>> => QueueTyped'
  BY <1>0 DEF QueueTyped
<1>e. ASSUME NEW m \in Messages, Enqueue(m), UNCHANGED retry PROVE QueueTyped'
  BY <1>0, <1>e, EnqueueTyped DEF QueueTyped
<1>1. ASSUME NEW m \in Messages, QueueMessage(m) \/ RequestFails(m) \/ BlockRecipient(m)
                                 \/ Age(m) \/ RowDue(m)
      PROVE  QueueTyped'
  BY <1>1, <1>u, <1>e DEF QueueMessage, CheckRecipient, CreateMessage, EnqueueCreated,
       RequestFails, BlockRecipient, Age, RowDue
<1>2. ASSUME NEW m \in Messages, EntryDue(m) PROVE QueueTyped'
  BY <1>2, <1>0 DEF EntryDue, QueueTyped
<1>3. ASSUME NEW w \in Workers, NEW m \in Messages, Dequeue(w, m) PROVE QueueTyped'
  <2>1. CASE ready # <<>> /\ ready' = Tail(ready) /\ UNCHANGED retry
    BY <2>1, <1>0 DEF QueueTyped
  <2>2. CASE retry' = [retry EXCEPT ![m] = "none"] /\ UNCHANGED ready
    BY <2>2, <1>0 DEF QueueTyped
  <2> QED BY <1>3, <2>1, <2>2 DEF Dequeue
<1>4. ASSUME NEW w \in Workers, ProcessOne(w) \/ Abandon(w) PROVE QueueTyped'
  <2>1. CASE ScheduleRetryState(w)
    <3>1. CASE UNCHANGED retry
      BY <2>1, <3>1, <1>u DEF ScheduleRetryState
    <3>2. CASE retry' = [retry EXCEPT ![msg[w]] = "future"]
      BY <2>1, <3>2, <1>0, Zenon DEF ScheduleRetryState, QueueTyped
    <3> QED BY <2>1, <3>1, <3>2 DEF ScheduleRetryState
  <2> QED
    BY <1>4, <2>1, <1>u, Zenon DEF ProcessOne, GetMessage, RecheckRecipient, Suppress, Claim,
         NumberAttempt, ResolveCredentials, Send, LogSent, LogError, RecordAttempt, MarkSent,
         MarkUnknown, MarkFailed, Abandon
<1>5. ASSUME NEW r \in Recoverers, RecoverQueue(r) \/ RecoveryFails(r) PROVE QueueTyped'
  <2>1. recIds[r] \subseteq Messages
    BY <1>0 DEF LoopTyped
  <2> QED
    BY <1>5, <2>1, <1>u, <1>e DEF RecoverQueue, MarkStaleSendingUnknown,
         ClaimQueuedMessagesForRecovery, EnqueueRecovered, RecoveryFails
<1>6. ASSUME NEW o \in Operators, NEW m \in Messages, RetryRead(o, m) PROVE QueueTyped'
  BY <1>6, <1>u, Zenon DEF RetryRead
<1>7. ASSUME NEW o \in Operators, RetryMessage(o) \/ RetryFails(o) PROVE QueueTyped'
  <2>1. opPc[o] # "idle" => opMsg[o] \in Messages
    BY <1>0 DEF OpTyped
  <2> QED
    BY <1>7, <2>1, <1>u, <1>e DEF RetryMessage, RetryTransition, RetryEnqueue, RetryRevert,
         RetryFails
<1>8. CASE QueueLost
  BY <1>8 DEF QueueLost, QueueTyped
<1> QED
  BY <1>1, <1>2, <1>3, <1>4, <1>5, <1>6, <1>7, <1>8 DEF Next

\* Requests, the recipient lists and the fault counter stay well-typed.
LEMMA RequestStep == Typed /\ Next => RequestTyped'
<1> SUFFICES ASSUME Typed, Next PROVE RequestTyped'
  OBVIOUS
<1>0. RequestTyped
  BY DEF Typed
<1>u. UNCHANGED <<req, blocked>> /\ (Fault \/ UNCHANGED faults) => RequestTyped'
  BY <1>0 DEF RequestTyped, Fault
<1>1. ASSUME NEW m \in Messages, QueueMessage(m) \/ RequestFails(m) \/ BlockRecipient(m)
                                 \/ Age(m) \/ RowDue(m) \/ EntryDue(m)
      PROVE  RequestTyped'
  <2>1. CASE CheckRecipient(m)
    BY <2>1, <1>0 DEF CheckRecipient, RequestTyped
  <2>2. CASE CreateMessage(m)
    <3>1. CASE req' = [req EXCEPT ![m] = "enqueue"]
      BY <2>2, <3>1, <1>0 DEF CreateMessage, RequestTyped
    <3>2. CASE req' = [req EXCEPT ![m] = "created"]
      BY <2>2, <3>2, <1>0 DEF CreateMessage, RequestTyped
    <3> QED BY <2>2, <3>1, <3>2 DEF CreateMessage
  <2>3. CASE EnqueueCreated(m)
    BY <2>3, <1>0 DEF EnqueueCreated, RequestTyped
  <2>4. CASE RequestFails(m)
    BY <2>4, <1>0 DEF RequestFails, Fault, RequestTyped
  <2>5. CASE BlockRecipient(m)
    BY <2>5, <1>0 DEF BlockRecipient, RequestTyped
  <2>6. CASE Age(m) \/ RowDue(m) \/ EntryDue(m)
    BY <2>6, <1>u DEF Age, RowDue, EntryDue
  <2> QED BY <1>1, <2>1, <2>2, <2>3, <2>4, <2>5, <2>6 DEF QueueMessage
<1>2. ASSUME NEW w \in Workers, (\E m \in Messages : Dequeue(w, m)) \/ ProcessOne(w) \/ Abandon(w)
      PROVE  RequestTyped'
  BY <1>2, <1>u, Zenon DEF Dequeue, ProcessOne, GetMessage, RecheckRecipient, Suppress, Claim,
       NumberAttempt, ResolveCredentials, Send, LogSent, LogError, RecordAttempt, MarkSent,
       MarkUnknown, MarkFailed, ScheduleRetryState, Abandon
<1>3. ASSUME NEW r \in Recoverers, RecoverQueue(r) \/ RecoveryFails(r) PROVE RequestTyped'
  BY <1>3, <1>u DEF RecoverQueue, MarkStaleSendingUnknown, ClaimQueuedMessagesForRecovery,
       EnqueueRecovered, RecoveryFails
<1>4. ASSUME NEW o \in Operators,
             (\E m \in Messages : RetryRead(o, m)) \/ RetryMessage(o) \/ RetryFails(o)
      PROVE  RequestTyped'
  BY <1>4, <1>u DEF RetryRead, RetryMessage, RetryTransition, RetryEnqueue, RetryRevert, RetryFails
<1>5. CASE QueueLost
  BY <1>5, <1>u DEF QueueLost
<1> QED
  BY <1>1, <1>2, <1>3, <1>4, <1>5 DEF Next

\* A worker's locals stay well-typed through Run and ProcessOne.
LEMMA WorkerStep == Typed /\ Next => WorkerTyped'
<1> SUFFICES ASSUME Typed, Next PROVE WorkerTyped'
  OBVIOUS
<1>0. WorkerTyped
  BY DEF Typed
<1>u. UNCHANGED workerVars => WorkerTyped'
  BY <1>0 DEF WorkerTyped, workerVars
<1>1. ASSUME NEW m \in Messages, QueueMessage(m) \/ RequestFails(m) \/ BlockRecipient(m)
                                 \/ Age(m) \/ RowDue(m) \/ EntryDue(m)
      PROVE  WorkerTyped'
  BY <1>1, <1>u DEF QueueMessage, CheckRecipient, CreateMessage, EnqueueCreated, RequestFails,
       BlockRecipient, Age, RowDue, EntryDue
<1>2. ASSUME NEW w \in Workers, NEW m \in Messages, Dequeue(w, m) PROVE WorkerTyped'
  <2>1. "get" \in WorkerSteps /\ blocked[m] \in BOOLEAN
    BY DEF WorkerSteps, Typed, RequestTyped
  <2> QED BY <1>2, <2>1, <1>0 DEF Dequeue, WorkerTyped
<1>3. ASSUME NEW w \in Workers, ProcessOne(w) \/ Abandon(w) PROVE WorkerTyped'
  <2>g. ASSUME NEW s \in WorkerSteps, pc[w] # "idle", Goto(w, s) PROVE WorkerTyped'
    BY <2>g, <1>0, GotoTyped
  <2>r. Return(w) => WorkerTyped'
    BY <1>0, ReturnTyped
  <2>s. Owning \union {"check", "suppress", "claim", "schedule"} \subseteq WorkerSteps
    BY DEF WorkerSteps
  <2>o. {"number", "send", "logSent", "markSent", "logError", "markFailed", "retryAt",
         "markUnknown"} \subseteq Owning
    BY DEF Owning
  <2>1. CASE GetMessage(w)
    BY <2>1, <2>g, <2>r, <2>s DEF GetMessage
  <2>2. CASE RecheckRecipient(w)
    BY <2>2, <2>g, <2>s, Zenon DEF RecheckRecipient
  <2>3. CASE Suppress(w) \/ MarkUnknown(w) \/ MarkFailed(w) \/ Abandon(w)
    BY <2>3, <2>r DEF Suppress, MarkUnknown, MarkFailed, Abandon
  <2>4. CASE Claim(w)
    BY <2>4, <2>g, <2>r, <2>s, <2>o DEF Claim
  <2>5. CASE NumberAttempt(w)
    <3>1. CASE Goto(w, "retryAt")
      BY <3>1, <2>5, <2>g, <2>s, <2>o DEF NumberAttempt
    <3>2. CASE NextAttemptNo(w) /\ pc' = [pc EXCEPT ![w] = "creds"] /\ UNCHANGED <<msg, dirtyPop>>
      <4>1. msg[w] \in Messages /\ "creds" \in WorkerSteps
        BY <2>5, <1>0 DEF NumberAttempt, WorkerTyped, WorkerSteps, Owning
      <4>2. \A a \in attempts[msg[w]] : a.no \in Nat
        BY <4>1 DEF Typed, SeenTyped, Attempt
      <4>3. PICK n \in Nat : no' = [no EXCEPT ![w] = n + 1]
        BY <3>2, <4>2, Zenon DEF NextAttemptNo
      <4> QED BY <3>2, <4>1, <4>3, <1>0 DEF WorkerTyped
    <3> QED BY <2>5, <3>1, <3>2 DEF NumberAttempt
  <2>6. CASE ResolveCredentials(w)
    BY <2>6, <2>g, <2>s, <2>o DEF ResolveCredentials
  <2>7. CASE Send(w)
    BY <2>7, <2>g, <2>s, <2>o DEF Send
  <2>8. CASE LogSent(w)
    BY <2>8, <2>g, <2>s, <2>o, Zenon DEF LogSent, RecordAttempt
  <2>9. CASE LogError(w)
    BY <2>9, <2>g, <2>s, <2>o, Zenon DEF LogError, RecordAttempt
  <2>10. CASE MarkSent(w)
    BY <2>10, <2>g, <2>r, <2>s, <2>o DEF MarkSent
  <2>11. CASE ScheduleRetryState(w)
    BY <2>11, <2>g, <2>r, <2>s DEF ScheduleRetryState
  <2> QED
    BY <1>3, <2>1, <2>2, <2>3, <2>4, <2>5, <2>6, <2>7, <2>8, <2>9, <2>10, <2>11 DEF ProcessOne
<1>4. ASSUME NEW r \in Recoverers, RecoverQueue(r) \/ RecoveryFails(r) PROVE WorkerTyped'
  BY <1>4, <1>u DEF RecoverQueue, MarkStaleSendingUnknown, ClaimQueuedMessagesForRecovery,
       EnqueueRecovered, RecoveryFails
<1>5. ASSUME NEW o \in Operators,
             (\E m \in Messages : RetryRead(o, m)) \/ RetryMessage(o) \/ RetryFails(o)
      PROVE  WorkerTyped'
  BY <1>5, <1>u DEF RetryRead, RetryMessage, RetryTransition, RetryEnqueue, RetryRevert, RetryFails
<1>6. CASE QueueLost
  BY <1>6, <1>u DEF QueueLost
<1> QED
  BY <1>1, <1>2, <1>3, <1>4, <1>5, <1>6 DEF Next

\* The recovery loops' locals stay well-typed.
LEMMA LoopStep == Typed /\ Next => LoopTyped'
<1> SUFFICES ASSUME Typed, Next PROVE LoopTyped'
  OBVIOUS
<1>0. LoopTyped
  BY DEF Typed
<1>1. CASE UNCHANGED recVars
  BY <1>1, <1>0 DEF LoopTyped, recVars
<1>2. ASSUME NEW r \in Recoverers, RecoverQueue(r) \/ RecoveryFails(r) PROVE LoopTyped'
  <2>1. CASE MarkStaleSendingUnknown(r)
    BY <2>1, <1>0 DEF MarkStaleSendingUnknown, LoopTyped
  <2>2. CASE ClaimQueuedMessagesForRecovery(r)
    BY <2>2, <1>0 DEF ClaimQueuedMessagesForRecovery, RecoveryCandidates, LoopTyped
  <2>3. CASE EnqueueRecovered(r)
    BY <2>3, <1>0 DEF EnqueueRecovered, LoopTyped
  <2>4. CASE RecoveryFails(r)
    BY <2>4, <1>0 DEF RecoveryFails, LoopTyped
  <2> QED BY <1>2, <2>1, <2>2, <2>3, <2>4 DEF RecoverQueue
<1> QED
  BY <1>1, <1>2, ZenonT(30) DEF Next, QueueMessage, CheckRecipient, CreateMessage, EnqueueCreated,
       RequestFails, BlockRecipient, Age, RowDue, EntryDue, Dequeue, ProcessOne, GetMessage,
       RecheckRecipient, Suppress, Claim, NumberAttempt, ResolveCredentials, Send, LogSent,
       LogError, RecordAttempt, MarkSent, MarkUnknown, MarkFailed, ScheduleRetryState, Abandon,
       RetryRead, RetryMessage, RetryTransition, RetryEnqueue, RetryRevert, RetryFails, QueueLost

\* The operators' locals stay well-typed through retryMessage.
LEMMA OpStep == Typed /\ Next => OpTyped'
<1> SUFFICES ASSUME Typed, Next PROVE OpTyped'
  OBVIOUS
<1>0. OpTyped
  BY DEF Typed
<1>1. CASE UNCHANGED opVars
  BY <1>1, <1>0 DEF OpTyped, opVars
<1>2. ASSUME NEW o \in Operators, NEW m \in Messages, RetryRead(o, m) PROVE OpTyped'
  BY <1>2, <1>0 DEF RetryRead, OpTyped
<1>3. ASSUME NEW o \in Operators, RetryMessage(o) \/ RetryFails(o) PROVE OpTyped'
  <2>r. OpReturn(o) => OpTyped'
    BY <1>0, OpReturnTyped
  <2>g. ASSUME NEW s \in {"enqueue", "revert"}, opPc[o] # "idle", UNCHANGED opMsg,
               opPc' = [opPc EXCEPT ![o] = s]
        PROVE  OpTyped'
    BY <2>g, <1>0 DEF OpTyped
  <2> QED
    BY <1>3, <2>r, <2>g DEF RetryMessage, RetryTransition, RetryEnqueue, RetryRevert, RetryFails
<1> QED
  BY <1>1, <1>2, <1>3, Zenon DEF Next, QueueMessage, CheckRecipient, CreateMessage, EnqueueCreated,
       RequestFails, BlockRecipient, Age, RowDue, EntryDue, Dequeue, ProcessOne, GetMessage,
       RecheckRecipient, Suppress, Claim, NumberAttempt, ResolveCredentials, Send, LogSent,
       LogError, RecordAttempt, MarkSent, MarkUnknown, MarkFailed, ScheduleRetryState, Abandon,
       RecoverQueue, MarkStaleSendingUnknown, ClaimQueuedMessagesForRecovery, EnqueueRecovered,
       RecoveryFails, QueueLost

\* The attempt rows and the observers stay well-typed.
LEMMA SeenStep == Typed /\ Next => SeenTyped'
<1> SUFFICES ASSUME Typed, Next PROVE SeenTyped'
  OBVIOUS
<1>0. SeenTyped /\ WorkerTyped /\ OpTyped
  BY DEF Typed
<1>1. CASE UNCHANGED <<attempts, seenVars>>
  BY <1>1, <1>0 DEF SeenTyped, seenVars
<1>2. ASSUME NEW w \in Workers, Send(w) PROVE SeenTyped'
  <2>0. msg[w] \in Messages
    BY <1>2, <1>0 DEF Send, WorkerTyped
  <2>1. submitted' \in [Messages -> Nat]
    BY <1>2, <2>0, <1>0 DEF Send, SeenTyped
  <2>2. acked' \in [Messages -> BOOLEAN]
    <3>1. CASE acked' = [acked EXCEPT ![msg[w]] = TRUE]
      BY <3>1, <1>0, Zenon DEF SeenTyped
    <3>2. CASE acked' = acked
      BY <3>2, <1>0 DEF SeenTyped
    <3> QED BY <1>2, <3>1, <3>2 DEF Send
  <2> QED BY <1>2, <2>1, <2>2, <1>0 DEF Send, SeenTyped
<1>3. ASSUME NEW w \in Workers, LogSent(w) \/ LogError(w) PROVE SeenTyped'
  <2>1. msg[w] \in Messages /\ no[w] \in Nat
    BY <1>3, <1>0, Zenon DEF LogSent, LogError, WorkerTyped
  <2>2. attempts' \in [Messages -> SUBSET Attempt]
    BY <1>3, <2>1, <1>0, InsertTyped, Zenon DEF LogSent, LogError, RecordAttempt, SeenTyped
  <2> QED BY <1>3, <2>2, <1>0, Zenon DEF LogSent, LogError, RecordAttempt, SeenTyped, seenVars
<1>4. ASSUME NEW o \in Operators, RetryTransition(o) PROVE SeenTyped'
  <2>1. /\ retried' = retried \/ retried' = [retried EXCEPT ![opMsg[o]] = @ + 1]
        /\ opMsg[o] \in Messages
    BY <1>4, <1>0 DEF RetryTransition, OpTyped
  <2>2. retried' \in [Messages -> Nat]
    <3>1. CASE retried' = retried
      BY <3>1, <1>0 DEF SeenTyped
    <3>2. CASE retried' = [retried EXCEPT ![opMsg[o]] = @ + 1]
      BY <3>2, <2>1, <1>0 DEF SeenTyped
    <3> QED BY <2>1, <3>1, <3>2
  <2> QED BY <1>4, <2>2, <1>0 DEF RetryTransition, SeenTyped
<1>5. ASSUME NEW o \in Operators, RetryRevert(o) PROVE SeenTyped'
  BY <1>5, <1>0, Zenon DEF RetryRevert, SeenTyped
<1> QED
  BY <1>1, <1>2, <1>3, <1>4, <1>5, Zenon DEF Next, QueueMessage, CheckRecipient, CreateMessage,
       EnqueueCreated, RequestFails, BlockRecipient, Age, RowDue, EntryDue, Dequeue, ProcessOne,
       GetMessage, RecheckRecipient, Suppress, Claim, NumberAttempt, ResolveCredentials,
       MarkSent, MarkUnknown, MarkFailed, ScheduleRetryState, Abandon, RecoverQueue,
       MarkStaleSendingUnknown, ClaimQueuedMessagesForRecovery, EnqueueRecovered, RecoveryFails,
       RetryRead, RetryMessage, RetryEnqueue, RetryFails, QueueLost

\* Every step keeps the state well-typed.
LEMMA NextTyped == Typed /\ [Next]_vars => Typed'
<1>1. CASE Next
  BY <1>1, RowStep, QueueStep, RequestStep, WorkerStep, LoopStep, OpStep, SeenStep, Zenon DEF Typed
<1>2. CASE UNCHANGED vars
  BY <1>2 DEF vars, rowVars, workerVars, recVars, opVars, seenVars, Typed, RowTyped, QueueTyped,
       RequestTyped, WorkerTyped, LoopTyped, OpTyped, SeenTyped
<1> QED BY <1>1, <1>2

\* The groups stay typed in every behaviour.
LEMMA SpecTyped == Spec => []Typed
  BY InitTyped, NextTyped, PTL DEF Spec

\* Every reachable state is well-typed, for any number of messages and processes.
THEOREM TypeCorrect == Spec => []TypeOK
  BY SpecTyped, TypedIsTypeOK, PTL

----------------------------------------------------------------------------
(* Rows come before entries.  Everything that holds an id, in Redis or in a *)
(* handler, holds the id of a committed row, and rows are never deleted.    *)

HasRow(m) == status[m] # "none"

\* A request has a row from its INSERT on, not earlier.
RequestRows ==
    \A m \in Messages :
        /\ req[m] \in {"new", "insertQueued", "insertSuppressed"} => ~HasRow(m)
        /\ req[m] = "enqueue" => HasRow(m)

\* The entries of Redis refer to committed rows.
QueueRows ==
    /\ \A m \in Messages : retry[m] # "none" => HasRow(m)
    /\ \A i \in DOMAIN ready : HasRow(ready[i])

\* What the loops and the retry calls have in hand refers to committed rows.
HandlerRows ==
    /\ \A r \in Recoverers : \A m \in recIds[r] : HasRow(m)
    /\ \A w \in Workers : pc[w] # "idle" => HasRow(msg[w])
    /\ \A w \in Workers : pc[w] = "idle" => msg[w] = NoMessage
    /\ \A o \in Operators : opPc[o] # "idle" => HasRow(opMsg[o])

Rows == RequestRows /\ QueueRows /\ HandlerRows

\* SetMessageStatus writes the one row it names.
LEMMA SetStatusAt ==
    ASSUME RowTyped, NEW m \in Messages, NEW s \in Statuses, SetMessageStatus(m, s)
    PROVE  /\ status'[m] = s
           /\ \A k \in Messages : k # m => status'[k] = status[k]
  BY DEF RowTyped, SetMessageStatus

\* SetMessageRetryAt puts the one row it names back to queued.
LEMMA RetryAtAt ==
    ASSUME RowTyped, NEW m \in Messages, SetMessageRetryAt(m)
    PROVE  /\ status[m] = "sending" /\ status'[m] = "queued"
           /\ \A k \in Messages : k # m => status'[k] = status[k]
  BY DEF RowTyped, SetMessageRetryAt

\* How one step may change the status of a message: who writes what over what.
StatusStep(m) ==
    \/ status'[m] = status[m]
    \/ /\ req[m] = "insertQueued" /\ CreateMessage(m)
       /\ status'[m] = "queued"
    \/ /\ req[m] = "insertSuppressed" /\ (CreateMessage(m) \/ RequestFails(m))
       /\ status'[m] = "suppressed"
    \/ \E w \in Workers :
        /\ msg[w] = m
        /\ \/ Suppress(w) /\ status'[m] = "suppressed"
           \/ Claim(w) /\ status[m] = "queued" /\ status'[m] = "sending"
           \/ MarkSent(w) /\ status'[m] = "sent"
           \/ MarkUnknown(w) /\ status'[m] = "unknown"
           \/ MarkFailed(w) /\ status[m] = "sending" /\ status'[m] = "failed"
           \/ pc[w] = "retryAt" /\ ScheduleRetryState(w) /\ status[m] = "sending"
              /\ status'[m] = "queued"
    \/ status[m] = "sending" /\ status'[m] = "unknown"
       /\ \E r \in Recoverers : MarkStaleSendingUnknown(r)
    \/ \E o \in Operators :
        /\ opMsg[o] = m
        /\ \/ RetryTransition(o) /\ status[m] = "failed" /\ status'[m] = "queued"
           \/ RetryRevert(o) /\ status'[m] = "failed"

\* Every step changes a status in one of the ways StatusStep lists.
LEMMA StatusSteps == Typed /\ Next => \A m \in Messages : StatusStep(m)
<1> SUFFICES ASSUME Typed, Next, NEW k \in Messages PROVE StatusStep(k)
  OBVIOUS
<1>0. RowTyped /\ WorkerTyped /\ OpTyped
  BY DEF Typed
<1>s. {"queued", "sending", "sent", "failed", "suppressed", "unknown"} \subseteq Statuses
  BY DEF Statuses
<1>u. UNCHANGED status => StatusStep(k)
  BY Zenon DEF StatusStep
<1>w. ASSUME NEW m \in Messages, NEW s \in Statuses, SetMessageStatus(m, s)
      PROVE  status'[k] = status[k] \/ (m = k /\ status'[k] = s)
  BY <1>w, <1>0, SetStatusAt, Zenon
<1>1. ASSUME NEW m \in Messages, CreateMessage(m) \/ RequestFails(m) PROVE StatusStep(k)
  <2>1. CASE status' = status
    BY <2>1, <1>u
  <2>2. CASE /\ req[m] = "insertQueued" /\ CreateMessage(m)
             /\ status' = [status EXCEPT ![m] = "queued"]
    BY <2>2, <1>0, ZenonT(30) DEF RowTyped, StatusStep
  <2>3. CASE /\ req[m] = "insertSuppressed"
             /\ status' = [status EXCEPT ![m] = "suppressed"]
    BY <2>3, <1>1, <1>0, Zenon DEF RowTyped, StatusStep
  <2> QED BY <1>1, <2>1, <2>2, <2>3 DEF CreateMessage, RequestFails
<1>2. ASSUME NEW w \in Workers, ProcessOne(w) PROVE StatusStep(k)
  <2>0. pc[w] # "idle" => msg[w] \in Messages
    BY <1>0 DEF WorkerTyped
  <2>1. CASE UNCHANGED status
    BY <2>1, <1>u
  <2>2. CASE Suppress(w)
    <3>1. pc[w] # "idle" /\ SetMessageStatus(msg[w], "suppressed") /\ "suppressed" \in Statuses
      BY <2>2, <1>s DEF Suppress
    <3>2. status'[k] = status[k] \/ (msg[w] = k /\ status'[k] = "suppressed")
      BY <2>0, <3>1, <1>w, Zenon
    <3> QED BY <2>2, <3>2, Zenon DEF StatusStep
  <2>3. CASE Claim(w) /\ status[msg[w]] = "queued" /\ SetMessageStatus(msg[w], "sending")
    <3>1. pc[w] # "idle" /\ SetMessageStatus(msg[w], "sending") /\ "sending" \in Statuses
      BY <2>3, <1>s DEF Claim
    <3>2. status'[k] = status[k] \/ (msg[w] = k /\ status'[k] = "sending")
      BY <2>0, <3>1, <1>w, Zenon
    <3> QED BY <2>3, <3>2, Zenon DEF StatusStep
  <2>4. CASE MarkSent(w) /\ SetMessageStatus(msg[w], "sent")
    <3>1. pc[w] # "idle" /\ SetMessageStatus(msg[w], "sent") /\ "sent" \in Statuses
      BY <2>4, <1>s DEF MarkSent
    <3>2. status'[k] = status[k] \/ (msg[w] = k /\ status'[k] = "sent")
      BY <2>0, <3>1, <1>w, Zenon
    <3> QED BY <2>4, <3>2, Zenon DEF StatusStep
  <2>5. CASE MarkUnknown(w)
    <3>1. pc[w] # "idle" /\ SetMessageStatus(msg[w], "unknown") /\ "unknown" \in Statuses
      BY <2>5, <1>s DEF MarkUnknown
    <3>2. status'[k] = status[k] \/ (msg[w] = k /\ status'[k] = "unknown")
      BY <2>0, <3>1, <1>w, Zenon
    <3> QED BY <2>5, <3>2, Zenon DEF StatusStep
  <2>6. CASE MarkFailed(w) /\ status[msg[w]] = "sending" /\ SetMessageStatus(msg[w], "failed")
    <3>1. pc[w] # "idle" /\ SetMessageStatus(msg[w], "failed") /\ "failed" \in Statuses
      BY <2>6, <1>s DEF MarkFailed
    <3>2. status'[k] = status[k] \/ (msg[w] = k /\ status'[k] = "failed")
      BY <2>0, <3>1, <1>w, Zenon
    <3> QED BY <2>6, <3>2, Zenon DEF StatusStep
  <2>7. CASE pc[w] = "retryAt" /\ ScheduleRetryState(w) /\ SetMessageRetryAt(msg[w])
    BY <2>7, <2>0, <1>0, RetryAtAt, Zenon DEF StatusStep
  <2> QED
    BY <1>2, <2>1, <2>2, <2>3, <2>4, <2>5, <2>6, <2>7, Zenon DEF ProcessOne, GetMessage,
         RecheckRecipient, Claim, TransitionMessageStatus, NumberAttempt, ResolveCredentials,
         Send, LogSent, LogError, RecordAttempt, MarkSent, MarkFailed, ScheduleRetryState, rowVars
<1>3. ASSUME NEW r \in Recoverers, MarkStaleSendingUnknown(r) PROVE StatusStep(k)
  BY <1>3, <1>0, Zenon DEF MarkStaleSendingUnknown, RowTyped, StatusStep
<1>4. ASSUME NEW o \in Operators, RetryTransition(o) PROVE StatusStep(k)
  <2>1. CASE UNCHANGED status
    BY <2>1, <1>u
  <2>2. CASE status[opMsg[o]] = "failed" /\ SetMessageStatus(opMsg[o], "queued")
    <3>1. opMsg[o] \in Messages /\ "queued" \in Statuses
      BY <1>4, <1>0, <1>s DEF OpTyped, RetryTransition
    <3>2. status'[k] = status[k] \/ (opMsg[o] = k /\ status'[k] = "queued")
      BY <2>2, <3>1, <1>w, Zenon
    <3>3. CASE opMsg[o] = k /\ status'[k] = "queued"
      <4>1. status[k] = "failed"
        BY <2>2, <3>3
      <4> QED BY <1>4, <3>3, <4>1, Zenon DEF StatusStep
    <3>4. CASE status'[k] = status[k]
      BY <3>4, Zenon DEF StatusStep
    <3> QED BY <3>2, <3>3, <3>4
  <2> QED BY <1>4, <2>1, <2>2, ZenonT(30) DEF RetryTransition, TransitionMessageStatus, rowVars
<1>5. ASSUME NEW o \in Operators, RetryRevert(o) PROVE StatusStep(k)
  <2>1. opMsg[o] \in Messages /\ "failed" \in Statuses /\ SetMessageStatus(opMsg[o], "failed")
    BY <1>5, <1>0, <1>s DEF OpTyped, RetryRevert
  <2>2. status'[k] = status[k] \/ (opMsg[o] = k /\ status'[k] = "failed")
    BY <2>1, <1>w, Zenon
  <2> QED BY <1>5, <2>2, Zenon DEF StatusStep
<1> QED
  BY <1>u, <1>1, <1>2, <1>3, <1>4, <1>5, Zenon DEF Next, QueueMessage, CheckRecipient, EnqueueCreated,
       BlockRecipient, Age, RowDue, EntryDue, Dequeue, Abandon, RecoverQueue,
       ClaimQueuedMessagesForRecovery, EnqueueRecovered, RecoveryFails, RetryRead, RetryMessage,
       RetryEnqueue, RetryFails, QueueLost, rowVars

\* A committed row is never deleted.
LEMMA RowsStay == Typed /\ Next => \A m \in Messages : HasRow(m) => HasRow(m)'
  BY StatusSteps, Zenon DEF StatusStep, HasRow

\* LPUSH of the id of a committed row keeps the list one of committed rows.
LEMMA EnqueueRows ==
    ASSUME ready \in Seq(Messages), \A i \in DOMAIN ready : HasRow(ready[i]),
           \A k \in Messages : HasRow(k) => HasRow(k)',
           NEW m \in Messages, HasRow(m)', Enqueue(m)
    PROVE  \A i \in DOMAIN ready' : HasRow(ready[i])'
<1> SUFFICES ASSUME NEW i \in DOMAIN ready' PROVE status'[ready'[i]] # "none"
  BY DEF HasRow
<1>1. /\ DOMAIN ready' = 1 .. Len(ready) + 1 /\ DOMAIN ready = 1 .. Len(ready)
      /\ ready'[Len(ready) + 1] = m
      /\ \A j \in 1 .. Len(ready) : ready'[j] = ready[j] /\ ready[j] \in Messages
  BY DEF Enqueue
<1>2. CASE i = Len(ready) + 1
  BY <1>1, <1>2 DEF HasRow
<1>3. CASE i \in 1 .. Len(ready)
  BY <1>1, <1>3 DEF HasRow
<1>4. Len(ready) \in Nat
  OBVIOUS
<1> QED BY <1>1, <1>2, <1>3, <1>4

\* Every Redis operation pushes ids of committed rows only.
LEMMA QueueRowsStep == Typed /\ Rows /\ Next => QueueRows'
<1> SUFFICES ASSUME Typed, Rows, Next PROVE QueueRows'
  OBVIOUS
<1>0. QueueTyped /\ WorkerTyped /\ OpTyped /\ LoopTyped
  BY DEF Typed
<1>r. \A m \in Messages : HasRow(m) => HasRow(m)'
  BY RowsStay
<1>a. UNCHANGED retry => \A m \in Messages : (retry[m] # "none" => HasRow(m))'
  BY <1>r DEF Rows, QueueRows, HasRow
<1>b. UNCHANGED ready => \A i \in DOMAIN ready' : HasRow(ready[i])'
  <2> SUFFICES ASSUME UNCHANGED ready, NEW i \in DOMAIN ready PROVE HasRow(ready[i])'
    OBVIOUS
  <2>1. ready[i] \in Messages /\ HasRow(ready[i])
    BY <1>0 DEF QueueTyped, Rows, QueueRows
  <2> QED BY <2>1, <1>r DEF HasRow
<1>u. UNCHANGED <<ready, retry>> => QueueRows'
  BY <1>a, <1>b DEF QueueRows
<1>e. ASSUME NEW m \in Messages, HasRow(m), Enqueue(m), UNCHANGED retry PROVE QueueRows'
  BY <1>e, <1>a, <1>r, <1>0, EnqueueRows, Zenon DEF QueueRows, QueueTyped, Rows
<1>1. ASSUME NEW m \in Messages, QueueMessage(m) \/ RequestFails(m) \/ BlockRecipient(m)
                                 \/ Age(m) \/ RowDue(m)
      PROVE  QueueRows'
  <2>1. req[m] = "enqueue" => HasRow(m)
    BY Zenon DEF Rows, RequestRows
  <2> QED
    BY <1>1, <2>1, <1>u, <1>e DEF QueueMessage, CheckRecipient, CreateMessage, EnqueueCreated,
         RequestFails, BlockRecipient, Age, RowDue
<1>2. ASSUME NEW m \in Messages, EntryDue(m) PROVE QueueRows'
  <2>1. \A k \in Messages : retry'[k] # "none" => retry[k] # "none"
    BY <1>2, <1>0 DEF EntryDue, QueueTyped
  <2> QED BY <1>2, <2>1, <1>b, <1>r DEF EntryDue, QueueRows, Rows, HasRow
<1>3. ASSUME NEW w \in Workers, NEW m \in Messages, Dequeue(w, m) PROVE QueueRows'
  <2>1. CASE ready # <<>> /\ ready' = Tail(ready) /\ UNCHANGED retry
    <3>1. ASSUME NEW i \in DOMAIN ready' PROVE HasRow(ready[i])'
      <4>1. i + 1 \in DOMAIN ready /\ ready'[i] = ready[i + 1]
        BY <2>1, <3>1, <1>0 DEF QueueTyped
      <4>2. ready[i + 1] \in Messages /\ HasRow(ready[i + 1])
        BY <4>1, <1>0 DEF QueueTyped, Rows, QueueRows
      <4> QED BY <4>1, <4>2, <1>r DEF HasRow
    <3> QED BY <2>1, <3>1, <1>a DEF QueueRows
  <2>2. CASE retry' = [retry EXCEPT ![m] = "none"] /\ UNCHANGED ready
    <3>1. \A k \in Messages : retry'[k] # "none" => retry[k] # "none"
      BY <2>2, <1>0 DEF QueueTyped
    <3> QED BY <2>2, <3>1, <1>b, <1>r DEF QueueRows, Rows, HasRow
  <2> QED BY <1>3, <2>1, <2>2 DEF Dequeue
<1>4. ASSUME NEW w \in Workers, ProcessOne(w) \/ Abandon(w) PROVE QueueRows'
  <2>1. CASE UNCHANGED <<ready, retry>>
    BY <2>1, <1>u
  <2>2. CASE pc[w] = "schedule" /\ retry' = [retry EXCEPT ![msg[w]] = "future"] /\ UNCHANGED ready
    <3>1. msg[w] \in Messages /\ HasRow(msg[w])
      BY <2>2, <1>0 DEF WorkerTyped, Rows, HandlerRows
    <3>2. \A k \in Messages : k # msg[w] => retry'[k] = retry[k]
      BY <2>2, <1>0, Zenon DEF QueueTyped
    <3> QED BY <2>2, <3>1, <3>2, <1>b, <1>r, Zenon DEF QueueRows, Rows, HasRow
  <2> QED
    BY <1>4, <2>1, <2>2, Zenon DEF ProcessOne, GetMessage, RecheckRecipient, Suppress, Claim,
         NumberAttempt, ResolveCredentials, Send, LogSent, LogError, RecordAttempt, MarkSent,
         MarkUnknown, MarkFailed, ScheduleRetryState, Abandon
<1>5. ASSUME NEW r \in Recoverers, RecoverQueue(r) \/ RecoveryFails(r) PROVE QueueRows'
  <2>1. \A m \in recIds[r] : m \in Messages /\ HasRow(m)
    BY <1>0, Zenon DEF LoopTyped, Rows, HandlerRows
  <2> QED
    BY <1>5, <2>1, <1>u, <1>e, Zenon DEF RecoverQueue, MarkStaleSendingUnknown,
         ClaimQueuedMessagesForRecovery, EnqueueRecovered, RecoveryFails
<1>6. ASSUME NEW o \in Operators,
             (\E m \in Messages : RetryRead(o, m)) \/ RetryMessage(o) \/ RetryFails(o)
      PROVE  QueueRows'
  <2>1. opPc[o] # "idle" => opMsg[o] \in Messages /\ HasRow(opMsg[o])
    BY <1>0 DEF OpTyped, Rows, HandlerRows
  <2> QED
    BY <1>6, <2>1, <1>u, <1>e DEF RetryRead, RetryMessage, RetryTransition, RetryEnqueue,
         RetryRevert, RetryFails
<1>7. CASE QueueLost
  BY <1>7 DEF QueueLost, QueueRows
<1> QED
  BY <1>1, <1>2, <1>3, <1>4, <1>5, <1>6, <1>7 DEF Next

\* QueueMessage inserts its row once, and nobody else inserts one.
LEMMA RequestRowsStep == Typed /\ Rows /\ Next => RequestRows'
<1> SUFFICES ASSUME Typed, Rows, Next, NEW k \in Messages
             PROVE  /\ req'[k] \in {"new", "insertQueued", "insertSuppressed"} => status'[k] = "none"
                    /\ req'[k] = "enqueue" => status'[k] # "none"
  BY DEF RequestRows, HasRow
<1>0. RowTyped /\ RequestTyped
  BY DEF Typed
<1>1. /\ req[k] \in {"new", "insertQueued", "insertSuppressed"} => status[k] = "none"
      /\ req[k] = "enqueue" => status[k] # "none"
      /\ status[k] # "none" => status'[k] # "none"
  BY RowsStay, Zenon DEF Rows, RequestRows, HasRow
<1>2. ASSUME NEW m \in Messages, QueueMessage(m) \/ RequestFails(m)
      PROVE  /\ req'[k] \in {"new", "insertQueued", "insertSuppressed"} => status'[k] = "none"
             /\ req'[k] = "enqueue" => status'[k] # "none"
  <2>1. CASE CheckRecipient(m)
    BY <2>1, <1>0, <1>1 DEF CheckRecipient, RequestTyped, rowVars
  <2>2. CASE CreateMessage(m)
    <3>1. CASE /\ req' = [req EXCEPT ![m] = "enqueue"]
               /\ status' = [status EXCEPT ![m] = "queued"]
      BY <3>1, <1>0, <1>1 DEF RequestTyped, RowTyped
    <3>2. CASE /\ req' = [req EXCEPT ![m] = "created"]
               /\ status' = [status EXCEPT ![m] = "suppressed"]
      BY <3>2, <1>0, <1>1 DEF RequestTyped, RowTyped
    <3> QED BY <2>2, <3>1, <3>2 DEF CreateMessage
  <2>3. CASE EnqueueCreated(m)
    BY <2>3, <1>0, <1>1 DEF EnqueueCreated, RequestTyped, rowVars
  <2>4. CASE RequestFails(m)
    <3>1. req' = [req EXCEPT ![m] = "error"]
      BY <2>4 DEF RequestFails
    <3>2. k # m => status'[k] = status[k]
      <4>1. CASE status' = status
        BY <4>1
      <4>2. CASE status' = [status EXCEPT ![m] = "suppressed"]
        BY <4>2, <1>0 DEF RowTyped
      <4> QED BY <2>4, <4>1, <4>2 DEF RequestFails
    <3> QED BY <3>1, <3>2, <1>0, <1>1 DEF RequestTyped
  <2> QED BY <1>2, <2>1, <2>2, <2>3, <2>4 DEF QueueMessage
<1>3. CASE UNCHANGED req /\ ~\E m \in Messages : QueueMessage(m) \/ RequestFails(m)
  <2>1. StatusStep(k) /\ ~CreateMessage(k) /\ ~RequestFails(k)
    BY <1>3, StatusSteps, Zenon DEF QueueMessage
  <2>2. CASE status[k] = "none"
    <3>1. \A w \in Workers : pc[w] # "idle" => msg[w] # k
      BY <2>2 DEF Rows, HandlerRows, HasRow
    <3>2. \A o \in Operators : opPc[o] # "idle" => opMsg[o] # k
      BY <2>2 DEF Rows, HandlerRows, HasRow
    <3>3. status'[k] = "none"
      BY <2>1, <2>2, <3>1, <3>2, Zenon DEF StatusStep, Suppress, Claim, MarkSent, MarkUnknown,
           MarkFailed, RetryTransition, RetryRevert
    <3> QED BY <3>3, <1>3, <1>1, <2>2
  <2>3. CASE status[k] # "none"
    BY <2>3, <1>1, <1>3
  <2> QED BY <2>2, <2>3
<1>4. \/ UNCHANGED req
      \/ \E m \in Messages : QueueMessage(m) \/ RequestFails(m)
  BY Zenon DEF Next, BlockRecipient, Age, RowDue, EntryDue, Dequeue, ProcessOne, GetMessage,
       RecheckRecipient, Suppress, Claim, NumberAttempt, ResolveCredentials, Send, LogSent,
       LogError, RecordAttempt, MarkSent, MarkUnknown, MarkFailed, ScheduleRetryState, Abandon,
       RecoverQueue, MarkStaleSendingUnknown, ClaimQueuedMessagesForRecovery, EnqueueRecovered,
       RecoveryFails, RetryRead, RetryMessage, RetryTransition, RetryEnqueue, RetryRevert,
       RetryFails, QueueLost
<1> QED BY <1>2, <1>3, <1>4

\* How one step may move a worker through Run and ProcessOne.
WorkerMove(w) ==
    \/ pc'[w] = pc[w] /\ msg'[w] = msg[w]
    \/ pc'[w] = "idle" /\ msg'[w] = NoMessage
    \/ pc'[w] = "get" /\ \E m \in Messages : msg'[w] = m /\ Dequeue(w, m)
    \/ /\ msg'[w] = msg[w]
       /\ \/ pc[w] = "get" /\ pc'[w] = "check"
          \/ pc[w] = "check" /\ pc'[w] \in {"suppress", "claim"}
          \/ pc[w] = "claim" /\ pc'[w] = "number" /\ Claim(w)
             /\ status[msg[w]] = "queued" /\ status'[msg[w]] = "sending"
          \/ pc[w] = "number" /\ pc'[w] \in {"creds", "retryAt"}
          \/ pc[w] = "creds" /\ pc'[w] \in {"send", "retryAt"}
          \/ pc[w] = "send" /\ pc'[w] \in {"logSent", "logError"} /\ Send(w)
          \/ pc[w] = "logSent" /\ pc'[w] \in {"markSent", "markUnknown"}
          \/ pc[w] = "logError" /\ pc'[w] \in {"markFailed", "retryAt", "markUnknown"}
          \/ pc[w] = "markSent" /\ pc'[w] = "markUnknown"
          \/ pc[w] = "retryAt" /\ pc'[w] = "schedule"

\* Goto moves the one worker it names.
LEMMA GotoAt ==
    ASSUME WorkerTyped, NEW w \in Workers, NEW s, Goto(w, s)
    PROVE  /\ pc'[w] = s /\ msg' = msg
           /\ \A v \in Workers : v # w => pc'[v] = pc[v]
  BY DEF WorkerTyped, Goto

\* Return idles the one worker it names.
LEMMA ReturnAt ==
    ASSUME WorkerTyped, NEW w \in Workers, Return(w)
    PROVE  /\ pc'[w] = "idle" /\ msg'[w] = NoMessage
           /\ \A v \in Workers : v # w => pc'[v] = pc[v] /\ msg'[v] = msg[v]
  BY DEF WorkerTyped, Return

\* Every step moves a worker in one of the ways WorkerMove lists.
LEMMA WorkerMoves == Typed /\ Next => \A w \in Workers : WorkerMove(w)
<1> SUFFICES ASSUME Typed, Next, NEW v \in Workers PROVE WorkerMove(v)
  OBVIOUS
<1>0. RowTyped /\ WorkerTyped
  BY DEF Typed
<1>u. UNCHANGED <<pc, msg>> => WorkerMove(v)
  BY Zenon DEF WorkerMove
<1>r. ASSUME NEW w \in Workers, Return(w) PROVE WorkerMove(v)
  BY <1>r, <1>0, ReturnAt, Zenon DEF WorkerMove
<1>1. ASSUME NEW w \in Workers, NEW m \in Messages, Dequeue(w, m) PROVE WorkerMove(v)
  BY <1>1, <1>0, Zenon DEF Dequeue, WorkerTyped, WorkerMove
<1>2. ASSUME NEW w \in Workers, ProcessOne(w) PROVE WorkerMove(v)
  <2>1. CASE Suppress(w) \/ MarkUnknown(w) \/ MarkFailed(w)
    BY <2>1, <1>r DEF Suppress, MarkUnknown, MarkFailed
  <2>2. CASE GetMessage(w)
    BY <2>2, <1>0, <1>r, GotoAt, Zenon DEF GetMessage, WorkerMove
  <2>3. CASE RecheckRecipient(w)
    BY <2>3, <1>0, GotoAt, Zenon DEF RecheckRecipient, WorkerMove
  <2>4. CASE Claim(w)
    <3>1. CASE Return(w)
      BY <3>1, <1>r
    <3>2. CASE status[msg[w]] = "queued" /\ SetMessageStatus(msg[w], "sending") /\ Goto(w, "number")
      <4>1. msg[w] \in Messages /\ "sending" \in Statuses
        BY <2>4, <1>0 DEF Claim, WorkerTyped, Statuses
      <4>2. status'[msg[w]] = "sending"
        BY <4>1, <3>2, <1>0, SetStatusAt
      <4> QED BY <2>4, <3>2, <4>2, <1>0, GotoAt, Zenon DEF Claim, WorkerMove
    <3> QED BY <2>4, <3>1, <3>2 DEF Claim, TransitionMessageStatus
  <2>5. CASE NumberAttempt(w)
    <3>1. CASE Goto(w, "retryAt")
      BY <2>5, <3>1, <1>0, GotoAt, Zenon DEF NumberAttempt, WorkerMove
    <3>2. CASE pc' = [pc EXCEPT ![w] = "creds"] /\ UNCHANGED msg
      BY <2>5, <3>2, <1>0, Zenon DEF NumberAttempt, WorkerTyped, WorkerMove
    <3> QED BY <2>5, <3>1, <3>2 DEF NumberAttempt
  <2>6. CASE ResolveCredentials(w)
    BY <2>6, <1>0, GotoAt, Zenon DEF ResolveCredentials, WorkerMove
  <2>7. CASE Send(w)
    <3>1. \E s \in {"logSent", "logError"} : Goto(w, s)
      BY <2>7 DEF Send
    <3>2. pc[w] = "send"
      BY <2>7 DEF Send
    <3> QED BY <2>7, <3>1, <3>2, <1>0, GotoAt, Zenon DEF WorkerMove
  <2>8. CASE LogSent(w)
    BY <2>8, <1>0, GotoAt, Zenon DEF LogSent, RecordAttempt, WorkerMove
  <2>9. CASE LogError(w)
    <3>1. \E s \in {"markFailed", "retryAt", "markUnknown"} : Goto(w, s)
      BY <2>9, Zenon DEF LogError, RecordAttempt
    <3> QED BY <2>9, <3>1, <1>0, GotoAt DEF LogError, WorkerMove
  <2>10. CASE MarkSent(w)
    BY <2>10, <1>0, <1>r, GotoAt, Zenon DEF MarkSent, WorkerMove
  <2>11. CASE ScheduleRetryState(w)
    BY <2>11, <1>0, <1>r, GotoAt, Zenon DEF ScheduleRetryState, WorkerMove
  <2> QED
    BY <1>2, <2>1, <2>2, <2>3, <2>4, <2>5, <2>6, <2>7, <2>8, <2>9, <2>10, <2>11, Zenon DEF ProcessOne
<1>3. ASSUME NEW w \in Workers, Abandon(w) PROVE WorkerMove(v)
  BY <1>3, <1>r, Zenon DEF Abandon
<1> QED
  BY <1>u, <1>1, <1>2, <1>3, Zenon DEF Next, QueueMessage, CheckRecipient, CreateMessage,
       EnqueueCreated, RequestFails, BlockRecipient, Age, RowDue, EntryDue, RecoverQueue,
       MarkStaleSendingUnknown, ClaimQueuedMessagesForRecovery, EnqueueRecovered, RecoveryFails,
       RetryRead, RetryMessage, RetryTransition, RetryEnqueue, RetryRevert, RetryFails,
       QueueLost, workerVars

\* Loops and retry calls take their ids from Redis or from rows.
LEMMA HandlerRowsStep == Typed /\ Rows /\ Next => HandlerRows'
<1> SUFFICES ASSUME Typed, Rows, Next PROVE HandlerRows'
  OBVIOUS
<1>0. QueueTyped /\ WorkerTyped /\ OpTyped /\ LoopTyped
  BY DEF Typed
<1>r. \A m \in Messages : status[m] # "none" => status'[m] # "none"
  BY RowsStay, Zenon DEF HasRow
<1>1. ASSUME NEW r \in Recoverers, NEW m \in recIds'[r] PROVE status'[m] # "none"
  <2>1. CASE recIds'[r] \subseteq recIds[r]
    BY <1>1, <2>1, <1>0, <1>r DEF LoopTyped, Rows, HandlerRows, HasRow
  <2>2. CASE recIds'[r] \subseteq RecoveryCandidates
    BY <1>1, <2>2, <1>r, Zenon DEF RecoveryCandidates
  <2>3. recIds'[r] \subseteq recIds[r] \/ recIds'[r] \subseteq RecoveryCandidates
    <3>1. CASE UNCHANGED recIds
      BY <3>1, Zenon
    <3>2. ASSUME NEW q \in Recoverers, RecoverQueue(q) \/ RecoveryFails(q)
          PROVE  recIds'[r] \subseteq recIds[r] \/ recIds'[r] \subseteq RecoveryCandidates
      <4>1. CASE MarkStaleSendingUnknown(q)
        BY <4>1, Zenon DEF MarkStaleSendingUnknown
      <4>2. CASE ClaimQueuedMessagesForRecovery(q)
        BY <4>2, <1>0 DEF ClaimQueuedMessagesForRecovery, LoopTyped
      <4>3. CASE EnqueueRecovered(q)
        BY <4>3, <1>0 DEF EnqueueRecovered, LoopTyped
      <4>4. CASE RecoveryFails(q)
        BY <4>4, <1>0, Zenon DEF RecoveryFails, LoopTyped
      <4> QED BY <3>2, <4>1, <4>2, <4>3, <4>4 DEF RecoverQueue
    <3> QED
      BY <3>1, <3>2, Zenon DEF Next, QueueMessage, CheckRecipient, CreateMessage, EnqueueCreated,
           RequestFails, BlockRecipient, Age, RowDue, EntryDue, Dequeue, ProcessOne, GetMessage,
           RecheckRecipient, Suppress, Claim, NumberAttempt, ResolveCredentials, Send, LogSent,
           LogError, RecordAttempt, MarkSent, MarkUnknown, MarkFailed, ScheduleRetryState,
           Abandon, RetryRead, RetryMessage, RetryTransition, RetryEnqueue, RetryRevert,
           RetryFails, QueueLost, recVars
  <2> QED BY <2>1, <2>2, <2>3
<1>2. ASSUME NEW w \in Workers
      PROVE  /\ pc'[w] # "idle" => status'[msg'[w]] # "none"
             /\ pc'[w] = "idle" => msg'[w] = NoMessage
  <2>0. WorkerMove(w)
    BY WorkerMoves
  <2>1. ASSUME NEW m \in Messages, Dequeue(w, m) PROVE status[m] # "none"
    <3>1. CASE ready # <<>> /\ m = Head(ready)
      <4>1. 1 \in DOMAIN ready /\ m = ready[1]
        BY <3>1, <1>0 DEF QueueTyped
      <4> QED BY <4>1 DEF Rows, QueueRows, HasRow
    <3>2. CASE retry[m] = "due"
      BY <3>2, Zenon DEF Rows, QueueRows, HasRow
    <3> QED BY <2>1, <3>1, <3>2, Zenon DEF Dequeue
  <2>2. /\ pc[w] # "idle" => msg[w] \in Messages /\ status[msg[w]] # "none"
        /\ pc[w] = "idle" => msg[w] = NoMessage
    BY <1>0 DEF WorkerTyped, Rows, HandlerRows, HasRow
  <2>3. CASE \E m \in Messages : msg'[w] = m /\ Dequeue(w, m) /\ pc'[w] = "get"
    BY <2>3, <2>1, <1>r
  <2>4. CASE msg'[w] = msg[w] /\ pc[w] # "idle" /\ pc'[w] # "idle"
    BY <2>4, <2>2, <1>r
  <2>5. CASE pc'[w] = "idle" /\ msg'[w] = NoMessage
    BY <2>5
  <2>6. CASE pc'[w] = pc[w] /\ msg'[w] = msg[w]
    BY <2>6, <2>2, <1>r
  <2> QED BY <2>0, <2>3, <2>4, <2>5, <2>6 DEF WorkerMove
<1>3. ASSUME NEW o \in Operators, opPc'[o] # "idle" PROVE status'[opMsg'[o]] # "none"
  <2>1. opPc[o] # "idle" => opMsg[o] \in Messages /\ status[opMsg[o]] # "none"
    BY <1>0 DEF OpTyped, Rows, HandlerRows, HasRow
  <2>2. \/ opPc[o] # "idle" /\ opMsg'[o] = opMsg[o]
        \/ opMsg'[o] \in Messages /\ status[opMsg'[o]] = "failed"
    <3>1. CASE UNCHANGED opVars
      BY <3>1, <1>3 DEF opVars
    <3>2. ASSUME NEW p \in Operators, NEW m \in Messages, RetryRead(p, m)
          PROVE  \/ opPc[o] # "idle" /\ opMsg'[o] = opMsg[o]
                 \/ opMsg'[o] \in Messages /\ status[opMsg'[o]] = "failed"
      BY <3>2, <1>3, <1>0, Zenon DEF RetryRead, OpTyped
    <3>3. ASSUME NEW p \in Operators, RetryMessage(p) \/ RetryFails(p)
          PROVE  opPc[o] # "idle" /\ opMsg'[o] = opMsg[o]
      <4>1. CASE OpReturn(p)
        BY <4>1, <1>3, <1>0 DEF OpReturn, OpTyped
      <4>2. CASE /\ UNCHANGED opMsg /\ opPc[p] # "idle"
                 /\ \E s \in {"enqueue", "revert"} : opPc' = [opPc EXCEPT ![p] = s]
        BY <4>2, <1>3, <1>0, Zenon DEF OpTyped
      <4> QED
        BY <3>3, <4>1, <4>2 DEF RetryMessage, RetryTransition, RetryEnqueue, RetryRevert, RetryFails
    <3> QED
      BY <3>1, <3>2, <3>3, ZenonT(30) DEF Next, QueueMessage, CheckRecipient, CreateMessage, EnqueueCreated,
           RequestFails, BlockRecipient, Age, RowDue, EntryDue, Dequeue, ProcessOne, GetMessage,
           RecheckRecipient, Suppress, Claim, NumberAttempt, ResolveCredentials, Send, LogSent,
           LogError, RecordAttempt, MarkSent, MarkUnknown, MarkFailed, ScheduleRetryState,
           Abandon, RecoverQueue, MarkStaleSendingUnknown, ClaimQueuedMessagesForRecovery,
           EnqueueRecovered, RecoveryFails, QueueLost
  <2> QED BY <2>1, <2>2, <1>r
<1> QED BY <1>1, <1>2, <1>3 DEF HandlerRows, HasRow

\* Initially there are no rows and nothing refers to one.
LEMMA InitRows == Init => Rows
  BY DEF Init, Rows, RequestRows, QueueRows, HandlerRows, HasRow

\* Every step keeps rows ahead of entries.
LEMMA NextRows == Typed /\ Rows /\ [Next]_vars => Rows'
<1>1. ASSUME Typed, Rows, Next PROVE Rows'
  BY <1>1, RequestRowsStep, QueueRowsStep, HandlerRowsStep, Zenon DEF Rows
<1>2. ASSUME Rows, UNCHANGED vars PROVE Rows'
  BY <1>2 DEF Rows, RequestRows, QueueRows, HandlerRows, HasRow, vars, rowVars, workerVars,
       recVars, opVars
<1> QED BY <1>1, <1>2

\* Rows come before entries in every behaviour.
LEMMA SpecRows == Spec => []Rows
  BY InitRows, NextRows, SpecTyped, PTL DEF Spec

\* EntriesHaveRows is what Rows says of Redis and the loops.
LEMMA RowsImplyEntriesHaveRows == Typed /\ Rows => EntriesHaveRows
<1> SUFFICES ASSUME Typed, Rows, NEW m \in Messages,
                    \/ \E i \in DOMAIN ready : ready[i] = m
                    \/ retry[m] # "none"
                    \/ \E r \in Recoverers : m \in recIds[r]
                    \/ \E w \in Workers : msg[w] = m
             PROVE  status[m] # "none"
  BY Zenon DEF EntriesHaveRows
<1>1. m # NoMessage
  BY DeliveryAssumption DEF NoMessage
<1> QED BY <1>1, Zenon DEF Rows, QueueRows, HandlerRows, HasRow

\* Whatever is lost, repeated or abandoned, an id found in Redis or held by a loop
\* belongs to a committed row: QueueMessage inserts before it enqueues.
THEOREM RowsBeforeEntries == Spec => []EntriesHaveRows
  BY SpecTyped, SpecRows, RowsImplyEntriesHaveRows, PTL

----------------------------------------------------------------------------
(* Exclusive claims, and no way back to Send after an acknowledgement.      *)
(*                                                                          *)
(* ClaimExclusive is not inductive: a second claim is impossible only       *)
(* because a message with an owner never reads "queued".  That in turn      *)
(* needs the owner to be the only one who can requeue or fail the row, and, *)
(* for an acknowledged message, the owner to be past the steps that do.     *)

Held == {"sending", "sent", "suppressed", "unknown"}
Late == {"logSent", "markSent", "markUnknown"}

ClaimInv(m) ==
    ~clobbered[m] =>
        /\ \A w \in Workers : Owns(w, m) => status[m] \in Held
        /\ \A v, w \in Workers : Owns(v, m) /\ Owns(w, m) => v = w
        /\ acked[m] => status[m] \in Held
        /\ acked[m] => \A w \in Workers : Owns(w, m) => pc[w] \in Late

Claims == \A m \in Messages : ClaimInv(m)

\* Only Send acknowledges, and it then goes on to record the success.
LEMMA AckSteps ==
    Typed /\ Next => \A m \in Messages :
        \/ acked'[m] = acked[m]
        \/ \E w \in Workers : msg[w] = m /\ Send(w) /\ pc'[w] = "logSent"
<1> SUFFICES ASSUME Typed, Next, NEW m \in Messages
             PROVE  \/ acked'[m] = acked[m]
                    \/ \E w \in Workers : msg[w] = m /\ Send(w) /\ pc'[w] = "logSent"
  OBVIOUS
<1>1. CASE UNCHANGED acked
  BY <1>1
<1>2. ASSUME NEW w \in Workers, Send(w), acked' = [acked EXCEPT ![msg[w]] = TRUE],
             Goto(w, "logSent")
      PROVE  \/ acked'[m] = acked[m]
             \/ \E v \in Workers : msg[v] = m /\ Send(v) /\ pc'[v] = "logSent"
  BY <1>2, GotoAt, Zenon DEF Typed, SeenTyped
<1>3. \/ UNCHANGED acked
      \/ \E w \in Workers : /\ Send(w) /\ Goto(w, "logSent")
                            /\ acked' = [acked EXCEPT ![msg[w]] = TRUE]
  BY Zenon DEF Next, QueueMessage, CheckRecipient, CreateMessage, EnqueueCreated, RequestFails,
       BlockRecipient, Age, RowDue, EntryDue, Dequeue, ProcessOne, GetMessage, RecheckRecipient,
       Suppress, Claim, NumberAttempt, ResolveCredentials, Send, LogSent, LogError, RecordAttempt,
       MarkSent, MarkUnknown, MarkFailed, ScheduleRetryState, Abandon, RecoverQueue,
       MarkStaleSendingUnknown, ClaimQueuedMessagesForRecovery, EnqueueRecovered, RecoveryFails,
       RetryRead, RetryMessage, RetryTransition, RetryEnqueue, RetryRevert, RetryFails, QueueLost,
       seenVars
<1> QED BY <1>1, <1>2, <1>3

\* A clobbered message stays so, and a roll-back that does not clobber one finds
\* it queued or failed.
LEMMA ClobberSteps ==
    Typed /\ Next => \A m \in Messages :
        /\ clobbered[m] => clobbered'[m]
        /\ \A o \in Operators :
            RetryRevert(o) /\ opMsg[o] = m /\ ~clobbered'[m] => status[m] \in {"queued", "failed"}
<1> SUFFICES ASSUME Typed, Next, NEW m \in Messages
             PROVE  /\ clobbered[m] => clobbered'[m]
                    /\ \A o \in Operators :
                        RetryRevert(o) /\ opMsg[o] = m /\ ~clobbered'[m] =>
                            status[m] \in {"queued", "failed"}
  OBVIOUS
<1>0. clobbered \in [Messages -> BOOLEAN]
  BY DEF Typed, SeenTyped
<1>1. ASSUME NEW o \in Operators, RetryRevert(o)
      PROVE  /\ clobbered[m] => clobbered'[m]
             /\ opMsg[o] = m /\ ~clobbered'[m] => status[m] \in {"queued", "failed"}
  BY <1>1, <1>0, Zenon DEF RetryRevert
<1>2. UNCHANGED clobbered \/ \E o \in Operators : RetryRevert(o)
  BY Zenon DEF Next, QueueMessage, CheckRecipient, CreateMessage, EnqueueCreated, RequestFails,
       BlockRecipient, Age, RowDue, EntryDue, Dequeue, ProcessOne, GetMessage, RecheckRecipient,
       Suppress, Claim, NumberAttempt, ResolveCredentials, Send, LogSent, LogError, RecordAttempt,
       MarkSent, MarkUnknown, MarkFailed, ScheduleRetryState, Abandon, RecoverQueue,
       MarkStaleSendingUnknown, ClaimQueuedMessagesForRecovery, EnqueueRecovered, RecoveryFails,
       RetryRead, RetryMessage, RetryTransition, RetryEnqueue, RetryFails, QueueLost, seenVars
<1> QED BY <1>1, <1>2

\* A worker becomes the owner of a message only by the compare-and-set of Claim.
LEMMA OwnerSteps ==
    ASSUME Typed, Next, NEW m \in Messages, NEW w \in Workers, Owns(w, m)', ~Owns(w, m)
    PROVE  /\ Claim(w) /\ msg[w] = m /\ pc'[w] = "number"
           /\ status[m] = "queued" /\ status'[m] = "sending"
<1>1. msg'[w] = m /\ pc'[w] \in Owning /\ ~(msg[w] = m /\ pc[w] \in Owning)
  BY DEF Owns
<1>2. WorkerMove(w)
  BY WorkerMoves, Zenon
<1>3. ~(pc'[w] = pc[w] /\ msg'[w] = msg[w])
  BY <1>1
<1>4. /\ pc'[w] # "idle" /\ pc'[w] # "get" /\ pc'[w] # "check"
      /\ pc'[w] \notin {"suppress", "claim"} /\ pc'[w] # "schedule"
  BY <1>1, Zenon DEF Owning
<1>5. msg[w] = m => /\ pc[w] # "number" /\ pc[w] # "creds" /\ pc[w] # "send"
                    /\ pc[w] # "logSent" /\ pc[w] # "logError" /\ pc[w] # "markSent"
  BY <1>1 DEF Owning
<1>6. /\ msg'[w] = msg[w]
      /\ pc[w] = "claim" /\ pc'[w] = "number" /\ Claim(w)
      /\ status[msg[w]] = "queued" /\ status'[msg[w]] = "sending"
  <2>1. msg'[w] = msg[w]
    BY <1>2, <1>3, <1>4, Zenon DEF WorkerMove
  <2>2. msg[w] = m
    BY <1>1, <2>1
  <2> QED BY <1>2, <1>3, <1>4, <1>5, <2>1, <2>2, Zenon DEF WorkerMove
<1> QED BY <1>1, <1>6, Zenon

\* Claims is inductive.
LEMMA ClaimsStep == Typed /\ Rows /\ Claims /\ Next => Claims'
<1> SUFFICES ASSUME Typed, Rows, Claims, Next, NEW m \in Messages, ~clobbered'[m]
             PROVE  /\ \A w \in Workers : Owns(w, m)' => status'[m] \in Held
                    /\ \A v, w \in Workers : Owns(v, m)' /\ Owns(w, m)' => v = w
                    /\ acked'[m] => status'[m] \in Held
                    /\ acked'[m] => \A w \in Workers : Owns(w, m)' => pc'[w] \in Late
  BY DEF Claims, ClaimInv
<1>0. WorkerTyped /\ StatusStep(m)
  BY StatusSteps DEF Typed
<1>1. /\ ~clobbered[m]
      /\ \A o \in Operators : RetryRevert(o) /\ opMsg[o] = m => status[m] \in {"queued", "failed"}
  BY ClobberSteps, Zenon
<1>2. /\ \A w \in Workers : Owns(w, m) => status[m] \in Held
      /\ \A v, w \in Workers : Owns(v, m) /\ Owns(w, m) => v = w
      /\ acked[m] => status[m] \in Held
      /\ acked[m] => \A w \in Workers : Owns(w, m) => pc[w] \in Late
  BY <1>1, Zenon DEF Claims, ClaimInv
<1>3. req[m] = "insertQueued" => status[m] = "none"
  BY Zenon DEF Rows, RequestRows, HasRow
<1>4. ASSUME NEW w \in Workers, Owns(w, m)', ~Owns(w, m)
      PROVE  /\ \A v \in Workers : Owns(v, m)' => v = w
             /\ status'[m] \in Held
             /\ ~acked'[m]
  <2>1. /\ Claim(w) /\ msg[w] = m /\ pc'[w] = "number"
        /\ status[m] = "queued" /\ status'[m] = "sending"
    BY <1>4, OwnerSteps, Zenon
  <2>2. Goto(w, "number") /\ UNCHANGED acked
    BY <2>1, Zenon DEF Claim, seenVars
  <2>3. ~acked[m] /\ \A v \in Workers : ~Owns(v, m)
    BY <2>1, <1>2 DEF Held
  <2>4. \A v \in Workers : v # w => (Owns(v, m)' => Owns(v, m))
    BY <2>2, <1>0, GotoAt, Zenon DEF Owns
  <2> QED BY <2>1, <2>2, <2>3, <2>4, Zenon DEF Held
<1>5. CASE \A w \in Workers : Owns(w, m)' => Owns(w, m)
  <2>1. ASSUME NEW w \in Workers, msg[w] = m,
               MarkFailed(w) \/ (pc[w] = "retryAt" /\ ScheduleRetryState(w)),
               status'[m] # status[m]
        PROVE  Owns(w, m) /\ pc[w] \notin Late /\ ~Owns(w, m)'
    <3>1. Owns(w, m) /\ pc[w] \notin Late
      BY <2>1 DEF Owns, MarkFailed, Owning, Late
    <3>2. CASE MarkFailed(w)
      BY <3>1, <3>2, <1>0, ReturnAt, Zenon DEF MarkFailed, Owns, Owning
    <3>3. CASE pc[w] = "retryAt" /\ ScheduleRetryState(w)
      <4>1. Return(w) \/ Goto(w, "schedule")
        BY <3>3, Zenon DEF ScheduleRetryState
      <4>2. pc'[w] \in {"idle", "schedule"}
        BY <4>1, <1>0, ReturnAt, GotoAt
      <4> QED BY <3>1, <4>2 DEF Owns, Owning
    <3> QED BY <2>1, <3>1, <3>2, <3>3, Zenon
  <2>2. ASSUME status[m] \in Held,
               \/ \E w \in Workers : Owns(w, m)'
               \/ acked[m]
        PROVE  status'[m] \in Held
    <3>1. CASE status'[m] = status[m]
      BY <2>2, <3>1
    <3>2. CASE status'[m] # status[m]
      <4>1. ASSUME NEW w \in Workers, msg[w] = m,
                   MarkFailed(w) \/ (pc[w] = "retryAt" /\ ScheduleRetryState(w))
            PROVE  FALSE
        BY <2>1, <2>2, <3>2, <4>1, <1>2, <1>5, Zenon
      <4>2. status[m] \notin {"none", "queued", "failed"}
        BY <2>2 DEF Held
      <4>3. \A w \in Workers : ~(msg[w] = m /\ MarkFailed(w))
        BY <4>1
      <4>4. \A w \in Workers : ~(msg[w] = m /\ pc[w] = "retryAt" /\ ScheduleRetryState(w))
        BY <4>1, Zenon
      <4>5. status'[m] \in {"suppressed", "sending", "sent", "unknown"}
        BY <4>2, <4>3, <4>4, <3>2, <1>0, <1>1, <1>3 DEF StatusStep
      <4> QED BY <4>5 DEF Held
    <3> QED BY <3>1, <3>2
  <2>3. ASSUME NEW w \in Workers, msg[w] = m, Send(w), pc'[w] = "logSent"
        PROVE  /\ status'[m] \in Held
               /\ \A v \in Workers : Owns(v, m)' => pc'[v] \in Late
    <3>1. Owns(w, m) /\ UNCHANGED status
      BY <2>3, Zenon DEF Send, Owns, Owning, rowVars
    <3> QED BY <2>3, <3>1, <1>2, <1>5, Zenon DEF Late
  <2>4. acked'[m] = acked[m] \/ \E w \in Workers : msg[w] = m /\ Send(w) /\ pc'[w] = "logSent"
    BY AckSteps
  <2>5. ASSUME acked[m], NEW w \in Workers, Owns(w, m)' PROVE pc'[w] \in Late
    <3>1. pc[w] \in Late /\ pc'[w] \in Owning
      BY <2>5, <1>2, <1>5 DEF Owns
    <3>2. WorkerMove(w)
      BY WorkerMoves, Zenon
    <3> QED BY <3>1, <3>2, ZenonT(30) DEF WorkerMove, Late, Owning
  <2> QED BY <2>2, <2>3, <2>4, <2>5, <1>2, <1>5, Zenon
<1> QED BY <1>4, <1>5, Zenon

\* Initially nobody owns a message and none is acknowledged.
LEMMA InitClaims == Init => Claims
  BY DEF Init, Claims, ClaimInv, Owns, Owning

\* Every step, stuttering included, keeps Claims.
LEMMA NextClaims == Typed /\ Rows /\ Claims /\ [Next]_vars => Claims'
<1>1. ASSUME Claims, UNCHANGED vars PROVE Claims'
  BY <1>1 DEF Claims, ClaimInv, Owns, vars, rowVars, workerVars, seenVars
<1> QED BY <1>1, ClaimsStep, Zenon

\* Claims holds in every behaviour.
LEMMA SpecClaims == Spec => []Claims
  BY InitClaims, NextClaims, SpecTyped, SpecRows, PTL DEF Spec

\* At most one worker at a time works on a claimed message, however many copies of
\* its id are in Redis and however many processes run.
THEOREM ClaimsAreExclusive == Spec => []ClaimExclusive
<1>1. Claims => ClaimExclusive
  BY Zenon DEF Claims, ClaimInv, ClaimExclusive
<1> QED BY <1>1, SpecClaims, PTL

\* Once Send returned nil for a message, no handler brings it back to Send.
THEOREM NoResend == Spec => []NoResendAfterAck
<1>1. Claims => NoResendAfterAck
  BY DEF Claims, ClaimInv, NoResendAfterAck, Held, Late, Owns, Owning
<1> QED BY <1>1, SpecClaims, PTL

\* No handler and no recovery pass takes a message out of its final outcome, except
\* the roll-back of a failed retry.
THEOREM OutcomesAreFinal == Spec => OutcomeIsFinal
<1> DEFINE Final == {"unknown", "sent", "suppressed"}
<1> DEFINE Keeps == \A m \in Messages : status[m] \in Final /\ ~clobbered'[m] => status'[m] \in Final
<1>1. Typed /\ Rows /\ [Next]_vars => [Keeps]_vars
  <2> SUFFICES ASSUME Typed, Rows, Next, NEW m \in Messages, status[m] \in Final, ~clobbered'[m]
               PROVE  status'[m] \in Final
    OBVIOUS
  <2>1. StatusStep(m)
    BY StatusSteps
  <2>2. req[m] = "insertQueued" => status[m] = "none"
    BY DEF Rows, RequestRows, HasRow
  <2>3. \A o \in Operators : RetryRevert(o) /\ opMsg[o] = m => status[m] \in {"queued", "failed"}
    BY ClobberSteps
  <2> QED BY <2>1, <2>2, <2>3, Zenon DEF StatusStep
<1> QED BY <1>1, SpecTyped, SpecRows, PTL DEF Spec, OutcomeIsFinal

----------------------------------------------------------------------------
(* Who moves.  A step is one worker's, and leaves the other workers alone,  *)
(* or it leaves all workers alone.                                          *)

\* What Run keeps of a message between two statements.
Rests(w) == pc'[w] = pc[w] /\ msg'[w] = msg[w] /\ no'[w] = no[w] /\ dirtyPop'[w] = dirtyPop[w]

Moves(w) == (\E m \in Messages : Dequeue(w, m)) \/ ProcessOne(w) \/ Abandon(w)

\* Goto and Return change the state of the one worker they name.
LEMMA OthersRest ==
    ASSUME WorkerTyped, NEW w \in Workers, NEW v \in Workers, v # w,
           Return(w) \/ \E s \in WorkerSteps : Goto(w, s)
    PROVE  Rests(v)
  BY Zenon DEF WorkerTyped, Return, Goto, Rests

\* A statement of one worker's ProcessOne leaves the other workers where they are.
LEMMA MoverIsAlone ==
    ASSUME WorkerTyped, NEW w \in Workers, Moves(w), NEW v \in Workers, v # w
    PROVE  Rests(v)
<1>s. {"check", "suppress", "claim", "number", "creds", "send", "logSent", "logError", "markSent",
       "markFailed", "retryAt", "markUnknown", "schedule"} \subseteq WorkerSteps
  BY DEF WorkerSteps, Owning
<1>1. ASSUME NEW m \in Messages, Dequeue(w, m) PROVE Rests(v)
  BY <1>1, Zenon DEF Dequeue, WorkerTyped, Rests
<1>2. CASE NumberAttempt(w)
  <2>1. CASE Goto(w, "retryAt")
    BY <2>1, <1>s, OthersRest
  <2>2. CASE pc' = [pc EXCEPT ![w] = "creds"] /\ UNCHANGED <<msg, dirtyPop>> /\ NextAttemptNo(w)
    BY <2>2, Zenon DEF NextAttemptNo, WorkerTyped, Rests
  <2> QED BY <1>2, <2>1, <2>2, Zenon DEF NumberAttempt
<1>3. CASE LogError(w)
  <2>1. \E s \in {"markFailed", "retryAt", "markUnknown"} : Goto(w, s)
    BY <1>3, Zenon DEF LogError, RecordAttempt
  <2> QED BY <2>1, <1>s, OthersRest
<1>4. CASE (ProcessOne(w) /\ ~NumberAttempt(w) /\ ~LogError(w)) \/ Abandon(w)
  <2>1. Return(w) \/ \E s \in {"check", "suppress", "claim", "number", "creds", "send", "logSent",
                               "logError", "markSent", "retryAt", "markUnknown", "schedule"} : Goto(w, s)
    BY <1>4, ZenonT(60) DEF ProcessOne, GetMessage, RecheckRecipient, Suppress, Claim, ResolveCredentials,
         Send, LogSent, RecordAttempt, MarkSent, MarkUnknown, MarkFailed, ScheduleRetryState, Abandon
  <2> QED BY <2>1, <1>s, OthersRest
<1> QED BY <1>1, <1>2, <1>3, <1>4 DEF Moves

\* The steps of everybody else leave all workers where they are.
LEMMA SomebodyMoves ==
    Next => UNCHANGED workerVars \/ \E w \in Workers : Moves(w)
  BY Zenon DEF Next, Moves, QueueMessage, CheckRecipient, CreateMessage, EnqueueCreated, RequestFails,
       BlockRecipient, Age, RowDue, EntryDue, RecoverQueue, MarkStaleSendingUnknown,
       ClaimQueuedMessagesForRecovery, EnqueueRecovered, RecoveryFails, RetryRead, RetryMessage,
       RetryTransition, RetryEnqueue, RetryRevert, RetryFails, QueueLost

\* A worker rests, or the step is its own.
LEMMA MoveOrRest == Typed /\ Next => \A w \in Workers : Rests(w) \/ Moves(w)
<1> SUFFICES ASSUME Typed, Next, NEW v \in Workers PROVE Rests(v) \/ Moves(v)
  OBVIOUS
<1>1. CASE UNCHANGED workerVars
  BY <1>1 DEF workerVars, Rests
<1>2. ASSUME NEW w \in Workers, Moves(w) PROVE Rests(v) \/ Moves(v)
  BY <1>2, MoverIsAlone DEF Typed
<1> QED BY <1>1, <1>2, SomebodyMoves

----------------------------------------------------------------------------
(* The re-check of the recipient.  A recipient that was blocked when the    *)
(* worker took the id is still blocked when ProcessOne looks, so the worker *)
(* takes the way to Suppress.                                               *)

Rechecked ==
    \A w \in Workers :
        /\ dirtyPop[w] => pc[w] # "idle" /\ blocked[msg[w]]
        /\ pc[w] \in {"claim"} \union Owning => ~dirtyPop[w]

\* Nothing takes a recipient off the lists.
LEMMA BlockedStays == Typed /\ Next => \A m \in Messages : blocked[m] => blocked'[m]
<1>1. ASSUME Typed, NEW m \in Messages, BlockRecipient(m)
      PROVE  \A k \in Messages : blocked[k] => blocked'[k]
  BY <1>1, Zenon DEF BlockRecipient, Typed, RequestTyped
<1>2. Next => UNCHANGED blocked \/ \E m \in Messages : BlockRecipient(m)
  BY Zenon DEF Next, QueueMessage, CheckRecipient, CreateMessage, EnqueueCreated, RequestFails,
       Age, RowDue, EntryDue, Dequeue, ProcessOne, GetMessage, RecheckRecipient,
       Suppress, Claim, NumberAttempt, ResolveCredentials, Send, LogSent, LogError, RecordAttempt,
       MarkSent, MarkUnknown, MarkFailed, ScheduleRetryState, Abandon, RecoverQueue,
       MarkStaleSendingUnknown, ClaimQueuedMessagesForRecovery, EnqueueRecovered, RecoveryFails,
       RetryRead, RetryMessage, RetryTransition, RetryEnqueue, RetryRevert, RetryFails, QueueLost
<1> QED BY <1>1, <1>2

\* Every statement of a worker keeps Rechecked.
LEMMA RecheckedStep == Typed /\ Rechecked /\ Next => Rechecked'
<1> SUFFICES ASSUME Typed, Rechecked, Next, NEW w \in Workers
             PROVE  /\ dirtyPop'[w] => pc'[w] # "idle" /\ blocked'[msg'[w]]
                    /\ pc'[w] \in {"claim"} \union Owning => ~dirtyPop'[w]
  BY DEF Rechecked
<1> DEFINE Good == /\ dirtyPop'[w] => pc'[w] # "idle" /\ blocked'[msg'[w]]
                   /\ pc'[w] \in {"claim"} \union Owning => ~dirtyPop'[w]
<1>0. /\ WorkerTyped
      /\ pc[w] # "idle" => msg[w] \in Messages
      /\ \A m \in Messages : blocked[m] => blocked'[m]
  BY BlockedStays DEF Typed, WorkerTyped
<1>1. /\ dirtyPop[w] => pc[w] # "idle" /\ blocked[msg[w]]
      /\ pc[w] \in {"claim"} \union Owning => ~dirtyPop[w]
  BY DEF Rechecked
<1>2. CASE Rests(w)
  BY <1>0, <1>1, <1>2 DEF Rests
<1>3. ASSUME NEW m \in Messages, Dequeue(w, m) PROVE Good
  <2>1. pc'[w] = "get" /\ msg'[w] = m /\ dirtyPop'[w] = blocked[m] /\ blocked' = blocked
    BY <1>3, <1>0, Zenon DEF Dequeue, WorkerTyped
  <2>2. "get" \notin {"claim"} \union Owning
    BY DEF Owning
  <2> QED BY <2>1, <2>2
<1>4. CASE RecheckRecipient(w)
  <2>1. /\ msg'[w] = msg[w] /\ dirtyPop'[w] = dirtyPop[w] /\ blocked' = blocked
        /\ pc'[w] = IF blocked[msg[w]] THEN "suppress" ELSE "claim"
    BY <1>4, <1>0, GotoAt, Zenon DEF RecheckRecipient, Goto
  <2>2. "suppress" \notin {"claim"} \union Owning
    BY DEF Owning
  <2> QED BY <2>1, <2>2, <1>1
<1>5. CASE Return(w)
  <2>1. pc'[w] = "idle" /\ dirtyPop'[w] = FALSE
    BY <1>5, <1>0 DEF Return, WorkerTyped
  <2> QED BY <2>1
<1>6. CASE /\ msg'[w] = msg[w] /\ dirtyPop'[w] = dirtyPop[w] /\ pc[w] # "idle" /\ pc'[w] # "idle"
           /\ pc[w] \in {"claim"} \union Owning \/ pc'[w] \notin {"claim"} \union Owning
  BY <1>0, <1>1, <1>6
<1>7. ASSUME ProcessOne(w), ~RecheckRecipient(w) PROVE Good
  <2>1. CASE GetMessage(w)
    <3>1. CASE Goto(w, "check")
      <4>1. /\ msg'[w] = msg[w] /\ dirtyPop'[w] = dirtyPop[w] /\ pc[w] = "get" /\ pc'[w] = "check"
        BY <3>1, <2>1, <1>0, GotoAt, Zenon DEF Goto, GetMessage
      <4> QED BY <4>1, <1>6 DEF Owning
    <3> QED BY <2>1, <3>1, <1>5 DEF GetMessage
  <2>2. CASE NumberAttempt(w)
    <3>1. msg'[w] = msg[w] /\ dirtyPop'[w] = dirtyPop[w] /\ pc[w] = "number"
      BY <2>2, Zenon DEF NumberAttempt, Goto
    <3>2. pc'[w] \in {"creds", "retryAt"}
      BY <2>2, <1>0, GotoAt DEF NumberAttempt, WorkerTyped
    <3> QED BY <3>1, <3>2, <1>6 DEF Owning
  <2>3. ASSUME pc[w] \in {"claim"} \union Owning, NEW s, Goto(w, s), s # "idle" PROVE Good
    BY <2>3, <1>0, <1>6, GotoAt DEF Goto, Owning
  <2>4. CASE ~GetMessage(w) /\ ~NumberAttempt(w)
    <3>1. Return(w) \/ (pc[w] \in {"claim"} \union Owning /\ \E s : s # "idle" /\ Goto(w, s))
      <4>1. CASE Claim(w)
        BY <4>1, Zenon DEF Claim
      <4>2. CASE ResolveCredentials(w) \/ Send(w) \/ LogSent(w) \/ MarkSent(w)
        <5>1. pc[w] \in Owning
          BY <4>2, Zenon DEF ResolveCredentials, Send, LogSent, MarkSent, Owning
        <5> QED
          BY <4>2, <5>1, Zenon DEF ResolveCredentials, Send, LogSent, RecordAttempt, MarkSent
      <4>3. CASE LogError(w)
        <5>1. \E s \in {"markFailed", "retryAt", "markUnknown"} : Goto(w, s)
          BY <4>3, Zenon DEF LogError, RecordAttempt
        <5> QED BY <4>3, <5>1 DEF LogError, Owning
      <4>4. CASE Suppress(w) \/ MarkUnknown(w) \/ MarkFailed(w) \/ ScheduleRetryState(w)
        <5>1. CASE pc[w] = "retryAt" /\ Goto(w, "schedule")
          BY <5>1 DEF Owning
        <5> QED BY <4>4, <5>1, Zenon DEF Suppress, MarkUnknown, MarkFailed, ScheduleRetryState
      <4> QED BY <1>7, <2>4, <4>1, <4>2, <4>3, <4>4, Zenon DEF ProcessOne
    <3> QED BY <3>1, <2>3, <1>5, Zenon
  <2> QED BY <2>1, <2>2, <2>4
<1>8. Abandon(w) => Return(w)
  BY DEF Abandon
<1> QED BY MoveOrRest, <1>2, <1>3, <1>4, <1>5, <1>7, <1>8, Zenon DEF Moves

\* A recipient suppressed before a worker took the id is not submitted by it: the
\* check of ProcessOne comes after the pop, and nothing leaves the lists.
THEOREM SuppressedIsNotSubmitted == Spec => []BlockedIsNotSubmitted
<1>1. Init => Rechecked
  BY DEF Init, Rechecked, Owning
<1>2. Typed /\ Rechecked /\ [Next]_vars => Rechecked'
  <2>1. ASSUME Rechecked, UNCHANGED vars PROVE Rechecked'
    BY <2>1 DEF Rechecked, vars, workerVars
  <2> QED BY <2>1, RecheckedStep
<1>3. Rechecked => BlockedIsNotSubmitted
  BY DEF Rechecked, BlockedIsNotSubmitted
<1> QED BY <1>1, <1>2, <1>3, SpecTyped, PTL DEF Spec

----------------------------------------------------------------------------
(* scheduled_at.  Only SetMessageRetryAt sets it, together with "queued";   *)
(* every statement that writes another status clears it.                    *)

\* SetMessageStatus keeps the schedule of a queued row only.
LEMMA SetStatusClears ==
    ASSUME RowTyped, ScheduleOnlyWhileQueued, NEW m \in Messages, NEW s, SetMessageStatus(m, s)
    PROVE  ScheduleOnlyWhileQueued'
<1> SUFFICES ASSUME NEW k \in Messages, scheduled'[k] # "null" PROVE status'[k] = "queued"
  BY DEF ScheduleOnlyWhileQueued
<1>1. CASE k = m
  BY <1>1 DEF SetMessageStatus, RowTyped
<1>2. CASE k # m
  BY <1>2 DEF SetMessageStatus, RowTyped, ScheduleOnlyWhileQueued
<1> QED BY <1>1, <1>2

\* Every step keeps schedules to queued rows.
LEMMA ScheduleStep == Typed /\ Rows /\ ScheduleOnlyWhileQueued /\ Next => ScheduleOnlyWhileQueued'
<1> SUFFICES ASSUME Typed, Rows, ScheduleOnlyWhileQueued, Next PROVE ScheduleOnlyWhileQueued'
  OBVIOUS
<1>0. RowTyped /\ WorkerTyped /\ OpTyped
  BY DEF Typed
<1>u. UNCHANGED <<status, scheduled>> => ScheduleOnlyWhileQueued'
  BY DEF ScheduleOnlyWhileQueued
<1>1. ASSUME NEW m \in Messages, CreateMessage(m) \/ RequestFails(m) PROVE ScheduleOnlyWhileQueued'
  <2>1. CASE status' = status
    BY <1>1, <2>1, <1>u DEF CreateMessage, RequestFails
  <2>2. CASE status[m] = "none" /\ scheduled' = scheduled /\ \E s : status' = [status EXCEPT ![m] = s]
    BY <2>2, <1>0 DEF ScheduleOnlyWhileQueued, RowTyped
  <2>3. req[m] \in {"insertQueued", "insertSuppressed"} => status[m] = "none"
    BY Zenon DEF Rows, RequestRows, HasRow
  <2> QED BY <1>1, <2>1, <2>2, <2>3, Zenon DEF CreateMessage, RequestFails
<1>2. ASSUME NEW m \in Messages, RowDue(m) PROVE ScheduleOnlyWhileQueued'
  BY <1>2, <1>0 DEF RowDue, RowTyped, ScheduleOnlyWhileQueued
<1>3. ASSUME NEW w \in Workers, ProcessOne(w) PROVE ScheduleOnlyWhileQueued'
  <2>1. CASE UNCHANGED rowVars
    BY <2>1, <1>u DEF rowVars
  <2>2. pc[w] # "idle" => msg[w] \in Messages
    BY <1>0 DEF WorkerTyped
  <2>3. CASE pc[w] # "idle" /\ \E s : SetMessageStatus(msg[w], s)
    BY <2>2, <2>3, <1>0, SetStatusClears
  <2>4. CASE pc[w] # "idle" /\ SetMessageRetryAt(msg[w])
    BY <2>2, <2>4, <1>0 DEF SetMessageRetryAt, RowTyped, ScheduleOnlyWhileQueued
  <2> QED
    BY <1>3, <2>1, <2>3, <2>4, Zenon DEF ProcessOne, GetMessage, RecheckRecipient, Suppress, Claim,
         TransitionMessageStatus, NumberAttempt, ResolveCredentials, Send, LogSent, LogError,
         RecordAttempt, MarkSent, MarkUnknown, MarkFailed, ScheduleRetryState
<1>4. ASSUME NEW r \in Recoverers, MarkStaleSendingUnknown(r) \/ ClaimQueuedMessagesForRecovery(r)
      PROVE  ScheduleOnlyWhileQueued'
  <2> SUFFICES ASSUME NEW k \in Messages, scheduled'[k] # "null" PROVE status'[k] = "queued"
    BY DEF ScheduleOnlyWhileQueued
  <2>1. CASE MarkStaleSendingUnknown(r)
    <3>1. scheduled[k] # "null"
      BY <2>1 DEF MarkStaleSendingUnknown
    <3>2. status[k] = "queued"
      BY <3>1 DEF ScheduleOnlyWhileQueued
    <3> QED BY <2>1, <3>2 DEF MarkStaleSendingUnknown
  <2>2. CASE ClaimQueuedMessagesForRecovery(r)
    <3>1. scheduled[k] # "null" /\ status' = status
      BY <2>2, <1>0 DEF ClaimQueuedMessagesForRecovery, RowTyped
    <3> QED BY <3>1 DEF ScheduleOnlyWhileQueued
  <2> QED BY <1>4, <2>1, <2>2
<1>5. ASSUME NEW o \in Operators, RetryMessage(o) PROVE ScheduleOnlyWhileQueued'
  <2>1. opPc[o] # "idle" => opMsg[o] \in Messages
    BY <1>0 DEF OpTyped
  <2>2. UNCHANGED rowVars \/ (opPc[o] # "idle" /\ \E s : SetMessageStatus(opMsg[o], s))
    BY <1>5, Zenon DEF RetryMessage, RetryTransition, TransitionMessageStatus, RetryEnqueue, RetryRevert
  <2> QED BY <2>1, <2>2, <1>0, <1>u, SetStatusClears, Zenon DEF rowVars
<1> QED
  BY <1>u, <1>1, <1>2, <1>3, <1>4, <1>5, Zenon DEF Next, QueueMessage, CheckRecipient, EnqueueCreated,
       BlockRecipient, Age, EntryDue, Dequeue, Abandon, RecoverQueue, EnqueueRecovered, RecoveryFails,
       RetryRead, RetryFails, QueueLost, rowVars

\* A row with a scheduled_at is queued, so no schedule left behind by an earlier
\* attempt hides a requeued message from recovery.
THEOREM SchedulesAreCleared == Spec => []ScheduleOnlyWhileQueued
<1>1. Init => ScheduleOnlyWhileQueued
  BY DEF Init, ScheduleOnlyWhileQueued
<1>2. Typed /\ Rows /\ ScheduleOnlyWhileQueued /\ [Next]_vars => ScheduleOnlyWhileQueued'
  <2>1. ScheduleOnlyWhileQueued /\ UNCHANGED vars => ScheduleOnlyWhileQueued'
    BY DEF ScheduleOnlyWhileQueued, vars, rowVars
  <2> QED BY <2>1, ScheduleStep
<1> QED BY <1>1, <1>2, SpecTyped, SpecRows, PTL DEF Spec

----------------------------------------------------------------------------
(* message_attempts.  Only RecordAttempt inserts, and a worker goes on to   *)
(* MarkSent, MarkFailed or a retry after Send only with its row inserted.   *)

\* Worker w inserts its row, with the number it holds, for message m.
Inserts(w, m, ok) ==
    /\ msg[w] = m /\ pc[w] = (IF ok THEN "logSent" ELSE "logError")
    /\ \A a \in attempts[m] : a.no # no[w]
    /\ attempts'[m] = attempts[m] \union {[no |-> no[w], ok |-> ok]}

\* A row comes from the statement that follows Send.
LEMMA AttemptSteps ==
    Typed /\ Next => \A m \in Messages :
        \/ attempts'[m] = attempts[m]
        \/ \E w \in Workers, ok \in BOOLEAN : Inserts(w, m, ok)
<1> SUFFICES ASSUME Typed, Next, NEW m \in Messages
             PROVE  \/ attempts'[m] = attempts[m]
                    \/ \E w \in Workers, ok \in BOOLEAN : Inserts(w, m, ok)
  OBVIOUS
<1>0. attempts \in [Messages -> SUBSET Attempt]
  BY DEF Typed, SeenTyped
<1>1. CASE UNCHANGED attempts
  BY <1>1
<1>2. ASSUME NEW w \in Workers, NEW ok \in BOOLEAN, pc[w] = (IF ok THEN "logSent" ELSE "logError"),
             InsertAttempt(msg[w], no[w], ok)
      PROVE  attempts'[m] = attempts[m] \/ Inserts(w, m, ok)
  <2>1. CASE msg[w] = m
    BY <1>0, <1>2, <2>1 DEF InsertAttempt, Inserts
  <2>2. CASE msg[w] # m
    BY <1>0, <1>2, <2>2 DEF InsertAttempt
  <2> QED BY <2>1, <2>2
<1>3. ASSUME NEW w \in Workers, LogSent(w) \/ LogError(w)
      PROVE  \/ UNCHANGED attempts
             \/ \E ok \in BOOLEAN : /\ pc[w] = (IF ok THEN "logSent" ELSE "logError")
                                    /\ InsertAttempt(msg[w], no[w], ok)
  BY <1>3, Zenon DEF LogSent, LogError, RecordAttempt
<1>4. UNCHANGED attempts \/ \E w \in Workers : LogSent(w) \/ LogError(w)
  BY Zenon DEF Next, QueueMessage, CheckRecipient, CreateMessage, EnqueueCreated, RequestFails,
       BlockRecipient, Age, RowDue, EntryDue, Dequeue, ProcessOne, GetMessage, RecheckRecipient,
       Suppress, Claim, NumberAttempt, ResolveCredentials, Send,
       MarkSent, MarkUnknown, MarkFailed, ScheduleRetryState, Abandon, RecoverQueue,
       MarkStaleSendingUnknown, ClaimQueuedMessagesForRecovery, EnqueueRecovered, RecoveryFails,
       RetryRead, RetryMessage, RetryTransition, RetryEnqueue, RetryRevert, RetryFails, QueueLost
<1> QED BY <1>1, <1>2, <1>3, <1>4, Zenon

\* No attempt is ever deleted.
LEMMA AttemptsStay == Typed /\ Next => \A m \in Messages : attempts[m] \subseteq attempts'[m]
<1> SUFFICES ASSUME Typed, Next, NEW m \in Messages PROVE attempts[m] \subseteq attempts'[m]
  OBVIOUS
<1> QED BY AttemptSteps, Zenon DEF Inserts

\* How the steps around an attempt move the worker that takes them.
AttemptMove(w) ==
    \/ Rests(w)
    \/ pc'[w] = "idle"
    \/ /\ msg'[w] = msg[w] /\ no'[w] = no[w]
       /\ \/ pc[w] = "creds" /\ pc'[w] = "send"
          \/ pc[w] = "send" /\ pc'[w] = "logSent" /\ acked'[msg[w]]
          \/ pc[w] = "send" /\ pc'[w] = "logError"
          \/ pc[w] = "logSent" /\ pc'[w] = "markSent" /\ Inserts(w, msg[w], TRUE)
          \/ /\ pc[w] = "logError" /\ Inserts(w, msg[w], FALSE)
             /\ pc'[w] = IF no[w] >= MaxAttempts THEN "markFailed" ELSE "retryAt"
    \/ pc[w] = "number" /\ pc'[w] = "creds" /\ NextAttemptNo(w) /\ msg'[w] = msg[w]
       /\ attempts' = attempts
    \/ /\ pc[w] \notin {"logSent", "logError"}
       /\ pc'[w] \in {"get", "check", "suppress", "claim", "number", "retryAt", "schedule"}
    \/ pc'[w] = "markUnknown"

\* Every step moves a worker in one of these ways.
LEMMA AttemptMoves == Typed /\ Next => \A w \in Workers : AttemptMove(w)
<1> SUFFICES ASSUME Typed, Next, NEW w \in Workers, Moves(w) PROVE AttemptMove(w)
  BY MoveOrRest, Zenon DEF AttemptMove
<1>0. /\ WorkerTyped /\ attempts \in [Messages -> SUBSET Attempt]
      /\ acked \in [Messages -> BOOLEAN]
      /\ pc[w] # "idle" => msg[w] \in Messages
  BY DEF Typed, SeenTyped, WorkerTyped
<1>r. Return(w) => AttemptMove(w)
  BY <1>0, ReturnAt, Zenon DEF AttemptMove
<1>g. ASSUME NEW s, Goto(w, s) PROVE pc'[w] = s /\ msg'[w] = msg[w] /\ no'[w] = no[w]
  BY <1>g, <1>0, GotoAt, Zenon DEF Goto
<1>1. ASSUME NEW m \in Messages, Dequeue(w, m) PROVE AttemptMove(w)
  BY <1>1, <1>0, Zenon DEF Dequeue, WorkerTyped, AttemptMove
<1>2. CASE GetMessage(w) \/ RecheckRecipient(w) \/ Claim(w) \/ ScheduleRetryState(w)
  <2>1. \/ Return(w)
        \/ /\ pc[w] \in {"get", "check", "claim", "retryAt", "schedule"}
           /\ \E s \in {"check", "suppress", "claim", "number", "schedule"} : Goto(w, s)
    <3>1. CASE RecheckRecipient(w)
      BY <3>1 DEF RecheckRecipient
    <3> QED BY <1>2, <3>1, Zenon DEF GetMessage, Claim, ScheduleRetryState
  <2> QED BY <2>1, <1>r, <1>g, Zenon DEF AttemptMove
<1>3. CASE NumberAttempt(w)
  <2>1. CASE Goto(w, "retryAt")
    BY <1>3, <2>1, <1>g, Zenon DEF NumberAttempt, AttemptMove
  <2>2. CASE NextAttemptNo(w) /\ pc' = [pc EXCEPT ![w] = "creds"] /\ UNCHANGED <<msg, attempts>>
    BY <1>3, <2>2, <1>0, Zenon DEF NumberAttempt, WorkerTyped, AttemptMove
  <2> QED BY <1>3, <2>1, <2>2, Zenon DEF NumberAttempt
<1>4. CASE ResolveCredentials(w)
  BY <1>4, <1>g DEF ResolveCredentials, AttemptMove
<1>5. CASE Send(w)
  <2>1. CASE acked' = [acked EXCEPT ![msg[w]] = TRUE] /\ Goto(w, "logSent")
    <3>1. acked'[msg[w]]
      BY <2>1, <1>5, <1>0, Zenon DEF Send
    <3> QED BY <1>5, <2>1, <3>1, <1>g, Zenon DEF Send, AttemptMove
  <2>2. CASE Goto(w, "logError")
    BY <1>5, <2>2, <1>g, Zenon DEF Send, AttemptMove
  <2> QED BY <1>5, <2>1, <2>2, Zenon DEF Send
<1>6. ASSUME NEW ok \in BOOLEAN, NEW s, RecordAttempt(w, ok, s),
             pc[w] = (IF ok THEN "logSent" ELSE "logError")
      PROVE  \/ pc'[w] = "markUnknown"
             \/ pc'[w] = s /\ msg'[w] = msg[w] /\ no'[w] = no[w] /\ Inserts(w, msg[w], ok)
  <2>1. CASE Goto(w, "markUnknown")
    BY <2>1, <1>g
  <2>2. CASE InsertAttempt(msg[w], no[w], ok) /\ Goto(w, s)
    <3>1. msg[w] \in Messages
      BY <1>6, <1>0
    <3>2. Inserts(w, msg[w], ok)
      BY <1>0, <1>6, <2>2, <3>1, Zenon DEF InsertAttempt, Inserts
    <3> QED BY <2>2, <3>2, <1>g, Zenon
  <2> QED BY <1>6, <2>1, <2>2, Zenon DEF RecordAttempt
<1>7. CASE LogSent(w)
  BY <1>6, <1>7, Zenon DEF LogSent, AttemptMove
<1>8. CASE LogError(w)
  BY <1>6, <1>8, Zenon DEF LogError, AttemptMove
<1>9. CASE MarkSent(w)
  BY <1>9, <1>r, <1>g, Zenon DEF MarkSent, AttemptMove
<1>10. CASE Suppress(w) \/ MarkUnknown(w) \/ MarkFailed(w) \/ Abandon(w)
  BY <1>10, <1>r, Zenon DEF Suppress, MarkUnknown, MarkFailed, Abandon
<1> QED
  BY <1>1, <1>2, <1>3, <1>4, <1>5, <1>7, <1>8, <1>9, <1>10, Zenon DEF Moves, ProcessOne

----------------------------------------------------------------------------
(* "sent" is recorded.  MarkSent is reached only through a Send that        *)
(* returned nil and the row of a successful attempt; neither is withdrawn.  *)

Succeeded(m) == \E a \in attempts[m] : a.ok

SuccessKept ==
    /\ \A m \in Messages : status[m] = "sent" => acked[m] /\ Succeeded(m)
    /\ \A w \in Workers : pc[w] \in {"logSent", "markSent"} => acked[msg[w]]
    /\ \A w \in Workers : pc[w] = "markSent" => Succeeded(msg[w])

\* An acknowledgement is never withdrawn.
LEMMA AckStays == Typed /\ Next => \A m \in Messages : acked[m] => acked'[m]
<1> SUFFICES ASSUME Typed, Next, NEW m \in Messages, acked[m] PROVE acked'[m]
  OBVIOUS
<1>1. CASE acked'[m] = acked[m]
  BY <1>1
<1>2. ASSUME NEW w \in Workers, msg[w] = m, Send(w) PROVE acked'[m]
  <2>1. CASE acked' = [acked EXCEPT ![msg[w]] = TRUE]
    BY <1>2, <2>1 DEF Typed, SeenTyped
  <2> QED BY <1>2, <2>1, Zenon DEF Send
<1> QED BY <1>1, <1>2, AckSteps

\* Every step keeps SuccessKept.
LEMMA SuccessStep == Typed /\ SuccessKept /\ Next => SuccessKept'
<1> SUFFICES ASSUME Typed, SuccessKept, Next PROVE SuccessKept'
  OBVIOUS
<1>0. WorkerTyped
  BY DEF Typed
<1>1. \A m \in Messages : acked[m] => acked'[m]
  BY AckStays
<1>s. \A m \in Messages : (\E a \in attempts[m] : a.ok) => (\E a \in attempts'[m] : a.ok)
  BY AttemptsStay, Zenon
<1>2. ASSUME NEW m \in Messages, status'[m] = "sent"
      PROVE  acked'[m] /\ \E a \in attempts'[m] : a.ok
  <2>1. CASE status[m] = "sent"
    BY <2>1, <1>1, <1>s, Zenon DEF SuccessKept, Succeeded
  <2>2. ASSUME NEW w \in Workers, msg[w] = m, MarkSent(w)
        PROVE  acked[m] /\ \E a \in attempts[m] : a.ok
    BY <2>2 DEF MarkSent, SuccessKept, Succeeded
  <2>3. status[m] = "sent" \/ \E w \in Workers : msg[w] = m /\ MarkSent(w)
    BY <1>2, StatusSteps, Zenon DEF StatusStep
  <2> QED BY <1>1, <1>s, <2>1, <2>2, <2>3, Zenon
<1>3. ASSUME NEW w \in Workers, pc'[w] \in {"logSent", "markSent"}
      PROVE  acked'[msg'[w]] /\ (pc'[w] = "markSent" => \E a \in attempts'[msg'[w]] : a.ok)
  <2>0. AttemptMove(w)
    BY AttemptMoves
  <2>1. CASE Rests(w)
    <3>1. msg[w] \in Messages /\ pc[w] \in {"logSent", "markSent"} /\ msg'[w] = msg[w]
      BY <1>0, <1>3, <2>1 DEF Rests, WorkerTyped
    <3> QED BY <1>1, <1>s, <1>3, <2>1, <3>1, Zenon DEF SuccessKept, Succeeded, Rests
  <2>2. CASE msg'[w] = msg[w] /\ pc[w] = "send" /\ pc'[w] = "logSent" /\ acked'[msg[w]]
    BY <2>2
  <2>3. CASE /\ msg'[w] = msg[w] /\ pc[w] = "logSent" /\ pc'[w] = "markSent"
             /\ Inserts(w, msg[w], TRUE)
    <3>1. msg[w] \in Messages /\ acked[msg[w]]
      BY <1>0, <2>3 DEF WorkerTyped, SuccessKept
    <3>2. [no |-> no[w], ok |-> TRUE] \in attempts'[msg[w]]
      BY <2>3 DEF Inserts
    <3>3. \E a \in attempts'[msg[w]] : a.ok
      BY <3>2
    <3> QED BY <1>1, <2>3, <3>1, <3>3, Zenon
  <2> QED BY <1>3, <2>0, <2>1, <2>2, <2>3, Zenon DEF AttemptMove
<1> QED BY <1>2, <1>3, Zenon DEF SuccessKept, Succeeded

\* A row reads "sent" only with an acknowledged Send and a successful attempt behind
\* it, whatever fails between the statements of ProcessOne.
THEOREM SentHasEvidence == Spec => []SentIsRecorded
<1>1. Init => SuccessKept
  BY DEF Init, SuccessKept
<1>2. Typed /\ SuccessKept /\ [Next]_vars => SuccessKept'
  <2>1. ASSUME SuccessKept, UNCHANGED vars PROVE SuccessKept'
    BY <2>1, Zenon DEF SuccessKept, Succeeded, vars, rowVars, workerVars, seenVars
  <2> QED BY <2>1, SuccessStep
<1>3. SuccessKept => SentIsRecorded
  BY DEF SuccessKept, SentIsRecorded, Succeeded
<1> QED BY <1>1, <1>2, <1>3, SpecTyped, PTL DEF Spec

----------------------------------------------------------------------------
(* Counting.  What the lemmas below use of the theory of finite sets.  It   *)
(* is their hypothesis here and is proved where the library's theorems are  *)
(* instantiated, at the end: no obligation before carries them along.       *)

Counting ==
    /\ IsFiniteSet({}) /\ Cardinality({}) = 0
    /\ \A S : IsFiniteSet(S) =>
          /\ Cardinality(S) \in Nat
          /\ \A T \in SUBSET S : IsFiniteSet(T) /\ Cardinality(T) <= Cardinality(S)
          /\ \A x : x \notin S => /\ IsFiniteSet(S \union {x})
                                 /\ Cardinality(S \union {x}) = Cardinality(S) + 1
          /\ \A x \in S : /\ IsFiniteSet(S \ {x})
                          /\ Cardinality(S \ {x}) = Cardinality(S) - 1

----------------------------------------------------------------------------
(* Attempt numbers.  A worker may hold a number that another worker has     *)
(* used meanwhile, but never one beyond the next free number, so the row it *)
(* manages to insert is the next one.                                       *)

Numbered(m) ==
    /\ IsFiniteSet(attempts[m])
    /\ {a.no : a \in attempts[m]} = 1 .. Cardinality(attempts[m])
    /\ \A a, b \in attempts[m] : a.no = b.no => a = b

Numbers ==
    /\ \A m \in Messages : Numbered(m)
    /\ \A w \in Workers : pc[w] \in {"creds", "send", "logSent", "logError"} =>
          no[w] \in 1 .. Cardinality(attempts[msg[w]]) + 1

\* An insertion takes the next number.
LEMMA InsertsNext ==
    ASSUME Counting, Typed, Numbers, NEW m \in Messages, NEW w \in Workers,
           NEW ok \in BOOLEAN, Inserts(w, m, ok)
    PROVE  /\ no[w] = Cardinality(attempts[m]) + 1
           /\ Numbered(m)'
           /\ Cardinality(attempts'[m]) = Cardinality(attempts[m]) + 1
<1> DEFINE C == Cardinality(attempts[m])
           row == [no |-> no[w], ok |-> ok]
<1>1. /\ msg[w] = m /\ pc[w] \in {"logSent", "logError"}
      /\ \A a \in attempts[m] : a.no # no[w]
      /\ attempts'[m] = attempts[m] \union {row}
  BY DEF Inserts
<1>2. /\ IsFiniteSet(attempts[m]) /\ C \in Nat
      /\ {a.no : a \in attempts[m]} = 1 .. C
      /\ \A a, b \in attempts[m] : a.no = b.no => a = b
  BY DEF Counting, Numbers, Numbered
<1>3. no[w] \in 1 .. C + 1
  BY <1>1 DEF Numbers
<1>4. no[w] \notin 1 .. C
  BY <1>1, <1>2, Zenon
<1>5. no[w] = C + 1
  BY <1>2, <1>3, <1>4
<1>6. row \notin attempts[m] /\ row.no = no[w]
  BY <1>1
<1>7. IsFiniteSet(attempts'[m]) /\ Cardinality(attempts'[m]) = C + 1
  BY <1>1, <1>2, <1>6 DEF Counting
<1>8. {a.no : a \in attempts'[m]} = 1 .. C + 1
  <2>1. {a.no : a \in attempts'[m]} = {a.no : a \in attempts[m]} \union {no[w]}
    BY <1>1, <1>6, Zenon
  <2>2. 1 .. C + 1 = (1 .. C) \union {C + 1}
    BY <1>2
  <2> QED BY <2>1, <2>2, <1>2, <1>5, Zenon
<1>9. \A a, b \in attempts'[m] : a.no = b.no => a = b
  <2> SUFFICES ASSUME NEW a \in attempts'[m], NEW b \in attempts'[m], a.no = b.no PROVE a = b
    OBVIOUS
  <2>1. CASE a \in attempts[m] /\ b \in attempts[m]
    BY <1>2, <2>1, Zenon
  <2>2. CASE a = row \/ b = row
    BY <1>1, <1>6, <2>2, Zenon
  <2> QED BY <1>1, <2>1, <2>2, Zenon
<1> QED BY <1>5, <1>7, <1>8, <1>9 DEF Numbered

\* The row count of a message never falls.
LEMMA CountGrows ==
    Counting /\ Typed /\ Numbers /\ Next => \A m \in Messages :
        /\ Numbered(m)'
        /\ Cardinality(attempts[m]) \in Nat /\ Cardinality(attempts'[m]) \in Nat
        /\ Cardinality(attempts'[m]) >= Cardinality(attempts[m])
<1> SUFFICES ASSUME Counting, Typed, Numbers, Next, NEW m \in Messages
             PROVE  /\ Numbered(m)'
                    /\ Cardinality(attempts[m]) \in Nat /\ Cardinality(attempts'[m]) \in Nat
                    /\ Cardinality(attempts'[m]) >= Cardinality(attempts[m])
  OBVIOUS
<1>0. Numbered(m) /\ Cardinality(attempts[m]) \in Nat
  BY DEF Counting, Numbers, Numbered
<1>1. CASE attempts'[m] = attempts[m]
  BY <1>0, <1>1 DEF Numbered
<1>2. ASSUME NEW w \in Workers, NEW ok \in BOOLEAN, Inserts(w, m, ok)
      PROVE  Numbered(m)' /\ Cardinality(attempts'[m]) = Cardinality(attempts[m]) + 1
  BY <1>2, InsertsNext
<1> QED BY <1>0, <1>1, <1>2, AttemptSteps

\* Every step keeps the numbers dense and the workers' numbers within reach.
LEMMA NumbersStep == Counting /\ Typed /\ Numbers /\ Next => Numbers'
<1> SUFFICES ASSUME Counting, Typed, Numbers, Next PROVE Numbers'
  OBVIOUS
<1>0. WorkerTyped
  BY DEF Typed
<1>1. \A m \in Messages :
        /\ Numbered(m)'
        /\ Cardinality(attempts[m]) \in Nat /\ Cardinality(attempts'[m]) \in Nat
        /\ Cardinality(attempts'[m]) >= Cardinality(attempts[m])
  BY CountGrows
<1>2. ASSUME NEW w \in Workers, pc'[w] \in {"creds", "send", "logSent", "logError"}
      PROVE  no'[w] \in 1 .. Cardinality(attempts'[msg'[w]]) + 1
  <2>1. CASE /\ pc[w] \in {"creds", "send", "logSent", "logError"}
             /\ msg'[w] = msg[w] /\ no'[w] = no[w]
    <3>1. msg[w] \in Messages /\ no[w] \in 1 .. Cardinality(attempts[msg[w]]) + 1
      BY <1>0, <2>1 DEF WorkerTyped, Numbers
    <3> QED BY <1>1, <2>1, <3>1
  <2>2. CASE pc[w] = "number" /\ NextAttemptNo(w) /\ msg'[w] = msg[w] /\ attempts' = attempts
    <3> DEFINE C == Cardinality(attempts[msg[w]])
    <3>1. msg[w] \in Messages
      BY <1>0, <2>2 DEF WorkerTyped
    <3>2. {a.no : a \in attempts[msg[w]]} = 1 .. C /\ C \in Nat
      BY <3>1, <1>1 DEF Numbers, Numbered
    <3>3. PICK n \in {0} \union {a.no : a \in attempts[msg[w]]} : no' = [no EXCEPT ![w] = n + 1]
      BY <2>2, Zenon DEF NextAttemptNo
    <3>4. n \in 0 .. C
      BY <3>2, <3>3
    <3>5. no'[w] = n + 1
      BY <3>3, <1>0 DEF WorkerTyped
    <3> QED BY <2>2, <3>2, <3>4, <3>5
  <2>3. AttemptMove(w)
    BY AttemptMoves
  <2> QED BY <1>2, <2>1, <2>2, <2>3, Zenon DEF AttemptMove, Rests
<1> QED BY <1>1, <1>2 DEF Numbers

----------------------------------------------------------------------------
(* Giving up.  MarkFailed follows an attempt numbered maxAttempts or more,  *)
(* and attempts are dense, so that many are recorded; a retry's roll-back   *)
(* returns to "failed" a message that had already been there.               *)

Exhausted(m) == Cardinality(attempts[m]) >= MaxAttempts

BudgetSpent ==
    /\ \A m \in Messages : status[m] = "failed" => Exhausted(m)
    /\ \A w \in Workers : pc[w] = "markFailed" => Cardinality(attempts[msg[w]]) >= MaxAttempts
    /\ \A o \in Operators : opPc[o] # "idle" => Cardinality(attempts[opMsg[o]]) >= MaxAttempts

\* An operator's call starts on a message it read as "failed" and keeps to it.
LEMMA OpMoves ==
    Typed /\ Next => \A o \in Operators :
        \/ opPc'[o] = "idle"
        \/ opPc[o] # "idle" /\ opMsg'[o] = opMsg[o]
        \/ \E m \in Messages : status[m] = "failed" /\ opMsg'[o] = m
<1> SUFFICES ASSUME Typed, Next, NEW o \in Operators,
                    opPc'[o] # "idle", ~(opPc[o] # "idle" /\ opMsg'[o] = opMsg[o])
             PROVE  \E m \in Messages : status[m] = "failed" /\ opMsg'[o] = m
  OBVIOUS
<1>0. OpTyped
  BY DEF Typed
<1>1. ASSUME NEW p \in Operators, NEW m \in Messages, RetryRead(p, m)
      PROVE  status[m] = "failed" /\ opMsg'[o] = m
  BY <1>0, <1>1, Zenon DEF RetryRead, OpTyped
<1>2. ASSUME NEW p \in Operators, RetryMessage(p) \/ RetryFails(p) PROVE FALSE
  <2>1. CASE OpReturn(p)
    BY <1>0, <2>1, Zenon DEF OpReturn, OpTyped
  <2>2. CASE opPc[p] # "idle" /\ UNCHANGED opMsg /\ \E s : opPc' = [opPc EXCEPT ![p] = s]
    BY <1>0, <2>2, Zenon DEF OpTyped
  <2> QED BY <1>2, <2>1, <2>2, Zenon DEF RetryMessage, RetryTransition, RetryEnqueue, RetryRevert,
               RetryFails
<1>3. UNCHANGED opVars => FALSE
  BY Zenon DEF opVars
<1> QED
  BY <1>1, <1>2, <1>3, ZenonT(30) DEF Next, QueueMessage, CheckRecipient, CreateMessage, EnqueueCreated,
       RequestFails, BlockRecipient, Age, RowDue, EntryDue, Dequeue, ProcessOne, GetMessage,
       RecheckRecipient, Suppress, Claim, NumberAttempt, ResolveCredentials, Send, LogSent, LogError,
       RecordAttempt, MarkSent, MarkUnknown, MarkFailed, ScheduleRetryState, Abandon, RecoverQueue,
       MarkStaleSendingUnknown, ClaimQueuedMessagesForRecovery, EnqueueRecovered, RecoveryFails,
       QueueLost

\* Every step keeps BudgetSpent.
LEMMA BudgetStep == Counting /\ Typed /\ Numbers /\ BudgetSpent /\ Next => BudgetSpent'
<1> SUFFICES ASSUME Counting, Typed, Numbers, BudgetSpent, Next PROVE BudgetSpent'
  OBVIOUS
<1>0. WorkerTyped /\ OpTyped /\ MaxAttempts \in Nat
  BY DeliveryAssumption DEF Typed
<1>1. \A m \in Messages : Cardinality(attempts[m]) >= MaxAttempts
                             => Cardinality(attempts'[m]) >= MaxAttempts
  BY <1>0, CountGrows
<1>2. ASSUME NEW m \in Messages, status'[m] = "failed"
      PROVE  Cardinality(attempts'[m]) >= MaxAttempts
  <2>1. CASE status[m] = "failed"
    BY <2>1, <1>1 DEF BudgetSpent, Exhausted
  <2>2. ASSUME NEW w \in Workers, msg[w] = m, MarkFailed(w)
        PROVE  Cardinality(attempts[m]) >= MaxAttempts
    BY <2>2 DEF MarkFailed, BudgetSpent
  <2>3. ASSUME NEW o \in Operators, opMsg[o] = m, RetryRevert(o)
        PROVE  Cardinality(attempts[m]) >= MaxAttempts
    BY <2>3 DEF RetryRevert, BudgetSpent
  <2>4. \/ status[m] = "failed"
        \/ \E w \in Workers : msg[w] = m /\ MarkFailed(w)
        \/ \E o \in Operators : opMsg[o] = m /\ RetryRevert(o)
    BY <1>2, StatusSteps, Zenon DEF StatusStep
  <2> QED BY <1>1, <2>1, <2>2, <2>3, <2>4
<1>3. ASSUME NEW w \in Workers, pc'[w] = "markFailed"
      PROVE  Cardinality(attempts'[msg'[w]]) >= MaxAttempts
  <2>1. CASE Rests(w)
    <3>1. msg'[w] = msg[w] /\ msg[w] \in Messages /\ pc[w] = "markFailed"
      BY <1>0, <1>3, <2>1 DEF Rests, WorkerTyped
    <3> QED BY <3>1, <1>1 DEF BudgetSpent
  <2>2. CASE /\ msg'[w] = msg[w] /\ pc[w] = "logError" /\ Inserts(w, msg[w], FALSE)
             /\ no[w] >= MaxAttempts
    <3>1. msg[w] \in Messages
      BY <1>0, <2>2 DEF WorkerTyped
    <3>2. /\ no[w] = Cardinality(attempts[msg[w]]) + 1
          /\ Cardinality(attempts'[msg[w]]) = Cardinality(attempts[msg[w]]) + 1
      BY <2>2, <3>1, InsertsNext, Zenon
    <3> QED BY <2>2, <3>2
  <2>3. AttemptMove(w)
    BY AttemptMoves
  <2> QED BY <1>3, <2>1, <2>2, <2>3, Zenon DEF AttemptMove
<1>4. ASSUME NEW o \in Operators, opPc'[o] # "idle"
      PROVE  Cardinality(attempts'[opMsg'[o]]) >= MaxAttempts
  <2>1. CASE opPc[o] # "idle" /\ opMsg'[o] = opMsg[o]
    <3>1. opMsg[o] \in Messages
      BY <1>0, <2>1 DEF OpTyped
    <3> QED BY <2>1, <3>1, <1>1 DEF BudgetSpent
  <2>2. ASSUME NEW m \in Messages, status[m] = "failed", opMsg'[o] = m
        PROVE  Cardinality(attempts'[opMsg'[o]]) >= MaxAttempts
    BY <2>2, <1>1 DEF BudgetSpent, Exhausted
  <2> QED BY <1>4, <2>1, <2>2, OpMoves
<1> QED BY <1>2, <1>3, <1>4 DEF BudgetSpent, Exhausted

----------------------------------------------------------------------------
(* The budget of Send.  A message can be submitted once for every worker    *)
(* that holds an unused claim or is about to reschedule it, and once more   *)
(* if its row can be claimed.  An attempt that failed below the limit pays  *)
(* for the claim its retry allows; a manual retry pays for its own.         *)

Spenders == {"number", "creds", "send", "retryAt"}

Spending(m) == {w \in Workers : msg[w] = m /\ pc[w] \in Spenders}

Open(m) == IF status[m] \in {"none", "queued"} THEN 1 ELSE 0

Charged(m) == IF Cardinality(attempts[m]) < MaxAttempts THEN Cardinality(attempts[m])
              ELSE MaxAttempts - 1

Claimed(m) == submitted[m] + Cardinality(Spending(m)) + Open(m)

Allowed(m) == 1 + Charged(m) + retried[m]

Solvent(m) == IsFiniteSet(Spending(m)) /\ Claimed(m) <= Allowed(m)

Budget == \A m \in Messages : Solvent(m)

\* Send is what raises submitted, a retry's transition what raises retried.
LEMMA CounterSteps ==
    Typed /\ Next => \A m \in Messages :
        /\ \/ submitted'[m] = submitted[m]
           \/ submitted'[m] = submitted[m] + 1 /\ \E w \in Workers : msg[w] = m /\ Send(w)
        /\ retried'[m] = retried[m] \/ retried'[m] = retried[m] + 1
        /\ \A o \in Operators : opMsg[o] = m /\ RetryTransition(o) /\ status[m] = "failed"
                                => retried'[m] = retried[m] + 1
<1> SUFFICES ASSUME Typed, Next, NEW m \in Messages
             PROVE  /\ \/ submitted'[m] = submitted[m]
                       \/ submitted'[m] = submitted[m] + 1 /\ \E w \in Workers : msg[w] = m /\ Send(w)
                    /\ retried'[m] = retried[m] \/ retried'[m] = retried[m] + 1
                    /\ \A o \in Operators : opMsg[o] = m /\ RetryTransition(o) /\ status[m] = "failed"
                                            => retried'[m] = retried[m] + 1
  OBVIOUS
<1>0. submitted \in [Messages -> Nat] /\ retried \in [Messages -> Nat]
  BY DEF Typed, SeenTyped
<1>1. ASSUME NEW w \in Workers, Send(w)
      PROVE  submitted'[m] = submitted[m] \/ (msg[w] = m /\ submitted'[m] = submitted[m] + 1)
  BY <1>0, <1>1 DEF Send
<1>2. ASSUME NEW o \in Operators, RetryTransition(o)
      PROVE  /\ retried'[m] = retried[m] \/ retried'[m] = retried[m] + 1
             /\ opMsg[o] = m /\ status[m] = "failed" => retried'[m] = retried[m] + 1
  <2>1. CASE retried' = [retried EXCEPT ![opMsg[o]] = @ + 1]
    BY <1>0, <2>1
  <2>2. CASE retried' = retried /\ status[opMsg[o]] # "failed"
    BY <2>2, SMTT(30)
  <2> QED BY <1>2, <2>1, <2>2, Zenon DEF RetryTransition
<1>3. UNCHANGED submitted \/ \E w \in Workers : Send(w)
  BY ZenonT(30) DEF Next, QueueMessage, CheckRecipient, CreateMessage, EnqueueCreated,
       RequestFails, BlockRecipient, Age, RowDue, EntryDue, Dequeue, ProcessOne, GetMessage,
       RecheckRecipient, Suppress, Claim, NumberAttempt, ResolveCredentials, LogSent, LogError,
       RecordAttempt, MarkSent, MarkUnknown, MarkFailed, ScheduleRetryState, Abandon, RecoverQueue,
       MarkStaleSendingUnknown, ClaimQueuedMessagesForRecovery, EnqueueRecovered, RecoveryFails,
       RetryRead, RetryMessage, RetryTransition, RetryEnqueue, RetryRevert, RetryFails, QueueLost,
       seenVars
<1>4. UNCHANGED retried \/ \E o \in Operators : RetryTransition(o)
  BY Zenon DEF Next, QueueMessage, CheckRecipient, CreateMessage, EnqueueCreated,
       RequestFails, BlockRecipient, Age, RowDue, EntryDue, Dequeue, ProcessOne, GetMessage,
       RecheckRecipient, Suppress, Claim, NumberAttempt, ResolveCredentials, Send, LogSent, LogError,
       RecordAttempt, MarkSent, MarkUnknown, MarkFailed, ScheduleRetryState, Abandon, RecoverQueue,
       MarkStaleSendingUnknown, ClaimQueuedMessagesForRecovery, EnqueueRecovered, RecoveryFails,
       RetryRead, RetryMessage, RetryEnqueue, RetryRevert, RetryFails, QueueLost, seenVars
<1>5. submitted'[m] = submitted[m] \/ (submitted'[m] = submitted[m] + 1 /\ \E w \in Workers : msg[w] = m /\ Send(w))
  BY <1>1, <1>3
<1>6. retried'[m] = retried[m] \/ retried'[m] = retried[m] + 1
  BY <1>2, <1>4
<1> QED BY <1>2, <1>5, <1>6

\* The steps that change who may still submit m: its claim, Send, the row of a
\* failed attempt below the limit, and the row's return to "queued".
Trades(w, m) ==
    /\ msg[w] = m /\ msg'[w] = m
    /\ \/ pc[w] = "claim" /\ pc'[w] = "number" /\ status[m] = "queued" /\ status'[m] = "sending"
       \/ pc[w] = "send" /\ pc'[w] \in {"logSent", "logError"}
       \/ pc[w] = "logError" /\ pc'[w] = "retryAt"
       \/ pc[w] = "retryAt" /\ pc'[w] = "schedule"

\* Nobody else joins those who may still submit.
LEMMA SpendersStay ==
    ASSUME Typed, Next, NEW m \in Messages, \A w \in Workers : ~Trades(w, m)
    PROVE  Spending(m)' \subseteq Spending(m)
<1> SUFFICES ASSUME NEW w \in Workers, msg'[w] = m, pc'[w] \in Spenders
             PROVE  msg[w] = m /\ pc[w] \in Spenders
  BY DEF Spending
<1>0. WorkerMove(w) /\ NoMessage \notin Messages /\ ~Trades(w, m)
  BY WorkerMoves, DeliveryAssumption DEF NoMessage
<1> QED BY <1>0 DEF WorkerMove, Trades, Spenders

\* The worker that trades is the only one that moves.
LEMMA TraderIsAlone ==
    ASSUME Typed, Next, NEW m \in Messages, NEW w \in Workers, Trades(w, m)
    PROVE  /\ Moves(w)
           /\ pc'[w] \in Spenders => Spending(m)' = Spending(m) \union {w}
           /\ pc'[w] \notin Spenders => Spending(m)' = Spending(m) \ {w}
<1>1. Moves(w)
  BY MoveOrRest DEF Trades, Rests
<1>2. \A v \in Workers : v # w => msg'[v] = msg[v] /\ pc'[v] = pc[v]
  BY <1>1, MoverIsAlone DEF Typed, Rests
<1>3. msg[w] = m /\ msg'[w] = m
  BY DEF Trades
<1> QED BY <1>1, <1>2, <1>3, Zenon DEF Spending

\* While it trades, the other counters stand still.
LEMMA TradeLeaves ==
    ASSUME Typed, Numbers, Next, NEW m \in Messages, NEW w \in Workers, Trades(w, m)
    PROVE  /\ retried'[m] = retried[m]
           /\ pc[w] # "send" => submitted'[m] = submitted[m]
           /\ pc[w] = "send" => submitted'[m] = submitted[m] + 1
           /\ pc[w] \in {"send", "logError"} => status'[m] = status[m]
           /\ pc[w] = "retryAt" => status[m] = "sending" /\ status'[m] = "queued"
           /\ pc[w] = "logError" => Inserts(w, m, FALSE) /\ no[w] < MaxAttempts
           /\ pc[w] # "logError" => attempts'[m] = attempts[m]
<1>0. Moves(w) /\ WorkerTyped /\ msg[w] = m /\ msg'[w] = m
  BY TraderIsAlone, Zenon DEF Trades, Typed
<1>t. submitted \in [Messages -> Nat] /\ no[w] \in Nat /\ MaxAttempts \in Nat
  BY <1>0, DeliveryAssumption, Zenon DEF Typed, SeenTyped, WorkerTyped
<1>1. retried' = retried
  BY <1>0, Zenon DEF Moves, ProcessOne, Dequeue, GetMessage, RecheckRecipient, Suppress, Claim, NumberAttempt,
       ResolveCredentials, Send, LogSent, LogError, RecordAttempt, MarkSent, MarkUnknown, MarkFailed,
       ScheduleRetryState, Abandon, seenVars
<1>r. ASSUME Return(w) \/ pc'[w] = "get" PROVE FALSE
  BY <1>r, <1>0, ReturnAt, Zenon DEF Trades
<1>2. CASE pc[w] = "send"
  <2>1. Send(w)
    BY <1>0, <1>2, <1>r, Zenon DEF Moves, ProcessOne, Dequeue, GetMessage, RecheckRecipient, Suppress, Claim,
         NumberAttempt, ResolveCredentials, LogSent, LogError, MarkSent, MarkUnknown,
         MarkFailed, ScheduleRetryState, Abandon
  <2>2. submitted'[m] = submitted[m] + 1 /\ status' = status /\ attempts' = attempts
    BY <2>1, <1>0, <1>t, Zenon DEF Send, rowVars
  <2> QED BY <1>1, <1>2, <2>2, Zenon
<1>3. CASE pc[w] = "claim"
  <2>1. Claim(w)
    BY <1>0, <1>3, <1>r, Zenon DEF Moves, ProcessOne, Dequeue, GetMessage, RecheckRecipient, Suppress, Send,
         NumberAttempt, ResolveCredentials, LogSent, LogError, MarkSent, MarkUnknown,
         MarkFailed, ScheduleRetryState, Abandon
  <2> QED BY <1>1, <1>3, <2>1 DEF Claim, seenVars
<1>4. CASE pc[w] = "logError"
  <2>1. LogError(w)
    BY <1>0, <1>4, <1>r, Zenon DEF Moves, ProcessOne, Dequeue, GetMessage, RecheckRecipient, Suppress, Send,
         NumberAttempt, ResolveCredentials, LogSent, Claim, MarkSent, MarkUnknown,
         MarkFailed, ScheduleRetryState, Abandon
  <2>2. UNCHANGED rowVars /\ UNCHANGED seenVars
    BY <2>1, Zenon DEF LogError, RecordAttempt
  <2>3. AttemptMove(w) /\ pc'[w] = "retryAt"
    BY <1>4, AttemptMoves DEF Trades
  <2>4. /\ Inserts(w, msg[w], FALSE)
        /\ pc'[w] = IF no[w] >= MaxAttempts THEN "markFailed" ELSE "retryAt"
    BY <2>3, <1>4, Zenon DEF AttemptMove, Rests
  <2>5. Inserts(w, m, FALSE)
    BY <2>4, <1>0, Zenon DEF Inserts
  <2>6. no[w] < MaxAttempts
    BY <2>3, <2>4, <1>t
  <2> QED BY <1>1, <1>4, <2>2, <2>5, <2>6, Zenon DEF rowVars, seenVars
<1>5. CASE pc[w] = "retryAt"
  <2>1. ScheduleRetryState(w)
    BY <1>0, <1>5, <1>r, Zenon DEF Moves, ProcessOne, Dequeue, GetMessage, RecheckRecipient, Suppress, Send,
         NumberAttempt, ResolveCredentials, LogSent, LogError, Claim, MarkSent, MarkUnknown,
         MarkFailed, Abandon
  <2>2. SetMessageRetryAt(m)
    BY <2>1, <1>5, <1>0, <1>r, Zenon DEF ScheduleRetryState
  <2>3. status[m] = "sending" /\ status'[m] = "queued"
    BY <2>2 DEF SetMessageRetryAt, Typed, RowTyped
  <2> QED BY <1>1, <1>5, <2>1, <2>3 DEF ScheduleRetryState, seenVars
<1> QED BY <1>2, <1>3, <1>4, <1>5, Zenon DEF Trades

\* Without a trade, only a manual retry makes the row claimable again.
LEMMA OpensStay ==
    ASSUME Typed, Rows, Next, NEW m \in Messages, \A w \in Workers : ~Trades(w, m)
    PROVE  /\ submitted'[m] = submitted[m]
           /\ \/ Open(m)' <= Open(m)
              \/ retried'[m] = retried[m] + 1
<1>0. WorkerTyped
  BY DEF Typed
<1>1. ASSUME NEW w \in Workers, msg[w] = m, Send(w) PROVE FALSE
  <2>1. pc[w] = "send" /\ msg'[w] = m /\ pc'[w] \in {"logSent", "logError"}
    BY <1>0, <1>1, GotoAt DEF Send, Goto
  <2> QED BY <1>1, <2>1, Zenon DEF Trades
<1>2. submitted'[m] = submitted[m]
  BY <1>1, CounterSteps
<1>3. ASSUME NEW w \in Workers, msg[w] = m, pc[w] = "retryAt", ScheduleRetryState(w), status'[m] = "queued",
             status[m] = "sending"
      PROVE  FALSE
  <2>1. Goto(w, "schedule")
    BY <1>3, Zenon DEF ScheduleRetryState, rowVars
  <2>2. msg'[w] = m /\ pc'[w] = "schedule"
    BY <1>0, <1>3, <2>1, GotoAt, Zenon DEF Goto
  <2> QED BY <1>3, <2>2 DEF Trades
<1>4. ASSUME status'[m] \in {"none", "queued"}, status[m] \notin {"none", "queued"}
      PROVE  retried'[m] = retried[m] + 1
  <2>1. req[m] = "insertQueued" => status[m] = "none"
    BY Zenon DEF Rows, RequestRows, HasRow
  <2>2. PICK o \in Operators : opMsg[o] = m /\ RetryTransition(o) /\ status[m] = "failed"
    BY <1>3, <1>4, <2>1, StatusSteps, Zenon DEF StatusStep
  <2>3. \A p \in Operators : opMsg[p] = m /\ RetryTransition(p) /\ status[m] = "failed"
                              => retried'[m] = retried[m] + 1
    BY CounterSteps, Zenon
  <2> QED BY <2>2, <2>3, Zenon
<1>5. /\ Open(m) \in 0 .. 1 /\ Open(m)' \in 0 .. 1
      /\ status[m] \in {"none", "queued"} => Open(m) = 1
      /\ status'[m] \notin {"none", "queued"} => Open(m)' = 0
  BY DEF Open
<1>6. CASE status'[m] \notin {"none", "queued"}
  BY <1>2, <1>5, <1>6
<1>7. CASE status[m] \in {"none", "queued"}
  BY <1>2, <1>5, <1>7
<1> QED BY <1>2, <1>4, <1>6, <1>7, Zenon

\* Every step keeps the books of m balanced.
LEMMA SolventStep ==
    ASSUME Counting, Typed, Rows, Numbers, Budget, Next, NEW m \in Messages
    PROVE  Solvent(m)'
<1> DEFINE C == Cardinality(attempts[m])
           S == Spending(m)
<1>0. IsFiniteSet(S) /\ Claimed(m) <= Allowed(m)
  BY DEF Budget, Solvent
<1>t. /\ C \in Nat /\ Cardinality(attempts'[m]) \in Nat /\ Cardinality(attempts'[m]) >= C
      /\ MaxAttempts \in Nat \ {0}
  BY CountGrows, DeliveryAssumption
<1>n. /\ submitted[m] \in Nat /\ retried[m] \in Nat /\ Cardinality(S) \in Nat
      /\ Open(m) \in 0 .. 1 /\ Open(m)' \in 0 .. 1
  BY <1>0 DEF Counting, Typed, SeenTyped, Open
<1>c. Charged(m) \in Nat /\ Charged(m)' \in Nat /\ Charged(m)' >= Charged(m)
  BY <1>t DEF Charged
<1>a. Claimed(m) \in Nat /\ Allowed(m) \in Nat
  BY <1>n, <1>c DEF Claimed, Allowed
<1>b. ASSUME retried'[m] = retried[m]
      PROVE  Allowed(m)' \in Nat /\ Allowed(m)' >= Allowed(m)
  BY <1>b, <1>n, <1>c DEF Allowed
<1>1. CASE \A w \in Workers : ~Trades(w, m)
  <2>1. /\ S' \subseteq S
        /\ submitted'[m] = submitted[m]
        /\ Open(m)' <= Open(m) \/ retried'[m] = retried[m] + 1
        /\ retried'[m] = retried[m] \/ retried'[m] = retried[m] + 1
    BY <1>1, SpendersStay, OpensStay, CounterSteps, Zenon
  <2>2. IsFiniteSet(S') /\ Cardinality(S') \in Nat /\ Cardinality(S') <= Cardinality(S)
    BY <2>1, <1>0, Zenon DEF Counting
  <2>3. Claimed(m)' = submitted[m] + Cardinality(S') + Open(m)'
    BY <2>1 DEF Claimed
  <2>4. CASE retried'[m] = retried[m] + 1
    <3>1. Claimed(m)' \in Nat /\ Claimed(m)' <= Claimed(m) + 1
      BY <2>2, <2>3, <1>n DEF Claimed
    <3>2. Allowed(m)' \in Nat /\ Allowed(m)' >= Allowed(m) + 1
      BY <2>4, <1>n, <1>c DEF Allowed
    <3> QED BY <2>2, <3>1, <3>2, <1>0, <1>a DEF Solvent
  <2>5. CASE Open(m)' <= Open(m) /\ retried'[m] = retried[m]
    <3>1. Claimed(m)' \in Nat /\ Claimed(m)' <= Claimed(m)
      BY <2>2, <2>3, <2>5, <1>n DEF Claimed
    <3> QED BY <2>2, <2>5, <3>1, <1>b, <1>0, <1>a DEF Solvent
  <2> QED BY <2>1, <2>4, <2>5
<1>2. ASSUME NEW w \in Workers, Trades(w, m) PROVE Solvent(m)'
  <2>0. /\ pc'[w] \in Spenders => S' = S \union {w}
        /\ pc'[w] \notin Spenders => S' = S \ {w}
        /\ w \in S <=> pc[w] \in Spenders
    BY <1>2, TraderIsAlone, TradeLeaves, Zenon DEF Spending, Trades
  <2>n. retried'[m] = retried[m]
    BY <1>2, TradeLeaves, Zenon
  <2>s. /\ Claimed(m) = submitted[m] + Cardinality(S) + Open(m)
        /\ Claimed(m)' = submitted'[m] + Cardinality(S') + Open(m)'
    BY Zenon DEF Claimed
  <2>b. Allowed(m)' \in Nat /\ Allowed(m)' >= Allowed(m)
    BY <2>n, <1>b
  <2>a. w \notin S => IsFiniteSet(S \union {w}) /\ Cardinality(S \union {w}) = Cardinality(S) + 1
    BY <1>0 DEF Counting
  <2>r. w \in S => IsFiniteSet(S \ {w}) /\ Cardinality(S \ {w}) = Cardinality(S) - 1
    BY <1>0 DEF Counting
  <2>1. CASE pc[w] = "claim"
    <3>1. IsFiniteSet(S') /\ Cardinality(S') = Cardinality(S) + 1
      BY <1>2, <2>0, <2>a, <2>1, Zenon DEF Trades, Spenders
    <3>2. Open(m) = 1 /\ Open(m)' = 0 /\ submitted'[m] = submitted[m]
      BY <1>2, <2>1, TradeLeaves, Zenon DEF Trades, Open
    <3>3. Claimed(m)' = Claimed(m)
      BY <3>1, <3>2, <2>s, <1>n, SMTT(30)
    <3> QED BY <3>1, <3>3, <2>b, <1>0, <1>a DEF Solvent
  <2>2. CASE pc[w] = "send"
    <3>1. IsFiniteSet(S') /\ Cardinality(S') = Cardinality(S) - 1
      BY <1>2, <2>0, <2>r, <2>2, Zenon DEF Trades, Spenders
    <3>2. Open(m)' = Open(m) /\ submitted'[m] = submitted[m] + 1
      BY <1>2, <2>2, TradeLeaves, Zenon DEF Trades, Open
    <3>3. Claimed(m)' = Claimed(m)
      BY <3>1, <3>2, <2>s, <1>n, SMTT(30)
    <3> QED BY <3>1, <3>3, <2>b, <1>0, <1>a DEF Solvent
  <2>3. CASE pc[w] = "logError"
    <3>1. IsFiniteSet(S') /\ Cardinality(S') = Cardinality(S) + 1
      BY <1>2, <2>0, <2>a, <2>3, Zenon DEF Trades, Spenders
    <3>2. Open(m)' = Open(m) /\ submitted'[m] = submitted[m]
      BY <1>2, <2>3, TradeLeaves, Zenon DEF Trades, Open
    <3>3. Inserts(w, m, FALSE) /\ no[w] < MaxAttempts
      BY <1>2, <2>3, TradeLeaves, Zenon DEF Trades
    <3>4. no[w] = C + 1 /\ Cardinality(attempts'[m]) = C + 1
      BY <3>3, InsertsNext, Zenon
    <3>5. Charged(m)' = Charged(m) + 1
      BY <3>3, <3>4, <1>t DEF Charged
    <3>6. Claimed(m)' = Claimed(m) + 1
      BY <3>1, <3>2, <2>s, <1>n, SMTT(30)
    <3>7. Allowed(m)' = Allowed(m) + 1
      BY <3>5, <2>n, <1>n, <1>c, SMTT(30) DEF Allowed
    <3> QED BY <3>1, <3>6, <3>7, <1>0, <1>a DEF Solvent
  <2>4. CASE pc[w] = "retryAt"
    <3>1. IsFiniteSet(S') /\ Cardinality(S') = Cardinality(S) - 1
      BY <1>2, <2>0, <2>r, <2>4 DEF Trades, Spenders
    <3>2. Open(m) = 0 /\ Open(m)' = 1 /\ submitted'[m] = submitted[m]
      BY <1>2, <2>4, TradeLeaves, Zenon DEF Trades, Open
    <3>3. Claimed(m)' = Claimed(m)
      BY <3>1, <3>2, <2>s, <1>n, SMTT(30)
    <3> QED BY <3>1, <3>3, <2>b, <1>0, <1>a DEF Solvent
  <2> QED BY <1>2, <2>1, <2>2, <2>3, <2>4 DEF Trades
<1> QED BY <1>1, <1>2

----------------------------------------------------------------------------
(* The library's theorems about finite sets, and what follows from Counting. *)

FST == INSTANCE FiniteSetTheorems

\* The instance counts as MessageDelivery does.
LEMMA SameCount ==
    /\ \A S : FST!Cardinality(S) = Cardinality(S)
    /\ \A S : FST!IsFiniteSet(S) <=> IsFiniteSet(S)
<1>1. \A S : FST!Cardinality(S) = Cardinality(S)
  BY DEF Cardinality, FST!Cardinality
<1>2. \A S : FST!IsFiniteSet(S) <=> IsFiniteSet(S)
  BY DEF IsFiniteSet, FST!IsFiniteSet
<1> QED BY <1>1, <1>2

\* Finite sets can be counted.
LEMMA SetsCount == Counting
<1>1. IsFiniteSet({}) /\ Cardinality({}) = 0
  BY SameCount, FST!FS_EmptySet
<1>2. ASSUME NEW S, IsFiniteSet(S)
      PROVE  /\ Cardinality(S) \in Nat
             /\ \A T \in SUBSET S : IsFiniteSet(T) /\ Cardinality(T) <= Cardinality(S)
  BY <1>2, SameCount, FST!FS_CardinalityType, FST!FS_Subset
<1>3. ASSUME NEW S, IsFiniteSet(S), NEW x, x \notin S
      PROVE  IsFiniteSet(S \union {x}) /\ Cardinality(S \union {x}) = Cardinality(S) + 1
  BY <1>3, SameCount, FST!FS_AddElement
<1>4. ASSUME NEW S, IsFiniteSet(S), NEW x \in S
      PROVE  IsFiniteSet(S \ {x}) /\ Cardinality(S \ {x}) = Cardinality(S) - 1
  BY <1>4, SameCount, FST!FS_RemoveElement
<1> QED BY <1>1, <1>2, <1>3, <1>4 DEF Counting

\* The numbers are dense and the workers' numbers within reach in every behaviour.
LEMMA SpecNumbers == Spec => []Numbers
<1>1. Init => Numbers
  <2> SUFFICES ASSUME Init PROVE Numbers
    OBVIOUS
  <2>1. ASSUME NEW m \in Messages PROVE Numbered(m)
    <3>1. attempts[m] = {} /\ IsFiniteSet(attempts[m]) /\ Cardinality(attempts[m]) = 0
      BY SetsCount DEF Counting, Init
    <3>2. 1 .. Cardinality(attempts[m]) = {}
      BY <3>1
    <3> QED BY <3>1, <3>2 DEF Numbered
  <2>2. \A w \in Workers : pc[w] = "idle"
    BY DEF Init
  <2> QED BY <2>1, <2>2 DEF Numbers
<1>2. Typed /\ Numbers /\ [Next]_vars => Numbers'
  <2>1. ASSUME Numbers, UNCHANGED vars PROVE Numbers'
    BY <2>1, Zenon DEF Numbers, Numbered, vars, workerVars
  <2> QED BY <2>1, SetsCount, NumbersStep
<1> QED BY <1>1, <1>2, SpecTyped, PTL DEF Spec

\* MAX(attempt_no) + 1 and the unique index keep the numbers of a message's attempts
\* dense, for any number of workers that number attempts of it at once.
THEOREM NumbersAreDense == Spec => []AttemptsDense
<1>1. Numbers => AttemptsDense
  BY DEF Numbers, Numbered, AttemptsDense
<1> QED BY <1>1, SpecNumbers, PTL

\* ProcessOne gives a message up, and a roll-back of a retry returns it to "failed",
\* only with maxAttempts rows in message_attempts.
THEOREM FailedMeansExhausted == Spec => []FailedAfterBudget
<1>1. Init => BudgetSpent
  BY DEF Init, BudgetSpent
<1>2. Typed /\ Numbers /\ BudgetSpent /\ [Next]_vars => BudgetSpent'
  <2>1. ASSUME BudgetSpent, UNCHANGED vars PROVE BudgetSpent'
    BY <2>1 DEF BudgetSpent, Exhausted, vars, rowVars, workerVars, opVars
  <2> QED BY <2>1, SetsCount, BudgetStep, Zenon
<1>3. BudgetSpent => FailedAfterBudget
  BY DEF BudgetSpent, Exhausted, FailedAfterBudget
<1> QED BY <1>1, <1>2, <1>3, SpecTyped, SpecNumbers, PTL DEF Spec

\* Send is called at most maxAttempts times for a message, plus once for every manual
\* retry that took effect, for any number of workers, crashes and duplicate entries.
THEOREM SubmissionsAreBounded == Spec => []SubmissionBudget
<1>1. Init => Budget
  <2> SUFFICES ASSUME Init, NEW m \in Messages PROVE Solvent(m)
    BY DEF Budget
  <2>1. Spending(m) = {} /\ attempts[m] = {}
    BY DEF Init, Spending, Spenders
  <2>2. IsFiniteSet(Spending(m)) /\ Cardinality(Spending(m)) = 0 /\ Cardinality(attempts[m]) = 0
    BY <2>1, SetsCount DEF Counting
  <2>3. Open(m) = 1 /\ submitted[m] = 0 /\ retried[m] = 0
    BY DEF Init, Open
  <2>4. Charged(m) = 0
    BY <2>2, DeliveryAssumption DEF Charged
  <2> QED BY <2>2, <2>3, <2>4, SMTT(30) DEF Solvent, Claimed, Allowed
<1>2. Typed /\ Rows /\ Numbers /\ Budget /\ [Next]_vars => Budget'
  <2>1. ASSUME Budget, UNCHANGED vars PROVE Budget'
    BY <2>1 DEF Budget, Solvent, Claimed, Allowed, Spending, Open, Charged, vars, rowVars, workerVars, seenVars
  <2> QED BY <2>1, SetsCount, SolventStep DEF Budget
<1>3. Typed /\ Numbers /\ Budget => SubmissionBudget
  <2> SUFFICES ASSUME Typed, Numbers, Budget, NEW m \in Messages
               PROVE  submitted[m] <= MaxAttempts + retried[m]
    BY DEF SubmissionBudget
  <2>1. /\ Cardinality(Spending(m)) \in Nat /\ Cardinality(attempts[m]) \in Nat
        /\ submitted[m] + Cardinality(Spending(m)) + Open(m) <= 1 + Charged(m) + retried[m]
    BY SetsCount DEF Counting, Budget, Solvent, Claimed, Allowed, Numbers, Numbered
  <2>2. /\ submitted[m] \in Nat /\ retried[m] \in Nat /\ MaxAttempts \in Nat \ {0}
        /\ Open(m) \in 0 .. 1
    BY DeliveryAssumption DEF Typed, SeenTyped, Open
  <2>3. Charged(m) \in Nat /\ Charged(m) <= MaxAttempts - 1
    BY <2>1, <2>2 DEF Charged
  <2> QED BY <2>1, <2>2, <2>3
<1> QED BY <1>1, <1>2, <1>3, SpecTyped, SpecRows, SpecNumbers, PTL DEF Spec

============================================================================
