----------------------------- MODULE RedisQueue ----------------------------
(***************************************************************************)
(* RedisQueue: a list for work that is ready, a sorted set for delayed     *)
(* retries, and a key that remembers which of the two the pop script       *)
(* served last.  Dequeue first runs the script and then, if it found       *)
(* nothing, blocks in BRPOP on the list alone.                             *)
(***************************************************************************)
EXTENDS Naturals, Sequences, FiniteSets

CONSTANTS
    Ids,        \* message ids
    Consumers,  \* worker loops calling Dequeue
    Capacity    \* bound: length of the ready list

ASSUME QueueAssumption ==
    /\ IsFiniteSet(Consumers)
    /\ Capacity \in Nat \ {0}

VARIABLES
    ready,     \* maild:queue:messages, oldest first
    retry,     \* members of maild:queue:retry by increasing score
    ripe,      \* how many of them have a score that is not in the future
    fair,      \* the fairness key; an absent key reads as "ready"
    pc,        \* where each consumer stands in Dequeue
    taken,     \* what the last Dequeue handed out, and from where
    passed,    \* ready ids handed out since a retry is due and none was served
    overtaken  \* retries handed out since the list is non-empty and was not served

vars == <<ready, retry, ripe, fair, pc, taken, passed, overtaken>>

Sources == {"ready", "retry"}

TypeOK ==
    /\ ready \in Seq(Ids) /\ Len(ready) <= Capacity
    /\ retry \in Seq(Ids) /\ \A i, j \in DOMAIN retry : retry[i] = retry[j] => i = j
    /\ ripe \in 0 .. Len(retry)
    /\ fair \in Sources
    /\ pc \in [Consumers -> {"script", "brpop"}]
    /\ taken \in {<<>>} \union (Sources \X Ids)
    /\ passed \in Nat /\ overtaken \in Nat

Init ==
    /\ ready = <<>>
    /\ retry = <<>>
    /\ ripe = 0
    /\ fair = "ready"
    /\ pc = [c \in Consumers |-> "script"]
    /\ taken = <<>>
    /\ passed = 0
    /\ overtaken = 0

----------------------------------------------------------------------------
\* s without its k-th member.
Without(s, k) == [j \in 1 .. Len(s) - 1 |-> IF j < k THEN s[j] ELSE s[j + 1]]

\* x put into s so that it becomes the i-th member.
Insert(s, i, x) ==
    [j \in 1 .. Len(s) + 1 |-> IF j < i THEN s[j] ELSE IF j = i THEN x ELSE s[j - 1]]

Enqueue(x) ==
    /\ Len(ready) < Capacity
    /\ ready' = Append(ready, x)
    /\ UNCHANGED <<retry, ripe, fair, pc, taken, passed, overtaken>>

\* ZADD: a member that is there already only gets the new score.  The time lies
\* in the future, so x comes after every member that is due.
ScheduleRetry(x) ==
    /\ \/ /\ \A k \in DOMAIN retry : retry[k] # x
          /\ ripe' = ripe
          /\ \E i \in ripe + 1 .. Len(retry) + 1 : retry' = Insert(retry, i, x)
       \/ \E k \in DOMAIN retry :
            /\ retry[k] = x
            /\ ripe' = IF k <= ripe THEN ripe - 1 ELSE ripe
            /\ \E i \in ripe' + 1 .. Len(retry) : retry' = Insert(Without(retry, k), i, x)
    /\ passed' = IF ripe' = 0 THEN 0 ELSE passed
    /\ UNCHANGED <<ready, fair, pc, taken, overtaken>>

\* Time reaches the score of the next member.
Tick ==
    /\ ripe < Len(retry)
    /\ ripe' = ripe + 1
    /\ UNCHANGED <<ready, retry, fair, pc, taken, passed, overtaken>>

\* Mutant: LPOP, which takes the newest id.
PopReadyNewest ==
    /\ ready' = SubSeq(ready, 1, Len(ready) - 1)
    /\ taken' = <<"ready", ready[Len(ready)]>>
    /\ passed' = IF ripe > 0 THEN passed + 1 ELSE 0
    /\ overtaken' = 0
    /\ UNCHANGED <<retry, ripe>>

\* RPOP, by the script or by BRPOP.
PopReady ==
    /\ ready' = Tail(ready)
    /\ taken' = <<"ready", Head(ready)>>
    /\ passed' = IF ripe > 0 THEN passed + 1 ELSE 0
    /\ overtaken' = 0
    /\ UNCHANGED <<retry, ripe>>

\* ZREM of the member with the smallest score.
PopRetry ==
    /\ retry' = Tail(retry)
    /\ ripe' = ripe - 1
    /\ taken' = <<"retry", Head(retry)>>
    /\ passed' = 0
    /\ overtaken' = IF ready # <<>> THEN overtaken + 1 ELSE 0
    /\ UNCHANGED ready

\* Mutant: fresh work always goes first.
SourceReadyFirst == IF ready # <<>> THEN "ready" ELSE "retry"

\* Mutant: due retries always go first.
SourceRetryFirst == IF ripe > 0 THEN "retry" ELSE "ready"

\* The source the script serves when there is something to serve.
Source ==
    IF ripe > 0 /\ ready # <<>>
    THEN IF fair = "retry" THEN "ready" ELSE "retry"
    ELSE IF ripe > 0 THEN "retry" ELSE "ready"

\* popNextScript, one atomic step of Redis.
PopNext(c) ==
    /\ pc[c] = "script"
    /\ IF ripe > 0 \/ ready # <<>>
       THEN /\ fair' = Source
            /\ IF Source = "retry" THEN PopRetry ELSE PopReady
            /\ UNCHANGED pc
       ELSE /\ pc' = [pc EXCEPT ![c] = "brpop"]
            /\ UNCHANGED <<ready, retry, ripe, fair, taken, passed, overtaken>>

\* Mutant: BRPOP with timeout 0, which never gives up.
BRPopForever(c) ==
    /\ pc[c] = "brpop"
    /\ ready # <<>>
    /\ pc' = [pc EXCEPT ![c] = "script"]
    /\ PopReady
    /\ UNCHANGED fair

\* BRPOP looks at the list only, and leaves the fairness key alone.
BRPop(c) ==
    /\ pc[c] = "brpop"
    /\ pc' = [pc EXCEPT ![c] = "script"]
    /\ \/ ready # <<>> /\ PopReady /\ UNCHANGED fair
       \/ ready = <<>> /\ UNCHANGED <<ready, retry, ripe, fair, taken, passed, overtaken>>

Dequeue(c) == PopNext(c) \/ BRPop(c)

Next ==
    \/ \E x \in Ids : Enqueue(x) \/ ScheduleRetry(x)
    \/ Tick
    \/ \E c \in Consumers : Dequeue(c)

Spec == Init /\ [][Next]_vars

\* Run calls Dequeue for ever, BRPOP gives up after five seconds, time passes.
Fairness == WF_vars(Tick) /\ \A c \in Consumers : WF_vars(Dequeue(c))

FairSpec == Spec /\ Fairness

----------------------------------------------------------------------------
(* Properties.                                                             *)

\* The script alternates: while a retry is due, at most one ready id per script
\* and one per consumer that was already blocked in BRPOP is handed out first.
RetryIsNotPassed == passed <= 1 + Cardinality(Consumers)

\* While ready work waits, at most one retry is handed out before it.
ReadyIsNotOvertaken == overtaken <= 1

\* Neither backlog starves: under any further load every ready id and every due
\* retry is handed out (or the retry is scheduled anew).
NeitherStarves ==
    \A x \in Ids :
        /\ (\E i \in DOMAIN ready : ready[i] = x) ~> taken = <<"ready", x>>
        /\ (\E i \in 1 .. ripe : retry[i] = x) ~> ~(\E i \in 1 .. ripe : retry[i] = x)

WQ == INSTANCE WorkQueue WITH
    due <- {retry[i] : i \in 1 .. ripe},
    waiting <- {retry[i] : i \in ripe + 1 .. Len(retry)}

\* The two Redis structures, the script and BRPOP together keep the promise of the
\* abstract queue that MessageDelivery builds on.
ImplementsWorkQueue == WQ!Spec

============================================================================
