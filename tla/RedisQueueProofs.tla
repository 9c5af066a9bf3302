-------------------------- MODULE RedisQueueProofs -------------------------
(***************************************************************************)
(* Neither source of RedisQueue is passed over for long, and RedisQueue    *)
(* implements WorkQueue, for any number of ids and consumers.  The last    *)
(* section is about another structure in Redis, the limiter of failed      *)
(* sign-ins.                                                               *)
(***************************************************************************)
EXTENDS RedisQueue, Integers, FiniteSetTheorems, TLAPS

\* The consumers that have left the script empty-handed.
Blocked == {c \in Consumers : pc[c] = "brpop"}

\* What the script may still hand out of the list before it turns to a due retry.
Turn == IF fair = "retry" THEN 1 ELSE 0

\* The types the arguments below need.
Counts ==
    /\ ripe \in Nat
    /\ fair \in Sources
    /\ pc \in [Consumers -> {"script", "brpop"}]
    /\ passed \in Nat
    /\ overtaken \in Nat

\* The list is overtaken at most once because the script then owes it a turn.
Overtaking == overtaken <= 1 /\ (overtaken = 1 => fair = "retry")

\* While a retry is due nobody joins BRPOP, so what may still pass it shrinks with
\* every id that does.
Passing ==
    /\ ripe = 0 => passed = 0
    /\ passed + Cardinality(Blocked) + Turn <= 1 + Cardinality(Consumers)

\* The blocked consumers are a finite set, no larger than that of all consumers.
LEMMA BlockedFinite ==
    /\ IsFiniteSet(Blocked)
    /\ Cardinality(Blocked) \in Nat
    /\ Cardinality(Consumers) \in Nat
    /\ Cardinality(Blocked) <= Cardinality(Consumers)
<1>1. IsFiniteSet(Consumers)
  BY QueueAssumption
<1>2. Blocked \subseteq Consumers
  BY DEF Blocked
<1>3. IsFiniteSet(Blocked) /\ Cardinality(Blocked) <= Cardinality(Consumers)
  BY <1>1, <1>2, FS_Subset
<1>4. QED
  BY <1>1, <1>3, FS_CardinalityType

\* Leaving BRPOP takes one consumer out of the blocked ones.
LEMMA Unblock ==
    ASSUME Counts, NEW c \in Consumers, pc[c] = "brpop", pc' = [pc EXCEPT ![c] = "script"]
    PROVE  Cardinality(Blocked') = Cardinality(Blocked) - 1
<1>1. Blocked' = Blocked \ {c}
  BY DEF Blocked, Counts
<1>2. c \in Blocked
  BY DEF Blocked
<1>3. QED
  BY <1>1, <1>2, BlockedFinite, FS_RemoveElement, SMTT(30)

\* Every step keeps the types.
LEMMA CountsStep == Counts /\ [Next]_vars => Counts'
<1> SUFFICES ASSUME Counts, [Next]_vars PROVE Counts'
  OBVIOUS
<1>1. ASSUME NEW x \in Ids, Enqueue(x) PROVE Counts'
  BY <1>1 DEF Counts, Enqueue
<1>2. ASSUME NEW x \in Ids, ScheduleRetry(x) PROVE Counts'
  <2>1. ripe' \in Nat /\ passed' \in Nat
    BY <1>2 DEF Counts, ScheduleRetry
  <2>2. QED
    BY <1>2, <2>1 DEF Counts, ScheduleRetry
<1>3. CASE Tick
  BY <1>3 DEF Counts, Tick
<1>4. ASSUME NEW c \in Consumers, PopNext(c) PROVE Counts'
  <2>1. CASE ~(ripe > 0 \/ ready # <<>>)
    BY <1>4, <2>1 DEF Counts, PopNext
  <2>2. CASE (ripe > 0 \/ ready # <<>>) /\ Source = "retry"
    <3>1. ripe > 0
      BY <2>2 DEF Source, Counts
    <3>2. QED
      BY <1>4, <2>2, <3>1 DEF Counts, PopNext, PopRetry, Sources
  <2>3. CASE (ripe > 0 \/ ready # <<>>) /\ Source # "retry"
    <3>1. Source = "ready"
      BY <2>3 DEF Source, Counts
    <3>2. QED
      BY <1>4, <2>3, <3>1 DEF Counts, PopNext, PopReady, Sources
  <2>4. QED
    BY <2>1, <2>2, <2>3
<1>5. ASSUME NEW c \in Consumers, BRPop(c) PROVE Counts'
  BY <1>5 DEF Counts, BRPop, PopReady
<1>6. CASE UNCHANGED vars
  BY <1>6 DEF Counts, vars
<1>7. QED
  BY <1>1, <1>2, <1>3, <1>4, <1>5, <1>6 DEF Next, Dequeue

\* Every step keeps the list from being overtaken twice.
LEMMA OvertakingStep == Counts /\ Overtaking /\ [Next]_vars => Overtaking'
<1> SUFFICES ASSUME Counts, Overtaking, [Next]_vars PROVE Overtaking'
  OBVIOUS
<1>1. ASSUME NEW c \in Consumers, PopNext(c) PROVE Overtaking'
  <2>1. CASE ~(ripe > 0 \/ ready # <<>>)
    BY <1>1, <2>1 DEF Overtaking, PopNext
  <2>2. CASE (ripe > 0 \/ ready # <<>>) /\ Source = "retry"
    <3>1. fair' = "retry" /\ overtaken' = IF ready # <<>> THEN overtaken + 1 ELSE 0
      BY <1>1, <2>2 DEF PopNext, PopRetry
    <3>2. ready # <<>> => fair # "retry"
      BY <2>2 DEF Source, Counts
    <3>3. QED
      BY <3>1, <3>2 DEF Overtaking, Counts
  <2>3. CASE (ripe > 0 \/ ready # <<>>) /\ Source # "retry"
    BY <1>1, <2>3 DEF Overtaking, PopNext, PopReady
  <2>4. QED
    BY <2>1, <2>2, <2>3
<1>2. ASSUME NEW c \in Consumers, BRPop(c) PROVE Overtaking'
  BY <1>2 DEF Overtaking, BRPop, PopReady
<1>3. ASSUME NEW x \in Ids, Enqueue(x) \/ ScheduleRetry(x) PROVE Overtaking'
  BY <1>3 DEF Overtaking, Enqueue, ScheduleRetry
<1>4. CASE Tick \/ UNCHANGED vars
  BY <1>4 DEF Overtaking, Tick, vars
<1>5. QED
  BY <1>1, <1>2, <1>3, <1>4 DEF Next, Dequeue

\* Every step keeps the count of what may still pass a due retry.
LEMMA PassingStep == Counts /\ Passing /\ [Next]_vars => Passing'
<1> SUFFICES ASSUME Counts, Passing, [Next]_vars PROVE Passing'
  OBVIOUS
<1>0. /\ Cardinality(Blocked) \in Nat /\ Cardinality(Consumers) \in Nat
      /\ Cardinality(Blocked) <= Cardinality(Consumers)
      /\ Turn \in {0, 1}
  BY BlockedFinite DEF Turn
<1>1. ASSUME NEW c \in Consumers, PopNext(c) PROVE Passing'
  <2>1. CASE ~(ripe > 0 \/ ready # <<>>)
    <3>1. ripe = 0 /\ ripe' = 0 /\ passed' = 0
      BY <1>1, <2>1 DEF PopNext, Passing, Counts
    <3>2. Cardinality(Blocked') \in Nat /\ Cardinality(Blocked') <= Cardinality(Consumers)
      <4>1. Blocked' \subseteq Consumers
        BY DEF Blocked
      <4>2. QED
        BY <4>1, QueueAssumption, FS_Subset, FS_CardinalityType
    <3>3. Turn' \in {0, 1}
      BY DEF Turn
    <3>4. QED
      BY <1>0, <3>1, <3>2, <3>3 DEF Passing
  <2>2. CASE (ripe > 0 \/ ready # <<>>) /\ Source = "retry"
    <3>1. passed' = 0 /\ Blocked' = Blocked
      BY <1>1, <2>2 DEF PopNext, PopRetry, Blocked
    <3>2. Turn' \in {0, 1}
      BY DEF Turn
    <3>3. QED
      BY <1>0, <3>1, <3>2 DEF Passing
  <2>3. CASE (ripe > 0 \/ ready # <<>>) /\ Source # "retry"
    <3>1. /\ fair' = "ready"
          /\ ripe' = ripe
          /\ passed' = IF ripe > 0 THEN passed + 1 ELSE 0
          /\ Blocked' = Blocked
      BY <1>1, <2>3 DEF PopNext, PopReady, Source, Blocked, Counts
    <3>2. ripe > 0 => fair = "retry"
      BY <2>3 DEF Source, Counts
    <3>3. QED
      BY <1>0, <3>1, <3>2 DEF Passing, Turn, Counts
  <2>4. QED
    BY <2>1, <2>2, <2>3
<1>2. ASSUME NEW c \in Consumers, BRPop(c) PROVE Passing'
  <2>1. Cardinality(Blocked') = Cardinality(Blocked) - 1
    BY <1>2, Unblock, Zenon DEF BRPop
  <2>2. fair' = fair /\ ripe' = ripe /\ (passed' = passed \/ passed' = IF ripe > 0 THEN passed + 1 ELSE 0)
    BY <1>2 DEF BRPop, PopReady
  <2>3. QED
    BY <1>0, <2>1, <2>2 DEF Passing, Turn, Counts
<1>3. ASSUME NEW x \in Ids, Enqueue(x) PROVE Passing'
  BY <1>3 DEF Passing, Enqueue, Blocked, Turn
<1>4. ASSUME NEW x \in Ids, ScheduleRetry(x) PROVE Passing'
  <2>1. /\ fair' = fair /\ Blocked' = Blocked
        /\ passed' = IF ripe' = 0 THEN 0 ELSE passed
    BY <1>4 DEF ScheduleRetry, Blocked
  <2>2. QED
    BY <1>0, <2>1 DEF Passing, Turn, Counts
<1>5. CASE Tick
  <2>1. fair' = fair /\ Blocked' = Blocked /\ passed' = passed /\ ripe' = ripe + 1
    BY <1>5 DEF Tick, Blocked
  <2>2. QED
    BY <1>0, <2>1 DEF Passing, Turn, Counts
<1>6. CASE UNCHANGED vars
  BY <1>6 DEF Passing, Blocked, Turn, vars
<1>7. QED
  BY <1>1, <1>2, <1>3, <1>4, <1>5, <1>6 DEF Next, Dequeue

\* popNextScript serves ready work after at most one retry, whoever else runs it.
THEOREM ReadyGetsItsTurn == Spec => []ReadyIsNotOvertaken
<1>1. Init => Counts /\ Overtaking
  BY DEF Init, Counts, Overtaking, Sources
<1>2. Overtaking => ReadyIsNotOvertaken
  BY DEF Overtaking, ReadyIsNotOvertaken
<1>3. QED
  BY <1>1, <1>2, CountsStep, OvertakingStep, PTL DEF Spec

\* A due retry is passed by at most one id of the script and one per consumer that
\* was already in BRPOP, for any number of consumers.
THEOREM RetryGetsItsTurn == Spec => []RetryIsNotPassed
<1>1. Init => Counts /\ Passing
  <2> SUFFICES ASSUME Init PROVE Counts /\ Passing
    OBVIOUS
  <2>1. Counts /\ passed = 0 /\ Turn = 0
    BY DEF Init, Counts, Sources, Turn
  <2>2. QED
    BY <2>1, BlockedFinite DEF Passing
<1>2. Counts /\ Passing => RetryIsNotPassed
  BY BlockedFinite DEF Passing, RetryIsNotPassed, Turn, Counts
<1>3. QED
  BY <1>1, <1>2, CountsStep, PassingStep, PTL DEF Spec

----------------------------------------------------------------------------
(* The retry set as a sequence.  Its members are distinct, so ZADD and ZREM *)
(* of one member change nothing else.                                       *)

Distinct(s) == \A i, j \in DOMAIN s : s[i] = s[j] => i = j

Contents ==
    /\ ready \in Seq(Ids) /\ Len(ready) <= Capacity
    /\ retry \in Seq(Ids) /\ Distinct(retry)
    /\ ripe \in 0 .. Len(retry)
    /\ taken \in {<<>>} \union (Sources \X Ids)

\* The first r members of s, and the others.
Upto(s, r) == {s[j] : j \in 1 .. r}
After(s, r) == {s[j] : j \in r + 1 .. Len(s)}

\* A function on 1..n with values in S is a sequence of length n.
LEMMA FunctionIsSequence ==
    ASSUME NEW S, NEW n \in Nat, NEW f \in [1 .. n -> S]
    PROVE  f \in Seq(S) /\ Len(f) = n /\ DOMAIN f = 1 .. n
  OBVIOUS

\* What Without leaves, and where.
LEMMA WithoutPlaces ==
    ASSUME NEW S, NEW s \in Seq(S), NEW k \in 1 .. Len(s)
    PROVE  /\ Without(s, k) \in Seq(S) /\ Len(Without(s, k)) = Len(s) - 1
           /\ \A j \in 1 .. Len(s) - 1 : Without(s, k)[j] = IF j < k THEN s[j] ELSE s[j + 1]
<1>1. Len(s) - 1 \in Nat /\ Without(s, k) \in [1 .. Len(s) - 1 -> S]
  BY DEF Without
<1> QED BY <1>1, FunctionIsSequence DEF Without

\* A new member keeps the members distinct; those before its place stay, those from
\* there on move up by one.
LEMMA InsertNew ==
    ASSUME NEW s \in Seq(Ids), Distinct(s), NEW x \in Ids, \A k \in 1 .. Len(s) : s[k] # x,
           NEW r \in 0 .. Len(s), NEW i \in r + 1 .. Len(s) + 1
    PROVE  /\ Insert(s, i, x) \in Seq(Ids) /\ Len(Insert(s, i, x)) = Len(s) + 1
           /\ Distinct(Insert(s, i, x))
           /\ Upto(Insert(s, i, x), r) = Upto(s, r)
           /\ After(Insert(s, i, x), r) = After(s, r) \union {x}
<1> DEFINE t == Insert(s, i, x)
<1>0. i \in 1 .. Len(s) + 1 /\ Len(s) \in Nat /\ DOMAIN s = 1 .. Len(s)
  OBVIOUS
<1>a. /\ t \in Seq(Ids) /\ Len(t) = Len(s) + 1
      /\ \A j \in 1 .. Len(s) + 1 : t[j] = IF j < i THEN s[j] ELSE IF j = i THEN x ELSE s[j - 1]
  <2>1. Len(s) + 1 \in Nat /\ t \in [1 .. Len(s) + 1 -> Ids]
    BY <1>0 DEF Insert
  <2>2. \A j \in 1 .. Len(s) + 1 : t[j] = IF j < i THEN s[j] ELSE IF j = i THEN x ELSE s[j - 1]
    BY DEF Insert
  <2> HIDE DEF t
  <2> QED BY <2>1, <2>2, FunctionIsSequence
<1> HIDE DEF t
<1>1. /\ t \in Seq(Ids) /\ Len(t) = Len(s) + 1 /\ DOMAIN t = 1 .. Len(s) + 1
      /\ \A j \in 1 .. Len(s) + 1 : t[j] = IF j < i THEN s[j] ELSE IF j = i THEN x ELSE s[j - 1]
  BY <1>a
<1>2. Distinct(t)
  <2> SUFFICES ASSUME NEW j \in 1 .. Len(s) + 1, NEW k \in 1 .. Len(s) + 1, t[j] = t[k], j < k PROVE FALSE
    BY <1>1 DEF Distinct
  <2>1. CASE k < i
    <3>1. t[j] = s[j] /\ t[k] = s[k] /\ j \in DOMAIN s /\ k \in DOMAIN s /\ j # k
      BY <1>0, <1>1, <2>1
    <3> QED BY <3>1, Zenon DEF Distinct
  <2>2. CASE k = i
    BY <1>0, <1>1, <2>2
  <2>3. CASE k > i /\ j < i
    <3>1. t[j] = s[j] /\ t[k] = s[k - 1] /\ j \in DOMAIN s /\ k - 1 \in DOMAIN s /\ j # k - 1
      BY <1>0, <1>1, <2>3
    <3> QED BY <3>1, Zenon DEF Distinct
  <2>4. CASE k > i /\ j = i
    BY <1>0, <1>1, <2>4
  <2>5. CASE k > i /\ j > i
    <3>1. t[j] = s[j - 1] /\ t[k] = s[k - 1] /\ j - 1 \in DOMAIN s /\ k - 1 \in DOMAIN s /\ j - 1 # k - 1
      BY <1>0, <1>1, <2>5
    <3> QED BY <3>1, Zenon DEF Distinct
  <2> QED BY <1>0, <2>1, <2>2, <2>3, <2>4, <2>5
<1>3. {t[j] : j \in 1 .. r} = {s[j] : j \in 1 .. r}
  <2>1. \A j \in 1 .. r : t[j] = s[j]
    BY <1>0, <1>1
  <2> QED BY <2>1
<1>4. {t[j] : j \in r + 1 .. Len(t)} \subseteq {s[j] : j \in r + 1 .. Len(s)} \union {x}
  <2> SUFFICES ASSUME NEW j \in r + 1 .. Len(t), t[j] # x PROVE \E k \in r + 1 .. Len(s) : t[j] = s[k]
    OBVIOUS
  <2>1. CASE j < i
    BY <1>0, <1>1, <2>1
  <2>2. CASE j > i
    <3>1. t[j] = s[j - 1] /\ j - 1 \in r + 1 .. Len(s)
      BY <1>0, <1>1, <2>2
    <3> QED BY <3>1
  <2> QED BY <1>0, <1>1, <2>1, <2>2
<1>5. {s[j] : j \in r + 1 .. Len(s)} \union {x} \subseteq {t[j] : j \in r + 1 .. Len(t)}
  <2>1. x = t[i] /\ i \in r + 1 .. Len(t)
    BY <1>0, <1>1
  <2>2. ASSUME NEW j \in r + 1 .. Len(s) PROVE \E k \in r + 1 .. Len(t) : s[j] = t[k]
    <3>1. CASE j < i
      BY <1>0, <1>1, <3>1
    <3>2. CASE j >= i
      <4>1. s[j] = t[j + 1] /\ j + 1 \in r + 1 .. Len(t)
        BY <1>0, <1>1, <3>2
      <4> QED BY <4>1
    <3> QED BY <1>0, <3>1, <3>2
  <2> QED BY <2>1, <2>2
<1> QED BY <1>1, <1>2, <1>3, <1>4, <1>5, Zenon DEF t, Upto, After

\* Taking the k-th member out leaves the others distinct, those that were due due and
\* the rest waiting.
LEMMA WithoutOne ==
    ASSUME NEW s \in Seq(Ids), Distinct(s), NEW k \in 1 .. Len(s),
           NEW r \in 0 .. Len(s), NEW q, q = IF k <= r THEN r - 1 ELSE r
    PROVE  /\ Without(s, k) \in Seq(Ids) /\ Len(Without(s, k)) = Len(s) - 1
           /\ Distinct(Without(s, k))
           /\ q \in 0 .. Len(Without(s, k))
           /\ \A j \in 1 .. Len(Without(s, k)) : Without(s, k)[j] # s[k]
           /\ Upto(Without(s, k), q) = Upto(s, r) \ {s[k]}
           /\ After(Without(s, k), q) = After(s, r) \ {s[k]}
<1> DEFINE t == Without(s, k)
<1>0. Len(s) \in Nat /\ DOMAIN s = 1 .. Len(s)
  OBVIOUS
<1>a. /\ t \in Seq(Ids) /\ Len(t) = Len(s) - 1
      /\ \A j \in 1 .. Len(s) - 1 : t[j] = IF j < k THEN s[j] ELSE s[j + 1]
  BY <1>0, WithoutPlaces, Zenon
<1> HIDE DEF t
<1>1. /\ t \in Seq(Ids) /\ Len(t) = Len(s) - 1 /\ DOMAIN t = 1 .. Len(s) - 1
      /\ \A j \in 1 .. Len(s) - 1 : t[j] = IF j < k THEN s[j] ELSE s[j + 1]
  BY <1>a
<1>q. q \in 0 .. Len(t)
  BY <1>0, <1>1
<1>2. \A j \in 1 .. Len(t) : t[j] # s[k]
  <2> SUFFICES ASSUME NEW j \in 1 .. Len(t) PROVE t[j] # s[k]
    OBVIOUS
  <2>1. PICK a \in DOMAIN s : t[j] = s[a] /\ a = IF j < k THEN j ELSE j + 1
    BY <1>0, <1>1
  <2>2. a # k /\ k \in DOMAIN s
    BY <1>0, <1>1, <2>1
  <2> QED BY <2>1, <2>2, Zenon DEF Distinct
<1>3. Distinct(t)
  <2> SUFFICES ASSUME NEW j \in 1 .. Len(t), NEW i \in 1 .. Len(t), t[j] = t[i], j < i PROVE FALSE
    BY <1>1 DEF Distinct
  <2>1. PICK a \in DOMAIN s : t[j] = s[a] /\ a = IF j < k THEN j ELSE j + 1
    BY <1>0, <1>1
  <2>2. PICK b \in DOMAIN s : t[i] = s[b] /\ b = IF i < k THEN i ELSE i + 1
    BY <1>0, <1>1
  <2>3. a # b
    BY <1>0, <1>1, <2>1, <2>2
  <2> QED BY <2>1, <2>2, <2>3, Zenon DEF Distinct
\* the place in s of the j-th member of t, and back
<1>4. ASSUME NEW j \in 1 .. Len(t)
      PROVE  \E i \in 1 .. Len(s) : t[j] = s[i] /\ i # k /\ (j <= q <=> i <= r)
  <2>1. CASE j < k
    BY <1>0, <1>1, <2>1
  <2>2. CASE j >= k
    <3>1. t[j] = s[j + 1] /\ j + 1 \in 1 .. Len(s) /\ j + 1 # k /\ (j <= q <=> j + 1 <= r)
      BY <1>0, <1>1, <2>2
    <3> QED BY <3>1
  <2> QED BY <1>0, <2>1, <2>2
<1>5. ASSUME NEW i \in 1 .. Len(s), i # k
      PROVE  \E j \in 1 .. Len(t) : t[j] = s[i] /\ (j <= q <=> i <= r)
  <2>1. CASE i < k
    BY <1>0, <1>1, <2>1
  <2>2. CASE i > k
    <3>1. t[i - 1] = s[i] /\ i - 1 \in 1 .. Len(t) /\ (i - 1 <= q <=> i <= r)
      BY <1>0, <1>1, <2>2
    <3> QED BY <3>1
  <2> QED BY <1>0, <1>5, <2>1, <2>2
<1>6. {t[j] : j \in 1 .. q} = {s[j] : j \in 1 .. r} \ {s[k]}
  <2>1. ASSUME NEW j \in 1 .. q PROVE t[j] \in {s[i] : i \in 1 .. r} \ {s[k]}
    <3>0. j \in 1 .. Len(t) /\ j <= q /\ r \in Nat
      BY <1>0, <1>1, <1>q
    <3>1. PICK i \in 1 .. Len(s) : t[j] = s[i] /\ (j <= q <=> i <= r)
      BY <3>0, <1>4
    <3>2. i \in 1 .. r
      BY <3>0, <3>1
    <3> QED BY <3>0, <3>1, <3>2, <1>2
  <2>2. ASSUME NEW i \in 1 .. r, s[i] # s[k] PROVE s[i] \in {t[j] : j \in 1 .. q}
    <3>1. i \in 1 .. Len(s) /\ i # k /\ i <= r
      BY <2>2, <1>0
    <3>2. PICK j \in 1 .. Len(t) : t[j] = s[i] /\ (j <= q <=> i <= r)
      BY <3>1, <1>5
    <3>3. j \in 1 .. q
      BY <3>1, <3>2, <1>q
    <3> QED BY <3>2, <3>3
  <2>3. {t[j] : j \in 1 .. q} \subseteq {s[j] : j \in 1 .. r} \ {s[k]}
    BY <2>1
  <2>4. {s[j] : j \in 1 .. r} \ {s[k]} \subseteq {t[j] : j \in 1 .. q}
    BY <2>2
  <2> QED BY <2>3, <2>4, Zenon
<1>7. {t[j] : j \in q + 1 .. Len(t)} = {s[j] : j \in r + 1 .. Len(s)} \ {s[k]}
  <2>1. ASSUME NEW j \in q + 1 .. Len(t) PROVE t[j] \in {s[i] : i \in r + 1 .. Len(s)} \ {s[k]}
    <3>0. j \in 1 .. Len(t) /\ ~(j <= q) /\ r \in Nat
      BY <1>0, <1>1, <1>q
    <3>1. PICK i \in 1 .. Len(s) : t[j] = s[i] /\ (j <= q <=> i <= r)
      BY <3>0, <1>4
    <3>2. i \in r + 1 .. Len(s)
      BY <3>0, <3>1, <1>0
    <3> QED BY <3>0, <3>1, <3>2, <1>2
  <2>2. ASSUME NEW i \in r + 1 .. Len(s), s[i] # s[k] PROVE s[i] \in {t[j] : j \in q + 1 .. Len(t)}
    <3>1. i \in 1 .. Len(s) /\ i # k /\ ~(i <= r)
      BY <2>2, <1>0
    <3>2. PICK j \in 1 .. Len(t) : t[j] = s[i] /\ (j <= q <=> i <= r)
      BY <3>1, <1>5
    <3>3. j \in q + 1 .. Len(t)
      BY <3>1, <3>2, <1>q, <1>a
    <3> QED BY <3>2, <3>3
  <2> QED BY <2>1, <2>2, Zenon
<1> QED BY <1>1, <1>2, <1>3, <1>6, <1>7, <1>q, Zenon DEF t, Upto, After

DueSet == Upto(retry, ripe)
WaitingSet == After(retry, ripe)

\* ZADD leaves x waiting, whether and where it was a member before.
LEMMA ScheduleEffect ==
    ASSUME Contents, NEW x \in Ids, ScheduleRetry(x)
    PROVE  /\ retry' \in Seq(Ids) /\ Distinct(retry') /\ ripe' \in 0 .. Len(retry')
           /\ WaitingSet' = WaitingSet \union {x} /\ DueSet' = DueSet \ {x}
<1>0. retry \in Seq(Ids) /\ Distinct(retry) /\ ripe \in 0 .. Len(retry) /\ DOMAIN retry = 1 .. Len(retry)
  BY DEF Contents
<1>1. CASE /\ \A k \in DOMAIN retry : retry[k] # x
           /\ ripe' = ripe
           /\ \E i \in ripe + 1 .. Len(retry) + 1 : retry' = Insert(retry, i, x)
  <2>1. PICK i \in ripe + 1 .. Len(retry) + 1 : retry' = Insert(retry, i, x)
    BY <1>1
  <2>2. /\ retry' \in Seq(Ids) /\ Len(retry') = Len(retry) + 1 /\ Distinct(retry')
        /\ Upto(retry', ripe) = Upto(retry, ripe)
        /\ After(retry', ripe) = After(retry, ripe) \union {x}
    <3>1. \A k \in 1 .. Len(retry) : retry[k] # x
      BY <1>0, <1>1
    <3> QED BY <1>0, <2>1, <3>1, InsertNew
  <2>3. x \notin DueSet
    BY <1>0, <1>1 DEF DueSet, Upto
  <2> QED BY <1>0, <1>1, <2>2, <2>3 DEF DueSet, WaitingSet
<1>2. ASSUME NEW k \in DOMAIN retry, retry[k] = x, ripe' = IF k <= ripe THEN ripe - 1 ELSE ripe,
             NEW i \in ripe' + 1 .. Len(retry), retry' = Insert(Without(retry, k), i, x)
      PROVE  /\ retry' \in Seq(Ids) /\ Distinct(retry') /\ ripe' \in 0 .. Len(retry')
             /\ WaitingSet' = WaitingSet \union {x} /\ DueSet' = DueSet \ {x}
  <2> DEFINE rest == Without(retry, k)
  <2>1. /\ rest \in Seq(Ids) /\ Len(rest) = Len(retry) - 1 /\ Distinct(rest)
        /\ ripe' \in 0 .. Len(rest)
        /\ \A j \in 1 .. Len(rest) : rest[j] # retry[k]
        /\ Upto(rest, ripe') = Upto(retry, ripe) \ {retry[k]}
        /\ After(rest, ripe') = After(retry, ripe) \ {retry[k]}
    <3>1. k \in 1 .. Len(retry) /\ retry \in Seq(Ids) /\ Distinct(retry) /\ ripe \in 0 .. Len(retry)
      BY <1>0
    <3>2. ripe' = IF k <= ripe THEN ripe - 1 ELSE ripe
      BY <1>2
    <3> QED BY <3>1, <3>2, WithoutOne, ZenonT(90)
  <2>2. i \in ripe' + 1 .. Len(rest) + 1 /\ \A j \in 1 .. Len(rest) : rest[j] # x
    BY <1>2, <2>1
  <2>3. /\ retry' \in Seq(Ids) /\ Len(retry') = Len(rest) + 1 /\ Distinct(retry')
        /\ Upto(retry', ripe') = Upto(rest, ripe')
        /\ After(retry', ripe') = After(rest, ripe') \union {x}
    <3>1. retry' = Insert(rest, i, x)
      BY <1>2
    <3> HIDE DEF rest
    <3>2. /\ Insert(rest, i, x) \in Seq(Ids) /\ Len(Insert(rest, i, x)) = Len(rest) + 1
          /\ Distinct(Insert(rest, i, x))
          /\ Upto(Insert(rest, i, x), ripe') = Upto(rest, ripe')
          /\ After(Insert(rest, i, x), ripe') = After(rest, ripe') \union {x}
      <4>1. rest \in Seq(Ids) /\ Distinct(rest) /\ ripe' \in 0 .. Len(rest) /\ Len(rest) \in Nat
        BY <2>1
      <4> QED BY <4>1, <2>2, InsertNew, Zenon
    <3> QED BY <3>1, <3>2
  <2>4. WaitingSet' = (WaitingSet \ {x}) \union {x} /\ DueSet' = DueSet \ {x}
    BY <1>2, <2>1, <2>3 DEF WaitingSet, DueSet
  <2>5. ripe' \in 0 .. Len(retry')
    BY <2>1, <2>3
  <2> QED BY <2>3, <2>4, <2>5, SMTT(30)
<1> QED BY <1>1, <1>2 DEF ScheduleRetry

\* The member that comes due is the next by score.
LEMMA TickEffect ==
    ASSUME Contents, Tick
    PROVE  \E x \in Ids : x \in WaitingSet /\ WaitingSet' = WaitingSet \ {x} /\ DueSet' = DueSet \union {x}
<1>0. /\ retry \in Seq(Ids) /\ Distinct(retry) /\ ripe \in 0 .. Len(retry) /\ DOMAIN retry = 1 .. Len(retry)
      /\ Len(retry) \in Nat
  BY DEF Contents
<1>1. ripe < Len(retry) /\ ripe' = ripe + 1 /\ retry' = retry
  BY DEF Tick
<1> DEFINE x == retry[ripe + 1]
<1>2. x \in Ids /\ x \in WaitingSet /\ ripe + 1 \in 1 .. Len(retry)
  BY <1>0, <1>1 DEF WaitingSet, After
<1>3. DueSet' = DueSet \union {x}
  <2>1. 1 .. ripe + 1 = (1 .. ripe) \union {ripe + 1}
    BY <1>0
  <2> QED BY <1>1, <2>1 DEF DueSet, Upto
<1>4. WaitingSet' = WaitingSet \ {x}
  <2>1. ripe + 1 .. Len(retry) = {ripe + 1} \union (ripe + 2 .. Len(retry)) /\ ripe + 1 \notin ripe + 2 .. Len(retry)
    BY <1>0, <1>1
  <2>2. \A j \in ripe + 2 .. Len(retry) : retry[j] # x
    BY <1>0, <1>1, <1>2 DEF Distinct
  <2>3. WaitingSet' = {retry[j] : j \in ripe + 2 .. Len(retry)}
    BY <1>0, <1>1 DEF WaitingSet, After
  <2>4. WaitingSet = {x} \union {retry[j] : j \in ripe + 2 .. Len(retry)}
    BY <2>1 DEF WaitingSet, After
  <2> QED BY <2>2, <2>3, <2>4
<1> QED BY <1>2, <1>3, <1>4

\* The script takes the due member with the smallest score out of the set.
LEMMA PopRetryEffect ==
    ASSUME Contents, PopRetry, ripe > 0
    PROVE  /\ Head(retry) \in Ids /\ Head(retry) \in DueSet
           /\ DueSet' = DueSet \ {Head(retry)} /\ WaitingSet' = WaitingSet
           /\ retry' \in Seq(Ids) /\ Distinct(retry') /\ ripe' \in 0 .. Len(retry')
<1>0. /\ retry \in Seq(Ids) /\ Distinct(retry) /\ ripe \in 1 .. Len(retry) /\ DOMAIN retry = 1 .. Len(retry)
      /\ Len(retry) \in Nat /\ retry # <<>>
  BY DEF Contents
<1>1. retry' = Tail(retry) /\ ripe' = ripe - 1
  BY DEF PopRetry
<1>2. /\ retry' \in Seq(Ids) /\ Len(retry') = Len(retry) - 1 /\ DOMAIN retry' = 1 .. Len(retry) - 1
      /\ \A j \in 1 .. Len(retry) - 1 : retry'[j] = retry[j + 1]
      /\ Head(retry) = retry[1] /\ Head(retry) \in Ids
  BY <1>0, <1>1
<1>3. Distinct(retry')
  <2> SUFFICES ASSUME NEW j \in DOMAIN retry', NEW i \in DOMAIN retry', retry'[j] = retry'[i] PROVE j = i
    BY Zenon DEF Distinct
  <2>1. j + 1 \in DOMAIN retry /\ i + 1 \in DOMAIN retry /\ retry[j + 1] = retry[i + 1]
    BY <1>0, <1>2
  <2>2. j + 1 = i + 1
    BY <1>0, <2>1, Zenon DEF Distinct
  <2> QED BY <1>0, <1>2, <2>2
<1>4. Head(retry) \in DueSet
  BY <1>0, <1>2 DEF DueSet, Upto
<1>5. DueSet' = {retry[j] : j \in 2 .. ripe}
  <2>1. ASSUME NEW j \in 1 .. ripe - 1 PROVE retry'[j] \in {retry[i] : i \in 2 .. ripe}
    <3>1. retry'[j] = retry[j + 1] /\ j + 1 \in 2 .. ripe
      BY <1>0, <1>2
    <3> QED BY <3>1
  <2>2. ASSUME NEW i \in 2 .. ripe PROVE retry[i] \in {retry'[j] : j \in 1 .. ripe - 1}
    <3>1. retry'[i - 1] = retry[i] /\ i - 1 \in 1 .. ripe - 1
      BY <1>0, <1>2
    <3> QED BY <3>1
  <2>3. {retry'[j] : j \in 1 .. ripe - 1} \subseteq {retry[i] : i \in 2 .. ripe}
    BY <2>1
  <2>4. {retry[i] : i \in 2 .. ripe} \subseteq {retry'[j] : j \in 1 .. ripe - 1}
    BY <2>2
  <2> QED BY <2>3, <2>4, <1>1, Zenon DEF DueSet, Upto
<1>6. DueSet = {retry[1]} \union {retry[j] : j \in 2 .. ripe}
  <2>1. 1 .. ripe = {1} \union (2 .. ripe)
    BY <1>0
  <2> QED BY <2>1 DEF DueSet, Upto
<1>7. \A j \in 2 .. ripe : retry[j] # retry[1]
  BY <1>0 DEF Distinct
<1>8. WaitingSet' = WaitingSet
  <2>1. ASSUME NEW j \in ripe .. Len(retry) - 1 PROVE retry'[j] \in {retry[i] : i \in ripe + 1 .. Len(retry)}
    <3>1. retry'[j] = retry[j + 1] /\ j + 1 \in ripe + 1 .. Len(retry)
      BY <1>0, <1>2
    <3> QED BY <3>1
  <2>2. ASSUME NEW i \in ripe + 1 .. Len(retry) PROVE retry[i] \in {retry'[j] : j \in ripe .. Len(retry) - 1}
    <3>1. retry'[i - 1] = retry[i] /\ i - 1 \in ripe .. Len(retry) - 1
      BY <1>0, <1>2
    <3> QED BY <3>1
  <2>3. {retry'[j] : j \in ripe .. Len(retry) - 1} = {retry[i] : i \in ripe + 1 .. Len(retry)}
    BY <2>1, <2>2
  <2>4. ripe' + 1 = ripe
    BY <1>0, <1>1
  <2> QED BY <2>3, <2>4, <1>2, Zenon DEF WaitingSet, After
<1> QED BY <1>0, <1>1, <1>2, <1>3, <1>4, <1>5, <1>6, <1>7, <1>8

\* RPOP takes the oldest id off a list that is not empty.
LEMMA PopReadyEffect ==
    ASSUME Contents, PopReady, ready # <<>>
    PROVE  /\ ready' \in Seq(Ids) /\ Len(ready') <= Capacity
           /\ taken' \in Sources \X Ids
           /\ WQ!TakeReady
<1>1. ready \in Seq(Ids) /\ Len(ready) <= Capacity /\ Capacity \in Nat
  BY QueueAssumption DEF Contents
<1>2. Head(ready) \in Ids /\ ready' \in Seq(Ids) /\ Len(ready') = Len(ready) - 1
  BY <1>1 DEF PopReady
<1>3. taken' \in Sources \X Ids
  BY <1>2 DEF PopReady, Sources
<1>4. WQ!TakeReady
  BY DEF PopReady, WQ!TakeReady
<1> QED BY <1>1, <1>2, <1>3, <1>4

\* What popNextScript does when it finds something.
LEMMA PopNextEffect ==
    ASSUME Counts, NEW c \in Consumers, PopNext(c), ripe > 0 \/ ready # <<>>
    PROVE  (PopRetry /\ ripe > 0) \/ (PopReady /\ ready # <<>>)
<1>1. CASE Source = "retry"
  BY <1>1 DEF PopNext, Source, Counts
<1>2. CASE Source # "retry"
  BY <1>2 DEF PopNext, Source, Counts
<1> QED BY <1>1, <1>2

\* Every step keeps the contents well-formed and is a step of the abstract queue.
LEMMA ContentsStep ==
    Counts /\ Contents /\ [Next]_vars => Contents' /\ [WQ!Next]_(WQ!vars)
<1> SUFFICES ASSUME Counts, Contents, [Next]_vars PROVE Contents' /\ [WQ!Next]_(WQ!vars)
  OBVIOUS
<1>0. /\ ready \in Seq(Ids) /\ Len(ready) <= Capacity /\ Capacity \in Nat
      /\ retry \in Seq(Ids) /\ Distinct(retry) /\ ripe \in 0 .. Len(retry)
      /\ taken \in {<<>>} \union (Sources \X Ids)
  BY QueueAssumption DEF Contents
<1>u. ASSUME UNCHANGED <<ready, retry, ripe, taken>> PROVE Contents' /\ UNCHANGED WQ!vars
  BY <1>u DEF Contents, WQ!vars
<1>1. ASSUME NEW x \in Ids, Enqueue(x) PROVE Contents' /\ WQ!Enqueue(x)
  <2>1. ready' \in Seq(Ids) /\ Len(ready') <= Capacity
    BY <1>0, <1>1 DEF Enqueue
  <2>2. UNCHANGED <<retry, ripe, taken>>
    BY <1>1 DEF Enqueue
  <2>3. Contents'
    BY <1>0, <2>1, <2>2 DEF Contents
  <2>4. WQ!Enqueue(x)
    BY <1>1, <2>2 DEF Enqueue, WQ!Enqueue
  <2> QED BY <2>3, <2>4
<1>2. ASSUME NEW x \in Ids, ScheduleRetry(x) PROVE Contents' /\ WQ!ScheduleRetry(x)
  <2>1. /\ retry' \in Seq(Ids) /\ Distinct(retry') /\ ripe' \in 0 .. Len(retry')
        /\ WaitingSet' = WaitingSet \union {x} /\ DueSet' = DueSet \ {x}
    BY <1>2, ScheduleEffect
  <2>2. UNCHANGED <<ready, taken>>
    BY <1>2 DEF ScheduleRetry
  <2> QED BY <1>0, <2>1, <2>2, Zenon DEF Contents, WQ!ScheduleRetry, WaitingSet, DueSet, Upto, After
<1>3. CASE Tick
  <2>1. PICK x \in Ids : x \in WaitingSet /\ WaitingSet' = WaitingSet \ {x} /\ DueSet' = DueSet \union {x}
    BY <1>3, TickEffect
  <2>2. UNCHANGED <<ready, retry, taken>> /\ ripe' \in 0 .. Len(retry)
    BY <1>0, <1>3 DEF Tick
  <2>3. Contents'
    BY <1>0, <2>2 DEF Contents
  <2>4. WQ!ComeDue(x)
    BY <2>1, <2>2, Zenon DEF WQ!ComeDue, WaitingSet, DueSet, Upto, After
  <2> QED BY <2>3, <2>4 DEF WQ!Next
<1>r. ASSUME PopRetry, ripe > 0 PROVE Contents' /\ \E x \in Ids : WQ!TakeRetry(x)
  <2>1. /\ Head(retry) \in Ids /\ Head(retry) \in DueSet
        /\ DueSet' = DueSet \ {Head(retry)} /\ WaitingSet' = WaitingSet
        /\ retry' \in Seq(Ids) /\ Distinct(retry') /\ ripe' \in 0 .. Len(retry')
    BY <1>r, PopRetryEffect
  <2>2. ready' = ready /\ taken' = <<"retry", Head(retry)>>
    BY <1>r DEF PopRetry
  <2>3. Contents'
    BY <1>0, <2>1, <2>2 DEF Contents, Sources
  <2>4. \E x \in Ids : WQ!TakeRetry(x)
    BY <2>1, <2>2, Zenon DEF WQ!TakeRetry, WaitingSet, DueSet, Upto, After
  <2> QED BY <2>3, <2>4
<1>l. ASSUME PopReady, ready # <<>> PROVE Contents' /\ WQ!TakeReady
  <2>1. ready' \in Seq(Ids) /\ Len(ready') <= Capacity /\ taken' \in Sources \X Ids /\ WQ!TakeReady
    BY <1>l, PopReadyEffect
  <2>2. UNCHANGED <<retry, ripe>>
    BY <1>l DEF PopReady
  <2> QED BY <1>0, <2>1, <2>2 DEF Contents
<1>4. ASSUME NEW c \in Consumers, PopNext(c) PROVE Contents' /\ [WQ!Next]_(WQ!vars)
  <2>1. CASE ripe > 0 \/ ready # <<>>
    <3>1. (PopRetry /\ ripe > 0) \/ (PopReady /\ ready # <<>>)
      BY <1>4, <2>1, PopNextEffect
    <3>2. CASE PopRetry /\ ripe > 0
      BY <3>2, <1>r DEF WQ!Next
    <3>3. CASE PopReady /\ ready # <<>>
      BY <3>3, <1>l DEF WQ!Next
    <3> QED BY <3>1, <3>2, <3>3
  <2>2. CASE ~(ripe > 0 \/ ready # <<>>)
    BY <1>4, <2>2, <1>u DEF PopNext
  <2> QED BY <2>1, <2>2
<1>5. ASSUME NEW c \in Consumers, BRPop(c) PROVE Contents' /\ [WQ!Next]_(WQ!vars)
  BY <1>5, <1>u, <1>l DEF BRPop, WQ!Next
<1>6. CASE UNCHANGED vars
  BY <1>6, <1>u DEF vars
<1> QED
  BY <1>1, <1>2, <1>3, <1>4, <1>5, <1>6 DEF Next, Dequeue, WQ!Next

\* The contents are well-formed to begin with.
LEMMA InitContents == Init => Counts /\ Contents
  BY QueueAssumption DEF Init, Counts, Contents, Distinct, Sources

\* Every reachable state of the queue is well-typed; in particular the retry set has no
\* member twice and its due members are its first ones.
THEOREM QueueTypeCorrect == Spec => []TypeOK
<1>1. Counts /\ Contents => TypeOK
  BY DEF Counts, Contents, TypeOK, Distinct
<1>2. Counts /\ Contents /\ [Next]_vars => Counts' /\ Contents'
  BY CountsStep, ContentsStep
<1> QED BY <1>1, <1>2, InitContents, PTL DEF Spec

\* The list, the sorted set, the script and BRPOP implement the abstract queue, for any
\* set of ids and any number of consumers: nothing is handed out that was not put in or
\* before it is due, nothing disappears, and the list is served in order.
THEOREM QueueRefinesWorkQueue == Spec => ImplementsWorkQueue
<1>1. Init => WQ!Init
  <2> SUFFICES ASSUME Init PROVE WQ!Init
    OBVIOUS
  <2>1. retry = <<>> /\ ripe = 0 /\ Len(retry) = 0
    BY DEF Init
  <2>2. 1 .. ripe = {} /\ ripe + 1 .. Len(retry) = {}
    BY <2>1
  <2> QED BY <2>2 DEF Init, WQ!Init
<1>2. Counts /\ Contents /\ [Next]_vars => Counts' /\ Contents' /\ [WQ!Next]_(WQ!vars)
  BY CountsStep, ContentsStep
<1> QED BY <1>1, <1>2, InitContents, PTL DEF Spec, ImplementsWorkQueue, WQ!Spec

----------------------------------------------------------------------------
(* The limit on wrong passwords, which Login consults first: LoginLimiter  *)
(* for any number of sign-ins in flight, any settings and any faults.      *)
(*                                                                         *)
(* WrongBounded is not inductive: it counts what has been tried and not    *)
(* what may still come.  Free and Locked keep the accounts.  While the     *)
(* address is free, every failure since the limiter let go is in the       *)
(* counter, or its sign-in is about to set the lockout, or the counter     *)
(* was deleted under it: by a DEL of RecordFailure that came late, once    *)
(* for each other sign-in, or because a command was lost.  While it is     *)
(* locked, each sign-in past IsLocked can fail once more.  Arrived says    *)
(* why no DEL is late when the lockout ends by itself: a request is        *)
(* shorter than a lockout.                                                 *)

CONSTANTS Handlers, MaxFaults, maxFailures, failureWindow, lockout, MaxStay, MaxWrong
VARIABLES fail, block, at, count, stay, lost, tries, wrong, oldest

Limiter == INSTANCE LoginLimiter WITH pc <- at, n <- count, faults <- lost

N == Cardinality(Handlers)

\* Sign-ins about to delete the counter, about to set the lockout, and past IsLocked.
Deleting == {h \in Handlers : at[h] = "del"}
Over == {h \in Handlers : at[h] = "set" \/ (at[h] = "expire" /\ Limiter!Reached(count[h]))}
Verifying == {h \in Handlers : at[h] = "verify"}

\* What d pending deletions and f lost commands leave for later.
Slack(d, f) == (maxFailures - 1) * (N - 1 - d) + maxFailures * f

\* The settings in the terms of this module.
LEMMA Settings ==
    ASSUME Limiter!LimiterSettings
    PROVE  /\ IsFiniteSet(Handlers) /\ N \in Nat \ {0}
           /\ maxFailures \in Nat \ {0} /\ lockout \in Nat \ {0} /\ failureWindow \in Nat \ {0}
           /\ MaxStay \in Nat /\ MaxStay < lockout /\ MaxFaults \in Nat /\ MaxWrong \in Nat
<1>1. IsFiniteSet(Handlers)
  BY DEF Limiter!LimiterSettings, Limiter!IsFiniteSet, IsFiniteSet
<1>2. N \in Nat \ {0}
  BY <1>1, FS_CardinalityType, FS_EmptySet DEF N, Limiter!LimiterSettings
<1> QED BY <1>1, <1>2 DEF Limiter!LimiterSettings

\* A lost command adds maxFailures, a deletion takes away what the counter may hold.
LEMMA SlackMoves ==
    ASSUME N \in Nat \ {0}, maxFailures \in Nat \ {0}, NEW d \in Nat, NEW f \in Nat
    PROVE  /\ Slack(d, f) \in Int
           /\ Slack(d, f + 1) = Slack(d, f) + maxFailures
           /\ Slack(d + 1, f) = Slack(d, f) - (maxFailures - 1)
           /\ d < N => Slack(d, f) >= 0
           /\ d <= N /\ f > 0 => Slack(d, f) >= 0
<1> DEFINE m == maxFailures - 1
<1>1. m \in Nat /\ maxFailures = m + 1
  OBVIOUS
<1> HIDE DEF m
<1>2. Slack(d, f) = m * (N - 1 - d) + (m + 1) * f
  BY <1>1 DEF Slack, m
<1>3. ASSUME d < N PROVE m * (N - 1 - d) >= 0
  BY <1>1, <1>3
<1>4. (m + 1) * f >= 0
  BY <1>1
<1>5. ASSUME d <= N, f > 0 PROVE (m + 1) * f >= m + 1 /\ m * (N - 1 - d) >= 0 - m
  BY <1>1, <1>5
<1> QED BY <1>1, <1>2, <1>3, <1>4, <1>5 DEF Slack

\* The types, and the counts within the number of attempts.
Counted == Limiter!TypeOK /\ fail.n <= tries /\ wrong <= tries

In(b) == IF b THEN 1 ELSE 0

\* A set that changes at one member grows or shrinks by it.
LEMMA OneMember ==
    ASSUME NEW H, IsFiniteSet(H), NEW S \in SUBSET H, NEW T \in SUBSET H, NEW h \in H,
           \A k \in H \ {h} : k \in S <=> k \in T
    PROVE  /\ Cardinality(S) \in Nat /\ Cardinality(T) \in Nat
           /\ Cardinality(T) = Cardinality(S) - In(h \in S) + In(h \in T)
<1>1. /\ IsFiniteSet(S) /\ IsFiniteSet(T) /\ Cardinality(S) \in Nat /\ Cardinality(T) \in Nat
  BY FS_Subset, FS_CardinalityType
<1>2. CASE h \in S /\ h \in T
  <2>1. S = T
    BY <1>2
  <2> QED BY <1>1, <1>2, <2>1 DEF In
<1>3. CASE h \notin S /\ h \notin T
  <2>1. S = T
    BY <1>3
  <2> QED BY <1>1, <1>3, <2>1 DEF In
<1>4. CASE h \in S /\ h \notin T
  <2>1. T = S \ {h}
    BY <1>4
  <2> QED BY <1>1, <1>4, <2>1, FS_RemoveElement DEF In
<1>5. CASE h \notin S /\ h \in T
  <2>1. T = S \union {h}
    BY <1>5
  <2> QED BY <1>1, <1>5, <2>1, FS_AddElement DEF In
<1> QED BY <1>2, <1>3, <1>4, <1>5

\* Disjoint sets add up.
LEMMA ApartCount ==
    ASSUME NEW S, NEW T, IsFiniteSet(S), IsFiniteSet(T), S \cap T = {}
    PROVE  /\ IsFiniteSet(S \cup T)
           /\ Cardinality(S \cup T) = Cardinality(S) + Cardinality(T)
<1>1. Cardinality(S \cap T) = 0
  BY FS_EmptySet
<1>2. /\ IsFiniteSet(S \cup T)
      /\ Cardinality(S \cup T) = Cardinality(S) + Cardinality(T) - Cardinality(S \cap T)
  BY FS_Union
<1>3. Cardinality(S) \in Nat /\ Cardinality(T) \in Nat
  BY FS_CardinalityType
<1> QED BY <1>1, <1>2, <1>3

\* Three disjoint sets of sign-ins are no more than all of them.
LEMMA ThreeApart ==
    ASSUME NEW H, IsFiniteSet(H), NEW A \in SUBSET H, NEW B \in SUBSET H, NEW C \in SUBSET H,
           A \cap B = {}, (A \cup B) \cap C = {}
    PROVE  /\ Cardinality(A) \in Nat /\ Cardinality(B) \in Nat /\ Cardinality(C) \in Nat
           /\ Cardinality(A) + Cardinality(B) + Cardinality(C) <= Cardinality(H)
<1>1. IsFiniteSet(A) /\ IsFiniteSet(B) /\ IsFiniteSet(C)
  BY FS_Subset
<1>2. Cardinality(A) \in Nat /\ Cardinality(B) \in Nat /\ Cardinality(C) \in Nat
  BY <1>1, FS_CardinalityType
<1>3. IsFiniteSet(A \cup B) /\ Cardinality(A \cup B) = Cardinality(A) + Cardinality(B)
  BY <1>1, ApartCount, Zenon
<1>4. Cardinality((A \cup B) \cup C) = Cardinality(A \cup B) + Cardinality(C)
  BY <1>1, <1>3, ApartCount, Zenon
<1>5. (A \cup B) \cup C \subseteq H
  OBVIOUS
<1>6. Cardinality((A \cup B) \cup C) <= Cardinality(H)
  BY <1>5, FS_Subset
<1> QED BY <1>2, <1>3, <1>4, <1>6

\* What the step of one sign-in does to the three sets.
LEMMA Moves ==
    ASSUME Limiter!LimiterSettings, Counted, NEW h \in Handlers, NEW to,
           Limiter!Goto(h, to),
           \A k \in Handlers \ {h} : count'[k] = count[k]
    PROVE  /\ at'[h] = to
           /\ Cardinality(Deleting') = Cardinality(Deleting) - In(at[h] = "del") + In(to = "del")
           /\ Cardinality(Over') = Cardinality(Over) - In(h \in Over) + In(h \in Over')
           /\ Cardinality(Verifying')
                = Cardinality(Verifying) - In(at[h] = "verify") + In(to = "verify")
<1>1. at' = [at EXCEPT ![h] = to] /\ DOMAIN at = Handlers
  BY DEF Limiter!Goto, Counted, Limiter!TypeOK
<1>2. at'[h] = to /\ \A k \in Handlers \ {h} : at'[k] = at[k]
  BY <1>1
<1>3. IsFiniteSet(Handlers)
  BY Settings
<1>4. Cardinality(Deleting') = Cardinality(Deleting) - In(h \in Deleting) + In(h \in Deleting')
  <2>1. \A k \in Handlers \ {h} : k \in Deleting <=> k \in Deleting'
    BY <1>2 DEF Deleting
  <2>2. Deleting \in SUBSET Handlers /\ Deleting' \in SUBSET Handlers
    BY DEF Deleting
  <2> QED BY <1>3, <2>1, <2>2, OneMember
<1>5. Cardinality(Over') = Cardinality(Over) - In(h \in Over) + In(h \in Over')
  <2>1. \A k \in Handlers \ {h} : k \in Over <=> k \in Over'
    BY <1>2 DEF Over, Limiter!Reached
  <2>2. Over \in SUBSET Handlers /\ Over' \in SUBSET Handlers
    BY DEF Over
  <2> QED BY <1>3, <2>1, <2>2, OneMember
<1>6. Cardinality(Verifying')
        = Cardinality(Verifying) - In(h \in Verifying) + In(h \in Verifying')
  <2>1. \A k \in Handlers \ {h} : k \in Verifying <=> k \in Verifying'
    BY <1>2 DEF Verifying
  <2>2. Verifying \in SUBSET Handlers /\ Verifying' \in SUBSET Handlers
    BY DEF Verifying
  <2> QED BY <1>3, <2>1, <2>2, OneMember
<1>7. /\ h \in Deleting <=> at[h] = "del"
      /\ h \in Deleting' <=> to = "del"
      /\ h \in Verifying <=> at[h] = "verify"
      /\ h \in Verifying' <=> to = "verify"
  BY <1>2 DEF Deleting, Verifying
<1> QED BY <1>2, <1>4, <1>5, <1>6, <1>7, Zenon DEF In

Commands == {"idle", "verify", "expire", "set", "del", "delFail", "delBlock"}

\* A move leads to a command, within the stay.
LEMMA GotoTyped ==
    ASSUME Limiter!LimiterSettings, Counted, NEW h \in Handlers, NEW to \in Commands,
           Limiter!Goto(h, to)
    PROVE  at' \in [Handlers -> Commands] /\ stay' \in [Handlers -> 0..MaxStay]
<1>1. 0 \in 0..MaxStay
  BY Settings
<1> QED BY <1>1 DEF Limiter!Goto, Counted, Limiter!TypeOK, Commands

\* A step keeps the types and the counts.
LEMMA CountedStep ==
    ASSUME Limiter!LimiterSettings, Counted, [Limiter!Next]_(Limiter!vars)
    PROVE  Counted'
<1>0. /\ fail.n \in Nat /\ fail.ttl \in {-1} \union 1..failureWindow /\ fail = [n |-> fail.n, ttl |-> fail.ttl]
      /\ fail.n <= MaxWrong
      /\ block \in 0..lockout /\ tries \in 0..MaxWrong /\ wrong \in 0..MaxWrong
      /\ lost \in 0..MaxFaults /\ oldest \in 0..failureWindow + 1
      /\ at \in [Handlers -> Commands] /\ count \in [Handlers -> 0..MaxWrong]
      /\ stay \in [Handlers -> 0..MaxStay]
      /\ fail.n <= tries /\ wrong <= tries
  BY DEF Counted, Limiter!TypeOK, Limiter!Forever, Commands
<1>s. /\ lockout \in Nat \ {0} /\ failureWindow \in Nat \ {0} /\ MaxStay \in Nat
      /\ MaxFaults \in Nat /\ MaxWrong \in Nat
  BY Settings
<1>l. Limiter!Lost \/ Limiter!Done => lost' \in 0..MaxFaults
  BY <1>0, <1>s DEF Limiter!Lost, Limiter!Done
\* It suffices to find each variable in its type.
<1>t. ASSUME NEW c \in 0..MaxWrong, NEW t \in {-1} \union 1..failureWindow, fail' = [n |-> c, ttl |-> t],
             block' \in 0..lockout, at' \in [Handlers -> Commands], count' \in [Handlers -> 0..MaxWrong],
             stay' \in [Handlers -> 0..MaxStay], lost' \in 0..MaxFaults,
             tries' \in 0..MaxWrong, wrong' \in 0..MaxWrong, c <= tries', wrong' <= tries',
             oldest' \in 0..failureWindow + 1
      PROVE  Counted'
  BY <1>t DEF Counted, Limiter!TypeOK, Limiter!Forever, Commands
<1>n. Limiter!NoKey = [n |-> 0, ttl |-> -1]
  BY DEF Limiter!NoKey, Limiter!Forever
<1>1. ASSUME NEW h \in Handlers, Limiter!IsLocked(h) PROVE Counted'
  <2>1. lost' \in 0..MaxFaults
    BY <1>1, <1>l DEF Limiter!IsLocked
  <2>2. at' \in [Handlers -> Commands] /\ stay' \in [Handlers -> 0..MaxStay]
    BY <1>1, GotoTyped DEF Limiter!IsLocked, Commands
  <2> QED BY <1>0, <1>1, <1>t, <2>1, <2>2 DEF Limiter!IsLocked
<1>2. ASSUME NEW h \in Handlers, Limiter!RecordFailure(h) PROVE Counted'
  <2>1. lost' \in 0..MaxFaults
    BY <1>2, <1>l DEF Limiter!RecordFailure
  <2>2. tries' \in 0..MaxWrong /\ wrong' \in 0..MaxWrong /\ wrong' <= tries' /\ tries' = tries + 1
        /\ block' \in 0..lockout
    BY <1>0, <1>2, <1>s DEF Limiter!RecordFailure
  <2>3. CASE /\ fail' = [fail EXCEPT !.n = @ + 1]
             /\ count' = [count EXCEPT ![h] = fail.n + 1]
             /\ oldest' = IF fail.n = 0 THEN 0 ELSE oldest
             /\ Limiter!Goto(h, IF Limiter!StartsWindow(fail.n + 1) THEN "expire"
                                ELSE Limiter!AfterExpire(fail.n + 1))
    <3>1. fail' = [n |-> fail.n + 1, ttl |-> fail.ttl] /\ fail.n + 1 \in 0..MaxWrong /\ fail.n + 1 <= tries'
      BY <1>0, <1>s, <2>2, <2>3
    <3>2. count' \in [Handlers -> 0..MaxWrong]
      BY <1>0, <2>3, <3>1
    <3>3. at' \in [Handlers -> Commands] /\ stay' \in [Handlers -> 0..MaxStay]
      BY <2>3, GotoTyped DEF Commands, Limiter!AfterExpire
    <3>4. oldest' \in 0..failureWindow + 1
      BY <1>0, <1>s, <2>3
    <3> QED BY <1>0, <1>t, <2>1, <2>2, <3>1, <3>2, <3>3, <3>4
  <2>4. CASE Limiter!Goto(h, "idle") /\ UNCHANGED <<fail, count, oldest>>
    <3>1. at' \in [Handlers -> Commands] /\ stay' \in [Handlers -> 0..MaxStay]
      BY <2>4, GotoTyped DEF Commands
    <3>2. fail' = [n |-> fail.n, ttl |-> fail.ttl] /\ fail.n \in 0..MaxWrong /\ fail.n <= tries'
      BY <1>0, <1>s, <2>2, <2>4
    <3> QED BY <1>0, <1>t, <2>1, <2>2, <2>4, <3>1, <3>2
  <2> QED BY <1>2, <2>3, <2>4 DEF Limiter!RecordFailure
<1>3. ASSUME NEW h \in Handlers, Limiter!Expire(h) PROVE Counted'
  <2>1. lost' \in 0..MaxFaults
    BY <1>3, <1>l DEF Limiter!Expire
  <2>2. at' \in [Handlers -> Commands] /\ stay' \in [Handlers -> 0..MaxStay]
    BY <1>3, GotoTyped DEF Limiter!Expire, Commands, Limiter!AfterExpire
  <2>3. PICK t \in {-1} \union 1..failureWindow : fail' = [n |-> fail.n, ttl |-> t]
    BY <1>0, <1>3, <1>s DEF Limiter!Expire
  <2> QED BY <1>0, <1>3, <1>t, <2>1, <2>2, <2>3 DEF Limiter!Expire
<1>4. ASSUME NEW h \in Handlers, Limiter!SetBlock(h) PROVE Counted'
  <2>1. lost' \in 0..MaxFaults
    BY <1>4, <1>l DEF Limiter!SetBlock
  <2>2. at' \in [Handlers -> Commands] /\ stay' \in [Handlers -> 0..MaxStay]
    BY <1>4, GotoTyped DEF Limiter!SetBlock, Commands
  <2>3. block' \in 0..lockout
    BY <1>0, <1>4, <1>s DEF Limiter!SetBlock
  <2> QED BY <1>0, <1>4, <1>t, <2>1, <2>2, <2>3 DEF Limiter!SetBlock
<1>5. ASSUME NEW h \in Handlers, Limiter!DelFail(h) PROVE Counted'
  <2>1. lost' \in 0..MaxFaults
    BY <1>5, <1>l DEF Limiter!DelFail
  <2>2. at' \in [Handlers -> Commands] /\ stay' \in [Handlers -> 0..MaxStay]
    BY <1>5, GotoTyped DEF Limiter!DelFail, Commands
  <2>3. fail' = [n |-> 0, ttl |-> -1] \/ fail' = [n |-> fail.n, ttl |-> fail.ttl]
    BY <1>0, <1>5, <1>n DEF Limiter!DelFail
  <2> QED BY <1>0, <1>s, <1>5, <1>t, <2>1, <2>2, <2>3 DEF Limiter!DelFail
<1>6. ASSUME NEW h \in Handlers, Limiter!Reset(h) PROVE Counted'
  <2>1. lost' \in 0..MaxFaults
    BY <1>6, <1>l DEF Limiter!Reset
  <2>2. at' \in [Handlers -> Commands] /\ stay' \in [Handlers -> 0..MaxStay]
    <3>1. PICK to \in Commands : Limiter!Goto(h, to)
      BY <1>6, Zenon DEF Limiter!Reset, Commands
    <3> QED BY <3>1, GotoTyped
  <2>3. fail' = [n |-> 0, ttl |-> -1] \/ fail' = [n |-> fail.n, ttl |-> fail.ttl]
    BY <1>0, <1>6, <1>n DEF Limiter!Reset
  <2>4. block' \in 0..lockout /\ wrong' \in {0, wrong} /\ UNCHANGED <<count, tries, oldest>>
    BY <1>0, <1>6, <1>s DEF Limiter!Reset
  <2> QED BY <1>0, <1>s, <1>t, <2>1, <2>2, <2>3, <2>4
<1>7. ASSUME NEW h \in Handlers, Limiter!BreakOff(h) PROVE Counted'
  <2>1. lost' \in 0..MaxFaults
    BY <1>7, <1>l DEF Limiter!BreakOff
  <2>2. at' \in [Handlers -> Commands] /\ stay' \in [Handlers -> 0..MaxStay]
    BY <1>7, GotoTyped DEF Limiter!BreakOff, Commands
  <2> QED BY <1>0, <1>7, <1>t, <2>1, <2>2 DEF Limiter!BreakOff
<1>8. CASE Limiter!Tick
  <2>1. PICK c \in {0, fail.n}, t \in {-1} \union 1..failureWindow : fail' = [n |-> c, ttl |-> t]
    <3>1. CASE fail.ttl = 1
      BY <1>8, <1>n, <3>1, Zenon DEF Limiter!Tick
    <3>2. CASE fail.ttl > 1
      <4>1. fail' = [n |-> fail.n, ttl |-> fail.ttl - 1]
        BY <1>0, <1>8, <3>2 DEF Limiter!Tick
      <4>2. fail.ttl - 1 \in 1..failureWindow
        BY <1>0, <1>s, <3>2
      <4> QED BY <4>1, <4>2
    <3>3. CASE ~(fail.ttl = 1) /\ ~(fail.ttl > 1)
      <4>1. fail' = fail
        BY <1>8, <3>3 DEF Limiter!Tick
      <4> QED BY <1>0, <4>1
    <3> QED BY <3>1, <3>2, <3>3
  <2>2. stay' \in [Handlers -> 0..MaxStay]
    BY <1>0, <1>8, <1>s DEF Limiter!Tick
  <2>3. block' \in 0..lockout /\ wrong' \in {0, wrong} /\ oldest' \in 0..failureWindow + 1
    BY <1>0, <1>8, <1>s DEF Limiter!Tick, Limiter!Least
  <2>4. UNCHANGED <<at, count, lost, tries>>
    BY <1>8 DEF Limiter!Tick
  <2> QED BY <1>0, <1>s, <1>t, <2>1, <2>2, <2>3, <2>4
<1>9. CASE UNCHANGED Limiter!vars
  BY <1>9 DEF Limiter!vars, Counted, Limiter!TypeOK
<1> QED BY <1>1, <1>2, <1>3, <1>4, <1>5, <1>6, <1>7, <1>8, <1>9 DEF Limiter!Next

----------------------------------------------------------------------------
\* While the address is free, a failure is in the counter, or belongs to a sign-in about to set
\* the lockout, or went with a deletion or a lost command.
Free ==
    block = 0 =>
        /\ Cardinality(Deleting) < N \/ lost > 0
        /\ wrong <= Limiter!Least(fail.n, maxFailures - 1) + Cardinality(Over)
                      + Slack(Cardinality(Deleting), lost)

\* While it is locked, only those past IsLocked can fail, once each.
Locked == block > 0 => wrong + Cardinality(Verifying) <= maxFailures * (N + lost)

\* Unless a command was lost, everyone in flight arrived before the lockout was set.
Arrived ==
    block > 0 /\ lost = 0 => \A h \in Handlers : at[h] # "idle" => lockout - block <= stay[h]

\* The accounts of a free address are within the bound, those past IsLocked included.
LEMMA Bounds ==
    ASSUME N \in Nat \ {0}, maxFailures \in Nat \ {0}, NEW d \in Nat, NEW o \in Nat, NEW v \in Nat,
           NEW f \in Nat, NEW w \in Nat, d + o + v <= N
    PROVE  /\ v <= maxFailures * (N + f)
           /\ maxFailures * (N + f) \in Nat
           /\ w <= (maxFailures - 1) + o + Slack(d, f) => w + v <= maxFailures * (N + f)
<1> DEFINE m == maxFailures - 1
<1>1. m \in Nat /\ maxFailures = m + 1
  OBVIOUS
<1> HIDE DEF m
<1>2. Slack(d, f) = m * (N - 1 - d) + (m + 1) * f
  BY <1>1 DEF Slack, m
<1>3. m * (N - 1 - d) = m * N - m - m * d /\ m * d >= 0 /\ m * N >= 0 /\ m * f >= 0
  BY <1>1
<1>4. (m + 1) * f = m * f + f /\ maxFailures * (N + f) = m * N + N + m * f + f
  BY <1>1
<1>5. maxFailures * (N + f) \in Nat /\ m * N \in Nat /\ m * f \in Nat /\ m * d \in Nat
  BY <1>1
<1> QED BY <1>1, <1>2, <1>3, <1>4, <1>5

\* What the counter contributes.
LEMMA LeastBounds ==
    ASSUME maxFailures \in Nat \ {0}, NEW c \in Nat
    PROVE  /\ Limiter!Least(c, maxFailures - 1) \in 0..maxFailures - 1
           /\ Limiter!Least(0, maxFailures - 1) = 0
           /\ c + 1 < maxFailures
                => Limiter!Least(c + 1, maxFailures - 1) = Limiter!Least(c, maxFailures - 1) + 1
           /\ Limiter!Least(c + 1, maxFailures - 1) >= Limiter!Least(c, maxFailures - 1)
BY DEF Limiter!Least

\* The bound grows by maxFailures with a lost command.
LEMMA AllMoves ==
    ASSUME N \in Nat \ {0}, maxFailures \in Nat \ {0}, NEW f \in Nat
    PROVE  maxFailures * (N + (f + 1)) = maxFailures * (N + f) + maxFailures
OBVIOUS

\* A step leaves the failures accounted for.
LEMMA BudgetStep ==
    ASSUME Limiter!LimiterSettings, Counted, Counted', Free, Locked, Arrived,
           [Limiter!Next]_(Limiter!vars)
    PROVE  Free' /\ Locked'
<1>s. /\ N \in Nat \ {0} /\ maxFailures \in Nat \ {0} /\ lockout \in Nat \ {0} /\ MaxStay < lockout
      /\ MaxStay \in Nat /\ IsFiniteSet(Handlers)
  BY Settings
<1>0. /\ fail.n \in Nat /\ block \in Nat /\ lost \in Nat /\ wrong \in Nat
      /\ fail'.n \in Nat /\ block' \in Nat /\ lost' \in Nat /\ wrong' \in Nat
      /\ stay \in [Handlers -> Nat]
  <2>1. ASSUME Counted PROVE fail.n \in Nat /\ block \in Nat /\ lost \in Nat /\ wrong \in Nat
    BY <1>s, <2>1, Settings DEF Counted, Limiter!TypeOK
  <2>2. ASSUME Counted' PROVE (fail.n \in Nat /\ block \in Nat /\ lost \in Nat /\ wrong \in Nat)'
    BY <1>s, <2>2, Settings DEF Counted, Limiter!TypeOK
  <2>3. stay \in [Handlers -> Nat]
    BY <1>s DEF Counted, Limiter!TypeOK
  <2> QED BY <2>1, <2>2, <2>3
\* The sizes of the sets before and after the step.
<1>d. PICK d \in Nat, o \in Nat, v \in Nat :
        /\ Cardinality(Deleting) = d /\ Cardinality(Over) = o /\ Cardinality(Verifying) = v
        /\ d + o + v <= N
  <2>1. /\ Deleting \in SUBSET Handlers /\ Over \in SUBSET Handlers /\ Verifying \in SUBSET Handlers
        /\ Deleting \cap Over = {} /\ (Deleting \cup Over) \cap Verifying = {}
    BY DEF Deleting, Over, Verifying
  <2> QED BY <1>s, <2>1, ThreeApart, Zenon DEF N
<1>e. PICK dd \in Nat, oo \in Nat, vv \in Nat :
        /\ Cardinality(Deleting') = dd /\ Cardinality(Over') = oo /\ Cardinality(Verifying') = vv
        /\ dd + oo + vv <= N
  <2>1. /\ Deleting' \in SUBSET Handlers /\ Over' \in SUBSET Handlers /\ Verifying' \in SUBSET Handlers
        /\ Deleting' \cap Over' = {} /\ (Deleting' \cup Over') \cap Verifying' = {}
    BY DEF Deleting, Over, Verifying
  <2> QED BY <1>s, <2>1, ThreeApart, Zenon DEF N
<1>c. PICK c \in 0..maxFailures - 1, cc \in 0..maxFailures - 1 :
        /\ c = Limiter!Least(fail.n, maxFailures - 1) /\ cc = Limiter!Least(fail'.n, maxFailures - 1)
        /\ fail'.n = 0 => cc = 0
        /\ fail'.n = fail.n => cc = c
        /\ fail'.n = fail.n + 1 => cc >= c
        /\ fail'.n = fail.n + 1 /\ fail.n + 1 < maxFailures => cc = c + 1
  <2>1. /\ Limiter!Least(fail.n, maxFailures - 1) \in 0..maxFailures - 1
        /\ Limiter!Least(fail'.n, maxFailures - 1) \in 0..maxFailures - 1
    BY <1>s, <1>0, LeastBounds, Zenon
  <2>2. /\ Limiter!Least(0, maxFailures - 1) = 0
        /\ fail.n + 1 < maxFailures => Limiter!Least(fail.n + 1, maxFailures - 1)
                                         = Limiter!Least(fail.n, maxFailures - 1) + 1
        /\ Limiter!Least(fail.n + 1, maxFailures - 1) >= Limiter!Least(fail.n, maxFailures - 1)
    BY <1>s, <1>0, LeastBounds, Zenon
  <2> QED BY <2>1, <2>2, Zenon
<1>p. PICK s \in Int, ss \in Int, all \in Nat, alls \in Nat :
        /\ s = Slack(d, lost) /\ ss = Slack(dd, lost')
        /\ all = maxFailures * (N + lost) /\ alls = maxFailures * (N + lost')
        /\ d < N \/ lost > 0 => s >= 0
        /\ dd < N \/ lost' > 0 => ss >= 0
        /\ vv <= alls
        /\ wrong <= (maxFailures - 1) + o + s => wrong + v <= all
        /\ lost' = lost => alls = all
        /\ lost' = lost + 1 => alls = all + maxFailures
        /\ lost' = lost /\ dd = d => ss = s
        /\ lost' = lost /\ dd + 1 = d => ss = s + (maxFailures - 1)
        /\ lost' = lost + 1 /\ dd = d => ss = s + maxFailures
        /\ lost' = lost + 1 /\ dd = d + 1 => ss = s + 1
        /\ lost' = lost + 1 /\ dd + 1 = d => ss = s + (maxFailures - 1) + maxFailures
  <2>1. /\ Slack(d, lost) \in Int /\ Slack(dd, lost') \in Int
        /\ d < N => Slack(d, lost) >= 0
        /\ d <= N /\ lost > 0 => Slack(d, lost) >= 0
        /\ dd < N => Slack(dd, lost') >= 0
        /\ dd <= N /\ lost' > 0 => Slack(dd, lost') >= 0
    BY <1>s, <1>0, SlackMoves, Zenon
  <2>2. /\ maxFailures * (N + lost) \in Nat
        /\ wrong <= (maxFailures - 1) + o + Slack(d, lost) => wrong + v <= maxFailures * (N + lost)
        /\ maxFailures * (N + (lost + 1)) = maxFailures * (N + lost) + maxFailures
    <3>1. d + o + v <= N
      BY <1>d
    <3>2. maxFailures * (N + lost) \in Nat
      BY <1>s, <1>0, <3>1, Bounds, Zenon
    <3>3. wrong <= (maxFailures - 1) + o + Slack(d, lost) => wrong + v <= maxFailures * (N + lost)
      BY <1>s, <1>0, <3>1, Bounds, Zenon
    <3>4. maxFailures * (N + (lost + 1)) = maxFailures * (N + lost) + maxFailures
      BY <1>s, <1>0, AllMoves, Zenon
    <3> QED BY <3>2, <3>3, <3>4
  <2>8. maxFailures * (N + lost') \in Nat /\ vv <= maxFailures * (N + lost')
    BY <1>s, <1>0, <1>e, Bounds, Zenon
  <2>3. d <= N /\ dd <= N
    BY <1>s, <1>d, <1>e
  <2>4. Slack(d, lost + 1) = Slack(d, lost) + maxFailures
    BY <1>s, <1>0, SlackMoves, Zenon
  <2>5. Slack(d + 1, lost + 1) = Slack(d, lost + 1) - (maxFailures - 1)
    <3>1. lost + 1 \in Nat
      BY <1>0
    <3> QED BY <1>s, <3>1, SlackMoves, Zenon
  <2>6. /\ Slack(dd + 1, lost) = Slack(dd, lost) - (maxFailures - 1)
        /\ Slack(dd, lost + 1) = Slack(dd, lost) + maxFailures
        /\ Slack(dd, lost) \in Int
    BY <1>s, <1>0, SlackMoves, Zenon
  <2>7. /\ lost' = lost /\ dd + 1 = d => Slack(dd, lost') = Slack(d, lost) + (maxFailures - 1)
        /\ lost' = lost + 1 /\ dd = d => Slack(dd, lost') = Slack(d, lost) + maxFailures
        /\ lost' = lost + 1 /\ dd = d + 1 => Slack(dd, lost') = Slack(d, lost) + 1
        /\ lost' = lost + 1 /\ dd + 1 = d
             => Slack(dd, lost') = Slack(d, lost) + (maxFailures - 1) + maxFailures
    BY <1>s, <1>0, <2>1, <2>4, <2>5, <2>6
  <2> QED BY <2>1, <2>2, <2>3, <2>7, <2>8, Zenon
\* The same without the products, which the solver has no need of.
<1>q. /\ d < N \/ lost > 0 => s >= 0
      /\ dd < N \/ lost' > 0 => ss >= 0
      /\ vv <= alls
      /\ wrong <= (maxFailures - 1) + o + s => wrong + v <= all
      /\ lost' = lost => alls = all
      /\ lost' = lost + 1 => alls = all + maxFailures
      /\ lost' = lost /\ dd = d => ss = s
      /\ lost' = lost /\ dd + 1 = d => ss = s + (maxFailures - 1)
      /\ lost' = lost + 1 /\ dd = d => ss = s + maxFailures
      /\ lost' = lost + 1 /\ dd = d + 1 => ss = s + 1
      /\ lost' = lost + 1 /\ dd + 1 = d => ss = s + (maxFailures - 1) + maxFailures
  BY <1>p
<1>f. /\ block = 0 => (d < N \/ lost > 0) /\ wrong <= c + o + s
      /\ block > 0 => wrong + v <= all
  BY <1>c, <1>d, <1>p, Zenon DEF Free, Locked
<1>g. ASSUME block' = 0 => (dd < N \/ lost' > 0) /\ wrong' <= cc + oo + ss,
             block' > 0 => wrong' + vv <= alls
      PROVE  Free' /\ Locked'
  BY <1>c, <1>e, <1>g, <1>p, Zenon DEF Free, Locked, N
\* Either way the bound holds in the old state.
<1>b. wrong + v <= all
  BY <1>s, <1>0, <1>f, <1>q
\* When the limiter lets go both hold, as long as someone is not about to delete.
<1>w. ASSUME wrong' = 0, dd < N \/ lost' > 0 \/ block' > 0 PROVE Free' /\ Locked'
  <2>1. block' = 0 => (dd < N \/ lost' > 0) /\ wrong' <= cc + oo + ss
    BY <1>s, <1>0, <1>c, <1>q, <1>w
  <2>2. wrong' + vv <= alls
    BY <1>0, <1>q, <1>w
  <2> QED BY <1>g, <2>1, <2>2, Zenon
\* A move of one sign-in.
<1>m. ASSUME NEW h \in Handlers, NEW to, Limiter!Goto(h, to),
             \A k \in Handlers \ {h} : count'[k] = count[k]
      PROVE  /\ dd = d - In(at[h] = "del") + In(to = "del")
             /\ vv = v - In(at[h] = "verify") + In(to = "verify")
             /\ oo = o - In(h \in Over) + In(h \in Over')
  BY <1>d, <1>e, <1>m, Moves, Zenon
<1>o. ASSUME NEW h \in Handlers, NEW to, Limiter!Goto(h, to)
      PROVE  /\ h \in Over <=> at[h] = "set" \/ (at[h] = "expire" /\ count[h] >= maxFailures)
             /\ h \in Over' <=> to = "set" \/ (to = "expire" /\ count'[h] >= maxFailures)
  BY <1>o DEF Limiter!Goto, Over, Limiter!Reached, Counted, Limiter!TypeOK
<1>1. ASSUME NEW h \in Handlers, Limiter!IsLocked(h) PROVE Free' /\ Locked'
  <2>1. dd = d /\ vv = v + 1 /\ oo = o
    BY <1>1, <1>m, <1>o DEF Limiter!IsLocked, In
  <2>2. UNCHANGED <<wrong, fail, block>> /\ ((block = 0 /\ lost' = lost) \/ (block > 0 /\ lost' = lost + 1))
    BY <1>1, Zenon DEF Limiter!IsLocked, Limiter!Done, Limiter!Lost
  <2>3. block' = 0 => (dd < N \/ lost' > 0) /\ wrong' <= cc + oo + ss
    BY <1>s, <1>0, <1>c, <1>f, <1>q, <2>1, <2>2, SMTT(30)
  <2>4. block' > 0 => wrong' + vv <= alls
    BY <1>s, <1>0, <1>b, <1>q, <2>1, <2>2
  <2> QED BY <1>g, <2>3, <2>4, Zenon
<1>2. ASSUME NEW h \in Handlers, Limiter!RecordFailure(h) PROVE Free' /\ Locked'
  <2>0. at[h] = "verify" /\ wrong' = wrong + 1 /\ block' = block
    BY <1>2 DEF Limiter!RecordFailure
  <2>1. CASE /\ lost' = lost
             /\ fail' = [fail EXCEPT !.n = @ + 1]
             /\ count' = [count EXCEPT ![h] = fail.n + 1]
             /\ Limiter!Goto(h, IF Limiter!StartsWindow(fail.n + 1) THEN "expire"
                                ELSE Limiter!AfterExpire(fail.n + 1))
    <3> DEFINE to == IF Limiter!StartsWindow(fail.n + 1) THEN "expire"
                     ELSE Limiter!AfterExpire(fail.n + 1)
    <3>1. /\ \A k \in Handlers \ {h} : count'[k] = count[k]
          /\ count'[h] = fail.n + 1 /\ fail'.n = fail.n + 1
      BY <2>1 DEF Counted, Limiter!TypeOK
    <3>2. /\ to \in {"expire", "set", "idle"}
          /\ fail.n + 1 >= maxFailures => to \in {"expire", "set"}
      BY DEF Limiter!AfterExpire, Limiter!Reached
    <3>3. /\ dd = d /\ vv + 1 = v
          /\ oo = o - In(h \in Over) + In(h \in Over')
      BY <2>0, <2>1, <3>1, <3>2, <1>m, <1>d, <1>e, SMTT(30) DEF In
    <3>4. h \notin Over /\ (fail.n + 1 >= maxFailures => h \in Over')
      BY <1>0, <1>s, <2>0, <2>1, <3>1, <3>2, <1>o
    <3>5. oo >= o /\ (fail.n + 1 >= maxFailures => oo = o + 1)
      BY <3>3, <3>4 DEF In
    <3>6. block' = 0 => (dd < N \/ lost' > 0) /\ wrong' <= cc + oo + ss
      BY <1>s, <1>0, <1>c, <1>f, <1>q, <2>0, <2>1, <3>1, <3>3, <3>5, SMTT(30)
    <3>7. block' > 0 => wrong' + vv <= alls
      BY <1>s, <1>0, <1>b, <1>q, <2>0, <2>1, <3>3, SMTT(30)
    <3> QED BY <1>g, <3>6, <3>7, Zenon
  <2>2. CASE lost' = lost + 1 /\ Limiter!Goto(h, "idle") /\ UNCHANGED <<fail, count>>
    <3>1. dd = d /\ vv + 1 = v /\ oo = o
      BY <1>d, <1>e, <1>m, <1>o, <2>0, <2>2, SMTT(30) DEF In
    <3>2. block' = 0 => (dd < N \/ lost' > 0) /\ wrong' <= cc + oo + ss
      BY <1>s, <1>0, <1>c, <1>f, <1>q, <2>0, <2>2, <3>1, SMTT(30)
    <3>3. block' > 0 => wrong' + vv <= alls
      BY <1>s, <1>0, <1>b, <1>q, <2>0, <2>2, <3>1, SMTT(30)
    <3> QED BY <1>g, <3>2, <3>3, Zenon
  <2> QED BY <1>2, <2>1, <2>2, Zenon DEF Limiter!RecordFailure, Limiter!Done, Limiter!Lost
<1>3. ASSUME NEW h \in Handlers, Limiter!Expire(h) PROVE Free' /\ Locked'
  <2>1. /\ at[h] = "expire" /\ UNCHANGED <<block, count, wrong>>
        /\ Limiter!Goto(h, Limiter!AfterExpire(count[h])) /\ lost' \in {lost, lost + 1}
    BY <1>3, Zenon DEF Limiter!Expire, Limiter!Done, Limiter!Lost
  <2>2. fail'.n = fail.n
    BY <1>3 DEF Limiter!Expire, Counted, Limiter!TypeOK
  <2>3. /\ Limiter!AfterExpire(count[h]) \in {"set", "idle"}
        /\ Limiter!AfterExpire(count[h]) = "set" <=> count[h] >= maxFailures
    BY DEF Limiter!AfterExpire, Limiter!Reached
  <2>4. dd = d /\ vv = v /\ oo = o
    BY <1>m, <1>o, <2>1, <2>3 DEF In
  <2>5. block' = 0 => (dd < N \/ lost' > 0) /\ wrong' <= cc + oo + ss
    BY <1>s, <1>0, <1>c, <1>f, <1>q, <2>1, <2>2, <2>4, SMTT(30)
  <2>6. block' > 0 => wrong' + vv <= alls
    BY <1>s, <1>0, <1>b, <1>q, <2>1, <2>4, SMTT(30)
  <2> QED BY <1>g, <2>5, <2>6, Zenon
<1>4. ASSUME NEW h \in Handlers, Limiter!SetBlock(h) PROVE Free' /\ Locked'
  <2>1. /\ at[h] = "set" /\ UNCHANGED <<fail, count, wrong>> /\ Limiter!Goto(h, "del")
        /\ (lost' = lost /\ block' = lockout) \/ (lost' = lost + 1 /\ block' = block)
    BY <1>4, Zenon DEF Limiter!SetBlock, Limiter!Done, Limiter!Lost
  <2>2. dd = d + 1 /\ vv = v /\ oo + 1 = o
    BY <1>d, <1>e, <1>m, <1>o, <2>1 DEF In
  <2>3. block' = 0 => (dd < N \/ lost' > 0) /\ wrong' <= cc + oo + ss
    BY <1>s, <1>0, <1>c, <1>f, <1>q, <2>1, <2>2
  <2>4. block' > 0 => wrong' + vv <= alls
    BY <1>s, <1>0, <1>b, <1>q, <2>1, <2>2
  <2> QED BY <1>g, <2>3, <2>4, Zenon
<1>5. ASSUME NEW h \in Handlers, Limiter!DelFail(h) PROVE Free' /\ Locked'
  <2>1. /\ at[h] = "del" /\ UNCHANGED <<block, count, wrong>> /\ Limiter!Goto(h, "idle")
        /\ (lost' = lost /\ fail' = Limiter!NoKey) \/ (lost' = lost + 1 /\ fail' = fail)
    BY <1>5, Zenon DEF Limiter!DelFail, Limiter!Done, Limiter!Lost
  <2>2. fail'.n = 0 \/ (lost' = lost + 1 /\ fail'.n = fail.n)
    <3>1. Limiter!NoKey.n = 0
      BY DEF Limiter!NoKey
    <3> QED BY <2>1, <3>1, Zenon
  <2>3. dd + 1 = d /\ vv = v /\ oo = o
    BY <1>d, <1>e, <1>m, <1>o, <2>1, SMTT(30) DEF In
  <2>4. block' = 0 => (dd < N \/ lost' > 0) /\ wrong' <= cc + oo + ss
    BY <1>s, <1>0, <1>c, <1>d, <1>f, <1>q, <2>1, <2>2, <2>3, SMTT(30)
  <2>5. block' > 0 => wrong' + vv <= alls
    BY <1>s, <1>0, <1>b, <1>q, <2>1, <2>3
  <2> QED BY <1>g, <2>4, <2>5, Zenon
<1>6. ASSUME NEW h \in Handlers, Limiter!Reset(h) PROVE Free' /\ Locked'
  <2>1. CASE /\ at[h] = "verify" /\ Limiter!Goto(h, "delFail") /\ lost' = lost
             /\ UNCHANGED <<fail, block, wrong, count>>
    <3>1. dd = d /\ vv + 1 = v /\ oo = o
      BY <1>d, <1>e, <1>m, <1>o, <2>1 DEF In
    <3>2. block' = 0 => (dd < N \/ lost' > 0) /\ wrong' <= cc + oo + ss
      BY <1>s, <1>0, <1>c, <1>f, <1>q, <2>1, <3>1
    <3>3. block' > 0 => wrong' + vv <= alls
      BY <1>s, <1>0, <1>b, <1>q, <2>1, <3>1
    <3> QED BY <1>g, <3>2, <3>3, Zenon
  <2>2. CASE /\ at[h] = "delFail" /\ Limiter!Goto(h, "delBlock") /\ UNCHANGED <<block, count>>
             /\ (lost' = lost /\ wrong' = 0)
                  \/ (lost' = lost + 1 /\ UNCHANGED <<fail, wrong>>)
    <3>1. dd = d /\ vv = v /\ oo = o
      BY <1>d, <1>e, <1>m, <1>o, <2>2 DEF In
    <3>2. CASE lost' = lost /\ wrong' = 0
      <4>1. dd < N \/ lost' > 0 \/ block' > 0
        BY <1>0, <1>f, <2>2, <3>1, <3>2, SMTT(30)
      <4> QED BY <1>w, <3>2, <4>1, Zenon
    <3>3. CASE lost' = lost + 1 /\ UNCHANGED <<fail, wrong>>
      <4>1. block' = 0 => (dd < N \/ lost' > 0) /\ wrong' <= cc + oo + ss
        BY <1>s, <1>0, <1>c, <1>f, <1>q, <2>2, <3>1, <3>3, SMTT(30)
      <4>2. block' > 0 => wrong' + vv <= alls
        BY <1>s, <1>0, <1>b, <1>q, <2>2, <3>1, <3>3, SMTT(30)
      <4> QED BY <1>g, <4>1, <4>2, Zenon
    <3> QED BY <2>2, <3>2, <3>3
  <2>3. CASE /\ at[h] = "delBlock" /\ Limiter!Goto(h, "idle") /\ UNCHANGED <<fail, count>>
             /\ (lost' = lost /\ wrong' = 0)
                  \/ (lost' = lost + 1 /\ UNCHANGED <<block, wrong>>)
    <3>1. dd = d /\ vv = v /\ oo = o
      BY <1>d, <1>e, <1>m, <1>o, <2>3 DEF In
    <3>2. CASE lost' = lost /\ wrong' = 0
      <4>1. Deleting' \subseteq Handlers \ {h}
        BY <2>3 DEF Deleting, Limiter!Goto, Counted, Limiter!TypeOK
      <4>2. IsFiniteSet(Handlers \ {h}) /\ Cardinality(Handlers \ {h}) = N - 1
        BY <1>s, FS_RemoveElement DEF N
      <4>3. dd <= N - 1
        BY <1>e, <4>1, <4>2, FS_Subset
      <4>4. dd < N
        BY <1>s, <4>3, SMTT(30)
      <4> QED BY <1>w, <3>2, <4>4, Zenon
    <3>3. CASE lost' = lost + 1 /\ UNCHANGED <<block, wrong>>
      <4>1. block' = 0 => (dd < N \/ lost' > 0) /\ wrong' <= cc + oo + ss
        BY <1>s, <1>0, <1>c, <1>f, <1>q, <2>3, <3>1, <3>3, SMTT(30)
      <4>2. block' > 0 => wrong' + vv <= alls
        BY <1>s, <1>0, <1>b, <1>q, <2>3, <3>1, <3>3, SMTT(30)
      <4> QED BY <1>g, <4>1, <4>2, Zenon
    <3> QED BY <2>3, <3>2, <3>3, SMTT(30)
  <2> QED BY <1>6, <2>1, <2>2, <2>3, Zenon DEF Limiter!Reset, Limiter!Done, Limiter!Lost
<1>7. ASSUME NEW h \in Handlers, Limiter!BreakOff(h) PROVE Free' /\ Locked'
  <2>1. fail' = fail /\ block' = block /\ count' = count /\ wrong' = wrong /\ lost' = lost + 1
        /\ Limiter!Goto(h, "idle")
    BY <1>7, Zenon DEF Limiter!BreakOff, Limiter!Lost
  <2>2. /\ dd = d \/ dd + 1 = d
        /\ vv <= v
        /\ oo = o \/ oo + 1 = o
        /\ dd + 1 = d => oo = o
    BY <1>d, <1>e, <1>m, <1>o, <2>1, SMTT(30) DEF In
  <2>3. block' = 0 => (dd < N \/ lost' > 0) /\ wrong' <= cc + oo + ss
    BY <1>s, <1>0, <1>c, <1>f, <1>q, <2>1, <2>2, SMTT(30)
  <2>4. block' > 0 => wrong' + vv <= alls
    BY <1>s, <1>0, <1>b, <1>q, <2>1, <2>2
  <2> QED BY <1>g, <2>3, <2>4, Zenon
<1>8. CASE Limiter!Tick
  <2>1. at' = at /\ count' = count /\ lost' = lost
    BY <1>8 DEF Limiter!Tick
  <2>2. dd = d /\ vv = v /\ oo = o
    <3>1. Deleting' = Deleting /\ Verifying' = Verifying /\ Over' = Over
      BY <2>1 DEF Deleting, Verifying, Over, Limiter!Reached
    <3> QED BY <1>d, <1>e, <3>1
  <2>3. CASE block = 1
    <3>1. block' = 0 /\ wrong' = 0
      BY <1>8, <2>3 DEF Limiter!Tick
    <3>2. CASE lost = 0
      <4>1. \A h \in Handlers : at[h] = "idle"
        <5>1. \A h \in Handlers : at[h] # "idle" => lockout - 1 <= stay[h]
          BY <2>3, <3>2 DEF Arrived
        <5>2. \A h \in Handlers : at[h] # "idle" => stay[h] < MaxStay
          BY <1>8 DEF Limiter!Tick
        <5> QED BY <1>s, <1>0, <5>1, <5>2
      <4>2. Deleting = {}
        BY <4>1 DEF Deleting
      <4>3. dd = 0
        BY <1>d, <2>2, <4>2, FS_EmptySet
      <4> QED BY <1>s, <1>w, <3>1, <4>3
    <3>3. CASE lost > 0
      BY <1>w, <2>1, <3>1, <3>3
    <3> QED BY <1>0, <3>2, <3>3
  <2>4. CASE block # 1
    <3>1. CASE fail.ttl = 1
      <4>1. wrong' = 0
        BY <1>8, <3>1 DEF Limiter!Tick
      <4>2. block = 0 \/ block' > 0
        BY <1>0, <1>8, <2>4 DEF Limiter!Tick
      <4>3. dd < N \/ lost' > 0 \/ block' > 0
        BY <1>f, <2>1, <2>2, <4>2
      <4> QED BY <1>w, <4>1, <4>3, Zenon
    <3>2. CASE fail.ttl # 1
      <4>1. wrong' = wrong /\ (block' = 0 <=> block = 0)
        BY <1>0, <1>8, <2>4, <3>2 DEF Limiter!Tick
      <4>2. fail'.n = fail.n
        <5>1. CASE fail.ttl > 1
          BY <1>8, <3>2, <5>1 DEF Limiter!Tick, Counted, Limiter!TypeOK
        <5>2. CASE ~(fail.ttl > 1)
          BY <1>8, <3>2, <5>2 DEF Limiter!Tick
        <5> QED BY <5>1, <5>2
      <4>3. block' = 0 => (dd < N \/ lost' > 0) /\ wrong' <= cc + oo + ss
        BY <1>s, <1>0, <1>c, <1>f, <1>q, <2>1, <2>2, <4>1, <4>2, SMTT(30)
      <4>4. block' > 0 => wrong' + vv <= alls
        BY <1>s, <1>0, <1>b, <1>q, <2>1, <2>2, <4>1, SMTT(30)
      <4> QED BY <1>g, <4>3, <4>4, Zenon
    <3> QED BY <3>1, <3>2
  <2> QED BY <2>3, <2>4
<1>9. CASE UNCHANGED Limiter!vars
  <2>1. UNCHANGED <<fail, block, at, count, lost, wrong>>
    BY <1>9 DEF Limiter!vars
  <2>2. Deleting' = Deleting /\ Verifying' = Verifying /\ Over' = Over
    BY <2>1 DEF Deleting, Verifying, Over, Limiter!Reached
  <2> QED BY <2>1, <2>2, Zenon DEF Free, Locked, Slack, Limiter!Least, N
<1> QED BY <1>1, <1>2, <1>3, <1>4, <1>5, <1>6, <1>7, <1>8, <1>9, Zenon DEF Limiter!Next

\* A step leaves those in flight older than the lockout.
LEMMA ArrivedStep ==
    ASSUME Limiter!LimiterSettings, Counted, Counted', Arrived, [Limiter!Next]_(Limiter!vars)
    PROVE  Arrived'
<1>0. /\ lost \in Nat /\ lost' \in Nat /\ block \in 0..lockout /\ block' \in 0..lockout
      /\ lockout \in Nat \ {0} /\ at \in [Handlers -> Commands] /\ stay \in [Handlers -> Nat]
      /\ stay' \in [Handlers -> Nat]
  <2>1. lost \in Nat /\ block \in 0..lockout /\ at \in [Handlers -> Commands] /\ stay \in [Handlers -> Nat]
    BY Settings DEF Counted, Limiter!TypeOK, Commands
  <2>2. (lost \in Nat /\ block \in 0..lockout /\ stay \in [Handlers -> Nat])'
    BY Settings DEF Counted, Limiter!TypeOK
  <2> QED BY <2>1, <2>2, Settings
\* A move that neither locks nor lets anyone in.
<1>a. ASSUME NEW h \in Handlers, NEW to, Limiter!Goto(h, to), lost' = lost, block' = block,
             at[h] # "idle"
      PROVE  Arrived'
  BY <1>0, <1>a DEF Arrived, Limiter!Goto
\* A lost command.
<1>b. ASSUME Limiter!Lost PROVE Arrived'
  <2>1. lost' # 0
    BY <1>0, <1>b DEF Limiter!Lost
  <2> QED BY <2>1 DEF Arrived
<1>1. ASSUME NEW h \in Handlers, Limiter!IsLocked(h) PROVE Arrived'
  <2>1. CASE Limiter!Lost
    BY <1>b, <2>1
  <2>2. CASE block = 0 /\ block' = block
    BY <2>2 DEF Arrived
  <2> QED BY <1>1, <2>1, <2>2 DEF Limiter!IsLocked
<1>2. ASSUME NEW h \in Handlers, Limiter!RecordFailure(h) PROVE Arrived'
  <2>1. at[h] # "idle" /\ block' = block /\ (lost' = lost \/ Limiter!Lost) /\ \E to : Limiter!Goto(h, to)
    BY <1>2, Zenon DEF Limiter!RecordFailure, Limiter!Done
  <2> QED BY <1>a, <1>b, <2>1, Zenon
<1>3. ASSUME NEW h \in Handlers, Limiter!Expire(h) PROVE Arrived'
  <2>1. at[h] # "idle" /\ block' = block /\ (lost' = lost \/ Limiter!Lost) /\ \E to : Limiter!Goto(h, to)
    BY <1>3, Zenon DEF Limiter!Expire, Limiter!Done
  <2> QED BY <1>a, <1>b, <2>1, Zenon
<1>4. ASSUME NEW h \in Handlers, Limiter!SetBlock(h) PROVE Arrived'
  <2>1. CASE Limiter!Lost
    BY <1>b, <2>1
  <2>2. CASE block' = lockout
    <3>1. lockout - block' = 0
      BY <1>0, <2>2
    <3>2. \A k \in Handlers : 0 <= stay'[k]
      BY <1>0
    <3> QED BY <3>1, <3>2, Zenon DEF Arrived
  <2> QED BY <1>4, <2>1, <2>2 DEF Limiter!SetBlock
<1>5. ASSUME NEW h \in Handlers, Limiter!DelFail(h) PROVE Arrived'
  <2>1. at[h] # "idle" /\ block' = block /\ (lost' = lost \/ Limiter!Lost) /\ \E to : Limiter!Goto(h, to)
    BY <1>5, Zenon DEF Limiter!DelFail, Limiter!Done
  <2> QED BY <1>a, <1>b, <2>1, Zenon
<1>6. ASSUME NEW h \in Handlers, Limiter!Reset(h) PROVE Arrived'
  <2>1. CASE block' = 0
    BY <2>1 DEF Arrived
  <2>2. CASE at[h] # "idle" /\ block' = block /\ (lost' = lost \/ Limiter!Lost) /\ \E to : Limiter!Goto(h, to)
    BY <1>a, <1>b, <2>2, Zenon
  <2> QED BY <1>6, <2>1, <2>2, Zenon DEF Limiter!Reset, Limiter!Done
<1>7. ASSUME NEW h \in Handlers, Limiter!BreakOff(h) PROVE Arrived'
  BY <1>7, <1>b DEF Limiter!BreakOff
<1>8. CASE Limiter!Tick
  <2>1. at' = at /\ lost' = lost /\ (block' = 0 \/ block' = block - 1)
    BY <1>8 DEF Limiter!Tick
  <2>2. \A h \in Handlers : at[h] # "idle" => stay'[h] = stay[h] + 1
    BY <1>8 DEF Limiter!Tick
  <2> QED BY <1>0, <2>1, <2>2 DEF Arrived
<1>9. CASE UNCHANGED Limiter!vars
  BY <1>9 DEF Limiter!vars, Arrived
<1> QED BY <1>1, <1>2, <1>3, <1>4, <1>5, <1>6, <1>7, <1>8, <1>9, Zenon DEF Limiter!Next

----------------------------------------------------------------------------
\* The bound, and what makes it inductive.
Budget == Counted /\ Free /\ Locked /\ Arrived

\* It holds of a limiter without keys.
LEMMA BudgetInit ==
    ASSUME Limiter!LimiterSettings, Limiter!Init PROVE Budget
<1>s. /\ IsFiniteSet(Handlers) /\ N \in Nat \ {0} /\ maxFailures \in Nat \ {0} /\ lockout \in Nat \ {0}
      /\ failureWindow \in Nat \ {0} /\ MaxStay \in Nat /\ MaxFaults \in Nat /\ MaxWrong \in Nat
  BY Settings
<1>1. Counted
  BY <1>s DEF Limiter!Init, Counted, Limiter!TypeOK, Limiter!NoKey, Limiter!Forever
<1>2. Cardinality(Deleting) = 0 /\ Cardinality(Over) = 0
  <2>1. Deleting = {} /\ Over = {}
    BY DEF Limiter!Init, Deleting, Over
  <2> QED BY <2>1, FS_EmptySet
<1>3. Free
  <2>1. fail.n = 0 /\ wrong = 0 /\ lost = 0
    BY DEF Limiter!Init, Limiter!NoKey
  <2>2. Limiter!Least(0, maxFailures - 1) = 0
    BY <1>s DEF Limiter!Least
  <2>3. Slack(0, 0) >= 0 /\ Slack(0, 0) \in Int
    <3>1. 0 < N
      BY <1>s
    <3>2. 0 \in Nat
      OBVIOUS
    <3> QED BY <1>s, <3>1, <3>2, SlackMoves, Zenon
  <2>4. 0 < N /\ 0 <= 0 + 0 + Slack(0, 0)
    BY <1>s, <2>3
  <2> QED BY <1>2, <2>1, <2>2, <2>4, Zenon DEF Free
<1>4. Locked /\ Arrived
  BY DEF Limiter!Init, Locked, Arrived
<1> QED BY <1>1, <1>3, <1>4 DEF Budget

\* And it implies the bound.
LEMMA BudgetBounds ==
    ASSUME Limiter!LimiterSettings, Budget PROVE Limiter!WrongBounded
<1>s. /\ N \in Nat \ {0} /\ maxFailures \in Nat \ {0} /\ IsFiniteSet(Handlers)
      /\ block \in Nat /\ wrong \in Nat /\ lost \in Nat /\ fail.n \in Nat
  BY Settings DEF Budget, Counted, Limiter!TypeOK
<1>d. PICK d \in Nat, o \in Nat, v \in Nat :
        /\ Cardinality(Deleting) = d /\ Cardinality(Over) = o /\ Cardinality(Verifying) = v
        /\ d + o + v <= N
  <2>1. /\ Deleting \in SUBSET Handlers /\ Over \in SUBSET Handlers /\ Verifying \in SUBSET Handlers
        /\ Deleting \cap Over = {} /\ (Deleting \cup Over) \cap Verifying = {}
    BY DEF Deleting, Over, Verifying
  <2> QED BY <1>s, <2>1, ThreeApart, Zenon DEF N
<1>1. PICK all \in Nat : all = maxFailures * (N + lost)
  BY <1>s, <1>d, Bounds, Zenon
<1>2. CASE block > 0
  <2>1. wrong + v <= all
    BY <1>d, <1>1, <1>2, Zenon DEF Budget, Locked
  <2> QED BY <1>s, <1>1, <2>1 DEF Limiter!WrongBounded, N, Limiter!Cardinality, Cardinality
<1>3. CASE block = 0
  <2>1. PICK c \in 0..maxFailures - 1 : c = Limiter!Least(fail.n, maxFailures - 1)
    BY <1>s, LeastBounds, Zenon
  <2>2. PICK s \in Int : s = Slack(d, lost)
    BY <1>s, SlackMoves, Zenon
  <2>3. wrong <= c + o + s
    BY <1>d, <1>3, <2>1, <2>2, Zenon DEF Budget, Free
  <2>4. wrong <= (maxFailures - 1) + o + s
    BY <1>s, <2>3
  <2>5. wrong + v <= all
    BY <1>s, <1>d, <1>1, <2>2, <2>4, Bounds, Zenon
  <2> QED BY <1>s, <1>1, <2>5 DEF Limiter!WrongBounded, N, Limiter!Cardinality, Cardinality
<1> QED BY <1>s, <1>2, <1>3

\* RecordFailure and Reset issue their commands one by one and ignore their errors; even
\* so the wrong passwords an address can try before it has to wait are at most
\* maxFailures for each sign-in in flight and each lost command.
THEOREM WrongIsBounded ==
    ASSUME Limiter!LimiterSettings PROVE Limiter!Spec => []Limiter!WrongBounded
<1>1. Limiter!Init => Budget
  BY BudgetInit
<1>2. Budget /\ [Limiter!Next]_(Limiter!vars) => Budget'
  <2> SUFFICES ASSUME Budget, [Limiter!Next]_(Limiter!vars) PROVE Budget'
    OBVIOUS
  <2>1. Counted'
    BY CountedStep DEF Budget
  <2> QED BY <2>1, BudgetStep, ArrivedStep DEF Budget
<1>3. Budget => Limiter!WrongBounded
  BY BudgetBounds
<1> QED BY <1>1, <1>2, <1>3, PTL DEF Limiter!Spec

\* A step leaves the counter with a time to live, or with someone about to give it one.
LEMMA ExpiryStep ==
    ASSUME Limiter!LimiterSettings, Counted, Counted', Limiter!CounterExpires,
           [Limiter!Next]_(Limiter!vars)
    PROVE  Limiter!CounterExpires'
<1>0. /\ fail.n \in Nat /\ lost \in Nat /\ DOMAIN at = Handlers /\ failureWindow \in Nat \ {0}
      /\ DOMAIN fail = {"n", "ttl"}
  BY Settings DEF Counted, Limiter!TypeOK
\* A lost command settles it.
<1>b. ASSUME Limiter!Lost PROVE Limiter!CounterExpires'
  <2>1. lost' > 0
    BY <1>0, <1>b DEF Limiter!Lost
  <2> QED BY <2>1, Zenon DEF Limiter!CounterExpires
\* So does an empty counter.
<1>n. ASSUME fail' = Limiter!NoKey PROVE Limiter!CounterExpires'
  BY <1>n DEF Limiter!CounterExpires, Limiter!NoKey
\* The move of one that is not about to give the counter its time to live.
<1>a. ASSUME NEW h \in Handlers, NEW to, Limiter!Goto(h, to), lost' = lost, fail' = fail,
             at[h] # "expire"
      PROVE  Limiter!CounterExpires'
  <2>1. \A k \in Handlers : at[k] = "expire" => at'[k] = "expire"
    BY <1>0, <1>a DEF Limiter!Goto
  <2> QED BY <1>a, <2>1, Zenon DEF Limiter!CounterExpires
<1>1. ASSUME NEW h \in Handlers, Limiter!IsLocked(h) PROVE Limiter!CounterExpires'
  <2>1. at[h] # "expire" /\ fail' = fail /\ (lost' = lost \/ Limiter!Lost) /\ Limiter!Goto(h, "verify")
    BY <1>1, Zenon DEF Limiter!IsLocked, Limiter!Done
  <2> QED BY <1>a, <1>b, <2>1, Zenon
<1>2. ASSUME NEW h \in Handlers, Limiter!RecordFailure(h) PROVE Limiter!CounterExpires'
  <2>1. CASE Limiter!Lost
    BY <1>b, <2>1
  <2>2. CASE /\ lost' = lost
             /\ fail' = [fail EXCEPT !.n = @ + 1]
             /\ Limiter!Goto(h, IF Limiter!StartsWindow(fail.n + 1) THEN "expire"
                                ELSE Limiter!AfterExpire(fail.n + 1))
    <3>1. fail'.ttl = fail.ttl
      BY <1>0, <2>2
    <3>2. CASE fail.n = 0
      <4>1. at'[h] = "expire"
        BY <1>0, <2>2, <3>2 DEF Limiter!Goto, Limiter!StartsWindow
      <4> QED BY <4>1, Zenon DEF Limiter!CounterExpires
    <3>3. CASE fail.n > 0
      <4>1. \A k \in Handlers : at[k] = "expire" => at'[k] = "expire"
        <5>1. at[h] = "verify"
          BY <1>2 DEF Limiter!RecordFailure
        <5> QED BY <1>0, <2>2, <5>1 DEF Limiter!Goto
      <4> QED BY <2>2, <3>1, <3>3, <4>1, Zenon DEF Limiter!CounterExpires
    <3> QED BY <1>0, <3>2, <3>3
  <2> QED BY <1>2, <2>1, <2>2, Zenon DEF Limiter!RecordFailure, Limiter!Done
<1>3. ASSUME NEW h \in Handlers, Limiter!Expire(h) PROVE Limiter!CounterExpires'
  <2>1. CASE Limiter!Lost
    BY <1>b, <2>1
  <2>2. CASE fail' = IF fail.n = 0 THEN fail ELSE [fail EXCEPT !.ttl = failureWindow]
    <3>1. CASE fail.n = 0
      <4>1. ~(fail'.n > 0)
        BY <2>2, <3>1
      <4> QED BY <4>1, Zenon DEF Limiter!CounterExpires
    <3>2. CASE fail.n # 0
      <4>1. fail'.ttl = failureWindow
        BY <1>0, <2>2, <3>2
      <4>2. fail'.ttl # Limiter!Forever
        BY <1>0, <4>1 DEF Limiter!Forever
      <4> QED BY <4>2, Zenon DEF Limiter!CounterExpires
    <3> QED BY <3>1, <3>2
  <2> QED BY <1>3, <2>1, <2>2, Zenon DEF Limiter!Expire
<1>4. ASSUME NEW h \in Handlers, Limiter!SetBlock(h) PROVE Limiter!CounterExpires'
  <2>1. at[h] # "expire" /\ fail' = fail /\ (lost' = lost \/ Limiter!Lost) /\ Limiter!Goto(h, "del")
    BY <1>4, Zenon DEF Limiter!SetBlock, Limiter!Done
  <2> QED BY <1>a, <1>b, <2>1, Zenon
<1>5. ASSUME NEW h \in Handlers, Limiter!DelFail(h) PROVE Limiter!CounterExpires'
  BY <1>5, <1>b, <1>n, Zenon DEF Limiter!DelFail
<1>6. ASSUME NEW h \in Handlers, Limiter!Reset(h) PROVE Limiter!CounterExpires'
  <2>1. \/ fail' = Limiter!NoKey \/ Limiter!Lost
        \/ at[h] # "expire" /\ fail' = fail /\ lost' = lost /\ \E to : Limiter!Goto(h, to)
    BY <1>6, Zenon DEF Limiter!Reset, Limiter!Done
  <2> QED BY <1>a, <1>b, <1>n, <2>1, Zenon
<1>7. ASSUME NEW h \in Handlers, Limiter!BreakOff(h) PROVE Limiter!CounterExpires'
  BY <1>7, <1>b, Zenon DEF Limiter!BreakOff
<1>8. CASE Limiter!Tick
  <2>1. lost' = lost /\ at' = at
    BY <1>8 DEF Limiter!Tick
  <2>2. CASE fail.ttl = 1
    BY <1>8, <1>n, <2>2 DEF Limiter!Tick
  <2>3. CASE fail.ttl > 1
    <3>1. fail'.ttl = fail.ttl - 1
      BY <1>0, <1>8, <2>3 DEF Limiter!Tick
    <3>2. fail'.ttl # Limiter!Forever
      BY <1>0, <2>3, <3>1 DEF Limiter!Forever, Counted, Limiter!TypeOK
    <3> QED BY <3>2, Zenon DEF Limiter!CounterExpires
  <2>4. CASE ~(fail.ttl = 1) /\ ~(fail.ttl > 1)
    <3>1. fail' = fail
      BY <1>8, <2>4 DEF Limiter!Tick
    <3> QED BY <2>1, <3>1, Zenon DEF Limiter!CounterExpires
  <2> QED BY <2>2, <2>3, <2>4
<1>9. CASE UNCHANGED Limiter!vars
  <2>1. fail' = fail /\ lost' = lost /\ at' = at
    BY <1>9 DEF Limiter!vars
  <2> QED BY <2>1, Zenon DEF Limiter!CounterExpires
<1> QED BY <1>1, <1>2, <1>3, <1>4, <1>5, <1>6, <1>7, <1>8, <1>9, Zenon DEF Limiter!Next

\* RecordFailure gives the counter a time to live only on its first INCR
\* (n == 1); that is enough for every counter to end with its window.
THEOREM CountersExpire ==
    ASSUME Limiter!LimiterSettings PROVE Limiter!Spec => []Limiter!CounterExpires
<1>1. Limiter!Init => Counted /\ Limiter!CounterExpires
  <2> SUFFICES ASSUME Limiter!Init PROVE Counted /\ Limiter!CounterExpires
    OBVIOUS
  <2>1. Counted
    BY BudgetInit DEF Budget
  <2>2. ~(fail.n > 0)
    BY DEF Limiter!Init, Limiter!NoKey
  <2> QED BY <2>1, <2>2, Zenon DEF Limiter!CounterExpires
<1>2. Counted /\ Limiter!CounterExpires /\ [Limiter!Next]_(Limiter!vars)
        => Counted' /\ Limiter!CounterExpires'
  <2> SUFFICES ASSUME Counted, Limiter!CounterExpires, [Limiter!Next]_(Limiter!vars)
               PROVE  Counted' /\ Limiter!CounterExpires'
    OBVIOUS
  <2>1. Counted'
    BY CountedStep
  <2> QED BY <2>1, ExpiryStep
<1> QED BY <1>1, <1>2, PTL DEF Limiter!Spec
============================================================================
