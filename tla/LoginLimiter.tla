---------------------------- MODULE LoginLimiter ----------------------------
(***************************************************************************)
(* LoginRateLimiter for one client address: concurrent sign-ins, each of   *)
(* which issues its Redis commands one by one, ignores their errors and    *)
(* may be cut off between them.  Time is counted in ticks of the limiter's *)
(* windows; a request is shorter than a lockout.                           *)
(***************************************************************************)
EXTENDS Integers, FiniteSets

CONSTANTS
    Handlers,       \* sign-ins in flight
    maxFailures,    \* APP_LOGIN_MAX_FAILURES
    failureWindow,  \* APP_LOGIN_FAILURE_WINDOW, in ticks
    lockout,        \* APP_LOGIN_LOCKOUT, in ticks
    MaxStay,        \* ticks a request may see pass
    MaxFaults,      \* bound on lost commands and broken requests
    MaxWrong        \* bound on wrong passwords

\* Every setting is positive, and a request is shorter than the lockout.
LimiterSettings ==
    /\ IsFiniteSet(Handlers) /\ Handlers # {}
    /\ {maxFailures, failureWindow, lockout} \subseteq Nat \ {0}
    /\ MaxStay \in Nat /\ MaxStay < lockout
    /\ MaxFaults \in Nat /\ MaxWrong \in Nat

ASSUME LimiterAssumption == LimiterSettings

VARIABLES
    fail,    \* the failure counter: its value, 0 without key, and its time to live
    block,   \* time to live of the lockout, 0 without key
    pc,      \* the next command of each sign-in
    n,       \* the value its INCR returned
    stay,    \* ticks since it arrived
    faults,
    tries,   \* wrong passwords so far
    wrong,   \* observer: wrong passwords since the limiter last let go
    oldest   \* observer: age of the oldest failure in the counter

vars == <<fail, block, pc, n, stay, faults, tries, wrong, oldest>>

Forever == -1   \* a key without time to live
NoKey == [n |-> 0, ttl |-> Forever]
Least(a, b) == IF a < b THEN a ELSE b

TypeOK ==
    /\ fail \in [n : 0..MaxWrong, ttl : {Forever} \union 1..failureWindow]
    /\ block \in 0..lockout
    /\ pc \in [Handlers -> {"idle", "verify", "expire", "set", "del", "delFail", "delBlock"}]
    /\ n \in [Handlers -> 0..MaxWrong]
    /\ stay \in [Handlers -> 0..MaxStay]
    /\ faults \in 0..MaxFaults
    /\ tries \in 0..MaxWrong /\ wrong \in 0..MaxWrong
    /\ oldest \in 0..failureWindow + 1

Init ==
    /\ fail = NoKey /\ block = 0
    /\ pc = [h \in Handlers |-> "idle"] /\ n = [h \in Handlers |-> 0]
    /\ stay = [h \in Handlers |-> 0]
    /\ faults = 0 /\ tries = 0 /\ wrong = 0 /\ oldest = 0

Goto(h, step) ==
    /\ pc' = [pc EXCEPT ![h] = step]
    /\ stay' = [stay EXCEPT ![h] = IF step = "idle" THEN 0 ELSE @]

\* A command whose error is ignored may have had no effect.
Lost == faults < MaxFaults /\ faults' = faults + 1
Done == UNCHANGED faults

----------------------------------------------------------------------------
\* A locked address gets 429; an error of EXISTS is taken for "not locked".
IsLocked(h) ==
    /\ pc[h] = "idle"
    /\ \/ block = 0 /\ Done
       \/ block > 0 /\ Lost
    /\ Goto(h, "verify")
    /\ UNCHANGED <<fail, block, n, tries, wrong, oldest>>

\* Mutant: one failure more before the lockout.
ReachedLate(m) == m > maxFailures

Reached(m) == m >= maxFailures

StartsWindow(m) == m = 1

\* The command that follows, once the window has been looked after.
AfterExpire(m) == IF Reached(m) THEN "set" ELSE "idle"

\* A wrong password or an unknown user: 401 after RecordFailure, INCR first.
RecordFailure(h) ==
    /\ pc[h] = "verify" /\ tries < MaxWrong
    /\ tries' = tries + 1 /\ wrong' = wrong + 1
    /\ \/ /\ Done
          /\ fail' = [fail EXCEPT !.n = @ + 1]
          /\ n' = [n EXCEPT ![h] = fail.n + 1]
          /\ oldest' = IF fail.n = 0 THEN 0 ELSE oldest
          /\ Goto(h, IF StartsWindow(fail.n + 1) THEN "expire" ELSE AfterExpire(fail.n + 1))
       \/ Lost /\ Goto(h, "idle") /\ UNCHANGED <<fail, n, oldest>>
    /\ UNCHANGED block

Expire(h) ==
    /\ pc[h] = "expire"
    /\ \/ Done /\ fail' = IF fail.n = 0 THEN fail ELSE [fail EXCEPT !.ttl = failureWindow]
       \/ Lost /\ UNCHANGED fail
    /\ Goto(h, AfterExpire(n[h]))
    /\ UNCHANGED <<block, n, tries, wrong, oldest>>

SetBlock(h) ==
    /\ pc[h] = "set"
    /\ \/ Done /\ block' = lockout
       \/ Lost /\ UNCHANGED block
    /\ Goto(h, "del")
    /\ UNCHANGED <<fail, n, tries, wrong, oldest>>

DelFail(h) ==
    /\ pc[h] = "del"
    /\ \/ Done /\ fail' = NoKey
       \/ Lost /\ UNCHANGED fail
    /\ Goto(h, "idle")
    /\ UNCHANGED <<block, n, tries, wrong, oldest>>

\* The right password: Reset, then a session.  It lets the address go.
Reset(h) ==
    /\ \/ pc[h] = "verify" /\ Goto(h, "delFail") /\ Done /\ UNCHANGED <<fail, block, wrong>>
       \/ /\ pc[h] = "delFail" /\ Goto(h, "delBlock")
          /\ \/ Done /\ fail' = NoKey /\ wrong' = 0
             \/ Lost /\ UNCHANGED <<fail, wrong>>
          /\ UNCHANGED block
       \/ /\ pc[h] = "delBlock" /\ Goto(h, "idle")
          /\ \/ Done /\ block' = 0 /\ wrong' = 0
             \/ Lost /\ UNCHANGED <<block, wrong>>
          /\ UNCHANGED fail
    /\ UNCHANGED <<n, tries, oldest>>

\* The process ends, or the client goes and the context with it.
BreakOff(h) ==
    /\ pc[h] # "idle" /\ Lost
    /\ Goto(h, "idle")
    /\ UNCHANGED <<fail, block, n, tries, wrong, oldest>>

\* Redis removes what has expired; then the limiter has let go.
Tick ==
    /\ \A h \in Handlers : pc[h] # "idle" => stay[h] < MaxStay
    /\ stay' = [h \in Handlers |-> IF pc[h] = "idle" THEN 0 ELSE stay[h] + 1]
    /\ fail' = IF fail.ttl = 1 THEN NoKey
               ELSE IF fail.ttl > 1 THEN [fail EXCEPT !.ttl = @ - 1] ELSE fail
    /\ block' = IF block > 0 THEN block - 1 ELSE 0
    /\ wrong' = IF block = 1 \/ fail.ttl = 1 THEN 0 ELSE wrong
    /\ oldest' = IF fail'.n = 0 THEN 0 ELSE Least(oldest + 1, failureWindow + 1)
    /\ UNCHANGED <<pc, n, faults, tries>>

Next ==
    \/ \E h \in Handlers :
         \/ IsLocked(h) \/ RecordFailure(h) \/ Expire(h) \/ SetBlock(h) \/ DelFail(h)
         \/ Reset(h) \/ BreakOff(h)
    \/ Tick

Spec == Init /\ [][Next]_vars

----------------------------------------------------------------------------
(* Properties.                                                             *)

\* How many wrong passwords one address can try before it has to wait.  Sign-ins
\* that passed IsLocked together, and a DEL of RecordFailure that comes after a
\* Reset, cost at most maxFailures for every sign-in in flight; a lost command
\* costs maxFailures more.
WrongBounded == wrong <= maxFailures * (Cardinality(Handlers) + faults)

\* A failure counter never outlives its window: without a time to live there is
\* a sign-in about to give it one, unless a command was lost.
CounterExpires ==
    fail.n > 0 /\ fail.ttl = Forever => faults > 0 \/ \E h \in Handlers : pc[h] = "expire"

\* RecordFailure "sets a lockout once the threshold is reached within the failure
\* window": every failure that counts towards a lockout is younger than that.
LockoutWithinWindow ==
    [][\A h \in Handlers : pc[h] = "verify" /\ pc'[h] = "set" => oldest <= failureWindow]_vars
=============================================================================
