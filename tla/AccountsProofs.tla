--------------------------- MODULE AccountsProofs ---------------------------
(***************************************************************************)
(* Proofs about Signup, Login and the bootstrap of the default workspace,  *)
(* for any number of handlers, processes, addresses and faults.            *)
(*                                                                         *)
(* ReqTurns sums up what one step does to the handlers: at most one of     *)
(* them moves, and it begins, goes on, takes an id, commits or ends.  Each *)
(* invariant below is then shown for these five moves and for the steps of *)
(* the bootstrap, and not statement by statement.                          *)
(***************************************************************************)
EXTENDS Accounts, FiniteSetTheorems, TLAPS

Creates == {"insertWorkspace", "insertMembership", "commit"}
ReqState == [pc : Steps \union {"idle"}, id : Nat, user : Emails \union {""}, ws : Nat,
             signup : BOOLEAN]

\* The types, with the ids in Nat: that they stay below the bound is not needed.
Typed ==
    /\ users \subseteq Emails /\ workspaces \subseteq Nat /\ seq \in Nat
    /\ member \in [Emails -> SUBSET Nat]
    /\ start \in [Starters -> {"down", "lock", "insert", "last", "setval", "commit", "up"}]
    /\ read \in [Starters -> Nat]
    /\ req \in [Handlers -> ReqState]
    /\ \A h \in Handlers : req[h].pc # "idle" => req[h].user \in Emails /\ req[h].id \in 1..MaxRequests
    /\ \A h \in Handlers : req[h].pc = "idle" => req[h] = Idle
    /\ sessions \in [1..MaxRequests -> [ttl : BOOLEAN, known : BOOLEAN, there : BOOLEAN]]
    /\ requests \in Nat
    /\ won \in [Emails -> Nat]

----------------------------------------------------------------------------
(* What a step does to a handler.                                          *)

Kept(h) == /\ req'[h].user = req[h].user /\ req'[h].id = req[h].id
           /\ req'[h].signup = req[h].signup

Begins(h) ==
    /\ req[h].pc = "idle" /\ UNCHANGED Database /\ UNCHANGED won
    /\ req'[h].pc \in {"exists", "getUser"}
    /\ req'[h].user \in Emails /\ req'[h].id \in 1..MaxRequests
    /\ \E p \in Starters : start[p] = "up"

Goes(h) ==
    /\ Kept(h) /\ req'[h].ws = req[h].ws /\ UNCHANGED Database /\ UNCHANGED won
    /\ \/ req[h].pc = "exists" /\ req'[h].pc = "insertUser"
       \/ /\ req[h].pc = "insertUser" /\ req'[h].pc = "insertWorkspace"
          /\ req[h].signup /\ req[h].user \notin users /\ ~Pending(req[h].user)
       \/ req[h].pc = "insertMembership" /\ req'[h].pc = "commit"
       \/ /\ req[h].pc = "getUser" /\ req'[h].pc \in {"upgrade", "getWorkspace"}
          /\ ~req[h].signup /\ req[h].user \in users
       \/ req[h].pc = "upgrade" /\ req'[h].pc = "getWorkspace" /\ ~req[h].signup
       \/ /\ req[h].pc = "getWorkspace" /\ req'[h].pc = "insertWorkspace"
          /\ ~req[h].signup /\ member[req[h].user] = {}
       \/ req[h].pc \in {"getWorkspace", "getAgain"} /\ req'[h].pc = "hset" /\ ~req[h].signup
       \/ req[h].pc = "hset" /\ req'[h].pc = "expire" /\ HSet(h)

Makes(h) ==
    /\ Kept(h) /\ req[h].pc = "insertWorkspace" /\ req'[h].pc = "insertMembership"
    /\ Locking = {} /\ seq' = seq + 1 /\ req'[h].ws = seq + 1
    /\ UNCHANGED <<users, workspaces, member, won>>

Commits(h) ==
    /\ req[h].pc = "commit" /\ Committed(h) /\ UNCHANGED won
    /\ \/ req'[h] = Idle
       \/ Kept(h) /\ req'[h].ws = req[h].ws /\ req'[h].pc = IF req[h].signup THEN "hset" ELSE "getAgain"

Ends(h) ==
    /\ req[h].pc # "idle" /\ req'[h] = Idle /\ UNCHANGED Database
    /\ \/ UNCHANGED won
       \/ /\ req[h].pc = "expire" /\ req[h].signup
          /\ won' = [won EXCEPT ![req[h].user] = @ + 1]

\* One handler moves, and no process.
Turn(h) ==
    /\ \A g \in Handlers : g # h => req'[g] = req[g]
    /\ UNCHANGED <<start, read>>
    /\ UNCHANGED sessions \/ HSet(h) \/ Expire(h)
    /\ Begins(h) \/ Goes(h) \/ Makes(h) \/ Commits(h) \/ Ends(h)

\* One process moves, and no handler.
Boot(p) ==
    /\ UNCHANGED <<users, member, req, sessions, won>>
    /\ StartProcess(p) \/ EnsureDefaultWorkspace(p) \/ StopProcess(p)

LEMMA IdleIs == /\ Idle \in ReqState /\ Idle.pc = "idle" /\ Idle.signup = FALSE
                /\ Idle.user = "" /\ Idle.ws = 0
  BY DEF Idle, ReqState

\* A request arrives.
LEMMA ArriveTurns ==
  ASSUME Typed, NEW h \in Handlers, Arrive(h)
  PROVE  /\ req' \in [Handlers -> ReqState] /\ Turn(h) /\ UNCHANGED sessions
         /\ requests' \in Nat
<1>1. PICK e \in Emails, signup \in BOOLEAN :
        req' = [req EXCEPT ![h] = [pc |-> IF signup THEN "exists" ELSE "getUser", id |-> requests',
                                   user |-> e, ws |-> 0, signup |-> signup]]
  BY Zenon DEF Arrive
<1>2. requests' \in Nat /\ requests' \in 1..MaxRequests
  BY AccountsAssumption DEF Arrive, Typed
<1>3. [pc |-> IF signup THEN "exists" ELSE "getUser", id |-> requests',
       user |-> e, ws |-> 0, signup |-> signup] \in ReqState
  BY <1>2 DEF ReqState, Steps
<1>4. req' \in [Handlers -> ReqState]
  BY <1>1, <1>3 DEF Typed
<1>5. req[h].pc = "idle"
  BY IdleIs DEF Arrive
<1>6. /\ req'[h].pc \in {"exists", "getUser"} /\ req'[h].user \in Emails
      /\ req'[h].id \in 1..MaxRequests
      /\ \A g \in Handlers : g # h => req'[g] = req[g]
  BY <1>1, <1>2 DEF Typed
<1> QED  BY <1>2, <1>4, <1>5, <1>6 DEF Arrive, Turn, Begins, Database

\* A change of step alone.
LEMMA GotoMoves ==
  ASSUME Typed, NEW h \in Handlers, NEW step \in Steps, Goto(h, step)
  PROVE  /\ req' \in [Handlers -> ReqState]
         /\ Kept(h) /\ req'[h].ws = req[h].ws /\ req'[h].pc = step
         /\ \A g \in Handlers : g # h => req'[g] = req[g]
  BY Zenon DEF Typed, Goto, ReqState, Kept

\* An answer.
LEMMA AnswerMoves ==
  ASSUME Typed, NEW h \in Handlers, Answer(h)
  PROVE  /\ req' \in [Handlers -> ReqState] /\ req'[h] = Idle
         /\ \A g \in Handlers : g # h => req'[g] = req[g]
  BY IdleIs DEF Typed, Answer

\* The statements of a request that change no row, or the password hash only.
LEMMA ReaderTurns ==
  ASSUME Typed, NEW h \in Handlers,
         \/ EmailExists(h)
         \/ req[h].signup /\ InsertUser(h)
         \/ InsertMembership(h)
         \/ ~req[h].signup /\ (GetUserByEmail(h) \/ UpdateUserPasswordHash(h) \/ GetUserWorkspace(h))
         \/ HSet(h)
  PROVE  req' \in [Handlers -> ReqState] /\ Turn(h)
<1>1. Idle.pc = "idle" /\ (Answer(h) => req'[h] = Idle)
  BY IdleIs, AnswerMoves
<1>2. CASE EmailExists(h)
  <2>1. CASE Answer(h)
    BY <1>2, <2>1, AnswerMoves DEF EmailExists, Turn, Ends, Others
  <2>2. CASE Goto(h, "insertUser")
    <3>1. "insertUser" \in Steps  BY DEF Steps
    <3> QED  BY <1>2, <2>2, <3>1, GotoMoves DEF EmailExists, Turn, Goes, Others
  <2> QED  BY <1>2, <2>1, <2>2 DEF EmailExists
<1>3. CASE req[h].signup /\ InsertUser(h)
  <2>1. CASE Answer(h)
    BY <1>3, <2>1, AnswerMoves DEF InsertUser, Turn, Ends, Others
  <2>2. CASE AddressFree(req[h].user) /\ Goto(h, "insertWorkspace")
    <3>1. "insertWorkspace" \in Steps  BY DEF Steps
    <3> QED  BY <1>3, <2>2, <3>1, GotoMoves DEF InsertUser, AddressFree, Turn, Goes, Others
  <2> QED  BY <1>3, <2>1, <2>2 DEF InsertUser
<1>4. CASE InsertMembership(h)
  <2>1. "commit" \in Steps  BY DEF Steps
  <2> QED  BY <1>4, <2>1, GotoMoves DEF InsertMembership, Turn, Goes, Others
<1>5. CASE ~req[h].signup /\ GetUserByEmail(h)
  <2>1. CASE Answer(h)
    BY <1>5, <2>1, AnswerMoves DEF GetUserByEmail, Turn, Ends, Others
  <2>2. ASSUME NEW step \in {"upgrade", "getWorkspace"}, req[h].user \in users, Goto(h, step)
        PROVE  req' \in [Handlers -> ReqState] /\ Turn(h)
    <3>1. step \in Steps  BY DEF Steps
    <3> QED  BY <1>5, <2>2, <3>1, GotoMoves DEF GetUserByEmail, Turn, Goes, Others
  <2> QED  BY <1>5, <2>1, <2>2 DEF GetUserByEmail
<1>u. CASE ~req[h].signup /\ UpdateUserPasswordHash(h)
  <2>1. "getWorkspace" \in Steps  BY DEF Steps
  <2> QED  BY <1>u, <2>1, GotoMoves DEF UpdateUserPasswordHash, Turn, Goes
<1>6. CASE ~req[h].signup /\ GetUserWorkspace(h)
  <2>1. CASE Answer(h)
    BY <1>6, <2>1, AnswerMoves, SMTT(30) DEF GetUserWorkspace, Turn, Ends, Others
  <2>2. CASE Goto(h, "hset")
    <3>1. "hset" \in Steps  BY DEF Steps
    <3> QED  BY <1>6, <2>2, <3>1, GotoMoves DEF GetUserWorkspace, Turn, Goes, Others
  <2>3. CASE /\ member[req[h].user] = {} /\ req[h].pc = "getWorkspace"
             /\ Goto(h, "insertWorkspace")
    <3>1. "insertWorkspace" \in Steps  BY DEF Steps
    <3> QED  BY <1>6, <2>3, <3>1, GotoMoves DEF GetUserWorkspace, Turn, Goes, Others
  <2> QED  BY <1>6, <2>1, <2>2, <2>3 DEF GetUserWorkspace
<1>7. CASE HSet(h)
  <2>1. "expire" \in Steps  BY DEF Steps
  <2> QED  BY <1>7, <2>1, GotoMoves DEF HSet, Turn, Goes, Others
<1> QED  BY <1>2, <1>3, <1>4, <1>5, <1>u, <1>6, <1>7

\* The statements that change rows.
LEMMA WriterTurns ==
  ASSUME Typed, NEW h \in Handlers, InsertWorkspace(h) \/ Commit(h) \/ Expire(h) \/ Fail(h)
  PROVE  req' \in [Handlers -> ReqState] /\ Turn(h)
<1>1. CASE InsertWorkspace(h)
  <2>1. /\ req' \in [Handlers -> ReqState] /\ Kept(h)
        /\ req'[h].pc = "insertMembership" /\ req'[h].ws = seq + 1
        /\ \A g \in Handlers : g # h => req'[g] = req[g]
    <3> DEFINE r == [req[h] EXCEPT !.pc = "insertMembership", !.ws = seq + 1]
    <3>1. req' = [req EXCEPT ![h] = r]
      BY <1>1, Zenon DEF InsertWorkspace, Typed
    <3>2. req[h] \in ReqState /\ seq + 1 \in Nat  BY DEF Typed
    <3>3. /\ r \in ReqState /\ r.pc = "insertMembership" /\ r.ws = seq + 1
          /\ r.user = req[h].user /\ r.id = req[h].id /\ r.signup = req[h].signup
      BY <3>2 DEF ReqState, Steps
    <3> QED  BY <3>1, <3>3 DEF Typed, Kept
  <2> QED  BY <1>1, <2>1 DEF InsertWorkspace, Turn, Makes, Others
<1>2. CASE Commit(h)
  <2>1. CASE Answer(h)
    BY <1>2, <2>1, AnswerMoves DEF Commit, Turn, Commits, Others
  <2>2. CASE Goto(h, IF req[h].signup THEN "hset" ELSE "getAgain")
    <3>1. (IF req[h].signup THEN "hset" ELSE "getAgain") \in Steps  BY DEF Steps
    <3> QED  BY <1>2, <2>2, <3>1, GotoMoves DEF Commit, Turn, Commits, Others
  <2> QED  BY <1>2, <2>1, <2>2 DEF Commit
<1>3. CASE Expire(h)
  <2>1. Answer(h)  BY <1>3 DEF Expire, Succeed
  <2>2. UNCHANGED won \/ (req[h].signup /\ won' = [won EXCEPT ![req[h].user] = @ + 1])
    BY <1>3 DEF Expire, Succeed
  <2> QED  BY <1>3, <2>1, <2>2, AnswerMoves DEF Expire, Turn, Ends, Others
<1>4. CASE Fail(h)
  <2>1. req[h].pc # "idle"  BY <1>4 DEF Fail, Typed
  <2> QED  BY <1>4, <2>1, AnswerMoves DEF Fail, Turn, Ends, Others
<1> QED  BY <1>1, <1>2, <1>3, <1>4

\* Every step is the turn of a handler, a step of a process, or changes nothing.
LEMMA ReqTurns ==
  ASSUME Typed, [Next]_vars
  PROVE  /\ req' \in [Handlers -> ReqState]
         /\ \/ \E h \in Handlers : Turn(h)
            \/ \E p \in Starters : Boot(p)
            \/ UNCHANGED vars
<1>1. ASSUME NEW h \in Handlers, Arrive(h) \/ Signup(h) \/ Login(h) \/ Fail(h)
      PROVE  req' \in [Handlers -> ReqState] /\ Turn(h)
  <2>1. CASE Arrive(h)  BY <2>1, ArriveTurns
  <2>2. CASE Fail(h)  BY <2>2, WriterTurns
  <2>3. CASE Signup(h)
    BY <2>3, ReaderTurns, WriterTurns, Zenon DEF Signup, CreateUserWithWorkspace, CreateSession
  <2>4. CASE Login(h)
    BY <2>4, ReaderTurns, WriterTurns, Zenon DEF Login, CreateWorkspaceForUser, CreateSession
  <2> QED  BY <1>1, <2>1, <2>2, <2>3, <2>4
<1>2. ASSUME NEW p \in Starters, StartProcess(p) \/ EnsureDefaultWorkspace(p) \/ StopProcess(p)
      PROVE  req' \in [Handlers -> ReqState] /\ Boot(p)
  BY <1>2, Zenon DEF Boot, StartProcess, EnsureDefaultWorkspace, LockTable, InsertDefault, ReadSequence,
              SetSequence, CommitDefault, StopProcess, Typed
<1>3. ASSUME UNCHANGED vars  PROVE req' \in [Handlers -> ReqState]
  BY <1>3 DEF vars, Typed
<1>4. CASE Next  BY <1>4, <1>1, <1>2, <1>3 DEF Next, AtRest
<1> QED  BY <1>3, <1>4

\* What ReadSequence computes is at least the sequence and 1: the maximum exists,
\* because no row has an id above the sequence.
Bounded == workspaces \subseteq 1..seq

LEMMA SequenceRead ==
  ASSUME Typed, Bounded, NEW p \in Starters, ReadSequence(p)
  PROVE  read'[p] \in Nat /\ read'[p] >= seq /\ read'[p] >= 1
<1> DEFINE S == workspaces \union {1, seq}
           m == CHOOSE i \in S : \A j \in S : j <= i
<1>1. \E i \in S : \A j \in S : j <= i
  <2>1. CASE seq = 0
    <3>1. 1 \in S /\ \A j \in S : j <= 1  BY <2>1 DEF Bounded
    <3> QED  BY <3>1
  <2>2. CASE seq # 0
    <3>1. seq \in S /\ \A j \in S : j <= seq  BY <2>2 DEF Bounded, Typed
    <3> QED  BY <3>1
  <2> QED  BY <2>1, <2>2
<1>2. m \in S /\ \A j \in S : j <= m
  BY <1>1
<1>3. S \subseteq Nat  BY DEF Typed
<1>4. read'[p] = m  BY DEF ReadSequence, Typed
<1> HIDE DEF m
<1>5. m \in Nat /\ m >= seq /\ m >= 1  BY <1>2, <1>3, Zenon DEF Typed
<1> QED  BY <1>4, <1>5

LEMMA BoundedTyped ==
  ASSUME Typed, Bounded, [Next]_vars
  PROVE  Typed'
<1>r. req' \in [Handlers -> ReqState]  BY ReqTurns
<1>1. ASSUME NEW h \in Handlers, Turn(h)
      PROVE  /\ users' \subseteq Emails /\ workspaces' \subseteq Nat /\ seq' \in Nat
             /\ member' \in [Emails -> SUBSET Nat] /\ won' \in [Emails -> Nat]
             /\ start' = start /\ read' = read
             /\ \A g \in Handlers : req'[g].pc # "idle" => /\ req'[g].user \in Emails
                                                           /\ req'[g].id \in 1..MaxRequests
             /\ \A g \in Handlers : req'[g].pc = "idle" => req'[g] = Idle
  <2>1. req[h].pc # "idle" => req[h].user \in Emails /\ req[h].id \in 1..MaxRequests
    BY DEF Typed
  <2>2. req[h].ws \in Nat  BY DEF Typed, ReqState
  <2>3. CASE Begins(h)
    BY <1>1, <2>3, Zenon DEF Turn, Begins, Typed, Database
  <2>4. CASE Goes(h)
    BY <1>1, <2>1, <2>4, Zenon DEF Turn, Goes, Kept, Typed, Database
  <2>5. CASE Makes(h)
    <3>1. seq' \in Nat  BY <2>5 DEF Makes, Typed
    <3>2. req[h].pc # "idle" /\ req'[h].pc # "idle"  BY <2>5 DEF Makes
    <3>3. req'[h].user \in Emails /\ req'[h].id \in 1..MaxRequests
      BY <2>1, <2>5, <3>2 DEF Makes, Kept
    <3> QED  BY <1>1, <2>5, <3>1, <3>2, <3>3, Zenon DEF Turn, Makes, Typed
  <2>6. CASE Commits(h)
    <3>1. users' \subseteq Emails /\ workspaces' \subseteq Nat /\ seq' \in Nat
      BY <2>1, <2>2, <2>6, Zenon DEF Commits, Committed, Typed
    <3>2. member' \in [Emails -> SUBSET Nat]
      BY <2>1, <2>2, <2>6 DEF Commits, Committed, Typed
    <3> QED  BY <1>1, <2>1, <2>6, <3>1, <3>2, IdleIs, Zenon DEF Turn, Commits, Kept, Typed
  <2>7. CASE Ends(h)
    <3>1. won' \in [Emails -> Nat]  BY <2>1, <2>7 DEF Ends, Typed
    <3>2. req'[h].pc = "idle" /\ req'[h] = Idle  BY <2>7, IdleIs DEF Ends
    <3> QED  BY <1>1, <2>7, <3>1, <3>2, Zenon DEF Turn, Ends, Typed, Database
  <2> QED  BY <1>1, <2>3, <2>4, <2>5, <2>6, <2>7 DEF Turn
<1>2. ASSUME NEW p \in Starters, Boot(p)
      PROVE  /\ workspaces' \subseteq Nat /\ seq' \in Nat
             /\ start' \in [Starters -> {"down", "lock", "insert", "last", "setval", "commit", "up"}]
             /\ read' \in [Starters -> Nat]
  <2>1. CASE ReadSequence(p)
    <3>1. read'[p] \in Nat  BY <2>1, SequenceRead
    <3>2. read' = [read EXCEPT ![p] = read'[p]]
      BY <2>1 DEF ReadSequence, Typed
    <3> QED  BY <2>1, <3>1, <3>2 DEF ReadSequence, Typed
  <2>2. CASE SetSequence(p)
    BY <2>2 DEF SetSequence, Typed
  <2>3. CASE CommitDefault(p)
    BY <2>3 DEF CommitDefault, Typed
  <2>4. CASE StopProcess(p)
    BY <2>4 DEF StopProcess, Typed
  <2>5. CASE StartProcess(p) \/ LockTable(p) \/ InsertDefault(p)
    BY <2>5, Zenon DEF StartProcess, LockTable, InsertDefault, Typed
  <2> QED  BY <1>2, <2>1, <2>2, <2>3, <2>4, <2>5 DEF Boot, EnsureDefaultWorkspace
<1>3. sessions' \in [1..MaxRequests -> [ttl : BOOLEAN, known : BOOLEAN, there : BOOLEAN]]
  <2>1. \/ UNCHANGED sessions
        \/ \E h \in Handlers : HSet(h) \/ Expire(h)
    BY ReqTurns, Zenon DEF Turn, Boot, vars
  <2>2. ASSUME NEW h \in Handlers, HSet(h) \/ Expire(h)
        PROVE  sessions' \in [1..MaxRequests -> [ttl : BOOLEAN, known : BOOLEAN, there : BOOLEAN]]
    <3> DEFINE S == [ttl : BOOLEAN, known : BOOLEAN, there : BOOLEAN]
               i == req[h].id
    <3>1. PICK r \in S : sessions' = sessions \/ sessions' = [sessions EXCEPT ![i] = r]
      <4>1. i \in 1..MaxRequests  BY <2>2 DEF HSet, Expire, Typed
      <4>2. sessions[i] \in S  BY <4>1 DEF Typed
      <4>3. /\ [sessions[i] EXCEPT !.there = TRUE] \in S
            /\ [sessions[i] EXCEPT !.ttl = TRUE, !.known = TRUE] \in S
            /\ [sessions[i] EXCEPT !.ttl = TRUE] \in S
        BY <4>2, Zenon
      <4> QED  BY <2>2, <4>1, <4>2, <4>3, Zenon DEF HSet, Expire, Typed
    <3> QED  BY <3>1 DEF Typed
  <2> QED  BY <2>1, <2>2 DEF Typed
<1>4. requests' \in Nat
  BY ArriveTurns, Zenon
     DEF Next, Signup, Login, Fail, EmailExists, CreateUserWithWorkspace, CreateSession, HSet, Expire,
         InsertUser, InsertWorkspace, InsertMembership, Commit, GetUserByEmail, UpdateUserPasswordHash,
         GetUserWorkspace, CreateWorkspaceForUser, StartProcess, EnsureDefaultWorkspace, LockTable, InsertDefault,
         ReadSequence, SetSequence, CommitDefault, StopProcess, AtRest, vars, Typed, Others
<1>5. CASE \E h \in Handlers : Turn(h)
  BY <1>1, <1>3, <1>4, <1>5, <1>r DEF Typed
<1>6. CASE \E p \in Starters : Boot(p)
  BY <1>2, <1>3, <1>4, <1>6, <1>r DEF Typed, Boot
<1>7. CASE UNCHANGED vars
  BY <1>7 DEF Typed, vars
<1> QED  BY <1>5, <1>6, <1>7, ReqTurns

----------------------------------------------------------------------------
(* Ids of workspaces.                                                      *)

\* One process at a time adjusts the sequence, and what it has computed is not
\* stale: no INSERT has drawn from the sequence since.
SequenceHeld ==
    /\ \A p, q \in Locking : p = q
    /\ \A p \in Starters : start[p] = "setval" => read[p] >= seq /\ read[p] >= 1

\* Before anything is served or the default workspace committed, the sequence has
\* passed the explicit id 1.
PastDefault ==
    /\ \A p \in Starters : start[p] \in {"commit", "up"} => seq >= 1
    /\ \A h \in Handlers : req[h].pc # "idle" => seq >= 1

\* Every id in use or about to be committed has been drawn; the ones being
\* inserted are not the default's.
IdsDrawn ==
    /\ Bounded
    /\ \A h \in Inserting : req[h].ws \in 2..seq
    /\ \A e \in Emails : member[e] \subseteq workspaces

LEMMA SequenceHeldStep ==
  ASSUME Typed, Bounded, SequenceHeld, [Next]_vars
  PROVE  SequenceHeld'
<1>1. ASSUME NEW h \in Handlers, Turn(h)  PROVE SequenceHeld'
  <2>1. start' = start /\ read' = read /\ Locking' = Locking
    BY <1>1, SMTT(30) DEF Turn, Locking
  <2>2. seq' = seq \/ (Locking = {} /\ seq' = seq + 1)
    BY <1>1 DEF Turn, Begins, Goes, Makes, Commits, Committed, Ends, Database
  <2>3. ASSUME NEW p \in Starters, start'[p] = "setval"  PROVE seq' = seq
    BY <2>1, <2>2, <2>3 DEF Locking
  <2> QED  BY <2>1, <2>3 DEF SequenceHeld
<1>2. ASSUME NEW p \in Starters, Boot(p)  PROVE SequenceHeld'
  <2>1. CASE LockTable(p)
    <3>1. \A q \in Starters : start'[q] = IF q = p THEN "insert" ELSE start[q]
      BY <2>1 DEF LockTable, Typed
    <3>2. read' = read /\ seq' = seq /\ Locking = {}
      BY <2>1 DEF LockTable
    <3> QED  BY <3>1, <3>2 DEF SequenceHeld, Locking
  <2>2. CASE InsertDefault(p)
    <3>1. \A q \in Starters : start'[q] = IF q = p THEN "last" ELSE start[q]
      BY <2>2 DEF InsertDefault, Typed
    <3>2. read' = read /\ seq' = seq /\ start[p] = "insert"
      BY <2>2 DEF InsertDefault
    <3> QED  BY <3>1, <3>2 DEF SequenceHeld, Locking
  <2>3. CASE ReadSequence(p)
    <3>1. \A q \in Starters : start'[q] = IF q = p THEN "setval" ELSE start[q]
      BY <2>3 DEF ReadSequence, Typed
    <3>2. seq' = seq /\ start[p] = "last" /\ \A q \in Starters : q # p => read'[q] = read[q]
      BY <2>3 DEF ReadSequence, Typed
    <3>3. read'[p] >= seq /\ read'[p] >= 1
      BY <2>3, SequenceRead
    <3> QED  BY <3>1, <3>2, <3>3 DEF SequenceHeld, Locking
  <2>4. CASE SetSequence(p)
    <3>1. \A q \in Starters : start'[q] = IF q = p THEN "commit" ELSE start[q]
      BY <2>4 DEF SetSequence, Typed
    <3>2. start[p] = "setval"  BY <2>4 DEF SetSequence
    <3>3. \A q \in Starters : start[q] = "setval" => q = p
      BY <3>2 DEF SequenceHeld, Locking
    <3> QED  BY <3>1, <3>2, <3>3 DEF SequenceHeld, Locking
  <2>5. CASE CommitDefault(p) \/ StopProcess(p) \/ StartProcess(p)
    <3>1. \A q \in Starters : q # p => start'[q] = start[q] /\ read'[q] = read[q]
      BY <2>5 DEF CommitDefault, StopProcess, StartProcess, Typed
    <3>2. seq' = seq /\ start'[p] \in {"up", "down", "lock"}
      BY <2>5 DEF CommitDefault, StopProcess, StartProcess, Typed
    <3> QED  BY <3>1, <3>2 DEF SequenceHeld, Locking
  <2> QED  BY <1>2, <2>1, <2>2, <2>3, <2>4, <2>5, SMTT(30) DEF Boot, EnsureDefaultWorkspace
<1>3. CASE UNCHANGED vars
  BY <1>3 DEF SequenceHeld, Locking, vars
<1> QED  BY <1>1, <1>2, <1>3, ReqTurns

\* The sequence never goes back: setval writes no value below the current one.
LEMMA SequenceGrows ==
  ASSUME Typed, Bounded, SequenceHeld, [Next]_vars
  PROVE  seq' \in Nat /\ seq' >= seq
<1>t. seq' \in Nat  BY BoundedTyped, SMTT(30) DEF Typed
<1>1. ASSUME NEW h \in Handlers, Turn(h)  PROVE seq' >= seq
  BY <1>1, SMTT(60) DEF Turn, Begins, Goes, Makes, Commits, Committed, Ends, Database, Typed
<1>2. ASSUME NEW p \in Starters, Boot(p)  PROVE seq' >= seq
  BY <1>2 DEF Boot, StartProcess, EnsureDefaultWorkspace, LockTable, InsertDefault, ReadSequence,
              SetSequence, CommitDefault, StopProcess, SequenceHeld, Typed
<1>3. CASE UNCHANGED vars  BY <1>3 DEF vars, Typed
<1> QED  BY <1>t, <1>1, <1>2, <1>3, ReqTurns

LEMMA PastDefaultStep ==
  ASSUME Typed, Bounded, SequenceHeld, PastDefault, [Next]_vars
  PROVE  PastDefault'
<1>g. seq \in Nat /\ seq' \in Nat /\ seq' >= seq  BY SequenceGrows DEF Typed
<1>1. ASSUME NEW h \in Handlers, Turn(h)  PROVE PastDefault'
  <2>1. start' = start /\ \A g \in Handlers : g # h => req'[g] = req[g]
    BY <1>1 DEF Turn
  <2>2. CASE req[h].pc # "idle"
    BY <1>g, <2>1, <2>2 DEF PastDefault
  <2>3. CASE req[h].pc = "idle"
    <3>1. Begins(h)
      BY <1>1, <2>3 DEF Turn, Goes, Makes, Commits, Ends
    <3>2. seq >= 1  BY <3>1 DEF Begins, PastDefault
    <3> QED  BY <1>g, <2>1, <3>2, SMTT(30) DEF PastDefault
  <2> QED  BY <2>2, <2>3
<1>2. ASSUME NEW p \in Starters, Boot(p)  PROVE PastDefault'
  <2>1. req' = req  BY <1>2 DEF Boot
  <2>2. CASE SetSequence(p)
    <3>1. seq' >= 1  BY <2>2 DEF SetSequence, SequenceHeld
    <3> QED  BY <3>1 DEF PastDefault
  <2>3. CASE ~SetSequence(p)
    <3>1. \A q \in Starters : start'[q] \in {"commit", "up"} => start[q] \in {"commit", "up"}
      BY <1>2, <2>3 DEF Boot, StartProcess, EnsureDefaultWorkspace, LockTable, InsertDefault,
                        ReadSequence, CommitDefault, StopProcess, Typed
    <3> QED  BY <1>g, <2>1, <3>1 DEF PastDefault
  <2> QED  BY <2>2, <2>3
<1>3. CASE UNCHANGED vars  BY <1>3 DEF vars, PastDefault
<1> QED  BY <1>1, <1>2, <1>3, ReqTurns

\* A handler that inserts after a turn did so before, with the same id, or has just
\* drawn the next value of the sequence.
LEMMA InsertersAfter ==
  ASSUME Typed, NEW h \in Handlers, Turn(h), NEW g \in Handlers, g \in Inserting'
  PROVE  \/ g \in Inserting /\ req'[g].ws = req[g].ws
         \/ g = h /\ Makes(h)
<1>1. CASE g # h
  BY <1>1, SMTT(30) DEF Turn, Inserting
<1>2. CASE g = h
  <2>1. CASE Begins(h)  BY <1>2, <2>1, SMTT(30) DEF Begins, Inserting
  <2>2. CASE Goes(h)  BY <1>2, <2>2, SMTT(30) DEF Goes, Inserting
  <2>3. CASE Commits(h)  BY <1>2, <2>3, IdleIs, Zenon DEF Commits, Inserting
  <2>4. CASE Ends(h)  BY <1>2, <2>4, IdleIs DEF Ends, Inserting
  <2> QED  BY <1>2, <2>1, <2>2, <2>3, <2>4 DEF Turn
<1> QED  BY <1>1, <1>2

LEMMA IdsDrawnStep ==
  ASSUME Typed, SequenceHeld, PastDefault, IdsDrawn, [Next]_vars
  PROVE  IdsDrawn'
<1>b. Bounded  BY DEF IdsDrawn
<1>g. seq \in Nat /\ seq' \in Nat /\ seq' >= seq  BY <1>b, SequenceGrows DEF Typed
<1>1. ASSUME NEW h \in Handlers, Turn(h)  PROVE IdsDrawn'
  <2>1. ASSUME NEW g \in Handlers, g \in Inserting'  PROVE req'[g].ws \in 2..seq'
    <3>1. CASE g \in Inserting /\ req'[g].ws = req[g].ws
      BY <1>g, <3>1 DEF IdsDrawn
    <3>2. CASE g = h /\ Makes(h)
      <4>1. seq >= 1  BY <3>2 DEF Makes, PastDefault
      <4> QED  BY <1>g, <3>2, <4>1 DEF Makes
    <3> QED  BY <1>1, <2>1, <3>1, <3>2, InsertersAfter
  <2>2. CASE Commits(h)
    <3>1. req[h].ws \in 2..seq  BY <2>2 DEF Commits, IdsDrawn, Inserting
    <3>2. workspaces' = workspaces \union {req[h].ws} /\ seq' = seq
      BY <2>2 DEF Commits, Committed
    <3>i. req[h].ws \in 1..seq  BY <1>g, <3>1
    <3>3. workspaces' \subseteq 1..seq'  BY <1>b, <3>i, <3>2, Zenon DEF Bounded
    <3>4. \A e \in Emails : member'[e] \subseteq member[e] \union {req[h].ws}
      BY <2>2 DEF Commits, Committed, Typed
    <3>5. \A e \in Emails : member'[e] \subseteq workspaces'
      BY <3>2, <3>4 DEF IdsDrawn
    <3> QED  BY <2>1, <3>3, <3>5 DEF IdsDrawn, Bounded, Inserting
  <2>3. CASE ~Commits(h)
    <3>1. workspaces' = workspaces /\ member' = member
      BY <1>1, <2>3, Zenon DEF Turn, Begins, Goes, Makes, Ends, Database
    <3>2. workspaces' \subseteq 1..seq'  BY <1>b, <1>g, <3>1 DEF Bounded
    <3> QED  BY <2>1, <3>1, <3>2 DEF IdsDrawn, Bounded, Inserting
  <2> QED  BY <2>2, <2>3
<1>2. ASSUME NEW p \in Starters, Boot(p)  PROVE IdsDrawn'
  <2>1. req' = req /\ member' = member /\ Inserting' = Inserting
    BY <1>2 DEF Boot, Inserting
  <2>2. workspaces \subseteq workspaces' /\ workspaces' \subseteq 1..seq'
    <3>1. CASE CommitDefault(p)
      <4>1. seq' >= 1  BY <1>g, <3>1 DEF CommitDefault, PastDefault
      <4> QED  BY <1>b, <1>g, <3>1, <4>1 DEF CommitDefault, Bounded
    <3>2. CASE ~CommitDefault(p)
      <4>1. workspaces' = workspaces
        BY <1>2, <3>2 DEF Boot, StartProcess, EnsureDefaultWorkspace, LockTable, InsertDefault,
                          ReadSequence, SetSequence, StopProcess
      <4> QED  BY <1>b, <1>g, <4>1 DEF Bounded
    <3> QED  BY <3>1, <3>2
  <2>3. \A h \in Inserting : req[h].ws \in 2..seq'  BY <1>g DEF IdsDrawn
  <2> QED  BY <2>1, <2>2, <2>3, Zenon DEF IdsDrawn, Bounded
<1>3. CASE UNCHANGED vars  BY <1>3 DEF vars, IdsDrawn, Bounded, Inserting
<1> QED  BY <1>1, <1>2, <1>3, ReqTurns

LEMMA DistinctStep ==
  ASSUME Typed, SequenceHeld, PastDefault, IdsDrawn, WorkspacesDistinct, [Next]_vars
  PROVE  WorkspacesDistinct'
<1>n. IdsDrawn'  BY IdsDrawnStep
<1>s. seq \in Nat  BY SMTT(30) DEF Typed
<1>1. ASSUME NEW h \in Handlers, Turn(h)  PROVE WorkspacesDistinct'
  \* The value just drawn is above every other.
  <2>1. ASSUME Makes(h), NEW g \in Handlers, g \in Inserting  PROVE req[g].ws < seq + 1
    BY <1>s, <2>1 DEF IdsDrawn
  <2>2. ASSUME NEW g \in Handlers, NEW f \in Handlers, g \in Inserting', f \in Inserting', g # f
        PROVE  req'[g].ws # req'[f].ws
    <3>1. CASE g \in Inserting /\ req'[g].ws = req[g].ws /\ f \in Inserting /\ req'[f].ws = req[f].ws
      BY <2>2, <3>1 DEF WorkspacesDistinct
    <3>2. CASE g \in Inserting /\ req'[g].ws = req[g].ws /\ f = h /\ Makes(h)
      <4>1. req'[f].ws = seq + 1  BY <3>2 DEF Makes
      <4>2. req[g].ws \in 2..seq  BY <3>2 DEF IdsDrawn
      <4> QED  BY <1>s, <3>2, <4>1, <4>2
    <3>3. CASE f \in Inserting /\ req'[f].ws = req[f].ws /\ g = h /\ Makes(h)
      <4>1. req'[g].ws = seq + 1  BY <3>3 DEF Makes
      <4>2. req[f].ws \in 2..seq  BY <3>3 DEF IdsDrawn
      <4> QED  BY <1>s, <3>3, <4>1, <4>2
    <3> QED  BY <1>1, <2>2, <3>1, <3>2, <3>3, InsertersAfter
  <2>3. ASSUME NEW g \in Handlers, g \in Inserting'  PROVE req'[g].ws \notin workspaces' \union {1}
    <3>1. req'[g].ws # 1  BY <1>n, <2>3 DEF IdsDrawn
    <3>2. CASE g = h /\ Makes(h)
      <4>1. req'[g].ws = seq + 1 /\ workspaces' = workspaces  BY <3>2 DEF Makes
      <4>2. workspaces \subseteq 1..seq  BY DEF IdsDrawn, Bounded
      <4> QED  BY <1>s, <3>1, <4>1, <4>2
    <3>3. CASE g \in Inserting /\ req'[g].ws = req[g].ws
      <4>1. req[g].ws \notin workspaces  BY <3>3 DEF WorkspacesDistinct
      <4>2. CASE Commits(h)
        <5>1. workspaces' = workspaces \union {req[h].ws}  BY <4>2 DEF Commits, Committed
        <5>2. g # h  BY <2>3, <4>2, IdleIs DEF Commits, Inserting
        <5>3. h \in Inserting  BY <4>2 DEF Commits, Inserting
        <5>4. req[g].ws # req[h].ws  BY <3>3, <5>2, <5>3 DEF WorkspacesDistinct
        <5> QED  BY <3>1, <3>3, <4>1, <5>1, <5>4
      <4>3. CASE ~Commits(h)
        <5>1. workspaces' = workspaces
          BY <1>1, <4>3 DEF Turn, Begins, Goes, Makes, Ends, Database
        <5> QED  BY <3>1, <3>3, <4>1, <5>1, SMTT(30)
      <4> QED  BY <4>2, <4>3
    <3> QED  BY <1>1, <2>3, <3>2, <3>3, InsertersAfter
  <2>4. \A e, f \in Emails : e # f => member'[e] \intersect member'[f] = {}
    <3>1. CASE Commits(h)
      <4>1. h \in Inserting /\ req[h].pc # "idle"  BY <3>1 DEF Commits, Inserting
      <4>2. req[h].ws \notin workspaces  BY <4>1 DEF WorkspacesDistinct
      <4>3. \A e \in Emails : req[h].ws \notin member[e]  BY <4>2, SMTT(30) DEF IdsDrawn
      <4>4. \A e \in Emails : member'[e] = IF e = req[h].user THEN member[e] \union {req[h].ws}
                                                             ELSE member[e]
        BY <3>1, <4>1, Zenon DEF Commits, Committed, Typed
      <4>5. \A e, f \in Emails : e # f => member[e] \intersect member[f] = {}
        BY DEF WorkspacesDistinct
      <4>6. ASSUME NEW e \in Emails, NEW f \in Emails, e # f
            PROVE  \A i \in member'[e] : i \notin member'[f]
        <5>1. \A i \in member[e] : i \notin member[f]  BY <4>5, <4>6, SMTT(30)
        <5>2. CASE e = req[h].user  BY <4>3, <4>4, <4>6, <5>1, <5>2, Zenon
        <5>3. CASE f = req[h].user  BY <4>3, <4>4, <4>6, <5>1, <5>3, Zenon
        <5>4. CASE e # req[h].user /\ f # req[h].user  BY <4>4, <5>1, <5>4, Zenon
        <5> QED  BY <5>2, <5>3, <5>4
      <4> QED  BY <4>6, Zenon
    <3>2. CASE ~Commits(h)
      <4>1. member' = member
        BY <1>1, <3>2 DEF Turn, Begins, Goes, Makes, Ends, Database
      <4> QED  BY <4>1, SMTT(30) DEF WorkspacesDistinct
    <3> QED  BY <3>1, <3>2
  <2>5. Inserting' \subseteq Handlers  BY SMTT(30) DEF Inserting
  <2> QED  BY <2>2, <2>3, <2>4, <2>5 DEF WorkspacesDistinct
<1>2. ASSUME NEW p \in Starters, Boot(p)  PROVE WorkspacesDistinct'
  <2>1. req' = req /\ member' = member /\ Inserting' = Inserting
    BY <1>2, SMTT(30) DEF Boot, Inserting
  <2>2. workspaces' = workspaces \/ workspaces' = workspaces \union {1}
    BY <1>2, SMTT(30) DEF Boot, StartProcess, EnsureDefaultWorkspace, LockTable, InsertDefault,
                ReadSequence, SetSequence, CommitDefault, StopProcess
  <2> QED  BY <2>1, <2>2 DEF WorkspacesDistinct
<1>3. CASE UNCHANGED vars  BY <1>3 DEF vars, WorkspacesDistinct, Inserting
<1> QED  BY <1>1, <1>2, <1>3, ReqTurns

\* The ids and the types together.
Base == Typed /\ IdsDrawn /\ SequenceHeld /\ PastDefault

LEMMA InitBase == ASSUME Init PROVE Base
<1>1. Typed
  <2>1. Legacy \subseteq Emails  BY AccountsAssumption
  <2>2. NoSession \in [ttl : BOOLEAN, known : BOOLEAN, there : BOOLEAN]  BY DEF NoSession
  <2>3. sessions \in [1..MaxRequests -> [ttl : BOOLEAN, known : BOOLEAN, there : BOOLEAN]]
    BY <2>2 DEF Init
  <2>4. req \in [Handlers -> ReqState] /\ \A h \in Handlers : req[h] = Idle /\ req[h].pc = "idle"
    BY IdleIs DEF Init
  <2> QED  BY <2>1, <2>3, <2>4 DEF Init, Typed
<1>2. \A h \in Handlers : req[h].pc = "idle"  BY IdleIs DEF Init
<1>3. Inserting = {} /\ Locking = {}  BY <1>2 DEF Init, Inserting, Locking
<1> QED  BY <1>1, <1>2, <1>3 DEF Base, Init, IdsDrawn, Bounded, SequenceHeld, PastDefault

LEMMA BaseStep == ASSUME Base, [Next]_vars PROVE Base'
  BY BoundedTyped, IdsDrawnStep, SequenceHeldStep, PastDefaultStep DEF Base, IdsDrawn

\* No id is drawn twice: neither restarts that set the sequence nor rollbacks that
\* leave gaps in it make CreateUserWithWorkspace or CreateWorkspaceForUser fail on a
\* taken id, or two users share a workspace.
THEOREM IdsAreDistinct == Spec => []WorkspacesDistinct
<1>1. Init => Base /\ WorkspacesDistinct
  <2> SUFFICES ASSUME Init PROVE Base /\ WorkspacesDistinct  OBVIOUS
  <2>1. Inserting = {}  BY IdleIs DEF Init, Inserting
  <2> QED  BY <2>1, InitBase DEF Init, WorkspacesDistinct
<1>2. Base /\ WorkspacesDistinct /\ [Next]_vars => (Base /\ WorkspacesDistinct)'
  BY BaseStep, DistinctStep DEF Base
<1> QED  BY <1>1, <1>2, PTL DEF Spec

\* "a failed workspace or membership insert cannot orphan a user": users, workspace
\* and membership become visible by one COMMIT.
THEOREM UsersHaveWorkspaces == Spec => []NoOrphan
<1>1. Init => Base /\ NoOrphan
  BY InitBase DEF Init, NoOrphan
<1>2. Base /\ NoOrphan /\ [Next]_vars => NoOrphan'
  <2> SUFFICES ASSUME Base, NoOrphan, [Next]_vars PROVE NoOrphan'  OBVIOUS
  <2>t. Typed  BY DEF Base
  <2>1. ASSUME NEW h \in Handlers, Turn(h)  PROVE NoOrphan'
    <3>1. CASE Commits(h)
      <4>1. req[h].user \in Emails  BY <2>t, <3>1 DEF Commits, Typed
      <4>2. /\ users' = users \union {req[h].user}
            /\ \A e \in Emails : member'[e] = IF e = req[h].user THEN member[e] \union {req[h].ws}
                                                                 ELSE member[e]
        BY <2>t, <3>1, <4>1, Zenon DEF Commits, Committed, Typed
      <4> QED  BY <2>t, <4>1, <4>2, Zenon DEF NoOrphan, Typed
    <3>2. CASE ~Commits(h)
      BY <2>1, <3>2, Zenon DEF Turn, Begins, Goes, Makes, Ends, Database, NoOrphan
    <3> QED  BY <3>1, <3>2
  <2>2. ASSUME NEW p \in Starters, Boot(p)  PROVE NoOrphan'
    BY <2>2 DEF Boot, NoOrphan
  <2>3. CASE UNCHANGED vars  BY <2>3 DEF vars, NoOrphan
  <2> QED  BY <2>t, <2>1, <2>2, <2>3, ReqTurns
<1>3. Base /\ [Next]_vars => Base'
  BY BaseStep
<1> QED  BY <1>1, <1>2, <1>3, PTL DEF Spec

----------------------------------------------------------------------------
(* Logins that make a workspace.                                           *)

Creating(e) == {h \in Handlers : req[h].user = e /\ req[h].pc \in Creates}

\* The workspaces of a user and the requests about to add one: nobody joins these
\* once the user has a workspace.
DuplicatesKept ==
    \A e \in Emails : /\ IsFiniteSet(member[e])
                      /\ Cardinality(member[e]) + Cardinality(Creating(e)) <= Cardinality(Handlers)
                      /\ member[e] # {} => e \in users

LEMMA CreatingCounts ==
  ASSUME NEW S, S \subseteq Handlers
  PROVE  IsFiniteSet(S) /\ Cardinality(S) \in Nat /\ Cardinality(S) <= Cardinality(Handlers)
  BY AccountsAssumption, FS_Subset, FS_CardinalityType

\* A user who has a workspace is known and asks for no other.
LEMMA NobodyJoins ==
  ASSUME Typed, DuplicatesKept, NEW h \in Handlers, Turn(h), NEW e \in Emails, member[e] # {}
  PROVE  Creating(e)' \subseteq Creating(e)
<1>1. e \in users  BY DEF DuplicatesKept
<1> SUFFICES ASSUME NEW g \in Handlers, req'[g].user = e, req'[g].pc \in Creates
             PROVE  req[g].user = e /\ req[g].pc \in Creates
  BY DEF Creating
<1>2. CASE g # h  BY <1>2, SMTT(30) DEF Turn
<1>3. CASE g = h
  <2>1. CASE Begins(h)  BY <1>3, <2>1, SMTT(30) DEF Begins, Creates
  <2>2. CASE Goes(h)  BY <1>1, <1>3, <2>2, SMTT(30) DEF Goes, Kept, Creates
  <2>3. CASE Makes(h)  BY <1>3, <2>3, SMTT(30) DEF Makes, Kept, Creates
  <2>4. CASE Commits(h)  BY <1>3, <2>4, IdleIs DEF Commits, Creates
  <2>5. CASE Ends(h)  BY <1>3, <2>5, IdleIs DEF Ends, Creates
  <2> QED  BY <2>1, <2>2, <2>3, <2>4, <2>5, SMTT(30) DEF Turn
<1> QED  BY <1>2, <1>3

LEMMA DuplicatesStep ==
  ASSUME Typed, DuplicatesKept, [Next]_vars
  PROVE  DuplicatesKept'
<1>1. ASSUME NEW h \in Handlers, Turn(h)  PROVE DuplicatesKept'
  <2> SUFFICES ASSUME NEW e \in Emails
               PROVE  /\ IsFiniteSet(member'[e])
                      /\ Cardinality(member'[e]) + Cardinality(Creating(e)') <= Cardinality(Handlers)
                      /\ member'[e] # {} => e \in users'
    BY DEF DuplicatesKept
  <2>c. /\ Creating(e) \subseteq Handlers /\ Creating(e)' \subseteq Handlers
        /\ Cardinality(Handlers) \in Nat
    BY AccountsAssumption, FS_CardinalityType DEF Creating
  <2>k. /\ IsFiniteSet(Creating(e)) /\ Cardinality(Creating(e)) \in Nat
        /\ IsFiniteSet(Creating(e)') /\ Cardinality(Creating(e)') \in Nat
        /\ Cardinality(Creating(e)') <= Cardinality(Handlers)
    BY <2>c, CreatingCounts
  <2>m. /\ IsFiniteSet(member[e]) /\ Cardinality(member[e]) \in Nat
        /\ Cardinality(member[e]) + Cardinality(Creating(e)) <= Cardinality(Handlers)
        /\ member[e] # {} => e \in users
    BY FS_CardinalityType DEF DuplicatesKept
  <2>1. CASE Commits(h) /\ req[h].user = e
    <3>1. member'[e] = member[e] \union {req[h].ws} /\ e \in users'
      BY <2>1, SMTT(30) DEF Commits, Committed, Typed
    <3>2. IsFiniteSet(member'[e]) /\ Cardinality(member'[e]) <= Cardinality(member[e]) + 1
      <4>1. IsFiniteSet(member[e] \union {req[h].ws})
        BY <2>m, FS_AddElement
      <4>2. \/ Cardinality(member[e] \union {req[h].ws}) = Cardinality(member[e])
            \/ Cardinality(member[e] \union {req[h].ws}) = Cardinality(member[e]) + 1
        BY <2>m, FS_AddElement, Zenon
      <4> QED  BY <2>m, <3>1, <4>1, <4>2
    <3>3. h \in Creating(e) /\ h \notin Creating(e)'
      BY <2>1, IdleIs DEF Commits, Creating, Creates
    <3>4. Creating(e)' \subseteq Creating(e) \ {h}
      <4>1. \A g \in Handlers : g # h => req'[g] = req[g]  BY <1>1 DEF Turn
      <4> QED  BY <3>3, <4>1 DEF Creating
    <3>5. /\ IsFiniteSet(Creating(e) \ {h})
          /\ Cardinality(Creating(e) \ {h}) = Cardinality(Creating(e)) - 1
      BY <2>k, <3>3, FS_RemoveElement
    <3>6. Cardinality(Creating(e)') <= Cardinality(Creating(e)) - 1
      BY <3>4, <3>5, FS_Subset
    <3>7. Cardinality(member'[e]) \in Nat  BY <3>2, FS_CardinalityType
    <3> QED  BY <2>c, <2>k, <2>m, <3>1, <3>2, <3>6, <3>7, SMTT(30)
  <2>2. CASE ~(Commits(h) /\ req[h].user = e)
    <3>1. member'[e] = member[e] /\ users \subseteq users'
      BY <1>1, <2>2, Zenon DEF Turn, Begins, Goes, Makes, Commits, Committed, Ends, Database, Typed
    <3>2. CASE member[e] = {}
      <4>1. Cardinality(member'[e]) = 0  BY <3>1, <3>2, FS_EmptySet, Zenon
      <4> QED  BY <2>c, <2>k, <2>m, <3>1, <3>2, <4>1, SMTT(60)
    <3>3. CASE member[e] # {}
      <4>1. Creating(e)' \subseteq Creating(e)  BY <1>1, <3>3, NobodyJoins
      <4>2. Cardinality(Creating(e)') <= Cardinality(Creating(e))
        BY <2>k, <4>1, FS_Subset
      <4> QED  BY <2>c, <2>k, <2>m, <3>1, <4>2, SMTT(30)
    <3> QED  BY <3>2, <3>3, SMTT(30)
  <2> QED  BY <2>1, <2>2
<1>2. ASSUME NEW p \in Starters, Boot(p)  PROVE DuplicatesKept'
  BY <1>2 DEF Boot, DuplicatesKept, Creating
<1>3. CASE UNCHANGED vars  BY <1>3 DEF vars, DuplicatesKept, Creating
<1> QED  BY <1>1, <1>2, <1>3, ReqTurns

\* Logins of a user without a workspace may each make one, but never more than can
\* be in flight together: GetUserWorkspace stops every later login.
THEOREM FewDuplicates == Spec => []DuplicatesBounded
<1>1. Init => Base /\ DuplicatesKept
  <2> SUFFICES ASSUME Init PROVE DuplicatesKept  BY InitBase
  <2> SUFFICES ASSUME NEW e \in Emails
               PROVE  /\ IsFiniteSet(member[e])
                      /\ Cardinality(member[e]) + Cardinality(Creating(e)) <= Cardinality(Handlers)
                      /\ member[e] # {} => e \in users
    BY DEF DuplicatesKept
  <2>1. Creating(e) = {} /\ member[e] = {}
    BY IdleIs DEF Init, Creating, Creates
  <2> QED  BY <2>1, FS_EmptySet, FS_CardinalityType, AccountsAssumption
<1>2. Base /\ DuplicatesKept /\ [Next]_vars => (Base /\ DuplicatesKept)'
  BY BaseStep, DuplicatesStep DEF Base
<1>3. DuplicatesKept => DuplicatesBounded
  <2> SUFFICES ASSUME DuplicatesKept, NEW e \in Emails
               PROVE  Cardinality(member[e]) <= Cardinality(Handlers)
    BY DEF DuplicatesBounded
  <2>1. Creating(e) \subseteq Handlers  BY DEF Creating
  <2>2. Cardinality(Creating(e)) \in Nat /\ Cardinality(Handlers) \in Nat
    BY <2>1, CreatingCounts, AccountsAssumption, FS_CardinalityType
  <2>3. /\ Cardinality(member[e]) \in Nat
        /\ Cardinality(member[e]) + Cardinality(Creating(e)) <= Cardinality(Handlers)
    BY FS_CardinalityType DEF DuplicatesKept
  <2> QED  BY <2>2, <2>3
<1> QED  BY <1>1, <1>2, <1>3, PTL DEF Spec

----------------------------------------------------------------------------
(* Sign-ups for one address.                                               *)

\* A sign-up that has inserted its user and is not yet answered.
Ahead(h, e) == /\ req[h].signup /\ req[h].user = e
               /\ req[h].pc \in Creates \union {"hset", "expire"}

\* The user of an uncommitted sign-up is not visible; that of a committed one, or of
\* a login past GetUserByEmail, is.
UsersSeen ==
    \A h \in Handlers :
        /\ req[h].signup /\ req[h].pc \in Creates => req[h].user \notin users
        /\ req[h].signup /\ req[h].pc \in {"hset", "expire"} => req[h].user \in users
        /\ ~req[h].signup /\ req[h].pc \in Creates \union {"upgrade", "getWorkspace", "getAgain"}
             => req[h].user \in users

Settled(e) == won[e] = 1 /\ e \in users /\ \A h \in Handlers : ~Ahead(h, e)

\* One sign-up of an address is ahead of the others, until one is answered 201.
OneAhead ==
    /\ \A g, h \in Handlers : \A e \in Emails : Ahead(g, e) /\ Ahead(h, e) => g = h
    /\ \A e \in Emails : won[e] = 0 \/ Settled(e)

LEMMA UsersGrow ==
  ASSUME Typed, [Next]_vars
  PROVE  users \subseteq users'
<1>1. ASSUME NEW h \in Handlers, Turn(h)  PROVE users \subseteq users'
  BY <1>1 DEF Turn, Begins, Goes, Makes, Commits, Committed, Ends, Database
<1> QED  BY <1>1, ReqTurns, SMTT(30) DEF Boot, vars

LEMMA UsersSeenStep ==
  ASSUME Typed, UsersSeen, OneAhead, [Next]_vars
  PROVE  UsersSeen'
<1>u. users \subseteq users'  BY UsersGrow
<1>1. ASSUME NEW h \in Handlers, Turn(h)  PROVE UsersSeen'
  <2>1. ASSUME NEW g \in Handlers, g # h
        PROVE  /\ req'[g].signup /\ req'[g].pc \in Creates => req'[g].user \notin users'
               /\ req'[g].signup /\ req'[g].pc \in {"hset", "expire"} => req'[g].user \in users'
               /\ ~req'[g].signup /\ req'[g].pc \in Creates \union {"upgrade", "getWorkspace", "getAgain"}
                    => req'[g].user \in users'
    <3>1. req'[g] = req[g]  BY <1>1, <2>1 DEF Turn
    <3>2. ASSUME req[g].signup, req[g].pc \in Creates  PROVE req[g].user \notin users'
      <4>1. req[g].user \notin users  BY <3>2 DEF UsersSeen
      <4>2. req[g].user \in Emails /\ Ahead(g, req[g].user)
        BY <3>2 DEF Ahead, Typed, Creates
      <4>3. CASE Commits(h)
        <5>1. users' = users \union {req[h].user}  BY <4>3 DEF Commits, Committed
        <5>2. CASE req[h].signup
          <6>1. Ahead(h, req[h].user)  BY <4>3, <5>2 DEF Commits, Ahead, Creates
          <6> QED  BY <2>1, <4>1, <4>2, <5>1, <6>1 DEF OneAhead
        <5>3. CASE ~req[h].signup
          <6>1. req[h].user \in users  BY <4>3, <5>3 DEF Commits, UsersSeen, Creates
          <6> QED  BY <4>1, <5>1, <6>1
        <5> QED  BY <5>2, <5>3
      <4>4. CASE ~Commits(h)
        <5>1. users' = users  BY <1>1, <4>4, Zenon DEF Turn, Begins, Goes, Makes, Ends, Database
        <5> QED  BY <4>1, <5>1, SMTT(30)
      <4> QED  BY <4>3, <4>4
    <3> QED  BY <1>u, <3>1, <3>2, SMTT(30) DEF UsersSeen
  <2>2. /\ req'[h].signup /\ req'[h].pc \in Creates => req'[h].user \notin users'
        /\ req'[h].signup /\ req'[h].pc \in {"hset", "expire"} => req'[h].user \in users'
        /\ ~req'[h].signup /\ req'[h].pc \in Creates \union {"upgrade", "getWorkspace", "getAgain"}
             => req'[h].user \in users'
    <3>1. CASE Begins(h)  BY <3>1, SMTT(30) DEF Begins, Creates
    <3>2. CASE Goes(h)
      <4>1. users' = users  BY <3>2 DEF Goes, Database
      <4> QED  BY <3>2, <4>1, SMTT(30) DEF Goes, Kept, UsersSeen, Creates
    <3>3. CASE Makes(h)
      BY <3>3 DEF Makes, Kept, UsersSeen, Creates
    <3>4. CASE Commits(h)
      BY <3>4, IdleIs, Zenon DEF Commits, Committed, Kept, Creates
    <3>5. CASE Ends(h)  BY <3>5, IdleIs, Zenon DEF Ends, Creates
    <3> QED  BY <1>1, <3>1, <3>2, <3>3, <3>4, <3>5, Zenon DEF Turn
  <2> QED  BY <2>1, <2>2 DEF UsersSeen
<1>2. ASSUME NEW p \in Starters, Boot(p)  PROVE UsersSeen'
  BY <1>2 DEF Boot, UsersSeen
<1>3. CASE UNCHANGED vars  BY <1>3 DEF vars, UsersSeen
<1> QED  BY <1>1, <1>2, <1>3, ReqTurns

\* Who is ahead after a turn was so before, or has just found the address free.
LEMMA AheadAfter ==
  ASSUME Typed, UsersSeen, OneAhead, NEW h \in Handlers, Turn(h),
         NEW g \in Handlers, NEW e \in Emails, Ahead(g, e)'
  PROVE  \/ Ahead(g, e)
         \/ g = h /\ e \notin users /\ UNCHANGED won /\ \A f \in Handlers : ~Ahead(f, e)
<1>1. CASE g # h  BY <1>1, SMTT(30) DEF Turn, Ahead
<1>2. CASE g = h
  <2>1. CASE Begins(h)  BY <1>2, <2>1 DEF Begins, Ahead, Creates
  <2>2. CASE Goes(h)
    <3>1. CASE req[h].pc = "insertUser"
      <4>1. req[h].user = e /\ e \notin users /\ ~Pending(e) /\ UNCHANGED won
        BY <1>2, <2>2, <3>1 DEF Goes, Kept, Ahead
      <4>2. \A f \in Handlers : ~Ahead(f, e)
        BY <4>1, SMTT(30) DEF Pending, Ahead, UsersSeen, Creates
      <4> QED  BY <1>2, <4>1, <4>2, SMTT(30)
    <3>2. CASE req[h].pc # "insertUser"
      BY <1>2, <2>2, <3>2, Zenon DEF Goes, Kept, Ahead, Creates
    <3> QED  BY <3>1, <3>2
  <2>3. CASE Makes(h)  BY <1>2, <2>3 DEF Makes, Kept, Ahead, Creates
  <2>4. CASE Commits(h)  BY <1>2, <2>4, IdleIs, Zenon DEF Commits, Kept, Ahead, Creates
  <2>5. CASE Ends(h)  BY <1>2, <2>5, IdleIs, Zenon DEF Ends, Ahead, Creates
  <2> QED  BY <2>1, <2>2, <2>3, <2>4, <2>5, SMTT(30) DEF Turn
<1> QED  BY <1>1, <1>2, SMTT(30)

LEMMA OneAheadStep ==
  ASSUME Typed, UsersSeen, OneAhead, [Next]_vars
  PROVE  OneAhead'
<1>1. ASSUME NEW h \in Handlers, Turn(h)  PROVE OneAhead'
  <2>1. ASSUME NEW f \in Handlers, NEW g \in Handlers, NEW e \in Emails, Ahead(f, e)', Ahead(g, e)'
        PROVE  f = g
    <3>1. \/ Ahead(f, e)
          \/ f = h /\ \A i \in Handlers : ~Ahead(i, e)
      BY <1>1, <2>1, AheadAfter
    <3>2. \/ Ahead(g, e)
          \/ g = h /\ \A i \in Handlers : ~Ahead(i, e)
      BY <1>1, <2>1, AheadAfter
    <3> QED  BY <3>1, <3>2 DEF OneAhead
  <2>2. ASSUME NEW e \in Emails
        PROVE  won'[e] = 0 \/ Settled(e)'
    <3>1. CASE won' = won
      <4>1. CASE won[e] = 0  BY <3>1, <4>1
      <4>2. CASE Settled(e)
        <5>1. \A g \in Handlers : ~Ahead(g, e)'  BY <1>1, <4>2, AheadAfter DEF Settled
        <5> QED  BY <3>1, <4>2, <5>1, UsersGrow DEF Settled
      <4> QED  BY <4>1, <4>2 DEF OneAhead
    <3>2. CASE won' # won
      <4>1. /\ Ends(h) /\ req[h].pc = "expire" /\ req[h].signup
            /\ won' = [won EXCEPT ![req[h].user] = @ + 1]
        BY <1>1, <3>2, Zenon DEF Turn, Begins, Goes, Makes, Commits, Ends
      <4>2. users' = users /\ req'[h] = Idle  BY <4>1 DEF Ends, Database
      <4>3. CASE e # req[h].user
        <5>1. won'[e] = won[e]  BY <4>1, <4>3 DEF Typed
        <5>2. ASSUME NEW g \in Handlers, Ahead(g, e)'  PROVE Ahead(g, e)
          BY <1>1, <3>2, <5>2, AheadAfter
        <5> QED  BY <4>2, <5>1, <5>2 DEF OneAhead, Settled
      <4>4. CASE e = req[h].user
        <5>1. Ahead(h, e)  BY <4>1, <4>4 DEF Ahead
        <5>2. won[e] = 0  BY <5>1 DEF OneAhead, Settled
        <5>3. won'[e] = 1  BY <4>1, <4>4, <5>2 DEF Typed
        <5>4. e \in users  BY <4>1, <4>4 DEF UsersSeen
        <5>5. ASSUME NEW g \in Handlers, Ahead(g, e)'  PROVE FALSE
          <6>1. Ahead(g, e)  BY <1>1, <3>2, <5>5, AheadAfter
          <6>2. g = h  BY <5>1, <6>1, SMTT(30) DEF OneAhead
          <6> QED  BY <4>2, <5>5, <6>2, IdleIs DEF Ahead
        <5> QED  BY <4>2, <5>3, <5>4, <5>5 DEF Settled
      <4> QED  BY <4>3, <4>4, SMTT(30)
    <3> QED  BY <3>1, <3>2
  <2> QED  BY <2>1, <2>2 DEF OneAhead
<1>2. ASSUME NEW p \in Starters, Boot(p)  PROVE OneAhead'
  BY <1>2, Zenon DEF Boot, OneAhead, Settled, Ahead
<1>3. CASE UNCHANGED vars  BY <1>3, Zenon DEF vars, OneAhead, Settled, Ahead
<1> QED  BY <1>1, <1>2, <1>3, ReqTurns

\* Of the sign-ups for one address, EmailExists and the unique index let one be
\* answered 201.
THEOREM OneSignupPerAddress == Spec => []OneSignupWins
<1>1. Init => Base /\ UsersSeen /\ OneAhead
  <2> SUFFICES ASSUME Init PROVE UsersSeen /\ OneAhead  BY InitBase
  <2>1. \A h \in Handlers : ~req[h].signup /\ req[h].pc = "idle"  BY IdleIs DEF Init
  <2>2. UsersSeen  BY <2>1 DEF UsersSeen, Creates
  <2>3. OneAhead  BY <2>1 DEF Init, OneAhead, Ahead
  <2> QED  BY <2>2, <2>3
<1>2. Base /\ UsersSeen /\ OneAhead /\ [Next]_vars => (Base /\ UsersSeen /\ OneAhead)'
  BY BaseStep, UsersSeenStep, OneAheadStep DEF Base
<1>3. OneAhead => OneSignupWins
  BY DEF OneAhead, Settled, OneSignupWins
<1> QED  BY <1>1, <1>2, <1>3, PTL DEF Spec

----------------------------------------------------------------------------
(* Sessions.                                                               *)

\* EXPIRE is sent for a hash that exists.
HashBeforeExpire == \A h \in Handlers : req[h].pc = "expire" => sessions[req[h].id].there

LEMMA SessionsStep ==
  ASSUME Typed, HashBeforeExpire, KnownSessionsExpire, [Next]_vars
  PROVE  HashBeforeExpire' /\ KnownSessionsExpire'
<1>1. ASSUME NEW h \in Handlers, Turn(h)  PROVE HashBeforeExpire' /\ KnownSessionsExpire'
  <2>1. CASE HSet(h)
    <3>1. req[h].id \in 1..MaxRequests /\ req[h].pc = "hset"  BY <2>1 DEF HSet, Typed
    <3>2. \A i \in 1..MaxRequests : /\ sessions'[i].known = sessions[i].known
                                    /\ sessions'[i].ttl = sessions[i].ttl
                                    /\ sessions[i].there \/ i = req[h].id => sessions'[i].there
      BY <2>1, <3>1 DEF HSet, Typed
    <3>3. \A g \in Handlers : req'[g].pc = "expire" => /\ req'[g].id = req[g].id
                                                       /\ req'[g].id \in 1..MaxRequests
                                                       /\ g = h \/ req[g].pc = "expire"
      BY <2>1, <3>1 DEF HSet, Goto, Typed
    <3> QED  BY <3>2, <3>3 DEF HashBeforeExpire, KnownSessionsExpire
  <2>2. CASE Expire(h)
    <3>1. req[h].id \in 1..MaxRequests /\ sessions[req[h].id].there
      BY <2>2 DEF Expire, Typed, HashBeforeExpire
    <3>2. \A i \in 1..MaxRequests :
            /\ sessions'[i].there = sessions[i].there
            /\ sessions[i].ttl => sessions'[i].ttl
            /\ \/ sessions'[i].known = sessions[i].known
               \/ i = req[h].id /\ sessions'[i].ttl
      <4>1. sessions \in [1..MaxRequests -> [ttl : BOOLEAN, known : BOOLEAN, there : BOOLEAN]]
        BY DEF Typed
      <4>2. \/ sessions' = [sessions EXCEPT ![req[h].id] = [@ EXCEPT !.ttl = TRUE, !.known = TRUE]]
            \/ sessions' = sessions
            \/ sessions' = [sessions EXCEPT ![req[h].id] = [@ EXCEPT !.ttl = TRUE]]
        BY <2>2 DEF Expire
      <4>3. CASE sessions' = sessions  BY <4>3
      <4>4. CASE sessions' = [sessions EXCEPT ![req[h].id] = [@ EXCEPT !.ttl = TRUE]]
        BY <3>1, <4>1, <4>4
      <4>5. CASE sessions' = [sessions EXCEPT ![req[h].id] = [@ EXCEPT !.ttl = TRUE, !.known = TRUE]]
        BY <3>1, <4>1, <4>5, Zenon
      <4> QED  BY <4>2, <4>3, <4>4, <4>5
    <3>3. \A g \in Handlers : req'[g].pc = "expire" => req'[g] = req[g] /\ req[g].id \in 1..MaxRequests
      <4>1. Answer(h)  BY <2>2 DEF Expire, Succeed
      <4> QED  BY <4>1, AnswerMoves, IdleIs DEF Typed
    <3> QED  BY <3>1, <3>2, <3>3 DEF HashBeforeExpire, KnownSessionsExpire
  <2>3. CASE ~HSet(h) /\ ~Expire(h)
    <3>1. sessions' = sessions  BY <1>1, <2>3, SMTT(30) DEF Turn
    <3>2. \A g \in Handlers : req'[g].pc = "expire" => req'[g] = req[g]
      BY <1>1, <2>3, IdleIs, Zenon DEF Turn, Begins, Goes, Makes, Commits, Ends
    <3> QED  BY <3>1, <3>2, SMTT(30) DEF HashBeforeExpire, KnownSessionsExpire
  <2> QED  BY <2>1, <2>2, <2>3
<1>2. ASSUME NEW p \in Starters, Boot(p)  PROVE HashBeforeExpire' /\ KnownSessionsExpire'
  BY <1>2, Zenon DEF Boot, HashBeforeExpire, KnownSessionsExpire
<1>3. CASE UNCHANGED vars
  BY <1>3 DEF vars, HashBeforeExpire, KnownSessionsExpire
<1> QED  BY <1>1, <1>2, <1>3, ReqTurns

\* A session id in a client's hands belongs to a hash that is there and expires:
\* SessionStore.Create returns it after HSET and EXPIRE alone.
THEOREM SessionsExpire == Spec => []KnownSessionsExpire
<1>1. Init => Base /\ HashBeforeExpire /\ KnownSessionsExpire
  <2> SUFFICES ASSUME Init PROVE HashBeforeExpire /\ KnownSessionsExpire  BY InitBase
  <2>1. HashBeforeExpire  BY IdleIs DEF Init, HashBeforeExpire
  <2>2. \A i \in 1..MaxRequests : sessions[i] = NoSession  BY DEF Init
  <2>3. NoSession.known = FALSE  BY DEF NoSession
  <2>4. KnownSessionsExpire  BY <2>2, <2>3 DEF KnownSessionsExpire
  <2> QED  BY <2>1, <2>4
<1>2. /\ Base /\ HashBeforeExpire /\ KnownSessionsExpire /\ [Next]_vars
      => (Base /\ HashBeforeExpire /\ KnownSessionsExpire)'
  BY BaseStep, SessionsStep DEF Base
<1> QED  BY <1>1, <1>2, PTL DEF Spec
=============================================================================
