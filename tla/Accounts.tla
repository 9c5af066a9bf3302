------------------------------ MODULE Accounts ------------------------------
(***************************************************************************)
(* Signup and Login up to the session cookie, and the bootstrap of the     *)
(* default workspace by processes that start meanwhile: transactions       *)
(* statement by statement, the workspaces sequence, which no rollback      *)
(* resets, the session hash in Redis and its time to live.  The password   *)
(* check and the limiter before it are LoginLimiter.                       *)
(***************************************************************************)
EXTENDS Naturals, FiniteSets

CONSTANTS
    Handlers,     \* requests in flight
    Starters,     \* processes of the service
    Emails,
    Legacy,       \* users of an older release, without a workspace
    OldHashes,    \* those of them whose password hash is of that release too
    MaxRequests,  \* bound on requests
    MaxStarts,    \* bound on starts of processes
    MaxFaults     \* bound on failed statements and crashes

ASSUME AccountsAssumption ==
    /\ OldHashes \subseteq Legacy /\ Legacy \subseteq Emails
    /\ IsFiniteSet(Handlers)
    /\ {MaxRequests, MaxStarts, MaxFaults} \subseteq Nat

VARIABLES
    users,       \* rows of users
    sha,         \* the users whose password hash is of the older release
    workspaces,  \* ids in workspaces
    member,      \* user_workspaces: the workspaces of each user, as administrator
    seq,         \* last value of the id sequence of workspaces, 0 before the first
    start,       \* the step of each process's bootstrap
    read,        \* the value it has computed for the sequence
    req,         \* what each handler does: step, request number, user, new workspace
    sessions,    \* the session of each request: none, or whether it has a time to
                 \* live and whether its id was answered
    requests, starts, faults,
    won          \* observer, read by no guard: sign-ups answered 201 per address

vars == <<users, sha, workspaces, member, seq, start, read, req, sessions,
          requests, starts, faults, won>>

Ids == 0..(MaxRequests + 1)
Idle == [pc |-> "idle", id |-> 0, user |-> "", ws |-> 0, signup |-> FALSE]
Steps == {"exists", "insertUser", "insertWorkspace", "insertMembership", "commit",
          "getUser", "upgrade", "getWorkspace", "getAgain", "hset", "expire"}
NoSession == [ttl |-> FALSE, known |-> FALSE, there |-> FALSE]

TypeOK ==
    /\ users \subseteq Emails /\ sha \subseteq users /\ workspaces \subseteq Ids /\ seq \in Ids
    /\ member \in [Emails -> SUBSET Ids]
    /\ start \in [Starters -> {"down", "lock", "insert", "last", "setval", "commit", "up"}]
    /\ read \in [Starters -> Ids]
    /\ \A h \in Handlers : req[h] = Idle \/
         req[h] \in [pc : Steps, id : 1..MaxRequests, user : Emails, ws : Ids, signup : BOOLEAN]
    /\ sessions \in [1..MaxRequests -> [ttl : BOOLEAN, known : BOOLEAN, there : BOOLEAN]]
    /\ requests \in 0..MaxRequests /\ starts \in 0..MaxStarts /\ faults \in 0..MaxFaults
    /\ won \in [Emails -> 0..MaxRequests]

Init ==
    /\ users = Legacy /\ sha = OldHashes /\ workspaces = {} /\ member = [e \in Emails |-> {}] /\ seq = 0
    /\ start = [p \in Starters |-> "down"] /\ read = [p \in Starters |-> 0]
    /\ req = [h \in Handlers |-> Idle]
    /\ sessions = [i \in 1..MaxRequests |-> NoSession]
    /\ requests = 0 /\ starts = 0 /\ faults = 0 /\ won = [e \in Emails |-> 0]

----------------------------------------------------------------------------
(* Locks of the database.                                                  *)

\* INSERT INTO workspaces holds a lock until the transaction ends.
Inserting == {h \in Handlers : req[h].pc \in {"insertMembership", "commit"}}
\* Mutant: workspaces are inserted while the sequence is adjusted.
LockingNever == {}

\* LOCK TABLE workspaces IN SHARE ROW EXCLUSIVE MODE.
Locking == {p \in Starters : start[p] \in {"insert", "last", "setval", "commit"}}
\* The row of users another transaction has inserted and not yet committed.
Pending(e) == \E h \in Handlers : req[h].signup /\ req[h].user = e
                  /\ req[h].pc \in {"insertWorkspace", "insertMembership", "commit"}

----------------------------------------------------------------------------
(* EnsureDefaultWorkspace, at every start of a process.                    *)

StartProcess(p) ==
    /\ start[p] = "down" /\ starts < MaxStarts
    /\ starts' = starts + 1
    /\ start' = [start EXCEPT ![p] = "lock"]
    /\ UNCHANGED <<users, sha, workspaces, member, seq, read, req, sessions, requests, faults, won>>

LockTable(p) ==
    /\ start[p] = "lock" /\ Locking = {} /\ Inserting = {}
    /\ start' = [start EXCEPT ![p] = "insert"]
    /\ UNCHANGED <<users, sha, workspaces, member, seq, read, req, sessions, requests, starts, faults, won>>

\* INSERT of id 1, ON CONFLICT DO NOTHING; it shows to others at the commit.
InsertDefault(p) ==
    /\ start[p] = "insert"
    /\ start' = [start EXCEPT ![p] = "last"]
    /\ UNCHANGED <<users, sha, workspaces, member, seq, read, req, sessions, requests, starts, faults, won>>

\* The argument of setval, and setval itself, which takes effect at once.
ReadSequence(p) ==
    /\ start[p] = "last"
    /\ read' = [read EXCEPT ![p] = CHOOSE m \in workspaces \union {1, seq} :
                                     \A i \in workspaces \union {1, seq} : i <= m]
    /\ start' = [start EXCEPT ![p] = "setval"]
    /\ UNCHANGED <<users, sha, workspaces, member, seq, req, sessions, requests, starts, faults, won>>

SetSequence(p) ==
    /\ start[p] = "setval"
    /\ seq' = read[p]
    /\ start' = [start EXCEPT ![p] = "commit"]
    /\ UNCHANGED <<users, sha, workspaces, member, read, req, sessions, requests, starts, faults, won>>

CommitDefault(p) ==
    /\ start[p] = "commit"
    /\ workspaces' = workspaces \union {1}
    /\ start' = [start EXCEPT ![p] = "up"] /\ read' = [read EXCEPT ![p] = 0]
    /\ UNCHANGED <<users, sha, member, seq, req, sessions, requests, starts, faults, won>>

EnsureDefaultWorkspace(p) ==
    LockTable(p) \/ InsertDefault(p) \/ ReadSequence(p) \/ SetSequence(p) \/ CommitDefault(p)

\* A process ends, or its bootstrap fails: the transaction is rolled back.
StopProcess(p) ==
    /\ start[p] # "down" /\ faults < MaxFaults
    /\ faults' = faults + 1
    /\ start' = [start EXCEPT ![p] = "down"] /\ read' = [read EXCEPT ![p] = 0]
    /\ UNCHANGED <<users, sha, workspaces, member, seq, req, sessions, requests, starts, won>>

----------------------------------------------------------------------------
(* Requests.                                                               *)

\* A process serves once its bootstrap is done.
Arrive(h) ==
    /\ req[h] = Idle /\ requests < MaxRequests
    /\ \E p \in Starters : start[p] = "up"
    /\ requests' = requests + 1
    /\ \E e \in Emails, signup \in BOOLEAN :
         req' = [req EXCEPT ![h] = [pc |-> IF signup THEN "exists" ELSE "getUser", id |-> requests',
                                    user |-> e, ws |-> 0, signup |-> signup]]
    /\ UNCHANGED <<users, sha, workspaces, member, seq, start, read, sessions, starts, faults, won>>

Goto(h, step) == req' = [req EXCEPT ![h].pc = step]
Answer(h) == req' = [req EXCEPT ![h] = Idle]
Database == <<users, workspaces, member, seq>>
Others == <<sha, start, read, requests, starts>>

\* 409 for a known address.
EmailExists(h) ==
    /\ req[h].pc = "exists"
    /\ IF req[h].user \in users THEN Answer(h) ELSE Goto(h, "insertUser")
    /\ UNCHANGED <<Database, Others, sessions, faults, won>>

\* users.email is UNIQUE: the INSERT waits for another one of the address.
AddressFree(e) == e \notin users

\* Mutant: the user is inserted outside the transaction.
InsertUserAtOnce(h) ==
    /\ req[h].pc = "insertUser" /\ ~Pending(req[h].user)
    /\ IF AddressFree(req[h].user) THEN Goto(h, "insertWorkspace") ELSE Answer(h)
    /\ users' = users \union {req[h].user}
    /\ UNCHANGED <<workspaces, member, seq, Others, sessions, faults, won>>

\* Mutant: the INSERT is tried until it succeeds.
InsertUserStubbornly(h) ==
    /\ req[h].pc = "insertUser" /\ ~Pending(req[h].user)
    /\ IF AddressFree(req[h].user) THEN Goto(h, "insertWorkspace") ELSE UNCHANGED req
    /\ UNCHANGED <<Database, Others, sessions, faults, won>>

InsertUser(h) ==
    /\ req[h].pc = "insertUser" /\ ~Pending(req[h].user)
    /\ IF AddressFree(req[h].user) THEN Goto(h, "insertWorkspace") ELSE Answer(h)
    /\ UNCHANGED <<Database, Others, sessions, faults, won>>

\* INSERT INTO workspaces takes the next value of the sequence.
InsertWorkspace(h) ==
    /\ req[h].pc = "insertWorkspace" /\ Locking = {}
    /\ seq' = seq + 1
    /\ req' = [req EXCEPT ![h].pc = "insertMembership", ![h].ws = seq + 1]
    /\ UNCHANGED <<users, workspaces, member, Others, sessions, faults, won>>

InsertMembership(h) ==
    /\ req[h].pc = "insertMembership"
    /\ Goto(h, "commit")
    /\ UNCHANGED <<Database, Others, sessions, faults, won>>

\* What COMMIT makes visible: the user of a sign-up, the workspace, the membership.
Committed(h) ==
    /\ users' = users \union {req[h].user}
    /\ workspaces' = workspaces \union {req[h].ws}
    /\ member' = [member EXCEPT ![req[h].user] = @ \union {req[h].ws}]
    /\ UNCHANGED seq

\* Its answer may be lost, which is a 500.
Commit(h) ==
    /\ req[h].pc = "commit"
    /\ Committed(h)
    /\ \/ /\ Goto(h, IF req[h].signup THEN "hset" ELSE "getAgain")
          /\ UNCHANGED faults
       \/ faults < MaxFaults /\ faults' = faults + 1 /\ Answer(h)
    /\ UNCHANGED <<Others, sessions, won>>

\* 401 for an unknown address; the row is read with its password hash.
GetUserByEmail(h) ==
    /\ req[h].pc = "getUser"
    /\ IF req[h].user \notin users THEN Answer(h)
       ELSE Goto(h, IF req[h].user \in sha THEN "upgrade" ELSE "getWorkspace")
    /\ UNCHANGED <<Database, Others, sessions, faults, won>>

\* An old hash is replaced; the login goes on whether or not this succeeds.
UpdateUserPasswordHash(h) ==
    /\ req[h].pc = "upgrade"
    /\ Goto(h, "getWorkspace")
    /\ \/ sha' = sha \ {req[h].user} /\ UNCHANGED faults
       \/ faults < MaxFaults /\ faults' = faults + 1 /\ UNCHANGED sha
    /\ UNCHANGED <<Database, start, read, requests, starts, sessions, won>>

\* Mutant: a login makes a workspace without asking for one.
GetNoWorkspace(h) ==
    /\ req[h].pc \in {"getWorkspace", "getAgain"}
    /\ Goto(h, IF req[h].pc = "getWorkspace" THEN "insertWorkspace" ELSE "hset")
    /\ UNCHANGED <<Database, Others, sessions, faults, won>>

\* A user without a workspace gets one, which is then read back.
GetUserWorkspace(h) ==
    /\ req[h].pc \in {"getWorkspace", "getAgain"}
    /\ IF member[req[h].user] # {} THEN Goto(h, "hset")
       ELSE IF req[h].pc = "getWorkspace" THEN Goto(h, "insertWorkspace") ELSE Answer(h)
    /\ UNCHANGED <<Database, Others, sessions, faults, won>>

\* SessionStore.Create: HSET, then EXPIRE, then the cookie.
HSet(h) ==
    /\ req[h].pc = "hset"
    /\ sessions' = [sessions EXCEPT ![req[h].id] = [@ EXCEPT !.there = TRUE]]
    /\ Goto(h, "expire")
    /\ UNCHANGED <<Database, Others, faults, won>>

\* The answer: 201 for a sign-up, 200 for a login.
Succeed(h) ==
    /\ Answer(h)
    /\ won' = IF req[h].signup THEN [won EXCEPT ![req[h].user] = @ + 1] ELSE won

\* If EXPIRE fails, before or after its effect, the id is given to nobody.
Expire(h) ==
    /\ req[h].pc = "expire"
    /\ \/ /\ sessions' = [sessions EXCEPT ![req[h].id] = [@ EXCEPT !.ttl = TRUE, !.known = TRUE]]
          /\ Succeed(h) /\ UNCHANGED faults
       \/ /\ faults < MaxFaults /\ faults' = faults + 1
          /\ sessions' \in {sessions, [sessions EXCEPT ![req[h].id] = [@ EXCEPT !.ttl = TRUE]]}
          /\ Answer(h) /\ UNCHANGED won
    /\ UNCHANGED <<Database, Others>>

\* A statement fails or the client goes: the transaction is rolled back, 500.
Fail(h) ==
    /\ req[h] # Idle /\ faults < MaxFaults
    /\ faults' = faults + 1
    /\ Answer(h)
    /\ UNCHANGED <<Database, Others, sessions, won>>

CreateUserWithWorkspace(h) ==
    InsertUser(h) \/ InsertWorkspace(h) \/ InsertMembership(h) \/ Commit(h)
CreateSession(h) == HSet(h) \/ Expire(h)
Signup(h) == req[h].signup /\ (EmailExists(h) \/ CreateUserWithWorkspace(h) \/ CreateSession(h))

CreateWorkspaceForUser(h) == InsertWorkspace(h) \/ InsertMembership(h) \/ Commit(h)
Login(h) == /\ ~req[h].signup
            /\ \/ GetUserByEmail(h) \/ UpdateUserPasswordHash(h) \/ GetUserWorkspace(h)
               \/ CreateWorkspaceForUser(h) \/ CreateSession(h)

\* All requests are answered; TLC's deadlock check then finds stuck ones.
AtRest == (\A h \in Handlers : req[h] = Idle) /\ UNCHANGED vars

Next ==
    \/ \E h \in Handlers : Arrive(h) \/ Signup(h) \/ Login(h) \/ Fail(h)
    \/ \E p \in Starters : StartProcess(p) \/ EnsureDefaultWorkspace(p) \/ StopProcess(p)
    \/ AtRest

Spec == Init /\ [][Next]_vars

\* Statements are executed; the database grants a lock that stays free.
FairSpec ==
    /\ Spec
    /\ \A h \in Handlers : WF_vars(Signup(h)) /\ WF_vars(Login(h))
    /\ \A p \in Starters : WF_vars(EnsureDefaultWorkspace(p))

----------------------------------------------------------------------------
(* Properties.                                                             *)

\* "a failed workspace or membership insert cannot orphan a user": whatever fails,
\* a user made by Signup has a workspace.
NoOrphan == \A e \in users \ Legacy : member[e] # {}

\* The sequence never yields an id that is taken or about to be committed: no
\* sign-up fails or joins the workspace of another user, however often processes
\* restart and insert the explicit id 1 beside the sequence.
WorkspacesDistinct ==
    /\ \A h \in Inserting : req[h].ws \notin workspaces \union {1}
    /\ \A h, g \in Inserting : h # g => req[h].ws # req[g].ws
    /\ \A e, f \in Emails : e # f => member[e] \intersect member[f] = {}

\* Of any number of simultaneous sign-ups for one address, one is answered 201.
OneSignupWins == \A e \in Emails : won[e] <= 1

\* Logins that find no workspace at the same moment each make one, but a later
\* login adds none: a user never has more than there were logins at a time.
DuplicatesBounded == \A e \in Emails : Cardinality(member[e]) <= Cardinality(Handlers)

\* A session id that a client has been given belongs to a hash that expires; a
\* hash that was left without a time to live is known to nobody.
KnownSessionsExpire ==
    \A i \in 1..MaxRequests : sessions[i].known => sessions[i].there /\ sessions[i].ttl

\* Sign-ups, logins and bootstraps that wait for each other's rows and locks are
\* all answered in the end.
EveryRequestAnswered == \A h \in Handlers : (req[h] # Idle) ~> (req[h] = Idle)
=============================================================================
