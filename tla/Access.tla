------------------------------- MODULE Access -------------------------------
(***************************************************************************)
(* Who a request acts for: personal API keys, sessions, instance keys and  *)
(* the workspace membership behind them.  A request reads its authority in *)
(* one or two statements and acts on it in a later one, while keys are     *)
(* revoked, sessions end and an administrator of the database adds members,*)
(* removes them and changes their roles.                                   *)
(***************************************************************************)
EXTENDS Naturals, Sequences, FiniteSets

CONSTANTS
    Handlers,    \* requests in flight
    Users,
    Workspaces,
    Keys,        \* values of personal keys, each issued at most once
    Names,       \* names given to keys
    Homes,       \* the workspaces a user may administer at first, oldest first
    Held,        \* the keys that may be there at first, with their rows
    Calls,       \* what clients present
    Default,     \* workspace 1, the default of instance keys
    MaxChanges,  \* bound on changes of membership
    None

\* The keys of the instance's configuration.
InstanceKeys == {"adminKey", "operatorKey"}
Row == [user : Users, ws : Workspaces, name : Names]

Acting == {"manage", "send", "read"}    \* routes that take a key or a session
Managing == {"createKey", "deleteKey"}  \* routes that take a session only

ASSUME HomesAssumption == \A home \in Homes : home \in Seq(Workspaces)
ASSUME HeldAssumption == Held \subseteq [Keys -> Row \union {None}]
ASSUME DefaultAssumption == Default \in Workspaces
ASSUME NoneAssumption == None \notin Users \union Workspaces \union Keys
ASSUME KeysAssumption == ({"absent"} \union InstanceKeys) \intersect Keys = {}
ASSUME CallsAssumption ==
    \A c \in Calls :
      \/ c \in [kind : Acting, header : Keys \union InstanceKeys \union {"absent"},
                user : Users \union {None}, ws : Workspaces \union {None}]
      \/ c \in [kind : Managing, header : {"absent"}, user : Users \union {None}, ws : {None}]

VARIABLES
    member,   \* user_workspaces of each user, by (created_at, workspace_id)
    keys,     \* user_api_keys: the row of each key, None when there is none
    issued,   \* the keys generated so far
    session,  \* the users with a live session
    changes,  \* changes of membership so far
    req,      \* the request each handler works on
    \* Observers, read by no guard:
    seen,     \* what held since each request arrived and before it acted
    told,     \* the keys whose revocation has been answered
    late      \* the requests that came with such a key

vars == <<member, keys, issued, session, changes, req, seen, told, late>>

Roles == {"admin", "operator", "viewer", "other"}   \* role is free text
Kinds == Acting \union Managing
Membership == [ws : Workspaces, role : Roles]
Principal == [user : Users \union {None}, ws : Workspaces \union {None},
              role : Roles, global : BOOLEAN]

Idle == [at |-> "idle"]
Requests == [at : {"arrived", "session", "principal", "done"}, kind : Kinds,
             header : Keys \union InstanceKeys \union {"absent"}, user : Users \union {None},
             ws : Workspaces \union {None}, by : Principal \union {None},
             on : Workspaces \union {None}]

\* The facts a request may rest on: memberships, and its key while it is live.
Facts(header) ==
    (UNION {{<<u, member[u][i].ws, member[u][i].role>> : i \in DOMAIN member[u]} : u \in Users})
    \union {<<k>> : k \in {k \in Keys : k = header /\ keys[k] # None}}

TypeOK ==
    /\ \A u \in Users :
         /\ \A i \in DOMAIN member[u] : member[u][i] \in Membership
         /\ \A i, j \in DOMAIN member[u] : member[u][i].ws = member[u][j].ws => i = j
    /\ keys \in [Keys -> Row \union {None}]
    /\ issued \subseteq Keys /\ session \subseteq Users
    /\ changes \in 0..MaxChanges
    /\ \A h \in Handlers : req[h] = Idle \/ req[h] \in Requests
    /\ told \subseteq issued /\ late \subseteq Handlers

Init ==
    /\ \E home \in [Users -> Homes] :
         member = [u \in Users |-> [i \in DOMAIN home[u] |->
                                      [ws |-> home[u][i], role |-> "admin"]]]
    /\ keys \in Held /\ issued = {k \in Keys : keys[k] # None}
    /\ session = Users /\ changes = 0
    /\ req = [h \in Handlers |-> Idle]
    /\ seen = [h \in Handlers |-> {}] /\ told = {} /\ late = {}

----------------------------------------------------------------------------
(* The database.                                                           *)

MemberOf(u, ws) == {member[u][i] : i \in {i \in DOMAIN member[u] : member[u][i].ws = ws}}

\* Mutant: the role and workspace of the user's first membership.
AuthenticateByUser(k) ==
    IF keys[k] = None \/ member[keys[k].user] = <<>> THEN None
    ELSE LET m == Head(member[keys[k].user]) IN
         [user |-> keys[k].user, ws |-> m.ws, role |-> m.role, global |-> FALSE]

\* Mutant: the key alone decides, without the membership.
AuthenticateAlone(k) ==
    IF keys[k] = None THEN None
    ELSE [user |-> keys[k].user, ws |-> keys[k].ws, global |-> FALSE, role |-> "operator"]

\* The key joined with the present membership of its user in its workspace.
AuthenticateAPIKey(k) ==
    IF keys[k] = None \/ MemberOf(keys[k].user, keys[k].ws) = {} THEN None
    ELSE [user |-> keys[k].user, ws |-> keys[k].ws, global |-> FALSE,
          role |-> (CHOOSE m \in MemberOf(keys[k].user, keys[k].ws) : TRUE).role]

\* The oldest membership.
GetUserWorkspace(u) ==
    IF member[u] = <<>> THEN None
    ELSE [user |-> u, ws |-> Head(member[u]).ws, role |-> Head(member[u]).role, global |-> FALSE]

----------------------------------------------------------------------------
(* A request.  header, user and ws are what the client presents: a key, the *)
(* user of its session cookie, the workspace_id of its body or query.      *)

\* Every request to create a key finds a value that was never issued.
Creating == {h \in Handlers : req[h] # Idle /\ req[h].kind = "createKey"
                               /\ req[h].at # "done"}

Arrive(h) ==
    /\ req[h] = Idle
    /\ \E c \in Calls :
         /\ c.kind = "createKey" => Cardinality(issued) + Cardinality(Creating) < Cardinality(Keys)
         /\ req' = [req EXCEPT ![h] = [at |-> "arrived", kind |-> c.kind, header |-> c.header,
                                       user |-> c.user, ws |-> c.ws, by |-> None, on |-> None]]
    /\ UNCHANGED <<member, keys, issued, session, changes>>

ValidRole(p) == p.role \in {"admin", "operator", "viewer"}

\* A refused request is answered at once: 401 for a key, 403 for a session.
Identify(h, p) ==
    req' = [req EXCEPT ![h] = IF p # None /\ ValidRole(p)
                              THEN [@ EXCEPT !.at = "principal", !.by = p]
                              ELSE Idle]

\* The principal of an instance key.
ResolveRole(header) == [user |-> None, ws |-> None, global |-> TRUE,
                        role |-> IF header = "adminKey" THEN "admin" ELSE "operator"]

APIKeyMiddleware(h) ==
    /\ Identify(h, IF req[h].header \in InstanceKeys THEN ResolveRole(req[h].header)
                   ELSE AuthenticateAPIKey(req[h].header))
    /\ UNCHANGED <<member, keys, issued, session, changes>>

ReadSession(h) ==
    /\ req' = [req EXCEPT ![h] = IF req[h].user \in session THEN [@ EXCEPT !.at = "session"] ELSE Idle]
    /\ UNCHANGED <<member, keys, issued, session, changes>>

\* The second half of RequireAuth, after the look-up in Redis.
RequireAuth(h) ==
    /\ req[h].at = "session"
    /\ Identify(h, GetUserWorkspace(req[h].user))
    /\ UNCHANGED <<member, keys, issued, session, changes>>

\* Mutant: a key that is not valid gives way to a valid session.
KeyOrSession(h) ==
    /\ req[h].at = "arrived"
    /\ IF \/ req[h].header = "absent"
          \/ req[h].header \in Keys /\ AuthenticateAPIKey(req[h].header) = None
       THEN ReadSession(h) ELSE APIKeyMiddleware(h)

\* A request with the header is judged by the key alone.
RequireCredentials(h) ==
    /\ req[h].at = "arrived"
    /\ IF req[h].header = "absent" THEN ReadSession(h) ELSE APIKeyMiddleware(h)

\* The roles a route is registered for.
Allowed(kind) ==
    CASE kind = "manage" -> {"admin"}
      [] kind \in {"send", "createKey"} -> {"admin", "operator"}
      [] OTHER -> {"admin", "operator", "viewer"}

RequireRole(kind, p) == p.role \in Allowed(kind)

\* The workspace a principal asks for, None when it is forbidden.
Workspace(p, requested) ==
    IF p.global THEN (IF requested = None THEN Default ELSE requested)
    ELSE IF requested \in {None, p.ws} THEN p.ws ELSE None

\* The handler of a route behind RequireRole acts on the workspace.
Serve(h) ==
    LET r == req[h] IN
    /\ r.at = "principal" /\ r.kind \in Acting
    /\ req' = [req EXCEPT ![h] =
                 IF RequireRole(r.kind, r.by) /\ Workspace(r.by, r.ws) # None
                 THEN [@ EXCEPT !.at = "done", !.on = Workspace(r.by, r.ws)]
                 ELSE Idle]
    /\ UNCHANGED <<member, keys, issued, session, changes>>

\* Mutant: the role read by RequireAuth is trusted when the row is written.
MayHoldOnceSeen(p) == TRUE

\* The INSERT writes only for a member who may send at this moment.
MayHold(p) == \E m \in MemberOf(p.user, p.ws) : m.role \in {"admin", "operator"}

\* A fresh key; its name must be new for the user in any workspace.
CreateAPIKey(h) ==
    LET p == req[h].by IN
    /\ req[h].at = "principal" /\ req[h].kind = "createKey"
    /\ \E k \in Keys \ issued, name \in Names :
         /\ issued' = issued \union {k}
         /\ IF RequireRole("createKey", p) /\ MayHold(p) /\ ~\E o \in Keys : keys[o] # None /\ keys[o].user = p.user /\ keys[o].name = name
            THEN /\ keys' = [keys EXCEPT ![k] = [user |-> p.user, ws |-> p.ws, name |-> name]]
                 /\ req' = [req EXCEPT ![h].at = "done", ![h].on = p.ws]
            ELSE /\ req' = [req EXCEPT ![h] = Idle]
                 /\ UNCHANGED keys
    /\ UNCHANGED <<member, session, changes>>

\* The DELETE finds only a key of the same user and workspace.
Deletable(k, p) == keys[k] # None /\ keys[k].user = p.user /\ keys[k].ws = p.ws

\* Mutant: the number of deleted rows is not looked at.
DeleteAPIKeyUncounted(h) ==
    LET p == req[h].by IN
    /\ req[h].at = "principal" /\ req[h].kind = "deleteKey"
    /\ \E k \in issued :
         /\ keys' = IF Deletable(k, p) THEN [keys EXCEPT ![k] = None] ELSE keys
         /\ req' = [req EXCEPT ![h].at = "done", ![h].on = p.ws, ![h].header = k]
    /\ UNCHANGED <<member, issued, session, changes>>

\* A key that is not found is answered 404.
DeleteAPIKey(h) ==
    LET p == req[h].by IN
    /\ req[h].at = "principal" /\ req[h].kind = "deleteKey"
    /\ \E k \in Keys :
         IF Deletable(k, p)
         THEN /\ keys' = [keys EXCEPT ![k] = None]
              /\ req' = [req EXCEPT ![h].at = "done", ![h].on = p.ws, ![h].header = k]
         ELSE /\ req' = [req EXCEPT ![h] = Idle]
              /\ UNCHANGED keys
    /\ UNCHANGED <<member, issued, session, changes>>

Respond(h) ==
    /\ req[h] # Idle /\ req[h].at = "done"
    /\ req' = [req EXCEPT ![h] = Idle]
    /\ UNCHANGED <<member, keys, issued, session, changes>>

----------------------------------------------------------------------------
(* The surroundings of a request.                                          *)

\* Logout answers 200 whether or not Redis has removed the session.
Logout(u) ==
    /\ u \in session
    /\ session' = session \ {u}
    /\ UNCHANGED <<member, keys, issued, changes, req>>

\* A user's memberships without the i-th.
Without(s, i) == [j \in 1..(Len(s) - 1) |-> IF j < i THEN s[j] ELSE s[j + 1]]

\* No route changes memberships: they are changed in the database.
ChangeMembership(u) ==
    /\ changes < MaxChanges
    /\ changes' = changes + 1
    /\ \/ \E i \in DOMAIN member[u], role \in Roles :
            /\ role # member[u][i].role
            /\ member' = [member EXCEPT ![u][i].role = role]
       \/ \E i \in DOMAIN member[u] : member' = [member EXCEPT ![u] = Without(@, i)]
       \/ \E ws \in Workspaces, role \in Roles :
            /\ MemberOf(u, ws) = {}
            /\ member' = [member EXCEPT ![u] = Append(@, [ws |-> ws, role |-> role])]
    /\ UNCHANGED <<keys, issued, session, req>>

\* A revocation that was answered with success.
Revokes(r) == r # Idle /\ r.at = "done" /\ r.kind = "deleteKey"

Step ==
    \/ \E h \in Handlers :
         \/ Arrive(h) \/ RequireCredentials(h) \/ RequireAuth(h) \/ Serve(h)
         \/ CreateAPIKey(h) \/ DeleteAPIKey(h) \/ Respond(h)
    \/ \E u \in Users : Logout(u) \/ ChangeMembership(u)

\* The observers gather the facts of every state a request lives through until
\* it acts, what was revoked, and who came too late.
Observe ==
    /\ seen' = [h \in Handlers |->
                  IF req'[h] = Idle THEN {}
                  ELSE IF req'[h].at = "done" THEN seen[h]
                  ELSE (IF req[h] = Idle THEN {} ELSE seen[h]) \union Facts(req[h].header)']
    /\ told' = told \union {req'[h].header : h \in {g \in Handlers : Revokes(req'[g])}}
    /\ late' = {h \in Handlers : req'[h] # Idle
                   /\ (IF req[h] = Idle THEN req'[h].header \in told ELSE h \in late)}

Next == Step /\ Observe

Spec == Init /\ [][Next]_vars

----------------------------------------------------------------------------
(* Properties.                                                             *)

Acted == {h \in Handlers : req[h] # Idle /\ req[h].at = "done"}

\* "revocation, removal, and role changes take effect on the next request": what
\* a request does rests on a membership, with a role that allows it, that held
\* at some moment since it arrived, in the workspace it acts on.
AuthorityIsFresh ==
    \A h \in Acted : LET r == req[h] IN
        ~r.by.global => /\ <<r.by.user, r.on, r.by.role>> \in seen[h]
                        /\ RequireRole(r.kind, r.by)

\* "An explicitly supplied invalid key never falls back to a valid session": a
\* request with a personal key acts only if that key was live since it arrived.
NeverFallsBack ==
    \A h \in Acted : req[h].kind \in Acting /\ req[h].header \in Keys
                        => <<req[h].header>> \in seen[h]

\* "Each key belongs to the creating user and their current workspace": a key
\* acts in the workspace it was created in and for its creator, even after the
\* creator's oldest membership has become another one.
KeyKeepsItsWorkspace ==
    \A h \in Acted : LET r == req[h] IN
        r.kind \in Acting /\ r.header \in Keys /\ keys[r.header] # None
            => r.on = keys[r.header].ws /\ r.by.user = keys[r.header].user

\* A key comes into being only for a user who may send in its workspace at that
\* very moment, even if the role was taken away after the request was admitted.
KeysForMembersOnly ==
    [][\A k \in Keys : keys[k] = None /\ keys'[k] # None =>
          \E m \in MemberOf(keys'[k].user, keys'[k].ws) : m.role \in {"admin", "operator"}]_vars

\* "revocation ... take[s] effect on the next request": a request that arrives with
\* a key after its revocation was answered does nothing, whoever else is under way,
\* whatever workspace the key is of and whatever key is made meanwhile.
RevokedIsRefused == late \intersect Acted = {}
=============================================================================
