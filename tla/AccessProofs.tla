---------------------------- MODULE AccessProofs ----------------------------
(***************************************************************************)
(* Proofs about the authority of requests, for any number of requests,     *)
(* users, workspaces and keys, and any number of changes of membership.    *)
(***************************************************************************)
EXTENDS Access, TLAPS

Judged(h) == req[h].at \in {"principal", "done"}

\* The types; that a request without a key keeps to its session; and that only a
\* request with an instance key has a global principal.
Typed ==
    /\ member \in [Users -> Seq(Membership)]
    /\ keys \in [Keys -> Row \union {None}]
    /\ issued \subseteq Keys /\ session \subseteq Users
    /\ req \in [Handlers -> Requests \union {Idle}]
    /\ \A h \in Handlers :
         /\ req[h].at = "session" => req[h].user \in Users /\ req[h].header = "absent"
         /\ req[h].at \in {"arrived", "session", "principal"} /\ req[h].kind \in Managing
              => req[h].header = "absent"
         /\ Judged(h) => req[h].by \in Principal
         /\ Judged(h) /\ ~req[h].by.global => req[h].by.user \in Users /\ req[h].by.ws \in Workspaces
         /\ Judged(h) /\ req[h].kind \in Managing => ~req[h].by.global

LEMMA IdleIs == Idle.at = "idle" /\ Idle \notin Requests
  BY DEF Idle, Requests

LEMMA Busy ==
  ASSUME Typed, NEW h \in Handlers, req[h] # Idle \/ req[h].at # "idle"
  PROVE  req[h] \in Requests
  BY IdleIs DEF Typed

LEMMA Fields ==
  ASSUME NEW r \in Requests
  PROVE  /\ r # Idle /\ r.at \in {"arrived", "session", "principal", "done"} /\ r.kind \in Kinds
         /\ r.header \in Keys \union InstanceKeys \union {"absent"} /\ r.user \in Users \union {None}
         /\ r.ws \in Workspaces \union {None} /\ r.by \in Principal \union {None}
         /\ r.on \in Workspaces \union {None}
  BY IdleIs DEF Requests

\* A handler's request replaced.
LEMMA Replaced ==
  ASSUME Typed, NEW h \in Handlers, NEW r \in Requests \union {Idle}, req' = [req EXCEPT ![h] = r]
  PROVE  /\ req' \in [Handlers -> Requests \union {Idle}] /\ req'[h] = r
         /\ \A g \in Handlers : g # h => req'[g] = req[g]
  BY DEF Typed

----------------------------------------------------------------------------
(* What the statements read.                                               *)

\* A principal read from a membership rests on a fact.
LEMMA MembershipIsFact ==
  ASSUME NEW u \in Users, NEW i \in DOMAIN member[u], NEW header
  PROVE  <<u, member[u][i].ws, member[u][i].role>> \in Facts(header)
<1>1. <<u, member[u][i].ws, member[u][i].role>>
        \in {<<u, member[u][j].ws, member[u][j].role>> : j \in DOMAIN member[u]}
  OBVIOUS
<1> QED  BY <1>1 DEF Facts

LEMMA LiveKeyIsFact ==
  ASSUME NEW key \in Keys, keys[key] # None
  PROVE  <<key>> \in Facts(key)
<1>1. <<key>> \in {<<k>> : k \in {k \in Keys : k = key /\ keys[k] # None}}  OBVIOUS
<1> QED  BY <1>1 DEF Facts

LEMMA MembersTyped ==
  ASSUME Typed, NEW u \in Users, NEW i \in DOMAIN member[u]
  PROVE  member[u][i] \in Membership /\ member[u][i].role \in Roles /\ member[u][i].ws \in Workspaces
<1>1. member[u] \in Seq(Membership)  BY DEF Typed
<1>2. member[u][i] \in Membership  BY <1>1
<1> QED  BY <1>2 DEF Membership

\* What a key authenticates.
LEMMA KeyAuthenticates ==
  ASSUME Typed, NEW k \in Keys, AuthenticateAPIKey(k) # None, NEW header
  PROVE  LET p == AuthenticateAPIKey(k) IN
         /\ p \in Principal /\ ~p.global /\ keys[k] # None
         /\ p.user = keys[k].user /\ p.ws = keys[k].ws
         /\ p.user \in Users /\ p.ws \in Workspaces
         /\ <<p.user, p.ws, p.role>> \in Facts(header)
<1> DEFINE u == keys[k].user
           w == keys[k].ws
           m == CHOOSE x \in MemberOf(u, w) : TRUE
<1>1. keys[k] # None /\ MemberOf(u, w) # {}  BY DEF AuthenticateAPIKey
<1>r. keys[k] \in Row /\ u \in Users  BY <1>1 DEF Typed, Row
<1>2. m \in MemberOf(u, w)  BY <1>1
<1>3. PICK i \in DOMAIN member[u] : m = member[u][i] /\ member[u][i].ws = w
  BY <1>2 DEF MemberOf
<1>4. m.role \in Roles /\ m.ws = w /\ w \in Workspaces  BY <1>3, <1>r, MembersTyped, Zenon
<1>5. <<u, w, m.role>> \in Facts(header)  BY <1>3, <1>4, <1>r, MembershipIsFact, Zenon
<1>6. AuthenticateAPIKey(k) = [user |-> u, ws |-> w, global |-> FALSE, role |-> m.role]
  BY <1>1 DEF AuthenticateAPIKey
<1> HIDE DEF m, w, u
<1>7. u \in Users  BY <1>r
<1>8. [user |-> u, ws |-> w, global |-> FALSE, role |-> m.role] \in Principal
  BY <1>4, <1>7 DEF Principal
<1> QED  BY <1>1, <1>4, <1>5, <1>6, <1>7, <1>8 DEF u, w

\* What a session authenticates.
LEMMA SessionAuthenticates ==
  ASSUME Typed, NEW u \in Users, GetUserWorkspace(u) # None, NEW header
  PROVE  LET p == GetUserWorkspace(u) IN
         /\ p \in Principal /\ ~p.global /\ <<p.user, p.ws, p.role>> \in Facts(header)
         /\ p.user \in Users /\ p.ws \in Workspaces
<1>1. member[u] \in Seq(Membership) /\ member[u] # <<>>
  BY DEF Typed, GetUserWorkspace
<1>2. 1 \in DOMAIN member[u] /\ Head(member[u]) = member[u][1]  BY <1>1
<1>3. <<u, member[u][1].ws, member[u][1].role>> \in Facts(header)  BY <1>2, MembershipIsFact
<1>4. GetUserWorkspace(u) = [user |-> u, ws |-> member[u][1].ws, role |-> member[u][1].role,
                             global |-> FALSE]
  BY <1>1, <1>2 DEF GetUserWorkspace
<1>5. member[u][1].role \in Roles /\ member[u][1].ws \in Workspaces
  BY <1>2, MembersTyped
<1> QED  BY <1>3, <1>4, <1>5 DEF Principal

----------------------------------------------------------------------------
(* The ways a request moves.                                               *)

Calm == UNCHANGED <<member, keys, issued, session>>

Starts(h) ==
    /\ req[h] = Idle /\ Calm
    /\ \E r \in Requests : /\ r.at = "arrived"
                           /\ r.kind \in Managing => r.header = "absent"
                           /\ req' = [req EXCEPT ![h] = r]

Stops(h) ==
    /\ req[h] # Idle /\ req' = [req EXCEPT ![h] = Idle]
    /\ issued \subseteq issued' /\ issued' \subseteq Keys
    /\ UNCHANGED <<member, keys, session>>

Looks(h) ==
    /\ req[h].at = "arrived" /\ req[h].header = "absent" /\ req[h].user \in Users
    /\ req' = [req EXCEPT ![h] = [req[h] EXCEPT !.at = "session"]]
    /\ Calm

\* A principal as the look-up found it.
Found(h, p) ==
    /\ p \in Principal /\ ValidRole(p)
    /\ ~p.global => /\ p.user \in Users /\ p.ws \in Workspaces
                    /\ <<p.user, p.ws, p.role>> \in Facts(req[h].header)
    /\ req[h].header = "absent" => ~p.global
    /\ req[h].header \in Keys => /\ ~p.global /\ keys[req[h].header] # None
                                 /\ p.user = keys[req[h].header].user
                                 /\ p.ws = keys[req[h].header].ws

Judges(h) ==
    /\ req[h].at \in {"arrived", "session"} /\ Calm
    /\ \E p \in Principal :
         /\ Found(h, p)
         /\ req' = [req EXCEPT ![h] = [req[h] EXCEPT !.at = "principal", !.by = p]]

Serves(h) ==
    /\ req[h].at = "principal" /\ req[h].kind \in Acting /\ Calm
    /\ RequireRole(req[h].kind, req[h].by)
    /\ \E w \in Workspaces \union {None} :
         /\ ~req[h].by.global => w = req[h].by.ws
         /\ req' = [req EXCEPT ![h] = [req[h] EXCEPT !.at = "done", !.on = w]]

Creates(h) ==
    /\ req[h].at = "principal" /\ req[h].kind = "createKey"
    /\ RequireRole("createKey", req[h].by) /\ MayHold(req[h].by)
    /\ \E k \in Keys \ issued, name \in Names :
         /\ issued' = issued \union {k}
         /\ keys' = [keys EXCEPT ![k] = [user |-> req[h].by.user, ws |-> req[h].by.ws, name |-> name]]
    /\ req' = [req EXCEPT ![h] = [req[h] EXCEPT !.at = "done", !.on = req[h].by.ws]]
    /\ UNCHANGED <<member, session>>

Deletes(h) ==
    /\ req[h].at = "principal" /\ req[h].kind = "deleteKey"
    /\ \E k \in Keys :
         /\ keys[k] # None
         /\ keys' = [keys EXCEPT ![k] = None]
         /\ req' = [req EXCEPT ![h] = [req[h] EXCEPT !.at = "done", !.on = req[h].by.ws,
                                                     !.header = k]]
    /\ UNCHANGED <<member, issued, session>>

Moves(h) ==
    Starts(h) \/ Stops(h) \/ Looks(h) \/ Judges(h) \/ Serves(h) \/ Creates(h) \/ Deletes(h)

\* A session ends or a membership changes.
Surrounds ==
    /\ UNCHANGED <<req, keys, issued>>
    /\ session' \subseteq session
    /\ member' \in [Users -> Seq(Membership)]

LEMMA ArriveMoves ==
  ASSUME Typed, NEW h \in Handlers, Arrive(h)
  PROVE  Starts(h)
<1>1. PICK c \in Calls :
        req' = [req EXCEPT ![h] = [at |-> "arrived", kind |-> c.kind, header |-> c.header,
                                   user |-> c.user, ws |-> c.ws, by |-> None, on |-> None]]
  BY Zenon DEF Arrive
<1> DEFINE r == [at |-> "arrived", kind |-> c.kind, header |-> c.header,
                 user |-> c.user, ws |-> c.ws, by |-> None, on |-> None]
<1>2. /\ c.kind \in Kinds /\ c.header \in Keys \union InstanceKeys \union {"absent"}
      /\ c.user \in Users \union {None} /\ c.ws \in Workspaces \union {None}
      /\ c.kind \in Managing => c.header = "absent"
  BY CallsAssumption DEF Kinds, Acting, Managing
<1>3. r \in Requests  BY <1>2 DEF Requests
<1>4. r.at = "arrived" /\ r.kind = c.kind /\ r.header = c.header  OBVIOUS
<1>5. req[h] = Idle /\ Calm  BY DEF Arrive, Calm
<1> HIDE DEF r
<1> QED  BY <1>1, <1>2, <1>3, <1>4, <1>5, Zenon DEF Starts, r

\* A principal that was found is kept; any other ends the request.
LEMMA IdentifyMoves ==
  ASSUME Typed, NEW h \in Handlers, req[h].at \in {"arrived", "session"}, NEW p,
         p # None => p \in Principal /\ (ValidRole(p) => Found(h, p)),
         Identify(h, p), Calm
  PROVE  Judges(h) \/ Stops(h)
<1>0. req[h] # Idle  BY IdleIs
<1>1. CASE p # None /\ ValidRole(p)
  <2>1. req' = [req EXCEPT ![h] = [req[h] EXCEPT !.at = "principal", !.by = p]]
    BY <1>1 DEF Identify, Typed
  <2> QED  BY <1>1, <2>1, Zenon DEF Judges
<1>2. CASE ~(p # None /\ ValidRole(p))
  <2>1. req' = [req EXCEPT ![h] = Idle]  BY <1>2, Zenon DEF Identify
  <2> QED  BY <1>0, <2>1 DEF Stops, Calm, Typed
<1> QED  BY <1>1, <1>2

LEMMA CredentialsMove ==
  ASSUME Typed, NEW h \in Handlers, RequireCredentials(h)
  PROVE  Looks(h) \/ Judges(h) \/ Stops(h)
<1>0. req[h].at = "arrived" /\ req[h] # Idle  BY IdleIs DEF RequireCredentials
<1>r. req[h] \in Requests  BY <1>0, Busy
<1>1. CASE req[h].header = "absent"
  <2>0. ReadSession(h)  BY <1>1 DEF RequireCredentials
  <2>c. Calm  BY <2>0 DEF ReadSession, Calm
  <2>1. CASE req[h].user \in session
    <3>1. req' = [req EXCEPT ![h] = [req[h] EXCEPT !.at = "session"]]
      BY <2>0, <2>1 DEF ReadSession, Typed
    <3>2. req[h].user \in Users  BY <2>1 DEF Typed
    <3> QED  BY <1>0, <1>1, <2>c, <3>1, <3>2 DEF Looks
  <2>2. CASE req[h].user \notin session
    <3>1. req' = [req EXCEPT ![h] = Idle]  BY <2>0, <2>2 DEF ReadSession
    <3> QED  BY <1>0, <2>c, <3>1 DEF Stops, Calm, Typed
  <2> QED  BY <2>1, <2>2
<1>2. CASE req[h].header # "absent"
  <2>0. APIKeyMiddleware(h)  BY <1>2 DEF RequireCredentials
  <2>c. Calm  BY <2>0 DEF APIKeyMiddleware, Calm
  <2>1. CASE req[h].header \in InstanceKeys
    <3> DEFINE p == ResolveRole(req[h].header)
    <3>1. Identify(h, p)  BY <2>0, <2>1 DEF APIKeyMiddleware
    <3>2. p \in Principal /\ p.global  BY DEF ResolveRole, Principal, Roles
    <3>3. req[h].header \notin Keys  BY <2>1, KeysAssumption
    <3> HIDE DEF p
    <3>4. ValidRole(p) => Found(h, p)  BY <1>2, <3>2, <3>3 DEF Found
    <3> QED  BY <1>0, <2>c, <3>1, <3>2, <3>4, IdentifyMoves
  <2>2. CASE req[h].header \notin InstanceKeys
    <3>k. req[h].header \in Keys  BY <1>r, <1>2, <2>2, Fields
    <3> DEFINE p == AuthenticateAPIKey(req[h].header)
    <3>1. Identify(h, p)  BY <2>0, <2>2 DEF APIKeyMiddleware
    <3>2. p # None => p \in Principal /\ (ValidRole(p) => Found(h, p))
      BY <3>k, <1>2, KeyAuthenticates DEF Found
    <3> HIDE DEF p
    <3> QED  BY <1>0, <2>c, <3>1, <3>2, IdentifyMoves
  <2> QED  BY <2>1, <2>2
<1> QED  BY <1>1, <1>2

LEMMA AuthMoves ==
  ASSUME Typed, NEW h \in Handlers, RequireAuth(h)
  PROVE  Judges(h) \/ Stops(h)
<1> DEFINE p == GetUserWorkspace(req[h].user)
<1>0. req[h].at = "session" /\ Identify(h, p) /\ Calm  BY DEF RequireAuth, Calm
<1>1. req[h].user \in Users /\ req[h].header = "absent"  BY <1>0 DEF Typed
<1>2. req[h].header \notin Keys  BY <1>1, KeysAssumption
<1>3. p # None => p \in Principal /\ (ValidRole(p) => Found(h, p))
  BY <1>1, <1>2, SessionAuthenticates DEF Found
<1> HIDE DEF p
<1> QED  BY <1>0, <1>3, IdentifyMoves


LEMMA ServeMoves ==
  ASSUME Typed, NEW h \in Handlers, Serve(h)
  PROVE  Serves(h) \/ Stops(h)
<1> DEFINE w == Workspace(req[h].by, req[h].ws)
<1>0. req[h].at = "principal" /\ req[h].kind \in Acting /\ Calm
  BY DEF Serve, Calm
<1>r. req[h] \in Requests /\ req[h] # Idle  BY <1>0, Busy, IdleIs
<1>p. req[h].by \in Principal  BY <1>0 DEF Typed, Judged
<1>1. CASE RequireRole(req[h].kind, req[h].by) /\ w # None
  <2>1. req' = [req EXCEPT ![h] = [req[h] EXCEPT !.at = "done", !.on = w]]
    BY <1>1 DEF Serve, Typed
  <2>2. req[h].by.ws \in Workspaces \union {None} /\ req[h].ws \in Workspaces \union {None}
    BY <1>r, <1>p, Fields DEF Principal
  <2>3. w \in Workspaces \union {None}  BY <2>2, DefaultAssumption DEF Workspace
  <2>4. ~req[h].by.global => w = req[h].by.ws  BY <1>1 DEF Workspace
  <2> HIDE DEF w
  <2> QED  BY <1>0, <1>1, <2>1, <2>3, <2>4, Zenon DEF Serves
<1>2. CASE ~(RequireRole(req[h].kind, req[h].by) /\ w # None)
  <2>1. req' = [req EXCEPT ![h] = Idle]  BY <1>2, Zenon DEF Serve
  <2> QED  BY <1>0, <1>r, <2>1 DEF Stops, Calm, Typed
<1> QED  BY <1>1, <1>2

LEMMA CreateMoves ==
  ASSUME Typed, NEW h \in Handlers, CreateAPIKey(h)
  PROVE  Creates(h) \/ Stops(h)
<1> DEFINE p == req[h].by
<1>0. /\ req[h].at = "principal" /\ req[h].kind = "createKey"
      /\ UNCHANGED <<member, session>>
  BY DEF CreateAPIKey
<1>r. req[h] \in Requests /\ req[h] # Idle  BY <1>0, Busy, IdleIs
<1>1. PICK k \in Keys \ issued, name \in Names :
        /\ issued' = issued \union {k}
        /\ \/ /\ RequireRole("createKey", p) /\ MayHold(p)
              /\ keys' = [keys EXCEPT ![k] = [user |-> p.user, ws |-> p.ws, name |-> name]]
              /\ req' = [req EXCEPT ![h].at = "done", ![h].on = p.ws]
           \/ req' = [req EXCEPT ![h] = Idle] /\ UNCHANGED keys
  BY DEF CreateAPIKey
<1>2. CASE req' = [req EXCEPT ![h] = Idle] /\ UNCHANGED keys
  BY <1>0, <1>1, <1>2, <1>r DEF Stops, Typed
<1>3. CASE /\ RequireRole("createKey", p) /\ MayHold(p)
           /\ keys' = [keys EXCEPT ![k] = [user |-> p.user, ws |-> p.ws, name |-> name]]
           /\ req' = [req EXCEPT ![h].at = "done", ![h].on = p.ws]
  <2>1. req' = [req EXCEPT ![h] = [req[h] EXCEPT !.at = "done", !.on = req[h].by.ws]]
    BY <1>3, <1>r, Zenon DEF Typed
  <2> QED  BY <1>0, <1>1, <1>3, <2>1, Zenon DEF Creates
<1> QED  BY <1>1, <1>2, <1>3

LEMMA DeleteMoves ==
  ASSUME Typed, NEW h \in Handlers, DeleteAPIKey(h)
  PROVE  Deletes(h) \/ Stops(h)
<1> DEFINE p == req[h].by
<1>0. /\ req[h].at = "principal" /\ req[h].kind = "deleteKey"
      /\ UNCHANGED <<member, issued, session>>
  BY DEF DeleteAPIKey
<1>r. req[h] \in Requests /\ req[h] # Idle  BY <1>0, Busy, IdleIs
<1>1. PICK k \in Keys :
        \/ /\ keys[k] # None
           /\ keys' = [keys EXCEPT ![k] = None]
           /\ req' = [req EXCEPT ![h].at = "done", ![h].on = p.ws, ![h].header = k]
        \/ req' = [req EXCEPT ![h] = Idle] /\ UNCHANGED keys
  BY DEF DeleteAPIKey, Deletable
<1>2. CASE req' = [req EXCEPT ![h] = Idle] /\ UNCHANGED keys
  BY <1>0, <1>2, <1>r DEF Stops, Typed
<1>3. CASE /\ keys[k] # None
           /\ keys' = [keys EXCEPT ![k] = None]
           /\ req' = [req EXCEPT ![h].at = "done", ![h].on = p.ws, ![h].header = k]
  <2>1. req' = [req EXCEPT ![h] = [req[h] EXCEPT !.at = "done", !.on = req[h].by.ws, !.header = k]]
    BY <1>3, <1>r, Zenon DEF Typed
  <2> QED  BY <1>0, <1>1, <1>3, <2>1, Zenon DEF Deletes
<1> QED  BY <1>1, <1>2, <1>3

\* The memberships of a user remain a sequence of memberships.
LEMMA MembersStay ==
  ASSUME Typed, NEW u \in Users, ChangeMembership(u)
  PROVE  member' \in [Users -> Seq(Membership)]
<1>0. member \in [Users -> Seq(Membership)] /\ member[u] \in Seq(Membership)  BY DEF Typed
<1>1. ASSUME NEW i \in DOMAIN member[u], NEW role \in Roles,
             member' = [member EXCEPT ![u][i].role = role]
      PROVE  member' \in [Users -> Seq(Membership)]
  <2>1. member[u][i] \in Membership  BY <1>0
  <2>2. [member[u][i] EXCEPT !.role = role] \in Membership  BY <2>1 DEF Membership
  <2>3. member' = [member EXCEPT ![u] = [member[u] EXCEPT ![i] = [member[u][i] EXCEPT !.role = role]]]
    BY <1>0, <1>1
  <2>4. [member[u] EXCEPT ![i] = [member[u][i] EXCEPT !.role = role]] \in Seq(Membership)
    BY <1>0, <2>2
  <2> QED  BY <1>0, <2>3, <2>4
<1>2. ASSUME NEW i \in DOMAIN member[u], member' = [member EXCEPT ![u] = Without(@, i)]
      PROVE  member' \in [Users -> Seq(Membership)]
  <2>1. Without(member[u], i) \in Seq(Membership)  BY <1>0 DEF Without
  <2> QED  BY <1>0, <1>2, <2>1
<1>3. ASSUME NEW ws \in Workspaces, NEW role \in Roles,
             member' = [member EXCEPT ![u] = Append(@, [ws |-> ws, role |-> role])]
      PROVE  member' \in [Users -> Seq(Membership)]
  <2>1. [ws |-> ws, role |-> role] \in Membership  BY DEF Membership
  <2>2. Append(member[u], [ws |-> ws, role |-> role]) \in Seq(Membership)  BY <1>0, <2>1
  <2> QED  BY <1>0, <1>3, <2>2
<1> QED  BY <1>1, <1>2, <1>3, Zenon DEF ChangeMembership

LEMMA Turns ==
  ASSUME Typed, [Next]_vars
  PROVE  \/ \E h \in Handlers : Moves(h)
         \/ Surrounds
<1>1. CASE UNCHANGED vars  BY <1>1 DEF vars, Surrounds, Typed
<1>2. ASSUME NEW h \in Handlers,
             \/ Arrive(h) \/ RequireCredentials(h) \/ RequireAuth(h) \/ Serve(h)
             \/ CreateAPIKey(h) \/ DeleteAPIKey(h) \/ Respond(h)
      PROVE  Moves(h)
  <2>1. Respond(h) => Stops(h)  BY DEF Respond, Stops, Typed
  <2> QED  BY <1>2, <2>1, ArriveMoves, CredentialsMove, AuthMoves, ServeMoves, CreateMoves,
              DeleteMoves DEF Moves
<1>3. ASSUME NEW u \in Users, Logout(u)
      PROVE  Surrounds
  BY <1>3 DEF Logout, Surrounds, Typed
<1>4. ASSUME NEW u \in Users, ChangeMembership(u)
      PROVE  Surrounds
  <2>1. member' \in [Users -> Seq(Membership)]  BY <1>4, MembersStay
  <2> QED  BY <1>4, <2>1 DEF ChangeMembership, Surrounds
<1> QED  BY <1>1, <1>2, <1>3, <1>4 DEF Next, Step


----------------------------------------------------------------------------
(* The types hold.                                                         *)

LEMMA TypedInit ==
  ASSUME Init
  PROVE  Typed
<1>1. member \in [Users -> Seq(Membership)]
  <2>1. PICK home \in [Users -> Homes] :
          member = [u \in Users |-> [i \in DOMAIN home[u] |-> [ws |-> home[u][i], role |-> "admin"]]]
    BY DEF Init
  <2>2. ASSUME NEW u \in Users
        PROVE  [i \in DOMAIN home[u] |-> [ws |-> home[u][i], role |-> "admin"]] \in Seq(Membership)
    <3>1. home[u] \in Seq(Workspaces)  BY HomesAssumption
    <3>2. \A i \in DOMAIN home[u] : [ws |-> home[u][i], role |-> "admin"] \in Membership
      BY <3>1 DEF Membership, Roles
    <3> QED  BY <3>1, <3>2
  <2> QED  BY <2>1, <2>2
<1>2. \A h \in Handlers : req[h] = Idle /\ req[h].at = "idle"  BY IdleIs DEF Init
<1>3. req \in [Handlers -> Requests \union {Idle}]  BY DEF Init
<1>4. keys \in [Keys -> Row \union {None}] /\ issued \subseteq Keys /\ session \subseteq Users
  BY HeldAssumption DEF Init
<1> QED  BY <1>1, <1>2, <1>3, <1>4 DEF Typed, Judged

\* Typed, for one request.
Kept(r) ==
    /\ r.at = "session" => r.user \in Users /\ r.header = "absent"
    /\ r.at \in {"arrived", "session", "principal"} /\ r.kind \in Managing
         => r.header = "absent"
    /\ r.at \in {"principal", "done"} =>
         /\ r.by \in Principal
         /\ ~r.by.global => r.by.user \in Users /\ r.by.ws \in Workspaces
         /\ r.kind \in Managing => ~r.by.global

LEMMA TypedIs ==
  Typed <=> /\ member \in [Users -> Seq(Membership)]
            /\ keys \in [Keys -> Row \union {None}]
            /\ issued \subseteq Keys /\ session \subseteq Users
            /\ req \in [Handlers -> Requests \union {Idle}]
            /\ \A h \in Handlers : Kept(req[h])
  BY DEF Typed, Kept, Judged

LEMMA IdleKept == Kept(Idle)
  BY IdleIs DEF Kept

\* A request of the right form takes the place of a handler's request.
LEMMA ReplacedKept ==
  ASSUME Typed, NEW h \in Handlers, NEW r \in Requests \union {Idle}, Kept(r),
         req' = [req EXCEPT ![h] = r],
         member' \in [Users -> Seq(Membership)], keys' \in [Keys -> Row \union {None}],
         issued' \subseteq Keys, session' \subseteq Users
  PROVE  Typed'
<1>1. \A g \in Handlers : Kept(req'[g])
  <2>1. \A g \in Handlers : Kept(req[g])  BY TypedIs
  <2> QED  BY <2>1, Replaced
<1>2. req' \in [Handlers -> Requests \union {Idle}]  BY Replaced, Zenon
<1> QED  BY <1>1, <1>2 DEF Typed, Kept, Judged

LEMMA MovesTyped ==
  ASSUME Typed, NEW h \in Handlers, Moves(h)
  PROVE  Typed'
<1>t. /\ member \in [Users -> Seq(Membership)] /\ keys \in [Keys -> Row \union {None}]
      /\ issued \subseteq Keys /\ session \subseteq Users /\ Kept(req[h])
  BY TypedIs
<1>c. ASSUME Calm
      PROVE  /\ member' \in [Users -> Seq(Membership)] /\ keys' \in [Keys -> Row \union {None}]
             /\ issued' \subseteq Keys /\ session' \subseteq Users
  BY <1>t, <1>c DEF Calm
<1>1. CASE Starts(h)
  <2>1. PICK r \in Requests : /\ r.at = "arrived"
                              /\ r.kind \in Managing => r.header = "absent"
                              /\ req' = [req EXCEPT ![h] = r]
    BY <1>1, Zenon DEF Starts
  <2>2. Kept(r)  BY <2>1 DEF Kept
  <2> QED  BY <1>1, <1>c, <2>1, <2>2, ReplacedKept, Zenon DEF Starts
<1>2. CASE Stops(h)
  BY <1>2, <1>t, IdleKept, ReplacedKept, Zenon DEF Stops
<1>3. CASE Looks(h)
  <2> DEFINE r == [req[h] EXCEPT !.at = "session"]
  <2>1. req[h] \in Requests  BY <1>3, Busy DEF Looks
  <2>2. r \in Requests  BY <2>1 DEF Requests
  <2>3. /\ r.at = "session" /\ r.user = req[h].user /\ r.header = req[h].header /\ r.kind = req[h].kind
    BY <2>1 DEF Requests
  <2>4. Kept(r)  BY <1>3, <2>3 DEF Kept, Looks
  <2>5. req' = [req EXCEPT ![h] = r]  BY <1>3 DEF Looks
  <2> HIDE DEF r
  <2> QED  BY <1>3, <1>c, <2>2, <2>4, <2>5, ReplacedKept, Zenon DEF Looks
<1>4. CASE Judges(h)
  <2>1. PICK p \in Principal :
          /\ Found(h, p)
          /\ req' = [req EXCEPT ![h] = [req[h] EXCEPT !.at = "principal", !.by = p]]
    BY <1>4 DEF Judges
  <2> DEFINE r == [req[h] EXCEPT !.at = "principal", !.by = p]
  <2>2. req[h] \in Requests  BY <1>4, Busy DEF Judges
  <2>3. r \in Requests  BY <2>2, Zenon DEF Requests
  <2>4. r.at = "principal" /\ r.by = p /\ r.header = req[h].header /\ r.kind = req[h].kind
    BY <2>2 DEF Requests
  <2>5. req[h].kind \in Managing => req[h].header = "absent"
    BY <1>t, <1>4 DEF Kept, Judges
  <2>6. Kept(r)  BY <2>1, <2>4, <2>5 DEF Kept, Found
  <2> HIDE DEF r
  <2> QED  BY <1>4, <1>c, <2>1, <2>3, <2>6, ReplacedKept, Zenon DEF Judges, r
<1>5. CASE Serves(h)
  <2>1. PICK w \in Workspaces \union {None} :
          req' = [req EXCEPT ![h] = [req[h] EXCEPT !.at = "done", !.on = w]]
    BY <1>5 DEF Serves
  <2> DEFINE r == [req[h] EXCEPT !.at = "done", !.on = w]
  <2>2. req[h] \in Requests  BY <1>5, Busy DEF Serves
  <2>3. r \in Requests  BY <2>2, Zenon DEF Requests
  <2>4. r.at = "done" /\ r.by = req[h].by /\ r.kind = req[h].kind  BY <2>2 DEF Requests
  <2>5. Kept(r)  BY <1>t, <1>5, <2>4 DEF Kept, Serves
  <2> HIDE DEF r
  <2> QED  BY <1>5, <1>c, <2>1, <2>3, <2>5, ReplacedKept, Zenon DEF Serves, r
<1>6. CASE Creates(h)
  <2> DEFINE r == [req[h] EXCEPT !.at = "done", !.on = req[h].by.ws]
  <2>1. PICK k \in Keys \ issued, name \in Names :
          /\ issued' = issued \union {k}
          /\ keys' = [keys EXCEPT ![k] = [user |-> req[h].by.user, ws |-> req[h].by.ws, name |-> name]]
    BY <1>6, Zenon DEF Creates
  <2>2. req[h] \in Requests  BY <1>6, Busy DEF Creates
  <2>3. req[h].by.user \in Users /\ req[h].by.ws \in Workspaces
    BY <1>t, <1>6 DEF Kept, Creates, Managing
  <2>4. r \in Requests  BY <2>2, <2>3, Zenon DEF Requests
  <2>5. r.at = "done" /\ r.by = req[h].by /\ r.kind = req[h].kind  BY <2>2 DEF Requests
  <2>6. Kept(r)  BY <1>t, <1>6, <2>5 DEF Kept, Creates
  <2>7. [user |-> req[h].by.user, ws |-> req[h].by.ws, name |-> name] \in Row  BY <2>3 DEF Row
  <2>8. keys' \in [Keys -> Row \union {None}] /\ issued' \subseteq Keys  BY <1>t, <2>1, <2>7
  <2>9. req' = [req EXCEPT ![h] = r] /\ UNCHANGED <<member, session>>  BY <1>6 DEF Creates
  <2> HIDE DEF r
  <2> QED  BY <1>t, <2>4, <2>6, <2>8, <2>9, ReplacedKept, Zenon
<1>7. CASE Deletes(h)
  <2>1. PICK k \in Keys :
          /\ keys' = [keys EXCEPT ![k] = None]
          /\ req' = [req EXCEPT ![h] = [req[h] EXCEPT !.at = "done", !.on = req[h].by.ws, !.header = k]]
    BY <1>7 DEF Deletes
  <2> DEFINE r == [req[h] EXCEPT !.at = "done", !.on = req[h].by.ws, !.header = k]
  <2>2. req[h] \in Requests  BY <1>7, Busy DEF Deletes
  <2>3. req[h].by.user \in Users /\ req[h].by.ws \in Workspaces
    BY <1>t, <1>7 DEF Kept, Deletes, Managing
  <2>4. r \in Requests  BY <2>2, <2>3, Zenon DEF Requests
  <2>5. r.at = "done" /\ r.by = req[h].by /\ r.kind = req[h].kind  BY <2>2 DEF Requests
  <2>6. Kept(r)  BY <1>t, <1>7, <2>5 DEF Kept, Deletes
  <2>7. UNCHANGED <<member, session, issued>> /\ keys' \in [Keys -> Row \union {None}]
    BY <1>t, <1>7, <2>1 DEF Deletes
  <2> HIDE DEF r
  <2> QED  BY <1>t, <2>1, <2>4, <2>6, <2>7, ReplacedKept, Zenon DEF r
<1> QED  BY <1>1, <1>2, <1>3, <1>4, <1>5, <1>6, <1>7 DEF Moves

LEMMA TypedStep ==
  ASSUME Typed, [Next]_vars
  PROVE  Typed'
<1>1. CASE Surrounds
  BY <1>1 DEF Surrounds, Typed, Judged
<1> QED  BY <1>1, Turns, MovesTyped


----------------------------------------------------------------------------
(* What a request rests on.                                                *)

\* The principal of a request, and what it rests on since the request arrived.
Backed(h) ==
    Judged(h) =>
      /\ ValidRole(req[h].by)
      /\ ~req[h].by.global => <<req[h].by.user, req[h].by.ws, req[h].by.role>> \in seen[h]
      /\ req[h].at = "done" => /\ ~req[h].by.global => req[h].on = req[h].by.ws
                               /\ RequireRole(req[h].kind, req[h].by)

\* The key that judged a request, and whose it is while it lives.
Keyed(h) ==
    Judged(h) /\ req[h].kind \in Acting /\ req[h].header \in Keys =>
      /\ <<req[h].header>> \in seen[h] /\ req[h].header \in issued /\ ~req[h].by.global
      /\ keys[req[h].header] # None => /\ req[h].by.ws = keys[req[h].header].ws
                                       /\ req[h].by.user = keys[req[h].header].user

\* The key a request has revoked.
Revoked(h) ==
    req[h].at = "done" /\ req[h].kind = "deleteKey" =>
      req[h].header \in issued /\ keys[req[h].header] = None

\* A row is that of an issued key.
Live == \A k \in Keys : keys[k] # None => k \in issued

\* What was revoked is without a row for good.
Gone == told \subseteq issued /\ \A k \in told : keys[k] = None

\* A request that came too late is not past its credentials.
TooLate(h) == h \in late => req[h].at = "arrived" /\ req[h].header \in told

IInv ==
    /\ Typed /\ Live /\ Gone
    /\ \A h \in Handlers : TooLate(h)
    /\ \A h \in Handlers : Backed(h) /\ Keyed(h) /\ Revoked(h)

\* An issued key keeps its row or loses it; a new row is that of a new key.
KeysKept ==
    /\ issued \subseteq issued'
    /\ \A k \in Keys : \/ keys'[k] = keys[k] \/ keys'[k] = None
                       \/ k \notin issued /\ k \in issued'

LEMMA KeysStep ==
  ASSUME Typed, [Next]_vars
  PROVE  KeysKept
<1>k. keys \in [Keys -> Row \union {None}]  BY DEF Typed
<1>1. CASE Surrounds  BY <1>1 DEF Surrounds, KeysKept
<1>2. ASSUME NEW h \in Handlers, Moves(h)
      PROVE  KeysKept
  <2>1. CASE Creates(h)
    <3>1. PICK k \in Keys \ issued : /\ issued' = issued \union {k}
                                     /\ \E row : keys' = [keys EXCEPT ![k] = row]
      BY <2>1, Zenon DEF Creates
    <3> QED  BY <1>k, <3>1 DEF KeysKept
  <2>2. CASE Deletes(h)
    <3>1. PICK k \in Keys : keys' = [keys EXCEPT ![k] = None] /\ issued' = issued
      BY <2>2, Zenon DEF Deletes
    <3> QED  BY <1>k, <3>1 DEF KeysKept
  <2>3. CASE ~Creates(h) /\ ~Deletes(h)
    <3>1. keys' = keys /\ issued \subseteq issued'
      BY <1>2, <2>3, Zenon DEF Moves, Starts, Stops, Looks, Judges, Serves, Calm
    <3> QED  BY <3>1 DEF KeysKept
  <2> QED  BY <2>1, <2>2, <2>3
<1> QED  BY <1>1, <1>2, Turns

LEMMA LiveStep ==
  ASSUME Typed, Live, KeysKept
  PROVE  Live'
  BY DEF Typed, Live, KeysKept

\* The observer keeps what it saw of a request.
LEMMA SeenKept ==
  ASSUME [Next]_vars, NEW h \in Handlers, req[h] # Idle, req'[h] # Idle
  PROVE  seen[h] \subseteq seen'[h]
<1>1. CASE UNCHANGED vars  BY <1>1 DEF vars
<1>2. CASE Next  BY <1>2 DEF Next, Observe
<1> QED  BY <1>1, <1>2

\* A request that stays where it is stays backed.
LEMMA RestKept ==
  ASSUME IInv, [Next]_vars, KeysKept, NEW h \in Handlers, req'[h] = req[h]
  PROVE  Backed(h)' /\ Keyed(h)' /\ Revoked(h)'
<1>0. Typed /\ Live /\ Backed(h) /\ Keyed(h) /\ Revoked(h) /\ issued \subseteq Keys
  BY DEF IInv, Typed
<1>1. CASE req[h] = Idle
  <2>1. req'[h].at = "idle"  BY <1>1, IdleIs
  <2> QED  BY <2>1 DEF Backed, Keyed, Revoked, Judged
<1>2. CASE req[h] # Idle
  <2>1. seen[h] \subseteq seen'[h]  BY <1>2, SeenKept
  <2>2. Backed(h)'  BY <1>0, <2>1 DEF Backed, Judged, ValidRole
  <2>3. Keyed(h)'  BY <1>0, <2>1 DEF Keyed, Judged, KeysKept
  <2>4. Revoked(h)'  BY <1>0 DEF Revoked, KeysKept
  <2> QED  BY <2>2, <2>3, <2>4
<1> QED  BY <1>1, <1>2


\* The request that moves.
LEMMA MoverKept ==
  ASSUME IInv, Next, KeysKept, NEW h \in Handlers, Moves(h)
  PROVE  Backed(h)' /\ Keyed(h)' /\ Revoked(h)'
<1>0. /\ Typed /\ Live /\ Backed(h) /\ Keyed(h) /\ Revoked(h) /\ issued \subseteq Keys
      /\ req \in [Handlers -> Requests \union {Idle}]
      /\ keys \in [Keys -> Row \union {None}]
  BY DEF IInv, Typed
<1>n. ASSUME req[h] # Idle, req'[h] # Idle
      PROVE  seen[h] \subseteq seen'[h]
  BY <1>n, SeenKept
<1>1. CASE Starts(h) \/ Stops(h) \/ Looks(h)
  <2>1. req'[h].at \in {"arrived", "idle", "session"}
    <3>1. CASE Starts(h)  BY <1>0, <3>1 DEF Starts
    <3>2. CASE Stops(h)  BY <1>0, <3>2, IdleIs DEF Stops
    <3>3. CASE Looks(h)
      <4>1. req[h] \in Requests  BY <1>0, <3>3, Busy DEF Looks
      <4>2. req'[h] = [req[h] EXCEPT !.at = "session"]  BY <1>0, <3>3 DEF Looks
      <4> QED  BY <4>1, <4>2 DEF Requests
    <3> QED  BY <1>1, <3>1, <3>2, <3>3
  <2> QED  BY <2>1 DEF Backed, Keyed, Revoked, Judged
<1>2. CASE Judges(h)
  <2>1. PICK p \in Principal :
          /\ Found(h, p)
          /\ req' = [req EXCEPT ![h] = [req[h] EXCEPT !.at = "principal", !.by = p]]
    BY <1>2 DEF Judges
  <2>2. req[h] \in Requests  BY <1>0, <1>2, Busy DEF Judges
  <2>3. req'[h] = [req[h] EXCEPT !.at = "principal", !.by = p]  BY <1>0, <2>1
  <2>4. /\ req'[h].at = "principal" /\ req'[h].by = p
        /\ req'[h].header = req[h].header /\ req'[h].kind = req[h].kind
    BY <2>2, <2>3 DEF Requests
  <2>5. keys' = keys /\ issued' = issued /\ member' = member  BY <1>2 DEF Judges, Calm
  <2>6. Facts(req[h].header) \subseteq seen'[h]
    <3>1. req'[h] # Idle /\ req'[h].at # "done"  BY <2>4, IdleIs
    <3>2. Facts(req[h].header)' \subseteq seen'[h]  BY <3>1, Zenon DEF Next, Observe
    <3>3. Facts(req[h].header)' = Facts(req[h].header)  BY <2>4, <2>5 DEF Facts
    <3> QED  BY <3>2, <3>3
  <2>7. Backed(h)'
    <3>1. ~p.global => <<p.user, p.ws, p.role>> \in seen'[h]  BY <2>1, <2>6 DEF Found
    <3>2. ValidRole(p)  BY <2>1 DEF Found
    <3> QED  BY <2>4, <3>1, <3>2 DEF Backed, Judged, ValidRole
  <2>8. Keyed(h)'
    <3>1. SUFFICES ASSUME req[h].header \in Keys
                   PROVE  /\ <<req[h].header>> \in seen'[h] /\ req[h].header \in issued /\ ~p.global
                          /\ p.ws = keys[req[h].header].ws /\ p.user = keys[req[h].header].user
      BY <2>4, <2>5 DEF Keyed, Judged
    <3>2. /\ ~p.global /\ keys[req[h].header] # None
          /\ p.user = keys[req[h].header].user /\ p.ws = keys[req[h].header].ws
      BY <2>1, <3>1 DEF Found
    <3>3. <<req[h].header>> \in Facts(req[h].header)  BY <3>1, <3>2, LiveKeyIsFact
    <3>4. req[h].header \in issued  BY <1>0, <3>1, <3>2 DEF Live
    <3> QED  BY <2>6, <3>2, <3>3, <3>4
  <2>9. Revoked(h)'  BY <2>4 DEF Revoked
  <2> QED  BY <2>7, <2>8, <2>9
<1>3. CASE Serves(h)
  <2>1. PICK w \in Workspaces \union {None} :
          /\ ~req[h].by.global => w = req[h].by.ws
          /\ req' = [req EXCEPT ![h] = [req[h] EXCEPT !.at = "done", !.on = w]]
    BY <1>3, Zenon DEF Serves
  <2>2. req[h] \in Requests  BY <1>0, <1>3, Busy DEF Serves
  <2>3. req'[h] = [req[h] EXCEPT !.at = "done", !.on = w]  BY <1>0, <2>1
  <2>4. /\ req'[h].at = "done" /\ req'[h].on = w /\ req'[h].by = req[h].by
        /\ req'[h].header = req[h].header /\ req'[h].kind = req[h].kind
    BY <2>2, <2>3 DEF Requests
  <2>5. /\ req[h].at = "principal" /\ RequireRole(req[h].kind, req[h].by) /\ req[h].kind # "deleteKey"
        /\ keys' = keys /\ issued' = issued
    BY <1>3 DEF Serves, Calm, Acting
  <2>6. seen[h] \subseteq seen'[h]  BY <1>n, <2>2, <2>4, IdleIs
  <2>7. RequireRole(req[h].kind, req[h].by)'
    BY <2>4, <2>5 DEF RequireRole, Allowed
  <2>8. Backed(h)'  BY <1>0, <2>1, <2>4, <2>5, <2>6, <2>7 DEF Backed, Judged, ValidRole
  <2>9. Keyed(h)'  BY <1>0, <2>4, <2>5, <2>6 DEF Keyed, Judged
  <2> QED  BY <2>4, <2>5, <2>8, <2>9, SMTT(30) DEF Revoked
<1>4. CASE Creates(h)
  <2>2. req[h] \in Requests  BY <1>0, <1>4, Busy DEF Creates
  <2>3. req'[h] = [req[h] EXCEPT !.at = "done", !.on = req[h].by.ws]  BY <1>0, <1>4 DEF Creates
  <2>4. /\ req'[h].at = "done" /\ req'[h].on = req[h].by.ws /\ req'[h].by = req[h].by
        /\ req'[h].kind = req[h].kind
    BY <2>2, <2>3 DEF Requests
  <2>5. req[h].at = "principal" /\ req[h].kind = "createKey" /\ RequireRole("createKey", req[h].by)
    BY <1>4 DEF Creates
  <2>6. seen[h] \subseteq seen'[h]  BY <1>n, <2>2, <2>4, IdleIs
  <2>7. RequireRole(req[h].kind, req[h].by)'
    BY <2>4, <2>5 DEF RequireRole, Allowed
  <2>8. Backed(h)'  BY <1>0, <2>4, <2>5, <2>6, <2>7 DEF Backed, Judged, ValidRole
  <2> QED  BY <2>4, <2>5, <2>8 DEF Keyed, Revoked, Acting
<1>5. CASE Deletes(h)
  <2>1. PICK k \in Keys :
          /\ keys[k] # None
          /\ keys' = [keys EXCEPT ![k] = None]
          /\ req' = [req EXCEPT ![h] = [req[h] EXCEPT !.at = "done", !.on = req[h].by.ws, !.header = k]]
    BY <1>5 DEF Deletes
  <2>2. req[h] \in Requests  BY <1>0, <1>5, Busy DEF Deletes
  <2>3. req'[h] = [req[h] EXCEPT !.at = "done", !.on = req[h].by.ws, !.header = k]  BY <1>0, <2>1
  <2>4. /\ req'[h].at = "done" /\ req'[h].on = req[h].by.ws /\ req'[h].by = req[h].by
        /\ req'[h].kind = req[h].kind /\ req'[h].header = k
    BY <2>2, <2>3 DEF Requests
  <2>5. req[h].at = "principal" /\ req[h].kind = "deleteKey" /\ issued' = issued
    BY <1>5 DEF Deletes
  <2>6. seen[h] \subseteq seen'[h]  BY <1>n, <2>2, <2>4, IdleIs
  <2>7. RequireRole(req[h].kind, req[h].by)'
    <3>1. ValidRole(req[h].by)  BY <1>0, <2>5, SMTT(30) DEF Backed, Judged
    <3> QED  BY <2>4, <2>5, <3>1 DEF RequireRole, Allowed, ValidRole
  <2>8. Backed(h)'  BY <1>0, <2>4, <2>5, <2>6, <2>7 DEF Backed, Judged, ValidRole
  <2>9. Revoked(h)'
    <3>1. k \in issued  BY <1>0, <2>1 DEF Live
    <3>2. keys'[k] = None  BY <1>0, <2>1
    <3> QED  BY <2>4, <2>5, <3>1, <3>2 DEF Revoked
  <2> QED  BY <2>4, <2>5, <2>8, <2>9, SMTT(30) DEF Keyed, Acting
<1> QED  BY <1>1, <1>2, <1>3, <1>4, <1>5 DEF Moves


LEMMA IInvInit ==
  ASSUME Init
  PROVE  IInv
<1>1. \A h \in Handlers : req[h].at = "idle"  BY IdleIs DEF Init
<1>2. Live /\ Gone  BY DEF Init, Live, Gone
<1>3. \A h \in Handlers : TooLate(h)  BY DEF Init, TooLate
<1> QED  BY <1>1, <1>2, <1>3, TypedInit DEF IInv, Backed, Keyed, Revoked, Judged

\* Only the request that moves is another one afterwards.
LEMMA OneMoves ==
  ASSUME Typed, [Next]_vars, NEW g \in Handlers, req'[g] # req[g]
  PROVE  Next /\ Moves(g)
<1>0. req \in [Handlers -> Requests \union {Idle}]  BY DEF Typed
<1>1. Next /\ ~Surrounds  BY DEF vars, Surrounds
<1>2. PICK h \in Handlers : Moves(h)  BY <1>1, Turns, SMTT(30)
<1>3. \A f \in Handlers : f # h => req'[f] = req[f]
  BY <1>0, <1>2, Zenon DEF Moves, Starts, Stops, Looks, Judges, Serves, Creates, Deletes
<1> QED  BY <1>1, <1>2, <1>3

\* A revoked key was issued, so no step gives it a row again.
LEMMA GoneStep ==
  ASSUME Typed, Gone, [Next]_vars, KeysKept, \A h \in Handlers : Revoked(h)'
  PROVE  Gone' /\ told \subseteq told'
<1>0. issued \subseteq Keys  BY DEF Typed
<1>1. ASSUME NEW k \in told
      PROVE  k \in issued' /\ keys'[k] = None
  BY <1>0 DEF Gone, KeysKept
<1>2. CASE UNCHANGED vars  BY <1>1, <1>2 DEF vars, Gone
<1>3. CASE Next
  <2>1. told' = told \union {req'[h].header : h \in {g \in Handlers : Revokes(req'[g])}}
    BY <1>3 DEF Next, Observe
  <2>2. ASSUME NEW h \in Handlers, Revokes(req'[h])
        PROVE  req'[h].header \in issued' /\ keys'[req'[h].header] = None
    BY <2>2 DEF Revokes, Revoked
  <2> QED  BY <1>1, <2>1, <2>2 DEF Gone
<1> QED  BY <1>2, <1>3

\* A request with a revoked key can only end: it does not turn to the session,
\* and the look-up of its key finds no row.
LEMMA TooLateStep ==
  ASSUME IInv, [Next]_vars, told \subseteq told', NEW g \in Handlers
  PROVE  TooLate(g)'
<1>0. /\ Typed /\ Gone /\ TooLate(g) /\ told \subseteq Keys
      /\ req \in [Handlers -> Requests \union {Idle}]
  BY DEF IInv, Typed, Gone
<1>1. SUFFICES ASSUME g \in late'
               PROVE  req'[g].at = "arrived" /\ req'[g].header \in told
  BY DEF TooLate
<1>2. CASE UNCHANGED vars  BY <1>0, <1>1, <1>2 DEF vars, TooLate
<1>3. CASE Next
  <2>1. /\ req'[g] # Idle
        /\ req[g] = Idle => req'[g].header \in told
        /\ req[g] # Idle => g \in late
    BY <1>1, <1>3 DEF Next, Observe
  <2>2. CASE req[g] = Idle
    <3>1. Moves(g)  BY <1>0, <2>1, <2>2, OneMoves
    <3>2. req[g].at = "idle"  BY <2>2, IdleIs
    <3>3. Starts(g)
      BY <2>2, <3>1, <3>2 DEF Moves, Stops, Looks, Judges, Serves, Creates, Deletes
    <3>4. req'[g].at = "arrived"  BY <1>0, <3>3 DEF Starts
    <3> QED  BY <2>1, <2>2, <3>4
  <2>3. CASE req[g] # Idle
    <3>1. /\ req[g].at = "arrived" /\ req[g].header \in told /\ req[g].header \in Keys
          /\ keys[req[g].header] = None /\ req[g].header # "absent"
      BY <1>0, <2>1, <2>3, KeysAssumption DEF TooLate, Gone
    <3>2. ~Moves(g)
      <4>1. ~Starts(g) /\ ~Looks(g)  BY <2>3, <3>1 DEF Starts, Looks
      <4>2. ~Stops(g)  BY <1>0, <2>1 DEF Stops
      <4>3. ~Judges(g)  BY <3>1, Zenon DEF Judges, Found
      <4>4. ~Serves(g) /\ ~Creates(g) /\ ~Deletes(g)  BY <3>1 DEF Serves, Creates, Deletes
      <4> QED  BY <4>1, <4>2, <4>3, <4>4 DEF Moves
    <3>3. req'[g] = req[g]  BY <1>0, <3>2, OneMoves
    <3> QED  BY <3>1, <3>3
  <2> QED  BY <2>2, <2>3
<1> QED  BY <1>2, <1>3

LEMMA IInvStep ==
  ASSUME IInv, [Next]_vars
  PROVE  IInv'
<1>0. Typed /\ Live /\ Gone  BY DEF IInv
<1>1. Typed' /\ KeysKept /\ Live'  BY <1>0, TypedStep, KeysStep, LiveStep
<1>2. ASSUME NEW g \in Handlers
      PROVE  Backed(g)' /\ Keyed(g)' /\ Revoked(g)'
  <2>1. CASE req'[g] = req[g]  BY <1>1, <2>1, RestKept
  <2>2. CASE req'[g] # req[g]
    <3>1. Next /\ Moves(g)  BY <1>0, <2>2, OneMoves
    <3> QED  BY <1>1, <3>1, MoverKept
  <2> QED  BY <2>1, <2>2
<1>3. Gone' /\ told \subseteq told'  BY <1>0, <1>1, <1>2, GoneStep
<1>4. \A g \in Handlers : TooLate(g)'  BY <1>3, TooLateStep
<1> QED  BY <1>1, <1>2, <1>3, <1>4 DEF IInv

\* Every request rests on what it found, a revoked key stays without a row, and
\* who comes with one is not let in.
THEOREM Inductive == Spec => []IInv
<1>1. Init => IInv  BY IInvInit
<1>2. IInv /\ [Next]_vars => IInv'  BY IInvStep
<1> QED  BY <1>1, <1>2, PTL DEF Spec

----------------------------------------------------------------------------
(* The theorems.                                                           *)

LEMMA FreshFromIInv ==
  ASSUME IInv
  PROVE  AuthorityIsFresh
<1>1. SUFFICES ASSUME NEW h \in Handlers, req[h].at = "done", ~req[h].by.global
               PROVE  /\ <<req[h].by.user, req[h].on, req[h].by.role>> \in seen[h]
                      /\ RequireRole(req[h].kind, req[h].by)
  BY DEF AuthorityIsFresh, Acted
<1>2. Backed(h)  BY DEF IInv
<1> QED  BY <1>1, <1>2 DEF Backed, Judged

\* What a request does rests on a membership that held since it arrived, with a
\* role that allows it, in the workspace it acts on: neither the two statements
\* of RequireAuth nor a change between them and the handler can widen it.
THEOREM AuthorityHeldSinceArrival == Spec => []AuthorityIsFresh
  BY Inductive, FreshFromIInv, PTL

LEMMA KeysFromIInv ==
  ASSUME IInv
  PROVE  NeverFallsBack /\ KeyKeepsItsWorkspace
<1>1. ASSUME NEW h \in Handlers, req[h].at = "done", req[h].kind \in Acting,
             req[h].header \in Keys
      PROVE  /\ <<req[h].header>> \in seen[h]
             /\ keys[req[h].header] # None => /\ req[h].on = keys[req[h].header].ws
                                              /\ req[h].by.user = keys[req[h].header].user
  <2>1. Backed(h) /\ Keyed(h)  BY DEF IInv
  <2> QED  BY <1>1, <2>1 DEF Backed, Keyed, Judged
<1> QED  BY <1>1, Zenon DEF NeverFallsBack, KeyKeepsItsWorkspace, Acted

\* A request that carries a personal key acts only if that key lived since the
\* request arrived: requireCredentials never turns to the session cookie.
THEOREM KeysDoNotFallBack == Spec => []NeverFallsBack
  BY Inductive, KeysFromIInv, PTL

\* A key acts for its creator in the workspace it was created in, whatever
\* memberships its creator has gained or lost since.
THEOREM KeysKeepTheirWorkspace == Spec => []KeyKeepsItsWorkspace
  BY Inductive, KeysFromIInv, PTL

LEMMA NewKeyStep ==
  ASSUME Typed, [Next]_vars, NEW k \in Keys, keys[k] = None, keys'[k] # None
  PROVE  \E m \in MemberOf(keys'[k].user, keys'[k].ws) : m.role \in {"admin", "operator"}
<1>k. keys \in [Keys -> Row \union {None}]  BY DEF Typed
<1>1. PICK h \in Handlers : Moves(h)  BY Turns, SMTT(30) DEF Surrounds
<1>2. Creates(h)
  <2>1. ~Deletes(h)  BY <1>k, Zenon DEF Deletes
  <2> QED  BY <1>1, <2>1, Zenon DEF Moves, Starts, Stops, Looks, Judges, Serves, Calm
<1>3. PICK new \in Keys \ issued, name \in Names :
        keys' = [keys EXCEPT ![new] = [user |-> req[h].by.user, ws |-> req[h].by.ws, name |-> name]]
  BY <1>2, Zenon DEF Creates
<1>4. keys'[k] = [user |-> req[h].by.user, ws |-> req[h].by.ws, name |-> name]  BY <1>k, <1>3
<1>5. MayHold(req[h].by)  BY <1>2 DEF Creates
<1> QED  BY <1>4, <1>5 DEF MayHold

\* The INSERT of CreateAPIKey gives a key only to a user who may send in its
\* workspace in the very state it runs in.
THEOREM KeysGoToMembers == Spec => KeysForMembersOnly
<1>1. Typed /\ [Next]_vars =>
        [\A k \in Keys : keys[k] = None /\ keys'[k] # None =>
           \E m \in MemberOf(keys'[k].user, keys'[k].ws) : m.role \in {"admin", "operator"}]_vars
  BY NewKeyStep
<1>2. IInv => Typed  BY DEF IInv
<1> QED  BY <1>1, <1>2, Inductive, PTL DEF Spec, KeysForMembersOnly

LEMMA RefusedFromIInv ==
  ASSUME IInv
  PROVE  RevokedIsRefused
<1>1. ASSUME NEW h \in Handlers, h \in late, req[h].at = "done"
      PROVE  FALSE
  BY <1>1 DEF IInv, TooLate
<1> QED  BY <1>1 DEF RevokedIsRefused, Acted

\* A request that arrives with a key after DeleteAPIKey has answered for it never
\* acts, for any number of users, keys and requests: the row is gone, no value is
\* issued twice, and RequireCredentials knows no other way for this request.
THEOREM RevocationIsImmediate == Spec => []RevokedIsRefused
  BY Inductive, RefusedFromIInv, PTL
=============================================================================
