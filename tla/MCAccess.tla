------------------------------ MODULE MCAccess ------------------------------
EXTENDS Access, TLC

CONSTANTS u1, w1, w2, h1, h2, k1, k2

\* A member of both workspaces, or a user whom an administrator has removed.
BothOrNone == {<<w1, w2>>, <<>>}

\* No key, or one of a workspace that is not the user's oldest.
NoneOrOther ==
    {[k \in Keys |-> None]}
      \union {[k \in Keys |-> IF k = old THEN [user |-> u1, ws |-> w2, name |-> "app"] ELSE None]
                : old \in Keys}

\* Keys with and without a cookie, sessions, instance keys, with the default
\* workspace or w2, and the management of keys.
Call(kinds, headers, cookies, ws) == [kind : kinds, header : headers, user : cookies, ws : ws]
MCCalls ==
    Call(Acting, Keys, {u1, None}, {None, w2}) \union Call(Acting, {"absent"}, {u1}, {None, w2})
      \union Call({"manage", "read"}, InstanceKeys, {None}, {None, w2})
      \union Call(Managing, {"absent"}, {u1}, {None}) \union Call({"read"}, {"absent"}, {None}, {None})

AccessSymmetry == Permutations(Handlers) \union Permutations(Keys)
=============================================================================
