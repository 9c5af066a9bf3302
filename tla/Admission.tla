----------------------------- MODULE Admission -----------------------------
(***************************************************************************)
(* Admission control of POST /v1/messages: what QueueMessage decides       *)
(* before it stores a message.  The tenant policy counts the workspace's   *)
(* rows of the last hour in PostgreSQL; the instance limiter counts        *)
(* requests in Redis keys named after the clock hour.  Every statement is  *)
(* a step, so concurrent requests of one workspace interleave between the  *)
(* count and the INSERT.  Workspaces share no counter: one is modelled.    *)
(***************************************************************************)
EXTENDS Integers, Sequences, FiniteSets

CONSTANTS
    Handlers,       \* requests served at the same time, one goroutine each
    Domains,        \* recipient domains
    ConfigBlocked,  \* BLOCKED_RECIPIENT_DOMAINS
    WorkspacePerHour, DomainPerHour,  \* RATE_LIMIT_*_PER_HOUR
    PolicyRates,    \* rates a POST /v1/workspaces/policy may ask for
    Hour,           \* clock ticks in an hour
    MaxTime,        \* bound: the clock
    MaxCalls,       \* bound: requests in one behaviour
    MaxPosts,       \* bound: policy changes in one behaviour
    MaxFaults       \* bound: failed store and Redis calls

ASSUME AdmissionAssumption ==
    /\ IsFiniteSet(Handlers)
    /\ ConfigBlocked \subseteq Domains
    /\ WorkspacePerHour \in Nat \ {0} /\ DomainPerHour \in Nat \ {0}
    /\ PolicyRates \subseteq Int
    /\ Hour \in Nat \ {0}
    /\ {MaxTime, MaxCalls, MaxPosts, MaxFaults} \subseteq Nat

VARIABLES
    now,            \* the clock
    stored,         \* the workspace_policies row, NoPolicy before the first POST
    rows,           \* messages: recipient domain, created_at, limiter hour
    wsCount,        \* Redis maild:rl:ws:<hour>
    domCount,       \* Redis maild:rl:domain:<domain>:<hour>
    req,            \* what a handler serves: step, domain, policy read, hour key
    calls, posts, faults,
    \* Observers, read by no guard:
    highest,        \* the highest workspace rate in force so far
    unearned        \* a 429 of the limiter although neither limit was used up

counters == <<wsCount, domCount>>
bounds == <<calls, posts, faults>>
vars == <<now, stored, rows, counters, req, bounds, highest, unearned>>

Hours == 0 .. MaxTime \div Hour
Policy == [ws : Int, dom : Int, blocked : SUBSET Domains]
NoPolicy == [ws |-> 0, dom |-> 0, blocked |-> {}]
Blank == "blank"    \* an empty entry of a posted list
Idle == [pc |-> "idle"]
Request == [pc : {"countWs", "countDom", "incrWs", "incrDom", "insert"},
            dom : Domains, pol : Policy, key : Hours]

TypeOK ==
    /\ now \in 0 .. MaxTime
    /\ stored \in Policy
    /\ rows \in Seq([dom : Domains, at : 0 .. MaxTime, hour : Hours])
    /\ wsCount \in [Hours -> Nat]
    /\ domCount \in [Hours -> [Domains -> Nat]]
    /\ req \in [Handlers -> Request \union {Idle}]
    /\ calls \in Nat /\ posts \in Nat /\ faults \in Nat
    /\ highest \in Nat
    /\ unearned \in BOOLEAN

----------------------------------------------------------------------------
(* The tenant policy.                                                      *)

\* The stored policy, or the instance defaults while there is no row.
WorkspacePolicy ==
    IF stored # NoPolicy THEN stored
    ELSE [ws |-> WorkspacePerHour, dom |-> DomainPerHour, blocked |-> ConfigBlocked]

\* A posted list without its blank entries; case and repeats are folded away
\* by taking entries for domains and lists for sets.
NormalizeDomains(list) == list \ {Blank}

\* A rate below one is replaced by the instance's.
Normalized(ws, d, list) ==
    [ws |-> IF ws < 1 THEN WorkspacePerHour ELSE ws,
     dom |-> IF d < 1 THEN DomainPerHour ELSE d,
     blocked |-> NormalizeDomains(list)]

\* One upsert: the row is replaced as a whole.
UpsertWorkspacePolicy(policy) ==
    /\ stored' = policy
    /\ highest' = IF stored'.ws > highest THEN stored'.ws ELSE highest

\* POST /v1/workspaces/policy; its re-read and the GET change nothing.
PostWorkspacePolicy ==
    /\ posts < MaxPosts
    /\ posts' = posts + 1
    /\ \E ws \in PolicyRates, d \in PolicyRates, list \in SUBSET (Domains \union {Blank}) :
          UpsertWorkspacePolicy(Normalized(ws, d, list))
    /\ UNCHANGED <<now, rows, counters, req, calls, faults, unearned>>

\* Rows of the given domains created since the given time.
CountMessagesSince(ds, since) ==
    Cardinality({i \in DOMAIN rows : rows[i].dom \in ds /\ rows[i].at >= since})

\* The instance starts on an empty window, with or without a stored policy.
Init ==
    /\ now = 0
    /\ stored \in {NoPolicy} \union
          {Normalized(ws, d, {}) : ws \in PolicyRates, d \in PolicyRates}
    /\ rows = <<>>
    /\ wsCount = [h \in Hours |-> 0]
    /\ domCount = [h \in Hours |-> [d \in Domains |-> 0]]
    /\ req = [c \in Handlers |-> Idle]
    /\ calls = 0 /\ posts = 0 /\ faults = 0
    /\ highest = WorkspacePolicy.ws
    /\ unearned = FALSE

----------------------------------------------------------------------------
(* QueueMessage, one step per statement.                                   *)

Goto(c, step) == req' = [req EXCEPT ![c].pc = step]
Answer(c) == req' = [req EXCEPT ![c] = Idle]

\* The handler validates the body, takes the domain of an address with one "@"
\* and reads the policy; a body it refuses changes nothing.
Begin(c) ==
    /\ req[c].pc = "idle" /\ calls < MaxCalls
    /\ calls' = calls + 1
    /\ \E d \in Domains :
          req' = [req EXCEPT ![c] =
                    [pc |-> "countWs", dom |-> d, pol |-> WorkspacePolicy, key |-> 0]]
    /\ UNCHANGED <<now, stored, rows, counters, posts, faults, highest, unearned>>

\* Mutant: the count may reach the limit before a request is refused.
OverWorkspaceRateLax(p) == p.ws > 0 /\ CountMessagesSince(Domains, now - Hour) > p.ws

OverWorkspaceRate(p) == p.ws > 0 /\ CountMessagesSince(Domains, now - Hour) >= p.ws

CountWorkspace(c) ==
    /\ req[c].pc = "countWs"
    /\ IF OverWorkspaceRate(req[c].pol) THEN Answer(c) ELSE Goto(c, "countDom")
    /\ UNCHANGED <<now, stored, rows, counters, bounds, highest, unearned>>

\* Mutant: the tenant's own list is the only block list.
BlockedByPolicyOnly(p, d) == d \in p.blocked

\* A tenant's list replaces the default one, but not the instance's check.
Blocked(p, d) == d \in p.blocked \/ d \in ConfigBlocked

CountDomain(c) ==
    LET p == req[c].pol
        d == req[c].dom
    IN
    /\ req[c].pc = "countDom"
    /\ IF (p.dom > 0 /\ CountMessagesSince({d}, now - Hour) >= p.dom) \/ Blocked(p, d)
       THEN Answer(c) ELSE Goto(c, "incrWs")
    /\ UNCHANGED <<now, stored, rows, counters, bounds, highest, unearned>>

\* Rows of hour h, and requests of hour h at one of the given steps.
Passed(h, ds, steps) ==
    Cardinality({i \in DOMAIN rows : rows[i].hour = h /\ rows[i].dom \in ds})
      + Cardinality({c \in Handlers : /\ req[c].pc \in steps
                                      /\ req[c].key = h /\ req[c].dom \in ds})

\* Mutant: the limiter compares the count from before its own increment.
OverOldCount(count, limit) == count - 1 > limit

\* Allow refuses on the value that its own INCR returned.
Over(count, limit) == count > limit

\* The hour is fixed here for both keys, and INCR is one Redis step.
IncrWorkspace(c) ==
    LET h == now \div Hour IN
    /\ req[c].pc = "incrWs"
    /\ wsCount' = [wsCount EXCEPT ![h] = @ + 1]
    /\ IF Over(wsCount'[h], WorkspacePerHour)
       THEN /\ Answer(c)
            /\ unearned' = (unearned \/
                 /\ Passed(h, Domains, {"incrDom", "insert"}) < WorkspacePerHour
                 /\ Passed(h, {req[c].dom}, {"insert"}) < DomainPerHour)
       ELSE /\ req' = [req EXCEPT ![c].pc = "incrDom", ![c].key = h]
            /\ UNCHANGED unearned
    /\ UNCHANGED <<now, stored, rows, domCount, bounds, highest>>

IncrDomain(c) ==
    /\ req[c].pc = "incrDom"
    /\ domCount' = [domCount EXCEPT ![req[c].key][req[c].dom] = @ + 1]
    /\ IF Over(domCount'[req[c].key][req[c].dom], DomainPerHour)
       THEN Answer(c) ELSE Goto(c, "insert")
    /\ UNCHANGED <<now, stored, rows, wsCount, bounds, highest, unearned>>

\* The recipient check and the INSERT; suppressed messages are rows too.
CreateMessage(c) ==
    rows' = Append(rows, [dom |-> req[c].dom, at |-> now, hour |-> req[c].key])

Insert(c) ==
    /\ req[c].pc = "insert"
    /\ CreateMessage(c)
    /\ Answer(c)
    /\ UNCHANGED <<now, stored, counters, bounds, highest, unearned>>

\* A statement reports an error; it may still have been executed.
CallFails(c) ==
    /\ req[c].pc # "idle" /\ faults < MaxFaults
    /\ faults' = faults + 1
    /\ Answer(c)
    /\ \/ UNCHANGED <<rows, counters>>
       \/ /\ req[c].pc = "incrWs"
          /\ wsCount' = [wsCount EXCEPT ![now \div Hour] = @ + 1]
          /\ UNCHANGED <<rows, domCount>>
       \/ /\ req[c].pc = "incrDom"
          /\ domCount' = [domCount EXCEPT ![req[c].key][req[c].dom] = @ + 1]
          /\ UNCHANGED <<rows, wsCount>>
       \/ /\ req[c].pc = "insert"
          /\ CreateMessage(c)
          /\ UNCHANGED counters
    /\ UNCHANGED <<now, stored, calls, posts, highest, unearned>>

Tick ==
    /\ now < MaxTime
    /\ now' = now + 1
    /\ UNCHANGED <<stored, rows, counters, req, bounds, highest, unearned>>

\* No client sends anything; TLC's deadlock check then finds stuck handlers.
AtRest == (\A c \in Handlers : req[c] = Idle) /\ UNCHANGED vars

QueueMessage(c) ==
    \/ Begin(c) \/ CountWorkspace(c) \/ CountDomain(c)
    \/ IncrWorkspace(c) \/ IncrDomain(c) \/ Insert(c) \/ CallFails(c)

Next ==
    \/ AtRest
    \/ Tick
    \/ \E c \in Handlers : QueueMessage(c)
    \/ PostWorkspacePolicy

Spec == Init /\ [][Next]_vars

----------------------------------------------------------------------------
(* Properties.                                                             *)

\* The hourly limiter holds under any interleaving: the requests it lets pass
\* in one clock hour never exceed the workspace's and the domain's limit,
\* because RedisLimiter.Allow decides on the value its own INCR returned.
HourlyLimitKept ==
    \A h \in Hours :
        /\ Passed(h, Domains, {"incrDom", "insert"}) <= WorkspacePerHour
        /\ \A d \in Domains : Passed(h, {d}, {"insert"}) <= DomainPerHour

\* QueueMessage counts and inserts in separate statements, so the tenant's
\* limit can be overshot, but never by more than the other requests in flight.
OvershootBounded ==
    CountMessagesSince(Domains, now - Hour)
      + Cardinality({c \in Handlers : req[c].pc \notin {"idle", "countWs"}})
      <= highest + Cardinality(Handlers) - 1

\* A domain the instance blocks gets no row, whatever list the tenant stores,
\* and no request passes a domain its tenant had blocked when it began.
BlockedNeverAdmitted ==
    /\ \A i \in DOMAIN rows : rows[i].dom \notin ConfigBlocked
    /\ \A c \in Handlers : req[c].pc \in {"incrWs", "incrDom", "insert"}
                              => req[c].dom \notin req[c].pol.blocked

\* policy.html shows the workspace limit as "messages per hour": no hour holds
\* more messages than the tenant's policies allowed.  Two concurrent requests
\* that both count before either inserts refute it.
PolicyLimitKept ==
    CountMessagesSince(Domains, now - Hour) <= highest

\* README.md says of 429 that a workspace or recipient-domain limit was
\* reached.  Allow charges the workspace before it asks for the domain, so
\* refused requests use the hour up and a 429 can come with both limits free.
RefusalIsEarned == ~unearned
============================================================================
