---------------------------- MODULE SMTPFailover ----------------------------
(***************************************************************************)
(* The SMTP accounts of a workspace: operators add and activate them,      *)
(* workers send through the active one, record failed attempts and switch  *)
(* to a standby when the provider they used has failed often enough.  Each *)
(* statement of tryAutoFailover is a step, so a worker decides on lists    *)
(* and counts that others have changed since.  SetActiveSMTPAccount is one *)
(* step: its transaction locks every account row of the workspace.  All    *)
(* clocks are one clock.                                                   *)
(***************************************************************************)
EXTENDS Integers, Sequences, FiniteSets

CONSTANTS
    Names,          \* account names
    Providers,      \* host:port, what an attempt records
    Workers,
    Operators,      \* HTTP requests that change accounts
    Threshold,      \* AUTO_FAILOVER_FAILURE_THRESHOLD
    Window,         \* AUTO_FAILOVER_WINDOW in clock ticks
    Cooldown,       \* AUTO_FAILOVER_COOLDOWN in clock ticks
    InitialAccounts,    \* accounts there may be at the start, the first one active
    MaxTime,        \* bound: the clock
    MaxSends,       \* bound: deliveries tried
    MaxEdits        \* bound: operator requests

ASSUME FailoverAssumption ==
    /\ Threshold \in Nat \ {0} /\ Window \in Nat \ {0} /\ Cooldown \in Nat
    /\ InitialAccounts \subseteq Seq(Names)
    /\ "none" \notin Providers
    /\ IsFiniteSet(Workers)
    /\ {MaxTime, MaxSends, MaxEdits} \subseteq Nat

VARIABLES
    now,
    account,    \* smtp_accounts by name: is_active, updated_at, provider
    fails,      \* failed message_attempts: provider, created_at
    worker,     \* a worker: step, account and provider used, standby chosen
    operator,   \* a request: step, name, provider, hasAny as read
    sends, edits,
    \* Observers, read by no guard:
    burst,      \* the last automatic switch, and how many led up to it, each
                \* within the cooldown of the one before
    unprovoked  \* a switch away from a provider that had not failed that often

vars == <<now, account, fails, worker, operator, sends, edits, burst, unprovoked>>

NoAccount == [active |-> FALSE, updated |-> 0, provider |-> "none"]
Default == "default"    \* the credentials of the environment
Accounts == {n \in Names : account[n] # NoAccount}
Active == {n \in Accounts : account[n].active}
IdleWorker == [pc |-> "idle", name |-> Default, provider |-> Default]
IdleOperator == [pc |-> "idle"]

TypeOK ==
    /\ now \in 0 .. MaxTime
    /\ account \in [Names -> [active : BOOLEAN, updated : 0 .. MaxTime,
                              provider : Providers \union {"none"}]]
    /\ fails \in Seq([provider : Providers \union {Default}, at : 0 .. MaxTime])
    /\ \A w \in Workers : /\ worker[w].pc \in {"idle", "send", "count", "list", "switch"}
                          /\ worker[w].name \in Names \union {Default}
                          /\ worker[w].provider \in Providers \union {Default}
    /\ \A o \in Operators : operator[o].pc \in {"idle", "insert"}
    /\ sends \in Nat /\ edits \in Nat
    /\ burst \in [n : Nat, at : 0 .. MaxTime]
    /\ unprovoked \in BOOLEAN

\* Accounts stored long ago, or none at all.
Init ==
    /\ now = 0
    /\ \E p \in [Names -> Providers], initial \in InitialAccounts :
          account = [n \in Names |->
              IF \E i \in DOMAIN initial : initial[i] = n
              THEN [active |-> n = initial[1], updated |-> 0, provider |-> p[n]]
              ELSE NoAccount]
    /\ fails = <<>>
    /\ worker = [w \in Workers |-> IdleWorker]
    /\ operator = [o \in Operators |-> IdleOperator]
    /\ sends = 0 /\ edits = 0 /\ burst = [n |-> 0, at |-> 0]
    /\ unprovoked = FALSE

----------------------------------------------------------------------------
(* The store.                                                              *)

\* Clear all, set one, in a transaction that rolls back when there is none.
SetActiveSMTPAccount(name) ==
    account' = IF account[name] = NoAccount THEN account
               ELSE [n \in Names |->
                  IF account[n] = NoAccount THEN NoAccount
                  ELSE IF n = name THEN [account[n] EXCEPT !.active = TRUE, !.updated = now]
                  ELSE [account[n] EXCEPT !.active = FALSE]]

\* Active before standby, then by updated_at; any order among equals.
Before(m, n) ==
    \/ account[m].active /\ ~account[n].active
    \/ account[m].active = account[n].active /\ account[m].updated >= account[n].updated

\* The account a send uses: the first in that order, if there is one.
FirstAccount == {n \in Accounts : \A m \in Accounts : Before(n, m)}

\* Failed attempts through a relay in the window that ends now.
CountFailedAttempts(provider) ==
    Cardinality({i \in DOMAIN fails : fails[i].provider = provider /\ fails[i].at >= now - Window})

----------------------------------------------------------------------------
(* Operators.                                                              *)

\* POST /v1/smtp-accounts: validation and sealing, then SELECT EXISTS.
BeginUpsert(o) ==
    /\ operator[o].pc = "idle" /\ edits < MaxEdits
    /\ edits' = edits + 1
    /\ \E n \in Names, p \in Providers :
          operator' = [operator EXCEPT ![o] =
              [pc |-> "insert", name |-> n, provider |-> p, hasAny |-> Accounts # {}]]
    /\ UNCHANGED <<now, account, fails, worker, sends, burst, unprovoked>>

\* Mutant: the index that allows one active account per workspace is missing.
ActiveIndexRefusesNever(n, activate) == FALSE

\* The partial unique index on active accounts.
ActiveIndexRefuses(n, activate) == activate /\ Active # {}

\* INSERT ... ON CONFLICT (workspace_id, name) DO UPDATE of the payload only.
FinishUpsert(o) ==
    LET n == operator[o].name
        p == operator[o].provider
        activate == ~operator[o].hasAny
    IN
    /\ operator[o].pc = "insert"
    /\ operator' = [operator EXCEPT ![o] = IdleOperator]
    /\ account' =
          IF account[n] # NoAccount
          THEN [account EXCEPT ![n].provider = p, ![n].updated = now]
          ELSE IF ActiveIndexRefuses(n, activate) THEN account
          ELSE [account EXCEPT ![n] = [active |-> activate, updated |-> now, provider |-> p]]
    /\ UNCHANGED <<now, fails, worker, sends, edits, burst, unprovoked>>

\* POST /v1/smtp-accounts/activate.
Activate(o) ==
    /\ operator[o].pc = "idle" /\ edits < MaxEdits
    /\ edits' = edits + 1
    /\ \E n \in Names : SetActiveSMTPAccount(n)
    /\ UNCHANGED <<now, fails, worker, operator, sends, burst, unprovoked>>

----------------------------------------------------------------------------
(* Workers.                                                                *)

\* The active account, or the credentials of the environment.
ResolveCredentials(w) ==
    /\ worker[w].pc = "idle" /\ sends < MaxSends
    /\ sends' = sends + 1
    /\ \E n \in IF Accounts = {} THEN {Default} ELSE FirstAccount :
          worker' = [worker EXCEPT ![w] =
              [pc |-> "send", name |-> n,
               provider |-> IF n = Default THEN Default ELSE account[n].provider]]
    /\ UNCHANGED <<now, account, fails, operator, edits, burst, unprovoked>>

Idle(w) == worker' = [worker EXCEPT ![w] = IdleWorker]
Goto(w, step) == worker' = [worker EXCEPT ![w].pc = step]

\* The relay accepts, or the failed attempt is recorded under the provider.
Send(w) ==
    /\ worker[w].pc = "send"
    /\ \/ Idle(w) /\ UNCHANGED fails
       \/ /\ fails' = Append(fails, [provider |-> worker[w].provider, at |-> now])
          /\ Goto(w, "count")
    /\ UNCHANGED <<now, account, operator, sends, edits, burst, unprovoked>>

\* tryAutoFailover: enough failures of the provider this worker used?
CountFailures(w) ==
    /\ worker[w].pc = "count"
    /\ IF CountFailedAttempts(worker[w].provider) < Threshold
       THEN Idle(w) ELSE Goto(w, "list")
    /\ UNCHANGED <<now, account, fails, operator, sends, edits, burst, unprovoked>>

\* Mutant: the cooldown is not looked at.
CooldownNeverBlocks(a) == FALSE

\* The last activation is too recent.
CoolingDown(a) == now - account[a].updated < Cooldown

\* The first standby of the list, unless there is none or the cooldown holds.
ListAccounts(w) ==
    /\ worker[w].pc = "list"
    /\ IF Cardinality(Accounts) < 2 \/ Active = {} \/ (\E a \in Active : CoolingDown(a))
       THEN Idle(w)
       ELSE \E n \in Accounts \ Active :
              /\ \A m \in Accounts \ Active : Before(n, m)
              /\ worker' = [worker EXCEPT ![w] =
                    [pc |-> "switch", name |-> n, provider |-> worker[w].provider]]
    /\ UNCHANGED <<now, account, fails, operator, sends, edits, burst, unprovoked>>

\* The switch of tryAutoFailover, whatever is active by now.  A failing
\* statement leaves everything as it was and its error is ignored.
Switch(w) ==
    /\ worker[w].pc = "switch"
    /\ Idle(w)
    /\ \/ UNCHANGED <<account, burst, unprovoked>>
       \/ /\ SetActiveSMTPAccount(worker[w].name)
          /\ burst' = [n |-> IF now - burst.at < Cooldown THEN burst.n + 1 ELSE 1, at |-> now]
          /\ unprovoked' = (unprovoked \/ \E a \in Active :
                 /\ a # worker[w].name
                 /\ CountFailedAttempts(account[a].provider) < Threshold)
    /\ UNCHANGED <<now, fails, operator, sends, edits>>

Tick ==
    /\ now < MaxTime
    /\ now' = now + 1
    /\ UNCHANGED <<account, fails, worker, operator, sends, edits, burst, unprovoked>>

\* Nothing is sent or edited; TLC's deadlock check then finds stuck processes.
AtRest ==
    /\ \A w \in Workers : worker[w] = IdleWorker
    /\ \A o \in Operators : operator[o] = IdleOperator
    /\ UNCHANGED vars

TryAutoFailover(w) == CountFailures(w) \/ ListAccounts(w) \/ Switch(w)

Next ==
    \/ Tick \/ AtRest
    \/ \E o \in Operators : BeginUpsert(o) \/ FinishUpsert(o) \/ Activate(o)
    \/ \E w \in Workers : ResolveCredentials(w) \/ Send(w) \/ TryAutoFailover(w)

Spec == Init /\ [][Next]_vars

----------------------------------------------------------------------------
(* Properties.                                                             *)

\* Exactly one account is active from the first one on: whatever operators and
\* workers do at once, two first accounts are never both active, and no switch
\* leaves the workspace without one.
OneActive == Accounts # {} => Cardinality(Active) = 1

\* The cooldown is tested on a list read before the switch, so switches can
\* follow each other sooner; only decisions taken before the first of them can,
\* at most one per worker.
BurstBounded == Cooldown > 0 => burst.n <= Cardinality(Workers)

\* landing_v2.html says of auto-failover that it flips when the active provider
\* starts failing repeatedly.  tryAutoFailover counts the failures of the
\* provider the worker used and switches away from whatever is active by then,
\* so two workers that fail together undo each other's switch when the cooldown
\* is shorter than a send.
SwitchOnlyFromFailing == ~unprovoked
=============================================================================
