------------------------- MODULE SMTPFailoverProofs -------------------------
(***************************************************************************)
(* Theorems about SMTPFailover for every set of accounts, workers and      *)
(* operators, and every threshold, window and cooldown; the last section   *)
(* is about the client that speaks to one account.                         *)
(***************************************************************************)
EXTENDS SMTPFailover, FiniteSetTheorems, TLAPS

Account == [active : BOOLEAN, updated : Nat, provider : Providers]

WorkerState ==
    [pc : {"idle", "send", "count", "list", "switch"}, name : Names \union {Default},
     provider : Providers \union {Default}]

AccountTyped == now \in Nat /\ account \in [Names -> Account \union {NoAccount}]

WorkerTyped == worker \in [Workers -> WorkerState]

OperatorTyped ==
    /\ DOMAIN operator = Operators
    /\ \A o \in Operators :
        operator[o].pc = "insert" =>
            operator[o].name \in Names /\ operator[o].provider \in Providers
            /\ operator[o].hasAny \in BOOLEAN

Typed == AccountTyped /\ WorkerTyped /\ OperatorTyped /\ burst \in [n : Nat, at : Nat]

\* A stored account is not the mark of a free name.
LEMMA AccountIsStored == \A a \in Account : a # NoAccount
<1> SUFFICES ASSUME NEW a \in Account PROVE a.provider # "none"
  BY DEF NoAccount
<1> QED BY FailoverAssumption DEF Account

----------------------------------------------------------------------------
(* What the statements of the store do to the accounts.                    *)

\* SetActiveSMTPAccount of a stored account leaves exactly that one active, touched now.
LEMMA SetActiveEffect ==
    ASSUME AccountTyped, NEW name \in Names, SetActiveSMTPAccount(name)
    PROVE  /\ account' \in [Names -> Account \union {NoAccount}]
           /\ Accounts' = Accounts
           /\ name \notin Accounts => account' = account
           /\ name \in Accounts => Active' = {name} /\ account'[name].updated = now
<1>1. CASE account[name] = NoAccount
  BY <1>1 DEF SetActiveSMTPAccount, AccountTyped, Accounts
<1>2. CASE account[name] # NoAccount
  <2>0. now \in Nat /\ account \in [Names -> Account \union {NoAccount}]
    BY SMTT(30) DEF AccountTyped
  <2>1. account' = [n \in Names |->
                      IF account[n] = NoAccount THEN NoAccount
                      ELSE IF n = name THEN [account[n] EXCEPT !.active = TRUE, !.updated = now]
                      ELSE [account[n] EXCEPT !.active = FALSE]]
    BY <1>2, Zenon DEF SetActiveSMTPAccount
  <2>2. ASSUME NEW n \in Names
        PROVE  /\ account[n] = NoAccount => account'[n] = NoAccount
               /\ account[n] # NoAccount => /\ account'[n] \in Account
                                            /\ account'[n].active = (n = name)
                                            /\ n = name => account'[n].updated = now
    <3>1. CASE account[n] = NoAccount
      BY <2>1, <3>1, Zenon
    <3>2. CASE account[n] # NoAccount
      <4>1. account[n] \in Account
        BY <2>0, <3>2
      <4>2. CASE n = name
        <5>1. account'[n] = [account[n] EXCEPT !.active = TRUE, !.updated = now]
          BY <2>1, <3>2, <4>2, Zenon
        <5> QED BY <2>0, <3>2, <4>1, <4>2, <5>1, Zenon DEF Account
      <4>3. CASE n # name
        <5>1. account'[n] = [account[n] EXCEPT !.active = FALSE]
          BY <2>1, <3>2, <4>3, Zenon
        <5> QED BY <3>2, <4>1, <4>3, <5>1, Zenon DEF Account
      <4> QED BY <4>2, <4>3
    <3> QED BY <3>1, <3>2, SMTT(30)
  <2>3. \A n \in Names : account'[n] # NoAccount <=> account[n] # NoAccount
    BY <2>2, AccountIsStored, SMTT(30)
  <2>4. account' \in [Names -> Account \union {NoAccount}]
    BY <2>1, <2>2, Zenon
  <2>5. Accounts' = Accounts /\ name \in Accounts
    BY <1>2, <2>3 DEF Accounts
  <2>6. Active' = {name}
    BY <2>2, <2>5, Zenon DEF Active, Accounts
  <2> QED BY <1>2, <2>2, <2>4, <2>5, <2>6
<1> QED BY <1>1, <1>2

\* The upsert keeps what is active and may touch it, or adds the one active account to
\* a workspace without one.
LEMMA UpsertEffect ==
    ASSUME Typed, NEW o \in Operators, FinishUpsert(o)
    PROVE  /\ account' \in [Names -> Account \union {NoAccount}]
           /\ Accounts \subseteq Accounts' /\ (Accounts' # Accounts => Accounts' # {})
           /\ \/ /\ Active' = Active
                 /\ \A a \in Active : account'[a].updated \in {account[a].updated, now}
                 /\ Accounts' = Accounts \/ operator[o].hasAny
              \/ /\ Active = {} /\ ~operator[o].hasAny
                 /\ \E a \in Names : Active' = {a} /\ account'[a].updated = now
<1> DEFINE n == operator[o].name
           p == operator[o].provider
           activate == ~operator[o].hasAny
<1>0. /\ n \in Names /\ p \in Providers /\ activate \in BOOLEAN /\ now \in Nat
      /\ account \in [Names -> Account \union {NoAccount}]
  BY DEF FinishUpsert, Typed, OperatorTyped, AccountTyped
<1>1. CASE account[n] # NoAccount
  <2>1. account' = [account EXCEPT ![n].provider = p, ![n].updated = now]
    BY <1>1 DEF FinishUpsert
  <2>2. /\ account'[n] \in Account /\ account'[n].active = account[n].active
        /\ account'[n].updated = now
        /\ \A m \in Names : m # n => account'[m] = account[m]
    <3>1. account[n] \in Account
      BY <1>0, <1>1
    <3> QED BY <1>0, <2>1, <3>1, Zenon DEF Account
  <2>3. account' \in [Names -> Account \union {NoAccount}]
    BY <1>0, <2>1, <2>2, Zenon
  <2>4. Accounts' = Accounts
    BY <1>0, <1>1, <2>2, AccountIsStored DEF Accounts
  <2>5. Active' = Active
    BY <1>0, <2>2, <2>4 DEF Active, Accounts
  <2>6. \A a \in Active : account'[a].updated \in {account[a].updated, now}
    BY <2>2 DEF Active, Accounts
  <2> QED BY <2>3, <2>4, <2>5, <2>6
<1>2. CASE account[n] = NoAccount /\ ActiveIndexRefuses(n, activate)
  <2>1. account' = account
    BY <1>2 DEF FinishUpsert
  <2> QED BY <1>0, <2>1 DEF Accounts, Active
<1>3. CASE account[n] = NoAccount /\ ~ActiveIndexRefuses(n, activate)
  <2>1. account' = [account EXCEPT ![n] = [active |-> activate, updated |-> now, provider |-> p]]
    BY <1>3 DEF FinishUpsert
  <2>2. /\ account'[n] \in Account /\ account'[n].active = activate /\ account'[n].updated = now
        /\ \A m \in Names : m # n => account'[m] = account[m]
    BY <1>0, <2>1 DEF Account
  <2>3. account' \in [Names -> Account \union {NoAccount}]
    BY <1>0, <2>1, <2>2
  <2>4. Accounts' = Accounts \union {n} /\ n \notin Accounts
    BY <1>0, <1>3, <2>2, AccountIsStored DEF Accounts
  <2>5. CASE operator[o].hasAny
    <3>1. Active' = Active
      BY <1>0, <2>2, <2>4, <2>5, Zenon DEF Active, Accounts
    <3>2. \A a \in Active : account'[a] = account[a]
      BY <2>2, <2>4 DEF Active, Accounts
    <3> QED BY <2>3, <2>4, <2>5, <3>1, <3>2
  <2>6. CASE ~operator[o].hasAny
    <3>1. Active = {}
      BY <1>3, <2>6 DEF ActiveIndexRefuses
    <3>2. Active' = {n}
      BY <1>0, <2>2, <2>4, <2>6, <3>1, Zenon DEF Active, Accounts
    <3> QED BY <1>0, <2>2, <2>3, <2>4, <2>6, <3>1, <3>2
  <2> QED BY <2>5, <2>6
<1> QED BY <1>1, <1>2, <1>3

----------------------------------------------------------------------------
(* Exactly one account is active.  The two statements of the upsert are    *)
(* not atomic: what hasAny read is still true at the INSERT when it was    *)
(* true, and the index refuses the INSERT when it was false and no longer  *)
(* is.  A standby that a worker has chosen is still there when it switches.*)

HasOne == Accounts = {} \/ \E a \in Names : Active = {a}

ReadsHold ==
    /\ \A o \in Operators : operator[o].pc = "insert" /\ operator[o].hasAny => Accounts # {}
    /\ \A w \in Workers : worker[w].pc = "switch" => worker[w].name \in Accounts

\* The steps that write accounts.
LEMMA AccountSteps ==
    ASSUME Typed, ReadsHold, Next
    PROVE  \/ UNCHANGED account
           \/ \E name \in Names : SetActiveSMTPAccount(name)
           \/ \E o \in Operators : FinishUpsert(o)
<1>1. ASSUME NEW w \in Workers, Switch(w)
      PROVE  UNCHANGED account \/ \E name \in Names : SetActiveSMTPAccount(name)
  <2>1. worker[w].name \in Names
    BY <1>1 DEF Switch, ReadsHold, Accounts
  <2> QED BY <1>1, <2>1, Zenon DEF Switch
<1> QED
  BY <1>1, Zenon DEF Next, Tick, AtRest, vars, BeginUpsert, Activate, ResolveCredentials, Send,
       TryAutoFailover, CountFailures, ListAccounts

\* Accounts are never deleted and stay well-formed.
LEMMA AccountsStay ==
    ASSUME Typed, ReadsHold, Next
    PROVE  account' \in [Names -> Account \union {NoAccount}] /\ Accounts \subseteq Accounts'
<1>0. AccountTyped /\ account \in [Names -> Account \union {NoAccount}]
  BY DEF Typed, AccountTyped
<1>1. CASE UNCHANGED account
  BY <1>0, <1>1 DEF Accounts
<1>2. ASSUME NEW name \in Names, SetActiveSMTPAccount(name)
      PROVE  account' \in [Names -> Account \union {NoAccount}] /\ Accounts' = Accounts
  BY <1>0, <1>2, SetActiveEffect
<1>3. ASSUME NEW o \in Operators, FinishUpsert(o)
      PROVE  account' \in [Names -> Account \union {NoAccount}] /\ Accounts \subseteq Accounts'
  BY <1>3, UpsertEffect
<1> QED BY <1>1, <1>2, <1>3, AccountSteps

\* How a step moves a worker: only ListAccounts brings it to its switch.
LEMMA WorkerSteps ==
    ASSUME Typed, Next
    PROVE  /\ WorkerTyped'
           /\ \A w \in Workers :
                \/ worker'[w] = worker[w]
                \/ worker'[w].pc # "switch"
                \/ /\ ListAccounts(w) /\ worker[w].pc = "list"
                   /\ worker'[w].name \in Accounts \ Active
                   /\ Active # {} /\ \A a \in Active : ~CoolingDown(a)
<1> DEFINE Good == /\ WorkerTyped'
                   /\ \A w \in Workers :
                        \/ worker'[w] = worker[w]
                        \/ worker'[w].pc # "switch"
                        \/ /\ ListAccounts(w) /\ worker[w].pc = "list"
                           /\ worker'[w].name \in Accounts \ Active
                           /\ Active # {} /\ \A a \in Active : ~CoolingDown(a)
<1>0. worker \in [Workers -> WorkerState] /\ account \in [Names -> Account \union {NoAccount}]
  BY DEF Typed, WorkerTyped, AccountTyped
<1>u. UNCHANGED worker => Good
  BY <1>0 DEF WorkerTyped
<1>i. ASSUME NEW w \in Workers, Idle(w) PROVE Good
  BY <1>0, <1>i DEF Idle, IdleWorker, WorkerTyped, WorkerState
<1>g. ASSUME NEW w \in Workers, NEW s \in {"count", "list"}, Goto(w, s) PROVE Good
  <2>1. worker[w] \in WorkerState /\ worker' = [worker EXCEPT ![w] = [worker[w] EXCEPT !.pc = s]]
    BY <1>0, <1>g DEF Goto
  <2>2. [worker[w] EXCEPT !.pc = s] \in WorkerState /\ [worker[w] EXCEPT !.pc = s].pc = s
    BY <2>1 DEF WorkerState
  <2> QED BY <1>0, <2>1, <2>2 DEF WorkerTyped
<1>1. ASSUME NEW w \in Workers, ResolveCredentials(w) PROVE Good
  <2>1. PICK n \in IF Accounts = {} THEN {Default} ELSE FirstAccount :
          worker' = [worker EXCEPT ![w] =
              [pc |-> "send", name |-> n,
               provider |-> IF n = Default THEN Default ELSE account[n].provider]]
    BY <1>1, Zenon DEF ResolveCredentials
  <2>2. n \in Names \union {Default}
    BY <2>1 DEF FirstAccount, Accounts
  <2>3. (IF n = Default THEN Default ELSE account[n].provider) \in Providers \union {Default}
    <3>1. CASE n = Default
      BY <3>1
    <3>2. CASE n # Default
      <4>1. n \in Names /\ account[n] # NoAccount
        BY <2>1, <3>2 DEF FirstAccount, Accounts
      <4>2. account[n] \in Account
        BY <1>0, <4>1
      <4> QED BY <3>2, <4>2 DEF Account
    <3> QED BY <3>1, <3>2
  <2> DEFINE r == [pc |-> "send", name |-> n,
                   provider |-> IF n = Default THEN Default ELSE account[n].provider]
  <2>4. r \in WorkerState /\ r.pc = "send"
    BY <2>2, <2>3 DEF WorkerState
  <2>5. worker' = [worker EXCEPT ![w] = r]
    BY <2>1
  <2> HIDE DEF r
  <2> QED BY <1>0, <2>4, <2>5 DEF WorkerTyped
<1>2. ASSUME NEW w \in Workers, Send(w) \/ CountFailures(w) \/ Switch(w) PROVE Good
  <2>1. Idle(w) \/ \E s \in {"count", "list"} : Goto(w, s)
    BY <1>2 DEF Send, CountFailures, Switch
  <2> QED BY <2>1, <1>i, <1>g
<1>3. ASSUME NEW w \in Workers, ListAccounts(w) PROVE Good
  <2>1. CASE Idle(w)
    BY <2>1, <1>i
  <2>2. CASE ~Idle(w)
    <3>1. /\ worker[w].pc = "list" /\ Active # {} /\ \A a \in Active : ~CoolingDown(a)
          /\ \E n \in Accounts \ Active :
               worker' = [worker EXCEPT ![w] =
                            [pc |-> "switch", name |-> n, provider |-> worker[w].provider]]
      BY <1>3, <2>2 DEF ListAccounts
    <3>2. PICK n \in Accounts \ Active :
            worker' = [worker EXCEPT ![w] =
                         [pc |-> "switch", name |-> n, provider |-> worker[w].provider]]
      BY <3>1, Zenon
    <3>3. n \in Names
      BY DEF Accounts
    <3>4. WorkerTyped'
      BY <1>0, <3>2, <3>3 DEF WorkerTyped, WorkerState
    <3>5. worker'[w].name = n /\ \A v \in Workers : v # w => worker'[v] = worker[v]
      BY <1>0, <3>2
    <3> QED BY <1>3, <3>1, <3>4, <3>5
  <2> QED BY <2>1, <2>2
<1> QED
  BY <1>u, <1>1, <1>2, <1>3, Zenon DEF Next, Tick, AtRest, vars, BeginUpsert, FinishUpsert, Activate,
       TryAutoFailover

\* How a step moves a request: it reads whether there are accounts when it begins.
LEMMA OperatorSteps ==
    ASSUME Typed, Next
    PROVE  /\ OperatorTyped'
           /\ \A o \in Operators :
                \/ operator'[o] = operator[o]
                \/ operator'[o].pc # "insert"
                \/ operator'[o].hasAny = (Accounts # {})
<1> DEFINE Good == /\ OperatorTyped'
                   /\ \A o \in Operators :
                        \/ operator'[o] = operator[o]
                        \/ operator'[o].pc # "insert"
                        \/ operator'[o].hasAny = (Accounts # {})
<1>0. OperatorTyped
  BY DEF Typed
<1>u. UNCHANGED operator => Good
  BY <1>0 DEF OperatorTyped
<1>1. ASSUME NEW o \in Operators, BeginUpsert(o) PROVE Good
  <2>1. PICK n \in Names, p \in Providers :
          operator' = [operator EXCEPT ![o] =
              [pc |-> "insert", name |-> n, provider |-> p, hasAny |-> Accounts # {}]]
    BY <1>1 DEF BeginUpsert
  <2> QED BY <1>0, <2>1, Zenon DEF OperatorTyped
<1>2. ASSUME NEW o \in Operators, FinishUpsert(o) PROVE Good
  <2>1. operator' = [operator EXCEPT ![o] = IdleOperator]
    BY <1>2 DEF FinishUpsert
  <2> QED BY <1>0, <2>1 DEF OperatorTyped, IdleOperator
<1> QED
  BY <1>u, <1>1, <1>2, Zenon DEF Next, Tick, AtRest, vars, Activate, ResolveCredentials, Send,
       TryAutoFailover, CountFailures, ListAccounts, Switch

\* Time advances, or a switch is counted, or neither.
LEMMA ClockSteps ==
    ASSUME Typed, Next
    PROVE  /\ now' \in Nat /\ now' >= now
           /\ \/ UNCHANGED burst
              \/ /\ UNCHANGED now
                 /\ \E w \in Workers :
                      /\ worker[w].pc = "switch" /\ Idle(w)
                      /\ SetActiveSMTPAccount(worker[w].name)
                      /\ burst' = [n |-> IF now - burst.at < Cooldown THEN burst.n + 1 ELSE 1,
                                   at |-> now]
<1>0. now \in Nat
  BY DEF Typed, AccountTyped
<1>1. now' = now \/ now' = now + 1
  BY Zenon DEF Next, Tick, AtRest, vars, BeginUpsert, FinishUpsert, Activate, ResolveCredentials, Send,
       TryAutoFailover, CountFailures, ListAccounts, Switch
<1>2. UNCHANGED burst \/ \E w \in Workers : Switch(w) /\ burst' # burst
  BY Zenon DEF Next, Tick, AtRest, vars, BeginUpsert, FinishUpsert, Activate, ResolveCredentials, Send,
       TryAutoFailover, CountFailures, ListAccounts
<1>3. ASSUME NEW w \in Workers, Switch(w), burst' # burst
      PROVE  /\ UNCHANGED now
             /\ worker[w].pc = "switch" /\ Idle(w) /\ SetActiveSMTPAccount(worker[w].name)
             /\ burst' = [n |-> IF now - burst.at < Cooldown THEN burst.n + 1 ELSE 1, at |-> now]
  BY <1>3, Zenon DEF Switch
<1> QED BY <1>0, <1>1, <1>2, <1>3

\* Every step keeps the types and what was read.
LEMMA TypedStep == Typed /\ ReadsHold /\ Next => Typed' /\ ReadsHold'
<1> SUFFICES ASSUME Typed, ReadsHold, Next PROVE Typed' /\ ReadsHold'
  OBVIOUS
<1>1. AccountTyped'
  BY AccountsStay, ClockSteps DEF AccountTyped
<1>2. burst' \in [n : Nat, at : Nat]
  BY ClockSteps DEF Typed, AccountTyped
<1>3. ReadsHold'
  BY AccountsStay, WorkerSteps, OperatorSteps, Zenon DEF ReadsHold
<1> QED BY <1>1, <1>2, <1>3, WorkerSteps, OperatorSteps DEF Typed

\* Every step leaves exactly one account active, once there is one.
LEMMA HasOneStep == Typed /\ ReadsHold /\ HasOne /\ Next => HasOne'
<1> SUFFICES ASSUME Typed, ReadsHold, HasOne, Next PROVE HasOne'
  OBVIOUS
<1>1. CASE UNCHANGED account
  BY <1>1 DEF HasOne, Accounts, Active
<1>2. ASSUME NEW name \in Names, SetActiveSMTPAccount(name) PROVE HasOne'
  <2>1. CASE name \in Accounts
    BY <1>2, <2>1, SetActiveEffect DEF HasOne, Typed
  <2>2. CASE name \notin Accounts
    <3>1. account' = account
      BY <1>2, <2>2, SetActiveEffect DEF Typed
    <3> QED BY <3>1, <1>1
  <2> QED BY <2>1, <2>2
<1>3. ASSUME NEW o \in Operators, FinishUpsert(o) PROVE HasOne'
  <2>1. CASE \E a \in Names : Active' = {a}
    BY <2>1 DEF HasOne
  <2>2. CASE Active' = Active /\ (Accounts' = Accounts \/ operator[o].hasAny)
    <3>1. operator[o].hasAny => Accounts # {}
      BY <1>3 DEF FinishUpsert, ReadsHold
    <3> QED BY <2>2, <3>1 DEF HasOne
  <2> QED BY <1>3, <2>1, <2>2, UpsertEffect
<1> QED BY <1>1, <1>2, <1>3, AccountSteps

\* The initial accounts are well-formed and the first of them is active.
LEMMA InitHolds == Init => Typed /\ ReadsHold /\ HasOne
<1> SUFFICES ASSUME Init PROVE Typed /\ ReadsHold /\ HasOne
  OBVIOUS
<1>1. PICK p \in [Names -> Providers], initial \in InitialAccounts :
        account = [n \in Names |->
            IF \E i \in DOMAIN initial : initial[i] = n
            THEN [active |-> n = initial[1], updated |-> 0, provider |-> p[n]]
            ELSE NoAccount]
  BY DEF Init
<1>2. initial \in Seq(Names)
  BY FailoverAssumption
<1>3. ASSUME NEW n \in Names
      PROVE  /\ account[n] \in Account \union {NoAccount}
             /\ (\E i \in DOMAIN initial : initial[i] = n) =>
                   account[n] \in Account /\ account[n].active = (n = initial[1])
             /\ ~(\E i \in DOMAIN initial : initial[i] = n) => account[n] = NoAccount
  BY <1>1 DEF Account
<1>4. AccountTyped
  BY <1>1, <1>3 DEF AccountTyped, Init
<1>5. Typed /\ ReadsHold
  <2>1. WorkerTyped /\ \A w \in Workers : worker[w].pc = "idle"
    BY DEF Init, WorkerTyped, WorkerState, IdleWorker
  <2>2. OperatorTyped /\ \A o \in Operators : operator[o].pc = "idle"
    BY DEF Init, OperatorTyped, IdleOperator
  <2> QED BY <1>4, <2>1, <2>2 DEF Typed, ReadsHold, Init
<1>6. HasOne
  <2>1. CASE initial = <<>>
    <3>1. \A n \in Names : account[n] = NoAccount
      BY <1>3, <2>1
    <3> QED BY <3>1 DEF HasOne, Accounts
  <2>2. CASE initial # <<>>
    <3>1. initial[1] \in Names /\ 1 \in DOMAIN initial
      BY <1>2, <2>2
    <3>2. Active = {initial[1]}
      <4>1. ASSUME NEW n \in Names PROVE n \in Active <=> n = initial[1]
        BY <1>3, <3>1, AccountIsStored, Zenon DEF Active, Accounts, NoAccount
      <4> QED BY <3>1, <4>1 DEF Active, Accounts
    <3> QED BY <3>1, <3>2 DEF HasOne
  <2> QED BY <2>1, <2>2
<1> QED BY <1>5, <1>6

\* The types and the reads hold in every behaviour.
LEMMA SpecTyped == Spec => [](Typed /\ ReadsHold)
<1>1. Typed /\ ReadsHold /\ UNCHANGED vars => Typed' /\ ReadsHold'
  BY DEF Typed, AccountTyped, WorkerTyped, OperatorTyped, ReadsHold, Accounts, vars
<1> QED BY <1>1, InitHolds, TypedStep, PTL DEF Spec

\* However many operators add first accounts at once, activate others, or workers fail
\* over meanwhile, exactly one account of the workspace is active from the first one on.
THEOREM AlwaysOneActive == Spec => []OneActive
<1>1. HasOne /\ UNCHANGED vars => HasOne'
  BY DEF HasOne, Accounts, Active, vars
<1>2. HasOne => OneActive
  BY FS_Singleton, Zenon DEF HasOne, OneActive
<1> QED BY <1>1, <1>2, InitHolds, HasOneStep, SpecTyped, PTL DEF Spec

----------------------------------------------------------------------------
(* Bursts.  A worker decides to switch only when the active account, and   *)
(* with it the last switch, is older than the cooldown.  So within the     *)
(* cooldown of a switch only the workers that had decided before it can    *)
(* switch too, and nobody joins them.                                      *)

Switching == {w \in Workers : worker[w].pc = "switch"}

Recent == now - burst.at < Cooldown

BurstKept ==
    /\ burst.at <= now
    /\ \A a \in Active : account[a].updated >= burst.at
    /\ Cooldown > 0 =>
        /\ burst.n <= Cardinality(Workers)
        /\ Recent => burst.n + Cardinality(Switching) <= Cardinality(Workers)

\* The workers about to switch are a finite set.
LEMMA SwitchingFinite ==
    /\ IsFiniteSet(Switching) /\ IsFiniteSet(Switching')
    /\ Cardinality(Switching) \in Nat /\ Cardinality(Switching') \in Nat
    /\ Cardinality(Workers) \in Nat
    /\ Cardinality(Switching) <= Cardinality(Workers)
    /\ Cardinality(Switching') <= Cardinality(Workers)
<1>1. IsFiniteSet(Workers) /\ Switching \subseteq Workers /\ Switching' \subseteq Workers
  BY FailoverAssumption DEF Switching
<1> QED BY <1>1, FS_Subset, FS_CardinalityType

\* An active account was touched when it was, or now.
LEMMA TouchedLater ==
    ASSUME Typed, ReadsHold, BurstKept, Next, NEW a \in Active'
    PROVE  account'[a].updated >= burst.at /\ (burst' # burst => account'[a].updated = now)
<1>0. /\ now \in Nat /\ burst.at \in Nat /\ burst.at <= now
      /\ \A b \in Active : account[b].updated >= burst.at
  BY DEF Typed, AccountTyped, BurstKept
<1>1. CASE burst' # burst
  <2>1. PICK w \in Workers : worker[w].pc = "switch" /\ SetActiveSMTPAccount(worker[w].name)
    BY <1>1, ClockSteps
  <2>2. worker[w].name \in Accounts /\ worker[w].name \in Names
    BY <2>1 DEF ReadsHold, Accounts
  <2>3. Active' = {worker[w].name} /\ account'[worker[w].name].updated = now
    BY <2>1, <2>2, SetActiveEffect DEF Typed
  <2> QED BY <1>0, <2>3
<1>2. CASE burst' = burst
  <2>1. CASE UNCHANGED account
    BY <1>0, <1>2, <2>1 DEF Active, Accounts
  <2>2. ASSUME NEW name \in Names, SetActiveSMTPAccount(name) PROVE account'[a].updated >= burst.at
    <3>1. CASE name \in Accounts
      <4>1. Active' = {name} /\ account'[name].updated = now
        BY <2>2, <3>1, SetActiveEffect DEF Typed
      <4> QED BY <1>0, <4>1
    <3>2. CASE name \notin Accounts
      <4>1. account' = account
        BY <2>2, <3>2, SetActiveEffect DEF Typed
      <4> QED BY <1>0, <4>1 DEF Active, Accounts
    <3> QED BY <3>1, <3>2
  <2>3. ASSUME NEW o \in Operators, FinishUpsert(o) PROVE account'[a].updated >= burst.at
    <3>1. CASE Active' = Active /\ \A b \in Active : account'[b].updated \in {account[b].updated, now}
      BY <1>0, <3>1
    <3>2. CASE \E b \in Names : Active' = {b} /\ account'[b].updated = now
      BY <1>0, <3>2
    <3> QED BY <2>3, <3>1, <3>2, UpsertEffect
  <2> QED BY <1>2, <2>1, <2>2, <2>3, AccountSteps
<1> QED BY <1>1, <1>2

\* Nobody decides to switch within the cooldown of a switch.
LEMMA NobodyJoins ==
    ASSUME Typed, BurstKept, Next, Recent
    PROVE  Switching' \subseteq Switching
<1> SUFFICES ASSUME NEW w \in Workers, worker'[w].pc = "switch", worker'[w] # worker[w] PROVE FALSE
  BY DEF Switching
<1>1. Active # {} /\ \A a \in Active : ~CoolingDown(a)
  BY WorkerSteps
<1>2. PICK a \in Active : ~(now - account[a].updated < Cooldown)
  BY <1>1 DEF CoolingDown
<1>3. account[a].updated \in Nat /\ account[a].updated >= burst.at
  <2>1. account[a] \in Account
    BY DEF Active, Accounts, Typed, AccountTyped
  <2> QED BY <2>1 DEF Account, BurstKept
<1>4. now \in Nat /\ burst.at \in Nat /\ Cooldown \in Nat
  BY FailoverAssumption DEF Typed, AccountTyped
<1> QED BY <1>2, <1>3, <1>4 DEF Recent

\* Every step keeps the bound on bursts.
LEMMA BurstStep == Typed /\ ReadsHold /\ BurstKept /\ Next => BurstKept'
<1> SUFFICES ASSUME Typed, ReadsHold, BurstKept, Next PROVE BurstKept'
  OBVIOUS
<1>0. /\ now \in Nat /\ now' \in Nat /\ now' >= now /\ Cooldown \in Nat
      /\ burst.at \in Nat /\ burst.n \in Nat /\ burst.at <= now
  BY FailoverAssumption, ClockSteps DEF Typed, AccountTyped, BurstKept
<1>s. /\ IsFiniteSet(Switching)
      /\ Cardinality(Switching) \in Nat /\ Cardinality(Switching') \in Nat
      /\ Cardinality(Workers) \in Nat
      /\ Cardinality(Switching) <= Cardinality(Workers)
  BY SwitchingFinite
<1>1. CASE burst' = burst
  <2>1. burst'.at <= now' /\ \A a \in Active' : account'[a].updated >= burst'.at
    BY <1>0, <1>1, TouchedLater
  <2>2. ASSUME Cooldown > 0, Recent'
        PROVE  burst'.n + Cardinality(Switching') <= Cardinality(Workers)
    <3>1. Recent
      BY <1>0, <1>1, <2>2 DEF Recent
    <3>2. Switching' \subseteq Switching
      BY <3>1, NobodyJoins
    <3>3. Cardinality(Switching') <= Cardinality(Switching)
      BY <1>s, <3>2, FS_Subset
    <3>4. burst.n + Cardinality(Switching) <= Cardinality(Workers)
      BY <2>2, <3>1 DEF BurstKept
    <3> QED BY <1>0, <1>1, <1>s, <3>3, <3>4
  <2> QED BY <1>1, <2>1, <2>2 DEF BurstKept
<1>2. CASE burst' # burst
  <2>1. PICK w \in Workers :
          /\ UNCHANGED now /\ worker[w].pc = "switch" /\ Idle(w)
          /\ burst' = [n |-> IF now - burst.at < Cooldown THEN burst.n + 1 ELSE 1, at |-> now]
    BY <1>2, ClockSteps
  <2>2. burst'.at = now /\ burst'.n = IF Recent THEN burst.n + 1 ELSE 1
    BY <2>1 DEF Recent
  <2>3. \A a \in Active' : account'[a].updated >= burst'.at
    BY <1>0, <1>2, <2>2, TouchedLater
  <2>4. Switching' = Switching \ {w} /\ w \in Switching
    BY <2>1 DEF Switching, Idle, IdleWorker, Typed, WorkerTyped
  <2>5. Cardinality(Switching') = Cardinality(Switching) - 1
    BY <1>s, <2>4, FS_RemoveElement
  <2>6. Cooldown > 0 /\ Recent => burst.n + Cardinality(Switching) <= Cardinality(Workers)
    BY DEF BurstKept
  <2>7. Cooldown > 0 => burst'.n + Cardinality(Switching') <= Cardinality(Workers)
    BY <1>0, <1>s, <2>2, <2>5, <2>6
  <2>8. Cooldown > 0 => burst'.n <= Cardinality(Workers)
    BY <1>0, <1>s, <2>2, <2>7
  <2> QED BY <1>0, <2>1, <2>2, <2>3, <2>7, <2>8 DEF BurstKept
<1> QED BY <1>1, <1>2

\* With a cooldown, at most one switch per worker follows another within the cooldown,
\* for any number of workers and whatever operators change meanwhile.
THEOREM BurstsAreBounded == Spec => []BurstBounded
<1>1. Init => BurstKept
  <2> SUFFICES ASSUME Init PROVE BurstKept
    OBVIOUS
  <2>1. Typed /\ burst.n = 0 /\ burst.at = 0 /\ now = 0
    BY InitHolds DEF Init
  <2>2. \A a \in Active : account[a].updated \in Nat
    <3> SUFFICES ASSUME NEW a \in Active PROVE account[a].updated \in Nat
      OBVIOUS
    <3>1. account[a] \in Account
      BY <2>1 DEF Active, Accounts, Typed, AccountTyped
    <3> QED BY <3>1 DEF Account
  <2> QED BY <2>1, <2>2, SwitchingFinite DEF BurstKept
<1>2. BurstKept /\ UNCHANGED vars => BurstKept'
  BY DEF BurstKept, Recent, Switching, Active, Accounts, vars
<1>3. BurstKept => BurstBounded
  BY DEF BurstKept, BurstBounded
<1> QED BY <1>1, <1>2, <1>3, BurstStep, SpecTyped, PTL DEF Spec

----------------------------------------------------------------------------
(* The client of one call, SmtpClient: for every order of the dialogue,    *)
(* the expiry of the context and the goroutine that closes the             *)
(* connection, whatever the relay answers.                                 *)

VARIABLES call, mode, auth, offered, parent, pc, conn, tls, expired, watcher, stops, accepted,
          result

Client == INSTANCE SmtpClient

\* The result is set by the last exchange, and the exchanges are those of the call.
Coursed ==
    /\ call \in {"Send", "Validate"}
    /\ pc \in {"mail", "rcpt", "data", "body", "reply"} => call = "Send"
    /\ pc = "noop" => call = "Validate"
    /\ pc \notin {"close", "done"} => result = "none"
    /\ Client!NilMeansAccepted

\* The credentials were checked before the dial and the mode honoured before the dialogue.
Secured ==
    /\ pc \notin {"connect", "done"}
         => Client!Supported /\ ~(Client!NormalizeTLSMode = "none" /\ auth)
    /\ pc = "greeting" /\ Client!NormalizeTLSMode = "implicit_tls" => tls
    /\ Client!NothingInClear

\* The connection and its goroutine come with the dial; the channel is closed by the last step only.
Released ==
    /\ pc \in {"connect", "dial"} => conn = "none" /\ watcher = "none"
    /\ pc # "done" => stops = 0
    /\ stops \in {0, 1}
    /\ pc = "done" => conn # "open" /\ (watcher # "none" => stops = 1)

\* No step returns nil before the last exchange of its call.
LEMMA CourseKept == Coursed /\ [Client!Next]_(Client!vars) => Coursed'
<1> SUFFICES ASSUME Coursed, [Client!Next]_(Client!vars) PROVE Coursed'
  OBVIOUS
<1> USE DEF Coursed, Client!NilMeansAccepted, Client!inputs
<1>1. CASE Client!Connect
  BY <1>1, Zenon DEF Client!Connect, Client!Return
<1>2. CASE Client!Dial
  BY <1>2, Zenon DEF Client!Dial, Client!Return
<1>3. CASE Client!Greeting
  BY <1>3, Zenon DEF Client!Greeting
<1>4. CASE Client!StartTLS
  BY <1>4, Zenon DEF Client!StartTLS
<1>5. CASE Client!ConnectFails
  BY <1>5, Zenon DEF Client!ConnectFails, Client!Return
<1>6. CASE Client!Authenticate
  BY <1>6, Zenon DEF Client!Authenticate, Client!Unwind
<1>7. ASSUME NEW from, NEW to, Client!Exchange(from, to),
             from \in {"mail", "rcpt", "data", "body"}, to \in {"rcpt", "data", "body", "reply"}
      PROVE  Coursed'
  BY <1>7, Zenon DEF Client!Exchange, Client!Unwind
<1>8. CASE Client!Reply
  BY <1>8, Zenon DEF Client!Reply, Client!Unwind
<1>9. CASE Client!Noop
  BY <1>9, Zenon DEF Client!Noop, Client!Unwind
<1>10. CASE Client!Close
  BY <1>10, Zenon DEF Client!Close, Client!Return
<1>11. CASE Client!Expire
  BY <1>11, Zenon DEF Client!Expire
<1>12. CASE Client!Watch
  BY <1>12, Zenon DEF Client!Watch
<1>13. CASE Client!Returned \/ UNCHANGED Client!vars
  <2>1. UNCHANGED <<call, pc, result, accepted>>
    BY <1>13, Zenon DEF Client!Returned, Client!vars
  <2> QED BY <2>1, Zenon
<1> QED BY <1>1, <1>2, <1>3, <1>4, <1>5, <1>6, <1>7, <1>8, <1>9, <1>10, <1>11, <1>12, <1>13, Zenon
        DEF Client!Next, Client!Step, Client!Send

\* No step goes on with a connection that is less than the mode asks for.
LEMMA SecurityKept == Secured /\ [Client!Next]_(Client!vars) => Secured'
<1> SUFFICES ASSUME Secured, [Client!Next]_(Client!vars) PROVE Secured'
  OBVIOUS
<1> USE DEF Secured, Client!NothingInClear, Client!Supported, Client!NormalizeTLSMode, Client!inputs
<1>1. CASE Client!Connect
  BY <1>1, Zenon DEF Client!Connect, Client!Return
<1>2. CASE Client!Dial
  BY <1>2, Zenon DEF Client!Dial, Client!Return
<1>3. CASE Client!Greeting
  BY <1>3, Zenon DEF Client!Greeting
<1>4. CASE Client!StartTLS
  BY <1>4, Zenon DEF Client!StartTLS
<1>5. CASE Client!ConnectFails
  BY <1>5, Zenon DEF Client!ConnectFails, Client!Return
<1>6. CASE Client!Authenticate
  BY <1>6, Zenon DEF Client!Authenticate, Client!Unwind
<1>7. ASSUME NEW from, NEW to, Client!Exchange(from, to),
             from \in {"mail", "rcpt", "data", "body"}, to \in {"rcpt", "data", "body", "reply"}
      PROVE  Secured'
  BY <1>7, Zenon DEF Client!Exchange, Client!Unwind
<1>8. CASE Client!Reply
  BY <1>8, Zenon DEF Client!Reply, Client!Unwind
<1>9. CASE Client!Noop
  BY <1>9, Zenon DEF Client!Noop, Client!Unwind
<1>10. CASE Client!Close
  BY <1>10, Zenon DEF Client!Close, Client!Return
<1>11. CASE Client!Expire
  BY <1>11, Zenon DEF Client!Expire
<1>12. CASE Client!Watch
  BY <1>12, Zenon DEF Client!Watch
<1>13. CASE Client!Returned \/ UNCHANGED Client!vars
  <2>1. UNCHANGED <<mode, auth, pc, tls>>
    BY <1>13, Zenon DEF Client!Returned, Client!vars
  <2> QED BY <2>1, Zenon
<1> QED BY <1>1, <1>2, <1>3, <1>4, <1>5, <1>6, <1>7, <1>8, <1>9, <1>10, <1>11, <1>12, <1>13, Zenon
        DEF Client!Next, Client!Step, Client!Send

\* Every path to the end closes the connection and the channel.
LEMMA ReleaseKept == Released /\ [Client!Next]_(Client!vars) => Released'
<1> SUFFICES ASSUME Released, [Client!Next]_(Client!vars) PROVE Released'
  OBVIOUS
<1> USE DEF Released, Client!inputs
<1>a. 0 + 1 = 1 /\ ~(0 > 0)
  OBVIOUS
<1>1. CASE Client!Connect
  BY <1>1, <1>a, Zenon DEF Client!Connect, Client!Return
<1>2. CASE Client!Dial
  BY <1>2, <1>a, Zenon DEF Client!Dial, Client!Return
<1>3. CASE Client!Greeting
  BY <1>3, <1>a, Zenon DEF Client!Greeting
<1>4. CASE Client!StartTLS
  BY <1>4, <1>a, Zenon DEF Client!StartTLS
<1>5. CASE Client!ConnectFails
  BY <1>5, <1>a, Zenon DEF Client!ConnectFails, Client!Return
<1>6. CASE Client!Authenticate
  BY <1>6, <1>a, Zenon DEF Client!Authenticate, Client!Unwind
<1>7. ASSUME NEW from, NEW to, Client!Exchange(from, to),
             from \in {"mail", "rcpt", "data", "body"}, to \in {"rcpt", "data", "body", "reply"}
      PROVE  Released'
  BY <1>7, <1>a, Zenon DEF Client!Exchange, Client!Unwind
<1>8. CASE Client!Reply
  BY <1>8, <1>a, Zenon DEF Client!Reply, Client!Unwind
<1>9. CASE Client!Noop
  BY <1>9, <1>a, Zenon DEF Client!Noop, Client!Unwind
<1>10. CASE Client!Close
  BY <1>10, <1>a, Zenon DEF Client!Close, Client!Return
<1>11. CASE Client!Expire
  BY <1>11, <1>a, Zenon DEF Client!Expire
<1>12. CASE Client!Watch
  BY <1>12, <1>a, Zenon DEF Client!Watch
<1>13. CASE Client!Returned \/ UNCHANGED Client!vars
  <2>1. UNCHANGED <<pc, conn, watcher, stops>>
    BY <1>13, Zenon DEF Client!Returned, Client!vars
  <2> QED BY <2>1, Zenon
<1> QED BY <1>1, <1>2, <1>3, <1>4, <1>5, <1>6, <1>7, <1>8, <1>9, <1>10, <1>11, <1>12, <1>13, Zenon
        DEF Client!Next, Client!Step, Client!Send

\* nil from Send means that the relay has accepted the message, however the context,
\* the goroutine and the relay interleave.
THEOREM NilIsAcceptance == Client!Spec => []Client!NilMeansAccepted
<1>1. Client!Init => Coursed
  BY Zenon DEF Client!Init, Coursed, Client!NilMeansAccepted
<1>2. Coursed => Client!NilMeansAccepted
  BY DEF Coursed
<1> QED BY <1>1, <1>2, CourseKept, PTL DEF Client!Spec

\* In a TLS mode authentication, envelope, message and NOOP travel encrypted, whatever the relay
\* offers, and credentials do so in every mode.
THEOREM DialogueIsEncrypted == Client!Spec => []Client!NothingInClear
<1>1. Client!Init => Secured
  BY Zenon DEF Client!Init, Secured, Client!NothingInClear
<1>2. Secured => Client!NothingInClear
  BY DEF Secured
<1> QED BY <1>1, <1>2, SecurityKept, PTL DEF Client!Spec

\* A call that has returned holds no open connection and has closed stopClose exactly once.
THEOREM StoppedOnce == Client!Spec => []Client!ReleasedOnce
<1>1. Client!Init => Released
  BY Zenon DEF Client!Init, Released
<1>2. \A s : s \in {0, 1} => s <= 1
  OBVIOUS
<1>3. Released => Client!ReleasedOnce
  BY <1>2, Zenon DEF Released, Client!ReleasedOnce
<1> QED BY <1>1, <1>3, ReleaseKept, PTL DEF Client!Spec
=============================================================================
