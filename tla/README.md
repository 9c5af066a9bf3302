# maild in TLA+

maild accepts mail over HTTP, stores it in PostgreSQL, passes ids through Redis and submits
the messages to an SMTP relay. This directory holds TLA+ models of the parts where order and
failure matter, TLC runs on small instances, and TLAPS proofs for instances of any size.
`PROJECT.json` lists components, runs, mutants, source lines, hazards and theorems.

## The system

| Part | State | Operations that change it |
|---|---|---|
| message acceptance (`service.QueueMessage`) | a row of `messages`, an id in Redis | policy and limiter, suppression check, INSERT, enqueue |
| delivery worker (`worker.Run`, `service.ProcessOne`) | the popped id, the claim `sending`, `message_attempts` | dequeue, re-check, claim, number, send, record, finish or reschedule |
| queue recovery (`worker.runRecovery`, `service.RecoverQueue`) | ids of one pass | expire claims older than 15 minutes, republish rows queued for 30 seconds |
| manual retry (`service.RetryMessages`) | one id of the request | failed -> queued, enqueue, roll back |
| redis queue (`queue.RedisQueue`) | list, sorted set, fairness key | LPUSH, ZADD, pop script, BRPOP |
| rate limiter, workspace policy | hourly counters, policy row | count and admit |
| SMTP accounts and failover | accounts, the active one, failure counts | create, activate, automatic switch with a cooldown |
| webhook events | events, dead letters, suppressions | receive a batch, apply with retries, dead-letter, replay |
| login, sessions, login limiter | session hashes, failure counters, lock keys | sign-up, login, logout, expiry |
| API keys | key rows, their workspace | create, use, delete |
| migrations | `schema_migrations` | apply at start-up |
| domain readiness, pages, configuration, encryption | no protocol of their own | |

The parts meet in a few places. The worker, recovery, manual retries and requests of all
processes share the message row. They hand each other ids through Redis, which may lose or
duplicate them. Suppressions written by the API and by webhooks are read by acceptance and by
the worker. The worker's failed sends drive the choice of the SMTP account. Every request acts
through a session or a key whose membership may have changed since it was issued.

What is hard to test: two workers on one id; a crash between Send and the write of `sent`; a
lease that expires under a live worker; a call that reports an error after it took effect;
the loss of Redis; starvation between the two queue sources; check-then-act on policy counts;
concurrent failover; a webhook delivered again after half of it was applied. The hazards in
`PROJECT.json` give the line of each.

## Modules

| Module | Models |
|---|---|
| `MessageDelivery` | acceptance after admission, the worker, recovery, manual retry, and the rows and Redis structures they share |
| `RedisQueue` | the queue with its pop script, BRPOP and the fairness key |
| `WorkQueue` | the abstract queue: oldest ready id or some due retry |
| `Admission` | what `QueueMessage` decides before the row: tenant policy, hourly limiter, blocked domains |
| `SMTPFailover` | SMTP accounts, the active one, sends through it and the automatic switch |
| `SmtpClient` | one call of `Send` or `Validate` with its connection, context and goroutine |
| `WebhookEvents` | deliveries and replays of provider events with their transactions and row locks |
| `WebhookParser` | what a provider's body means: parsing, classification, identity, replay |
| `Access` | keys, sessions, memberships and the workspace a request acts on |
| `LoginLimiter` | the failure counter and lock of one address |
| `Accounts` | sign-up, login, the default workspace, creation of sessions |
| `Startup` | migrations, bootstrap, serving and the end of a process |
| `MC*` | symmetry sets and values of constants for TLC, where a configuration file cannot state them |
| `MessageDeliveryProofs`, `RedisQueueProofs`, `AdmissionProofs`, `SMTPFailoverProofs`, `WebhookEventsProofs`, `AccessProofs`, `AccountsProofs`, `StartupProofs` | theorems about the module of the same name; `SMTPFailoverProofs` has those about `SmtpClient` too, `WebhookEventsProofs` those about `WebhookParser`, `RedisQueueProofs` those about `LoginLimiter`, which is in Redis as well |

The modules divide the system at its interfaces. `MessageDelivery` starts where `Admission`
ends, uses of the queue what `WorkQueue` promises and of the relay what `SmtpClient` shows: a
call returns, nil means accepted, an error means nothing. `WebhookEvents` takes events as
`WebhookParser` yields them. `Accounts` hands sessions to `Access`.

### MessageDelivery

One step is one statement of the service: one SQL statement, one Redis command, one `Send`.
Between any two of them every other process may step.

- *Rows.* `status`, `scheduled` (`scheduled_at`: NULL, future, due), `attempts`. `stale` says
  that `updated_at` is older than the limit for the current status (30 seconds queued, 15
  minutes sending). Every status write refreshes `updated_at`, so it resets `stale`.
- *Redis.* `ready` is the list, oldest first. `retry` gives the place of an id in the sorted
  set. `Dequeue` may take the head of the list or any due retry; `RedisQueue` refines this.
- *Handlers.* `pc`, `msg`, `no` are the position, message and attempt number of each worker;
  `recPc`, `recIds` those of each recovery loop; `opPc`, `opMsg` those of each retry call;
  `req` is the position of each request.
- *Failures.* `faults` counts failed calls and crashes up to `MaxFaults`. Where `ProcessOne`
  handles an error, the action has a failing branch, and the call may have taken effect all
  the same. Where the error is only returned, the branch is `Abandon`: the popped id is gone
  and the row stays as it was. A crash, a cancelled context and a lost reply to a pop look the
  same. A write that took effect and then reported an error is the write followed by
  `Abandon`. `RequestFails`, `RecoveryFails`, `RetryFails` are the same for the other
  handlers. `QueueLost` is Redis restarting without data.
- *Observers.* `submitted`, `acked`, `retried`, `clobbered`, `dirtyPop` record history for the
  properties. No guard reads them except `retried`, for its bound.

Abstractions:

- `IsSuppressed` and `IsUnsubscribed` are one read. Rows of both tables are never deleted, so
  the pair of reads finds what one read at the second moment finds.
- `FOR UPDATE SKIP LOCKED` appears as some serial order of the recovery claims.
- Ages of rows are not ordered, so at the limit a pass takes any batch of that size.
- The row and the Redis entry come due independently, as two clocks decide.
- Metering and failover calls inside `ProcessOne` touch no state of this module.

### RedisQueue

`ready` and `retry` are sequences, the second ordered by score. `ripe` is the length of the
part of `retry` that is due; `Tick` extends it. `PopNext` is the Lua script, which Redis runs
atomically. A consumer whose script found nothing moves to `brpop`, and anything may happen
before its `BRPop`. `BRPop` reads only the list and leaves `fair` alone, as in the code.
`passed` and `overtaken` count how often the other source went first. Clients share one clock
here; with skewed clocks the bound holds from the moment the slowest client sees the retry due.

### Admission

One step is one SQL statement or one Redis command of one request. Time is counted in parts of
an hour; the policy counts a sliding hour of rows, the limiter a clock hour. A lost reply to an
INCR leaves the counter raised. Recipients have one `@`. Metering rows are left out.

### SMTPFailover, SmtpClient

`tryAutoFailover` counts, lists and switches in separate steps, so a worker decides on what
others have changed since. `SetActiveSMTPAccount` is one step because its transaction locks all
accounts of the workspace. The relay of `SmtpClient` may answer, refuse or fall silent at any
exchange; the context may expire at any moment, and the goroutine of `connect` then closes the
connection under the call. Until it has done so an exchange may still succeed.

### WebhookEvents, WebhookParser

In `WebhookEvents` a transaction inserts its row, changes a list and commits in separate steps
with explicit row locks; INSERT ... ON CONFLICT waits for the lock, the replay's SKIP LOCKED
does not. Statements fail, commits lose their reply, and the provider delivers until it is
answered 202. A handler works through the positions of its body's events, lowest first. In
`WebhookParser` these steps are atomic and objects have content: the record of
the fields that the parser reads, each with the classes of text it tells apart. A recipient
without an address in a list of recipients is skipped, as in the code, and not counted.
Each field has words of its own: "hard" is a class in an SES bounce and in Postmark's type, and
says nothing as Mailgun's severity; the run has such objects. The fields of one object may
contradict each other. No document says which of them counts; `Permanent` states the order the
code has, the name first, and the two properties hold it to this.

### Access, LoginLimiter, Accounts

A request of `Access` reads its authority in one or two statements and acts in a later one; keys
and sessions end and memberships change in between. Apart from sign-up and login nothing in maild
changes memberships; an administrator of the database does. `seen` collects what held at some
moment since the request arrived and before it acted, `told` the keys whose revocation was
answered, `late` the requests that came with one of these. The kinds of requests are those the
routes tell apart by their roles: `manage` (administrators), `send` (operators too), `read`
(viewers too), and the creation and revocation of keys, which take a session only. The two keys
of the instance have the roles administrator and operator. `Held` is what the table of keys may
hold at first and `Calls` what clients present. `LoginLimiter` has the Redis commands of
concurrent sign-ins one by one, with time to live; errors are ignored as in the code. `Accounts`
has `Signup` and `Login` statement by statement with the unique index on emails, the table lock
of the bootstrap and the workspaces sequence that no roll-back resets. A login replaces a
password hash of the older release on its way, and goes on if it cannot.

### Startup

`Up` asks whether a file is applied outside the transaction that applies it, so processes that
start together race for it. A script is its effect and whether it can be repeated (000011
cannot). A process that fails is started again. The bootstrap is one step here; `Accounts` has
its statements.

## Runs

| Run | Instance | Shows |
|---|---|---|
| `delivery_safety` | 1 message, 2 workers, 1 recovery loop, 1 operator, 2 attempts, 1 fault, 2 manual retries | one owner per message, no way back to Send after an acknowledgement, dense attempt numbers, final outcomes; `sent` implies a recorded success; Send is called at most `maxAttempts` times plus manual retries; recipients blocked before the pop are not submitted |
| `delivery_settles` | 1 message, 1 worker, 2 attempts, 1 fault, 1 manual retry, with fairness | every queued or sending message settles |
| `queue` | 3 ids, 2 consumers, list of 3, with fairness | bounds on passing and overtaking; `RedisQueue` implements `WorkQueue`; neither source starves |
| `admission_limits` | 2 requests at a time, 4 in all, 2 domains, limits 2 and 1, 1 change of policy, 1 fault | the limiter never lets more pass than its limits; the policy is overshot at most by the requests in flight; blocked domains get no row |
| `failover` | 3 accounts or none, 2 workers, 2 operators | one account is active from the first on; after a switch only decisions already taken can switch again within the cooldown |
| `smtp_client` | one call, all inputs | nil means accepted, nothing but EHLO and STARTTLS in clear, the connection and the goroutine are released once, every call returns |
| `webhook` | 2 deliveries and 2 replays at a time, bodies that share an event, an old dead letter, 1 fault, with fairness | every event applies once, the entries webhooks make and the log agree, 202 means recorded, every body is answered 202: nobody waits forever for a row |
| `parser` | one object, all combinations of its fields; pairs of arrays of up to 2 objects that share ids, failures, replays | suppression needs evidence, the first field that states a class decides, and no recipient is lost as another's duplicate |
| `access` | 1 user in both workspaces or in none, 2 requests, 2 keys, one of them perhaps an old one of the other workspace, 1 change of membership | authority is fresh, a bad key never falls back to a session, a key stays in its workspace, keys only for those who may send at that moment, a revoked key is refused |
| `login_bound` | 2 sign-ins, threshold 3, 1 fault | how many wrong passwords pass before a lock |
| `accounts` | 2 requests of 3, 2 starting processes, 1 fault, with fairness | no orphans, distinct workspaces, few duplicates, every request is answered |
| `startup` | 3 processes, 3 files, 3 faults, with fairness | each file applied once, and served only when complete; restarts always lead to serving |

The files `MC*More.cfg` check more on the same instances: `TypeOK`, except in `RedisQueue`,
`Admission` and `Startup`, where it is proved, as `InOrder` is; `EntriesHaveRows`,
`ScheduleOnlyWhileQueued` and `FailedAfterBudget` (`failed` means that the whole budget was used)
with `MCDeliveryMore`, which also checks the properties of `delivery_safety` with a second fault
(two minutes on two cores); `AttemptsCounted` (no replay is lost) with `MCWebhookEventsMore`;
`CounterExpires` with `MCLoginMore`; `OneSignupWins` and `KnownSessionsExpire` with
`MCAccountsMore`. TLC finds no error in any of them.

*Why the bounds are enough.* Messages share only the order of the ready list, the recovery batch
and the fault bound, so one message shows every race on a row; the proofs cover any number of
messages and workers for all safety properties of these runs. The two faults of `MCDeliveryMore`
allow a failed call followed by a crash. Two manual retries are needed for two workers to number
an attempt at once. `MaxCopies` stops a queued row from ageing while that many copies are in the
list. It bounds the list, and every instance still has duplicates: a copy in a worker's hand and
one in the list, or with the retry set. In `queue` the bound on passing is reached (3 with two
consumers).

In the other modules two actors of each kind are what a race needs, and a third one repeats a
race with one of the two. `startup` has three because a process may win one file and lose the
next; the proof covers any number. `MaxWrong` of `login_bound` lies above the bound that is
checked, so that the bound is not true by the cap. In `webhook` a body is sent again only until
it is answered 202; an event that comes again after that is the one the two bodies share. In
`access` one user suffices for races on a key; statements on the rows of one user never read
those of another, and that a key serves its own user is left to the proof. `MCCalls` leaves out a
cookie beside an instance key, which is not looked at, and sending with one of these keys, which
takes the same way as reading. A body of `parser` that stands alone has one object, for the
parser looks at no two together; the pairs of arrays are where identities may collide.

*Fairness.* `Run` and `runRecovery` loop until shutdown, `Send` is cut off after 30 seconds and
BRPOP after 5. SQL statements and other Redis commands have no deadline in the code; that they
return is assumed. So workers, recovery loops and started retry calls are weakly fair, and time
passes. No request,
block, manual retry or fault is fair. Faults are finite in number: a service whose every call
fails settles nothing. In `RedisQueue` each consumer's `Dequeue` is weakly fair, because BRPOP
gives up after its timeout. In `WebhookEvents` and `Accounts` a goroutine with an executable
statement goes on, that is, PostgreSQL executes it and grants a lock that stays free; providers
deliver again until 202 (strong fairness: a handler must be free for it). In `SmtpClient` the
relay is not fair at all, only time and the goroutines are: a call goes on by itself where it
needs no answer, that is, in local steps, on a closed connection, and in a dial whose context
is done. In `Startup` it is assumed that a supervisor restarts what has ended; the repository
has none.

*Mutants.* Each property of a run has an operator marked `Mutant` that changes one definition the
way a plausible bug would, and TLC then finds that property violated.

## Where the code departs from its documentation

Each of these was met while modelling. The configuration named with it checks one property that
states the documentation, and TLC gives the sequence of steps that violates it:
`tlc -config MCDocResubmit.cfg MCMessageDelivery`, and likewise with the module of the others.
They stand beside the runs of `PROJECT.json`, which all pass.

- **A retry's roll-back can overwrite `sent`** (`MCDocResubmit`, `message_service.go:810`). The
  enqueue of a manual retry may take effect and still report an error. A worker delivers the
  message; the unconditional roll-back writes `failed`; the next manual retry sends it again.
  The README allows duplicates only for a send that returned an error. `clobbered` marks this
  case, and `ClaimExclusive`, `NoResendAfterAck` and `OutcomeIsFinal` hold outside it.
- **A request answered 500 may be delivered** (`MCDoc500`, `message_service.go:263`). The row is
  committed before the enqueue fails, and recovery publishes it. The README says maild "could
  not queue or process the request".
- **Backoff can be skipped** (`MCDocBackoff`, `message_service.go:286`). `ProcessOne` looks at
  the status, not at `scheduled_at`, so a second copy in the ready list starts the next attempt
  at once.
- **The policy limit can be overshot** (`MCDocPolicyLimit`, `message_service.go:192`). Rows are
  counted in one statement and inserted in a later one, with no lock between.
- **429 with both limits free** (`MCDoc429`, `redis_limiter.go:39`). Requests refused for their
  domain have already been charged to the workspace.
- **A failed webhook event leaves no log** (`MCDocWebhookFailure`, `webhook_atomic.go:45`). Its
  row is rolled back; only the provider's redelivery brings it back.
- **A body without an actionable event is accepted** (`MCDocActionable`,
  `webhook_event_parser.go:104`). Objects with bounced recipients skip the check for a known
  type. SES notifications, which name the event in `notificationType`, end as dead letters.
- **Failover can undo itself** (`MCDocFailover`). A worker switches away from whatever is active
  by then, not from the provider whose failures it counted.
- **A lockout can count failures far apart** (`MCDocLoginWindow`). If the EXPIRE after the first
  INCR is lost, the counter stays.
- **No wait from attempt 64 on** (`message_service.go:1113`, read from the code, no
  configuration). The shift leaves the 64 bits of an `int`, and `APP_MAX_ATTEMPTS` has no upper
  bound.

## Proofs

Each theorem holds for all sets of messages, workers, requests, keys, events or processes and
for all values of the bounds. Assumed of the constants, in the module that declares them, is
only what the code gives: ids and limits are natural numbers, limits that the code requires
to be positive are positive, goroutines are finite in number where they are counted, and names
that stand for "nothing" (`None`, `"none"`, `"absent"`, `NoProc`) name nothing else.
`LoginLimiter` and `WebhookParser` name theirs (`LimiterSettings`, `WellFormed`), because their
theorems are about instances of them (`Limiter`, `Parser`, and `Client` of `SmtpClient`, which has
no constants) and state the assumption themselves.

Most proofs have two layers. Lemmas first say what any step does to one actor or one row: how a
status changes (`StatusSteps`), how a worker moves (`WorkerMoves`, `AttemptMoves`), which of a
few kinds of move a handler makes (`ReqTurns`, `Turns`, `Moves`) while the others rest. Each
invariant is then shown for these kinds and not for every statement again.

**Message delivery** (`MessageDeliveryProofs`)

- `TypeCorrect`. `Typed` is `TypeOK` in groups of variables, plus: a handler that is not idle
  has a message in hand. Without this `submitted[msg[w]] + 1` has no type.
- `RowsBeforeEntries`. `Rows` strengthens `EntriesHaveRows` with the positions of requests (no
  row before the INSERT, a row when about to enqueue) and of retry calls.
- `ClaimsAreExclusive`, `NoResend`. `ClaimExclusive` is not inductive: a second claim is
  impossible only because an owned message never reads `queued`. `ClaimInv` says so, and says
  that an acknowledged message is held and its owner is past every step that could requeue or
  fail it.
- `OutcomesAreFinal`, an action property, from the same invariant.
- `SuppressedIsNotSubmitted`. `Rechecked`: a recipient that was blocked at the pop is blocked at
  the re-check, so no worker past it holds such a message. Suppressions are never deleted.
- `SchedulesAreCleared` is inductive given `Rows`.
- `SentHasEvidence`. `SuccessKept`: a worker at MarkSent has an acknowledged Send and a
  successful row behind it. Neither is withdrawn, so this outlives the claim.
- `NumbersAreDense`. `Numbers`: a worker may hold a number that another has used meanwhile, but
  none beyond the next free one; the unique index refuses the used ones.
- `FailedMeansExhausted`. `BudgetSpent` adds the worker at MarkFailed and the operator that may
  roll back to `failed`.
- `SubmissionsAreBounded`. `SubmissionBudget` says nothing of calls of Send still to come.
  `Solvent` keeps books: the submissions made, plus the workers that hold an unused claim or are
  about to requeue, plus one if the row can be claimed, are at most one, plus the attempts on
  record short of the last, plus manual retries.

**Queue and login limiter** (`RedisQueueProofs`)

- `ReadyGetsItsTurn`. `Overtaking`: if the list was overtaken, the script owes it a turn.
- `RetryGetsItsTurn`. `Passing`: ids that passed, consumers in BRPOP and the script's turn add
  up to at most one more than the number of consumers, since nobody joins BRPOP while a retry
  is due.
- `QueueTypeCorrect`. `Contents`: the members of the retry set are distinct, so ZADD and ZREM of
  one of them leave the others and their order alone.
- `QueueRefinesWorkQueue`. The initial state is the empty `WorkQueue`, and every step of the
  script, BRPOP, ZADD, LPUSH or the clock is one of its steps or a stutter. The mapping takes the
  first `ripe` members of the sequence for the due ones; lemmas say what insertion and removal do
  to the two parts.
- `WrongIsBounded`, about `LoginLimiter`. The count of wrong passwords alone is not inductive.
  `Free`: while the address is not locked, each is in the counter, belongs to a sign-in about to
  set the lock, or went with one of the deletions of the counter or a lost command, and every
  pending deletion leaves less for later. `Locked`: while it is locked only sign-ins already past
  `IsLocked` can fail, once each. `Arrived`: unless a command was lost they arrived before the lock
  was set, so none is left when it ends. This rests on the assumption that a sign-in
  takes less time than the lockout (`MaxStay`; ten minutes by default, while the server's
  time-outs are fifteen seconds).
- `CountersExpire`: a counter has a time to live, or the handler whose INCR made it is about to
  set one, unless a command was lost. RecordFailure does so on the first INCR only.

**Admission** (`AdmissionProofs`)

- `AdmissionTypeCorrect`, which needs that the hour of a tick is an hour.
- `BlockedDomainsStayOut`. `Cleared`: a request past the checks goes to a domain that neither
  list blocks as the request itself read them, whatever the policy has become since.
- `LimiterHolds`. `Charged`: the rows of an hour and the requests between their INCR and their
  INSERT together stay within both the counter and the limit. A lost reply only raises the counter.
- `OvershootIsBounded`. Rows of the last hour plus requests past their count are at most the
  highest rate so far plus the other handlers; a request joins them only below its rate.

**Failover and SMTP client** (`SMTPFailoverProofs`)

- `AlwaysOneActive`. `ReadsHold`: what the upsert's `hasAny` read is true still, or the unique
  index refuses the INSERT; a standby chosen by a worker still exists when it switches.
- `BurstsAreBounded`. `BurstKept`: within the cooldown of a switch the switches made and the
  workers about to switch are at most the workers, because nobody joins them.
- `NilIsAcceptance`, `DialogueIsEncrypted`, `StoppedOnce`, about one call of `SmtpClient`.
  `Coursed`: only a Send is in the exchanges of a Send, and no result is set before the last of
  them. `Secured`: whoever is past the connect step has a mode the code supports and no credentials
  to send in clear, and the greeting of an implicit-TLS server is read through TLS. `Released`: the
  connection and its goroutine come with the dial, and the channel is closed by the last step alone.

**Webhooks** (`WebhookEventsProofs`)

- `AckedMeansRecorded`, from `Safe`: an open transaction holds its row's lock and the row is as
  it found it (`Owns`); every event of the body at hand is on record, at hand or to come (`Walks`).
- `EventsApplyOnce`, `ListsFollowTheLog`, `AttemptsAreCounted`, from `Sound`: the row of an event
  tells how often it was applied and tried, and a list holds exactly what the settled rows call
  for. Both need `Safe`: a commit writes row and list together, over the row it found.
- `SuppressionHasEvidence`, `ReportsAreListed`, about `WebhookParser`, for any series of bodies of
  objects with any texts in their fields. First what the parser computes: `TypedAsStated`
  says that an object gets the type of a permanent bounce exactly if it is `Permanent`, `ParsedBody`
  says that the events of a body are made of its objects and that everyone an object is about has
  one. The
  arrays need an induction, which is made by taking the least length at which a join of sequences
  would fail (`Least`, `UpTo`). Then the deliveries: what is still to be stored comes from the body
  in progress, which was delivered (`Received`); a row has had its effect, and its key tells its
  type and address (`Effected`, `Keyed`), so that an event that is taken for a duplicate has had
  its own; everyone a body is about is on the list or has an event still to be stored (`Promised`).
  An event without a type promises nothing.

**Access** (`AccessProofs`)

- `AuthorityHeldSinceArrival`, `KeysDoNotFallBack`, `KeysKeepTheirWorkspace`. `AuthorityIsFresh`
  is about a request that has acted; `Backed` says of every request from its judgement on that the
  membership it was judged by held at some moment since it arrived, and `Keyed` that its key
  lived then and, while its row lives, has the same user and workspace.
- `KeysGoToMembers` is an action property: the INSERT reads the membership it needs.
- `RevocationIsImmediate`. `Gone`: a revoked key was issued, so it has no row and no step gives
  it one (`Revoked`, `Live`). `TooLate`: a request that came with it has not passed
  RequireCredentials, which turns to the session only without a key.

**Accounts** (`AccountsProofs`)

- `IdsAreDistinct`. `SequenceHeld`, `PastDefault`, `IdsDrawn`: the value a bootstrap has computed
  for the sequence is not stale when it sets it, since the table lock keeps INSERTs out, and
  every id in use or about to be committed has been drawn.
- `UsersHaveWorkspaces`: user, workspace and membership become visible by one COMMIT.
- `FewDuplicates`. `DuplicatesKept` counts a user's workspaces and the requests about to add
  one; nobody joins these once the user has a workspace.
- `OneSignupPerAddress`. `OneAhead`: of the sign-ups for an address at most one has inserted its
  user and is not answered, and none once one was answered 201.
- `SessionsExpire`. EXPIRE is sent for a hash that exists.

**Start-up** (`StartupProofs`)

- `StartupTyped`, `MigratedOnce`, `MigratedInOrder`, `ServedComplete`. `RecordedIffApplied` is
  not inductive: a process that has run a script commits later, and what it found when it ran
  the script must still hold. `IInv` adds that two processes in a transaction are at different
  files (`Alone`, from the locks the script takes), that a transaction has changed the schema
  exactly if its file is not on record, that the files before a process's file are on record
  (`Knows`), and that the record has no gap (`Prefix`).

### Only model-checked

- Liveness (`EveryMessageSettles`, `NeitherStarves`, `EveryBodySettles`, `CallReturns`,
  `EveryRequestAnswered`, `AlwaysServesAgain`): fairness is about ENABLED, which the prover does
  not handle.
- `TypeOK` of the modules whose proofs use groups of types of their own (`Access`, `Accounts`,
  `SMTPFailover`, `SmtpClient`, `WebhookEvents`, `WebhookParser`). Their groups leave out the
  bounds on counters, which no argument needs.

## Plan

Recovery with ordered ages: no row waits forever behind a full batch.

## Not modelled

- *Domain readiness.* DNS look-ups followed by one upsert of the result. Two checks at once
  leave the result of the one that writes last; only the onboarding checklists show it.
- *Readiness.* Two flags set every five seconds and read by `/readyz` only.
- *Webhook signatures, configuration, encryption.* Functions of one input without state; a model
  would restate them. Values of the configuration are CONSTANTS.
- *Pages, JSON encoding, listing, export and analytics.* They only read.
- *The length of a wait.* `backoffDuration` is a formula; the models only let waits end.
- *Metering rows.* Written on the way, errors ignored, and read by nothing that decides.
- *`applyWebhookEventWithRetry`.* The path for stores without transactions, which the PostgreSQL
  store never takes.
