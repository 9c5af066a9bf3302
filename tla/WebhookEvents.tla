--------------------------- MODULE WebhookEvents ---------------------------
(***************************************************************************)
(* Provider events: POST /v1/webhooks/events and POST /v1/webhooks/replay. *)
(* A provider delivers a signed body until it is answered 202, possibly    *)
(* several times at once.  Each event of the body is one PostgreSQL        *)
(* transaction that inserts its row under a unique identity, changes the   *)
(* suppression lists and writes the outcome.  Row locks are explicit, so   *)
(* concurrent deliveries and replays wait for or skip each other as the    *)
(* statements do.  The effect of a transaction appears with its commit.    *)
(***************************************************************************)
EXTENDS Naturals, Sequences, FiniteSets

CONSTANTS
    Events,     \* parsed provider events: id, kind, reason, email, ident
    Bodies,     \* webhook bodies: sequences of Events and BadRecord
    Legacy,     \* events dead-lettered by a release before identity keys
    Handlers,   \* goroutines serving deliveries
    Replayers,  \* goroutines serving replays
    ReplayLimit,    \* bound: dead letters taken by one replay (the code's 200)
    MaxDups,        \* bound: deliveries of a body already answered 202
    MaxReplays,     \* bound: replay requests
    MaxFaults       \* bound: failed statements, rolled back or lost replies

\* A record the parser rejects: no known type or no recipient.
BadRecord == [id |-> "bad", kind |-> "unknown", reason |-> "other",
              email |-> "", ident |-> FALSE]
Procs == Handlers \union Replayers
NoProc == "none"

ASSUME WebhookAssumption ==
    /\ Bodies \subseteq Seq(Events \union {BadRecord}) \ {<<>>}
    /\ Legacy \subseteq Events
    /\ Handlers \intersect Replayers = {}
    /\ NoProc \notin Procs
    /\ {ReplayLimit, MaxDups, MaxReplays, MaxFaults} \subseteq Nat

VARIABLES
    status, attempts,       \* webhook_events by identity key
    suppressed, unsubscribed,   \* committed recipients
    rowLock,                \* the transaction that inserted or locked a row
    listLock,               \* the transaction that wrote a list entry
    proc,                   \* a goroutine: step, body or replay set, current row
    acked,                  \* bodies answered 202
    dups, replayCalls, faults,
    \* Observers, read by no guard:
    effects,                \* commits that applied an event, per identity
    replays,                \* commits of a replay, per identity
    failed                  \* identities whose processing was answered 500

lists == <<suppressed, unsubscribed>>
locks == <<rowLock, listLock>>
bounds == <<dups, replayCalls, faults>>
vars == <<status, attempts, lists, locks, proc, acked, bounds, effects, replays, failed>>

\* Mutant: the raw body is part of every identity.
IdentityKeyPerBody(e, b) == [ev |-> e, body |-> b]

\* The provider's id with type and recipient, or else content and raw body.
IdentityKey(e, b) == [ev |-> e, body |-> IF e.ident THEN <<>> ELSE b]

\* The dead letter of a body: type unknown, no email, the raw body.
DeadLetterKey(b) == [ev |-> BadRecord, body |-> b]
\* Migration 000013 gave older rows an identity no delivery can produce.
LegacyKey(e) == [ev |-> e, body |-> <<BadRecord, e>>]

Keys == {IdentityKey(e, b) : e \in Events, b \in Bodies}
          \union {DeadLetterKey(b) : b \in Bodies} \union {LegacyKey(e) : e \in Legacy}
Emails == {e.email : e \in Events}
Lists == {"suppressions", "unsubscribes"}
IdleProc == [pc |-> "idle", body |-> <<>>, todo |-> {}, ids |-> {},
             key |-> DeadLetterKey(<<>>), count |-> 0]

TypeOK ==
    /\ status \in [Keys -> {"none", "applied", "replayed", "dead_letter"}]
    /\ attempts \in [Keys -> Nat]
    /\ suppressed \subseteq Emails /\ unsubscribed \subseteq Emails
    /\ rowLock \in [Keys -> Procs \union {NoProc}]
    /\ listLock \in [Lists \X Emails -> Procs \union {NoProc}]
    /\ \A p \in Procs :
          /\ proc[p].pc \in {"idle", "insert", "claim", "apply", "commit", "reject"}
          /\ proc[p].body \in Bodies \union {<<>>}
          /\ proc[p].ids \subseteq Keys
    /\ acked \subseteq Bodies
    /\ dups \in Nat /\ replayCalls \in Nat /\ faults \in Nat
    /\ effects \in [Keys -> Nat] /\ replays \in [Keys -> Nat]
    /\ failed \subseteq Keys

Init ==
    /\ status = [k \in Keys |-> IF k \in {LegacyKey(e) : e \in Legacy}
                                THEN "dead_letter" ELSE "none"]
    /\ attempts = [k \in Keys |-> IF status[k] = "none" THEN 0 ELSE 1]
    /\ suppressed = {} /\ unsubscribed = {}
    /\ rowLock = [k \in Keys |-> NoProc]
    /\ listLock = [l \in Lists \X Emails |-> NoProc]
    /\ proc = [p \in Procs |-> IdleProc]
    /\ acked = {}
    /\ dups = 0 /\ replayCalls = 0 /\ faults = 0
    /\ effects = [k \in Keys |-> 0] /\ replays = [k \in Keys |-> 0]
    /\ failed = {}

----------------------------------------------------------------------------
(* What one event means.                                                   *)

\* Rows of older releases say "bounce" and are classified by their reason.
ClassifyLegacyBounce(e) ==
    IF e.kind # "bounce" THEN e.kind
    ELSE CASE e.reason = "permanent" -> "bounce_permanent"
           [] e.reason = "temporary" -> "bounce_temporary"
           [] OTHER -> "bounce_unclassified"

\* The list an event enters its recipient in, if any.
ListOf(k) ==
    IF k.ev.email = "" THEN "none"
    ELSE CASE ClassifyLegacyBounce(k.ev) \in {"bounce_permanent", "complaint"} -> "suppressions"
           [] ClassifyLegacyBounce(k.ev) = "unsubscribe" -> "unsubscribes"
           [] OTHER -> "none"

\* The outcome applyWebhookEventTx reports.
Outcome(k) ==
    IF k.ev.email # "" /\ (ListOf(k) # "none" \/ ClassifyLegacyBounce(k.ev) = "bounce_temporary")
    THEN "applied" ELSE "dead_letter"

----------------------------------------------------------------------------
(* Steps of a goroutine.                                                   *)

Set(p, r) == proc' = [proc EXCEPT ![p] = r]
\* The places of the events the parser keeps; they are processed in order.
ParsedEvents(b) == {i \in DOMAIN b : b[i] # BadRecord}
Rejected(b) == BadRecord \in {b[i] : i \in DOMAIN b}

\* Mutant: rejected records are counted and not kept.
NextEventDropsRejected(p, todo) ==
    IF todo # {} THEN Set(p, [proc[p] EXCEPT !.pc = "insert", !.todo = todo]) /\ UNCHANGED acked
    ELSE Set(p, IdleProc) /\ acked' = acked \union {proc[p].body}

\* Go on with the next event of the body, with the dead letter of its rejected
\* records, or answer 202.
NextEvent(p, todo) ==
    IF todo # {} THEN Set(p, [proc[p] EXCEPT !.pc = "insert", !.todo = todo]) /\ UNCHANGED acked
    ELSE IF Rejected(proc[p].body)
         THEN Set(p, [proc[p] EXCEPT !.pc = "reject", !.todo = {}]) /\ UNCHANGED acked
         ELSE Set(p, IdleProc) /\ acked' = acked \union {proc[p].body}

\* Go on with the next listed dead letter.
NextReplay(p, ids) ==
    /\ Set(p, IF ids = {} THEN IdleProc ELSE [proc[p] EXCEPT !.pc = "claim", !.ids = ids])
    /\ UNCHANGED acked

\* A body with a valid signature arrives and is parsed.  One without a valid
\* event is dead-lettered as a whole.
Receive(h) ==
    /\ proc[h].pc = "idle"
    /\ \E b \in Bodies :
          /\ dups' = IF b \in acked THEN dups + 1 ELSE dups
          /\ dups' <= MaxDups
          /\ LET todo == ParsedEvents(b) IN
             Set(h, [IdleProc EXCEPT !.pc = IF todo = {} THEN "reject" ELSE "insert",
                                     !.body = b, !.todo = todo])
    /\ UNCHANGED <<status, attempts, lists, locks, acked, replayCalls, faults,
                   effects, replays, failed>>

\* INSERT ... ON CONFLICT DO NOTHING waits for an uncommitted row of the same
\* identity; a committed one is returned as it is.
Insert(h) ==
    /\ proc[h].pc = "insert"
    /\ \E i \in proc[h].todo :
          LET k == IdentityKey(proc[h].body[i], proc[h].body)
              rest == proc[h].todo \ {i}
          IN
          /\ \A j \in proc[h].todo : i <= j
          /\ \/ /\ status[k] # "none"
                /\ NextEvent(h, rest)
                /\ UNCHANGED rowLock
             \/ /\ status[k] = "none" /\ rowLock[k] = NoProc
                /\ rowLock' = [rowLock EXCEPT ![k] = h]
                /\ Set(h, [proc[h] EXCEPT !.pc = "apply", !.key = k, !.todo = rest, !.count = 0])
                /\ UNCHANGED acked
    /\ UNCHANGED <<status, attempts, lists, listLock, bounds, effects, replays, failed>>

DeadLetters == {k \in Keys : status[k] = "dead_letter"}

\* The dead letters among the given rows, and the newest ones up to a limit;
\* creation times are abstracted to any choice of that many.
ListWebhookDeadLettersByID == SUBSET DeadLetters
ListWebhookDeadLetters(limit) ==
    {ids \in SUBSET DeadLetters :
        Cardinality(ids) = IF Cardinality(DeadLetters) < limit
                           THEN Cardinality(DeadLetters) ELSE limit}

\* ReplayWebhookDeadLetters reads its list in a statement of its own.
ListToReplay(r) ==
    /\ proc[r].pc = "idle" /\ replayCalls < MaxReplays
    /\ replayCalls' = replayCalls + 1
    /\ \E ids \in ListWebhookDeadLettersByID \union ListWebhookDeadLetters(ReplayLimit) :
          Cardinality(ids) <= ReplayLimit /\ NextReplay(r, ids)
    /\ UNCHANGED <<status, attempts, lists, locks, dups, faults, effects, replays, failed>>

\* FOR UPDATE SKIP LOCKED: a row that was replayed meanwhile, or that another
\* replay holds, is skipped.
Claim(r) ==
    /\ proc[r].pc = "claim"
    /\ \E k \in proc[r].ids :
          IF status[k] = "dead_letter" /\ rowLock[k] = NoProc
          THEN /\ rowLock' = [rowLock EXCEPT ![k] = r]
               /\ Set(r, [proc[r] EXCEPT !.pc = "apply", !.key = k, !.count = attempts[k]])
               /\ UNCHANGED acked
          ELSE NextReplay(r, proc[r].ids \ {k}) /\ UNCHANGED rowLock
    /\ UNCHANGED <<status, attempts, lists, listLock, bounds, effects, replays, failed>>

\* The upsert into a list waits while another transaction holds the entry.
Apply(p) ==
    LET entry == <<ListOf(proc[p].key), proc[p].key.ev.email>> IN
    /\ proc[p].pc = "apply"
    /\ IF ListOf(proc[p].key) = "none" THEN UNCHANGED listLock
       ELSE /\ listLock[entry] = NoProc
            /\ listLock' = [listLock EXCEPT ![entry] = p]
    /\ Set(p, [proc[p] EXCEPT !.pc = "commit"])
    /\ UNCHANGED <<status, attempts, lists, rowLock, acked, bounds, effects, replays, failed>>

Unlock(p) ==
    /\ rowLock' = [k \in Keys |-> IF rowLock[k] = p THEN NoProc ELSE rowLock[k]]
    /\ listLock' = [l \in Lists \X Emails |-> IF listLock[l] = p THEN NoProc ELSE listLock[l]]

\* List entry, outcome and attempt count become visible together.
Commit(p) ==
    LET k == proc[p].key
        out == Outcome(k)
    IN
    /\ status' = [status EXCEPT ![k] =
                    IF out = "applied" /\ p \in Replayers THEN "replayed" ELSE out]
    /\ attempts' = [attempts EXCEPT ![k] = proc[p].count + 1]
    /\ suppressed' = suppressed \union (IF ListOf(k) = "suppressions" THEN {k.ev.email} ELSE {})
    /\ unsubscribed' = unsubscribed \union (IF ListOf(k) = "unsubscribes" THEN {k.ev.email} ELSE {})
    /\ effects' = [effects EXCEPT ![k] = IF out = "applied" THEN @ + 1 ELSE @]
    /\ replays' = [replays EXCEPT ![k] = IF p \in Replayers THEN @ + 1 ELSE @]
    /\ Unlock(p)

\* The transaction commits and the goroutine goes on.
Finish(p) ==
    /\ proc[p].pc = "commit"
    /\ Commit(p)
    /\ IF p \in Handlers THEN NextEvent(p, proc[p].todo)
                         ELSE NextReplay(p, proc[p].ids \ {proc[p].key})
    /\ UNCHANGED <<bounds, failed>>

\* One INSERT ... ON CONFLICT DO NOTHING for the records that were rejected.
InsertDeadLetter(b) ==
    LET k == DeadLetterKey(b) IN
    IF status[k] = "none"
    THEN /\ status' = [status EXCEPT ![k] = "dead_letter"]
         /\ attempts' = [attempts EXCEPT ![k] = 1]
    ELSE UNCHANGED <<status, attempts>>

\* Mutant: a body with rejected records is not answered 202.
RejectUnacked(h) ==
    /\ proc[h].pc = "reject"
    /\ InsertDeadLetter(proc[h].body)
    /\ Set(h, IdleProc)
    /\ UNCHANGED <<acked, lists, locks, bounds, effects, replays, failed>>

\* RecordWebhookDeadLetter, then the answer 202.
Reject(h) ==
    /\ proc[h].pc = "reject"
    /\ InsertDeadLetter(proc[h].body)
    /\ acked' = acked \union {proc[h].body}
    /\ Set(h, IdleProc)
    /\ UNCHANGED <<lists, locks, bounds, effects, replays, failed>>

\* Mutant: the list entry is written outside the transaction.
FailKeepsEntry(p) ==
    /\ proc[p].pc # "idle" /\ faults < MaxFaults
    /\ faults' = faults + 1
    /\ Set(p, IdleProc)
    /\ Unlock(p)
    /\ suppressed' = suppressed \union
          (IF proc[p].pc = "commit" THEN {proc[p].key.ev.email} \ {""} ELSE {})
    /\ failed' = failed
    /\ UNCHANGED <<status, attempts, unsubscribed, effects, replays, acked, dups, replayCalls>>

\* A statement fails or the process dies: the open transaction rolls back, or
\* its commit succeeds and the reply is lost.  The answer is 500 or none; the
\* events after the current one are not looked at.
Fail(p) ==
    /\ proc[p].pc # "idle" /\ faults < MaxFaults
    /\ faults' = faults + 1
    /\ Set(p, IdleProc)
    /\ \/ Unlock(p) /\ UNCHANGED <<status, attempts, lists, effects, replays>>
       \/ proc[p].pc = "commit" /\ Commit(p)
       \/ /\ proc[p].pc = "reject" /\ InsertDeadLetter(proc[p].body)
          /\ UNCHANGED <<lists, locks, effects, replays>>
    /\ failed' = IF p \in Handlers /\ proc[p].pc \in {"apply", "commit"}
                 THEN failed \union {proc[p].key} ELSE failed
    /\ UNCHANGED <<acked, dups, replayCalls>>

----------------------------------------------------------------------------
\* Nobody sends anything; TLC's deadlock check then finds stuck transactions.
AtRest == (\A p \in Procs : proc[p] = IdleProc) /\ UNCHANGED vars

ReceiveWebhookEvent(h) ==
    \/ Receive(h) \/ Insert(h) \/ Apply(h) \/ Finish(h) \/ Reject(h) \/ Fail(h)

ReplayWebhookDeadLetters(r) ==
    \/ ListToReplay(r) \/ Claim(r) \/ Apply(r) \/ Finish(r) \/ Fail(r)

Next ==
    \/ AtRest
    \/ \E h \in Handlers : ReceiveWebhookEvent(h)
    \/ \E r \in Replayers : ReplayWebhookDeadLetters(r)

Spec == Init /\ [][Next]_vars

----------------------------------------------------------------------------
(* Properties.                                                             *)

\* Every row takes effect at most once, however often its event is delivered and
\* replayed, and so does every event with a provider's identity, in whichever
\* bodies (without one the body is part of the key): ProcessWebhookEventAtomic and ReplayWebhookEventAtomic commit an
\* application only together with the status that prevents the next one.
AppliedOnce ==
    /\ \A k \in Keys : effects[k] = (IF status[k] \in {"applied", "replayed"} THEN 1 ELSE 0)
    /\ \A e \in Events : e.ident =>
          Cardinality({k \in Keys \ {LegacyKey(e)} : k.ev = e /\ effects[k] > 0}) <= 1

\* The entries webhooks make and the log agree: a recipient is listed exactly when an event
\* that calls for it has been applied, so no rolled back delivery, temporary or
\* unclassified bounce leaves an entry behind.
ListsMatchLog ==
    \A e \in Emails :
        /\ e \in suppressed <=> \E k \in Keys :
              /\ k.ev.email = e /\ status[k] \in {"applied", "replayed"}
              /\ \/ k.ev.kind \in {"bounce_permanent", "complaint"}
                 \/ k.ev.kind = "bounce" /\ k.ev.reason = "permanent"
        /\ e \in unsubscribed <=> \E k \in Keys :
              /\ k.ev.email = e /\ status[k] \in {"applied", "replayed"}
              /\ k.ev.kind = "unsubscribe"

\* attempt_count is one for the delivery plus one per committed replay; two
\* replays of a row never overwrite each other's count.
AttemptsCounted ==
    \A k \in Keys : status[k] # "none" => attempts[k] = 1 + replays[k]

\* A body answered 202 is fully recorded: receiveWebhookEvent acknowledges only
\* after every event of it, and its rejected records, have a committed row.
AckedIsRecorded ==
    \A b \in acked :
        /\ \A i \in DOMAIN b : b[i] # BadRecord => status[IdentityKey(b[i], b)] # "none"
        /\ Rejected(b) => status[DeadLetterKey(b)] # "none"

\* README.md says that failed processing can be inspected and replayed.  The
\* transaction of a failed event rolls its row back, so nothing is left to
\* inspect before the provider delivers it again.
FailureIsLogged == \A k \in failed : status[k] # "none"

----------------------------------------------------------------------------
(* Liveness.  Goroutines go on, PostgreSQL grants a lock that is released,   *)
(* and the provider delivers a body again until it is answered 202.          *)

Redeliver(h, b) == Receive(h) /\ proc'[h].body = b /\ b \notin acked

FairSpec ==
    /\ Spec
    /\ \A p \in Handlers : WF_vars(Insert(p) \/ Apply(p) \/ Finish(p) \/ Reject(p))
    /\ \A p \in Replayers : WF_vars(Claim(p) \/ Apply(p) \/ Finish(p))
    /\ \A b \in Bodies : SF_vars(\E h \in Handlers : Redeliver(h, b))

\* Every body is eventually answered 202, whatever statements fail on the way
\* and whoever waits for whose rows: transactions never block each other for
\* good.
EveryBodySettles == \A b \in Bodies : <>(b \in acked)
============================================================================
