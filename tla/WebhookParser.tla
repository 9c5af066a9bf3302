---------------------------- MODULE WebhookParser ----------------------------
(***************************************************************************)
(* What a provider's webhook body is taken to mean, from the JSON to the   *)
(* lists.  parseWebhookEvents turns a body into events, the handler stores *)
(* each under an identity, and the stored type decides, at once or in a    *)
(* later replay, whether the recipient is suppressed.  WebhookEvents has   *)
(* the transactions of these steps; here each is atomic and the subject is *)
(* the content: providers state the class of a bounce in different fields, *)
(* one object may name several recipients, and a body comes again.         *)
(*                                                                         *)
(* A JSON object is the record of the fields the parser reads.  Texts are  *)
(* the classes the code tells apart.  An address is meant without its      *)
(* case; all objects are of one workspace.                                 *)
(***************************************************************************)
EXTENDS Naturals, Sequences

CONSTANTS
    Series  \* bound: the bodies that are delivered, in order; a body is the
            \* sequence of the elements of an array, or of the one object

NotObject == [word |-> "not an object"]  \* an array element such as a number
None == [none |-> TRUE]                  \* a nested object that is absent
Blank == ""                              \* a text that is absent or blank

\* What the parser can meet: the fields it reads hold texts.
JSONObjects ==
    [word : STRING, email : STRING, destination : STRING, reason : STRING, status : STRING,
     postmark : STRING, ids : Seq(STRING),
     data : {None} \union [word : STRING, severity : STRING, reason : STRING, email : STRING],
     bounce : {None} \union [kind : STRING,
                             recipients : Seq([email : STRING, diagnostic : BOOLEAN])]]

WellFormed == Series \subseteq Seq(Seq(JSONObjects \union {NotObject}))

ASSUME ParserAssumption == WellFormed

VARIABLES
    body, todo, rejected,   \* the delivery in progress, <<>> when there is none
    log,                    \* rows of webhook_events
    suppressed, unsubscribed,
    coming,                 \* the bodies still to be delivered
    \* Observers, read by no guard:
    delivered, answered,    \* bodies received, and bodies answered 202
    emptied                 \* bodies of which the parser made events without a type

vars == <<body, todo, rejected, log, suppressed, unsubscribed, coming,
          delivered, answered, emptied>>

----------------------------------------------------------------------------
(* One object.                                                             *)

\* The first text of a sequence that is not blank.
FirstText(s) == LET stated == {i \in DOMAIN s : s[i] # Blank}
                IN IF stated = {} THEN Blank
                   ELSE s[CHOOSE i \in stated : \A j \in stated : i <= j]

NormalizeWebhookEventType(w) ==
    CASE w = "hard_bounce" -> "bounce_permanent"
      [] w = "soft_bounce" -> "bounce_temporary"
      [] w \in {"bounce", "dropped"} -> "bounce_unclassified"
      [] w \in {"complaint", "unsubscribe"} -> w
      [] OTHER -> Blank

ClassifyEnhancedSMTPStatus(s) ==
    CASE s = "4.x" -> "bounce_temporary" [] s = "5.x" -> "bounce_permanent" [] OTHER -> Blank

\* What a text says that a field uses for the class of a bounce.
Class(x, permanent, temporary) ==
    CASE x \in permanent -> "bounce_permanent"
      [] x \in temporary -> "bounce_temporary"
      [] OTHER -> Blank

\* A bounce without a class is refined by the first field that states one, each in
\* its own words: the SES bounce object, Mailgun's severity, the SMTP status,
\* Postmark's type (with its codes).
ClassifyProviderBounce(o, raw, type) ==
    IF type # "bounce_unclassified" THEN type
    ELSE FirstText(<<
        IF o.bounce = None THEN Blank
        ELSE Class(o.bounce.kind, {"permanent", "hard"}, {"transient", "temporary", "soft"}),
        IF o.data = None THEN Blank ELSE Class(o.data.severity, {"permanent"}, {"temporary"}),
        ClassifyEnhancedSMTPStatus(o.status),
        IF raw = "bounce" THEN Class(o.postmark, {"hard"}, {"soft", "transient"}) ELSE Blank,
        type>>)

\* The name of the event, of the nested object when the outer says nothing known.
RawType(o) ==
    IF NormalizeWebhookEventType(o.word) = Blank /\ o.data # None THEN o.data.word ELSE o.word

EventType(o) ==
    ClassifyProviderBounce(o, RawType(o), NormalizeWebhookEventType(RawType(o)))

\* The kind of an SES bounce (with its subtype in the code), or Mailgun's reason.
ReasonFromNestedObjects(o) ==
    FirstText(<<IF o.bounce = None THEN Blank ELSE o.bounce.kind,
                IF o.data = None THEN Blank ELSE o.data.reason>>)

EmailFromNestedObjects(o) ==
    FirstText(<<o.destination, IF o.data = None THEN Blank ELSE o.data.email>>)

\* Mutant: the recipient is not part of the identity.
IdentityOfMessage(o, type, email) ==
    LET id == FirstText(o.ids) IN IF id = Blank THEN <<>> ELSE <<id, type>>

\* The id of SendGrid, Mailgun, SES or another provider, in this order; the id
\* comes with the provider's name.
ProviderWebhookIdentity(o, type, email) ==
    LET id == FirstText(o.ids) IN IF id = Blank THEN <<>> ELSE <<id, type, email>>

Event(o, email, reason) ==
    [type |-> EventType(o), email |-> email, reason |-> reason,
     ident |-> ProviderWebhookIdentity(o, EventType(o), email)]

\* The parts of a sequence one after the other.  A definition of its own and not
\* FlattenSeq, for the proofs would have to carry all of SequencesExt.
Join(parts) ==
    IF parts = <<>> THEN <<>>
    ELSE LET upTo[i \in 1..Len(parts)] == IF i = 1 THEN parts[i] ELSE upTo[i - 1] \o parts[i]
         IN upTo[Len(parts)]

SesBouncedRecipients(o) == IF o.bounce = None THEN <<>> ELSE o.bounce.recipients

\* The events of an object, none when it is not accepted.  A recipient's
\* diagnostic is a text no classification knows; it is appended to the reason.
ParseWebhookEventObject(o) ==
    LET reason == FirstText(<<o.reason, ReasonFromNestedObjects(o)>>)
        email == FirstText(<<o.email, EmailFromNestedObjects(o)>>)
        recipients == SesBouncedRecipients(o)
    IN IF recipients # <<>>
       THEN Join([i \in DOMAIN recipients |->
               IF recipients[i].email = Blank THEN <<>>
               ELSE <<Event(o, recipients[i].email,
                            IF recipients[i].diagnostic THEN "text" ELSE reason)>>])
       ELSE IF EventType(o) = Blank \/ email = Blank THEN <<>>
       ELSE <<Event(o, email, reason)>>

\* The events of a body and the number of its elements that gave none.
ParseWebhookEvents(b) ==
    LET parsed == [i \in DOMAIN b |-> IF b[i] = NotObject THEN <<>>
                                            ELSE ParseWebhookEventObject(b[i])]
    IN [events |-> Join(parsed),
        rejected |-> Len(SelectSeq(parsed, LAMBDA p : p = <<>>))]

----------------------------------------------------------------------------
(* One event in the store.                                                 *)

\* Mutant: an unclassified bounce is judged by its reason too.
ClassifyByReason(type, reason) ==
    IF type \notin {"bounce", "bounce_unclassified"} THEN type
    ELSE CASE reason \in {"permanent", "hard_bounce"} -> "bounce_permanent"
           [] reason = "transient" -> "bounce_temporary"
           [] OTHER -> "bounce_unclassified"

\* Only rows named "bounce", which the parser never writes, are judged by reason.
ClassifyStoredWebhookBounce(type, reason) ==
    IF type # "bounce" THEN type
    ELSE CASE reason \in {"permanent", "hard_bounce"} -> "bounce_permanent"
           [] reason = "transient" -> "bounce_temporary"
           [] OTHER -> "bounce_unclassified"

\* The identity key: the provider's identity, or the content with the raw body.
WebhookIdentityKey(e, type, reason, b) ==
    IF e.ident # <<>> THEN [ident |-> e.ident, body |-> <<>>]
    ELSE [ident |-> <<type, e.email, reason>>, body |-> b]

ApplyWebhookEvent(type, email) ==
    /\ suppressed' = IF type \in {"bounce_permanent", "complaint"}
                     THEN suppressed \union {email} ELSE suppressed
    /\ unsubscribed' = IF type = "unsubscribe"
                       THEN unsubscribed \union {email} ELSE unsubscribed

Status(type) == IF type \in {"bounce_temporary", "bounce_permanent", "complaint", "unsubscribe"}
                THEN "applied" ELSE "dead_letter"

----------------------------------------------------------------------------

Init ==
    /\ body = <<>> /\ todo = <<>> /\ rejected = 0
    /\ log = {} /\ suppressed = {} /\ unsubscribed = {}
    /\ coming \in Series /\ delivered = {} /\ answered = {} /\ emptied = {}

\* A row without an address: the dead letter of a body or of its bad records.
DeadLetter(b, why) ==
    [key |-> [ident |-> <<"unknown", Blank, why>>, body |-> b],
     type |-> "unknown", email |-> Blank, reason |-> why, status |-> "dead_letter"]

\* A body arrives and is parsed.  One that gives no event is kept as a dead
\* letter and answered 202.
Deliver ==
    /\ body = <<>> /\ coming # <<>>
    /\ coming' = Tail(coming)
    /\ LET b == Head(coming)
           parsed == ParseWebhookEvents(b)
       IN /\ delivered' = delivered \union {b}
          /\ IF parsed.events = <<>>
             THEN /\ log' = log \union {DeadLetter(b, "invalid_payload")}
                  /\ answered' = answered \union {b}
                  /\ UNCHANGED <<body, todo, rejected, emptied>>
             ELSE /\ body' = b /\ todo' = parsed.events /\ rejected' = parsed.rejected
                  /\ emptied' = IF \E i \in DOMAIN parsed.events : parsed.events[i].type = Blank
                                THEN emptied \union {b} ELSE emptied
                  /\ UNCHANGED <<log, answered>>
    /\ UNCHANGED <<suppressed, unsubscribed>>

\* The next event of the body: a row of its own, unless its identity has one.
ProcessWebhookEvent ==
    /\ todo # <<>>
    /\ LET e == Head(todo)
           type == ClassifyStoredWebhookBounce(e.type, e.reason)
           reason == IF e.reason = Blank /\ type # Blank THEN "provider" ELSE e.reason
           key == WebhookIdentityKey(e, type, reason, body)
       IN IF \E row \in log : row.key = key
          THEN UNCHANGED <<log, suppressed, unsubscribed>>
          ELSE /\ log' = log \union {[key |-> key, type |-> type, email |-> e.email,
                                      reason |-> reason, status |-> Status(type)]}
               /\ ApplyWebhookEvent(type, e.email)
    /\ todo' = Tail(todo)
    /\ UNCHANGED <<body, rejected, coming, delivered, answered, emptied>>

\* After the last event: the dead letter of rejected elements, and the answer.
Answer ==
    /\ body # <<>> /\ todo = <<>>
    /\ log' = IF rejected = 0 THEN log ELSE log \union {DeadLetter(body, "rejected_records")}
    /\ answered' = answered \union {body}
    /\ body' = <<>> /\ rejected' = 0
    /\ UNCHANGED <<todo, suppressed, unsubscribed, coming, delivered, emptied>>

\* The store fails: 500, and the rest of the body is left for a redelivery.
Fail ==
    /\ body # <<>>
    /\ body' = <<>> /\ todo' = <<>> /\ rejected' = 0
    /\ UNCHANGED <<log, suppressed, unsubscribed, coming, delivered, answered, emptied>>

\* An operator replays a dead letter: its stored type and reason are judged anew.
Replay(row) ==
    LET type == ClassifyStoredWebhookBounce(row.type, row.reason)
        status == IF row.email # Blank /\ Status(type) = "applied" THEN "replayed"
                  ELSE "dead_letter"
    IN /\ row.status = "dead_letter"
       /\ log' = (log \ {row}) \union {[row EXCEPT !.status = status]}
       /\ IF row.email = Blank THEN UNCHANGED <<suppressed, unsubscribed>>
          ELSE ApplyWebhookEvent(type, row.email)
       /\ UNCHANGED <<body, todo, rejected, coming, delivered, answered, emptied>>

AtRest == body = <<>> /\ coming = <<>> /\ UNCHANGED vars

Next ==
    \/ Deliver
    \/ ProcessWebhookEvent
    \/ Answer
    \/ Fail
    \/ \E row \in log : Replay(row)
    \/ AtRest

Spec == Init /\ [][Next]_vars

----------------------------------------------------------------------------
(* What providers mean.                                                    *)

Bounces == {"hard_bounce", "soft_bounce", "bounce", "dropped"}

\* Where an object may state the class of a bounce: its name, the SES bounce object,
\* Mailgun's severity, the SMTP status, and Postmark's type of an event named bounce.
Statements(o) ==
    <<RawType(o),
      IF o.bounce = None THEN Blank ELSE o.bounce.kind,
      IF o.data = None THEN Blank ELSE o.data.severity,
      o.status,
      IF RawType(o) = "bounce" THEN o.postmark ELSE Blank>>

PermanentWords == <<{"hard_bounce"}, {"permanent", "hard"}, {"permanent"}, {"5.x"}, {"hard"}>>
TemporaryWords == <<{"soft_bounce"}, {"transient", "temporary", "soft"}, {"temporary"},
                    {"4.x"}, {"soft", "transient"}>>

\* A bounce that is permanent by one statement and temporary by none before it: the
\* statements of one object may contradict each other.
Permanent(o) ==
    /\ RawType(o) \in Bounces
    /\ \E i \in 1..5 : /\ Statements(o)[i] \in PermanentWords[i]
                       /\ \A j \in 1..(i - 1) : Statements(o)[j] \notin TemporaryWords[j]

\* Whom an object is about: the recipients of its SES bounce, or its one address.
About(o) ==
    IF SesBouncedRecipients(o) # <<>>
    THEN {SesBouncedRecipients(o)[i].email : i \in DOMAIN SesBouncedRecipients(o)} \ {Blank}
    ELSE {FirstText(<<o.email, EmailFromNestedObjects(o)>>)} \ {Blank}

Elements(b) == {b[i] : i \in DOMAIN b}
Objects(bs) == (UNION {Elements(b) : b \in bs}) \ {NotObject}

\* The rows are well formed: a stored type is canonical or blank, and
\* rows of one identity are one row.
TypeOK ==
    /\ \A row \in log :
          /\ row.type \in {"bounce_permanent", "bounce_temporary", "bounce_unclassified",
                           "complaint", "unsubscribe", "unknown", Blank}
          /\ row.status \in {"applied", "replayed", "dead_letter"}
          /\ \A other \in log : other.key = row.key => other = row
    /\ (body = <<>> \/ body \in delivered) /\ rejected \in Nat
    /\ suppressed \intersect {Blank} = {} /\ unsubscribed \intersect {Blank} = {}
    /\ answered \subseteq delivered /\ emptied \subseteq delivered

\* An address is suppressed only if a delivered object about it is a complaint
\* or a bounce that is permanent by its name or by a field, in the words of that
\* field and with no earlier one to the contrary.  Neither a free text reason nor
\* a replay turns a temporary or unclassified bounce into a permanent one (the
\* promise above normalizeWebhookEventType).
SuppressedOnEvidence ==
    \A a \in suppressed : \E o \in Objects(delivered) :
        a \in About(o) /\ (RawType(o) = "complaint" \/ Permanent(o))

\* Conversely, once a body is answered 202 every recipient it reports as
\* complaining, unsubscribed or permanently bounced is on the list: no one is
\* taken for a duplicate of another, whatever was delivered, failed in the midst
\* or was replayed before, and whatever a weaker field of the object says.
ReportedIsListed ==
    \A o \in Objects(answered) :
        /\ RawType(o) = "complaint" \/ Permanent(o) => About(o) \subseteq suppressed
        /\ RawType(o) = "unsubscribe" => About(o) \subseteq unsubscribed

\* A body that has no actionable event is refused by the parser: what it does
\* return has a type.  Stated by the parser's test on payloads with no
\* actionable events and by the error "object missing required fields".
ParsedAreTyped == emptied = {}
=============================================================================
