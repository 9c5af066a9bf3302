-------------------------- MODULE MCWebhookEvents --------------------------
(* Instances of WebhookEvents for TLC. *)
EXTENDS WebhookEvents, TLC

Event(id, kind, reason, email, ident) ==
    [id |-> id, kind |-> kind, reason |-> reason, email |-> email, ident |-> ident]

leave == Event("e1", "unsubscribe", "other", "x", TRUE)
hard == Event("e2", "bounce_permanent", "other", "x", FALSE)
old == Event("e3", "bounce", "permanent", "y", TRUE)

\* Two bodies that share an event, one of them with a rejected record, and a
\* dead letter of an earlier version.
SharedEvents == {leave, hard, old}
SharedBodies == {<<leave, hard>>, <<leave, BadRecord>>}
SharedLegacy == {old}
============================================================================
