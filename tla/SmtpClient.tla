----------------------------- MODULE SmtpClient -----------------------------
(***************************************************************************)
(* One call of Client.Send or Client.Validate: the dialogue with a relay   *)
(* that may answer, refuse or stay silent at any point, the context that   *)
(* expires, and the goroutine that closes the connection when it does.     *)
(* MessageDelivery relies on what this module shows: Send returns, nil     *)
(* means that the relay has accepted, an error means nothing.              *)
(***************************************************************************)
EXTENDS Naturals

VARIABLES
    call,       \* "Send" or "Validate"
    mode,       \* TLSMode of the credentials
    auth,       \* the credentials name a user or a password
    offered,    \* the relay offers STARTTLS
    parent,     \* the caller's context has a deadline of its own
    pc,         \* the step of the call
    conn,       \* "none", "open", "closed"
    tls,        \* the connection is encrypted
    expired,    \* the context of the call is done
    watcher,    \* the goroutine of connect: "none", "waiting", "done"
    stops,      \* how often stopClose has been closed
    accepted,   \* the relay has taken responsibility for the message
    result      \* "none", "nil", "error"

inputs == <<call, mode, auth, offered, parent>>
vars == <<inputs, pc, conn, tls, expired, watcher, stops, accepted, result>>

Modes == {"", "starttls", "implicit_tls", "none", "other"}
Steps == {"connect", "dial", "greeting", "starttls", "auth", "mail", "rcpt", "data",
          "body", "reply", "noop", "fail", "close", "done"}

TypeOK ==
    /\ call \in {"Send", "Validate"} /\ mode \in Modes
    /\ auth \in BOOLEAN /\ offered \in BOOLEAN /\ parent \in BOOLEAN
    /\ pc \in Steps
    /\ conn \in {"none", "open", "closed"}
    /\ tls \in BOOLEAN /\ expired \in BOOLEAN /\ accepted \in BOOLEAN
    /\ watcher \in {"none", "waiting", "done"}
    /\ stops \in Nat
    /\ result \in {"none", "nil", "error"}

Init ==
    /\ call \in {"Send", "Validate"} /\ mode \in Modes
    /\ auth \in BOOLEAN /\ offered \in BOOLEAN /\ parent \in BOOLEAN
    /\ pc = "connect" /\ conn = "none" /\ tls = FALSE /\ expired = FALSE
    /\ watcher = "none" /\ stops = 0 /\ accepted = FALSE /\ result = "none"

----------------------------------------------------------------------------
\* The default is STARTTLS; other names are refused.
NormalizeTLSMode == IF mode = "" THEN "starttls" ELSE mode
Supported == NormalizeTLSMode \in {"starttls", "implicit_tls", "none"}

\* The deferred cancel ends the context of the call.
Return(r) == pc' = "done" /\ result' = r /\ expired' = TRUE
\* The deferred Close calls run before the call returns.
Unwind(r) == pc' = "close" /\ result' = r

\* One exchange with the relay: an answer while the connection is open, even if
\* the context is done and the goroutine has still to close it, or an error.
Answers == conn = "open"

\* Validation of the credentials comes before any connection.
Connect ==
    /\ pc = "connect"
    /\ IF ~Supported \/ (NormalizeTLSMode = "none" /\ auth)
       THEN Return("error") ELSE pc' = "dial" /\ UNCHANGED <<result, expired>>
    /\ UNCHANGED <<inputs, conn, tls, watcher, stops, accepted>>

\* Dial, with TLS at once in implicit mode, and start the watching goroutine.
Dial ==
    /\ pc = "dial"
    /\ \/ /\ ~expired
          /\ conn' = "open" /\ tls' = (NormalizeTLSMode = "implicit_tls")
          /\ watcher' = "waiting"
          /\ pc' = "greeting" /\ UNCHANGED <<result, expired>>
       \/ Return("error") /\ UNCHANGED <<conn, tls, watcher>>
    /\ UNCHANGED <<inputs, stops, accepted>>

\* smtp.NewClient reads the greeting.
Greeting ==
    /\ pc = "greeting"
    /\ \/ Answers /\ pc' = IF NormalizeTLSMode = "starttls" THEN "starttls" ELSE "auth"
       \/ pc' = "fail"
    /\ UNCHANGED <<inputs, conn, tls, expired, watcher, stops, accepted, result>>

\* Mutant: a relay without STARTTLS is used as it is.
StartTLSIfOffered ==
    /\ pc = "starttls"
    /\ \/ Answers /\ tls' = offered /\ pc' = "auth"
       \/ pc' = "fail" /\ UNCHANGED tls
    /\ UNCHANGED <<inputs, conn, expired, watcher, stops, accepted, result>>

StartTLS ==
    /\ pc = "starttls"
    /\ \/ Answers /\ offered /\ tls' = TRUE /\ pc' = "auth"
       \/ pc' = "fail" /\ UNCHANGED tls
    /\ UNCHANGED <<inputs, conn, expired, watcher, stops, accepted, result>>

\* Mutant: a failed connect leaves the connection to its goroutine.
ConnectFailsOpen ==
    /\ pc = "fail"
    /\ Return("error")
    /\ UNCHANGED <<inputs, conn, tls, watcher, stops, accepted>>

\* connect stops its goroutine and closes the connection before it gives up.
ConnectFails ==
    /\ pc = "fail"
    /\ stops' = stops + 1 /\ conn' = "closed"
    /\ Return("error")
    /\ UNCHANGED <<inputs, tls, watcher, accepted>>

Authenticate ==
    /\ pc = "auth"
    /\ \/ /\ auth => tls /\ Answers
          /\ pc' = IF call = "Send" THEN "mail" ELSE "noop"
          /\ UNCHANGED result
       \/ auth /\ Unwind("error")
    /\ UNCHANGED <<inputs, conn, tls, expired, watcher, stops, accepted>>

\* MAIL, RCPT, DATA and the text itself. A failed write breaks the writer for
\* good, so that the Close after it sends no final dot.
Exchange(step, next) ==
    /\ pc = step
    /\ \/ Answers /\ pc' = next /\ UNCHANGED result
       \/ Unwind("error")
    /\ UNCHANGED <<inputs, conn, tls, expired, watcher, stops, accepted>>

\* Mutant: the relay's answer to the end of DATA is not read.
ReplyUnread ==
    /\ pc = "reply"
    /\ \/ Unwind("nil") /\ accepted' \in BOOLEAN
       \/ Unwind("error") /\ accepted' \in BOOLEAN
    /\ UNCHANGED <<inputs, conn, tls, expired, watcher, stops>>

\* w.Close sends the final dot and reads the answer; a relay that has accepted
\* may be lost before its answer arrives.
Reply ==
    /\ pc = "reply"
    /\ \/ Answers /\ Unwind("nil") /\ accepted' = TRUE
       \/ Unwind("error") /\ accepted' \in BOOLEAN
    /\ UNCHANGED <<inputs, conn, tls, expired, watcher, stops>>

Noop ==
    /\ pc = "noop"
    /\ \/ Answers /\ Unwind("nil")
       \/ Unwind("error")
    /\ UNCHANGED <<inputs, conn, tls, expired, watcher, stops, accepted>>

\* client.Close, managedConn.Close and cancel, deferred in this order.
Close ==
    /\ pc = "close"
    /\ stops' = stops + 1 /\ conn' = "closed"
    /\ Return(result)
    /\ UNCHANGED <<inputs, tls, watcher, accepted>>

\* Mutant: a caller without a deadline waits as long as the relay likes.
BoundedByCallerOnly == parent

\* boundedContext: the caller's deadline or the timeout of the call.
Bounded == TRUE

\* Time passes beyond the deadline, or the caller cancels.
Expire ==
    /\ pc # "done" /\ ~expired /\ Bounded
    /\ expired' = TRUE
    /\ UNCHANGED <<inputs, pc, conn, tls, watcher, stops, accepted, result>>

\* The goroutine ends by closing the connection or because it was stopped.
Watch ==
    /\ watcher = "waiting" /\ (expired \/ stops > 0)
    /\ watcher' = "done"
    /\ conn' \in (IF expired THEN {"closed"} ELSE {}) \union (IF stops > 0 THEN {conn} ELSE {})
    /\ UNCHANGED <<inputs, pc, tls, expired, stops, accepted, result>>

\* The call has returned.
Returned == pc = "done" /\ watcher # "waiting" /\ UNCHANGED vars

Send == Exchange("mail", "rcpt") \/ Exchange("rcpt", "data") \/ Exchange("data", "body")
          \/ Exchange("body", "reply") \/ Reply
Step == Connect \/ Dial \/ Greeting \/ StartTLS \/ ConnectFails \/ Authenticate
          \/ Send \/ Noop \/ Close
Next == Step \/ Expire \/ Watch \/ Returned

Spec == Init /\ [][Next]_vars

\* What needs no answer of the relay: local steps, an exchange on a closed
\* connection, and a dial whose context is done.
Unhindered == \/ pc \in {"connect", "fail", "close"} \/ conn = "closed"
              \/ pc = "dial" /\ expired

\* The call goes on unless it waits for a silent relay; time passes; the
\* goroutine is scheduled.
FairSpec == Spec /\ WF_vars(Step /\ Unhindered) /\ WF_vars(Expire) /\ WF_vars(Watch)

----------------------------------------------------------------------------
(* Properties.                                                             *)

\* nil from Send means that the relay has accepted the message: the only fact
\* ProcessOne may build "sent" on.
NilMeansAccepted == call = "Send" /\ result = "nil" => accepted

\* In a TLS mode authentication, envelope, message and NOOP travel encrypted,
\* whatever the relay offers (EHLO and STARTTLS come before, in clear), and
\* credentials do so in every mode.
NothingInClear ==
    pc \in {"auth", "mail", "rcpt", "data", "body", "reply", "noop"}
        => tls \/ (NormalizeTLSMode = "none" /\ ~auth)

\* A call that has returned leaves no open connection behind, and the channel
\* that stops its goroutine is closed exactly once, which a second close of a
\* Go channel would turn into a panic.
ReleasedOnce ==
    /\ stops <= 1
    /\ pc = "done" => conn # "open" /\ (watcher # "none" => stops = 1)

\* Every call returns and its goroutine ends, even with a relay that never
\* answers and a caller without a deadline.
CallReturns == <>(pc = "done" /\ watcher # "waiting")
=============================================================================
