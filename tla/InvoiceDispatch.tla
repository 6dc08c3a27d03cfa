--------------------------- MODULE InvoiceDispatch ---------------------------
(***************************************************************************)
(* POST /invoices/{id}/send and the mail it leads to: the handler turns a  *)
(* draft into SENT, commits, and then publishes a message on the Redis     *)
(* broker; a worker process takes the message (celery acknowledges it at   *)
(* once), loads the invoice and mails it to the client.                    *)
(*                                                                         *)
(* celery.py leaves celery's defaults in place: task_publish_retry, so     *)
(* that a push whose reply is lost is repeated, and Redis' visibility      *)
(* timeout, after which a message that a busy worker has reserved and not  *)
(* acknowledged is delivered once more.  Either way it is there twice.     *)
(*                                                                         *)
(* The message carries only the key of the invoice.  Here it is also given *)
(* the identity of the /send that published it, so that the properties can *)
(* follow one sending through the system.                                  *)
(***************************************************************************)
EXTENDS Integers, FiniteSets

CONSTANTS
    Requests,   \* slots for /send requests in progress together
    Workers,    \* worker processes
    Sends,      \* identities for the sendings that commit; their number is a bound
    MaxFaults   \* bound on failing handlers and workers

ASSUME FaultsAssumption == MaxFaults \in Nat
ASSUME ProcessesAssumption == IsFiniteSet(Requests) /\ IsFiniteSet(Workers)

VARIABLES
    live, draft,    \* the committed invoice: it exists, its status is DRAFT
    request,    \* each handler: how far it has come, whether it loaded a draft,
                \* and the sending it has committed, as a set of at most one
    queue,      \* messages on the broker, counted by sending
    job,        \* each worker: how far it has come, and its message
    mails,      \* mails that have gone out, by sending
    sent,       \* history: sendings that have committed
    again,      \* history: how often each has been put on the broker once more
    lost,       \* history: how often a fault or the deletion of the invoice
                \* has cut it short
    faults      \* faults counted by MaxFaults

invoice == <<live, draft>>
history == <<sent, again, lost, faults>>
vars == <<live, draft, request, queue, job, mails, sent, again, lost, faults>>

NoRequest == [at |-> "idle", draft |-> FALSE, send |-> {}]
NoJob == [at |-> "idle", send |-> {}]
Zero == [s \in Sends |-> 0]

TypeOK ==
    /\ live \in BOOLEAN /\ draft \in BOOLEAN
    /\ request \in [Requests -> [at : {"idle", "loaded", "committed", "refreshed"},
                                 draft : BOOLEAN, send : SUBSET Sends]]
    /\ queue \in [Sends -> Nat]
    /\ job \in [Workers -> [at : {"idle", "taken", "loaded", "mailed"},
                            send : SUBSET Sends]]
    /\ mails \in [Sends -> Nat]
    /\ sent \in SUBSET Sends
    /\ again \in [Sends -> Nat] /\ lost \in [Sends -> Nat]
    /\ faults \in 0..MaxFaults

Init ==
    /\ live = TRUE /\ draft = TRUE
    /\ request = [r \in Requests |-> NoRequest]
    /\ queue = Zero
    /\ job = [w \in Workers |-> NoJob]
    /\ mails = Zero
    /\ sent = {} /\ again = Zero /\ lost = Zero /\ faults = 0

\* each of the held sendings counts once more
Plus(count, held) ==
    [s \in Sends |-> IF s \in held THEN count[s] + 1 ELSE count[s]]

Breaks == faults < MaxFaults /\ faults' = faults + 1

-----------------------------------------------------------------------------
(***************************************************************************)
(* The handler.                                                            *)
(***************************************************************************)
Goto(r, at, isDraft, send) ==
    request' = [request EXCEPT ![r] = [at |-> at, draft |-> isDraft, send |-> send]]

\* get_invoice_nocache
Load(r) ==
    /\ request[r].at = "idle"
    /\ live
    /\ Goto(r, "loaded", draft, {})
    /\ UNCHANGED <<invoice, queue, job, mails, history>>

\* 403, no billing address, not a draft, StaleDataError: nothing is committed
TurnAway(r) ==
    /\ request[r].at = "loaded"
    /\ Goto(r, "idle", FALSE, {})
    /\ UNCHANGED <<invoice, queue, job, mails, history>>

\* db_send_drafted_invoice up to the commit
Commit(r) ==
    /\ request[r].at = "loaded"
    /\ request[r].draft
    /\ live
    /\ \E s \in Sends \ sent :
          /\ Goto(r, "committed", FALSE, {s})
          /\ sent' = sent \cup {s}
    /\ draft' = FALSE
    /\ UNCHANGED <<live, queue, job, mails, again, lost, faults>>

\* redis.delete, and session.refresh in the route
Refresh(r) ==
    /\ request[r].at = "committed"
    /\ live
    /\ Goto(r, "refreshed", FALSE, request[r].send)
    /\ UNCHANGED <<invoice, queue, job, mails, history>>

\* InvalidRequestError: the row is gone, and the message is not published
RefreshRaises(r) ==
    /\ request[r].at = "committed"
    /\ ~ live
    /\ lost' = Plus(lost, request[r].send)
    /\ Goto(r, "idle", FALSE, {})
    /\ UNCHANGED <<invoice, queue, job, mails, sent, again, faults>>

\* send_invoice_email.delay: the message is pushed, and the reply arrives
Publish(r) ==
    /\ request[r].at = "refreshed"
    /\ queue' = Plus(queue, request[r].send)
    /\ Goto(r, "idle", FALSE, {})
    /\ UNCHANGED <<invoice, job, mails, history>>

\* the connection is lost between push and reply: delay goes on to push again
LoseReply(r) ==
    /\ request[r].at = "refreshed"
    /\ Breaks
    /\ queue' = Plus(queue, request[r].send)
    /\ again' = Plus(again, request[r].send)
    /\ UNCHANGED <<invoice, request, job, mails, sent, lost>>

\* the process dies, or Redis has not answered after the last retry
HandlerFault(r) ==
    /\ request[r].at # "idle"
    /\ Breaks
    /\ lost' = Plus(lost, request[r].send)
    /\ Goto(r, "idle", FALSE, {})
    /\ UNCHANGED <<invoice, queue, job, mails, sent, again>>

-----------------------------------------------------------------------------
(***************************************************************************)
(* The worker.  A message that a worker has reserved and not begun counts  *)
(* as on the broker: if the worker dies it is delivered to another.        *)
(***************************************************************************)
Take(w) ==
    /\ job[w] = NoJob
    /\ \E s \in Sends :
          /\ queue[s] > 0
          /\ queue' = [queue EXCEPT ![s] = @ - 1]
          /\ job' = [job EXCEPT ![w] = [at |-> "taken", send |-> {s}]]
    /\ UNCHANGED <<invoice, request, mails, history>>

\* the visibility timeout of a message that is reserved by a busy worker
Redeliver(s) ==
    /\ queue[s] > 0
    /\ Breaks
    /\ queue' = Plus(queue, {s})
    /\ again' = Plus(again, {s})
    /\ UNCHANGED <<invoice, request, job, mails, sent, lost>>

Moves(w, from, to) ==
    /\ job[w].at = from
    /\ job' = [job EXCEPT ![w] = [at |-> to, send |-> job[w].send]]

MailsIf_Sent == live /\ ~ draft \* mutant: the task tests the status again

MailsIf == live

LoadInvoice(w) ==
    /\ MailsIf
    /\ Moves(w, "taken", "loaded")
    /\ UNCHANGED <<invoice, request, queue, mails, history>>

\* "if invoice": the task ends without a mail
NotFound(w) ==
    /\ job[w].at = "taken"
    /\ ~ MailsIf
    /\ lost' = IF live THEN lost ELSE Plus(lost, job[w].send)
    /\ job' = [job EXCEPT ![w] = NoJob]
    /\ UNCHANGED <<invoice, request, queue, mails, sent, again, faults>>

Mail(w) ==
    /\ Moves(w, "loaded", "mailed")
    /\ mails' = Plus(mails, job[w].send)
    /\ UNCHANGED <<invoice, request, queue, history>>

\* the result goes to the result backend, and the worker is free
Finish(w) ==
    /\ job[w].at = "mailed"
    /\ job' = [job EXCEPT ![w] = NoJob]
    /\ UNCHANGED <<invoice, request, queue, mails, history>>

\* the sending this worker still has to mail
Unmailed(w) == IF job[w].at = "mailed" THEN {} ELSE job[w].send

\* mutant: task_acks_late, the message of a worker that dies is delivered again
Crash_AcksLate(w) ==
    /\ queue' = Plus(queue, job[w].send)
    /\ UNCHANGED lost

\* the message was acknowledged when it was taken: it is not delivered again
Crash(w) ==
    /\ lost' = Plus(lost, Unmailed(w))
    /\ UNCHANGED queue

\* the process dies, or the database or the mail server raises
WorkerFault(w) ==
    /\ job[w] # NoJob
    /\ Breaks
    /\ job' = [job EXCEPT ![w] = NoJob]
    /\ Crash(w)
    /\ UNCHANGED <<invoice, request, mails, sent, again>>

-----------------------------------------------------------------------------
(***************************************************************************)
(* The other writers of the row: PUT and PATCH set any status, payments    *)
(* and the daily job leave a status that is not DRAFT.                     *)
(***************************************************************************)
Edit ==
    /\ live
    /\ draft' \in BOOLEAN
    /\ UNCHANGED <<live, request, queue, job, mails, history>>

Delete ==
    /\ live /\ live' = FALSE
    /\ UNCHANGED <<draft, request, queue, job, mails, history>>

Handler(r) ==
    TurnAway(r) \/ Commit(r) \/ Refresh(r) \/ RefreshRaises(r) \/ Publish(r)

Worker(w) ==
    Take(w) \/ LoadInvoice(w) \/ NotFound(w) \/ Mail(w) \/ Finish(w)

Next ==
    \/ \E r \in Requests : Load(r) \/ Handler(r) \/ LoseReply(r) \/ HandlerFault(r)
    \/ \E w \in Workers : Worker(w) \/ WorkerFault(w)
    \/ \E s \in Sends : Redeliver(s)
    \/ Edit \/ Delete

Spec == Init /\ [][Next]_vars

\* a handler that has begun runs to its end, and a worker with work does it
FairSpec ==
    /\ Spec
    /\ \A r \in Requests : WF_vars(Handler(r))
    /\ \A w \in Workers : WF_vars(Worker(w))

-----------------------------------------------------------------------------
(***************************************************************************)
(* Properties.                                                             *)
(***************************************************************************)

\* A /send that committed leads to one mail, and one more for each time its
\* message was put on the broker once more, however handlers and workers fail;
\* one that did not commit leads to none: publish after the commit, acknowledge
\* before the work.
OneMailPerSend ==
    \A s \in Sends : mails[s] > 0 => s \in sent /\ mails[s] <= 1 + again[s]

\* Mails to come of a sending: one with its handler, one for each message on the
\* broker, one with each worker that has not mailed it yet.
Due(s) ==
    Cardinality({r \in Requests : s \in request[r].send}) + queue[s]
        + Cardinality({w \in Workers : s \in Unmailed(w)})

Mailbox == INSTANCE Outbox WITH
    accepted <- sent, due <- [s \in Sends |-> Due(s)], mailed <- mails

\* Handlers, broker and workers together are an outbox: a committed sending is
\* never out of sight unless a fault or a deletion took it, a fault takes or
\* repeats one sending only, and one that is out of sight does not turn up again,
\* although it passes from process to process by messages.
ImplementsOutbox == Mailbox!Spec

\* Nothing but faults or the deletion of the invoice keeps the mail from the
\* client, and only if they took every message there was: no status that others
\* write meanwhile does.
SentIsMailed ==
    \A s \in Sends : s \in sent ~> mails[s] > 0 \/ lost[s] > again[s]

=============================================================================
