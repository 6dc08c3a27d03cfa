----------------------------- MODULE OverdueJob -----------------------------
(***************************************************************************)
(* The daily overdue check: celery beat puts a message on the Redis broker *)
(* at midnight (celery.py), a worker process takes it and runs             *)
(* check_overdue_invoices (tasks.py): select every SENT or PARTIALLY_PAID  *)
(* invoice past its due date, mark each OVERDUE and mail a reminder for    *)
(* each that has none yet, and commit once at the end.  The message is     *)
(* acknowledged when it is taken, so a task that fails is not run again    *)
(* before the next tick.                                                   *)
(*                                                                         *)
(* Users keep writing the invoices meanwhile; their requests are single    *)
(* steps here and are taken apart in InvoiceSessions.                      *)
(***************************************************************************)
EXTENDS Integers, FiniteSets

CONSTANTS
    Invoices,
    Workers,    \* worker processes (celery's prefork pool)
    Statuses,   \* the statuses in use; the job tells three kinds apart
    Poison,     \* invoices whose client's address the mail server rejects
    MaxQueue,   \* bound on messages waiting on the broker
    MaxFaults,  \* bound on task runs that fail although they might succeed
    MaxCount,   \* the counter `mails' stays there once it has reached it
    MaxFailed   \* the same for `failed'

ASSUME BoundsAssumption ==
    MaxQueue \in Nat /\ MaxFaults \in Nat /\ MaxCount \in Nat \ {0}
        /\ MaxFailed \in Nat \ {0}
ASSUME WorkersAssumption == IsFiniteSet(Workers)
\* a bound on mails that counts failed runs cannot be met by their saturation
ASSUME SaturationAssumption == MaxCount <= MaxFailed + Cardinality(Workers)
ASSUME PoisonAssumption == Poison \subseteq Invoices

AllStatuses == {"DRAFT", "SENT", "PARTIALLY_PAID", "PAID", "OVERDUE"}

ASSUME StatusesAssumption ==
    {"SENT", "OVERDUE"} \subseteq Statuses /\ Statuses \subseteq AllStatuses

VARIABLES
    rows,       \* the invoice rows that exist
    status,     \* status column
    pastDue,    \* due_date < now
    reminded,   \* reminder_sent_at is set
    mails,      \* reminders the mail server has accepted
    queue,      \* messages waiting on the broker
    task,       \* what each worker process is doing
    faults,     \* failed runs counted by MaxFaults
    failed      \* history: all failed runs

vars == <<rows, status, pastDue, reminded, mails, queue, task, faults, failed>>
invoices == <<rows, status, pastDue, reminded>>

\* todo: selected, not yet processed; done: marked OVERDUE in the session;
\* flagged: of these, mailed and given a reminder_sent_at in the session;
\* silent: had a reminder_sent_at when they were loaded
Idle == [running |-> FALSE, todo |-> {}, done |-> {}, flagged |-> {},
         silent |-> {}]
Tasks == [running : BOOLEAN, todo : SUBSET Invoices, done : SUBSET Invoices,
          flagged : SUBSET Invoices, silent : SUBSET Invoices]

TypeOK ==
    /\ rows \in SUBSET Invoices
    /\ status \in [Invoices -> Statuses]
    /\ pastDue \in SUBSET Invoices
    /\ reminded \in SUBSET Invoices
    /\ mails \in [Invoices -> 0..MaxCount]
    /\ queue \in 0..MaxQueue
    /\ task \in [Workers -> Tasks]
    /\ faults \in 0..MaxFaults
    /\ failed \in 0..MaxFailed

Init ==
    /\ rows = Invoices
    /\ status = [i \in Invoices |-> "SENT"]
    /\ pastDue = {} /\ reminded = {}
    /\ mails = [i \in Invoices |-> 0]
    /\ queue = 0
    /\ task = [w \in Workers |-> Idle]
    /\ faults = 0 /\ failed = 0

-----------------------------------------------------------------------------
(***************************************************************************)
(* beat and the worker.                                                    *)
(***************************************************************************)
Up(n) == IF n < MaxCount THEN n + 1 ELSE n

\* beat's message; one that is pushed again after a lost reply, or delivered again
\* after the visibility timeout, is one more of these
Tick ==
    /\ queue < MaxQueue
    /\ queue' = queue + 1
    /\ UNCHANGED <<invoices, mails, task, faults, failed>>

Selects_SentOnly(i) ==  \* mutant: c1 without PARTIALLY_PAID
    i \in rows /\ i \in pastDue /\ status[i] = "SENT"

Selects(i) ==
    i \in rows /\ i \in pastDue /\ status[i] \in {"SENT", "PARTIALLY_PAID"}

\* take the message and run get_overdue_invoices; the rows stay as loaded
Start(w) ==
    /\ ~ task[w].running /\ queue > 0
    /\ queue' = queue - 1
    /\ task' = [task EXCEPT ![w] =
          [running |-> TRUE, todo |-> {i \in Invoices : Selects(i)},
           done |-> {}, flagged |-> {}, silent |-> reminded]]
    /\ UNCHANGED <<invoices, mails, faults, failed>>

NeedsMail_Always(t, i) == TRUE      \* mutant: reminder_sent_at is not tested

NeedsMail(t, i) == i \notin t.silent

Processed(t, i, mail) ==
    [running |-> TRUE, todo |-> t.todo \ {i}, done |-> t.done \cup {i},
     flagged |-> IF mail THEN t.flagged \cup {i} ELSE t.flagged,
     silent |-> t.silent]

\* one turn of the loop: mark, and mail if the loaded row has no reminder
Process(w, i) ==
    /\ i \in task[w].todo
    /\ LET mail == NeedsMail(task[w], i) IN
          /\ mail => i \notin Poison
          /\ mails' = IF mail THEN [mails EXCEPT ![i] = Up(@)] ELSE mails
          /\ task' = [task EXCEPT ![w] = Processed(@, i, mail)]
    /\ UNCHANGED <<invoices, queue, faults, failed>>

\* the run ends without a commit: the mails stay sent, the rows stay as they were
Abort(w) ==
    /\ task[w].running
    /\ task' = [task EXCEPT ![w] = Idle]
    /\ failed' = IF failed < MaxFailed THEN failed + 1 ELSE failed
    /\ UNCHANGED <<invoices, queue>>

\* mutant: the exception is caught and the row flagged all the same
Rejected_Flagged(w, i) ==
    /\ i \in task[w].todo /\ i \in Poison /\ NeedsMail(task[w], i)
    /\ task' = [task EXCEPT ![w] = Processed(@, i, TRUE)]
    /\ UNCHANGED <<invoices, mails, queue, faults, failed>>

\* SMTPRecipientsRefused ends the run
Rejected(w, i) ==
    /\ i \in task[w].todo /\ i \in Poison /\ NeedsMail(task[w], i)
    /\ Abort(w)
    /\ UNCHANGED <<mails, faults>>

\* the process is killed, the database or the mail server does not answer;
\* a mail may have been accepted before the answer was lost
Fault(w) ==
    /\ faults < MaxFaults /\ faults' = faults + 1
    /\ \/ UNCHANGED mails
       \/ \E i \in task[w].todo :
             NeedsMail(task[w], i) /\ mails' = [mails EXCEPT ![i] = Up(@)]
    /\ Abort(w)

Finished(w) == task[w].running /\ task[w].todo = {}

Flags_Never(t) == {}    \* mutant: reminder_sent_at is not written

Flags(t) == t.flagged

\* the UPDATEs, by primary key; a row that is gone is skipped in a batch ...
Commit(w) ==
    /\ Finished(w)
    /\ status' = [i \in Invoices |->
          IF i \in task[w].done \cap rows THEN "OVERDUE" ELSE status[i]]
    /\ reminded' = reminded \cup (Flags(task[w]) \cap rows)
    /\ task' = [task EXCEPT ![w] = Idle]
    /\ UNCHANGED <<rows, pastDue, mails, queue, faults, failed>>

\* ... and raises StaleDataError when the batch has no other row
CommitRaises(w) ==
    /\ Finished(w)
    /\ ~ task[w].done \subseteq rows
    /\ Abort(w)
    /\ UNCHANGED <<mails, faults>>

-----------------------------------------------------------------------------
(***************************************************************************)
(* What users and time do to the rows.  reminder_sent_at is not in any     *)
(* request body: it is set by the job alone.                               *)
(***************************************************************************)
Lapse(i) ==     \* the due date passes
    /\ i \in rows \ pastDue
    /\ pastDue' = pastDue \cup {i}
    /\ UNCHANGED <<rows, status, reminded, mails, queue, task, faults, failed>>

SetStatus_Null(i, s) == \* mutant: a nullable column, and PATCH {"status": null}
    /\ i \in rows
    /\ status' = [status EXCEPT ![i] = "null"]
    /\ UNCHANGED <<rows, pastDue, reminded, mails, queue, task, faults, failed>>

SetStatus(i, s) ==      \* payments, refunds, /send, PUT and PATCH
    /\ i \in rows /\ s # status[i]
    /\ status' = [status EXCEPT ![i] = s]
    /\ UNCHANGED <<rows, pastDue, reminded, mails, queue, task, faults, failed>>

Extend(i) ==    \* PUT or PATCH moves the due date
    /\ i \in rows \cap pastDue
    /\ pastDue' = pastDue \ {i}
    /\ UNCHANGED <<rows, status, reminded, mails, queue, task, faults, failed>>

Delete(i) ==
    /\ i \in rows
    /\ rows' = rows \ {i}
    /\ UNCHANGED <<status, pastDue, reminded, mails, queue, task, faults, failed>>

-----------------------------------------------------------------------------
Work(w) ==
    \/ Start(w)
    \/ \E i \in Invoices : Process(w, i) \/ Rejected(w, i)
    \/ Commit(w)

Next ==
    \/ Tick
    \/ \E w \in Workers : Start(w) \/ Commit(w) \/ CommitRaises(w) \/ Fault(w)
    \/ \E w \in Workers, i \in Invoices : Process(w, i) \/ Rejected(w, i)
    \/ \E i \in Invoices :
          \/ Lapse(i) \/ Extend(i) \/ Delete(i)
          \/ \E s \in Statuses : SetStatus(i, s)

Spec == Init /\ [][Next]_vars

\* beat ticks every day, and a worker process that has a message works on it
FairSpec == Spec /\ WF_vars(Tick) /\ \A w \in Workers : WF_vars(Work(w))

-----------------------------------------------------------------------------
(***************************************************************************)
(* Properties.                                                             *)
(***************************************************************************)

\* reminder_sent_at is committed only for a reminder that has gone out: mail
\* first, commit last, and an exception in between loses the flag, not the mail.
ReminderBeforeFlag == \A i \in reminded : mails[i] > 0

\* runs that selected the invoice before it was flagged, and may still mail
Open(i) == {w \in Workers : i \in task[w].todo \ task[w].silent}

\* "overdue invoice email not sent again when previously sent"
\* (tests/test_tasks.py:117): after a committed reminder_sent_at only runs that
\* were on their way mail, each of them once, and no later run joins them,
\* through status changes and new due dates.
SilentOnceFlagged ==
    [][\A i \in reminded :
          mails'[i] + Cardinality(Open(i)') <= mails[i] + Cardinality(Open(i))]_vars

\* the same for a single worker process: nothing is on its way when it commits
SilentForGood == [][\A i \in reminded : mails'[i] = mails[i]]_vars

\* A client gets one reminder per invoice and worker process at most, and one
\* more for every run that failed, though runs that waited on the broker work
\* side by side and none locks what it selects.
ExtraOnlyAfterFailure ==
    \A i \in Invoices : mails[i] <= Cardinality(Workers) + failed

Due(i) ==
    i \in rows \cap pastDue /\ status[i] \in {"SENT", "PARTIALLY_PAID"}

\* An invoice that is due for marking is marked, paid, moved or deleted in the
\* end, though runs fail, as long as they fail finitely often: the next tick
\* retries.  Only an invoice with a rejected address that is due again and again
\* can keep the others from being marked, and such a one does: its exception ends
\* every run, although the test of the job (tests/test_tasks.py:113) expects a due
\* invoice to be marked.
EveryoneMarked ==
    \A i \in Invoices \ Poison :
        (Due(i) ~> ~ Due(i)) \/ []<>(\E p \in Poison : Due(p))

=============================================================================
