-------------------------- MODULE OverdueJobProofs --------------------------
(***************************************************************************)
(* The overdue job for every set of invoices, whatever users do meanwhile  *)
(* and whichever runs fail.                                                *)
(***************************************************************************)
EXTENDS OverdueJob, FiniteSetTheorems, TLAPS

LEMMA UpType ==
    ASSUME NEW n \in 0..MaxCount
    PROVE  Up(n) \in 0..MaxCount /\ Up(n) > 0 /\ Up(n) >= n /\ Up(n) <= n + 1
BY BoundsAssumption DEF Up

LEMMA TypeStep == TypeOK /\ [Next]_vars => TypeOK'
<1> SUFFICES ASSUME TypeOK, [Next]_vars PROVE TypeOK'
  OBVIOUS
<1> USE BoundsAssumption
<1>1. CASE UNCHANGED vars
  BY <1>1 DEF TypeOK, vars
<1>2. CASE Tick
  BY <1>2 DEF TypeOK, Tick, invoices
<1>3. ASSUME NEW w \in Workers, Start(w) PROVE TypeOK'
  <2>1. task' \in [Workers -> Tasks]
    BY <1>3 DEF TypeOK, Start, Tasks
  <2> QED
    BY <1>3, <2>1 DEF TypeOK, Start, invoices
<1>4. ASSUME NEW w \in Workers, NEW i \in Invoices, Process(w, i) PROVE TypeOK'
  <2>1. \A mail : Processed(task[w], i, mail) \in Tasks
    BY DEF TypeOK, Tasks, Processed
  <2>2. task' \in [Workers -> Tasks]
    BY <1>4, <2>1 DEF TypeOK, Process
  <2>3. mails' \in [Invoices -> 0..MaxCount]
    BY <1>4, UpType DEF TypeOK, Process
  <2> QED
    BY <1>4, <2>2, <2>3 DEF TypeOK, Process, invoices
<1>5. ASSUME NEW w \in Workers, Abort(w), faults' \in 0..MaxFaults,
             mails' \in [Invoices -> 0..MaxCount]
      PROVE  TypeOK'
  <2>1. Idle \in Tasks
    BY DEF Idle, Tasks
  <2>2. failed' \in 0..MaxFailed
    BY <1>5 DEF TypeOK, Abort
  <2> QED
    BY <1>5, <2>1, <2>2 DEF TypeOK, Abort, invoices
<1>6. ASSUME NEW w \in Workers, NEW i \in Invoices, Rejected(w, i) PROVE TypeOK'
  BY <1>5, <1>6 DEF TypeOK, Rejected
<1>7. ASSUME NEW w \in Workers, Fault(w) PROVE TypeOK'
  <2>1. mails' \in [Invoices -> 0..MaxCount]
    BY <1>7, UpType DEF TypeOK, Fault, Tasks
  <2>2. faults' \in 0..MaxFaults
    BY <1>7 DEF TypeOK, Fault
  <2> QED
    BY <1>5, <1>7, <2>1, <2>2 DEF Fault
<1>8. ASSUME NEW w \in Workers, CommitRaises(w) PROVE TypeOK'
  BY <1>5, <1>8 DEF TypeOK, CommitRaises
<1>9. ASSUME NEW w \in Workers, Commit(w) PROVE TypeOK'
  <2>1. status' \in [Invoices -> Statuses]
    BY <1>9, StatusesAssumption DEF TypeOK, Commit
  <2>2. reminded' \in SUBSET Invoices /\ Idle \in Tasks
    BY <1>9 DEF TypeOK, Commit, Tasks, Idle
  <2> QED
    BY <1>9, <2>1, <2>2 DEF TypeOK, Commit
<1>10. ASSUME NEW i \in Invoices,
              \/ Lapse(i) \/ Extend(i) \/ Delete(i)
              \/ \E s \in Statuses : SetStatus(i, s)
       PROVE  TypeOK'
  BY <1>10 DEF TypeOK, Lapse, Extend, Delete, SetStatus
<1> QED
  BY <1>1, <1>2, <1>3, <1>4, <1>6, <1>7, <1>8, <1>9, <1>10 DEF Next

\* Every state of the job, the queue and the rows is well-typed.
THEOREM JobTypeCorrect == Spec => []TypeOK
<1>1. Init => TypeOK
  <2> SUFFICES ASSUME Init PROVE TypeOK
    OBVIOUS
  <2>1. Idle \in Tasks
    BY DEF Idle, Tasks
  <2>2. task \in [Workers -> Tasks]
    BY <2>1 DEF Init
  <2> QED
    BY <2>2, BoundsAssumption, StatusesAssumption DEF Init, TypeOK
<1> QED
  BY <1>1, TypeStep, PTL DEF Spec

-----------------------------------------------------------------------------
(***************************************************************************)
(* Any number of worker processes: what is flagged has been mailed, in the *)
(* session already and not only once it is committed.                      *)
(***************************************************************************)
Mailed ==
    /\ ReminderBeforeFlag
    /\ \A w \in Workers : \A i \in task[w].flagged : mails[i] > 0

\* an increment of one counter takes nothing from the others
LEMMA MailsGrow ==
    ASSUME TypeOK, NEW i \in Invoices, mails' = [mails EXCEPT ![i] = Up(@)]
    PROVE  /\ \A j \in Invoices : mails[j] > 0 => mails'[j] > 0
           /\ mails'[i] > 0
BY UpType DEF TypeOK

LEMMA MailedAbort ==
    ASSUME TypeOK, Mailed, NEW w \in Workers, Abort(w),
           \A j \in Invoices : mails[j] > 0 => mails'[j] > 0
    PROVE  Mailed'
<1>1. \A v \in Workers : task'[v].flagged \subseteq task[v].flagged
  BY DEF Abort, Idle, TypeOK
<1>2. \A v \in Workers : task[v].flagged \subseteq Invoices
  BY DEF TypeOK, Tasks
<1>3. reminded' = reminded /\ reminded \subseteq Invoices
  BY DEF Abort, invoices, TypeOK
<1> QED
  BY <1>1, <1>2, <1>3 DEF Mailed, ReminderBeforeFlag

LEMMA MailedStep == TypeOK /\ Mailed /\ [Next]_vars => Mailed'
<1> SUFFICES ASSUME TypeOK, Mailed, [Next]_vars PROVE Mailed'
  OBVIOUS
<1>1. CASE UNCHANGED vars
  BY <1>1 DEF Mailed, ReminderBeforeFlag, vars
<1>2. CASE Tick
  BY <1>2 DEF Mailed, ReminderBeforeFlag, Tick, invoices
<1>3. ASSUME NEW w \in Workers, Start(w) PROVE Mailed'
  <2>1. \A v \in Workers : task'[v].flagged \subseteq task[v].flagged
    BY <1>3 DEF Start, TypeOK
  <2> QED
    BY <1>3, <2>1 DEF Mailed, ReminderBeforeFlag, Start, invoices
<1>4. ASSUME NEW w \in Workers, NEW i \in Invoices, Process(w, i) PROVE Mailed'
  <2>1. CASE NeedsMail(task[w], i)
    <3>1. mails' = [mails EXCEPT ![i] = Up(@)]
      BY <1>4, <2>1 DEF Process
    <3>2. \A v \in Workers : task'[v].flagged \subseteq task[v].flagged \cup {i}
      BY <1>4, <2>1 DEF Process, Processed, TypeOK
    <3>3. \A v \in Workers : task[v].flagged \subseteq Invoices
      BY DEF TypeOK, Tasks
    <3>4. reminded' = reminded /\ reminded \subseteq Invoices
      BY <1>4 DEF Process, invoices, TypeOK
    <3> QED
      BY <3>1, <3>2, <3>3, <3>4, MailsGrow DEF Mailed, ReminderBeforeFlag
  <2>2. CASE ~ NeedsMail(task[w], i)
    <3>1. mails' = mails /\ reminded' = reminded
      BY <1>4, <2>2 DEF Process, invoices
    <3>2. \A v \in Workers : task'[v].flagged = task[v].flagged
      BY <1>4, <2>2 DEF Process, Processed, TypeOK
    <3> QED
      BY <3>1, <3>2 DEF Mailed, ReminderBeforeFlag
  <2> QED
    BY <2>1, <2>2
<1>5. ASSUME NEW w \in Workers, NEW i \in Invoices, Rejected(w, i) PROVE Mailed'
  BY <1>5, MailedAbort DEF Rejected
<1>6. ASSUME NEW w \in Workers, Fault(w) PROVE Mailed'
  <2>1. \A j \in Invoices : mails[j] > 0 => mails'[j] > 0
    <3>1. CASE UNCHANGED mails
      BY <3>1
    <3>2. ASSUME NEW i \in task[w].todo, mails' = [mails EXCEPT ![i] = Up(@)]
          PROVE  \A j \in Invoices : mails[j] > 0 => mails'[j] > 0
      <4>1. i \in Invoices
        BY DEF TypeOK, Tasks
      <4> QED
        BY <3>2, <4>1, MailsGrow
    <3> QED
      BY <1>6, <3>1, <3>2 DEF Fault
  <2> QED
    BY <1>6, <2>1, MailedAbort DEF Fault
<1>7. ASSUME NEW w \in Workers, CommitRaises(w) PROVE Mailed'
  BY <1>7, MailedAbort DEF CommitRaises
<1>8. ASSUME NEW w \in Workers, Commit(w) PROVE Mailed'
  <2>1. \A v \in Workers : task'[v].flagged \subseteq task[v].flagged
    BY <1>8 DEF Commit, Idle, TypeOK
  <2>2. reminded' \subseteq reminded \cup task[w].flagged /\ mails' = mails
    BY <1>8 DEF Commit, Flags
  <2> QED
    BY <2>1, <2>2 DEF Mailed, ReminderBeforeFlag
<1>9. ASSUME NEW i \in Invoices,
             \/ Lapse(i) \/ Extend(i) \/ Delete(i)
             \/ \E s \in Statuses : SetStatus(i, s)
      PROVE  Mailed'
  BY <1>9 DEF Mailed, ReminderBeforeFlag, Lapse, Extend, Delete, SetStatus
<1> QED
  BY <1>1, <1>2, <1>3, <1>4, <1>5, <1>6, <1>7, <1>8, <1>9 DEF Next

\* reminder_sent_at is never committed for a mail that did not go out, with any
\* number of worker processes (tasks.py:34-36).
THEOREM FlagMeansMailed == Spec => []ReminderBeforeFlag
<1>1. Init => Mailed
  BY DEF Init, Mailed, ReminderBeforeFlag, Idle
<1>2. Mailed => ReminderBeforeFlag
  BY DEF Mailed
<1> QED
  BY <1>1, <1>2, MailedStep, JobTypeCorrect, PTL DEF Spec

-----------------------------------------------------------------------------
(***************************************************************************)
(* One worker process.  What its session loaded of reminder_sent_at is     *)
(* what is committed, for nobody else writes that column.                  *)
(***************************************************************************)
UpToDate(t) ==
    /\ t.running => t.silent = reminded /\ t.todo \cap t.done = {}
    /\ t.flagged \subseteq t.done
    /\ ~ t.running => t.todo = {} /\ t.flagged = {}

Alone == \A w \in Workers : UpToDate(task[w])

LEMMA AloneStep ==
    ASSUME NEW one, Workers = {one}
    PROVE  TypeOK /\ Alone /\ [Next]_vars => Alone'
<1> SUFFICES ASSUME TypeOK, Alone, [Next]_vars PROVE Alone'
  OBVIOUS
<1>1. CASE UNCHANGED vars
  BY <1>1 DEF Alone, UpToDate, vars
<1>2. CASE Tick
  BY <1>2 DEF Alone, UpToDate, Tick, invoices
<1>3. CASE Start(one)
  <2>1. task'[one] = [running |-> TRUE, todo |-> {i \in Invoices : Selects(i)},
                      done |-> {}, flagged |-> {}, silent |-> reminded]
    BY <1>3 DEF Start, TypeOK
  <2> QED
    BY <1>3, <2>1 DEF Alone, UpToDate, Start, invoices
<1>4. ASSUME NEW i \in Invoices, Process(one, i) PROVE Alone'
  <2>1. task'[one] = Processed(task[one], i, NeedsMail(task[one], i))
    BY <1>4 DEF Process, TypeOK
  <2>2. task[one].running
    BY <1>4 DEF Process, Alone, UpToDate
  <2>3. reminded' = reminded
    BY <1>4 DEF Process, invoices
  <2>4. /\ task'[one].running
        /\ task'[one].todo = task[one].todo \ {i}
        /\ task'[one].done = task[one].done \cup {i}
        /\ task'[one].flagged \subseteq task[one].flagged \cup {i}
        /\ task'[one].silent = task[one].silent
    BY <2>1 DEF Processed
  <2> QED
    BY <2>2, <2>3, <2>4 DEF Alone, UpToDate
<1>5. CASE Abort(one)
  <2>1. task'[one] = Idle
    BY <1>5 DEF Abort, TypeOK
  <2> QED
    BY <2>1 DEF Alone, UpToDate, Idle
<1>6. CASE Commit(one)
  <2>1. task'[one] = Idle
    BY <1>6 DEF Commit, TypeOK
  <2> QED
    BY <2>1 DEF Alone, UpToDate, Idle
<1>7. ASSUME NEW i \in Invoices,
             \/ Lapse(i) \/ Extend(i) \/ Delete(i)
             \/ \E s \in Statuses : SetStatus(i, s)
      PROVE  Alone'
  BY <1>7 DEF Alone, UpToDate, Lapse, Extend, Delete, SetStatus
<1> QED
  BY <1>1, <1>2, <1>3, <1>4, <1>5, <1>6, <1>7
  DEF Next, Rejected, Fault, CommitRaises

LEMMA AloneHolds ==
    ASSUME NEW one, Workers = {one}
    PROVE  Spec => [](TypeOK /\ Alone)
<1>1. Init => Alone
  BY DEF Init, Alone, UpToDate, Idle
<1> QED
  BY <1>1, AloneStep, JobTypeCorrect, PTL DEF Spec

\* A mail is sent only for an invoice that was selected, is not processed yet
\* and has no reminder_sent_at.
LEMMA OnlyUnflaggedMailed ==
    ASSUME NEW one, Workers = {one}, TypeOK, Alone, [Next]_vars
    PROVE  \/ mails' = mails
           \/ \E i \in Invoices :
                 /\ i \in task[one].todo /\ i \notin reminded
                 /\ task[one].running
                 /\ mails' = [mails EXCEPT ![i] = Up(@)]
                 /\ \/ Process(one, i) /\ NeedsMail(task[one], i)
                    \/ Abort(one)
<1>1. task[one].todo \subseteq Invoices
  BY DEF TypeOK, Tasks
<1>2. \A i \in task[one].todo :
          task[one].running /\ (NeedsMail(task[one], i) => i \notin reminded)
  BY DEF Alone, UpToDate, NeedsMail
<1>3. ASSUME NEW i \in Invoices, Process(one, i)
      PROVE  \/ mails' = mails
             \/ /\ i \in task[one].todo /\ NeedsMail(task[one], i)
                /\ mails' = [mails EXCEPT ![i] = Up(@)]
  BY <1>3 DEF Process
<1>4. CASE Fault(one)
  BY <1>1, <1>2, <1>4 DEF Fault
<1>5. ASSUME \/ UNCHANGED vars \/ Tick
             \/ Start(one) \/ Commit(one) \/ CommitRaises(one)
             \/ \E i \in Invoices :
                   \/ Rejected(one, i) \/ Lapse(i) \/ Extend(i) \/ Delete(i)
                   \/ \E s \in Statuses : SetStatus(i, s)
      PROVE  mails' = mails
  BY <1>5 DEF vars, Tick, Start, Commit, CommitRaises, Rejected, Lapse, Extend,
              Delete, SetStatus
<1> QED
  BY <1>2, <1>3, <1>4, <1>5 DEF Next

\* "overdue invoice email not sent again when previously sent", for every
\* history of one worker process: tasks.py:33 reads a flag nobody else sets.
THEOREM FlaggedStaysSilent ==
    ASSUME NEW one, Workers = {one}
    PROVE  Spec => SilentForGood
<1>1. TypeOK /\ Alone /\ [Next]_vars
      => [\A i \in reminded : mails'[i] = mails[i]]_vars
  <2> SUFFICES ASSUME TypeOK, Alone, [Next]_vars, NEW j \in reminded
               PROVE  mails'[j] = mails[j]
    OBVIOUS
  <2>1. CASE mails' = mails
    BY <2>1
  <2>2. ASSUME NEW i \in Invoices, i \notin reminded,
               mails' = [mails EXCEPT ![i] = Up(@)]
        PROVE  mails'[j] = mails[j]
    BY <2>2 DEF TypeOK
  <2> QED
    BY <2>1, <2>2, OnlyUnflaggedMailed
<1> QED
  BY <1>1, AloneHolds, PTL DEF Spec, SilentForGood

-----------------------------------------------------------------------------
(***************************************************************************)
(* Any number of worker processes.  The mails are counted against the runs *)
(* that failed and those that may still fail.                              *)
(***************************************************************************)
Holding(i) == {w \in Workers : i \in task[w].flagged}

\* nothing selects the invoice any more
Settled(i) == i \in reminded \/ i \notin rows

Orderly(t) == t.todo \cap t.flagged = {} /\ (~ t.running => t.flagged = {})

Sorted == \A w \in Workers : Orderly(task[w])

Reckoned(i) ==
    IF Settled(i)
      THEN mails[i] + Cardinality(Open(i)) <= Cardinality(Workers) + failed
      ELSE mails[i] <= Cardinality(Holding(i)) + failed

Counted == \A i \in Invoices : failed < MaxFailed => Reckoned(i)

LEMMA SortedStep == TypeOK /\ Sorted /\ [Next]_vars => Sorted'
<1> SUFFICES ASSUME TypeOK, Sorted, [Next]_vars, NEW v \in Workers
             PROVE  Orderly(task'[v])
  BY DEF Sorted
<1>1. CASE task'[v] = task[v]
  BY <1>1 DEF Sorted
<1>2. CASE task'[v] = Idle
  BY <1>2 DEF Idle, Orderly
<1>3. CASE Start(v)
  BY <1>3 DEF Start, TypeOK, Orderly
<1>4. ASSUME NEW i \in Invoices, Process(v, i) PROVE Orderly(task'[v])
  <2>1. task'[v] = Processed(task[v], i, NeedsMail(task[v], i))
    BY <1>4 DEF Process, TypeOK
  <2> QED
    BY <2>1 DEF Processed, Sorted, Orderly
<1> QED
  BY <1>1, <1>2, <1>3, <1>4
  DEF Next, vars, TypeOK, Tick, Start, Process, Abort, Rejected, Fault, Commit,
      CommitRaises, Lapse, Extend, Delete, SetStatus

\* the sets of runs are finite, and a run that holds an invoice is not open
LEMMA Runs ==
    ASSUME NEW i \in Invoices
    PROVE  /\ IsFiniteSet(Open(i)) /\ IsFiniteSet(Holding(i))
           /\ Cardinality(Open(i)) \in Nat /\ Cardinality(Holding(i)) \in Nat
           /\ Cardinality(Workers) \in Nat
           /\ Cardinality(Open(i)) <= Cardinality(Workers)
<1>1. Open(i) \subseteq Workers /\ Holding(i) \subseteq Workers
  BY DEF Open, Holding
<1> QED
  BY <1>1, WorkersAssumption, FS_Subset, FS_CardinalityType

LEMMA RunsApart ==
    ASSUME Sorted, NEW i \in Invoices
    PROVE  Cardinality(Holding(i)) + Cardinality(Open(i)) <= Cardinality(Workers)
<1>1. Holding(i) \cap Open(i) = {} /\ Holding(i) \cup Open(i) \subseteq Workers
  BY DEF Sorted, Orderly, Holding, Open
<1>2. Cardinality(Holding(i) \cup Open(i))
      = Cardinality(Holding(i)) + Cardinality(Open(i))
                                - Cardinality(Holding(i) \cap Open(i))
  BY Runs, FS_Union
<1>3. Cardinality(Holding(i) \cap Open(i)) = 0
  BY <1>1, FS_EmptySet
<1>4. Cardinality(Holding(i) \cup Open(i)) <= Cardinality(Workers)
  BY <1>1, WorkersAssumption, FS_Subset
<1> QED
  BY <1>2, <1>3, <1>4, Runs

LEMMA OneLess ==
    ASSUME NEW S, IsFiniteSet(S), NEW x
    PROVE  LET n == Cardinality(S) m == Cardinality(S \ {x}) IN
           /\ n \in Nat /\ m \in Nat /\ m <= n /\ n <= m + 1
           /\ (x \in S => n = m + 1) /\ (x \notin S => n = m)
<1>1. Cardinality(S) \in Nat /\ Cardinality(S \ {x}) \in Nat
  BY FS_RemoveElement, FS_CardinalityType
<1>2. Cardinality(S \ {x}) = IF x \in S THEN Cardinality(S) - 1 ELSE Cardinality(S)
  BY FS_RemoveElement
<1> QED
  BY <1>1, <1>2

\* a step that mails nothing for j and ends no run early
LEMMA QuietStep ==
    ASSUME TypeOK, TypeOK', Sorted, NEW j \in Invoices, Reckoned(j),
           mails'[j] = mails[j], failed' = failed, Settled(j) => Settled(j)',
           Settled(j)' => Open(j)' \subseteq Open(j),
           ~ Settled(j)' => Holding(j) \subseteq Holding(j)'
    PROVE  Reckoned(j)'
<1>1. mails[j] \in Nat /\ failed \in Nat
  BY BoundsAssumption DEF TypeOK
<1>2. IsFiniteSet(Holding(j)') /\ Cardinality(Holding(j)') \in Nat
  <2>1. Holding(j)' \subseteq Workers
    BY DEF Holding
  <2> QED
    BY <2>1, WorkersAssumption, FS_Subset, FS_CardinalityType
<1>3. CASE Settled(j)'
  <2>1. Cardinality(Open(j)') \in Nat /\ Cardinality(Open(j)') <= Cardinality(Open(j))
    BY <1>3, Runs, FS_Subset, FS_CardinalityType
  <2>2. CASE Settled(j)
    BY <1>1, <1>3, <2>1, <2>2, Runs DEF Reckoned
  <2>3. CASE ~ Settled(j)
    <3>1. mails[j] <= Cardinality(Holding(j)) + failed
      BY <2>3 DEF Reckoned
    <3> QED
      BY <1>1, <1>3, <2>1, <3>1, Runs, RunsApart DEF Reckoned
  <2> QED
    BY <2>2, <2>3
<1>4. CASE ~ Settled(j)'
  <2>1. Cardinality(Holding(j)) <= Cardinality(Holding(j)')
    BY <1>2, <1>4, FS_Subset
  <2>2. mails[j] <= Cardinality(Holding(j)) + failed
    BY <1>4 DEF Reckoned
  <2> QED
    BY <1>1, <1>2, <1>4, <2>1, <2>2, Runs DEF Reckoned
<1> QED
  BY <1>3, <1>4

\* a mail moves its run from the open ones to those that hold the invoice
LEMMA MailStep ==
    ASSUME TypeOK, Sorted, NEW w \in Workers, NEW j \in Invoices, Reckoned(j),
           Process(w, j), NeedsMail(task[w], j)
    PROVE  Reckoned(j)'
<1>1. mails[j] \in 0..MaxCount /\ failed \in Nat
  BY BoundsAssumption DEF TypeOK
<1>2. mails'[j] \in Nat /\ mails'[j] <= mails[j] + 1 /\ failed' = failed
  BY <1>1, UpType, BoundsAssumption DEF TypeOK, Process
<1>3. task' = [task EXCEPT ![w] = Processed(task[w], j, TRUE)]
  <2>1. NeedsMail(task[w], j) = TRUE
    BY DEF NeedsMail
  <2> QED
    BY <2>1 DEF Process
<1>4. /\ task'[w].todo = task[w].todo \ {j}
      /\ task'[w].flagged = task[w].flagged \cup {j}
      /\ \A v \in Workers \ {w} : task'[v] = task[v]
  BY <1>3 DEF TypeOK, Processed
<1>5. w \in Open(j) /\ w \notin Holding(j)
  BY DEF Open, Holding, Process, NeedsMail, Sorted, Orderly
<1>6. Open(j)' = Open(j) \ {w}
  BY <1>4, <1>3 DEF Open, Processed, TypeOK
<1>7. Holding(j)' = Holding(j) \cup {w}
  BY <1>4 DEF Holding
<1>8. /\ Cardinality(Open(j)') = Cardinality(Open(j)) - 1
      /\ Cardinality(Holding(j)') = Cardinality(Holding(j)) + 1
  <2>1. Cardinality(Open(j)) = Cardinality(Open(j) \ {w}) + 1
    BY <1>5, Runs, OneLess
  <2>2. Cardinality(Holding(j) \cup {w}) = Cardinality(Holding(j)) + 1
    BY <1>5, Runs, FS_AddElement
  <2>3. Cardinality(Open(j) \ {w}) \in Nat
    BY Runs, OneLess
  <2> QED
    BY <1>6, <1>7, <2>1, <2>2, <2>3
<1>9. Settled(j)' = Settled(j)
  BY DEF Settled, Process, invoices
<1> QED
  BY <1>1, <1>2, <1>8, <1>9, Runs DEF Reckoned

\* a run that fails pays for the mail it has sent, or for its last one
LEMMA AbortStep ==
    ASSUME TypeOK, Sorted, NEW w \in Workers, NEW j \in Invoices, Reckoned(j),
           Abort(w), failed < MaxFailed,
           \/ mails'[j] = mails[j]
           \/ mails'[j] = Up(mails[j]) /\ w \in Open(j)
    PROVE  Reckoned(j)'
<1>1. mails[j] \in 0..MaxCount /\ failed \in Nat /\ failed' = failed + 1
  BY BoundsAssumption DEF TypeOK, Abort
<1>2. mails'[j] \in Nat /\ mails'[j] <= mails[j] + 1
  BY <1>1, UpType, BoundsAssumption
<1>3. task'[w] = Idle /\ \A v \in Workers \ {w} : task'[v] = task[v]
  BY DEF Abort, TypeOK
<1>4. Open(j)' = Open(j) \ {w} /\ Holding(j)' = Holding(j) \ {w}
  BY <1>3 DEF Open, Holding, Idle
<1>5. w \in Open(j) => w \notin Holding(j)
  BY DEF Open, Holding, Sorted, Orderly
<1>6. Settled(j)' = Settled(j)
  BY DEF Settled, Abort, invoices
<1>7. LET n == Cardinality(Open(j)) m == Cardinality(Open(j)') IN
      n \in Nat /\ m \in Nat /\ m <= n /\ (w \in Open(j) => n = m + 1)
  <2>1. LET n == Cardinality(Open(j)) m == Cardinality(Open(j) \ {w}) IN
        n \in Nat /\ m \in Nat /\ m <= n /\ (w \in Open(j) => n = m + 1)
    BY Runs, OneLess
  <2> QED
    BY <1>4, <2>1
<1>8. LET n == Cardinality(Holding(j)) m == Cardinality(Holding(j)') IN
      n \in Nat /\ m \in Nat /\ n <= m + 1 /\ (w \notin Holding(j) => n = m)
  <2>1. LET n == Cardinality(Holding(j)) m == Cardinality(Holding(j) \ {w}) IN
        n \in Nat /\ m \in Nat /\ n <= m + 1 /\ (w \notin Holding(j) => n = m)
    BY Runs, OneLess
  <2> QED
    BY <1>4, <2>1
<1>9. CASE mails'[j] = mails[j]
  BY <1>1, <1>2, <1>6, <1>7, <1>8, <1>9, Runs DEF Reckoned
<1>10. CASE w \in Open(j)
  BY <1>1, <1>2, <1>5, <1>6, <1>7, <1>8, <1>10, Runs DEF Reckoned
<1> QED
  BY <1>9, <1>10

LEMMA CountedStep ==
    TypeOK /\ TypeOK' /\ Sorted /\ Counted /\ [Next]_vars => Counted'
<1> SUFFICES ASSUME TypeOK, TypeOK', Sorted, Counted, [Next]_vars,
                    NEW j \in Invoices, failed' < MaxFailed
             PROVE  Reckoned(j)'
  BY DEF Counted
<1>1. ASSUME NEW w \in Workers, Abort(w) PROVE failed < MaxFailed
  BY <1>1, BoundsAssumption DEF Abort, TypeOK
<1>2. failed < MaxFailed /\ Reckoned(j)
  <2>1. (\E w \in Workers : Abort(w)) \/ failed' = failed
    BY DEF Next, vars, Tick, Start, Process, Rejected, Fault, Commit,
           CommitRaises, Lapse, Extend, Delete, SetStatus
  <2> QED
    BY <1>1, <2>1 DEF Counted
<1>3. CASE UNCHANGED vars \/ Tick
  BY <1>2, <1>3, QuietStep
  DEF vars, Tick, invoices, Settled, Open, Holding
<1>4. ASSUME NEW w \in Workers, Start(w) PROVE Reckoned(j)'
  <2>1. /\ task'[w].todo = {i \in Invoices : Selects(i)}
        /\ task'[w].silent = reminded
        /\ \A v \in Workers \ {w} : task'[v] = task[v]
    BY <1>4 DEF Start, TypeOK
  <2>2. task[w].flagged = {}
    BY <1>4 DEF Start, Sorted, Orderly
  <2>3. Settled(j)' = Settled(j) /\ mails' = mails /\ failed' = failed
    BY <1>4 DEF Settled, Start, invoices
  <2>4. Settled(j) => Open(j)' \subseteq Open(j)
    BY <2>1 DEF Settled, Open, Selects
  <2>5. Holding(j) \subseteq Holding(j)'
    BY <2>1, <2>2 DEF Holding
  <2> QED
    BY <1>2, <2>3, <2>4, <2>5, QuietStep
<1>5. ASSUME NEW w \in Workers, NEW i \in Invoices, Process(w, i)
      PROVE  Reckoned(j)'
  <2>1. CASE i = j /\ NeedsMail(task[w], i)
    BY <1>2, <1>5, <2>1, MailStep
  <2>2. CASE ~ (i = j /\ NeedsMail(task[w], i))
    <3>1. mails'[j] = mails[j] /\ failed' = failed
      BY <1>5, <2>2 DEF Process, TypeOK
    <3>2. task' = [task EXCEPT ![w] = Processed(task[w], i, NeedsMail(task[w], i))]
      BY <1>5 DEF Process
    <3>3. /\ task'[w].todo \subseteq task[w].todo
          /\ task[w].flagged \subseteq task'[w].flagged
          /\ task'[w].silent = task[w].silent
          /\ \A v \in Workers \ {w} : task'[v] = task[v]
      BY <3>2 DEF Processed, TypeOK
    <3>4. Settled(j)' = Settled(j)
      BY <1>5 DEF Settled, Process, invoices
    <3>5. Open(j)' \subseteq Open(j) /\ Holding(j) \subseteq Holding(j)'
      BY <3>3 DEF Open, Holding
    <3> QED
      BY <1>2, <3>1, <3>4, <3>5, QuietStep
  <2> QED
    BY <2>1, <2>2
<1>6. ASSUME NEW w \in Workers,
             \/ CommitRaises(w)
             \/ \E i \in Invoices : Rejected(w, i)
      PROVE  Reckoned(j)'
  <2>1. Abort(w) /\ mails' = mails
    BY <1>6 DEF CommitRaises, Rejected
  <2> QED
    BY <1>2, <2>1, AbortStep
<1>7. ASSUME NEW w \in Workers, Fault(w) PROVE Reckoned(j)'
  <2>1. \/ mails'[j] = mails[j]
        \/ mails'[j] = Up(mails[j]) /\ w \in Open(j)
    BY <1>7 DEF Fault, Open, NeedsMail, TypeOK
  <2> QED
    BY <1>2, <1>7, <2>1, AbortStep DEF Fault
<1>8. ASSUME NEW w \in Workers, Commit(w) PROVE Reckoned(j)'
  <2>1. task'[w] = Idle /\ \A v \in Workers \ {w} : task'[v] = task[v]
    BY <1>8 DEF Commit, TypeOK
  <2>2. reminded' = reminded \cup (task[w].flagged \cap rows) /\ rows' = rows
    BY <1>8 DEF Commit, Flags
  <2>3. Settled(j) => Settled(j)'
    BY <2>2 DEF Settled
  <2>4. Open(j)' \subseteq Open(j)
    BY <2>1 DEF Open, Idle
  <2>5. ~ Settled(j)' => Holding(j) \subseteq Holding(j)'
    BY <2>1, <2>2 DEF Settled, Holding
  <2> QED
    BY <1>2, <1>8, <2>3, <2>4, <2>5, QuietStep DEF Commit
<1>9. ASSUME NEW i \in Invoices,
             \/ Lapse(i) \/ Extend(i) \/ Delete(i)
             \/ \E s \in Statuses : SetStatus(i, s)
      PROVE  Reckoned(j)'
  <2>1. /\ task' = task /\ mails' = mails /\ failed' = failed
        /\ reminded' = reminded /\ rows' \subseteq rows
    BY <1>9 DEF Lapse, Extend, Delete, SetStatus
  <2> QED
    BY <1>2, <2>1, QuietStep DEF Settled, Open, Holding
<1> QED
  BY <1>3, <1>4, <1>5, <1>6, <1>7, <1>8, <1>9 DEF Next

\* One reminder per invoice and worker process at most, and one more per failed
\* run, whatever users do to the invoices and however runs overlap
\* (tasks.py:28-36).
THEOREM FailuresPayForExtras == Spec => []ExtraOnlyAfterFailure
<1>1. Init => Sorted /\ Counted
  <2> SUFFICES ASSUME Init PROVE Sorted /\ Counted
    OBVIOUS
  <2>1. \A w \in Workers : task[w] = Idle
    BY DEF Init
  <2>2. Sorted
    BY <2>1 DEF Sorted, Orderly, Idle
  <2>3. ASSUME NEW i \in Invoices PROVE Reckoned(i)
    <3>1. mails[i] = 0 /\ failed = 0
      BY DEF Init
    <3> QED
      BY <3>1, Runs DEF Reckoned
  <2> QED
    BY <2>2, <2>3 DEF Counted
<1>2. TypeOK /\ Sorted /\ Counted => ExtraOnlyAfterFailure
  <2> SUFFICES ASSUME TypeOK, Sorted, Counted, NEW i \in Invoices
               PROVE  mails[i] <= Cardinality(Workers) + failed
    BY DEF ExtraOnlyAfterFailure
  <2>1. mails[i] \in 0..MaxCount /\ failed \in 0..MaxFailed
    BY DEF TypeOK
  <2>2. CASE failed = MaxFailed
    BY <2>1, <2>2, Runs, BoundsAssumption, SaturationAssumption
  <2>3. CASE failed < MaxFailed
    <3>1. Reckoned(i)
      BY <2>3 DEF Counted
    <3> QED
      BY <2>1, <3>1, Runs, RunsApart, BoundsAssumption DEF Reckoned
  <2> QED
    BY <2>1, <2>2, <2>3, BoundsAssumption
<1> QED
  BY <1>1, <1>2, SortedStep, CountedStep, JobTypeCorrect, PTL DEF Spec

\* "overdue invoice email not sent again when previously sent", with any number
\* of worker processes: after a committed reminder_sent_at only runs that had
\* selected the invoice before still mail (tasks.py:33), each of them once.
THEOREM OnlyOpenRunsMail == Spec => SilentOnceFlagged
<1>1. TypeOK /\ [Next]_vars
      => [\A i \in reminded :
             mails'[i] + Cardinality(Open(i)') <= mails[i] + Cardinality(Open(i))]_vars
  <2> SUFFICES ASSUME TypeOK, [Next]_vars, NEW j \in reminded
               PROVE  mails'[j] + Cardinality(Open(j)')
                      <= mails[j] + Cardinality(Open(j))
    OBVIOUS
  <2>1. j \in Invoices /\ mails[j] \in 0..MaxCount /\ MaxCount \in Nat
    BY BoundsAssumption DEF TypeOK
  <2>2. ASSUME mails'[j] = mails[j], Open(j)' \subseteq Open(j)
        PROVE  mails'[j] + Cardinality(Open(j)') <= mails[j] + Cardinality(Open(j))
    <3>1. Cardinality(Open(j)') \in Nat /\ Cardinality(Open(j)') <= Cardinality(Open(j))
      BY <2>1, <2>2, Runs, FS_Subset, FS_CardinalityType
    <3> QED
      BY <2>1, <2>2, <3>1, Runs
  <2>3. ASSUME NEW w \in Open(j), mails'[j] = Up(mails[j]), Open(j)' = Open(j) \ {w}
        PROVE  mails'[j] + Cardinality(Open(j)') <= mails[j] + Cardinality(Open(j))
    <3>1. LET n == Cardinality(Open(j)) m == Cardinality(Open(j)') IN
          n \in Nat /\ m \in Nat /\ n = m + 1
      <4>1. LET n == Cardinality(Open(j)) m == Cardinality(Open(j) \ {w}) IN
            n \in Nat /\ m \in Nat /\ n = m + 1
        BY <2>1, Runs, OneLess
      <4> QED
        BY <2>3, <4>1
    <3>2. mails'[j] \in Nat /\ mails'[j] <= mails[j] + 1
      BY <2>1, <2>3, UpType
    <3> QED
      BY <2>1, <3>1, <3>2
  <2>4. CASE UNCHANGED vars \/ Tick
    BY <2>2, <2>4 DEF vars, Tick, Open
  <2>5. ASSUME NEW w \in Workers, Start(w)
        PROVE  mails'[j] = mails[j] /\ Open(j)' \subseteq Open(j)
    <3>1. /\ task'[w].silent = reminded
          /\ \A v \in Workers \ {w} : task'[v] = task[v]
      BY <2>5 DEF Start, TypeOK
    <3> QED
      BY <2>5, <3>1 DEF Start, Open
  <2>6. ASSUME NEW w \in Workers, Abort(w)
        PROVE  Open(j)' = Open(j) \ {w}
    BY <2>6 DEF Abort, TypeOK, Open, Idle
  <2>7. ASSUME NEW w \in Workers, Fault(w)
        PROVE  mails'[j] + Cardinality(Open(j)') <= mails[j] + Cardinality(Open(j))
    <3>1. \/ mails'[j] = mails[j]
          \/ mails'[j] = Up(mails[j]) /\ w \in Open(j)
      BY <2>1, <2>7 DEF Fault, Open, NeedsMail, TypeOK
    <3> QED
      BY <2>2, <2>3, <2>6, <2>7, <3>1 DEF Fault
  <2>8. ASSUME NEW w \in Workers,
               CommitRaises(w) \/ \E i \in Invoices : Rejected(w, i)
        PROVE  mails'[j] = mails[j] /\ Open(j)' \subseteq Open(j)
    BY <2>6, <2>8 DEF Rejected, CommitRaises
  <2>9. ASSUME NEW w \in Workers, NEW i \in Invoices, Process(w, i)
        PROVE  mails'[j] + Cardinality(Open(j)') <= mails[j] + Cardinality(Open(j))
    <3>1. task' = [task EXCEPT ![w] = Processed(task[w], i, NeedsMail(task[w], i))]
      BY <2>9 DEF Process
    <3>2. /\ task'[w].todo = task[w].todo \ {i}
          /\ task'[w].silent = task[w].silent
          /\ \A v \in Workers \ {w} : task'[v] = task[v]
      BY <3>1 DEF Processed, TypeOK
    <3>3. CASE i = j /\ NeedsMail(task[w], i)
      <4>1. w \in Open(j) /\ Open(j)' = Open(j) \ {w}
        BY <2>9, <3>2, <3>3 DEF Process, Open, NeedsMail
      <4>2. mails'[j] = Up(mails[j])
        BY <2>1, <2>9, <3>3 DEF Process, TypeOK
      <4> QED
        BY <2>3, <4>1, <4>2
    <3>4. CASE ~ (i = j /\ NeedsMail(task[w], i))
      <4>1. mails'[j] = mails[j]
        BY <2>1, <2>9, <3>4 DEF Process, TypeOK
      <4>2. Open(j)' \subseteq Open(j)
        BY <3>2 DEF Open
      <4> QED
        BY <2>2, <4>1, <4>2
    <3> QED
      BY <3>3, <3>4
  <2>10. ASSUME NEW w \in Workers, Commit(w)
         PROVE  mails'[j] = mails[j] /\ Open(j)' \subseteq Open(j)
    BY <2>10 DEF Commit, Open, Idle, TypeOK
  <2>11. ASSUME NEW i \in Invoices,
                \/ Lapse(i) \/ Extend(i) \/ Delete(i)
                \/ \E s \in Statuses : SetStatus(i, s)
         PROVE  mails'[j] = mails[j] /\ Open(j)' \subseteq Open(j)
    BY <2>11 DEF Lapse, Extend, Delete, SetStatus, Open
  <2> QED
    BY <2>2, <2>4, <2>5, <2>7, <2>8, <2>9, <2>10, <2>11 DEF Next
<1> QED
  BY <1>1, JobTypeCorrect, PTL DEF Spec, SilentOnceFlagged

=============================================================================
