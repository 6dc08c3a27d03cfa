------------------------ MODULE InvoiceDispatchProofs ------------------------
(***************************************************************************)
(* The dispatch of mails for any number of handlers, workers, sendings and *)
(* faults.                                                                 *)
(***************************************************************************)
EXTENDS InvoiceDispatch, FiniteSetTheorems, TLAPS

Handlers == [at : {"idle", "loaded", "committed", "refreshed"},
             draft : BOOLEAN, send : SUBSET Sends]
Jobs == [at : {"idle", "taken", "loaded", "mailed"}, send : SUBSET Sends]

LEMMA GotoType ==
    ASSUME TypeOK, NEW r \in Requests,
           NEW at \in {"idle", "loaded", "committed", "refreshed"},
           NEW isDraft \in BOOLEAN, NEW send \in SUBSET Sends,
           Goto(r, at, isDraft, send)
    PROVE  /\ request' \in [Requests -> Handlers]
           /\ request'[r].send = send
           /\ \A q \in Requests \ {r} : request'[q] = request[q]
<1>1. [at |-> at, draft |-> isDraft, send |-> send] \in Handlers
  BY DEF Handlers
<1>2. request \in [Requests -> Handlers]
  BY DEF TypeOK, Handlers
<1> QED
  BY <1>1, <1>2 DEF Goto

LEMMA JobType ==
    ASSUME TypeOK, NEW w \in Workers, NEW new \in Jobs,
           job' = [job EXCEPT ![w] = new]
    PROVE  /\ job' \in [Workers -> Jobs]
           /\ job'[w] = new
           /\ \A v \in Workers \ {w} : job'[v] = job[v]
BY DEF TypeOK, Jobs

LEMMA NoJobType == NoJob \in Jobs
BY DEF NoJob, Jobs

LEMMA MovesType ==
    ASSUME TypeOK, NEW w \in Workers, NEW from,
           NEW to \in {"taken", "loaded", "mailed"}, Moves(w, from, to)
    PROVE  /\ job' \in [Workers -> Jobs]
           /\ job'[w] = [at |-> to, send |-> job[w].send]
           /\ \A v \in Workers \ {w} : job'[v] = job[v]
<1>1. [at |-> to, send |-> job[w].send] \in Jobs
  BY DEF TypeOK, Jobs
<1> QED
  BY <1>1, JobType DEF Moves

LEMMA PlusType ==
    ASSUME NEW count \in [Sends -> Nat], NEW held
    PROVE  /\ Plus(count, held) \in [Sends -> Nat]
           /\ \A s \in Sends : Plus(count, held)[s] =
                                 IF s \in held THEN count[s] + 1 ELSE count[s]
BY DEF Plus

LEMMA TypeStep == TypeOK /\ [Next]_vars => TypeOK'
<1> SUFFICES ASSUME TypeOK, [Next]_vars PROVE TypeOK'
  OBVIOUS
<1> USE FaultsAssumption
<1>1. CASE UNCHANGED vars
  BY <1>1 DEF TypeOK, vars
<1>2. ASSUME NEW r \in Requests, Load(r) PROVE TypeOK'
  <2>1. request' \in [Requests -> Handlers]
    BY <1>2, GotoType DEF TypeOK, Load
  <2> QED
    BY <1>2, <2>1 DEF TypeOK, Load, Handlers, invoice, history
<1>3. ASSUME NEW r \in Requests,
             TurnAway(r) \/ RefreshRaises(r) \/ Publish(r) \/ HandlerFault(r)
      PROVE  TypeOK'
  <2>1. Goto(r, "idle", FALSE, {})
    BY <1>3 DEF TurnAway, RefreshRaises, Publish, HandlerFault
  <2>2. request' \in [Requests -> Handlers]
    <3>1. [at |-> "idle", draft |-> FALSE, send |-> {}] \in Handlers
      BY DEF Handlers
    <3> QED
      BY <2>1, <3>1 DEF TypeOK, Goto, Handlers
  <2>3. UNCHANGED <<job, mails, sent, again>> /\ UNCHANGED invoice
    BY <1>3
    DEF TurnAway, RefreshRaises, Publish, HandlerFault, history, invoice
  <2>4. /\ queue' = queue \/ queue' = Plus(queue, request[r].send)
        /\ lost' = lost \/ lost' = Plus(lost, request[r].send)
    BY <1>3
    DEF TurnAway, RefreshRaises, Publish, HandlerFault, history
  <2>5. queue' \in [Sends -> Nat] /\ lost' \in [Sends -> Nat]
    BY <2>4, PlusType DEF TypeOK
  <2>6. faults' = faults \/ (faults < MaxFaults /\ faults' = faults + 1)
    BY <1>3
    DEF TurnAway, RefreshRaises, Publish, HandlerFault, history, Breaks
  <2>7. faults' \in 0..MaxFaults
    BY <2>6 DEF TypeOK
  <2> QED
    BY <2>2, <2>3, <2>5, <2>7 DEF TypeOK, Handlers, invoice
<1>4. ASSUME NEW r \in Requests, Commit(r) PROVE TypeOK'
  <2>1. PICK s \in Sends \ sent :
            /\ Goto(r, "committed", FALSE, {s})
            /\ sent' = sent \cup {s}
    BY <1>4 DEF Commit
  <2>2. {s} \in SUBSET Sends
    OBVIOUS
  <2>3. [at |-> "committed", draft |-> FALSE, send |-> {s}] \in Handlers
    BY <2>2 DEF Handlers
  <2>4. request' \in [Requests -> Handlers]
    BY <2>1, <2>3 DEF TypeOK, Goto, Handlers
  <2> QED
    BY <1>4, <2>1, <2>4 DEF TypeOK, Commit, Handlers
<1>5. ASSUME NEW r \in Requests, Refresh(r) PROVE TypeOK'
  <2>1. request[r].send \in SUBSET Sends
    BY DEF TypeOK
  <2>2. request' \in [Requests -> Handlers]
    BY <1>5, <2>1, GotoType DEF Refresh
  <2> QED
    BY <1>5, <2>2 DEF TypeOK, Refresh, Handlers, invoice, history
<1>6. ASSUME NEW w \in Workers, Take(w) PROVE TypeOK'
  <2>1. PICK s \in Sends :
            /\ queue[s] > 0
            /\ queue' = [queue EXCEPT ![s] = @ - 1]
            /\ job' = [job EXCEPT ![w] = [at |-> "taken", send |-> {s}]]
    BY <1>6 DEF Take
  <2>2. [at |-> "taken", send |-> {s}] \in Jobs
    BY DEF Jobs
  <2>3. job' \in [Workers -> Jobs]
    BY <2>1, <2>2, JobType
  <2>4. queue' \in [Sends -> Nat]
    BY <2>1 DEF TypeOK
  <2> QED
    BY <1>6, <2>3, <2>4 DEF TypeOK, Take, Jobs, invoice, history
<1>7. ASSUME NEW w \in Workers, LoadInvoice(w) PROVE TypeOK'
  <2>1. job' \in [Workers -> Jobs]
    BY <1>7, MovesType DEF LoadInvoice
  <2> QED
    BY <1>7, <2>1 DEF TypeOK, LoadInvoice, Jobs, invoice, history
<1>8. ASSUME NEW w \in Workers, Mail(w) PROVE TypeOK'
  <2>1. job' \in [Workers -> Jobs]
    BY <1>8, MovesType DEF Mail
  <2>2. mails' \in [Sends -> Nat]
    BY <1>8, PlusType DEF TypeOK, Mail
  <2> QED
    BY <1>8, <2>1, <2>2 DEF TypeOK, Mail, Jobs, invoice, history
<1>9. ASSUME NEW w \in Workers, NotFound(w) \/ Finish(w) \/ WorkerFault(w)
      PROVE  TypeOK'
  <2>1. job' \in [Workers -> Jobs]
    BY <1>9, JobType, NoJobType DEF NotFound, Finish, WorkerFault
  <2>2. /\ lost' = lost \/ \E held : lost' = Plus(lost, held)
        /\ UNCHANGED <<queue, again>>
    BY <1>9 DEF NotFound, Finish, WorkerFault, Crash, history
  <2>3. lost' \in [Sends -> Nat]
    BY <2>2, PlusType DEF TypeOK
  <2>4. faults' \in 0..MaxFaults
    BY <1>9 DEF TypeOK, NotFound, Finish, WorkerFault, Breaks, history
  <2> QED
    BY <1>9, <2>1, <2>2, <2>3, <2>4
    DEF TypeOK, NotFound, Finish, WorkerFault, Jobs, invoice, history
<1>11. ASSUME NEW held,
              queue' = Plus(queue, held), again' = Plus(again, held), Breaks,
              UNCHANGED <<invoice, request, job, mails, sent, lost>>
       PROVE  TypeOK'
  <2>1. queue' \in [Sends -> Nat] /\ again' \in [Sends -> Nat]
    BY <1>11, PlusType DEF TypeOK
  <2>2. faults' \in 0..MaxFaults
    BY <1>11 DEF TypeOK, Breaks
  <2> QED
    BY <1>11, <2>1, <2>2 DEF TypeOK, invoice
<1>12. CASE \/ \E r \in Requests : LoseReply(r)
            \/ \E s \in Sends : Redeliver(s)
  BY <1>11, <1>12 DEF LoseReply, Redeliver
<1>10. CASE Edit \/ Delete
  BY <1>10 DEF TypeOK, Edit, Delete, history
<1> QED
  BY <1>1, <1>2, <1>3, <1>4, <1>5, <1>6, <1>7, <1>8, <1>9, <1>10,
     <1>12
  DEF Next, Handler, Worker

\* Every reachable state of the handlers, the broker and the workers is
\* well-typed.
THEOREM DispatchTypeCorrect == Spec => []TypeOK
<1>1. Init => TypeOK
  BY FaultsAssumption DEF Init, TypeOK, NoRequest, NoJob, Zero
<1> QED
  BY <1>1, TypeStep, PTL DEF Spec


-----------------------------------------------------------------------------
(***************************************************************************)
(* Counting.  The mails to come of a sending are counted over handlers,    *)
(* broker and workers; a step of one of these changes its share only.      *)
(***************************************************************************)
Bit(yes) == IF yes THEN 1 ELSE 0

LEMMA CountOfOthers ==
    ASSUME NEW S, IsFiniteSet(S), NEW x \in S, NEW A \in SUBSET S, NEW B \in SUBSET S,
           \A y \in S \ {x} : y \in A <=> y \in B
    PROVE  /\ Cardinality(A) \in Nat /\ Cardinality(B) \in Nat
           /\ Cardinality(B) = Cardinality(A) + Bit(x \in B) - Bit(x \in A)
<1>1. IsFiniteSet(A) /\ IsFiniteSet(B)
  BY FS_Subset
<1>2. Cardinality(A) \in Nat /\ Cardinality(B) \in Nat
  BY <1>1, FS_CardinalityType
<1>3. A \ {x} = B \ {x}
  OBVIOUS
<1>4. Cardinality(A \ {x}) = Cardinality(A) - Bit(x \in A)
  <2>1. Cardinality(A \ {x}) = IF x \in A THEN Cardinality(A) - 1 ELSE Cardinality(A)
    BY <1>1, FS_RemoveElement
  <2> QED
    BY <1>2, <2>1 DEF Bit
<1>5. Cardinality(B \ {x}) = Cardinality(B) - Bit(x \in B)
  <2>1. Cardinality(B \ {x}) = IF x \in B THEN Cardinality(B) - 1 ELSE Cardinality(B)
    BY <1>1, FS_RemoveElement
  <2> QED
    BY <1>2, <2>1 DEF Bit
<1>6. Cardinality(A) - Bit(x \in A) = Cardinality(B) - Bit(x \in B)
  BY <1>3, <1>4, <1>5
<1>7. Bit(x \in A) \in Nat /\ Bit(x \in B) \in Nat
  BY DEF Bit
<1> QED
  BY <1>2, <1>6, <1>7

LEMMA DueType ==
    ASSUME TypeOK, NEW s \in Sends
    PROVE  /\ Cardinality({r \in Requests : s \in request[r].send}) \in Nat
           /\ Cardinality({w \in Workers : s \in Unmailed(w)}) \in Nat
           /\ queue[s] \in Nat /\ Due(s) \in Nat
<1>1. /\ IsFiniteSet({r \in Requests : s \in request[r].send})
      /\ IsFiniteSet({w \in Workers : s \in Unmailed(w)})
  BY ProcessesAssumption, FS_Subset
<1>2. /\ Cardinality({r \in Requests : s \in request[r].send}) \in Nat
      /\ Cardinality({w \in Workers : s \in Unmailed(w)}) \in Nat
  BY <1>1, FS_CardinalityType
<1>3. queue[s] \in Nat
  BY DEF TypeOK
<1> QED
  BY <1>2, <1>3 DEF Due

\* what a process or the broker holds is due
LEMMA HeldIsDue ==
    ASSUME TypeOK, NEW s \in Sends,
           \/ \E r \in Requests : s \in request[r].send
           \/ queue[s] > 0
           \/ \E w \in Workers : s \in Unmailed(w)
    PROVE  Due(s) > 0
<1> DEFINE H == {r \in Requests : s \in request[r].send}
           W == {w \in Workers : s \in Unmailed(w)}
<1>1. IsFiniteSet(H) /\ IsFiniteSet(W)
  BY ProcessesAssumption, FS_Subset
<1>2. H # {} \/ queue[s] > 0 \/ W # {}
  OBVIOUS
<1>3. (H # {} => Cardinality(H) # 0) /\ (W # {} => Cardinality(W) # 0)
  BY <1>1, FS_EmptySet
<1>4. Cardinality(H) \in Nat /\ Cardinality(W) \in Nat /\ queue[s] \in Nat
  BY DueType
<1>5. Due(s) = Cardinality(H) + queue[s] + Cardinality(W)
  BY DEF Due
<1> HIDE DEF H, W
<1> QED
  BY <1>2, <1>3, <1>4, <1>5

LEMMA DueOfHandler ==
    ASSUME TypeOK, TypeOK', NEW r \in Requests, UNCHANGED job,
           \A q \in Requests \ {r} : request'[q] = request[q], NEW s \in Sends
    PROVE  Due(s)' = Due(s) + Bit(s \in request'[r].send) - Bit(s \in request[r].send)
                            + queue'[s] - queue[s]
<1> DEFINE H == {q \in Requests : s \in request[q].send}
           G == {q \in Requests : s \in request'[q].send}
           W == {w \in Workers : s \in Unmailed(w)}
<1>1. /\ Cardinality(H) \in Nat /\ Cardinality(G) \in Nat
      /\ Cardinality(G) = Cardinality(H) + Bit(r \in G) - Bit(r \in H)
  <2>1. H \in SUBSET Requests /\ G \in SUBSET Requests
    OBVIOUS
  <2>2. \A q \in Requests \ {r} : q \in H <=> q \in G
    OBVIOUS
  <2> HIDE DEF H, G
  <2> QED
    BY <2>1, <2>2, ProcessesAssumption, CountOfOthers
<1>2. (r \in G) = (s \in request'[r].send) /\ (r \in H) = (s \in request[r].send)
  OBVIOUS
<1>3. W' = W
  BY DEF Unmailed
<1>4. Due(s) = Cardinality(H) + queue[s] + Cardinality(W)
  BY DEF Due
<1>5. Due(s)' = Cardinality(G) + queue'[s] + Cardinality(W)'
  BY DEF Due
<1>6. Cardinality(W)' = Cardinality(W)
  BY <1>3
<1>7. Cardinality(W) \in Nat /\ queue[s] \in Nat /\ queue'[s] \in Nat
  BY DueType DEF TypeOK
<1> HIDE DEF H, G, W
<1> QED
  BY <1>1, <1>2, <1>4, <1>5, <1>6, <1>7 DEF Bit

LEMMA DueOfWorker ==
    ASSUME TypeOK, TypeOK', NEW w \in Workers, UNCHANGED request,
           \A v \in Workers \ {w} : job'[v] = job[v], NEW s \in Sends
    PROVE  Due(s)' = Due(s) + Bit(s \in Unmailed(w)') - Bit(s \in Unmailed(w))
                            + queue'[s] - queue[s]
<1> DEFINE H == {q \in Requests : s \in request[q].send}
           W == {v \in Workers : s \in Unmailed(v)}
           V == {v \in Workers : s \in Unmailed(v)'}
<1>1. /\ Cardinality(W) \in Nat /\ Cardinality(V) \in Nat
      /\ Cardinality(V) = Cardinality(W) + Bit(w \in V) - Bit(w \in W)
  <2>1. W \in SUBSET Workers /\ V \in SUBSET Workers
    OBVIOUS
  <2>2. \A v \in Workers \ {w} : v \in W <=> v \in V
    BY DEF Unmailed
  <2> HIDE DEF W, V
  <2> QED
    BY <2>1, <2>2, ProcessesAssumption, CountOfOthers
<1>2. (w \in V) = (s \in Unmailed(w)') /\ (w \in W) = (s \in Unmailed(w))
  OBVIOUS
<1>3. Cardinality(H)' = Cardinality(H)
  OBVIOUS
<1>4. Due(s) = Cardinality(H) + queue[s] + Cardinality(W)
  BY DEF Due
<1>5. Due(s)' = Cardinality(H)' + queue'[s] + Cardinality(V)
  BY DEF Due
<1>6. Cardinality(H) \in Nat /\ queue[s] \in Nat /\ queue'[s] \in Nat
  BY DueType DEF TypeOK
<1> HIDE DEF H, V, W
<1> QED
  BY <1>1, <1>2, <1>3, <1>4, <1>5, <1>6 DEF Bit

-----------------------------------------------------------------------------
(***************************************************************************)
(* Where sendings are held.  A handler that has not committed holds none,  *)
(* and no handler and no worker holds more than one.                       *)
(***************************************************************************)
AtMostOne(held) == held = {} \/ \E s \in Sends : held = {s}

Uncommitted ==
    \A r \in Requests : request[r].at \in {"idle", "loaded"} => request[r].send = {}

Singles ==
    /\ \A r \in Requests : AtMostOne(request[r].send)
    /\ \A w \in Workers : AtMostOne(job[w].send)

LEMMA RequestAfter ==
    ASSUME TypeOK, NEW r \in Requests, NEW at, NEW isDraft, NEW send,
           Goto(r, at, isDraft, send)
    PROVE  /\ request'[r].at = at /\ request'[r].send = send
           /\ \A q \in Requests \ {r} : request'[q] = request[q]
BY DEF TypeOK, Goto

LEMMA UncommittedStep == TypeOK /\ Uncommitted /\ [Next]_vars => Uncommitted'
<1> SUFFICES ASSUME TypeOK, Uncommitted, [Next]_vars PROVE Uncommitted'
  OBVIOUS
<1>1. ASSUME UNCHANGED request PROVE Uncommitted'
  BY <1>1 DEF Uncommitted
<1>2. ASSUME NEW r \in Requests, NEW at, NEW send, NEW isDraft,
             Goto(r, at, isDraft, send),
             send = {} \/ at = "committed" \/ at = "refreshed"
      PROVE  Uncommitted'
  BY <1>2, RequestAfter DEF Uncommitted
<1>3. ASSUME NEW r \in Requests,
             Load(r) \/ Handler(r) \/ HandlerFault(r)
      PROVE  Uncommitted'
  BY <1>2, <1>3
  DEF Load, Handler, HandlerFault, TurnAway, Commit, Refresh, RefreshRaises,
      Publish
<1>4. ASSUME NEW w \in Workers, Worker(w) \/ WorkerFault(w) PROVE Uncommitted'
  BY <1>1, <1>4
  DEF Worker, WorkerFault, Take, LoadInvoice, NotFound, Mail, Finish
<1>5. CASE \/ UNCHANGED vars \/ Edit \/ Delete
           \/ \E r \in Requests : LoseReply(r)
           \/ \E s \in Sends : Redeliver(s)
  BY <1>1, <1>5 DEF vars, Edit, Delete, LoseReply, Redeliver
<1> QED
  BY <1>3, <1>4, <1>5 DEF Next

LEMMA SinglesStep == TypeOK /\ Singles /\ [Next]_vars => Singles'
<1> SUFFICES ASSUME TypeOK, Singles, [Next]_vars PROVE Singles'
  OBVIOUS
<1>1. ASSUME NEW r \in Requests, NEW at, NEW isDraft, NEW send, AtMostOne(send),
             Goto(r, at, isDraft, send), UNCHANGED job
      PROVE  Singles'
  BY <1>1, RequestAfter DEF Singles
<1>2. ASSUME NEW w \in Workers, NEW new \in Jobs, AtMostOne(new.send),
             job' = [job EXCEPT ![w] = new], UNCHANGED request
      PROVE  Singles'
  BY <1>2, JobType DEF Singles
<1>3. ASSUME NEW r \in Requests, Load(r) \/ Handler(r) \/ HandlerFault(r)
      PROVE  Singles'
  <2>1. UNCHANGED job
    BY <1>3 DEF Load, Handler, HandlerFault, TurnAway, Commit, Refresh,
                RefreshRaises, Publish
  <2>2. PICK at, isDraft, send : /\ Goto(r, at, isDraft, send)
                                 /\ \/ send = {} \/ send = request[r].send
                                    \/ \E s \in Sends : send = {s}
    BY <1>3 DEF Load, Handler, HandlerFault, TurnAway, Commit, Refresh,
                RefreshRaises, Publish
  <2>3. AtMostOne(send)
    BY <2>2 DEF Singles, AtMostOne
  <2> QED
    BY <1>1, <2>1, <2>2, <2>3
<1>4. ASSUME NEW w \in Workers, Take(w) PROVE Singles'
  <2>1. PICK s \in Sends : job' = [job EXCEPT ![w] = [at |-> "taken", send |-> {s}]]
    BY <1>4 DEF Take
  <2>2. [at |-> "taken", send |-> {s}] \in Jobs /\ UNCHANGED request
    BY <1>4 DEF Jobs, Take
  <2>3. AtMostOne([at |-> "taken", send |-> {s}].send)
    BY DEF AtMostOne
  <2> QED
    BY <1>2, <2>1, <2>2, <2>3
<1>5. ASSUME NEW w \in Workers, LoadInvoice(w) \/ Mail(w) PROVE Singles'
  <2>1. /\ Moves(w, "taken", "loaded") \/ Moves(w, "loaded", "mailed")
        /\ UNCHANGED request
    BY <1>5 DEF LoadInvoice, Mail
  <2>2. job'[w].send = job[w].send /\ \A v \in Workers \ {w} : job'[v] = job[v]
    BY <2>1 DEF TypeOK, Moves
  <2> QED
    BY <2>1, <2>2 DEF Singles
<1>6. ASSUME NEW w \in Workers, NotFound(w) \/ Finish(w) \/ WorkerFault(w)
      PROVE  Singles'
  <2>1. job' = [job EXCEPT ![w] = NoJob] /\ UNCHANGED request
    BY <1>6 DEF NotFound, Finish, WorkerFault
  <2>2. AtMostOne(NoJob.send)
    BY DEF AtMostOne, NoJob
  <2> QED
    BY <1>2, <2>1, <2>2, NoJobType
<1>7. CASE \/ UNCHANGED vars \/ Edit \/ Delete
           \/ \E r \in Requests : LoseReply(r)
           \/ \E s \in Sends : Redeliver(s)
  BY <1>7 DEF vars, Edit, Delete, Singles, LoseReply, Redeliver
<1> QED
  BY <1>3, <1>4, <1>5, <1>6, <1>7 DEF Next, Worker

-----------------------------------------------------------------------------
(***************************************************************************)
(* The flow of one step: which sendings enter, are repeated, go out as a   *)
(* mail and are lost.  What is due changes by just that.                   *)
(***************************************************************************)
Flow(new, more, out, gone) ==
    /\ \A s \in Sends :
          Due(s)' = Due(s) + Bit(s \in new) + Bit(s \in more)
                           - Bit(s \in out) - Bit(s \in gone)
    /\ sent' = sent \cup new
    /\ again' = Plus(again, more)
    /\ mails' = Plus(mails, out)
    /\ lost' = Plus(lost, gone)

Quiet == Flow({}, {}, {}, {})
Enters(s) == s \notin sent /\ Flow({s}, {}, {}, {})
Repeated(s) == Due(s) > 0 /\ Flow({}, {s}, {}, {})
GoesOut(s) == Due(s) > 0 /\ Flow({}, {}, {s}, {})
Vanishes(s) == Due(s) > 0 /\ Flow({}, {}, {}, {s})

LEMMA PlusNothing ==
    ASSUME NEW count \in [Sends -> Nat] PROVE Plus(count, {}) = count
BY DEF Plus

LEMMA PlusBit ==
    ASSUME NEW count \in [Sends -> Nat], NEW held, NEW s \in Sends
    PROVE  Plus(count, held)[s] = count[s] + Bit(s \in held)
BY DEF Plus, Bit

LEMMA BitOfNothing == \A s \in Sends : Bit(s \in {}) = 0
BY DEF Bit

LEMMA Unmoved ==
    ASSUME TypeOK
    PROVE  /\ again = Plus(again, {}) /\ mails = Plus(mails, {})
           /\ lost = Plus(lost, {}) /\ sent = sent \cup {}
BY PlusNothing DEF TypeOK

\* steps in which sendings pass from process to process, or nothing moves
LEMMA QuietFlow ==
    ASSUME TypeOK, TypeOK', UNCHANGED <<sent, again, mails, lost>>,
           \A s \in Sends : Due(s)' = Due(s)
    PROVE  Quiet
<1>1. \A s \in Sends : Due(s) \in Nat
  BY DueType
<1>2. \A s \in Sends : Due(s)' = Due(s) + Bit(s \in {}) + Bit(s \in {})
                                 - Bit(s \in {}) - Bit(s \in {})
  BY <1>1, BitOfNothing
<1> QED
  BY <1>2, Unmoved DEF Quiet, Flow

LEMMA DueOfBroker ==
    ASSUME TypeOK, TypeOK', UNCHANGED <<request, job>>, NEW s \in Sends
    PROVE  Due(s)' = Due(s) + queue'[s] - queue[s]
<1> DEFINE H == Cardinality({q \in Requests : s \in request[q].send})
           W == Cardinality({v \in Workers : s \in Unmailed(v)})
<1>1. Due(s) = H + queue[s] + W
  BY DEF Due
<1>2. Due(s)' = H' + queue'[s] + W'
  BY DEF Due
<1>3. H' = H /\ W' = W
  BY DEF Unmailed
<1>4. H \in Nat /\ W \in Nat /\ queue[s] \in Nat /\ queue'[s] \in Nat
  BY DueType DEF TypeOK
<1> HIDE DEF H, W
<1> QED
  BY <1>1, <1>2, <1>3, <1>4

LEMMA QuietHandler ==
    ASSUME TypeOK, TypeOK', Uncommitted, NEW r \in Requests,
           Load(r) \/ TurnAway(r) \/ Refresh(r) \/ Publish(r)
    PROVE  Quiet
<1>1. UNCHANGED <<job, sent, again, mails, lost>>
  BY DEF Load, TurnAway, Refresh, Publish, history
<1>2. \A q \in Requests \ {r} : request'[q] = request[q]
  BY RequestAfter DEF Load, TurnAway, Refresh, Publish
<1>3. ASSUME NEW s \in Sends
      PROVE  Bit(s \in request'[r].send) + queue'[s] = Bit(s \in request[r].send) + queue[s]
  <2>1. CASE Load(r) \/ TurnAway(r) \/ Refresh(r)
    <3>1. request'[r].send = request[r].send /\ queue' = queue
      BY <2>1, RequestAfter DEF Load, TurnAway, Refresh, Uncommitted
    <3> QED
      BY <3>1
  <2>2. CASE Publish(r)
    <3>1. request'[r].send = {} /\ queue' = Plus(queue, request[r].send)
      BY <2>2, RequestAfter DEF Publish
    <3>2. queue'[s] = queue[s] + Bit(s \in request[r].send)
      BY <3>1, PlusBit DEF TypeOK
    <3>3. Bit(s \in request'[r].send) = 0
      BY <3>1 DEF Bit
    <3>4. queue[s] \in Nat /\ Bit(s \in request[r].send) \in Nat
      BY DEF TypeOK, Bit
    <3> QED
      BY <3>2, <3>3, <3>4
  <2> QED
    BY <2>1, <2>2
<1>4. ASSUME NEW s \in Sends PROVE Due(s)' = Due(s)
  <2>1. Due(s)' = Due(s) + Bit(s \in request'[r].send) - Bit(s \in request[r].send)
                         + queue'[s] - queue[s]
    BY <1>1, <1>2, DueOfHandler
  <2>2. /\ queue[s] \in Nat /\ queue'[s] \in Nat /\ Due(s) \in Nat
        /\ Bit(s \in request'[r].send) \in Nat /\ Bit(s \in request[r].send) \in Nat
    BY DueType DEF TypeOK, Bit
  <2> QED
    BY <1>3, <2>1, <2>2
<1> QED
  BY <1>1, <1>4, QuietFlow

LEMMA QuietWorker ==
    ASSUME TypeOK, TypeOK', NEW w \in Workers, Take(w) \/ LoadInvoice(w) \/ Finish(w)
    PROVE  Quiet
<1>1. UNCHANGED <<request, sent, again, mails, lost>>
  BY DEF Take, LoadInvoice, Finish, history
<1>2. /\ \A v \in Workers \ {w} : job'[v] = job[v]
      /\ \A s \in Sends :
            Bit(s \in Unmailed(w)') + queue'[s] = Bit(s \in Unmailed(w)) + queue[s]
  <2>1. CASE Take(w)
    <3>1. PICK t \in Sends :
              /\ queue[t] > 0
              /\ queue' = [queue EXCEPT ![t] = @ - 1]
              /\ job' = [job EXCEPT ![w] = [at |-> "taken", send |-> {t}]]
      BY <2>1 DEF Take
    <3>2. /\ job'[w] = [at |-> "taken", send |-> {t}]
          /\ \A v \in Workers \ {w} : job'[v] = job[v]
      BY <3>1 DEF TypeOK
    <3>3. Unmailed(w) = {} /\ Unmailed(w)' = {t}
      BY <2>1, <3>2 DEF Take, NoJob, Unmailed
    <3>4. \A s \in Sends : queue'[s] = queue[s] - Bit(s \in {t})
      BY <3>1 DEF TypeOK, Bit
    <3>5. \A s \in Sends : queue[s] \in Nat
      BY DEF TypeOK
    <3> QED
      BY <3>2, <3>3, <3>4, <3>5 DEF Bit
  <2>2. CASE LoadInvoice(w)
    <3>1. Moves(w, "taken", "loaded") /\ queue' = queue
      BY <2>2 DEF LoadInvoice
    <3>2. /\ job'[w] = [at |-> "loaded", send |-> job[w].send]
          /\ \A v \in Workers \ {w} : job'[v] = job[v]
      BY <3>1, MovesType
    <3>3. Unmailed(w)' = Unmailed(w)
      BY <3>1, <3>2 DEF Moves, Unmailed
    <3> QED
      BY <3>1, <3>2, <3>3
  <2>3. CASE Finish(w)
    <3>1. /\ job[w].at = "mailed" /\ queue' = queue
          /\ job' = [job EXCEPT ![w] = NoJob]
      BY <2>3 DEF Finish
    <3>2. job'[w] = NoJob /\ \A v \in Workers \ {w} : job'[v] = job[v]
      BY <3>1 DEF TypeOK
    <3>3. Unmailed(w)' = {} /\ Unmailed(w) = {}
      BY <3>1, <3>2 DEF NoJob, Unmailed
    <3> QED
      BY <3>1, <3>2, <3>3
  <2> QED
    BY <2>1, <2>2, <2>3
<1>3. ASSUME NEW s \in Sends PROVE Due(s)' = Due(s)
  <2>1. Due(s)' = Due(s) + Bit(s \in Unmailed(w)') - Bit(s \in Unmailed(w))
                         + queue'[s] - queue[s]
    BY <1>1, <1>2, DueOfWorker
  <2>2. /\ queue[s] \in Nat /\ queue'[s] \in Nat /\ Due(s) \in Nat
        /\ Bit(s \in Unmailed(w)') \in Nat /\ Bit(s \in Unmailed(w)) \in Nat
    BY DueType DEF TypeOK, Bit
  <2> QED
    BY <1>2, <2>1, <2>2
<1> QED
  BY <1>1, <1>3, QuietFlow

LEMMA CommitFlow ==
    ASSUME TypeOK, TypeOK', Uncommitted, NEW r \in Requests, Commit(r)
    PROVE  \E s \in Sends : Enters(s)
<1>1. PICK s \in Sends \ sent :
          Goto(r, "committed", FALSE, {s}) /\ sent' = sent \cup {s}
  BY DEF Commit
<1>2. /\ request'[r].send = {s} /\ request[r].send = {}
      /\ \A q \in Requests \ {r} : request'[q] = request[q]
  BY <1>1, RequestAfter DEF Commit, Uncommitted
<1>3. UNCHANGED <<queue, job, again, mails, lost>>
  BY DEF Commit
<1>4. ASSUME NEW t \in Sends
      PROVE  Due(t)' = Due(t) + Bit(t \in {s}) + Bit(t \in {})
                              - Bit(t \in {}) - Bit(t \in {})
  <2>1. Due(t)' = Due(t) + Bit(t \in request'[r].send) - Bit(t \in request[r].send)
                         + queue'[t] - queue[t]
    BY <1>2, <1>3, DueOfHandler
  <2>2. queue'[t] = queue[t] /\ queue[t] \in Nat /\ Due(t) \in Nat
    BY <1>3, DueType
  <2>3. Bit(t \in {s}) \in Nat /\ Bit(t \in {}) = 0
    BY DEF Bit
  <2> QED
    BY <1>2, <2>1, <2>2, <2>3
<1> QED
  BY <1>1, <1>3, <1>4, Unmoved DEF Enters, Flow

\* a process gives up what it holds
LEMMA HandlerLosesFlow ==
    ASSUME TypeOK, TypeOK', NEW r \in Requests, RefreshRaises(r) \/ HandlerFault(r)
    PROVE  Flow({}, {}, {}, request[r].send)
<1>1. /\ request'[r].send = {}
      /\ \A q \in Requests \ {r} : request'[q] = request[q]
  BY RequestAfter DEF RefreshRaises, HandlerFault
<1>2. /\ UNCHANGED <<queue, job, sent, again, mails>>
      /\ lost' = Plus(lost, request[r].send)
  BY DEF RefreshRaises, HandlerFault
<1>3. ASSUME NEW t \in Sends
      PROVE  Due(t)' = Due(t) + Bit(t \in {}) + Bit(t \in {})
                              - Bit(t \in {}) - Bit(t \in request[r].send)
  <2>1. Due(t)' = Due(t) + Bit(t \in request'[r].send) - Bit(t \in request[r].send)
                         + queue'[t] - queue[t]
    BY <1>1, <1>2, DueOfHandler
  <2>2. queue'[t] = queue[t] /\ queue[t] \in Nat /\ Due(t) \in Nat
    BY <1>2, DueType
  <2>3. Bit(t \in request[r].send) \in Nat /\ Bit(t \in {}) = 0
    BY DEF Bit
  <2> QED
    BY <1>1, <2>1, <2>2, <2>3
<1> QED
  BY <1>2, <1>3, Unmoved DEF Flow

LEMMA WorkerLosesFlow ==
    ASSUME TypeOK, TypeOK', NEW w \in Workers, NotFound(w) \/ WorkerFault(w)
    PROVE  Flow({}, {}, {}, Unmailed(w))
<1>1. job' = [job EXCEPT ![w] = NoJob]
  BY DEF NotFound, WorkerFault
<1>2. job'[w] = NoJob /\ \A v \in Workers \ {w} : job'[v] = job[v]
  BY <1>1 DEF TypeOK
<1>3. Unmailed(w)' = {}
  BY <1>2 DEF NoJob, Unmailed
<1>4. /\ UNCHANGED <<request, queue, sent, again, mails>>
      /\ lost' = Plus(lost, Unmailed(w))
  BY DEF NotFound, WorkerFault, Crash, MailsIf, Unmailed
<1>5. ASSUME NEW t \in Sends
      PROVE  Due(t)' = Due(t) + Bit(t \in {}) + Bit(t \in {})
                              - Bit(t \in {}) - Bit(t \in Unmailed(w))
  <2>1. Due(t)' = Due(t) + Bit(t \in Unmailed(w)') - Bit(t \in Unmailed(w))
                         + queue'[t] - queue[t]
    BY <1>2, <1>4, DueOfWorker
  <2>2. queue'[t] = queue[t] /\ queue[t] \in Nat /\ Due(t) \in Nat
    BY <1>4, DueType
  <2>3. Bit(t \in Unmailed(w)) \in Nat /\ Bit(t \in {}) = 0
    BY DEF Bit
  <2> QED
    BY <1>3, <2>1, <2>2, <2>3
<1> QED
  BY <1>4, <1>5, Unmoved DEF Flow

\* the mail goes out
LEMMA MailFlow ==
    ASSUME TypeOK, TypeOK', NEW w \in Workers, Mail(w)
    PROVE  Flow({}, {}, Unmailed(w), {})
<1>1. /\ Moves(w, "loaded", "mailed") /\ UNCHANGED <<request, queue>>
      /\ UNCHANGED <<sent, again, lost>> /\ mails' = Plus(mails, job[w].send)
  BY DEF Mail, history
<1>2. /\ job'[w] = [at |-> "mailed", send |-> job[w].send]
      /\ \A v \in Workers \ {w} : job'[v] = job[v]
  BY <1>1, MovesType
<1>3. Unmailed(w)' = {} /\ Unmailed(w) = job[w].send
  BY <1>1, <1>2 DEF Moves, Unmailed
<1>4. ASSUME NEW t \in Sends
      PROVE  Due(t)' = Due(t) + Bit(t \in {}) + Bit(t \in {})
                              - Bit(t \in Unmailed(w)) - Bit(t \in {})
  <2>1. Due(t)' = Due(t) + Bit(t \in Unmailed(w)') - Bit(t \in Unmailed(w))
                         + queue'[t] - queue[t]
    BY <1>1, <1>2, DueOfWorker
  <2>2. queue'[t] = queue[t] /\ queue[t] \in Nat /\ Due(t) \in Nat
    BY <1>1, DueType
  <2>3. Bit(t \in Unmailed(w)) \in Nat /\ Bit(t \in {}) = 0
    BY DEF Bit
  <2> QED
    BY <1>3, <2>1, <2>2, <2>3
<1> QED
  BY <1>1, <1>3, <1>4, Unmoved DEF Flow

\* LoseReply and Redeliver: the message is put on the broker once more
LEMMA RepeatFlow ==
    ASSUME TypeOK, TypeOK', NEW held,
           queue' = Plus(queue, held), again' = Plus(again, held),
           UNCHANGED <<request, job, mails, sent, lost>>
    PROVE  Flow({}, held, {}, {})
<1>1. ASSUME NEW t \in Sends
      PROVE  Due(t)' = Due(t) + Bit(t \in {}) + Bit(t \in held)
                              - Bit(t \in {}) - Bit(t \in {})
  <2>1. Due(t)' = Due(t) + queue'[t] - queue[t]
    BY DueOfBroker
  <2>2. queue'[t] = queue[t] + Bit(t \in held)
    BY PlusBit DEF TypeOK
  <2>3. queue[t] \in Nat /\ Due(t) \in Nat
    BY DueType
  <2>4. Bit(t \in held) \in Nat /\ Bit(t \in {}) = 0
    BY DEF Bit
  <2> QED
    BY <2>1, <2>2, <2>3, <2>4
<1> QED
  BY <1>1, Unmoved DEF Flow

-----------------------------------------------------------------------------
(***************************************************************************)
(* Every step moves one sending at most.                                   *)
(***************************************************************************)
Still == UNCHANGED <<live, faults>>
Broken == UNCHANGED live /\ Breaks
Deleted == live /\ live' = FALSE /\ UNCHANGED faults

StepFlow ==
    \/ Quiet /\ (Still \/ Broken \/ Deleted)
    \/ \E s \in Sends :
          \/ Enters(s) /\ live /\ Still
          \/ GoesOut(s) /\ Still
          \/ Repeated(s) /\ Broken
          \/ Vanishes(s) /\ (Broken \/ (~ live /\ Still))

LEMMA OneMoves ==
    ASSUME TypeOK, NEW held, AtMostOne(held),
           \A s \in held : s \in Sends => Due(s) > 0
    PROVE  /\ Flow({}, held, {}, {}) => Quiet \/ \E s \in Sends : Repeated(s)
           /\ Flow({}, {}, held, {}) => Quiet \/ \E s \in Sends : GoesOut(s)
           /\ Flow({}, {}, {}, held) => Quiet \/ \E s \in Sends : Vanishes(s)
<1>1. CASE held = {}
  BY <1>1 DEF Quiet
<1>2. ASSUME NEW s \in Sends, held = {s}
      PROVE  /\ Flow({}, held, {}, {}) => Repeated(s)
             /\ Flow({}, {}, held, {}) => GoesOut(s)
             /\ Flow({}, {}, {}, held) => Vanishes(s)
  BY <1>2 DEF Repeated, GoesOut, Vanishes
<1> QED
  BY <1>1, <1>2 DEF AtMostOne

LEMMA HeldByHandler ==
    ASSUME TypeOK, Singles, NEW r \in Requests
    PROVE  /\ AtMostOne(request[r].send)
           /\ \A s \in request[r].send : s \in Sends => Due(s) > 0
<1>1. ASSUME NEW s \in Sends, s \in request[r].send PROVE Due(s) > 0
  BY <1>1, HeldIsDue
<1> QED
  BY <1>1 DEF Singles

LEMMA HeldByWorker ==
    ASSUME TypeOK, Singles, NEW w \in Workers
    PROVE  /\ AtMostOne(Unmailed(w))
           /\ \A s \in Unmailed(w) : s \in Sends => Due(s) > 0
<1>1. ASSUME NEW s \in Sends, s \in Unmailed(w) PROVE Due(s) > 0
  BY <1>1, HeldIsDue
<1>2. AtMostOne(Unmailed(w))
  BY DEF Singles, AtMostOne, Unmailed
<1> QED
  BY <1>1, <1>2

LEMMA EveryStepFlows ==
    ASSUME TypeOK, TypeOK', Uncommitted, Singles, [Next]_vars
    PROVE  StepFlow
<1>1. CASE UNCHANGED vars \/ Edit \/ Delete
  <2>1. UNCHANGED <<request, queue, job, mails, sent, again, lost>>
    BY <1>1 DEF vars, Edit, Delete, history
  <2>2. ASSUME NEW s \in Sends PROVE Due(s)' = Due(s)
    <3>1. Due(s)' = Due(s) + queue'[s] - queue[s]
      BY <2>1, DueOfBroker
    <3>2. queue'[s] = queue[s] /\ queue[s] \in Nat /\ Due(s) \in Nat
      BY <2>1, DueType
    <3> QED
      BY <3>1, <3>2
  <2>3. Quiet
    BY <2>1, <2>2, QuietFlow
  <2>4. Still \/ Deleted
    BY <1>1 DEF vars, Edit, Delete, history, Still, Deleted
  <2> QED
    BY <2>3, <2>4 DEF StepFlow
<1>2. ASSUME NEW r \in Requests,
             Load(r) \/ TurnAway(r) \/ Refresh(r) \/ Publish(r)
      PROVE  StepFlow
  <2>1. Quiet
    BY <1>2, QuietHandler
  <2>2. Still
    BY <1>2 DEF Load, TurnAway, Refresh, Publish, invoice, history, Still
  <2> QED
    BY <2>1, <2>2 DEF StepFlow
<1>3. ASSUME NEW w \in Workers, Take(w) \/ LoadInvoice(w) \/ Finish(w)
      PROVE  StepFlow
  <2>1. Quiet
    BY <1>3, QuietWorker
  <2>2. Still
    BY <1>3 DEF Take, LoadInvoice, Finish, invoice, history, Still
  <2> QED
    BY <2>1, <2>2 DEF StepFlow
<1>4. ASSUME NEW r \in Requests, Commit(r) PROVE StepFlow
  <2>1. live /\ Still
    BY <1>4 DEF Commit, Still
  <2> QED
    BY <1>4, <2>1, CommitFlow DEF StepFlow
<1>5. ASSUME NEW r \in Requests, RefreshRaises(r) \/ HandlerFault(r)
      PROVE  StepFlow
  <2>1. Quiet \/ \E s \in Sends : Vanishes(s)
    BY <1>5, HandlerLosesFlow, HeldByHandler, OneMoves
  <2>2. Broken \/ (~ live /\ Still)
    BY <1>5 DEF RefreshRaises, HandlerFault, invoice, Still, Broken
  <2> QED
    BY <2>1, <2>2 DEF StepFlow
<1>6. ASSUME NEW w \in Workers, NotFound(w) \/ WorkerFault(w) PROVE StepFlow
  <2>1. Quiet \/ \E s \in Sends : Vanishes(s)
    BY <1>6, WorkerLosesFlow, HeldByWorker, OneMoves
  <2>2. Broken \/ (~ live /\ Still)
    BY <1>6 DEF NotFound, WorkerFault, MailsIf, invoice, Still, Broken
  <2> QED
    BY <2>1, <2>2 DEF StepFlow
<1>7. ASSUME NEW w \in Workers, Mail(w) PROVE StepFlow
  <2>1. Quiet \/ \E s \in Sends : GoesOut(s)
    BY <1>7, MailFlow, HeldByWorker, OneMoves
  <2>2. Still
    BY <1>7 DEF Mail, invoice, history, Still
  <2> QED
    BY <2>1, <2>2 DEF StepFlow
<1>8. ASSUME NEW r \in Requests, LoseReply(r) PROVE StepFlow
  <2>1. Flow({}, request[r].send, {}, {})
    BY <1>8, RepeatFlow DEF LoseReply
  <2>2. Quiet \/ \E s \in Sends : Repeated(s)
    BY <2>1, HeldByHandler, OneMoves
  <2>3. Broken
    BY <1>8 DEF LoseReply, invoice, Broken
  <2> QED
    BY <2>2, <2>3 DEF StepFlow
<1>9. ASSUME NEW s \in Sends, Redeliver(s) PROVE StepFlow
  <2>1. Flow({}, {s}, {}, {})
    BY <1>9, RepeatFlow DEF Redeliver
  <2>2. Due(s) > 0
    BY <1>9, HeldIsDue DEF Redeliver
  <2>3. Broken
    BY <1>9 DEF Redeliver, invoice, Broken
  <2> QED
    BY <2>1, <2>2, <2>3 DEF StepFlow, Repeated
<1> QED
  BY <1>1, <1>2, <1>3, <1>4, <1>5, <1>6, <1>7, <1>8, <1>9
  DEF Next, Handler, Worker

-----------------------------------------------------------------------------
(***************************************************************************)
(* The balance.  What has entered and what was repeated is mailed, due or  *)
(* lost, sending by sending.                                               *)
(***************************************************************************)
Balance ==
    \A s \in Sends :
        /\ mails[s] + Due(s) + lost[s] = Bit(s \in sent) + again[s]
        /\ s \notin sent => again[s] = 0

LEMMA FlowBalances ==
    ASSUME TypeOK, TypeOK', Balance,
           NEW new, NEW more, NEW out, NEW gone, Flow(new, more, out, gone),
           new \cap sent = {}, \A s \in more : s \in Sends => s \in sent
    PROVE  Balance'
<1> SUFFICES ASSUME NEW s \in Sends
             PROVE  /\ mails'[s] + Due(s)' + lost'[s] = Bit(s \in sent') + again'[s]
                    /\ s \notin sent' => again'[s] = 0
  BY DEF Balance
<1>1. /\ mails'[s] = mails[s] + Bit(s \in out)
      /\ lost'[s] = lost[s] + Bit(s \in gone)
      /\ again'[s] = again[s] + Bit(s \in more)
  BY PlusBit DEF TypeOK, Flow
<1>2. Due(s)' = Due(s) + Bit(s \in new) + Bit(s \in more)
                       - Bit(s \in out) - Bit(s \in gone)
  BY DEF Flow
<1>3. /\ mails[s] + Due(s) + lost[s] = Bit(s \in sent) + again[s]
      /\ s \notin sent => again[s] = 0
  BY DEF Balance
<1>4. Bit(s \in sent') = Bit(s \in sent) + Bit(s \in new)
  BY DEF Flow, Bit
<1>5. /\ mails[s] \in Nat /\ lost[s] \in Nat /\ again[s] \in Nat /\ Due(s) \in Nat
  BY DueType DEF TypeOK
<1>6. /\ Bit(s \in new) \in Nat /\ Bit(s \in more) \in Nat /\ Bit(s \in out) \in Nat
      /\ Bit(s \in gone) \in Nat /\ Bit(s \in sent) \in Nat
  BY DEF Bit
<1>7. mails'[s] + Due(s)' + lost'[s] = Bit(s \in sent') + again'[s]
  <2> DEFINE enters == Bit(s \in new)     repeated == Bit(s \in more)
             goes == Bit(s \in out)       vanishes == Bit(s \in gone)
             before == Bit(s \in sent)    after == Bit(s \in sent')
             due == Due(s)                due2 == Due(s)'
             m == mails[s]                m2 == mails'[s]
             l == lost[s]                 l2 == lost'[s]
             a == again[s]                a2 == again'[s]
  <2>1. /\ m2 = m + goes /\ l2 = l + vanishes /\ a2 = a + repeated
        /\ due2 = due + enters + repeated - goes - vanishes
        /\ m + due + l = before + a /\ after = before + enters
    BY <1>1, <1>2, <1>3, <1>4
  <2>2. /\ m \in Nat /\ l \in Nat /\ a \in Nat /\ due \in Nat /\ before \in Nat
        /\ enters \in Nat /\ repeated \in Nat /\ goes \in Nat /\ vanishes \in Nat
    BY <1>5, <1>6
  <2> HIDE DEF enters, repeated, goes, vanishes, before, after, due, due2, m, m2,
               l, l2, a, a2
  <2>3. m2 + due2 + l2 = after + a2
    BY <2>1, <2>2
  <2> QED
    BY <2>3 DEF after, due2, m2, l2, a2
<1>8. s \notin sent' => s \notin more /\ s \notin sent
  BY DEF Flow
<1>9. s \notin sent' => again'[s] = 0
  BY <1>1, <1>3, <1>8 DEF Bit
<1> QED
  BY <1>7, <1>9

\* of a sending that has not committed there is nothing
LEMMA NothingBefore ==
    ASSUME TypeOK, Balance, NEW s \in Sends, s \notin sent
    PROVE  Due(s) = 0 /\ mails[s] = 0
<1>1. mails[s] + Due(s) + lost[s] = Bit(s \in sent) + again[s] /\ again[s] = 0
  BY DEF Balance
<1>2. mails[s] \in Nat /\ lost[s] \in Nat /\ Due(s) \in Nat
  BY DueType DEF TypeOK
<1>3. Bit(s \in sent) = 0
  BY DEF Bit
<1> QED
  BY <1>1, <1>2, <1>3

LEMMA BalanceStep ==
    ASSUME TypeOK, TypeOK', Balance, StepFlow PROVE Balance'
<1>1. CASE Quiet
  BY <1>1, FlowBalances DEF Quiet
<1>2. ASSUME NEW s \in Sends, Enters(s) PROVE Balance'
  <2>1. Flow({s}, {}, {}, {}) /\ {s} \cap sent = {}
    BY <1>2 DEF Enters
  <2>2. \A t \in {} : t \in Sends => t \in sent
    OBVIOUS
  <2> QED
    BY <2>1, <2>2, FlowBalances
<1>3. ASSUME NEW s \in Sends, Repeated(s) PROVE Balance'
  <2>1. Flow({}, {s}, {}, {}) /\ {} \cap sent = {}
    BY <1>3 DEF Repeated
  <2>2. s \in sent
    BY <1>3, NothingBefore DEF Repeated
  <2>3. \A t \in {s} : t \in Sends => t \in sent
    BY <2>2
  <2> QED
    BY <2>1, <2>3, FlowBalances
<1>4. ASSUME NEW s \in Sends, GoesOut(s) \/ Vanishes(s) PROVE Balance'
  <2>1. Flow({}, {}, {s}, {}) \/ Flow({}, {}, {}, {s})
    BY <1>4 DEF GoesOut, Vanishes
  <2>2. {} \cap sent = {} /\ \A t \in {} : t \in Sends => t \in sent
    OBVIOUS
  <2> QED
    BY <2>1, <2>2, FlowBalances
<1> QED
  BY <1>1, <1>2, <1>3, <1>4 DEF StepFlow

DispatchInv == Uncommitted /\ Singles /\ Balance

LEMMA DispatchInvStep ==
    TypeOK /\ TypeOK' /\ DispatchInv /\ [Next]_vars => DispatchInv' /\ StepFlow
BY UncommittedStep, SinglesStep, EveryStepFlows, BalanceStep DEF DispatchInv

LEMMA NothingDueAtFirst ==
    ASSUME Init PROVE \A s \in Sends : Due(s) = 0
<1> SUFFICES ASSUME NEW s \in Sends PROVE Due(s) = 0
  OBVIOUS
<1>1. {r \in Requests : s \in request[r].send} = {}
  BY DEF Init, NoRequest
<1>2. {w \in Workers : s \in Unmailed(w)} = {}
  BY DEF Init, NoJob, Unmailed
<1>3. queue[s] = 0
  BY DEF Init, Zero
<1>4. /\ Cardinality({r \in Requests : s \in request[r].send}) = 0
      /\ Cardinality({w \in Workers : s \in Unmailed(w)}) = 0
  BY <1>1, <1>2, FS_EmptySet
<1> QED
  BY <1>3, <1>4 DEF Due

LEMMA DispatchInvInit == Init => DispatchInv
<1> SUFFICES ASSUME Init PROVE DispatchInv
  OBVIOUS
<1>1. /\ \A r \in Requests : request[r].send = {}
      /\ \A w \in Workers : job[w].send = {}
  BY DEF Init, NoRequest, NoJob
<1>2. \A s \in Sends : mails[s] = 0 /\ lost[s] = 0 /\ again[s] = 0 /\ s \notin sent
  BY DEF Init, Zero
<1>3. Balance
  BY <1>2, NothingDueAtFirst DEF Balance, Bit
<1> QED
  BY <1>1, <1>3 DEF DispatchInv, Uncommitted, Singles, AtMostOne

LEMMA BalanceLimitsMails == TypeOK /\ Balance => OneMailPerSend
<1> SUFFICES ASSUME TypeOK, Balance, NEW s \in Sends, mails[s] > 0
             PROVE  s \in sent /\ mails[s] <= 1 + again[s]
  BY DEF OneMailPerSend
<1>1. s \in sent
  BY NothingBefore
<1>2. mails[s] + Due(s) + lost[s] = 1 + again[s]
  BY <1>1 DEF Balance, Bit
<1>3. mails[s] \in Nat /\ lost[s] \in Nat /\ again[s] \in Nat /\ Due(s) \in Nat
  BY DueType DEF TypeOK
<1> QED
  BY <1>1, <1>2, <1>3

\* A /send leads to at most one mail, and one more for each time its message was
\* pushed again after a lost reply or delivered again after the visibility
\* timeout; one that did not commit leads to none; for any number of handlers,
\* workers and faults (routers/invoices.py:115-122, tasks.py:39-57,
\* celery.py:9-13).
THEOREM EachSendMailsOnce == Spec => []OneMailPerSend
<1> QED
  BY DispatchInvInit, DispatchInvStep, BalanceLimitsMails, DispatchTypeCorrect, PTL
  DEF Spec, DispatchInv

-----------------------------------------------------------------------------
(***************************************************************************)
(* The outbox.  Each kind of flow is one of its steps.                     *)
(***************************************************************************)
Dues == [s \in Sends |-> Due(s)]

LEMMA DuesKept ==
    ASSUME TypeOK, Quiet PROVE Dues' = Dues /\ mails' = mails /\ sent' = sent
<1>1. ASSUME NEW s \in Sends PROVE Due(s)' = Due(s)
  <2>1. Due(s)' = Due(s) + Bit(s \in {}) + Bit(s \in {})
                         - Bit(s \in {}) - Bit(s \in {})
    BY DEF Quiet, Flow
  <2>2. Due(s) \in Nat
    BY DueType
  <2>3. Bit(s \in {}) = 0
    BY DEF Bit
  <2> QED
    BY <2>1, <2>2, <2>3
<1>2. Dues' = Dues
  BY <1>1 DEF Dues
<1> QED
  BY <1>2, Unmoved DEF Quiet, Flow

LEMMA DuesMoved ==
    ASSUME TypeOK, NEW s \in Sends
    PROVE  /\ Enters(s) => /\ Dues' = [Dues EXCEPT ![s] = @ + 1]
                           /\ mails' = mails /\ sent' = sent \cup {s}
           /\ Repeated(s) => /\ Dues' = [Dues EXCEPT ![s] = @ + 1]
                             /\ mails' = mails /\ sent' = sent
           /\ GoesOut(s) => /\ Dues' = [Dues EXCEPT ![s] = @ - 1]
                            /\ mails' = Plus(mails, {s}) /\ sent' = sent
           /\ Vanishes(s) => /\ Dues' = [Dues EXCEPT ![s] = @ - 1]
                             /\ mails' = mails /\ sent' = sent
<1>1. \A t \in Sends : Due(t) \in Nat
  BY DueType
<1>2. ASSUME \A t \in Sends : Due(t)' = Due(t) + Bit(t \in {s})
      PROVE  Dues' = [Dues EXCEPT ![s] = @ + 1]
  <2>1. \A t \in Sends : Due(t)' = IF t = s THEN Due(t) + 1 ELSE Due(t)
    BY <1>1, <1>2 DEF Bit
  <2> QED
    BY <2>1 DEF Dues
<1>3. ASSUME \A t \in Sends : Due(t)' = Due(t) - Bit(t \in {s})
      PROVE  Dues' = [Dues EXCEPT ![s] = @ - 1]
  <2>1. \A t \in Sends : Due(t)' = IF t = s THEN Due(t) - 1 ELSE Due(t)
    BY <1>1, <1>3 DEF Bit
  <2> QED
    BY <2>1 DEF Dues
<1>4. \A t \in Sends : Bit(t \in {s}) \in Nat /\ Bit(t \in {}) = 0
  BY DEF Bit
<1>5. Flow({s}, {}, {}, {}) \/ Flow({}, {s}, {}, {})
        => \A t \in Sends : Due(t)' = Due(t) + Bit(t \in {s})
  BY <1>1, <1>4 DEF Flow
<1>6. Flow({}, {}, {s}, {}) \/ Flow({}, {}, {}, {s})
        => \A t \in Sends : Due(t)' = Due(t) - Bit(t \in {s})
  BY <1>1, <1>4 DEF Flow
<1>7. Enters(s) => Dues' = [Dues EXCEPT ![s] = @ + 1] /\ mails' = mails
                     /\ sent' = sent \cup {s}
  BY <1>2, <1>5, Unmoved DEF Enters, Flow
<1>8. Repeated(s) => Dues' = [Dues EXCEPT ![s] = @ + 1] /\ mails' = mails
                       /\ sent' = sent
  BY <1>2, <1>5, Unmoved DEF Repeated, Flow
<1>9. GoesOut(s) => Dues' = [Dues EXCEPT ![s] = @ - 1]
                      /\ mails' = Plus(mails, {s}) /\ sent' = sent
  BY <1>3, <1>6, Unmoved DEF GoesOut, Flow
<1>10. Vanishes(s) => Dues' = [Dues EXCEPT ![s] = @ - 1] /\ mails' = mails
                        /\ sent' = sent
  BY <1>3, <1>6, Unmoved DEF Vanishes, Flow
<1> QED
  BY <1>7, <1>8, <1>9, <1>10

LEMMA FlowMovesBox ==
    ASSUME TypeOK, Balance, StepFlow PROVE [Mailbox!Next]_(Mailbox!outbox)
<1> USE DEF Mailbox!outbox, Mailbox!Next
<1>1. CASE Quiet /\ (Still \/ Broken \/ Deleted)
  <2>1. Dues' = Dues /\ mails' = mails /\ sent' = sent
    BY <1>1, DuesKept
  <2>2. CASE Still
    BY <2>1, <2>2 DEF Still, Dues
  <2>3. CASE Broken
    BY <2>1, <2>3 DEF Broken, Breaks, Dues, Mailbox!Fault
  <2>4. CASE Deleted
    BY <2>1, <2>4 DEF Deleted, Dues, Mailbox!Delete
  <2> QED
    BY <1>1, <2>2, <2>3, <2>4
<1>2. ASSUME NEW s \in Sends, Enters(s), live, Still PROVE Mailbox!Accept(s)
  <2>1. /\ Dues' = [Dues EXCEPT ![s] = @ + 1] /\ mails' = mails
        /\ sent' = sent \cup {s}
    BY <1>2, DuesMoved
  <2>2. s \notin sent /\ Dues[s] = 0
    BY <1>2, NothingBefore DEF Enters, Dues
  <2>3. Dues' = [Dues EXCEPT ![s] = 1]
    BY <2>1, <2>2
  <2> QED
    BY <1>2, <2>1, <2>2, <2>3 DEF Still, Dues, Mailbox!Accept
<1>3. ASSUME NEW s \in Sends, GoesOut(s), Still PROVE Mailbox!Mail(s)
  <2>1. /\ Dues' = [Dues EXCEPT ![s] = @ - 1] /\ mails' = Plus(mails, {s})
        /\ sent' = sent
    BY <1>3, DuesMoved
  <2>2. mails' = [mails EXCEPT ![s] = @ + 1]
    BY <2>1 DEF TypeOK, Plus
  <2>3. Dues[s] > 0
    BY <1>3 DEF GoesOut, Dues
  <2> QED
    BY <1>3, <2>1, <2>2, <2>3 DEF Still, Dues, Mailbox!Mail
<1>4. ASSUME NEW s \in Sends, Repeated(s), Broken PROVE Mailbox!Fault
  <2>1. /\ Dues' = [Dues EXCEPT ![s] = @ + 1] /\ mails' = mails /\ sent' = sent
    BY <1>4, DuesMoved
  <2>2. Mailbox!Repeats(s)
    BY <1>4, <2>1 DEF Repeated, Dues, Mailbox!Repeats
  <2> QED
    BY <1>4, <2>1, <2>2 DEF Broken, Breaks, Mailbox!Fault
<1>5. ASSUME NEW s \in Sends, Vanishes(s), Broken \/ (~ live /\ Still)
      PROVE  Mailbox!Fault \/ Mailbox!Miss(s)
  <2>1. /\ Dues' = [Dues EXCEPT ![s] = @ - 1] /\ mails' = mails /\ sent' = sent
    BY <1>5, DuesMoved
  <2>2. Mailbox!Loses(s)
    BY <1>5, <2>1 DEF Vanishes, Dues, Mailbox!Loses
  <2> QED
    BY <1>5, <2>1, <2>2 DEF Broken, Still, Breaks, Mailbox!Fault, Mailbox!Miss
<1> QED
  BY <1>1, <1>2, <1>3, <1>4, <1>5 DEF StepFlow

\* For any number of handlers, workers, sendings and faults: once committed, one
\* mail of a sending is due, it goes out or is lost, each loss is the deletion of
\* the invoice or a fault of its own, and each further mail that becomes due is a
\* fault of its own (routers/invoices.py:115-122, tasks.py:39-57,
\* celery.py:9-13).
THEOREM DispatchImplementsOutbox == Spec => ImplementsOutbox
<1>1. Init => Mailbox!Init
  <2> SUFFICES ASSUME Init PROVE Mailbox!Init
    OBVIOUS
  <2>1. [s \in Sends |-> Due(s)] = [s \in Sends |-> 0]
    BY NothingDueAtFirst
  <2> QED
    BY <2>1 DEF Init, Zero, Mailbox!Init
<1>2. TypeOK /\ TypeOK' /\ DispatchInv /\ [Next]_vars
        => [Mailbox!Next]_(Mailbox!outbox)
  BY DispatchInvStep, FlowMovesBox DEF DispatchInv
<1> QED
  BY <1>1, <1>2, DispatchInvInit, DispatchInvStep, DispatchTypeCorrect, PTL
  DEF Spec, ImplementsOutbox, Mailbox!Spec

=============================================================================
