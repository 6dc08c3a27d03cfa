----------------------------- MODULE Migrations -----------------------------
(***************************************************************************)
(* The database schema and who changes it.  A web container runs `alembic  *)
(* upgrade head' before it serves (entrypoint.sh); env.py runs all pending *)
(* revisions in one transaction, and PostgreSQL rolls DDL back.  Worker    *)
(* and beat containers migrate nothing.  A container that fails is started *)
(* again by its platform.                                                  *)
(*                                                                         *)
(* An image knows the revisions up to its own head.  During a deployment,  *)
(* and after one that is rolled back, images of different heads meet the   *)
(* same database.                                                          *)
(***************************************************************************)
EXTENDS Integers

CONSTANTS
    Containers,     \* web containers
    Head,           \* Head[i]: the last revision the image of i knows
    MaxDowngrades,  \* bound on downgrades by hand
    MaxCrashes      \* bound on containers killed

Revisions == 1..3   \* cb22edc478b0, 39e9906fe534, 53a4933a3765

ASSUME HeadAssumption == Head \in [Containers -> Revisions]
ASSUME BoundsAssumption == MaxDowngrades \in Nat /\ MaxCrashes \in Nat

-----------------------------------------------------------------------------
(***************************************************************************)
(* The objects of the schema the revisions touch, and what each revision   *)
(* needs to find, must not find, adds and drops.  The datetime columns of  *)
(* a table are altered together; altering a type to itself is no error.    *)
(***************************************************************************)
Tables == {"user", "client", "invoice", "invoice_line_item", "invoice_payment"}
AllTables == {<<"table", t>> : t \in Tables}
Enum == {<<"type", "invoicestatus">>}
TimeZones == {<<"timestamptz", t>> : t \in Tables}
Reminder == {<<"column", "reminder_sent_at">>}
Objects == AllTables \cup Enum \cup TimeZones \cup Reminder

Step(needs, bars, adds, drops) ==
    [needs |-> needs, bars |-> bars, adds |-> adds, drops |-> drops]

\* mutant: the last revision alters a column that no revision has added
Upgrade_Alters(k) ==
    CASE k = 1 -> Step({}, AllTables \cup Enum, AllTables \cup Enum, {})
      [] k = 2 -> Step(AllTables, {}, TimeZones, {})
      [] k = 3 -> Step(AllTables \cup Reminder, {}, Reminder, {})

\* creating the table invoice creates the type of its status column
Upgrade(k) ==
    CASE k = 1 -> Step({}, AllTables \cup Enum, AllTables \cup Enum, {})
      [] k = 2 -> Step(AllTables, {}, TimeZones, {})
      [] k = 3 -> Step(AllTables, Reminder, Reminder, {})

\* dropping a table drops its columns; nothing drops the type
Downgrade(k) ==
    CASE k = 1 -> Step(AllTables, {}, {}, AllTables \cup TimeZones \cup Reminder)
      [] k = 2 -> Step(AllTables, {}, {}, TimeZones)
      [] k = 3 -> Step(Reminder, {}, {}, Reminder)

Can(step, s) == step.needs \subseteq s /\ step.bars \cap s = {}
After(step, s) == (s \cup step.adds) \ step.drops

-----------------------------------------------------------------------------
VARIABLES
    schema,     \* committed objects
    rev,        \* alembic_version: 0 before the first revision
    box,        \* the containers
    downgrades, crashes

vars == <<schema, rev, box, downgrades, crashes>>

\* from, base: the revision and schema found; at, view: those of the transaction
Down == [pc |-> "down", from |-> 0, base |-> {}, at |-> 0, view |-> {}]
Boxes == [pc : {"down", "migrating", "serving"}, from : 0..3, at : 0..3,
          base : SUBSET Objects, view : SUBSET Objects]

TypeOK ==
    /\ schema \in SUBSET Objects
    /\ rev \in 0..3
    /\ box \in [Containers -> Boxes]
    /\ downgrades \in 0..MaxDowngrades /\ crashes \in 0..MaxCrashes

Init ==
    /\ schema = {} /\ rev = 0
    /\ box = [i \in Containers |-> Down]
    /\ downgrades = 0 /\ crashes = 0

\* mutant: `alembic upgrade +1', an error where nothing is left to upgrade
Start_Strict(i) ==
    /\ box[i].pc = "down" /\ rev < Head[i]
    /\ box' = [box EXCEPT ![i] =
          [pc |-> "migrating", from |-> rev, base |-> schema,
           at |-> rev, view |-> schema]]
    /\ UNCHANGED <<schema, rev, downgrades, crashes>>

\* mutant: the parent of the version that was found
Start_Parent(i) ==
    /\ box[i].pc = "down" /\ rev <= Head[i]
    /\ box' = [box EXCEPT ![i] =
          [pc |-> "migrating", from |-> rev - 1, base |-> schema,
           at |-> rev, view |-> schema]]
    /\ UNCHANGED <<schema, rev, downgrades, crashes>>

\* alembic reads the version; one its image does not know ends the container
Start(i) ==
    /\ box[i].pc = "down" /\ rev <= Head[i]
    /\ box' = [box EXCEPT ![i] =
          [pc |-> "migrating", from |-> rev, base |-> schema,
           at |-> rev, view |-> schema]]
    /\ UNCHANGED <<schema, rev, downgrades, crashes>>

\* mutant: AUTOCOMMIT, each statement lasts, and the version follows at the end
Migrate_Autocommit(i) ==
    /\ box[i].pc = "migrating" /\ box[i].at < Head[i]
    /\ LET step == Upgrade(box[i].at + 1) IN
          /\ Can(step, box[i].view)
          /\ box' = [box EXCEPT ![i].at = @ + 1, ![i].view = After(step, @)]
          /\ schema' = After(step, schema)
    /\ UNCHANGED <<rev, downgrades, crashes>>

\* the next revision, in the container's transaction
Migrate(i) ==
    /\ box[i].pc = "migrating" /\ box[i].at < Head[i]
    /\ LET step == Upgrade(box[i].at + 1) IN
          /\ Can(step, box[i].view)
          /\ box' = [box EXCEPT ![i].at = @ + 1, ![i].view = After(step, @)]
    /\ UNCHANGED <<schema, rev, downgrades, crashes>>

Undisturbed_Ignored(i) == TRUE  \* mutant: `IF NOT EXISTS', and no count of the version row

(***************************************************************************)
(* DDL waits for the other transaction's locks and then meets its result:  *)
(* objects that exist already, or a version row that is not the one to     *)
(* update.  Both are errors.                                               *)
(***************************************************************************)
Undisturbed(i) == rev = box[i].from /\ schema = box[i].base

\* the transaction commits, if there was anything to do, and uvicorn starts
Commit(i) ==
    /\ box[i].pc = "migrating" /\ box[i].at = Head[i]
    /\ IF box[i].from = Head[i]
         THEN UNCHANGED <<schema, rev>>
         ELSE Undisturbed(i) /\ schema' = box[i].view /\ rev' = Head[i]
    /\ box' = [box EXCEPT ![i] = [Down EXCEPT !.pc = "serving"]]
    /\ UNCHANGED <<downgrades, crashes>>

\* mutant: the entrypoint without `set -e'
Abort_Serves(i) ==
    /\ box[i].pc = "migrating" /\ box[i].from < Head[i]
    /\ \/ ~ Undisturbed(i)
       \/ box[i].at < Head[i] /\ ~ Can(Upgrade(box[i].at + 1), box[i].view)
    /\ box' = [box EXCEPT ![i] = [Down EXCEPT !.pc = "serving"]]
    /\ UNCHANGED <<schema, rev, downgrades, crashes>>

\* an error in a revision ends the container (`set -e')
Abort(i) ==
    /\ box[i].pc = "migrating" /\ box[i].from < Head[i]
    /\ \/ ~ Undisturbed(i)
       \/ box[i].at < Head[i] /\ ~ Can(Upgrade(box[i].at + 1), box[i].view)
    /\ box' = [box EXCEPT ![i] = Down]
    /\ UNCHANGED <<schema, rev, downgrades, crashes>>

Crash(i) ==
    /\ box[i].pc # "down"
    /\ crashes < MaxCrashes /\ crashes' = crashes + 1
    /\ box' = [box EXCEPT ![i] = Down]
    /\ UNCHANGED <<schema, rev, downgrades>>

\* alembic downgrade -1, by hand
DowngradeByHand ==
    /\ rev > 0 /\ Can(Downgrade(rev), schema)
    /\ downgrades < MaxDowngrades /\ downgrades' = downgrades + 1
    /\ schema' = After(Downgrade(rev), schema) /\ rev' = rev - 1
    /\ UNCHANGED <<box, crashes>>

Proceed(i) == Start(i) \/ Migrate(i) \/ Commit(i) \/ Abort(i)

Next ==
    \/ \E i \in Containers :
          Start(i) \/ Migrate(i) \/ Commit(i) \/ Abort(i) \/ Crash(i)
    \/ DowngradeByHand

Spec == Init /\ [][Next]_vars

\* the platform starts a container that is down, and alembic runs to its end
FairSpec == Spec /\ \A i \in Containers : WF_vars(Proceed(i))

-----------------------------------------------------------------------------
SchemaOf(k) ==
    (IF k >= 1 THEN AllTables ELSE {}) \cup (IF k >= 2 THEN TimeZones ELSE {})
        \cup (IF k >= 3 THEN Reminder ELSE {})

\* The version row tells the schema: containers that migrate side by side, die
\* half way or come from different images leave no revision half applied, twice
\* applied or unrecorded.  Only the enum type may outlast its tables.
SchemaIsRevision ==
    /\ schema \ Enum = SchemaOf(rev)
    /\ rev > 0 => Enum \subseteq schema

\* A web container serves only where its revisions are in place, unless they
\* were taken away by hand.
ServesAtHead ==
    \A i \in Containers :
        box[i].pc = "serving" => rev >= Head[i] \/ downgrades > 0

\* The image is older than the database (a deployment rolled back after its
\* migration), or the enum type is left over from a downgrade to the base.
Blocked(i) == rev > Head[i] \/ (rev = 0 /\ Enum \subseteq schema)

\* No revision fails on what the ones before it, and downgrades, have left: an
\* upgrade raises only when another container has come first, or at the enum
\* type of a database that was downgraded to nothing, and a downgrade never.
\* It is why a container that starts again and again comes up.
RevisionsApply ==
    /\ \A i \in Containers :
          /\ box[i].pc = "migrating" /\ box[i].at < Head[i]
          /\ ~ Can(Upgrade(box[i].at + 1), box[i].view)
          => box[i].from = 0 /\ Enum \subseteq box[i].base
    /\ rev > 0 => Can(Downgrade(rev), schema)

\* Every web container comes up in the end: one that lost the race to migrate
\* finds the work done when it is started again.  The exceptions are final:
\* nothing in the repository undoes them.
ComesUp == \A i \in Containers : <>[](box[i].pc = "serving" \/ Blocked(i))

=============================================================================
