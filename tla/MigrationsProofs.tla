-------------------------- MODULE MigrationsProofs --------------------------
(***************************************************************************)
(* Migrations for any number of containers and any mix of images.          *)
(***************************************************************************)
EXTENDS Migrations, TLAPS

\* the four kinds of objects have no member in common, so that what follows
\* need not look into them
LEMMA Kinds ==
    /\ AllTables \cap Enum = {} /\ AllTables \cap TimeZones = {}
    /\ AllTables \cap Reminder = {} /\ Enum \cap TimeZones = {}
    /\ Enum \cap Reminder = {} /\ TimeZones \cap Reminder = {}
    /\ AllTables # {}
    /\ Objects = AllTables \cup Enum \cup TimeZones \cup Reminder
<1>1. /\ AllTables \cap Enum = {} /\ AllTables \cap TimeZones = {}
      /\ AllTables \cap Reminder = {}
  BY DEF AllTables, Enum, TimeZones, Reminder
<1>2. Enum \cap TimeZones = {} /\ Enum \cap Reminder = {} /\ TimeZones \cap Reminder = {}
  BY DEF Enum, TimeZones, Reminder
<1>3. <<"table", "user">> \in AllTables
  BY DEF AllTables, Tables
<1> QED
  BY <1>1, <1>2, <1>3 DEF Objects

(***************************************************************************)
(* A set of objects that is the schema of revision k.                      *)
(***************************************************************************)
Is(s, k) ==
    /\ s \subseteq Objects
    /\ s \ Enum = SchemaOf(k)
    /\ k > 0 => Enum \subseteq s

LEMMA UpgradeReaches ==
    ASSUME NEW k \in 0..2, NEW s, Is(s, k), Can(Upgrade(k + 1), s)
    PROVE  Is(After(Upgrade(k + 1), s), k + 1)
<1> USE Kinds DEF Is, SchemaOf, Can, After, Step
<1>1. CASE k = 0
  <2>1. Upgrade(1) = Step({}, AllTables \cup Enum, AllTables \cup Enum, {})
    BY DEF Upgrade
  <2>2. s = {}
    BY <1>1, <2>1
  <2> QED
    BY <1>1, <2>1, <2>2
<1>2. CASE k = 1
  <2>1. Upgrade(2) = Step(AllTables, {}, TimeZones, {})
    BY DEF Upgrade
  <2>2. s = AllTables \cup Enum
    BY <1>2
  <2> QED
    BY <1>2, <2>1, <2>2
<1>3. CASE k = 2
  <2>1. Upgrade(3) = Step(AllTables, Reminder, Reminder, {})
    BY DEF Upgrade
  <2>2. s = AllTables \cup Enum \cup TimeZones
    BY <1>3
  <2> QED
    BY <1>3, <2>1, <2>2
<1> QED
  BY <1>1, <1>2, <1>3

LEMMA DowngradeReaches ==
    ASSUME NEW k \in 1..3, NEW s, Is(s, k)
    PROVE  Is(After(Downgrade(k), s), k - 1)
<1> USE Kinds DEF Is, SchemaOf, After, Step
<1>1. CASE k = 1
  <2>1. Downgrade(1) = Step(AllTables, {}, {}, AllTables \cup TimeZones \cup Reminder)
    BY DEF Downgrade
  <2> QED
    BY <1>1, <2>1
<1>2. CASE k = 2
  <2>1. Downgrade(2) = Step(AllTables, {}, {}, TimeZones)
    BY DEF Downgrade
  <2>2. s = AllTables \cup Enum \cup TimeZones
    BY <1>2
  <2> QED
    BY <1>2, <2>1, <2>2
<1>3. CASE k = 3
  <2>1. Downgrade(3) = Step(Reminder, {}, {}, Reminder)
    BY DEF Downgrade
  <2>2. s = AllTables \cup Enum \cup TimeZones \cup Reminder
    BY <1>3
  <2> QED
    BY <1>3, <2>1, <2>2
<1> QED
  BY <1>1, <1>2, <1>3

\* what Can asks of a schema of revision k holds, but for a type left over
LEMMA UpgradeApplies ==
    ASSUME NEW k \in 0..2, NEW s, Is(s, k), k = 0 => ~ Enum \subseteq s
    PROVE  Can(Upgrade(k + 1), s)
<1> USE Kinds DEF Is, SchemaOf, Can, Step
<1>1. CASE k = 0
  <2>1. Upgrade(1) = Step({}, AllTables \cup Enum, AllTables \cup Enum, {})
    BY DEF Upgrade
  <2>2. s \subseteq Enum /\ ~ Enum \subseteq s
    BY <1>1
  <2>3. s = {}
    BY <2>2 DEF Enum
  <2> QED
    BY <1>1, <2>1, <2>3
<1>2. CASE k = 1
  <2>1. Upgrade(2) = Step(AllTables, {}, TimeZones, {})
    BY DEF Upgrade
  <2>2. AllTables \subseteq s
    BY <1>2
  <2> QED
    BY <1>2, <2>1, <2>2
<1>3. CASE k = 2
  <2>1. Upgrade(3) = Step(AllTables, Reminder, Reminder, {})
    BY DEF Upgrade
  <2>2. AllTables \subseteq s /\ Reminder \cap s = {}
    BY <1>3
  <2> QED
    BY <1>3, <2>1, <2>2
<1> QED
  BY <1>1, <1>2, <1>3

LEMMA DowngradeApplies ==
    ASSUME NEW k \in 1..3, NEW s, Is(s, k)
    PROVE  Can(Downgrade(k), s)
<1> USE DEF Is, SchemaOf, Can, Step
<1>1. CASE k \in {1, 2}
  <2>1. Downgrade(k).needs = AllTables /\ Downgrade(k).bars = {}
    BY <1>1 DEF Downgrade
  <2>2. AllTables \subseteq s
    BY <1>1
  <2> QED
    BY <2>1, <2>2
<1>2. CASE k = 3
  <2>1. Downgrade(3).needs = Reminder /\ Downgrade(3).bars = {}
    BY DEF Downgrade
  <2>2. Reminder \subseteq s
    BY <1>2
  <2> QED
    BY <1>2, <2>1, <2>2
<1> QED
  BY <1>1, <1>2

(***************************************************************************)
(* The invariant.  A migrating container carries the schema of a revision  *)
(* on the way from the one it found to its head.                           *)
(***************************************************************************)
OnTheWay(b, last) ==
    /\ b.from <= b.at /\ b.at <= last
    /\ Is(b.base, b.from) /\ Is(b.view, b.at)
    /\ b.at = b.from => b.view = b.base
    /\ rev >= b.from \/ downgrades > 0

Inv ==
    /\ TypeOK
    /\ Is(schema, rev)
    /\ \A i \in Containers : box[i].pc = "migrating" => OnTheWay(box[i], Head[i])
    /\ ServesAtHead

LEMMA Advanced ==
    ASSUME NEW b \in Boxes, b.pc = "migrating", NEW k, NEW s
    PROVE  [b EXCEPT !.at = k, !.view = s] =
              [pc |-> "migrating", from |-> b.from, base |-> b.base, at |-> k, view |-> s]
<1>1. b = [pc |-> "migrating", from |-> b.from, base |-> b.base, at |-> b.at,
           view |-> b.view]
  BY DEF Boxes
<1>2. [b EXCEPT !.at = k] =
         [pc |-> "migrating", from |-> b.from, base |-> b.base, at |-> k,
          view |-> b.view]
  BY <1>1
<1>3. [b EXCEPT !.at = k, !.view = s] = [[b EXCEPT !.at = k] EXCEPT !.view = s]
  OBVIOUS
<1>4. [[pc |-> "migrating", from |-> b.from, base |-> b.base, at |-> k,
        view |-> b.view] EXCEPT !.view = s] =
         [pc |-> "migrating", from |-> b.from, base |-> b.base, at |-> k, view |-> s]
  OBVIOUS
<1> QED
  BY <1>2, <1>3, <1>4

LEMMA DownType == Down \in Boxes
BY DEF Down, Boxes

\* a step after which container i is down, and the database is as before
LEMMA GoesDown ==
    ASSUME Inv, NEW i \in Containers, box' = [box EXCEPT ![i] = Down],
           UNCHANGED <<schema, rev, downgrades>>, crashes' \in 0..MaxCrashes
    PROVE  Inv'
<1>1. TypeOK'
  BY DownType DEF Inv, TypeOK
<1>2. \A j \in Containers : box'[j] = box[j] \/ box'[j].pc = "down"
  BY DEF Inv, TypeOK, Down
<1>3. ServesAtHead'
  BY <1>2 DEF Inv, ServesAtHead
<1>4. \A j \in Containers : box'[j].pc = "migrating" => OnTheWay(box[j], Head[j])' 
  BY <1>2 DEF Inv, OnTheWay
<1> QED
  BY <1>1, <1>3, <1>4 DEF Inv

LEMMA InvStep == Inv /\ [Next]_vars => Inv'
<1> SUFFICES ASSUME Inv, [Next]_vars PROVE Inv'
  OBVIOUS
<1> USE HeadAssumption, BoundsAssumption
<1>1. CASE UNCHANGED vars
  BY <1>1 DEF vars, Inv, TypeOK, OnTheWay, ServesAtHead
<1>2. ASSUME NEW i \in Containers, Start(i) PROVE Inv'
  <2> DEFINE new == [pc |-> "migrating", from |-> rev, base |-> schema,
                     at |-> rev, view |-> schema]
  <2>1. /\ box' = [box EXCEPT ![i] = new] /\ rev <= Head[i]
        /\ UNCHANGED <<schema, rev, downgrades, crashes>>
    BY <1>2 DEF Start
  <2>2. new \in Boxes /\ OnTheWay(new, Head[i])
    BY <2>1 DEF Inv, TypeOK, Boxes, OnTheWay
  <2>3. box'[i] = new /\ \A j \in Containers \ {i} : box'[j] = box[j]
    BY <2>1 DEF Inv, TypeOK
  <2>4. TypeOK'
    BY <2>1, <2>2 DEF Inv, TypeOK
  <2>5. \A j \in Containers : box'[j].pc = "migrating" => OnTheWay(box[j], Head[j])'
    BY <2>1, <2>2, <2>3 DEF Inv, OnTheWay
  <2>6. ServesAtHead'
    BY <2>1, <2>3 DEF Inv, ServesAtHead
  <2> QED
    BY <2>1, <2>4, <2>5, <2>6 DEF Inv
<1>3. ASSUME NEW i \in Containers, Migrate(i) PROVE Inv'
  <2> DEFINE step == Upgrade(box[i].at + 1)
             new == [pc |-> "migrating", from |-> box[i].from, base |-> box[i].base,
                     at |-> box[i].at + 1, view |-> After(step, box[i].view)]
  <2>1. /\ box[i].pc = "migrating" /\ box[i].at < Head[i] /\ Can(step, box[i].view)
        /\ box' = [box EXCEPT ![i].at = @ + 1, ![i].view = After(step, @)]
        /\ UNCHANGED <<schema, rev, downgrades, crashes>>
    BY <1>3 DEF Migrate
  <2>2. box[i] \in Boxes /\ OnTheWay(box[i], Head[i]) /\ Head[i] \in 1..3
    BY <2>1 DEF Inv, TypeOK, Revisions
  <2>3. box[i].at \in 0..2
    BY <2>1, <2>2 DEF Boxes
  <2>4. Is(After(step, box[i].view), box[i].at + 1)
    BY <2>1, <2>2, <2>3, UpgradeReaches DEF OnTheWay
  <2>5. [box[i] EXCEPT !.at = box[i].at + 1, !.view = After(step, box[i].view)] = new
    BY <2>1, <2>2, Advanced
  <2>6. new \in Boxes /\ OnTheWay(new, Head[i])
    BY <2>1, <2>2, <2>3, <2>4 DEF Boxes, OnTheWay, Is
  <2>7. box' = [box EXCEPT ![i] = new]
    BY <2>1, <2>5
  <2>8. /\ box'[i] = new /\ box'[i].pc = "migrating"
        /\ \A j \in Containers \ {i} : box'[j] = box[j]
    BY <2>7 DEF Inv, TypeOK
  <2>9. TypeOK'
    BY <2>1, <2>6, <2>7 DEF Inv, TypeOK
  <2>10. \A j \in Containers : box'[j].pc = "migrating" => OnTheWay(box[j], Head[j])'
    BY <2>1, <2>6, <2>8 DEF Inv, OnTheWay
  <2>11. ServesAtHead'
    BY <2>1, <2>8 DEF Inv, ServesAtHead
  <2> QED
    BY <2>1, <2>9, <2>10, <2>11 DEF Inv
<1>4. ASSUME NEW i \in Containers, Commit(i) PROVE Inv'
  <2> DEFINE new == [Down EXCEPT !.pc = "serving"]
  <2>1. /\ box[i].pc = "migrating" /\ box[i].at = Head[i]
        /\ box' = [box EXCEPT ![i] = new]
        /\ UNCHANGED <<downgrades, crashes>>
    BY <1>4 DEF Commit
  <2>2. box[i] \in Boxes /\ OnTheWay(box[i], Head[i]) /\ Head[i] \in 1..3
    BY <2>1 DEF Inv, TypeOK, Revisions
  <2>3. new \in Boxes /\ new.pc = "serving"
    BY DEF Down, Boxes
  <2>4. box'[i] = new /\ \A j \in Containers \ {i} : box'[j] = box[j]
    BY <2>1 DEF Inv, TypeOK
  <2>5. /\ Is(schema, rev)' /\ rev' \in 0..3 /\ rev' >= rev
        /\ rev' >= Head[i] \/ downgrades > 0
    <3>1. CASE box[i].from = Head[i]
      BY <1>4, <2>2, <3>1 DEF Commit, OnTheWay, Inv, TypeOK, Is
    <3>2. CASE box[i].from # Head[i]
      <4>1. /\ rev = box[i].from /\ schema' = box[i].view /\ rev' = Head[i]
        BY <1>4, <3>2 DEF Commit, Undisturbed
      <4>2. Is(box[i].view, Head[i])
        BY <2>1, <2>2 DEF OnTheWay
      <4>3. rev' >= rev
        BY <2>1, <2>2, <4>1 DEF OnTheWay
      <4> QED
        BY <2>2, <4>1, <4>2, <4>3 DEF Is
    <3> QED
      BY <3>1, <3>2
  <2>6. TypeOK'
    BY <2>1, <2>3, <2>5 DEF Inv, TypeOK, Is
  <2>7. \A j \in Containers : box'[j].pc = "migrating" => OnTheWay(box[j], Head[j])'
    <3> SUFFICES ASSUME NEW j \in Containers, box'[j].pc = "migrating"
                 PROVE  OnTheWay(box[j], Head[j])'
      OBVIOUS
    <3>1. box'[j] = box[j]
      BY <2>3, <2>4
    <3>2. OnTheWay(box[j], Head[j]) /\ box[j].from \in 0..3
      BY <3>1 DEF Inv, TypeOK, Boxes
    <3> QED
      BY <2>1, <2>5, <3>1, <3>2 DEF OnTheWay, Inv, TypeOK
  <2>8. ServesAtHead'
    BY <2>1, <2>2, <2>4, <2>5 DEF Inv, TypeOK, ServesAtHead, Revisions
  <2> QED
    BY <2>5, <2>6, <2>7, <2>8 DEF Inv
<1>5. ASSUME NEW i \in Containers, Abort(i) \/ Crash(i) PROVE Inv'
  <2>1. crashes' \in 0..MaxCrashes
    BY <1>5 DEF Abort, Crash, Inv, TypeOK
  <2> QED
    BY <1>5, <2>1, GoesDown DEF Abort, Crash
<1>6. CASE DowngradeByHand
  <2>1. /\ rev > 0 /\ rev' = rev - 1 /\ schema' = After(Downgrade(rev), schema)
        /\ downgrades < MaxDowngrades /\ downgrades' = downgrades + 1
        /\ UNCHANGED <<box, crashes>>
    BY <1>6 DEF DowngradeByHand
  <2>2. rev \in 1..3
    BY <2>1 DEF Inv, TypeOK
  <2>3. Is(schema, rev)'
    BY <2>1, <2>2, DowngradeReaches DEF Inv, Is
  <2>4. TypeOK'
    BY <2>1, <2>2, <2>3 DEF Inv, TypeOK, Is
  <2>5. downgrades' > 0
    BY <2>1 DEF Inv, TypeOK
  <2> QED
    BY <2>1, <2>3, <2>4, <2>5 DEF Inv, OnTheWay, ServesAtHead
<1> QED
  BY <1>1, <1>2, <1>3, <1>4, <1>5, <1>6 DEF Next

LEMMA InvInit == Init => Inv
BY DownType, BoundsAssumption, HeadAssumption, Kinds
DEF Init, Inv, TypeOK, Is, SchemaOf, OnTheWay, ServesAtHead, Down

\* The committed schema consists of objects the revisions know, and a
\* container's transaction works on such a schema.
THEOREM MigrationsTypeCorrect == Spec => []TypeOK
<1>1. Inv => TypeOK
  BY DEF Inv
<1> QED
  BY <1>1, InvInit, InvStep, PTL DEF Spec

\* The version row tells the schema (alembic/env.py:63-67), however many
\* containers of whatever images migrate side by side, die or meet downgrades.
THEOREM VersionTellsSchema == Spec => []SchemaIsRevision
<1>1. Inv => SchemaIsRevision
  BY DEF Inv, Is, SchemaIsRevision
<1> QED
  BY <1>1, InvInit, InvStep, PTL DEF Spec

\* Who serves has its revisions in place (entrypoint.sh:2-9) as long as nobody
\* downgrades by hand.
THEOREM ServersFindTheirSchema == Spec => []ServesAtHead
<1>1. Inv => ServesAtHead
  BY DEF Inv
<1> QED
  BY <1>1, InvInit, InvStep, PTL DEF Spec

\* Revisions fit each other (the `revision' and `down_revision' of
\* alembic/versions, cb22edc478b0_initial.py:87 and the others): in no fleet does one
\* raise but behind another container or at the type the first leaves behind.
THEOREM RevisionsFit == Spec => []RevisionsApply
<1>1. ASSUME Inv PROVE RevisionsApply
  <2>1. ASSUME NEW i \in Containers, box[i].pc = "migrating", box[i].at < Head[i],
               ~ Can(Upgrade(box[i].at + 1), box[i].view)
        PROVE  box[i].from = 0 /\ Enum \subseteq box[i].base
    <3>1. box[i] \in Boxes /\ OnTheWay(box[i], Head[i]) /\ Head[i] \in 1..3
      BY <1>1, <2>1, HeadAssumption DEF Inv, TypeOK, Revisions
    <3>2. box[i].at \in 0..2 /\ box[i].from \in 0..3 /\ Is(box[i].view, box[i].at)
      BY <2>1, <3>1 DEF Boxes, OnTheWay
    <3>3. box[i].at = 0 /\ Enum \subseteq box[i].view
      BY <2>1, <3>2, UpgradeApplies
    <3>4. box[i].from = 0
      BY <3>1, <3>2, <3>3 DEF OnTheWay
    <3> QED
      BY <3>1, <3>3, <3>4 DEF OnTheWay
  <2>2. rev > 0 => Can(Downgrade(rev), schema)
    BY <1>1, DowngradeApplies DEF Inv, TypeOK
  <2> QED
    BY <2>1, <2>2 DEF RevisionsApply
<1> QED
  BY <1>1, InvInit, InvStep, PTL DEF Spec

=============================================================================
