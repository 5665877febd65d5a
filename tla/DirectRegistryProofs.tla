------------------------ MODULE DirectRegistryProofs ------------------------
(***************************************************************************)
(* The invariants of the worker's ownership journal, for any set of        *)
(* sandboxes, operations and migrations and any bounds.                    *)
(***************************************************************************)
EXTENDS DirectRegistry, TLAPS

\* Every completed deletion is below the generation tombstone.
BuriedBelowTomb == \A s \in Sandboxes, g \in Generations : <<s, g>> \in buried => g <= tomb[s]

\* A registration a create inserted is above the generation tombstone.
CreateAboveTomb ==
    \A s \in Sandboxes : Present(s) /\ s \notin imported => rec[s].gen > tomb[s]

\* Every migration the worker is done with has its tombstone.
EndedRetired ==
    \A s \in Sandboxes, m \in Migrations : <<s, m>> \in ended => <<s, m>> \in retired

\* The journal never works for a migration that has a tombstone.
UnretiredAtWork ==
    \A s \in Sandboxes :
        rec[s].phase \notin {"none", "moving_out", "deleting"} /\ rec[s].mig # NoMigration =>
            <<s, rec[s].mig>> \notin retired

IInv ==
    /\ TypeOK
    /\ CrashLosesOnlyOwned
    /\ BuriedBelowTomb
    /\ CreateAboveTomb
    /\ EndedRetired
    /\ UnretiredAtWork
    /\ RegistrationValid

USE BoundsAssumption, NullAssumption

-----------------------------------------------------------------------------

\* The empty journal satisfies the inductive invariant.
LEMMA InitIInv == Init => IInv
  BY DEF Init, IInv, TypeOK, CrashLosesOnlyOwned, BuriedBelowTomb, CreateAboveTomb, EndedRetired,
         UnretiredAtWork, RegistrationValid, Table, Tombs, Retirements, Record, NoRecord,
         Present, Generations, Phases

\* What every conditional update of a row (_transition) does to it.
LEMMA TransitionFacts ==
  ASSUME TypeOK,
         NEW s \in Sandboxes, NEW revision \in Nat, NEW expected \in SUBSET Phases,
         NEW phase \in Phases, NEW migration \in Migrations \union {NoMigration},
         Transition(s, revision, expected, phase, migration)
  PROVE  /\ rec' \in Table
         /\ rec[s].phase \in expected
         /\ rec'[s] = Moved(rec[s], phase, migration)
         /\ Present(s)
         /\ rec[s].gen \in Generations
         /\ \A x \in Sandboxes \ {s} : rec'[x] = rec[x]
  BY DEF TypeOK, Table, Record, NoRecord, Transition, Moved, Present, Phases,
         Generations

\* A durable update of one row that keeps the row's migration and leaves the
\* tombstones alone preserves the invariant, provided it does not take the row
\* back to work for its migration and respects the row's validity rules.
LEMMA AdvanceIInv ==
  ASSUME IInv,
         NEW s \in Sandboxes, NEW expected \in SUBSET Phases, NEW phase \in Phases,
         Advance(s, expected, phase),
         expected \intersect {"moving_out", "deleting"} # {} => phase = "deleting",
         phase \in {"import_planned", "importing", "import_ready", "moving_out"}
            => rec[s].mig # NoMigration,
         phase \in {"planned", "quota_ready"} => rec[s].mig = NoMigration
  PROVE  IInv'
<1>1. /\ rec' \in Table
      /\ rec[s].phase \in expected
      /\ rec'[s] = Moved(rec[s], phase, rec[s].mig)
      /\ Present(s)
      /\ rec[s].gen \in Generations
      /\ \A x \in Sandboxes \ {s} : rec'[x] = rec[x]
  <2>1. TypeOK BY DEF IInv
  <2>2. rec[s].rev \in Nat /\ rec[s].mig \in Migrations \union {NoMigration}
    BY <2>1 DEF TypeOK, Table, Record, NoRecord
  <2>3. Transition(s, rec[s].rev, expected, phase, rec[s].mig) BY DEF Advance
  <2> QED BY <2>1, <2>2, <2>3, TransitionFacts, Zenon
<1>2. UNCHANGED <<tomb, view, imported, buried, retired, ended>>
  BY DEF Advance, Transition
<1>3. disk' = [rec |-> rec', tomb |-> tomb', retired |-> retired']
  BY DEF Advance, Durable
<1>4. TypeOK'
  BY <1>1, <1>2, <1>3 DEF IInv, TypeOK
<1>5. CrashLosesOnlyOwned' /\ BuriedBelowTomb' /\ EndedRetired'
  BY <1>2, <1>3 DEF IInv, CrashLosesOnlyOwned, BuriedBelowTomb, EndedRetired
<1>6. CreateAboveTomb'
  BY <1>1, <1>2 DEF IInv, CreateAboveTomb, Present, Moved
<1>7. UnretiredAtWork'
  BY <1>1, <1>2 DEF IInv, UnretiredAtWork, Moved, Phases
<1>8. RegistrationValid'
  BY <1>1, <1>2 DEF IInv, RegistrationValid, Moved
<1> QED BY <1>4, <1>5, <1>6, <1>7, <1>8 DEF IInv

\* Inserting a planned row: plan refuses buried generations, plan_import
\* refuses retired migrations.
LEMMA InsertIInv ==
  ASSUME IInv, NEW s \in Sandboxes, NEW g \in Generations, NEW o \in Operations,
         \/ Plan(s, g, o)
         \/ \E m \in Migrations : PlanImport(s, g, o, m)
  PROVE  IInv'
<1>1. PICK m \in Migrations \union {NoMigration}, phase \in {"planned", "import_planned"} :
         /\ ~Present(s)
         /\ rec' = [rec EXCEPT ![s] = [gen |-> g, op |-> o, phase |-> phase,
                                       rev |-> 1, mig |-> m]]
         /\ phase = "planned" <=> m = NoMigration
         /\ phase = "planned" => tomb[s] < g /\ imported' = imported \ {s}
         /\ phase = "import_planned" =>
               <<s, m>> \notin retired /\ imported' = imported \union {s}
  BY Zenon DEF Plan, PlanImport
<1>2. /\ UNCHANGED <<tomb, retired, view, buried, ended>>
      /\ disk' = [rec |-> rec', tomb |-> tomb', retired |-> retired']
  BY Zenon DEF Plan, PlanImport, Durable
<1>3. rec' \in Table
  BY <1>1 DEF IInv, TypeOK, Table, Record, Phases
<1>4. TypeOK'
  BY <1>1, <1>2, <1>3 DEF IInv, TypeOK
<1>5. CrashLosesOnlyOwned' /\ BuriedBelowTomb' /\ EndedRetired'
  BY <1>2 DEF IInv, CrashLosesOnlyOwned, BuriedBelowTomb, EndedRetired
<1>6. CreateAboveTomb'
  BY <1>1, <1>2 DEF IInv, TypeOK, Table, Tombs, Generations, CreateAboveTomb, Present
<1>7. UnretiredAtWork' /\ RegistrationValid'
  BY <1>1, <1>2 DEF IInv, TypeOK, Table, UnretiredAtWork, RegistrationValid
<1> QED BY <1>4, <1>5, <1>6, <1>7 DEF IInv

\* Removing a row: both ways out leave the tombstones that keep it out.
LEMMA RemoveIInv ==
  ASSUME IInv, NEW s \in Sandboxes,
         \/ \E m \in Migrations : AbortImportPlanned(s, m)
         \/ \E g \in Generations : CommitDeleted(s, g)
  PROVE  IInv'
<1>1. /\ rec' = [rec EXCEPT ![s] = NoRecord]
      /\ retired' = Retire(s, rec[s].mig)
      /\ ended' = ended \union {<<s, rec[s].mig>>}
      /\ UNCHANGED <<view, imported>>
      /\ disk' = [rec |-> rec', tomb |-> tomb', retired |-> retired']
      /\ rec[s].phase \in {"import_planned", "deleting"}
  BY DEF AbortImportPlanned, CommitDeleted, Durable
<1>2. \/ UNCHANGED <<tomb, buried>>
      \/ \E g \in Generations : /\ tomb' = [tomb EXCEPT ![s] = IF @ < g THEN g ELSE @]
                                /\ buried' = buried \union {<<s, g>>}
  BY DEF AbortImportPlanned, CommitDeleted
<1>3. rec[s].mig \in Migrations \union {NoMigration}
  BY <1>1 DEF IInv, TypeOK, Table, Record, NoRecord
<1>4. tomb' \in Tombs /\ (buried \subseteq buried') /\ BuriedBelowTomb'
  BY <1>2 DEF IInv, TypeOK, Tombs, Generations, BuriedBelowTomb
<1>5. buried' \subseteq Sandboxes \X Generations
  BY <1>2 DEF IInv, TypeOK
<1>6. TypeOK'
  <2>1. rec' \in Table BY <1>1 DEF IInv, TypeOK, Table
  <2>2. retired' \in Retirements BY <1>1, <1>3 DEF IInv, TypeOK, Retirements, Retire
  <2>3. ended' \subseteq Sandboxes \X (Migrations \union {NoMigration})
    BY <1>1, <1>3 DEF IInv, TypeOK
  <2> QED BY <1>1, <1>4, <1>5, <2>1, <2>2, <2>3 DEF IInv, TypeOK
<1>7. CrashLosesOnlyOwned'
  BY <1>1 DEF CrashLosesOnlyOwned
<1>8. CreateAboveTomb'
  BY <1>1, <1>2 DEF IInv, TypeOK, Table, Tombs, CreateAboveTomb, Present
<1>9. EndedRetired'
  BY <1>1, <1>3 DEF IInv, EndedRetired, Retire
<1>10. UnretiredAtWork' /\ RegistrationValid'
  BY <1>1, <1>3 DEF IInv, TypeOK, Table, UnretiredAtWork, RegistrationValid, Retire, NoRecord
<1> QED BY <1>4, <1>6, <1>7, <1>8, <1>9, <1>10 DEF IInv

\* commit_owned is the one transition that leaves the fsynced image behind.
LEMMA CommitOwnedIInv ==
  ASSUME IInv, NEW s \in Sandboxes, CommitOwned(s)
  PROVE  IInv'
<1>1. TypeOK /\ rec[s].rev \in Nat
  BY DEF IInv, TypeOK, Table, Record, NoRecord
<1>2. /\ rec' \in Table
      /\ rec[s].phase = "rootfs_ready"
      /\ rec'[s] = Moved(rec[s], "owned", NoMigration)
      /\ rec[s].mig = NoMigration
      /\ Present(s)
      /\ \A x \in Sandboxes \ {s} : rec'[x] = rec[x]
  <2>1. Transition(s, rec[s].rev, {"rootfs_ready"}, "owned", NoMigration) /\ rec[s].mig = NoMigration
    BY DEF CommitOwned
  <2>2. {"rootfs_ready"} \in SUBSET Phases /\ "owned" \in Phases
    BY DEF Phases
  <2>3. /\ rec' \in Table
        /\ rec[s].phase \in {"rootfs_ready"}
        /\ rec'[s] = Moved(rec[s], "owned", NoMigration)
        /\ Present(s)
        /\ rec[s].gen \in Generations
        /\ \A x \in Sandboxes \ {s} : rec'[x] = rec[x]
    BY <1>1, <2>1, <2>2 DEF TypeOK, Table, Record, NoRecord, Transition, Moved, Present, Phases, Generations
  <2> QED BY <2>1, <2>3
<1>3. UNCHANGED <<tomb, view, imported, buried, retired, ended, disk>>
  BY DEF CommitOwned, Transition
<1>4. TypeOK' /\ BuriedBelowTomb' /\ EndedRetired'
  BY <1>2, <1>3 DEF IInv, TypeOK, BuriedBelowTomb, EndedRetired
<1>5. CrashLosesOnlyOwned'
  <2>1. disk.rec[s] = rec[s]
    <3>1. ~(rec[s] = Moved(disk.rec[s], "owned", NoMigration))
      BY <1>2 DEF Moved
    <3> QED BY <3>1 DEF IInv, CrashLosesOnlyOwned
  <2> QED BY <1>2, <1>3, <2>1 DEF IInv, CrashLosesOnlyOwned
<1>6. CreateAboveTomb' /\ UnretiredAtWork' /\ RegistrationValid'
  BY <1>2, <1>3 DEF IInv, CreateAboveTomb, UnretiredAtWork, RegistrationValid, Present, Moved
<1> QED BY <1>4, <1>5, <1>6 DEF IInv

\* Moving out retires the migration that brought the sandbox; aborting the
\* move forgets the migration that was to take it away.
LEMMA MoveOutIInv ==
  ASSUME IInv, NEW s \in Sandboxes, NEW m \in Migrations,
         BeginMoveOut(s, m) \/ AbortMoveOut(s, m)
  PROVE  IInv'
<1>1. /\ TypeOK
      /\ rec[s].rev \in Nat
      /\ view[s].rev \in Nat
      /\ rec[s].mig \in Migrations \union {NoMigration}
  BY DEF IInv, TypeOK, Table, Record, NoRecord
<1>2. PICK n \in {m, NoMigration}, from \in {"owned", "moving_out"},
           to \in {"owned", "moving_out"}, revision \in Nat :
         /\ Transition(s, revision, {from}, to, n)
         /\ to = "moving_out" => n = m
         /\ to = "owned" => n = NoMigration /\ UNCHANGED <<retired, ended>>
         /\ to = "moving_out" => /\ retired' = Retire(s, rec[s].mig)
                                 /\ ended' = ended \union {<<s, rec[s].mig>>}
  <2>1. CASE BeginMoveOut(s, m) BY <1>1, <2>1 DEF BeginMoveOut
  <2>2. CASE AbortMoveOut(s, m) BY <1>1, <2>2 DEF AbortMoveOut
  <2> QED BY <2>1, <2>2
<1>3. /\ rec' \in Table
      /\ rec[s].phase = from
      /\ rec'[s] = Moved(rec[s], to, n)
      /\ Present(s)
      /\ \A x \in Sandboxes \ {s} : rec'[x] = rec[x]
  <2>1. {from} \in SUBSET Phases /\ to \in Phases
    BY DEF Phases
  <2>2. n \in Migrations \union {NoMigration}
    OBVIOUS
  <2>3. Transition(s, revision, {from}, to, n)
    BY <1>2
  <2>4. /\ rec' \in Table
        /\ rec[s].phase \in {from}
        /\ rec'[s] = Moved(rec[s], to, n)
        /\ Present(s)
        /\ rec[s].gen \in Generations
        /\ \A x \in Sandboxes \ {s} : rec'[x] = rec[x]
    BY <1>1, <2>1, <2>2, <2>3, TransitionFacts, Zenon
  <2> QED BY <2>4
<1>4. /\ UNCHANGED <<tomb, view, imported, buried>>
      /\ disk' = [rec |-> rec', tomb |-> tomb', retired |-> retired']
  BY DEF BeginMoveOut, AbortMoveOut, Transition, Durable
<1>5. TypeOK'
  <2>1. /\ retired' \in Retirements
        /\ ended' \subseteq Sandboxes \X (Migrations \union {NoMigration})
    BY <1>1, <1>2 DEF TypeOK, Retirements, Retire
  <2> QED BY <1>3, <1>4, <2>1 DEF IInv, TypeOK
<1>6. CrashLosesOnlyOwned' /\ BuriedBelowTomb'
  BY <1>4 DEF IInv, CrashLosesOnlyOwned, BuriedBelowTomb
<1>7. EndedRetired'
  BY <1>1, <1>2 DEF IInv, EndedRetired, Retire
<1>8. CreateAboveTomb' /\ RegistrationValid'
  BY <1>2, <1>3, <1>4 DEF IInv, CreateAboveTomb, RegistrationValid, Present, Moved
<1>9. UnretiredAtWork'
  BY <1>1, <1>2, <1>3 DEF IInv, UnretiredAtWork, Moved, Retire
<1> QED BY <1>5, <1>6, <1>7, <1>8, <1>9 DEF IInv

\* Every step of the worker, and every crash of its machine, preserves the
\* inductive invariant.
LEMMA NextIInv ==
  ASSUME IInv, [Next]_vars
  PROVE  IInv'
<1>1. ASSUME NEW s \in Sandboxes, Create(s) PROVE IInv'
  <2>1. CASE \E g \in Generations, o \in Operations : Plan(s, g, o)
    BY <2>1, InsertIInv
  <2>2. CASE CommitQuota(s)
    <3>1. Advance(s, {"planned"}, "quota_ready") /\ rec[s].phase = "planned"
      BY <2>2 DEF CommitQuota, Advance, Transition
    <3>2. rec[s].mig = NoMigration
      BY <3>1 DEF IInv, RegistrationValid
    <3>3. {"planned"} \in SUBSET Phases /\ "quota_ready" \in Phases BY DEF Phases
    <3> QED BY <3>1, <3>2, <3>3, AdvanceIInv
  <2>3. CASE CommitRootfs(s)
    <3>1. Advance(s, {"planned", "quota_ready"}, "rootfs_ready") BY <2>3 DEF CommitRootfs
    <3>2. {"planned", "quota_ready"} \in SUBSET Phases /\ "rootfs_ready" \in Phases BY DEF Phases
    <3> QED BY <3>1, <3>2, AdvanceIInv
  <2>4. CASE CommitOwned(s) BY <2>4, CommitOwnedIInv
  <2> QED BY <1>1, <2>1, <2>2, <2>3, <2>4 DEF Create
<1>2. ASSUME NEW s \in Sandboxes, Import(s) PROVE IInv'
  <2>1. CASE \E g \in Generations, o \in Operations, m \in Migrations : PlanImport(s, g, o, m)
    BY <2>1, InsertIInv
  <2>2. CASE CommitImportQuota(s)
    <3>1. Advance(s, {"import_planned"}, "importing") /\ rec[s].phase = "import_planned"
      BY <2>2 DEF CommitImportQuota, Advance, Transition
    <3>2. rec[s].mig # NoMigration
      BY <3>1 DEF IInv, RegistrationValid
    <3>3. {"import_planned"} \in SUBSET Phases /\ "importing" \in Phases BY DEF Phases
    <3> QED BY <3>1, <3>2, <3>3, AdvanceIInv
  <2>3. CASE CommitImportRootfs(s)
    <3>1. Advance(s, {"importing"}, "rootfs_ready") BY <2>3 DEF CommitImportRootfs
    <3>2. {"importing"} \in SUBSET Phases /\ "rootfs_ready" \in Phases BY DEF Phases
    <3> QED BY <3>1, <3>2, AdvanceIInv
  <2>4. ASSUME NEW m \in Migrations, CommitImportReady(s, m) PROVE IInv'
    <3>1. Advance(s, {"rootfs_ready"}, "import_ready") /\ rec[s].mig # NoMigration
      BY <2>4 DEF CommitImportReady, Fenced
    <3>2. {"rootfs_ready"} \in SUBSET Phases /\ "import_ready" \in Phases BY DEF Phases
    <3> QED BY <3>1, <3>2, AdvanceIInv
  <2>5. ASSUME NEW m \in Migrations, ActivateImport(s, m) PROVE IInv'
    <3>1. Advance(s, {"import_ready"}, "owned") BY <2>5 DEF ActivateImport, Fenced
    <3>2. {"import_ready"} \in SUBSET Phases /\ "owned" \in Phases BY DEF Phases
    <3> QED BY <3>1, <3>2, AdvanceIInv
  <2>6. ASSUME NEW m \in Migrations, AbortImportPlanned(s, m) PROVE IInv'
    BY <2>6, RemoveIInv
  <2>7. ASSUME NEW m \in Migrations, BeginDeleteImport(s, m) PROVE IInv'
    <3>1. Advance(s, {"importing", "rootfs_ready", "import_ready"}, "deleting")
      BY <2>7 DEF BeginDeleteImport, Fenced
    <3>2. {"importing", "rootfs_ready", "import_ready"} \in SUBSET Phases /\ "deleting" \in Phases
      BY DEF Phases
    <3> QED BY <3>1, <3>2, AdvanceIInv
  <2> QED BY <1>2, <2>1, <2>2, <2>3, <2>4, <2>5, <2>6, <2>7 DEF Import
<1>3. ASSUME NEW s \in Sandboxes, MoveOut(s) PROVE IInv'
  <2>1. CASE ReadForAbort(s)
    BY <2>1 DEF ReadForAbort, history, IInv, TypeOK, CrashLosesOnlyOwned, BuriedBelowTomb, EndedRetired,
                CreateAboveTomb, UnretiredAtWork, RegistrationValid, Present, Table
  <2>2. ASSUME NEW m \in Migrations, BeginMoveOut(s, m) \/ AbortMoveOut(s, m) PROVE IInv'
    BY <2>2, MoveOutIInv
  <2>3. ASSUME NEW m \in Migrations, BeginDeleteMoved(s, m) PROVE IInv'
    <3>1. Advance(s, {"moving_out"}, "deleting") BY <2>3 DEF BeginDeleteMoved, Fenced
    <3>2. {"moving_out"} \in SUBSET Phases /\ "deleting" \in Phases BY DEF Phases
    <3> QED BY <3>1, <3>2, AdvanceIInv
  <2> QED BY <1>3, <2>1, <2>2, <2>3 DEF MoveOut
<1>4. ASSUME NEW s \in Sandboxes, Delete(s) PROVE IInv'
  <2>1. ASSUME NEW g \in Generations, BeginDelete(s, g) PROVE IInv'
    <3>1. Advance(s, {"planned", "quota_ready", "rootfs_ready", "owned"}, "deleting")
      BY <2>1 DEF BeginDelete
    <3>2. /\ {"planned", "quota_ready", "rootfs_ready", "owned"} \in SUBSET Phases
          /\ "deleting" \in Phases
      BY DEF Phases
    <3> QED BY <3>1, <3>2, AdvanceIInv
  <2>2. ASSUME NEW g \in Generations, CommitDeleted(s, g) PROVE IInv'
    BY <2>2, RemoveIInv
  <2> QED BY <1>4, <2>1, <2>2 DEF Delete
<1>5. CASE Writeback
  BY <1>5 DEF Writeback, Durable, history, IInv, TypeOK, CrashLosesOnlyOwned, BuriedBelowTomb,
              EndedRetired, CreateAboveTomb, UnretiredAtWork, RegistrationValid, Present
<1>6. CASE Crash
  <2>1. /\ rec' = disk.rec /\ tomb' = tomb /\ retired' = retired /\ disk' = disk
        /\ UNCHANGED <<imported, buried, ended>>
        /\ view' = [s \in Sandboxes |-> NoRecord]
    BY <1>6 DEF Crash, history, IInv, CrashLosesOnlyOwned
  <2>2. \A s \in Sandboxes :
           \/ rec'[s] = rec[s]
           \/ /\ rec'[s].phase = "rootfs_ready" /\ rec'[s].mig = NoMigration
              /\ rec'[s].gen = rec[s].gen /\ Present(s)
    <3>1. SUFFICES ASSUME NEW s \in Sandboxes, rec'[s] # rec[s]
                   PROVE  /\ rec'[s].phase = "rootfs_ready" /\ rec'[s].mig = NoMigration
                          /\ rec'[s].gen = rec[s].gen /\ Present(s)
      OBVIOUS
    <3>2. /\ rec'[s].phase = "rootfs_ready" /\ rec'[s].mig = NoMigration
          /\ rec[s] = Moved(rec'[s], "owned", NoMigration)
      BY <2>1, <3>1 DEF IInv, CrashLosesOnlyOwned
    <3> QED BY <3>2 DEF Moved, Present, NoRecord
  <2>3. TypeOK' BY <2>1 DEF IInv, TypeOK, Table
  <2>4. CrashLosesOnlyOwned' BY <2>1 DEF IInv, CrashLosesOnlyOwned
  <2>5. BuriedBelowTomb' /\ EndedRetired' BY <2>1 DEF IInv, BuriedBelowTomb, EndedRetired
  <2>6. CreateAboveTomb' BY <2>1, <2>2 DEF IInv, CreateAboveTomb, Present
  <2>7. UnretiredAtWork' /\ RegistrationValid'
    BY <2>1, <2>2 DEF IInv, UnretiredAtWork, RegistrationValid
  <2> QED BY <2>3, <2>4, <2>5, <2>6, <2>7 DEF IInv
<1>7. CASE UNCHANGED vars
  BY <1>7 DEF vars, IInv, TypeOK, CrashLosesOnlyOwned, BuriedBelowTomb, EndedRetired,
              CreateAboveTomb, UnretiredAtWork, RegistrationValid, Present
<1> QED BY <1>1, <1>2, <1>3, <1>4, <1>5, <1>6, <1>7 DEF Next

\* The journal always satisfies the inductive invariant.
THEOREM Invariance == Spec => []IInv
  BY InitIInv, NextIInv, PTL DEF Spec

\* Type correctness of the journal.
THEOREM TypeCorrect == Spec => []TypeOK
<1>1. IInv => TypeOK BY DEF IInv
<1> QED BY <1>1, Invariance, PTL

\* No late create revives a generation this worker has deleted.
THEOREM NeverResurrects == Spec => []NoResurrection
<1>1. IInv => NoResurrection
  BY DEF IInv, TypeOK, Table, Record, Tombs, Generations, NoResurrection, BuriedBelowTomb, CreateAboveTomb,
         Present
<1> QED BY <1>1, Invariance, PTL

\* No import that this worker rolled back, moved on or deleted starts again.
THEOREM NeverReimports == Spec => []RetiredStaysOut
<1>1. IInv => RetiredStaysOut
  BY DEF IInv, TypeOK, Table, Record, NoRecord, RetiredStaysOut, EndedRetired, UnretiredAtWork
<1> QED BY <1>1, Invariance, PTL

\* No transition commits a row that __post_init__ would refuse on the next load.
THEOREM AlwaysValid == Spec => []RegistrationValid
<1>1. IInv => RegistrationValid BY DEF IInv
<1> QED BY <1>1, Invariance, PTL

\* An operating system crash loses nothing but ownership steps that recovery derives again.
THEOREM CrashSafe == Spec => []CrashLosesOnlyOwned
<1>1. IInv => CrashLosesOnlyOwned BY DEF IInv
<1> QED BY <1>1, Invariance, PTL

\* A registration keeps its identity until a deletion or the rollback of a
\* bare import plan removes it.
THEOREM IdentityIsStable == Spec => IdentityStable
<1>1. ASSUME IInv, Next PROVE IdentityStep
  <2> SUFFICES ASSUME NEW s \in Sandboxes, Present(s)
               PROVE  \/ /\ rec'[s].gen = rec[s].gen
                         /\ rec'[s].op = rec[s].op
                         /\ rec'[s].rev >= rec[s].rev \/ rec' = disk.rec
                      \/ /\ rec'[s] = NoRecord
                         /\ rec[s].phase \in {"deleting", "import_planned"}
    BY DEF IdentityStep
  <2>1. rec \in Table /\ rec[s].rev \in Nat
    BY <1>1 DEF IInv, TypeOK, Table, Record, NoRecord
  <2>2. ASSUME NEW x \in Sandboxes, NEW revision, NEW expected, NEW phase, NEW migration,
               Transition(x, revision, expected, phase, migration)
        PROVE  rec'[s].gen = rec[s].gen /\ rec'[s].op = rec[s].op /\ rec'[s].rev >= rec[s].rev
    BY SMTT(20), <2>1, <2>2 DEF Transition, Moved, Table
  <2>3. ASSUME NEW x \in Sandboxes, Create(x) \/ Import(x) \/ MoveOut(x) \/ Delete(x)
        PROVE  \/ /\ rec'[s].gen = rec[s].gen
                  /\ rec'[s].op = rec[s].op
                  /\ rec'[s].rev >= rec[s].rev
               \/ /\ rec'[s] = NoRecord
                  /\ rec[s].phase \in {"deleting", "import_planned"}
    <3>1. CASE \E g \in Generations, o \in Operations :
                 Plan(x, g, o) \/ \E m \in Migrations : PlanImport(x, g, o, m)
      <4>1. ~Present(x) /\ \E r : rec' = [rec EXCEPT ![x] = r]
        BY <3>1, Zenon DEF Plan, PlanImport
      <4>2. x # s BY <4>1
      <4>3. rec'[s] = rec[s] BY <2>1, <4>1, <4>2 DEF Table
      <4> QED BY <2>1, <4>3
    <3>2. CASE \/ \E m \in Migrations : AbortImportPlanned(x, m)
               \/ \E g \in Generations : CommitDeleted(x, g)
      BY <2>1, <3>2 DEF AbortImportPlanned, CommitDeleted, Table
    <3>3. CASE ReadForAbort(x) BY <2>1, <3>3 DEF ReadForAbort
    <3>4. CASE \E revision, expected, phase, migration :
                 Transition(x, revision, expected, phase, migration)
      BY <2>2, <3>4
    <3>5. CASE \/ CommitQuota(x) \/ CommitRootfs(x) \/ CommitOwned(x)
               \/ CommitImportQuota(x) \/ CommitImportRootfs(x)
      BY <3>4, <3>5 DEF CommitQuota, CommitRootfs, CommitOwned, CommitImportQuota, CommitImportRootfs,
                        Advance
    <3>6. CASE \E m \in Migrations : \/ CommitImportReady(x, m) \/ ActivateImport(x, m)
                                     \/ BeginDeleteImport(x, m) \/ BeginMoveOut(x, m)
                                     \/ AbortMoveOut(x, m) \/ BeginDeleteMoved(x, m)
      BY <3>4, <3>6 DEF CommitImportReady, ActivateImport, BeginDeleteImport, BeginMoveOut, AbortMoveOut,
                        BeginDeleteMoved, Fenced, Advance
    <3>7. CASE \E g \in Generations : BeginDelete(x, g)
      BY <3>4, <3>7 DEF BeginDelete, Advance
    <3> QED BY <2>3, <3>1, <3>2, <3>3, <3>5, <3>6, <3>7, Zenon DEF Create, Import, MoveOut, Delete
  <2>4. CASE Writeback BY <2>1, <2>4 DEF Writeback
  <2>5. CASE Crash
    <3>1. rec' = disk.rec BY <2>5 DEF Crash
    <3>2. rec'[s].gen = rec[s].gen /\ rec'[s].op = rec[s].op
      <4>1. rec'[s] = rec[s] \/ rec[s] = Moved(rec'[s], "owned", NoMigration)
        BY <1>1, <3>1 DEF IInv, CrashLosesOnlyOwned
      <4> QED BY <4>1 DEF Moved
    <3> QED BY <3>1, <3>2
  <2> QED BY <1>1, <2>3, <2>4, <2>5 DEF Next
<1>2. IInv /\ [Next]_vars => [IdentityStep]_vars
  BY <1>1
<1> QED BY <1>2, Invariance, PTL DEF Spec, IdentityStable
=============================================================================
