--------------------------- MODULE DirectRegistry ---------------------------
(***************************************************************************)
(* The ownership journal one worker keeps of its sandboxes                 *)
(* (ucloud_sandboxes/direct_registry.py).  Every method of the class runs  *)
(* in one SQLite write transaction, so every method is one action.         *)
(*                                                                         *)
(* A request may reach the worker late or twice: the generation, operation *)
(* and migration of a request are chosen freely among the ones the gateway *)
(* could ever have sent.  What a request may do is decided by the journal  *)
(* alone.                                                                  *)
(*                                                                         *)
(* All commits are fsynced except commit_owned.  `disk' is the image that  *)
(* an operating system crash restores.                                     *)
(***************************************************************************)
EXTENDS Integers, FiniteSets

CONSTANTS
    Sandboxes,      \* sandbox ids
    Operations,     \* create operation ids, each standing for (operation, spec)
    Migrations,     \* migration ids, each standing for (id, snapshot digest)
    NoOperation,    \* the operation of an absent registration
    NoMigration,    \* the empty migration id
    MaxGeneration,  \* bound: highest sandbox generation the gateway issues
    MaxRevision     \* bound: highest revision a registration reaches

ASSUME BoundsAssumption ==
    /\ MaxGeneration \in Nat
    /\ MaxRevision \in Nat

ASSUME NullAssumption ==
    /\ NoOperation \notin Operations
    /\ NoMigration \notin Migrations

VARIABLES
    rec,        \* the registrations table
    tomb,       \* generation_tombstones: highest deleted generation, 0 if none
    retired,    \* migration_tombstones
    disk,       \* what the fsynced prefix of the WAL holds of the three tables
    view,       \* what abort_move read before it got the lifecycle lock
    imported,   \* history: the sandboxes whose registration an import inserted
    buried,     \* history: the generations whose deletion completed
    ended       \* history: the migrations this worker is done with

history == <<imported, buried, ended>>
vars == <<rec, tomb, retired, disk, view, imported, buried, ended>>

Phases == {"planned", "quota_ready", "rootfs_ready", "owned", "moving_out",
           "import_planned", "importing", "import_ready", "deleting"}

Generations == 1 .. MaxGeneration

NoRecord == [gen |-> 0, op |-> NoOperation, phase |-> "none", rev |-> 0,
             mig |-> NoMigration]

Record == [gen : Generations, op : Operations, phase : Phases,
           rev : Nat, mig : Migrations \union {NoMigration}]

Init ==
    /\ rec = [s \in Sandboxes |-> NoRecord]
    /\ tomb = [s \in Sandboxes |-> 0]
    /\ retired = {}
    /\ disk = [rec |-> rec, tomb |-> tomb, retired |-> retired]
    /\ view = [s \in Sandboxes |-> NoRecord]
    /\ imported = {}
    /\ buried = {}
    /\ ended = {}

-----------------------------------------------------------------------------
(* Transactions                                                            *)

Present(s) == rec[s] # NoRecord

\* Mutant: a tombstone row even for a registration without a migration.
RetireUnconditionally(s, m) == retired \union {<<s, m>>}

\* _retire, for a registration that may carry no migration
Retire(s, m) == retired \union {<<s, k>> : k \in {m} \ {NoMigration}}

\* A FULL commit syncs the whole WAL prefix.
Durable == disk' = [rec |-> rec', tomb |-> tomb', retired |-> retired']

\* The row a transition writes.
Moved(r, phase, migration) ==
    [gen |-> r.gen, op |-> r.op, phase |-> phase, rev |-> r.rev + 1, mig |-> migration]

\* _transition: the row must be in an expected phase at the expected revision
\* and, for a fenced transition, belong to the migration.
Transition(s, revision, expected, phase, migration) ==
    /\ Present(s)
    /\ rec[s].rev = revision
    /\ rec[s].phase \in expected
    /\ rec[s].rev < MaxRevision
    /\ rec' = [rec EXCEPT ![s] = Moved(rec[s], phase, migration)]
    /\ UNCHANGED <<tomb, view, imported, buried>>

\* A caller that read the row under the lifecycle lock it still holds.
Advance(s, expected, phase) ==
    /\ Transition(s, rec[s].rev, expected, phase, rec[s].mig)
    /\ UNCHANGED <<retired, ended>>
    /\ Durable

\* The same for a transition fenced by a migration identity.
Fenced(s, m, expected, phase) ==
    /\ rec[s].mig = m
    /\ Advance(s, expected, phase)

-----------------------------------------------------------------------------
(* Creation                                                                *)

\* plan: a replay of the registered create changes nothing and anything else
\* is refused while a registration exists.
Plan(s, g, o) ==
    /\ ~Present(s)
    /\ tomb[s] < g
    /\ rec' = [rec EXCEPT ![s] = [gen |-> g, op |-> o, phase |-> "planned",
                                  rev |-> 1, mig |-> NoMigration]]
    /\ imported' = imported \ {s}
    /\ UNCHANGED <<tomb, retired, view, buried, ended>>
    /\ Durable

CommitQuota(s) == Advance(s, {"planned"}, "quota_ready")

\* commit_rootfs: from `planned' the quota rides on this commit.
CommitRootfs(s) == Advance(s, {"planned", "quota_ready"}, "rootfs_ready")

\* commit_owned is not fsynced.  The provisioner makes this step only for a
\* create; an import leaves rootfs_ready through commit_import_ready.
CommitOwned(s) ==
    /\ rec[s].mig = NoMigration
    /\ Transition(s, rec[s].rev, {"rootfs_ready"}, "owned", rec[s].mig)
    /\ UNCHANGED <<retired, disk, ended>>

-----------------------------------------------------------------------------
(* Import at the destination of a migration                                *)

\* Mutant: the existing registration is not looked up.
PlanImportReplaces(s, g, o, m) ==
    /\ <<s, m>> \notin retired
    /\ rec' = [rec EXCEPT ![s] = [gen |-> g, op |-> o, phase |-> "import_planned",
                                  rev |-> 1, mig |-> m]]
    /\ imported' = imported \union {s}
    /\ UNCHANGED <<tomb, retired, view, buried, ended>>
    /\ Durable

PlanImport(s, g, o, m) ==
    /\ ~Present(s)
    /\ <<s, m>> \notin retired
    /\ rec' = [rec EXCEPT ![s] = [gen |-> g, op |-> o, phase |-> "import_planned",
                                  rev |-> 1, mig |-> m]]
    /\ imported' = imported \union {s}
    /\ UNCHANGED <<tomb, retired, view, buried, ended>>
    /\ Durable

CommitImportQuota(s) == Advance(s, {"import_planned"}, "importing")

CommitImportRootfs(s) == Advance(s, {"importing"}, "rootfs_ready")

\* Mutant: import readiness without the migration fence.
CommitImportReadyUnfenced(s, m) == Advance(s, {"rootfs_ready"}, "import_ready")

CommitImportReady(s, m) == Fenced(s, m, {"rootfs_ready"}, "import_ready")

ActivateImport(s, m) == Fenced(s, m, {"import_ready"}, "owned")

\* abort_import_planned: nothing was built, so the row goes at once.
AbortImportPlanned(s, m) ==
    /\ rec[s].phase = "import_planned"
    /\ rec[s].mig = m
    /\ rec' = [rec EXCEPT ![s] = NoRecord]
    /\ retired' = Retire(s, m)
    /\ ended' = ended \union {<<s, m>>}
    /\ UNCHANGED <<tomb, view, imported, buried>>
    /\ Durable

BeginDeleteImport(s, m) ==
    Fenced(s, m, {"importing", "rootfs_ready", "import_ready"}, "deleting")

-----------------------------------------------------------------------------
(* Moving out at the source of a migration                                 *)

\* Mutant: begin_move_out without retire=True.
BeginMoveOutKeepsImport(s, m) ==
    /\ Transition(s, rec[s].rev, {"owned"}, "moving_out", m)
    /\ ended' = ended \union {<<s, rec[s].mig>>}
    /\ UNCHANGED retired
    /\ Durable

\* begin_move_out retires the migration that brought the sandbox here.
BeginMoveOut(s, m) ==
    /\ Transition(s, rec[s].rev, {"owned"}, "moving_out", m)
    /\ retired' = Retire(s, rec[s].mig)
    /\ ended' = ended \union {<<s, rec[s].mig>>}
    /\ Durable

\* abort_move reads the registration, then waits for the lifecycle lock.
ReadForAbort(s) ==
    /\ Present(s)
    /\ view' = [view EXCEPT ![s] = rec[s]]
    /\ UNCHANGED <<rec, tomb, retired, disk, history>>

\* abort_move_out at the revision abort_move read.
AbortMoveOut(s, m) ==
    /\ view[s].phase # "owned"
    /\ rec[s].mig = m
    /\ Transition(s, view[s].rev, {"moving_out"}, "owned", NoMigration)
    /\ UNCHANGED <<retired, ended>>
    /\ Durable

BeginDeleteMoved(s, m) == Fenced(s, m, {"moving_out"}, "deleting")

-----------------------------------------------------------------------------
(* Deletion                                                                *)

\* Mutant: begin_delete with durable=False, like commit_owned.
BeginDeleteUnsynced(s, g) ==
    /\ rec[s].gen = g
    /\ rec[s].mig = NoMigration \/ rec[s].phase = "owned"
    /\ Transition(s, rec[s].rev, {"planned", "quota_ready", "rootfs_ready", "owned"},
                  "deleting", rec[s].mig)
    /\ UNCHANGED <<retired, ended, disk>>

\* provisioner.delete: a registration in the hands of a migration is refused
\* unless that migration has been activated here.
BeginDelete(s, g) ==
    /\ rec[s].gen = g
    /\ rec[s].mig = NoMigration \/ rec[s].phase = "owned"
    /\ Advance(s, {"planned", "quota_ready", "rootfs_ready", "owned"}, "deleting")

\* Mutant: INSERT OR REPLACE of the tombstone instead of MAX.
CommitDeletedReplaces(s, g) ==
    /\ rec[s].phase = "deleting"
    /\ rec[s].gen = g
    /\ tomb' = [tomb EXCEPT ![s] = g]
    /\ retired' = Retire(s, rec[s].mig)
    /\ rec' = [rec EXCEPT ![s] = NoRecord]
    /\ buried' = buried \union {<<s, g>>}
    /\ ended' = ended \union {<<s, rec[s].mig>>}
    /\ UNCHANGED <<view, imported>>
    /\ Durable

\* commit_deleted removes the row and leaves both tombstones.
CommitDeleted(s, g) ==
    /\ rec[s].phase = "deleting"
    /\ rec[s].gen = g
    /\ tomb' = [tomb EXCEPT ![s] = IF @ < g THEN g ELSE @]
    /\ retired' = Retire(s, rec[s].mig)
    /\ rec' = [rec EXCEPT ![s] = NoRecord]
    /\ buried' = buried \union {<<s, g>>}
    /\ ended' = ended \union {<<s, rec[s].mig>>}
    /\ UNCHANGED <<view, imported>>
    /\ Durable

-----------------------------------------------------------------------------
(* The storage below                                                       *)

\* SQLite checkpoints, or the kernel writes the WAL back, at any time.
Writeback ==
    /\ UNCHANGED <<rec, tomb, retired, view, history>>
    /\ Durable

\* An operating system crash loses what was not fsynced, and every caller.
Crash ==
    /\ rec' = disk.rec
    /\ tomb' = disk.tomb
    /\ retired' = disk.retired
    /\ view' = [s \in Sandboxes |-> NoRecord]
    /\ UNCHANGED <<disk, history>>

Create(s) ==
    \/ \E g \in Generations, o \in Operations : Plan(s, g, o)
    \/ CommitQuota(s)
    \/ CommitRootfs(s)
    \/ CommitOwned(s)

Import(s) ==
    \/ \E g \in Generations, o \in Operations, m \in Migrations : PlanImport(s, g, o, m)
    \/ CommitImportQuota(s)
    \/ CommitImportRootfs(s)
    \/ \E m \in Migrations : \/ CommitImportReady(s, m)
                             \/ ActivateImport(s, m)
                             \/ AbortImportPlanned(s, m)
                             \/ BeginDeleteImport(s, m)

MoveOut(s) ==
    \/ ReadForAbort(s)
    \/ \E m \in Migrations : \/ BeginMoveOut(s, m)
                             \/ AbortMoveOut(s, m)
                             \/ BeginDeleteMoved(s, m)

Delete(s) == \E g \in Generations : BeginDelete(s, g) \/ CommitDeleted(s, g)

Next ==
    \/ \E s \in Sandboxes : Create(s) \/ Import(s) \/ MoveOut(s) \/ Delete(s)
    \/ Writeback
    \/ Crash

Spec == Init /\ [][Next]_vars

-----------------------------------------------------------------------------
(* Properties                                                              *)

Table == [Sandboxes -> Record \union {NoRecord}]
Tombs == [Sandboxes -> 0 .. MaxGeneration]
Retirements == SUBSET (Sandboxes \X Migrations)

TypeOK ==
    /\ rec \in Table
    /\ tomb \in Tombs
    /\ retired \in Retirements
    /\ disk \in [rec : Table, tomb : Tombs, retired : Retirements]
    /\ view \in Table
    /\ imported \subseteq Sandboxes
    /\ buried \subseteq Sandboxes \X Generations
    /\ ended \subseteq Sandboxes \X (Migrations \union {NoMigration})

\* A create is never registered for a generation this worker has already
\* finished deleting, however late the create arrives and however many
\* imports and moves come between: the generation tombstone outlives the row.
NoResurrection ==
    \A s \in Sandboxes :
        Present(s) /\ s \notin imported => <<s, rec[s].gen>> \notin buried

\* An import that this worker rolled back, moved on or deleted never starts
\* again: no registration being built or owned belongs to such a migration.
RetiredStaysOut ==
    \A s \in Sandboxes :
        rec[s].phase \notin {"none", "moving_out", "deleting"} /\ rec[s].mig # NoMigration =>
            <<s, rec[s].mig>> \notin ended

\* The rules DirectSandboxRegistration.__post_init__ enforces hold after every
\* transition, so no committed row is ever one that loading would reject.
RegistrationValid ==
    \A s \in Sandboxes :
        /\ rec[s].phase \in {"import_planned", "importing", "import_ready", "moving_out"}
              => rec[s].mig # NoMigration
        /\ rec[s].phase \in {"planned", "quota_ready"} => rec[s].mig = NoMigration

\* The comment on commit_owned: an operating system crash takes a registration
\* back by exactly the step rootfs_ready -> owned of a create, or not at all,
\* and takes back no tombstone.
CrashLosesOnlyOwned ==
    /\ disk.tomb = tomb
    /\ disk.retired = retired
    /\ \A s \in Sandboxes :
          \/ disk.rec[s] = rec[s]
          \/ /\ disk.rec[s].phase = "rootfs_ready"
             /\ rec[s] = Moved(disk.rec[s], "owned", NoMigration)
             /\ disk.rec[s].mig = NoMigration

\* A registration keeps its generation and operation until its deletion (or
\* the rollback of a bare import plan) removes it, and no step of a running
\* worker takes its revision back.
IdentityStep ==
    \A s \in Sandboxes :
        Present(s) =>
            \/ /\ rec'[s].gen = rec[s].gen
               /\ rec'[s].op = rec[s].op
               /\ rec'[s].rev >= rec[s].rev \/ rec' = disk.rec
            \/ /\ rec'[s] = NoRecord
               /\ rec[s].phase \in {"deleting", "import_planned"}

IdentityStable == [][IdentityStep]_vars
=============================================================================
