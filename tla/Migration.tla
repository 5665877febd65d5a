------------------------------ MODULE Migration ------------------------------
(* Moving a parked sandbox between workers.                                *)
(*                                                                         *)
(* The gateway drives a migration through a durable journal (planned,      *)
(* prepared, staged, routed, activated, complete): the source is fenced    *)
(* (moving_out), the destination imports the snapshot, one transaction     *)
(* switches the route, the destination is activated, the source deleted.   *)
(* Every step is a call to a worker followed by a compare-and-set of the   *)
(* journal's phase, so any request may be repeated.  A migration whose     *)
(* route is not switched can be rolled back: by a cancel, by a soft-drain  *)
(* move that failed, or by the DELETE of the sandbox.                      *)
(*                                                                         *)
(* One sandbox.  A handler is one request in a gateway process of its own: *)
(* _migration_operation_lock orders only the POSTs of one process.  A      *)
(* snapshot is the version of the sandbox's files it was taken of; waking  *)
(* and parking the sandbox makes the next version.                         *)
EXTENDS Integers, FiniteSets

CONSTANTS Nodes, NoNode, Handlers,
          Starts,       \* worker_state of the route at first
          Discipline,   \* of the callers: see Admitted
          MaxMigrations, MaxWakes, MaxFaults

ASSUME MigrationAssumption ==
  /\ NoNode \notin Nodes
  /\ Starts \subseteq {"attached", "detached"}
  /\ Discipline \subseteq {"alone", "through"}
  /\ {MaxMigrations, MaxWakes, MaxFaults} \subseteq Nat

Migrations == 1..MaxMigrations
NoMigration == 0
Versions == 0..MaxWakes

VARIABLES
  journal,        \* sandbox_migrations
  route,          \* the sandbox's row of sandboxes
  reg, data,      \* each worker's registration and copy of the files
  retired,        \* migration_tombstones of the workers
  running,        \* workers that execute the sandbox
  latest,         \* the version last written
  hand,           \* the gateway's handlers
  stray,          \* calls in flight that nobody waits for
  faults,
  undoing         \* history: migrations a worker has rolled back, in part or whole

vars == <<journal, route, reg, data, retired, running, latest, hand, stray, faults, undoing>>
worker == <<reg, data, retired, undoing>>

-----------------------------------------------------------------------------
(* Records                                                                 *)

Uncommitted == {"planned", "prepared", "staged"}
Committed == {"routed", "activated"}

\* snap stands for snapshot_sha256 and storage_snapshot.
Entry == [phase: Uncommitted \cup Committed \cup {"none", "complete"},
          src: Nodes \cup {NoNode}, dst: Nodes \cup {NoNode},
          fenced: BOOLEAN, snap: Versions]
NoEntry == [phase |-> "none", src |-> NoNode, dst |-> NoNode, fenced |-> FALSE, snap |-> 0]
Active(m) == journal[m].phase \in Uncommitted \cup Committed

\* snap is the published snapshot a detached route holds.
Route == [at: Nodes \cup {NoNode}, ws: {"attached", "detached"}, del: BOOLEAN, snap: Versions]
Exists == route.at # NoNode

\* import stands for import_planned, importing and rootfs_ready.
Registration == [phase: {"none", "owned", "moving_out", "import", "import_ready", "deleting"},
                 mig: Migrations \cup {NoMigration}]
NoReg == [phase |-> "none", mig |-> NoMigration]

\* c is the handler's copy of the journal entry; to the worker it calls;
\* re what came back.
SourceCalls == {"prepare", "finalize", "undo_move"}
DestinationCalls == {"import", "activate", "undo_import"}
Calls == SourceCalls \cup DestinationCalls \cup {"delete"}
Handler == [pc: Calls \cup {"idle", "plan", "route", "complete", "close", "resolve", "send", "drop"},
            kind: {"post", "soft", "cancel", "delete"}, m: Migrations \cup {NoMigration},
            c: Entry, to: Nodes \cup {NoNode}, re: {"none", "ok", "error"}]
Idle == [pc |-> "idle", kind |-> "post", m |-> NoMigration, c |-> NoEntry,
         to |-> NoNode, re |-> "none"]
Call == [op: Calls, m: Migrations \cup {NoMigration}, to: Nodes, snap: Versions]

TypeOK ==
  /\ journal \in [Migrations -> Entry]
  /\ route \in Route
  /\ reg \in [Nodes -> Registration]
  /\ data \in [Nodes -> Versions]
  /\ retired \subseteq Nodes \X Migrations
  /\ running \subseteq Nodes
  /\ latest \in Versions
  /\ hand \in [Handlers -> Handler]
  /\ stray \subseteq Call
  /\ faults \in 0..MaxFaults
  /\ undoing \subseteq Migrations

Init ==
  \E n \in Nodes, ws \in Starts :
    /\ journal = [m \in Migrations |-> NoEntry]
    /\ route = [at |-> n, ws |-> ws, del |-> FALSE, snap |-> 0]
    /\ reg = [k \in Nodes |-> IF k = n /\ ws = "attached"
                              THEN [phase |-> "owned", mig |-> NoMigration] ELSE NoReg]
    /\ data = [k \in Nodes |-> 0]
    /\ retired = {}
    /\ running = {}
    /\ latest = 0
    /\ hand = [h \in Handlers |-> Idle]
    /\ stray = {}
    /\ faults = 0
    /\ undoing = {}

-----------------------------------------------------------------------------
(* Who may be at work at once                                              *)

Busy == {h \in Handlers : hand[h].pc # "idle"}
Quiet == Busy = {} /\ stray = {}

\* The gateway lets any request come at any time.  Callers may be disciplined:
\* "alone", a request that may roll back, and the first one of a migration,
\* comes when nothing else is in flight (POSTs repeat beside each other all the
\* same); "through", once a worker has rolled back nobody but the rollback's
\* caller goes on, until it has succeeded.
Admitted(kind) ==
  \/ "alone" \notin Discipline
  \/ Quiet
  \/ kind = "post" /\ \A h \in Busy : hand[h].kind = "post"

-----------------------------------------------------------------------------
(* Workers                                                                 *)

\* What a call does to the registration r of worker n: each outcome is the
\* registration left, the answer and whether the migration is retired.
Stays(r, answer) == [reg |-> r, re |-> answer, ends |-> NoMigration]
Becomes(phase, m) == [reg |-> [phase |-> phase, mig |-> m], re |-> "ok", ends |-> NoMigration]
Deleted(r) == [reg |-> NoReg, re |-> "ok", ends |-> r.mig]

Refused(r) == Stays(r, "error")

\* prepare_storage_native_move: only a parked sandbox, and a replay.
Prepared(r, n, m) ==
  IF r.phase = "moving_out" THEN Stays(r, IF r.mig = m THEN "ok" ELSE "error")
  ELSE IF r.phase = "owned" /\ n \notin running
  THEN [Becomes("moving_out", m) EXCEPT !.ends = r.mig]
  ELSE Refused(r)

\* plan_import and stage_storage_native_import, and their replay.
Imported(r, n, m) ==
  IF r.phase = "none" THEN IF <<n, m>> \in retired THEN Refused(r) ELSE Becomes("import_ready", m)
  ELSE IF r.mig # m THEN Refused(r)
  ELSE CASE r.phase = "import" -> Becomes("import_ready", m)
         [] r.phase \in {"import_ready", "owned"} -> Stays(r, "ok")
         [] OTHER -> Refused(r)

\* Mutant: an activation is not repeatable.
ActivatedOnce(r, m) ==
  IF r.mig = m /\ r.phase = "import_ready" THEN Becomes("owned", m) ELSE Refused(r)

ActivatedAt(r, m) ==
  IF r.mig = m /\ r.phase \in {"import_ready", "owned"} THEN Becomes("owned", m) ELSE Refused(r)

Finalized(r, m) ==
  CASE r.phase = "none" -> Stays(r, "ok")
    [] r.phase = "deleting" \/ (r.phase = "moving_out" /\ r.mig = m) -> Deleted(r)
    [] OTHER -> Refused(r)

ImportAborted(r, m) ==
  CASE r.phase = "none" -> Stays(r, "ok")
    [] r.phase = "deleting" \/ (r.phase \in {"import", "import_ready"} /\ r.mig = m) -> Deleted(r)
    [] OTHER -> Refused(r)

\* Mutant: an absent source is reported as restored.
MoveAbortedAbsent(r, m) ==
  CASE r.phase \in {"owned", "none"} -> Stays(r, "ok")
    [] r.phase = "moving_out" /\ r.mig = m -> Becomes("owned", NoMigration)
    [] OTHER -> Refused(r)

\* abort_move: an owned registration is left as it is.
MoveAborted(r, m) ==
  CASE r.phase = "owned" -> Stays(r, "ok")
    [] r.phase = "moving_out" /\ r.mig = m -> Becomes("owned", NoMigration)
    [] OTHER -> Refused(r)

\* provisioner.delete leaves a registration to the migration that holds it.
DeletedAt(r) ==
  CASE r.phase = "none" -> Stays(r, "ok")
    [] r.phase \in {"owned", "deleting"} -> Deleted(r)
    [] OTHER -> Refused(r)

Outcome(k) ==
  LET r == reg[k.to] IN
  CASE k.op = "prepare" -> Prepared(r, k.to, k.m)
    [] k.op = "import" -> Imported(r, k.to, k.m)
    [] k.op = "activate" -> ActivatedAt(r, k.m)
    [] k.op = "finalize" -> Finalized(r, k.m)
    [] k.op = "undo_import" -> ImportAborted(r, k.m)
    [] k.op = "undo_move" -> MoveAborted(r, k.m)
    [] k.op = "delete" -> DeletedAt(r)

Noted(k) ==
  undoing' = IF k.op \in {"undo_import", "undo_move"} THEN undoing \cup {k.m} ELSE undoing

\* The worker carries out call k.
Perform(k) ==
  LET o == Outcome(k) IN
  /\ Noted(k)
  /\ reg' = [reg EXCEPT ![k.to] = o.reg]
  /\ data' = IF k.op = "import" /\ o.reg # reg[k.to] THEN [data EXCEPT ![k.to] = k.snap] ELSE data
  /\ retired' = retired \cup ({<<k.to, o.ends>>} \cap (Nodes \X Migrations))
  /\ running' = IF o.reg.phase = "none" THEN running \ {k.to} ELSE running

\* A call of several commits stops after the first: an import before it is
\* ready, a deletion before the row is gone.
Halfway(k) ==
  LET r == reg[k.to]
      o == Outcome(k) IN
  /\ o.re = "ok" /\ o.reg # r /\ o.reg.phase \in {"import_ready", "none"}
  /\ reg' = [reg EXCEPT ![k.to] = IF k.op = "import" THEN [phase |-> "import", mig |-> k.m]
                                  ELSE [r EXCEPT !.phase = "deleting"]]
  /\ running' = running \ {k.to}
  /\ Noted(k)
  /\ UNCHANGED <<data, retired>>

\* The sandbox executes where the route leads, if the registration is owned.
Wake ==
  /\ Exists
  /\ route.ws = "attached"
  /\ reg[route.at].phase = "owned"
  /\ route.at \notin running
  /\ latest < MaxWakes
  /\ running' = running \cup {route.at}
  /\ latest' = latest + 1
  /\ data' = [data EXCEPT ![route.at] = latest + 1]
  /\ UNCHANGED <<journal, route, reg, retired, undoing, hand, stray, faults>>

Park(n) ==
  /\ n \in running
  /\ running' = running \ {n}
  /\ UNCHANGED <<journal, route, worker, latest, hand, stray, faults>>

-----------------------------------------------------------------------------
(* Handlers                                                                *)

Target(pc, c) ==
  CASE pc \in SourceCalls -> c.src
    [] pc \in DestinationCalls -> c.dst
    [] OTHER -> NoNode

Goto(h, pc, c) ==
  [hand EXCEPT ![h] = [@ EXCEPT !.pc = pc, !.c = c, !.re = "none", !.to = Target(pc, c)]]

Enter(h, kind, m, pc, c) ==
  [hand EXCEPT ![h] = [pc |-> pc, kind |-> kind, m |-> m, c |-> c, to |-> Target(pc, c), re |-> "none"]]

Leave(h) == [hand EXCEPT ![h] = Idle]

\* _abort_sandbox_migration, from the phase the handler last saw.
Undo(c) == IF c.phase = "planned" THEN "undo_move" ELSE "undo_import"

\* _advance_sandbox_migration returned: a soft-drain move that did not switch
\* the route is rolled back, a DELETE goes on once the journal is complete.
Returned(h, c) ==
  CASE hand[h].kind = "soft" /\ c.phase \in Uncommitted -> Goto(h, Undo(c), c)
    [] hand[h].kind = "delete" /\ c.phase = "complete" -> Goto(h, "send", c)
    [] OTHER -> Leave(h)

\* The step _advance_sandbox_migration takes from a phase.
Step(c) ==
  CASE c.phase = "planned" -> "plan"
    [] c.phase = "prepared" -> "import"
    [] c.phase = "staged" -> "route"
    [] c.phase = "routed" -> "activate"
    [] c.phase = "activated" -> IF c.fenced THEN "finalize" ELSE "complete"

Answered(h, pc, re) == hand[h].pc = pc /\ hand[h].re = re

\* advance_sandbox_migration(...) or migration: when the stored phase is
\* another the handler keeps its copy, whose phase has no step left.
Switch(h, expected, entry) ==
  IF journal[hand[h].m].phase = expected
  THEN /\ journal' = [journal EXCEPT ![hand[h].m] = entry]
       /\ hand' = Goto(h, Step(entry), entry)
  ELSE /\ hand' = Returned(h, hand[h].c)
       /\ UNCHANGED journal

-----------------------------------------------------------------------------
(* POST .../migrate: begin and advance                                     *)

\* begin_sandbox_migration.
Begin(m, d) ==
  /\ Admitted("begin")
  /\ Exists /\ ~route.del
  /\ journal[m].phase = "none"
  /\ \A k \in Migrations : journal[k].phase = (IF k < m THEN "complete" ELSE "none")
  /\ d # route.at
  /\ journal' = [journal EXCEPT ![m] = [NoEntry EXCEPT !.phase = "planned",
                                                       !.src = route.at, !.dst = d]]
  /\ UNCHANGED <<route, worker, running, latest, hand, stray, faults>>

\* A first or a repeated request; the journal is read under the lock.
Post(h, m, kind) ==
  /\ hand[h].pc = "idle"
  /\ Admitted(kind)
  /\ "through" \in Discipline => m \notin undoing
  /\ Active(m)
  /\ hand' = Enter(h, kind, m, Step(journal[m]), journal[m])
  /\ UNCHANGED <<journal, route, worker, running, latest, stray, faults>>

\* From planned: a detached sandbox needs no source, an attached one is fenced
\* there first.
Plan(h) ==
  LET c == hand[h].c IN
  /\ hand[h].pc = "plan"
  /\ \/ /\ ~Exists
        /\ hand' = Returned(h, c)
        /\ UNCHANGED journal
     \/ /\ Exists /\ route.ws = "detached"
        /\ Switch(h, "planned", [c EXCEPT !.phase = "prepared", !.snap = route.snap])
     \/ /\ Exists /\ route.ws = "attached"
        /\ hand' = Goto(h, "prepare", c)
        /\ UNCHANGED journal
  /\ UNCHANGED <<route, worker, running, latest, stray, faults>>

\* Mutant: the snapshot the route was published with, not the source's answer.
PrepareDoneFromRoute(h) ==
  /\ Answered(h, "prepare", "ok")
  /\ Switch(h, "planned", [hand[h].c EXCEPT !.phase = "prepared", !.fenced = TRUE, !.snap = route.snap])
  /\ UNCHANGED <<route, worker, running, latest, stray, faults>>

\* Mutant: the journal forgets that the source was fenced.
PrepareDoneUnfenced(h) ==
  /\ Answered(h, "prepare", "ok")
  /\ Switch(h, "planned", [hand[h].c EXCEPT !.phase = "prepared"])
  /\ UNCHANGED <<route, worker, running, latest, stray, faults>>

PrepareDone(h) ==
  /\ Answered(h, "prepare", "ok")
  /\ Switch(h, "planned", [hand[h].c EXCEPT !.phase = "prepared", !.fenced = TRUE])
  /\ UNCHANGED <<route, worker, running, latest, stray, faults>>

ImportDone(h) ==
  /\ Answered(h, "import", "ok")
  /\ Switch(h, "prepared", [hand[h].c EXCEPT !.phase = "staged"])
  /\ UNCHANGED <<route, worker, running, latest, stray, faults>>

\* route_sandbox_migration: the route is still at the source and not being
\* deleted.
MaySwitch(e) == e.phase = "staged" /\ route.at = e.src /\ ~route.del

\* The route it writes: a parked sandbox at the destination.
Routed(e) == [at |-> e.dst, ws |-> "attached", del |-> route.del, snap |-> e.snap]

SwitchRoute(h) ==
  LET m == hand[h].m
      e == journal[m]
      routed == [e EXCEPT !.phase = "routed"] IN
  /\ hand[h].pc = "route"
  /\ \/ /\ MaySwitch(e)
        /\ route' = Routed(e)
        /\ journal' = [journal EXCEPT ![m] = routed]
        /\ hand' = Goto(h, "activate", routed)
     \/ /\ e.phase = "routed" /\ route.at = e.dst
        /\ hand' = Goto(h, "activate", e)
        /\ UNCHANGED <<journal, route>>
     \/ /\ ~MaySwitch(e) /\ ~(e.phase = "routed" /\ route.at = e.dst)
        /\ hand' = Returned(h, hand[h].c)
        /\ UNCHANGED <<journal, route>>
  /\ UNCHANGED <<worker, running, latest, stray, faults>>

ActivateDone(h) ==
  /\ Answered(h, "activate", "ok")
  /\ Switch(h, "routed", [hand[h].c EXCEPT !.phase = "activated"])
  /\ UNCHANGED <<route, worker, running, latest, stray, faults>>

\* complete_sandbox_migration, after the source was finalized if it was fenced.
Complete(h) ==
  LET m == hand[h].m
      done == [journal[m] EXCEPT !.phase = "complete"] IN
  /\ hand[h].pc = "complete" \/ Answered(h, "finalize", "ok")
  /\ \/ /\ journal[m].phase = "activated" /\ route.at = journal[m].dst /\ ~route.del
        /\ journal' = [journal EXCEPT ![m] = done]
        /\ hand' = Returned(h, done)
     \/ /\ journal[m].phase = "complete"
        /\ hand' = Returned(h, done)
        /\ UNCHANGED journal
     \/ /\ journal[m].phase # "complete"
        /\ ~(journal[m].phase = "activated" /\ route.at = journal[m].dst /\ ~route.del)
        /\ hand' = Returned(h, hand[h].c)
        /\ UNCHANGED journal
  /\ UNCHANGED <<route, worker, running, latest, stray, faults>>

\* A call the worker refused or that got no answer: _record_migration_error
\* leaves the phase.
CallFailed(h) ==
  /\ hand[h].pc \in Calls /\ hand[h].re = "error"
  /\ hand' = IF hand[h].pc \in {"undo_import", "undo_move", "delete"} THEN Leave(h)
             ELSE Returned(h, hand[h].c)
  /\ UNCHANGED <<journal, route, worker, running, latest, stray, faults>>

-----------------------------------------------------------------------------
(* Rolling back                                                            *)

\* Mutant: a cancel of a migration whose route is switched is not refused.
CancelAny(h, m) ==
  /\ hand[h].pc = "idle"
  /\ Admitted("cancel")
  /\ Active(m)
  /\ hand' = Enter(h, "cancel", m, Undo(journal[m]), journal[m])
  /\ UNCHANGED <<journal, route, worker, running, latest, stray, faults>>

\* _cancel_sandbox_migration takes no lock.
Cancel(h, m) ==
  /\ hand[h].pc = "idle"
  /\ Admitted("cancel")
  /\ journal[m].phase \in Uncommitted
  /\ hand' = Enter(h, "cancel", m, Undo(journal[m]), journal[m])
  /\ UNCHANGED <<journal, route, worker, running, latest, stray, faults>>

ImportUndone(h) ==
  /\ Answered(h, "undo_import", "ok")
  /\ hand' = Goto(h, "undo_move", hand[h].c)
  /\ UNCHANGED <<journal, route, worker, running, latest, stray, faults>>

\* Mutant: a phase of its own for a cancelled migration.
CloseCancelled(h) ==
  LET m == hand[h].m
      c == hand[h].c IN
  /\ Answered(h, "undo_move", "ok")
  /\ journal' = IF journal[m].phase = c.phase
                THEN [journal EXCEPT ![m].phase = "cancelled"] ELSE journal
  /\ hand' = IF hand[h].kind = "delete" THEN Goto(h, "send", c) ELSE Leave(h)
  /\ UNCHANGED <<route, worker, running, latest, stray, faults>>

\* The end of _abort_sandbox_migration: it reports success whether or not the
\* journal still was in the phase that was rolled back.
Close(h) ==
  LET m == hand[h].m
      c == hand[h].c IN
  /\ Answered(h, "undo_move", "ok")
  /\ journal' = IF journal[m].phase = c.phase
                THEN [journal EXCEPT ![m].phase = "complete"] ELSE journal
  /\ hand' = IF hand[h].kind = "delete" THEN Goto(h, "send", c) ELSE Leave(h)
  /\ UNCHANGED <<route, worker, running, latest, stray, faults>>

-----------------------------------------------------------------------------
(* DELETE of the sandbox                                                   *)

\* prepare_sandbox_delete comes first; a detached sandbox's migrations are
\* left alone.
DeleteIntent(h) ==
  /\ hand[h].pc = "idle"
  /\ Admitted("delete")
  /\ Exists
  /\ route' = [route EXCEPT !.del = TRUE]
  /\ hand' = Enter(h, "delete", NoMigration, IF route.ws = "detached" THEN "send" ELSE "resolve", NoEntry)
  /\ UNCHANGED <<journal, worker, running, latest, stray, faults>>

\* _resolve_sandbox_migrations_for_delete: finish a migration whose route is
\* switched, roll back any other.
Resolve(h) ==
  /\ hand[h].pc = "resolve"
  /\ \/ /\ ~\E m \in Migrations : Active(m)
        /\ hand' = Goto(h, "send", NoEntry)
     \/ \E m \in Migrations :
          LET c == journal[m] IN
          /\ Active(m)
          /\ hand' = Enter(h, "delete", m, IF c.phase \in Committed THEN Step(c) ELSE Undo(c), c)
  /\ UNCHANGED <<journal, route, worker, running, latest, stray, faults>>

\* _delete_sandbox_unlocked also ends every journal of the sandbox.
Removed ==
  /\ route' = [route EXCEPT !.at = NoNode, !.del = FALSE]
  /\ journal' = [m \in Migrations |-> IF Active(m) THEN [journal[m] EXCEPT !.phase = "complete"]
                                      ELSE journal[m]]

\* The route is read again and the delete goes to its worker; a detached
\* sandbox has none.
Send(h) ==
  /\ hand[h].pc = "send"
  /\ \/ /\ Exists /\ route.ws = "attached"
        /\ hand' = [hand EXCEPT ![h] = [@ EXCEPT !.pc = "delete", !.to = route.at, !.c = NoEntry]]
        /\ UNCHANGED <<journal, route>>
     \/ /\ Exists /\ route.ws = "detached"
        /\ Removed
        /\ hand' = Leave(h)
     \/ /\ ~Exists
        /\ hand' = Leave(h)
        /\ UNCHANGED <<journal, route>>
  /\ UNCHANGED <<worker, running, latest, stray, faults>>

Drop(h) ==
  /\ Answered(h, "delete", "ok")
  /\ Removed
  /\ hand' = Leave(h)
  /\ UNCHANGED <<worker, running, latest, stray, faults>>

-----------------------------------------------------------------------------
(* Calls, and what can happen to them                                      *)

Request(h) == [op |-> hand[h].pc, m |-> hand[h].m, to |-> hand[h].to, snap |-> hand[h].c.snap]
Calling(h) == hand[h].pc \in Calls /\ hand[h].re = "none"
Hear(h, re) == hand' = [hand EXCEPT ![h].re = re]

\* The answer of prepare carries the snapshot.
Serve(h) ==
  LET k == Request(h) IN
  /\ Calling(h)
  /\ Perform(k)
  /\ hand' = [hand EXCEPT ![h] = [@ EXCEPT !.re = Outcome(k).re,
                !.c.snap = IF k.op = "prepare" /\ Outcome(k).re = "ok" THEN data[k.to] ELSE k.snap]]
  /\ UNCHANGED <<journal, route, latest, stray, faults>>

Fault == faults < MaxFaults /\ faults' = faults + 1

\* The worker fails in the middle.
Stumble(h) ==
  /\ Calling(h)
  /\ Fault
  /\ Halfway(Request(h))
  /\ Hear(h, "error")
  /\ UNCHANGED <<journal, route, latest, stray>>

\* The call, or its answer, is lost.
Lose(h) ==
  /\ hand[h].pc \in Calls /\ hand[h].re \in {"none", "ok"}
  /\ Fault
  /\ Hear(h, "error")
  /\ UNCHANGED <<journal, route, worker, running, latest, stray>>

\* The caller gives up, or its process dies, before the worker acts.
MayStray(h) == Calling(h) /\ ("alone" \notin Discipline \/ hand[h].kind = "post")

Abandon(h) ==
  /\ MayStray(h)
  /\ Fault
  /\ stray' = stray \cup {Request(h)}
  /\ hand' \in {Leave(h), [hand EXCEPT ![h].re = "error"]}
  /\ UNCHANGED <<journal, route, worker, running, latest>>

Land(k) ==
  /\ Perform(k)
  /\ stray' = stray \ {k}
  /\ UNCHANGED <<journal, route, latest, hand, faults>>

Crash(h) ==
  /\ hand[h].pc # "idle"
  /\ Fault
  /\ hand' = Leave(h)
  /\ UNCHANGED <<journal, route, worker, running, latest, stray>>

-----------------------------------------------------------------------------
(* Specification                                                           *)

Continue(h) ==
  \/ Plan(h) \/ PrepareDone(h) \/ ImportDone(h) \/ SwitchRoute(h) \/ ActivateDone(h)
  \/ Complete(h) \/ CallFailed(h) \/ ImportUndone(h) \/ Close(h)
  \/ Resolve(h) \/ Send(h) \/ Drop(h)

Next ==
  \/ \E m \in Migrations, d \in Nodes : Begin(m, d)
  \/ \E h \in Handlers, m \in Migrations : \E kind \in {"post", "soft"} : Post(h, m, kind)
  \/ \E h \in Handlers, m \in Migrations : Cancel(h, m)
  \/ \E h \in Handlers : DeleteIntent(h)
  \/ \E h \in Handlers : Continue(h) \/ Serve(h)
  \/ \E h \in Handlers : Stumble(h) \/ Lose(h) \/ Abandon(h) \/ Crash(h)
  \/ \E k \in stray : Land(k)
  \/ Wake
  \/ \E n \in Nodes : Park(n)

Spec == Init /\ [][Next]_vars

\* Workers answer, handlers go on, calls in flight land, and a client told
\* "retryable" repeats its request: POST until the journal is complete, DELETE
\* (which the autoscaler replays every cycle) until the sandbox is gone.
Fairness ==
  /\ \A h \in Handlers : WF_vars(Continue(h) \/ Serve(h))
  /\ WF_vars(\E k \in stray : Land(k))
  /\ \A m \in Migrations : WF_vars(\E h \in Handlers : Post(h, m, "post"))
  /\ SF_vars(\E h \in Handlers : route.del /\ DeleteIntent(h))

FairSpec == Spec /\ Fairness

-----------------------------------------------------------------------------
(* Properties                                                              *)

\* Never do two workers own the sandbox, and the one that does has the files
\* the client last wrote: the fence at the source is lifted only when nothing
\* can be activated at the destination, and a snapshot taken before a rollback
\* is not activated after it.
OneCurrentOwner ==
  \A n \in Nodes : reg[n].phase = "owned" =>
    /\ data[n] = latest
    /\ \A k \in Nodes \ {n} : reg[k].phase # "owned"

\* The route of a sandbox nobody deletes always leads to a worker that holds
\* its current files and can serve them, at once or when the migration goes on.
RouteHasCopy ==
  Exists /\ ~route.del /\ route.ws = "attached" =>
    /\ data[route.at] = latest
    /\ \/ reg[route.at].phase = "owned"
       \/ \E m \in Migrations :
            /\ reg[route.at].mig = m
            /\ \/ reg[route.at].phase = "moving_out" /\ journal[m].phase \in Uncommitted
               \/ reg[route.at].phase = "import_ready" /\ journal[m].phase = "routed"

\* When a migration is over and no request is at work, it has left nothing
\* behind: no worker keeps a fenced source, an import or half a deletion of a
\* sandbox that still has its route.
EndsClean ==
  Exists /\ ~route.del /\ Quiet /\ (\A m \in Migrations : ~Active(m)) =>
    \A n \in Nodes : reg[n].phase \in {"none", "owned"}

\* scaling-policy.md: deletion included, moving_out and import_ready inventory
\* is not left behind for ever.
NothingPinned ==
  Quiet /\ (\A m \in Migrations : ~Active(m)) =>
    \A n \in Nodes : reg[n].phase \notin {"moving_out", "import", "import_ready"}

\* A rollback that reports success has rolled back: the journal is over, the
\* route is where it was and the source serves the sandbox again.
RollbackHolds ==
  [][\A h \in Handlers :
       Close(h) =>
       LET e == journal'[hand[h].m] IN
       /\ e.phase = "complete"
       /\ Exists => route.at = e.src /\ reg[e.src].phase = "owned"]_vars

\* A migration whose route is switched is finished, whatever calls, answers
\* and processes were lost, unless the sandbox is being deleted.
CommittedMoveFinishes ==
  \A m \in Migrations :
    journal[m].phase \in Committed ~> journal[m].phase = "complete" \/ route.del

\* scaling-policy.md: a delete is replayed until the sandbox is gone.
DeleteFinishes == route.del ~> ~Exists
==============================================================================
