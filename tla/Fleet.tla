------------------------------- MODULE Fleet -------------------------------
(* The routing authority and the workers it routes to.                     *)
(*                                                                         *)
(* The gateway keeps one durable route per sandbox (routing.py), the last  *)
(* accepted heartbeat of every worker (control_state.py) and runs one      *)
(* request handler per client call.  A handler reads a route, calls the    *)
(* worker, and commits the worker's receipt with a compare-and-set; the    *)
(* route may have changed under it at every one of those points.  Workers  *)
(* park, publish and reboot by themselves and report by heartbeat, sampled *)
(* and applied in steps that interleave with everything else.              *)
(*                                                                         *)
(* An incarnation is (sandbox, generation); create_operation_id and        *)
(* spec_hash are fresh with every generation and are folded into it, and   *)
(* node_id, job_id and node_url into the node.  A node epoch is a boot     *)
(* number, 0 for the empty string.  A snapshot is the number of the        *)
(* capture it was published from, 0 for none.                              *)
EXTENDS Integers, FiniteSets

CONSTANTS Sandboxes, Nodes, Handlers,
          NoNode,          \* the node of a missing route
          Operations,      \* the request kinds this instance issues
          Distributed,     \* routing_store.distributed: PostgreSQL or SQLite
          MaxGeneration, MaxBoot, MaxActivity, MaxCapture, MaxDelete, MaxBeats,
          MaxLag           \* transient advances since the last sample that it may miss

AllOperations ==
  {"create", "replay", "park", "wake", "delete", "detach", "publish"}

ASSUME FleetAssumption ==
  /\ Sandboxes # {}
  /\ Operations \subseteq AllOperations
  /\ Distributed \in BOOLEAN
  /\ NoNode \notin Nodes
  /\ {MaxGeneration, MaxBoot, MaxActivity, MaxCapture, MaxDelete, MaxBeats}
       \subseteq Nat \ {0}
  /\ MaxLag \in Nat

VARIABLES
  route, hwm, loss,   \* sandboxes, sandbox_generation_hwm, sandbox_losses
  seen,               \* the heartbeat row of each node
  worker,             \* each worker's boot, activity revision and advances since its sample
  box, tomb,          \* its registration of each sandbox, and its tombstone
  beats,              \* heartbeats sent and being applied
  req,                \* the gateway's request handlers and reapers
  dels,               \* delete operation ids issued
  committed, acked    \* history: see NoStaleCheckpoint, AckedDeleteIsFinal

gateway == <<route, hwm, loss, dels>>
workers == <<worker, box, tomb>>
history == <<committed, acked>>
vars == <<gateway, seen, workers, beats, req, history>>

-----------------------------------------------------------------------------
(* Records                                                                 *)

Route == [gen: 0..MaxGeneration, node: Nodes \cup {NoNode},
          state: {"none", "creating", "running", "waking", "parked"},
          del: 0..MaxDelete, boot: 0..MaxBoot,
          act: Nat, ws: {"attached", "detaching", "detached"}, snap: 0..MaxCapture]

NoRoute == [gen |-> 0, node |-> NoNode, state |-> "none", del |-> 0,
            boot |-> 0, act |-> 0, ws |-> "attached", snap |-> 0]

Exists(r) == r.state # "none"

\* is_portable_parked_route
IsPortable(r) == r.state = "parked" /\ r.snap # 0

\* _same_sandbox_route_incarnation
Same(r, q) == r.gen = q.gen /\ r.node = q.node

\* Mutant: an observation with a lower activity revision is still applied.
UpdateIgnoresActivity(e, c, adopt) ==
  Same(e, c) /\ (c.boot # 0 /\ c.boot # e.boot => adopt)

\* _route_update_is_current
UpdateIsCurrent(e, c, adopt) ==
  /\ Same(e, c)
  /\ IF c.boot # 0 /\ c.boot # e.boot
     THEN adopt
     ELSE ~(e.boot = c.boot /\ c.act < e.act)

\* A route with a new lifecycle state, fence and snapshot.
Edit(r, st, b, a, k) ==
  [gen |-> r.gen, node |-> r.node, state |-> st, del |-> r.del,
   boot |-> b, act |-> a, ws |-> r.ws, snap |-> k]

WithWorker(r, w) ==
  [gen |-> r.gen, node |-> r.node, state |-> r.state, del |-> r.del,
   boot |-> r.boot, act |-> r.act, ws |-> w, snap |-> r.snap]

WithDelete(r, d) ==
  [gen |-> r.gen, node |-> r.node, state |-> r.state, del |-> d,
   boot |-> r.boot, act |-> r.act, ws |-> r.ws, snap |-> r.snap]

\* _detach_owner_lost_route_unlocked
Detached(r) ==
  [gen |-> r.gen, node |-> r.node, state |-> r.state, del |-> r.del,
   boot |-> 0, act |-> 0, ws |-> "detached", snap |-> r.snap]

\* What a delete, an eviction or a publication keeps of the route it read.
Identity(r) ==
  [gen |-> r.gen, node |-> r.node, state |-> "none", del |-> r.del,
   boot |-> 0, act |-> 0, ws |-> r.ws, snap |-> r.snap]

\* A fresh incarnation placed on node n (SandboxRouteAllocation).
Placed(g, n, b, a) ==
  [gen |-> g, node |-> n, state |-> "creating", del |-> 0,
   boot |-> b, act |-> a, ws |-> "attached", snap |-> 0]

\* _validate_sandbox_route_identity: SandboxRoute refuses to exist otherwise.
Valid(r) == r.ws = "attached" \/ IsPortable(r)

\* sandbox_owner_loss_disposition is RECOVER_DETACHED
Recoverable(r) == r.del = 0 /\ IsPortable(r)

NoBox == [gen |-> 0, st |-> "none", cap |-> 0, pub |-> FALSE]

Boxes == [gen: 0..MaxGeneration, st: {"none", "running", "parked", "dead"},
          cap: 0..MaxCapture, pub: BOOLEAN]

Box(g, st, c, p) == [gen |-> g, st |-> st, cap |-> c, pub |-> p]

\* The snapshot a sandbox record advertises.
Published(x) == IF x.st = "parked" /\ x.pub THEN x.cap ELSE 0

\* An inventory entry.
Entries == [gen: 0..MaxGeneration, st: {"none", "running", "parked", "dead"},
            snap: 0..MaxCapture]

Entry(x) == [gen |-> x.gen, st |-> x.st, snap |-> Published(x)]

\* A worker's answer; st is a record state, "ok", "rejected" or "refused".
NoAnswer == [st |-> "none", boot |-> 0, act |-> 0, cap |-> 0, snap |-> 0]

Answers == [st: {"none", "running", "parked", "ok", "rejected", "refused"},
            boot: 0..MaxBoot, act: Nat,
            cap: 0..MaxCapture, snap: 0..MaxCapture]

\* An answer with the worker's epochs, and one without.
Answer(st, w, c, k) ==
  [st |-> st, boot |-> w.boot, act |-> w.act, cap |-> c, snap |-> k]

Says(st, k) == [st |-> st, boot |-> 0, act |-> 0, cap |-> 0, snap |-> k]

Idle == [op |-> "none", step |-> "idle", s |-> CHOOSE s \in Sandboxes : TRUE,
         held |-> NoRoute, ans |-> NoAnswer]

Request(op, step, s, held, ans) ==
  [op |-> op, step |-> step, s |-> s, held |-> held, ans |-> ans]

Requests ==
  [op: {"none", "create", "replay", "get", "park", "wake", "delete", "reap", "publish",
        "detach", "evict"},
   step: {"idle", "absent", "chosen", "sent", "recorded", "answered", "valid"},
   s: Sandboxes, held: Route, ans: Answers]

Beat == [node: Nodes, step: {"sent", "stored", "retired"}, boot: 1..MaxBoot,
         act: Nat, inv: [Sandboxes -> Entries],
         retired: SUBSET (1..MaxBoot), owed: SUBSET [s: Sandboxes, held: Route]]

\* Every node has a reaper of its own (RebootReaper: one pass per job).
Actors == Handlers \cup Nodes

\* Handler h moves on; the sandbox it serves does not change.
Goto(h, step, held, ans) ==
  req' = [req EXCEPT ![h] = Request(req[h].op, step, req[h].s, held, ans)]

Finish(h) == req' = [req EXCEPT ![h] = Idle]

At(h, op, step) == req[h].op = op /\ req[h].step = step

\* A create request, dispatched for its own route or replayed for an existing one.
Creating(h, step) == req[h].op \in {"create", "replay"} /\ req[h].step = step

\* _write_sandbox: the row and its generation high-water mark.
Write(s, r) ==
  /\ route' = [route EXCEPT ![s] = r]
  /\ hwm' = [hwm EXCEPT ![s] = IF r.gen > @ THEN r.gen ELSE @]
  /\ UNCHANGED <<loss, dels>>

\* _delete_sandbox_unlocked without a loss reason
Remove(s) ==
  /\ route' = [route EXCEPT ![s] = NoRoute]
  /\ UNCHANGED <<hwm, loss, dels>>

\* advance_lifecycle_activity_revision: the transient addend of the revision.
Advanced(w) ==
  [boot |-> w.boot, act |-> w.act + 1, lag |-> IF w.lag < MaxLag THEN w.lag + 1 ELSE w.lag]

\* _bump_activity of a registry commit: the durable addend.
Bumped(w) == [boot |-> w.boot, act |-> w.act + 1, lag |-> w.lag]

Advance(n) ==
  /\ worker[n].act < MaxActivity
  /\ worker' = [worker EXCEPT ![n] = Advanced(@)]

Bump(n) ==
  /\ worker[n].act < MaxActivity
  /\ worker' = [worker EXCEPT ![n] = Bumped(@)]

Start(r, g, x) ==
  /\ route = [s \in Sandboxes |-> r]
  /\ hwm = [s \in Sandboxes |-> g]
  /\ loss = [s \in Sandboxes |-> 0]
  /\ dels = [s \in Sandboxes |-> 0]
  /\ seen = [n \in Nodes |-> [boot |-> 1, act |-> 0, retired |-> {}]]
  /\ worker = [n \in Nodes |-> [boot |-> 1, act |-> 0, lag |-> 0]]
  /\ box = [n \in Nodes |-> [s \in Sandboxes |-> IF n = r.node THEN x ELSE NoBox]]
  /\ tomb = [n \in Nodes |-> [s \in Sandboxes |-> 0]]
  /\ beats = {}
  /\ req = [h \in Actors |-> Idle]
  /\ committed = [s \in Sandboxes |-> [gen |-> 0, cap |-> 0]]
  /\ acked = [s \in Sandboxes |-> {}]

Init == Start(NoRoute, 0, NoBox)

\* After the first create of every sandbox was confirmed on one node.
InitRunning ==
  \E n \in Nodes : Start(Edit(Placed(1, n, 1, 0), "running", 1, 0, 0), 1,
                         Box(1, "running", 0, FALSE))

-----------------------------------------------------------------------------
(* Create (gateway/create.py, control_plane.py): choose a node from the    *)
(* heartbeat view, write the route, dispatch, confirm the receipt.         *)

\* There is no route yet.  Placement reads the stored heartbeat; the allocation
\* carries its epochs.
ChooseNode(h, s, n) ==
  /\ "create" \in Operations
  /\ req[h] = Idle /\ ~Exists(route[s])
  /\ req' = [req EXCEPT ![h] = Request("create", "chosen", s,
                Placed(0, n, seen[n].boot, seen[n].act), NoAnswer)]
  /\ UNCHANGED <<gateway, seen, workers, beats, history>>

\* Mutant: the high-water mark is forgotten with the route.
NextGenerationOfRoute(s) == route[s].gen + 1

\* _next_sandbox_generation
NextGeneration(s) == hwm[s] + 1

\* reserve_create_intent: a fresh generation, or the route another create won
\* meanwhile, which this request then replays on its assigned node.
Allocate(h) ==
  LET s == req[h].s
      to == req[h].held
      r == Placed(NextGeneration(s), to.node, to.boot, to.act)
  IN  /\ At(h, "create", "chosen")
      /\ IF Exists(route[s])
         THEN /\ "replay" \in Operations
              /\ req' = [req EXCEPT ![h] = Request("replay", "sent", s, route[s], NoAnswer)]
              /\ UNCHANGED gateway
         ELSE /\ hwm[s] < MaxGeneration
              /\ Write(s, r)
              /\ Goto(h, "sent", r, NoAnswer)
      /\ UNCHANGED <<seen, workers, beats, history>>

\* This boot of worker n, with no activity revision yet.
Boot(n) == [boot |-> worker[n].boot, act |-> 0]

\* A create of a sandbox that has a route asks the assigned worker for its
\* record first (_send_existing_sandbox_response), as a request to a route that
\* is still creating does (_reconcile_routable_sandbox).
StartReplay(h, s) ==
  /\ "replay" \in Operations
  /\ req[h] = Idle
  /\ Exists(route[s]) /\ route[s].del = 0
  /\ req' = [req EXCEPT ![h] = Request("get", "sent", s, route[s], NoAnswer)]
  /\ UNCHANGED <<gateway, seen, workers, beats, history>>

\* GET /v1/sandboxes?sandbox_id=.  Without a ready record of this incarnation a
\* route that was creating is replayed, and any other is left alone.
ReadRecord(h) ==
  LET s == req[h].s
      held == req[h].held
      b == box[held.node][s]
  IN  /\ At(h, "get", "sent")
      /\ IF b.gen = held.gen /\ b.st \in {"running", "parked"}
         THEN Goto(h, "recorded", held, Answer(b.st, Boot(held.node), 0, Published(b)))
         ELSE req' = [req EXCEPT ![h] = IF held.state = "creating"
                                        THEN Request("replay", "sent", s, held, NoAnswer)
                                        ELSE Idle]
      /\ UNCHANGED <<gateway, seen, workers, beats, history>>

\* provisioner.create and registry.plan on the assigned worker: idempotent for
\* the registered generation, refused at or below the tombstone.
WorkerCreate(h) ==
  LET s == req[h].s
      n == req[h].held.node
      g == req[h].held.gen
      b == box[n][s]
  IN  /\ Creating(h, "sent")
      /\ \/ /\ b = NoBox /\ g > tomb[n][s]
            /\ Bump(n)
            /\ box' = [box EXCEPT ![n][s] = Box(g, "running", 0, FALSE)]
            /\ Goto(h, "recorded", req[h].held, Answer("running", Boot(n), 0, 0))
         \/ /\ b.gen = g /\ b.st \in {"running", "parked"}
            /\ Goto(h, "recorded", req[h].held, Answer(b.st, Boot(n), 0, 0))
            /\ UNCHANGED <<worker, box>>
         \/ /\ b.gen \notin {0, g} \/ (b = NoBox /\ g <= tomb[n][s])
            /\ Goto(h, "answered", req[h].held, Says("refused", 0))
            /\ UNCHANGED <<worker, box>>
      /\ UNCHANGED <<gateway, seen, tomb, beats, history>>

\* A create response, and a record read, take their activity revision after the
\* record.
StampCreate(h) ==
  LET n == req[h].held.node
  IN  /\ Creating(h, "recorded") \/ At(h, "get", "recorded")
      /\ worker[n].boot = req[h].ans.boot
      /\ Advance(n)
      /\ Goto(h, "answered", req[h].held, 
           Answer(req[h].ans.st, worker'[n], 0, req[h].ans.snap))
      /\ UNCHANGED <<gateway, seen, box, tomb, beats, history>>

\* Mutant: a failure after the sandbox was provisioned is reported as one from
\* before it.
WorkerRejectLate(h) ==
  /\ Creating(h, "sent") \/ Creating(h, "recorded")
  /\ Goto(h, "answered", req[h].held, Says("rejected", 0))
  /\ UNCHANGED <<gateway, seen, workers, beats, history>>

\* node_admission_closed or node_active_admission_deferred, decided before the
\* worker looks at its registry.
WorkerReject(h) ==
  /\ Creating(h, "sent")
  /\ Goto(h, "answered", req[h].held, Says("rejected", 0))
  /\ UNCHANGED <<gateway, seen, workers, beats, history>>

\* No room for the disk: the planned registration is deleted again, which leaves
\* its tombstone, before the rejection is answered (roll_back_capacity_rejection).
WorkerRollBack(h) ==
  LET s == req[h].s
      n == req[h].held.node
      g == req[h].held.gen
  IN  /\ Creating(h, "sent")
      /\ box[n][s] = NoBox /\ g > tomb[n][s]
      /\ Bump(n)
      /\ tomb' = [tomb EXCEPT ![n][s] = g]
      /\ Goto(h, "answered", req[h].held, Says("rejected", 0))
      /\ UNCHANGED <<gateway, seen, box, beats, history>>

\* _route_with_sandbox_record: what a record makes of the held route.
CreateReceipt(held, ans) ==
  Edit(held, ans.st, ans.boot, ans.act,
       IF ans.snap = 0 /\ ans.st = "parked" THEN held.snap ELSE ans.snap)

\* Mutant: a confirmation whose route is gone inserts it.
ConfirmCreateInserts(h) ==
  LET s == req[h].s
      c == CreateReceipt(req[h].held, req[h].ans)
  IN  /\ Creating(h, "answered") \/ At(h, "get", "answered")
      /\ req[h].ans.st \in {"running", "parked"}
      /\ IF ~Exists(route[s]) \/ UpdateIsCurrent(route[s], c, TRUE)
         THEN Write(s, c)
         ELSE UNCHANGED gateway
      /\ Finish(h)
      /\ UNCHANGED <<seen, workers, beats, history>>

\* confirm_sandbox_observation and upsert_sandbox with epoch adoption.
ConfirmCreate(h) ==
  LET s == req[h].s
      held == req[h].held
      cur == route[s]
      c == CreateReceipt(held, req[h].ans)
  IN  /\ Creating(h, "answered") \/ At(h, "get", "answered")
      /\ req[h].ans.st \in {"running", "parked"}
      /\ IF /\ held.boot \in {0, req[h].ans.boot}
            /\ Exists(cur) /\ cur.del = 0
            /\ UpdateIsCurrent(cur, c, TRUE)
            /\ Valid(c)
         THEN Write(s, c)
         ELSE UNCHANGED gateway
      /\ Finish(h)
      /\ UNCHANGED <<seen, workers, beats, history>>

\* retarget_create_intent: the next candidate of the same (by now old) view.
Retarget(h, n) ==
  LET s == req[h].s
      held == req[h].held
      old == seen[n].retired
  IN  /\ At(h, "create", "answered") /\ req[h].ans.st = "rejected"
      /\ n # held.node
      /\ IF Same(route[s], held) /\ route[s].del = 0 /\ route[s].state = "creating"
         THEN /\ hwm[s] < MaxGeneration
              /\ \E b \in {seen[n].boot} \cup old :
                   LET r == Placed(NextGeneration(s), n, b,
                                   IF b \in old THEN 0 ELSE seen[n].act)
                   IN  Write(s, r) /\ Goto(h, "sent", r, NoAnswer)
         ELSE Finish(h) /\ UNCHANGED gateway
      /\ UNCHANGED <<seen, workers, beats, history>>

\* No candidate is left, the worker refused for good, or it rejected a replay:
\* delete_sandbox_if_current by generation and create operation.  A replay that
\* was refused otherwise keeps the route.
AbandonCreate(h) ==
  LET s == req[h].s
  IN  /\ Creating(h, "answered")
      /\ req[h].ans.st \in {"rejected", "refused"}
      /\ IF /\ route[s].gen = req[h].held.gen
            /\ req[h].op = "create" \/ req[h].ans.st = "rejected"
         THEN Remove(s)
         ELSE UNCHANGED gateway
      /\ Finish(h)
      /\ UNCHANGED <<seen, workers, beats, history>>

-----------------------------------------------------------------------------
(* Park and wake: proxy to the owner, validate the receipt against the     *)
(* stored heartbeat (LifecycleFence), commit with a compare-and-set.       *)

StartPark(h, s) ==
  /\ "park" \in Operations
  /\ req[h] = Idle
  /\ route[s].state \in {"running", "waking", "parked"} /\ route[s].del = 0
  /\ req' = [req EXCEPT ![h] = Request("park", "sent", s, route[s], NoAnswer)]
  /\ UNCHANGED <<gateway, seen, workers, beats, history>>

\* park_with_activity_revision: a checkpoint, a resident wait (still running),
\* or a no-op on a parked sandbox; the revision is advanced under the lock.
WorkerPark(h) ==
  LET s == req[h].s
      n == req[h].held.node
      b == box[n][s]
  IN  /\ At(h, "park", "sent")
      /\ b.st \in {"running", "parked"}
      /\ Advance(n)
      /\ \/ /\ b.st = "running" /\ b.cap < MaxCapture
            /\ box' = [box EXCEPT ![n][s] = Box(b.gen, "parked", b.cap + 1, FALSE)]
            /\ Goto(h, "recorded", req[h].held, Answer("parked", worker'[n], 0, 0))
         \/ /\ UNCHANGED box
            /\ Goto(h, "recorded", req[h].held, Answer(b.st, worker'[n], 0, 0))
      /\ UNCHANGED <<gateway, seen, tomb, beats, history>>

\* _park_sandbox describes the published snapshot after the lock is released.
DescribePark(h) ==
  LET b == box[req[h].held.node][req[h].s]
      a == req[h].ans
  IN  /\ At(h, "park", "recorded")
      /\ worker[req[h].held.node].boot = a.boot
      /\ b # NoBox
      /\ Goto(h, "answered", req[h].held, Answer(a.st, a, 0, Published(b)))
      /\ UNCHANGED <<gateway, seen, workers, beats, history>>

\* WakePlacement.place and reserve_sandbox_wakes: parked becomes waking; a
\* route that is already waking or running is used as it is.
StartWake(h, s) ==
  LET r == route[s]
      w == IF r.state = "parked" THEN Edit(r, "waking", r.boot, r.act, r.snap) ELSE r
  IN  /\ "wake" \in Operations
      /\ req[h] = Idle
      /\ r.state \in {"parked", "waking", "running"}
      /\ r.del = 0 /\ r.ws = "attached"
      /\ Write(s, w)
      /\ req' = [req EXCEPT ![h] = Request("wake", "sent", s, w, NoAnswer)]
      /\ UNCHANGED <<seen, workers, beats, history>>

\* DirectService.wake, fenced by generation; a running sandbox is a no-op.
WorkerWake(h) ==
  LET s == req[h].s
      n == req[h].held.node
      b == box[n][s]
  IN  /\ At(h, "wake", "sent")
      /\ b.gen = req[h].held.gen
      /\ b.st \in {"running", "parked"}
      /\ Advance(n)
      /\ box' = [box EXCEPT ![n][s] = Box(b.gen, "running", b.cap, FALSE)]
      /\ Goto(h, "answered", req[h].held, Answer("running", worker'[n], b.cap, 0))
      /\ UNCHANGED <<gateway, seen, tomb, beats, history>>

\* The wake fails and the worker says the sandbox is still parked.
WorkerWakeFails(h) ==
  LET n == req[h].held.node
      b == box[n][req[h].s]
  IN  /\ At(h, "wake", "sent")
      /\ b.gen = req[h].held.gen /\ b.st = "parked"
      /\ Goto(h, "answered", req[h].held, Says("parked", 0))
      /\ UNCHANGED <<gateway, seen, workers, beats, history>>

\* LifecycleFence.validate, against the heartbeat stored at this moment.
FenceHolds(held, ans, hb) ==
  /\ hb.boot = ans.boot
  /\ held.boot \in {0, ans.boot}
  /\ ans.act > held.act
  /\ ans.act >= hb.act

ValidateReceipt(h) ==
  LET a == req[h].ans
  IN  /\ req[h].op \in {"park", "wake"} /\ req[h].step = "answered"
      /\ a.st = "running" \/ req[h].op = "park"
      /\ IF /\ FenceHolds(req[h].held, a, seen[req[h].held.node])
            /\ a.st = "running" => a.snap = 0
         THEN Goto(h, "valid", req[h].held, a)
         ELSE Finish(h)
      /\ UNCHANGED <<gateway, seen, workers, beats, history>>

\* Mutant: the compare-and-set does not look at the current activity revision.
SetStateAllowedStale(cur, held, expected, proof) ==
  /\ cur.state \in expected /\ Same(cur, held) /\ cur.ws = held.ws /\ cur.del = 0
  /\ proof.boot # 0 => cur.boot \in {0, proof.boot}

\* set_sandbox_state_if_current; a proof of boot 0 stands for no proof.
SetStateAllowed(cur, held, expected, proof) ==
  /\ cur.state \in expected /\ Same(cur, held) /\ cur.ws = held.ws /\ cur.del = 0
  /\ proof.boot # 0 =>
       /\ proof.act > held.act
       /\ held.boot \in {0, proof.boot}
       /\ cur.boot \in {0, proof.boot}
       /\ cur.act <= proof.act

\* LifecycleCommitter.park
CommitPark(h) ==
  LET s == req[h].s
      a == req[h].ans
      cur == route[s]
      r == Edit(cur, a.st, a.boot, a.act,
                IF a.st = "running" THEN 0 ELSE IF a.snap # 0 THEN a.snap ELSE cur.snap)
  IN  /\ At(h, "park", "valid")
      /\ IF SetStateAllowed(cur, req[h].held, {"running", "waking", "parked"}, a) /\ Valid(r)
         THEN Write(s, r)
         ELSE UNCHANGED gateway
      /\ Finish(h)
      /\ UNCHANGED <<seen, workers, beats, history>>

\* LifecycleCommitter.wake and confirm_sandbox_wake
CommitWake(h) ==
  LET s == req[h].s
      a == req[h].ans
      cur == route[s]
  IN  /\ At(h, "wake", "valid")
      /\ IF SetStateAllowed(cur, req[h].held, {"parked", "waking", "running"}, a)
         THEN /\ Write(s, Edit(cur, "running", a.boot, a.act, 0))
              /\ committed' = [committed EXCEPT ![s] = [gen |-> cur.gen, cap |-> a.cap]]
         ELSE UNCHANGED <<gateway, committed>>
      /\ Finish(h)
      /\ UNCHANGED <<seen, workers, beats, acked>>

\* _handle_lifecycle_proxy_response rolls a failed wake back, without a proof.
RollBackWake(h) ==
  LET s == req[h].s
      cur == route[s]
  IN  /\ At(h, "wake", "answered") /\ req[h].ans.st = "parked"
      /\ IF SetStateAllowed(cur, req[h].held, {"waking"}, NoAnswer)
         THEN Write(s, Edit(cur, "parked", cur.boot, cur.act, cur.snap))
         ELSE UNCHANGED gateway
      /\ Finish(h)
      /\ UNCHANGED <<seen, workers, beats, history>>

-----------------------------------------------------------------------------
(* Delete: record the intent, delete on the worker, remove the route.      *)

\* Mutant: a second DELETE finds the intent and does not reach the worker.
PrepareDeleteOnce(h, s) ==
  LET r == WithDelete(route[s], dels[s] + 1)
  IN  /\ "delete" \in Operations
      /\ req[h] = Idle
      /\ Exists(route[s]) /\ route[s].del = 0
      /\ dels[s] < MaxDelete
      /\ dels' = [dels EXCEPT ![s] = @ + 1]
      /\ route' = [route EXCEPT ![s] = IF r.ws = "detached" THEN NoRoute ELSE r]
      /\ req' = [req EXCEPT ![h] = IF r.ws = "attached"
                                   THEN Request("delete", "sent", s, Identity(r), NoAnswer)
                                   ELSE Idle]
      /\ UNCHANGED <<hwm, loss, seen, workers, beats, history>>

\* prepare_sandbox_delete and _prepare_delete_route.  A detached route has no
\* worker and goes at once; a detaching one is answered 503, because
\* _finish_sandbox_detach refuses a route with a delete intent.
PrepareDelete(h, s) ==
  LET r == IF route[s].del # 0 THEN route[s] ELSE WithDelete(route[s], dels[s] + 1)
  IN  /\ "delete" \in Operations
      /\ req[h] = Idle
      /\ Exists(route[s])
      /\ route[s].del # 0 \/ dels[s] < MaxDelete
      /\ dels' = [dels EXCEPT ![s] = IF route[s].del # 0 THEN @ ELSE @ + 1]
      /\ route' = [route EXCEPT ![s] = IF r.ws = "detached" THEN NoRoute ELSE r]
      /\ req' = [req EXCEPT ![h] = IF r.ws = "attached"
                                   THEN Request("delete", "sent", s, Identity(r), NoAnswer)
                                   ELSE Idle]
      /\ UNCHANGED <<hwm, loss, seen, workers, beats, history>>

\* A DELETE that finds no route clears whatever is left of the sandbox, by its
\* name alone (_write_absent_route, delete_sandbox).
ReadAbsent(h, s) ==
  /\ "delete" \in Operations
  /\ req[h] = Idle /\ ~Exists(route[s])
  /\ req' = [req EXCEPT ![h] = Request("delete", "absent", s, NoRoute, NoAnswer)]
  /\ UNCHANGED <<gateway, seen, workers, beats, history>>

DeleteAbsent(h) ==
  /\ At(h, "delete", "absent")
  /\ Remove(req[h].s)
  /\ Finish(h)
  /\ UNCHANGED <<seen, workers, beats, history>>

\* DirectService.delete, fenced by generation.  A sandbox that is not
\* registered is already deleted; another generation is refused (no answer).
WorkerDelete(h) ==
  LET s == req[h].s
      n == req[h].held.node
      g == req[h].held.gen
  IN  /\ req[h].op \in {"delete", "reap"} /\ req[h].step = "sent"
      /\ box[n][s].gen \in {0, g}
      /\ IF box[n][s].gen = g
         THEN /\ box' = [box EXCEPT ![n][s] = NoBox]
              /\ tomb' = [tomb EXCEPT ![n][s] = IF g > @ THEN g ELSE @]
              /\ worker' = [worker EXCEPT ![n] = Bumped(@)]
         ELSE UNCHANGED workers
      /\ Goto(h, "answered", req[h].held, Says("ok", 0))
      /\ UNCHANGED <<gateway, seen, beats, history>>

\* _commit_successful_worker_delete, and the reboot reaper's commit.  A reap of
\* a lost incarnation (held.del = 0) has no route to remove.
CommitDelete(h) ==
  LET s == req[h].s
      held == req[h].held
  IN  /\ req[h].op \in {"delete", "reap"} /\ req[h].step = "answered"
      /\ IF held.del # 0 /\ route[s].gen = held.gen /\ route[s].del = held.del
         THEN /\ Remove(s)
              /\ acked' = [acked EXCEPT ![s] = @ \cup {held.gen}]
         ELSE UNCHANGED <<gateway, acked>>
      /\ Finish(h)
      /\ UNCHANGED <<seen, workers, beats, committed>>

-----------------------------------------------------------------------------
(* Detach a published park from its worker, and accept a publication       *)
(* requested during wake placement.                                        *)

\* _detach_sandbox_from_worker: an unpublished park is published first, a
\* published one is fenced (begin_sandbox_detach) and then evicted.
StartDetach(h, s) ==
  LET r == route[s]
      d == WithWorker(r, "detaching")
  IN  /\ "detach" \in Operations
      /\ req[h] = Idle
      /\ r.state = "parked" /\ r.ws # "detached" /\ r.del = 0
      /\ IF IsPortable(r)
         THEN Write(s, d) /\ req' = [req EXCEPT ![h] = Request("evict", "sent", s, Identity(d), NoAnswer)]
         ELSE /\ req' = [req EXCEPT ![h] = Request("detach", "sent", s, Identity(r), NoAnswer)]
              /\ UNCHANGED gateway
      /\ UNCHANGED <<seen, workers, beats, history>>

\* publish_parked and request_storage_publication: the published capture of
\* the exact parked incarnation.
WorkerPublish(h) ==
  LET s == req[h].s
      n == req[h].held.node
      b == box[n][s]
  IN  /\ req[h].op \in {"detach", "publish"} /\ req[h].step = "sent"
      /\ b.gen = req[h].held.gen /\ b.st = "parked"
      /\ box' = [box EXCEPT ![n][s] = Box(b.gen, "parked", b.cap, TRUE)]
      /\ Goto(h, "answered", req[h].held, Says("parked", b.cap))
      /\ UNCHANGED <<gateway, seen, worker, tomb, beats, history>>

\* _publish_route_for_detach: the snapshot is committed without a lifecycle
\* proof.  The fence that follows is the same handler's next transaction.
CommitDetachSnapshot(h) ==
  LET s == req[h].s
      cur == route[s]
      r == Edit(cur, "parked", cur.boot, cur.act, req[h].ans.snap)
  IN  /\ At(h, "detach", "answered")
      /\ IF SetStateAllowed(cur, req[h].held, {"parked"}, NoAnswer)
         THEN Write(s, r) /\ Goto(h, "valid", Identity(r), NoAnswer)
         ELSE Finish(h) /\ UNCHANGED gateway
      /\ UNCHANGED <<seen, workers, beats, history>>

\* begin_sandbox_detach, after the publication
BeginDetach(h) ==
  LET s == req[h].s
      cur == route[s]
      d == WithWorker(cur, "detaching")
  IN  /\ At(h, "detach", "valid")
      /\ IF Same(cur, req[h].held) /\ IsPortable(cur) /\ cur.del = 0 /\ cur.ws # "detached"
         THEN Write(s, d) /\ req' = [req EXCEPT ![h] = Request("evict", "sent", s, Identity(d), NoAnswer)]
         ELSE Finish(h) /\ UNCHANGED gateway
      /\ UNCHANGED <<seen, workers, beats, history>>

\* Mutant: whatever this generation has parked is evicted.
EvictableAny(b, held) == b.gen = held.gen /\ b.st = "parked"

\* evict_published removes only the parked capture the route names.  The worker
\* is not asked when its last heartbeat shows that nothing is left, which is the
\* first alternative of WorkerEvict.
Evictable(b, held) ==
  b.gen = held.gen /\ Published(b) = held.snap /\ Published(b) # 0

WorkerEvict(h) ==
  LET s == req[h].s
      n == req[h].held.node
      g == req[h].held.gen
      b == box[n][s]
  IN  /\ At(h, "evict", "sent")
      /\ \/ b = NoBox /\ UNCHANGED workers
         \/ /\ Evictable(b, req[h].held)
            /\ box' = [box EXCEPT ![n][s] = NoBox]
            /\ tomb' = [tomb EXCEPT ![n][s] = IF g > @ THEN g ELSE @]
            /\ worker' = [worker EXCEPT ![n] = Bumped(@)]
      /\ Goto(h, "answered", req[h].held, Says("ok", 0))
      /\ UNCHANGED <<gateway, seen, beats, history>>

\* complete_sandbox_detach
CompleteDetach(h) ==
  LET s == req[h].s
      cur == route[s]
  IN  /\ At(h, "evict", "answered")
      /\ IF /\ Same(cur, req[h].held) /\ cur.ws = "detaching"
            /\ IsPortable(cur) /\ cur.del = 0
         THEN Write(s, Detached(cur))
         ELSE UNCHANGED gateway
      /\ Finish(h)
      /\ UNCHANGED <<seen, workers, beats, history>>

\* WakePlacement.place asks the owner to publish before it moves a park.
StartPublish(h, s) ==
  LET r == route[s]
  IN  /\ "publish" \in Operations
      /\ req[h] = Idle
      /\ r.state = "parked" /\ r.snap = 0 /\ r.del = 0 /\ r.ws = "attached"
      /\ req' = [req EXCEPT ![h] = Request("publish", "sent", s, Identity(r), NoAnswer)]
      /\ UNCHANGED <<gateway, seen, workers, beats, history>>

\* accept_publication checks the current route ...
Acceptable(cur, held) ==
  /\ cur.state = "parked" /\ cur.del = 0 /\ Same(cur, held) /\ cur.ws = held.ws

\* ... and upserts the route it read, whole.  The publication's record has no
\* epochs of its own, so the observation carries those of the route read.
Accepted(cur, k) == Edit(cur, "parked", cur.boot, cur.act, k)

\* In SQLite mode the read and the upsert are two transactions.
ReadForAccept(h) ==
  LET s == req[h].s
      cur == route[s]
  IN  /\ At(h, "publish", "answered")
      /\ ~Distributed
      /\ IF Acceptable(cur, req[h].held)
         THEN Goto(h, "valid", Accepted(cur, req[h].ans.snap), req[h].ans)
         ELSE Finish(h)
      /\ UNCHANGED <<gateway, seen, workers, beats, history>>

UpsertAccepted(h) ==
  LET s == req[h].s
      c == req[h].held
  IN  /\ At(h, "publish", "valid")
      /\ IF Exists(route[s]) => UpdateIsCurrent(route[s], c, TRUE)
         THEN Write(s, c)
         ELSE UNCHANGED gateway
      /\ Finish(h)
      /\ UNCHANGED <<seen, workers, beats, history>>

\* Mutant: the publication is written over whatever the route has become.
AcceptBlindly(h) ==
  LET s == req[h].s
  IN  /\ At(h, "publish", "answered")
      /\ Distributed
      /\ Write(s, Accepted(req[h].held, req[h].ans.snap))
      /\ Finish(h)
      /\ UNCHANGED <<seen, workers, beats, history>>

\* With PostgreSQL, run_placement makes them one serialised transaction.
AcceptAtomically(h) ==
  LET s == req[h].s
      cur == route[s]
  IN  /\ At(h, "publish", "answered")
      /\ Distributed
      /\ IF Acceptable(cur, req[h].held)
         THEN Write(s, Accepted(cur, req[h].ans.snap))
         ELSE UNCHANGED gateway
      /\ Finish(h)
      /\ UNCHANGED <<seen, workers, beats, history>>

\* The client, the connection or the gateway process goes away.
Forget(h) ==
  /\ req[h] # Idle
  /\ Finish(h)
  /\ UNCHANGED <<gateway, seen, workers, beats, history>>

-----------------------------------------------------------------------------
(* What a worker does by itself.                                           *)

\* The idle parker and background escalation
IdlePark(n, s) ==
  LET b == box[n][s]
  IN  /\ b.st = "running" /\ b.cap < MaxCapture
      /\ Advance(n)
      /\ box' = [box EXCEPT ![n][s] = Box(b.gen, "parked", b.cap + 1, FALSE)]
      /\ UNCHANGED <<gateway, seen, tomb, beats, req, history>>

\* The background publication of a park completes.
Publish(n, s) ==
  LET b == box[n][s]
  IN  /\ b.st = "parked" /\ ~b.pub
      /\ box' = [box EXCEPT ![n][s] = Box(b.gen, "parked", b.cap, TRUE)]
      /\ UNCHANGED <<gateway, seen, worker, tomb, beats, req, history>>

\* A reboot kills the processes and keeps the disk: parks survive.  Activity
\* revisions start again.
Reboot(n) ==
  /\ worker[n].boot < MaxBoot
  /\ worker' = [worker EXCEPT ![n] = [boot |-> @.boot + 1, act |-> 0, lag |-> 0]]
  /\ box' = [box EXCEPT ![n] = [s \in Sandboxes |->
               IF box[n][s].st = "running"
               THEN Box(box[n][s].gen, "dead", box[n][s].cap, FALSE)
               ELSE box[n][s]]]
  /\ UNCHANGED <<gateway, seen, tomb, beats, req, history>>

-----------------------------------------------------------------------------
(* Heartbeats.                                                             *)

Sent(n, a) ==
  [node |-> n, step |-> "sent", boot |-> worker[n].boot, act |-> a,
   inv |-> [s \in Sandboxes |-> Entry(box[n][s])], retired |-> {}, owed |-> {}]

\* heartbeat_snapshot reads the transient addend first, the inventory with the
\* durable addend later, and one sample at a time (_drain_guard): the revision
\* may miss the advances since the previous sample, never a registry commit.
Sample(n) ==
  /\ Cardinality(beats) < MaxBeats
  /\ \E a \in 0..worker[n].act :
       a + worker[n].lag >= worker[n].act /\ beats' = beats \cup {Sent(n, a)}
  /\ worker' = [worker EXCEPT ![n].lag = 0]
  /\ UNCHANGED <<gateway, seen, box, tomb, req, history>>

DropBeat(b) ==
  /\ beats' = beats \ {b}
  /\ UNCHANGED <<gateway, seen, workers, req, history>>

WithStep(b, step, retired, owed) ==
  [node |-> b.node, step |-> step, boot |-> b.boot, act |-> b.act,
   inv |-> b.inv, retired |-> retired, owed |-> owed]

\* receive_heartbeat accepts a heartbeat of the stored boot that is not older,
\* or of a boot it has not retired.
BeatAccepted(p, b) ==
  IF b.boot = p.boot THEN b.act >= p.act ELSE b.boot \notin p.retired

ReceiveBeat(b) ==
  LET p == seen[b.node]
      retired == p.retired \cup (IF b.boot = p.boot THEN {} ELSE {p.boot})
  IN  /\ b.step = "sent"
      /\ IF BeatAccepted(p, b)
         THEN /\ seen' = [seen EXCEPT ![b.node] =
                            [boot |-> b.boot, act |-> b.act, retired |-> retired]]
              /\ beats' = (beats \ {b}) \cup 
                   {WithStep(b, IF retired = {} THEN "retired" ELSE "stored", retired, {})}
         ELSE beats' = beats \ {b} /\ UNCHANGED seen
      /\ UNCHANGED <<gateway, workers, req, history>>

\* Mutant: whatever the new boot still lists is adopted with the state it has.
AfterRetirementAdopts(r, b, s) ==
  LET owned == Exists(r) /\ r.node = b.node /\ r.boot \in b.retired \ {b.boot}
  IN  IF ~owned \/ r.del # 0 THEN r
      ELSE IF b.inv[s].gen = r.gen THEN Edit(r, b.inv[s].st, b.boot, b.act, r.snap)
      ELSE IF Recoverable(r) THEN Detached(r) ELSE NoRoute

\* What retire_node_epochs leaves of route r.
AfterRetirement(r, b, s) ==
  LET owned == Exists(r) /\ r.node = b.node /\ r.boot \in b.retired \ {b.boot}
      parked == r.ws = "attached" /\ b.inv[s].st = "parked" /\ b.inv[s].gen = r.gen
  IN  IF ~owned \/ r.del # 0 THEN r
      ELSE IF parked THEN Edit(r, "parked", b.boot, b.act, r.snap)
      ELSE IF Recoverable(r) THEN Detached(r) ELSE NoRoute

\* Mutant: a route that is detached from its lost owner is recorded as lost too.
LostOwner(r, after) == Exists(r) /\ r.boot # 0 /\ after.boot = 0

\* sandbox_losses gets a row for a route that is removed.
Lost(r, after) == Exists(r) /\ ~Exists(after)

Intent(s) == [s |-> s, held |-> Identity(route[s])]

\* Mutant: only the intents the new boot's inventory still lists are delivered.
ListedIntents(b) ==
  {Intent(s) : s \in {t \in Sandboxes :
     /\ route[t].del # 0 /\ route[t].node = b.node
     /\ route[t].boot \in b.retired \ {b.boot} /\ b.inv[t].gen = route[t].gen}}

\* The delete intents that the retired boots have left.
Intents(b) ==
  {Intent(s) : s \in {t \in Sandboxes :
     /\ route[t].del # 0 /\ route[t].node = b.node
     /\ route[t].boot \in b.retired \ {b.boot}}}

\* reboot_lost_incarnations: what the inventory lists and `lost' records.
Strays(b, lost) ==
  {[s |-> s, held |-> Identity(Placed(lost[s], b.node, 0, 0))] : s \in
     {t \in Sandboxes : lost[t] # 0 /\ b.inv[t].gen = lost[t]}}

\* retire_node_epochs, replayed by every heartbeat once a boot was retired, and
\* the deletes _reap_retired_boots derives from it.
RetireBeat(b) ==
  LET after == [s \in Sandboxes |-> AfterRetirement(route[s], b, s)]
      loss1 == [s \in Sandboxes |->
                  IF Lost(route[s], after[s]) /\ route[s].gen >= loss[s] THEN route[s].gen ELSE loss[s]]
  IN  /\ b.step = "stored"
      /\ route' = after
      /\ loss' = loss1
      /\ beats' = (beats \ {b}) \cup
           {WithStep(b, "retired", b.retired, Intents(b) \cup Strays(b, loss1))}
      /\ UNCHANGED <<hwm, dels, seen, workers, req, history>>

\* RebootReaper takes up one owed delete of node n.
StartReap(n, b, o) ==
  /\ b.step = "retired" /\ b.node = n /\ o \in b.owed
  /\ req[n] = Idle
  /\ req' = [req EXCEPT ![n] = Request("reap", "sent", o.s, o.held, NoAnswer)]
  /\ UNCHANGED <<gateway, seen, workers, beats, history>>

\* Mutant: the observation is built without the route's delete intent.
ObservedWithoutDelete(r, b, s) ==
  [gen |-> b.inv[s].gen, node |-> b.node, state |-> b.inv[s].st, del |-> 0,
   boot |-> b.boot, act |-> b.act, ws |-> r.ws,
   snap |-> IF b.inv[s].st = "running" THEN 0
            ELSE IF b.inv[s].snap # 0 THEN b.inv[s].snap ELSE r.snap]

\* The candidate reconcile_sandboxes_for_node builds from a stable entry.
Observed(r, b, s) ==
  [gen |-> b.inv[s].gen, node |-> b.node, state |-> b.inv[s].st, del |-> r.del,
   boot |-> b.boot, act |-> b.act, ws |-> r.ws,
   snap |-> IF b.inv[s].st = "running" THEN 0
            ELSE IF b.inv[s].snap # 0 THEN b.inv[s].snap ELSE r.snap]

\* sandbox_route_state_from_observation knows the record's state.
Stable(b, s) == b.inv[s].st \in {"running", "parked"}

\* Mutant: an absent sandbox is removed whatever the activity revisions say.
AbsenceProvedAnyActivity(r, b) ==
  r.node = b.node /\ r.boot \in {0, b.boot} /\ r.state # "creating"

\* Inventory proves absence only for its own boot, for a confirmed create, and
\* at a revision that is not behind the route's.
AbsenceProved(r, b) ==
  /\ r.node = b.node /\ r.boot \in {0, b.boot} /\ r.state # "creating"
  /\ r.act <= b.act

\* What the reconciliation leaves of route r; `late' says the route was updated
\* after the heartbeat by the gateways' clocks.
AfterReconcile(r, b, s, late) ==
  IF ~Exists(r) THEN r
  ELSE IF b.inv[s].gen # 0
       THEN IF /\ Stable(b, s) /\ b.inv[s].gen = r.gen
               /\ UpdateIsCurrent(r, Observed(r, b, s), FALSE)
            THEN Observed(r, b, s) ELSE r
       ELSE IF AbsenceProved(r, b) /\ ~late
            THEN IF Recoverable(r) THEN Detached(r) ELSE NoRoute
            ELSE r

\* SandboxRoute refuses a candidate that is not Valid, before any fence is
\* checked, and the whole reconciliation rolls back.
ReconcileRaises(b) ==
  \E s \in Sandboxes :
    Exists(route[s]) /\ b.inv[s].gen # 0 /\ Stable(b, s) /\ ~Valid(Observed(route[s], b, s))

ReconcileBeat(b) ==
  /\ b.step = "retired"
  /\ IF ReconcileRaises(b)
     THEN UNCHANGED route
     ELSE \E late \in SUBSET Sandboxes :
            route' = [s \in Sandboxes |-> AfterReconcile(route[s], b, s, s \in late)]
  /\ beats' = beats \ {b}
  /\ UNCHANGED <<hwm, loss, dels, seen, workers, req, history>>

-----------------------------------------------------------------------------
HandlerStep(h) ==
  \/ \E s \in Sandboxes, n \in Nodes : ChooseNode(h, s, n)
  \/ \E s \in Sandboxes : StartReplay(h, s)
  \/ ReadRecord(h)
  \/ Allocate(h) \/ WorkerCreate(h) \/ StampCreate(h) \/ WorkerReject(h)
  \/ WorkerRollBack(h) \/ ConfirmCreate(h) \/ AbandonCreate(h)
  \/ \E n \in Nodes : Retarget(h, n)
  \/ \E s \in Sandboxes : StartPark(h, s) \/ StartWake(h, s)
  \/ WorkerPark(h) \/ DescribePark(h) \/ WorkerWake(h) \/ WorkerWakeFails(h)
  \/ ValidateReceipt(h) \/ CommitPark(h) \/ CommitWake(h) \/ RollBackWake(h)
  \/ \E s \in Sandboxes : PrepareDelete(h, s) \/ ReadAbsent(h, s)
  \/ DeleteAbsent(h)
  \/ WorkerDelete(h) \/ CommitDelete(h)
  \/ \E s \in Sandboxes : StartDetach(h, s) \/ StartPublish(h, s)
  \/ WorkerPublish(h) \/ CommitDetachSnapshot(h) \/ BeginDetach(h)
  \/ WorkerEvict(h) \/ CompleteDetach(h)
  \/ ReadForAccept(h) \/ UpsertAccepted(h) \/ AcceptAtomically(h)
  \/ Forget(h)

WorkerStep(n) ==
  \/ Reboot(n) \/ Sample(n)
  \/ \E s \in Sandboxes : IdlePark(n, s) \/ Publish(n, s)
  \/ WorkerDelete(n) \/ CommitDelete(n) \/ Forget(n)

BeatStep(b) ==
  \/ ReceiveBeat(b) \/ RetireBeat(b) \/ ReconcileBeat(b) \/ DropBeat(b)
  \/ \E n \in Nodes, o \in b.owed : StartReap(n, b, o)

Next ==
  \/ \E h \in Handlers : HandlerStep(h)
  \/ \E n \in Nodes : WorkerStep(n)
  \/ \E b \in beats : BeatStep(b)

Spec == Init /\ [][Next]_vars

RunningSpec == InitRunning /\ [][Next]_vars

\* Heartbeats keep being sent and applied, and are not lost for ever; not all of
\* them lag behind their inventory.
BeatFairness ==
  /\ \A n \in Nodes : SF_vars(Sample(n) /\ Sent(n, worker[n].act) \in beats')
  /\ WF_vars(\E b \in beats : ReceiveBeat(b))
  /\ SF_vars(\E b \in beats : BeatAccepted(seen[b.node], b) /\ ReceiveBeat(b))
  /\ SF_vars(\E b \in beats : RetireBeat(b))
  /\ SF_vars(\E b \in beats : ReconcileBeat(b))

\* The reaper threads keep running.
ReaperFairness ==
  \A n \in Nodes :
    /\ SF_vars(\E b \in beats : \E o \in b.owed : StartReap(n, b, o))
    /\ SF_vars(WorkerDelete(n)) /\ SF_vars(CommitDelete(n))

FairSpec == RunningSpec /\ BeatFairness /\ ReaperFairness

\* The client repeats a DELETE until it is answered, and its requests are not
\* lost for ever (the SDK and the tests retry).
ClientRepeats ==
  /\ \A h \in Handlers, s \in Sandboxes : SF_vars(PrepareDelete(h, s))
  /\ \A h \in Handlers : SF_vars(WorkerDelete(h)) /\ SF_vars(CommitDelete(h))

-----------------------------------------------------------------------------
(* Properties                                                              *)

\* Every variable stays in its type; in particular a route never takes a state
\* that the inventory knows and the router does not.
TypeOK ==
  /\ route \in [Sandboxes -> Route]
  /\ hwm \in [Sandboxes -> 0..MaxGeneration]
  /\ loss \in [Sandboxes -> 0..MaxGeneration]
  /\ dels \in [Sandboxes -> 0..MaxDelete]
  /\ seen \in [Nodes -> [boot: 1..MaxBoot, act: Nat, retired: SUBSET (1..MaxBoot)]]
  /\ worker \in [Nodes -> [boot: 1..MaxBoot, act: Nat, lag: Nat]]
  /\ box \in [Nodes -> [Sandboxes -> Boxes]]
  /\ tomb \in [Nodes -> [Sandboxes -> 0..MaxGeneration]]
  /\ \A b \in beats : b \in Beat
  /\ req \in [Actors -> Requests]
  /\ committed \in [Sandboxes -> [gen: 0..MaxGeneration, cap: 0..MaxCapture]]
  /\ acked \in [Sandboxes -> SUBSET (0..MaxGeneration)]

\* A route that was removed (deleted, abandoned, lost or absent) comes back only
\* as a new generation: no late receipt, publication or heartbeat inserts it
\* again (confirm_sandbox_observation, reconcile_sandboxes_for_node,
\* accept_publication).
GoneStaysGone ==
  [][\A s \in Sandboxes :
       ~Exists(route[s]) /\ Exists(route'[s]) => route'[s].gen > hwm[s]]_vars

\* The gateway's bookkeeping is that of module Incarnations.
Authority == INSTANCE Incarnations WITH
  own <- [s \in Sandboxes |-> route[s].gen], high <- hwm,
  intent <- [s \in Sandboxes |-> route[s].del], lost <- loss

\* The routing store implements Incarnations: every write of every handler and
\* of every heartbeat issues a new generation, records a delete intent,
\* releases or loses an incarnation, or leaves all of this alone.
ImplementsIncarnations == Authority!Spec

\* A generation recorded in sandbox_losses owns no route, now or later: what
\* reboot_lost_incarnations lets the reaper delete is nobody's sandbox.
LossIsFinal == \A s \in Sandboxes : Exists(route[s]) => route[s].gen > loss[s]

\* Within one boot of one incarnation's node the route's activity revision never
\* goes back, whichever of receipts, heartbeats and publications wrote it last.
ActivityNeverRewinds ==
  [][\A s \in Sandboxes :
       /\ Exists(route[s]) /\ Same(route[s], route'[s])
       /\ route'[s].boot = route[s].boot
       => route'[s].act >= route[s].act]_vars

\* Once a wake of checkpoint k was committed (the sandbox has run since, and may
\* have answered its client), the route never offers checkpoint k or an older
\* one as the portable state of that incarnation.
NoStaleCheckpoint ==
  \A s \in Sandboxes :
    IsPortable(route[s]) /\ committed[s].gen = route[s].gen
      => route[s].snap > committed[s].cap

\* A heartbeat that reports a park without a publication does not make a waking
\* route portable with a snapshot older than that park
\* (reconcile_sandboxes_for_node, is_portable_parked_route).
ParkedAloneIsNotPortable ==
  [][\A b \in beats : b.step = "retired" /\ beats' = beats \ {b} =>
       \A s \in Sandboxes :
         /\ b.inv[s].st = "parked" /\ b.inv[s].snap = 0
         /\ route[s].state = "waking" /\ IsPortable(route'[s])
         => route'[s].snap >= box[b.node][s].cap]_vars

\* A delete intent stays on its incarnation until the route goes: no wake, park,
\* confirmation, publication or heartbeat clears or replaces it.
DeleteIntentSticks ==
  [][\A s \in Sandboxes :
       route[s].del # 0 /\ route'[s].gen = route[s].gen => route'[s].del = route[s].del]_vars

\* When the inventory of a heartbeat removes or detaches a route, the worker
\* really does not have that incarnation any more at that moment, although the
\* inventory was read long before (reconcile_sandboxes_for_node).
AbsenceIsReal ==
  [][\A b \in beats : b.step = "retired" /\ beats' = beats \ {b} =>
       \A s \in Sandboxes :
         /\ Exists(route[s])
         /\ ~Exists(route'[s]) \/ (route[s].ws # "detached" /\ route'[s].ws = "detached")
         => box[b.node][s].gen # route[s].gen]_vars

\* A detached route stays detached, portable and thereby wakeable until a DELETE
\* ends it: nothing its former worker still says takes the snapshot away.
DetachedStaysWakeable ==
  [][\A s \in Sandboxes :
       Exists(route[s]) /\ route[s].ws = "detached" =>
         \/ IsPortable(route'[s]) /\ route'[s].ws = "detached"
         \/ dels'[s] > dels[s]]_vars

\* The snapshot a detached route would be woken from is newer than every
\* checkpoint the sandbox was woken from before: the worker's copy, which is gone,
\* held nothing newer (begin_sandbox_detach, evict_published).
DetachedIsCurrent ==
  \A s \in Sandboxes :
    /\ Exists(route[s]) /\ route[s].ws = "detached"
    /\ committed[s].gen = route[s].gen
    => route[s].snap > committed[s].cap

\* Applying a heartbeat never fails on a route the gateway itself wrote.
NoReconcileRaises == \A b \in beats : b.step = "retired" => ~ReconcileRaises(b)

\* A boot that was replaced by a later one does not become current again
\* (receive_heartbeat retires the epoch it replaces).
OldBootStaysOut == [][\A n \in Nodes : seen'[n].boot >= seen[n].boot]_vars

\* A route does not go back to an earlier boot of its node
\* (_route_update_is_current with epoch adoption).
RouteBootNeverRewinds ==
  [][\A s \in Sandboxes :
       Exists(route[s]) /\ Same(route[s], route'[s]) /\ route'[s].boot # 0
         => route'[s].boot >= route[s].boot]_vars

\* After a DELETE was answered with success no worker has that incarnation.
AckedDeleteIsFinal ==
  \A n \in Nodes, s \in Sandboxes : box[n][s].gen \notin acked[s]

\* At most one worker runs a sandbox.
SingleLive ==
  \A s \in Sandboxes, m, n \in Nodes :
    box[m][s].st = "running" /\ box[n][s].st = "running" => m = n

\* No step forgets the route of a sandbox that its worker is running: a DELETE,
\* an abandoned create or an inventory removes a running route only when the
\* incarnation is gone from its worker.
RunningIsRouted ==
  [][\A s \in Sandboxes :
       LET r == route[s]
       IN  r.state = "running" /\ ~Exists(route'[s]) =>
             ~(box[r.node][s].gen = r.gen /\ box[r.node][s].st = "running")]_vars

\* A delete intent is carried out: the route goes when the client keeps asking.
DeleteCompletes ==
  ClientRepeats => \A s \in Sandboxes : route[s].del # 0 ~> ~Exists(route[s])

\* A delete intent whose worker has rebooted is carried out by the reaper, even
\* if the client never asks again (retire_node_epochs, RebootReaper).
ReaperDelivers ==
  \A s \in Sandboxes :
    Exists(route[s]) /\ route[s].del # 0 /\ route[s].boot \in seen[route[s].node].retired
      ~> ~Exists(route[s])
=============================================================================
