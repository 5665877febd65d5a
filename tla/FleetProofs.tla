----------------------------- MODULE FleetProofs -----------------------------
(* Proofs about Fleet.  The inductive invariant IInv says more than TypeOK:  *)
(* a route that exists names a real node and a positive generation, a        *)
(* request that is under way holds such a node, and an answer that is about   *)
(* to be committed names a boot.  The invariant Ledger relates a route's      *)
(* generation to the high-water mark and to the losses.                       *)
EXTENDS Fleet, TLAPS

LiveStates == {"creating", "running", "waking", "parked"}
Attachments == {"attached", "detaching", "detached"}

\* The routes that exist.
Live == [gen: 1..MaxGeneration, node: Nodes, state: LiveStates,
         del: 0..MaxDelete, boot: 0..MaxBoot, act: Nat,
         ws: Attachments, snap: 0..MaxCapture]

\* What a request keeps of a route.
Held == [gen: 0..MaxGeneration, node: Nodes, state: LiveStates \cup {"none"},
         del: 0..MaxDelete, boot: 0..MaxBoot, act: Nat,
         ws: Attachments, snap: 0..MaxCapture]

Verbs == {"create", "replay", "get", "park", "wake", "delete", "reap", "publish",
          "detach", "evict"}
Steps == {"chosen", "sent", "recorded", "answered", "valid"}

Active == [op: Verbs, step: Steps, s: Sandboxes, held: Held, ans: Answers]

\* A DELETE that found no route holds none.
Absent == {Request("delete", "absent", s, NoRoute, NoAnswer) : s \in Sandboxes}

\* A route without a boot has no activity revision either.
Fenced(r) == r.boot = 0 => r.act = 0

\* What is known of the answer an active request holds.
AnswerOK(q) ==
  /\ q.op = "park" /\ q.step # "sent" => q.ans.st \in {"running", "parked"}
  /\ q.op \in {"park", "wake"} /\ q.step = "valid" => q.ans.boot # 0
  /\ q.op \in {"create", "replay", "get"} /\ q.ans.st \in {"running", "parked"}
       => q.ans.boot # 0
  /\ q.step = "chosen" => Fenced(q.held)
  /\ q.op = "publish" /\ q.step = "valid" => q.held \in Live /\ Fenced(q.held) /\ ~Distributed

GatewayOK ==
  /\ route \in [Sandboxes -> Live \cup {NoRoute}]
  /\ \A s \in Sandboxes : Fenced(route[s])
  /\ hwm \in [Sandboxes -> 0..MaxGeneration]
  /\ loss \in [Sandboxes -> 0..MaxGeneration]
  /\ dels \in [Sandboxes -> 0..MaxDelete]

SeenOK ==
  seen \in [Nodes -> [boot: 1..MaxBoot, act: Nat, retired: SUBSET (1..MaxBoot)]]

WorkersOK ==
  /\ worker \in [Nodes -> [boot: 1..MaxBoot, act: Nat, lag: Nat]]
  /\ box \in [Nodes -> [Sandboxes -> Boxes]]
  /\ tomb \in [Nodes -> [Sandboxes -> 0..MaxGeneration]]

Owed == [s: Sandboxes, held: Held]

Beats == [node: Nodes, step: {"sent", "stored", "retired"}, boot: 1..MaxBoot,
          act: Nat, inv: [Sandboxes -> Entries], retired: SUBSET (1..MaxBoot),
          owed: SUBSET Owed]

BeatsOK == beats \subseteq Beats

ReqOK ==
  /\ req \in [Actors -> Active \cup Absent \cup {Idle}]
  /\ \A h \in Actors : req[h] # Idle => AnswerOK(req[h])

HistoryOK ==
  /\ committed \in [Sandboxes -> [gen: 0..MaxGeneration, cap: 0..MaxCapture]]
  /\ acked \in [Sandboxes -> SUBSET (0..MaxGeneration)]

IInv == GatewayOK /\ SeenOK /\ WorkersOK /\ BeatsOK /\ ReqOK /\ HistoryOK

-----------------------------------------------------------------------------
(* Facts about the values.                                                 *)

\* The constants are small naturals.
LEMMA Bounds ==
  /\ MaxGeneration \in Nat /\ MaxGeneration >= 1 /\ MaxBoot \in Nat /\ MaxBoot >= 1
  /\ MaxCapture \in Nat /\ MaxCapture >= 1 /\ MaxDelete \in Nat /\ MaxDelete >= 1
  /\ MaxActivity \in Nat /\ MaxLag \in Nat /\ NoNode \notin Nodes /\ Distributed \in BOOLEAN
BY FleetAssumption

\* Idle is no active request, and a missing route is not a live one.
LEMMA Nulls ==
  /\ Idle \notin Active /\ NoRoute \notin Live /\ NoAnswer \in Answers
               /\ Idle.op = "none" /\ Idle.step = "idle" /\ ~Exists(NoRoute)
BY Bounds DEF Idle, Active, Verbs, NoRoute, Live, LiveStates, Exists, NoAnswer, Answers

\* Zero is in every range.
LEMMA Zero == 0 \in 0..MaxCapture /\ 0 \in 0..MaxBoot /\ 0 \in 0..MaxGeneration /\ 0 \in 0..MaxDelete
BY Bounds

\* A route that exists is live.
LEMMA ExistsLive ==
  ASSUME GatewayOK, NEW s \in Sandboxes
  PROVE  /\ Exists(route[s]) => route[s] \in Live
         /\ ~Exists(route[s]) => route[s] = NoRoute
         /\ route[s].state \in LiveStates => route[s] \in Live
BY DEF GatewayOK, Exists, NoRoute, Live, LiveStates

\* The fields of a live route.
LEMMA LiveParts ==
  ASSUME NEW r \in Live
  PROVE  r.gen \in 1..MaxGeneration /\ r.snap \in 0..MaxCapture /\ r.boot \in 0..MaxBoot /\ r.act \in Nat
BY DEF Live

\* The empty registration.
LEMMA NoBoxType == NoBox \in Boxes /\ NoBox.gen = 0
BY Bounds DEF NoBox, Boxes

\* The answers of a worker that does not run a create.
LEMMA Refusals ==
  /\ Says("rejected", 0) \in Answers /\ Says("rejected", 0).st = "rejected"
  /\ Says("refused", 0) \in Answers /\ Says("refused", 0).st = "refused"
BY Zero DEF Says, Answers

\* A request under way is an active one.
LEMMA ActiveReq ==
  ASSUME ReqOK, NEW h \in Actors, req[h].step \notin {"idle", "absent"}
  PROVE  /\ req[h] \in Active /\ req[h] # Idle /\ AnswerOK(req[h])
         /\ req[h].op \in Verbs /\ req[h].step \in Steps /\ req[h].s \in Sandboxes
         /\ req[h].held \in Held /\ req[h].held.node \in Nodes /\ req[h].ans \in Answers
<1>1. req[h] # Idle
  BY Nulls
<1>2. req[h] \in Active
  BY <1>1 DEF ReqOK, Absent, Request
<1> QED
  BY <1>1, <1>2 DEF ReqOK, Active, Held

\* A DELETE that has found no route still names a sandbox.
LEMMA AbsentReq ==
  ASSUME ReqOK, NEW h \in Actors, req[h].step = "absent"
  PROVE  req[h].s \in Sandboxes
<1>1. req[h] # Idle
  BY Nulls
<1> QED
  BY <1>1 DEF ReqOK, Active, Absent, Request

-----------------------------------------------------------------------------
(* The ledger of incarnations: what one step of the fleet may do to a route's *)
(* generation, delete intent, fence and loss record, whichever handler or     *)
(* heartbeat takes it.  Every step is, at every sandbox, one of six shapes;    *)
(* the ledger invariant and the theorems follow from the shapes alone.        *)

\* Within one boot on one node the activity revision does not go back.
Calm(r, q) == q.node = r.node /\ q.boot = r.boot => q.act >= r.act

Holds(s) ==
  /\ route'[s].gen = route[s].gen /\ route'[s].del = route[s].del
  /\ hwm'[s] = hwm[s] /\ loss'[s] = loss[s] /\ Calm(route[s], route'[s])

Issues(s) ==
  /\ route[s].del = 0
  /\ route'[s].gen = hwm[s] + 1 /\ hwm'[s] = hwm[s] + 1
  /\ route'[s].del = 0 /\ loss'[s] = loss[s]

Intends(s) ==
  /\ Exists(route[s]) /\ route[s].del = 0 /\ route'[s].del # 0
  /\ route'[s].gen = route[s].gen
  /\ hwm'[s] = hwm[s] /\ loss'[s] = loss[s] /\ Calm(route[s], route'[s])

Releases(s) ==
  Exists(route[s]) /\ route'[s] = NoRoute /\ hwm'[s] = hwm[s] /\ loss'[s] = loss[s]

Loses(s) ==
  /\ Exists(route[s]) /\ route[s].del = 0
  /\ route'[s] = NoRoute /\ hwm'[s] = hwm[s]
  /\ loss'[s] = IF route[s].gen >= loss[s] THEN route[s].gen ELSE loss[s]

\* The second transaction of a publication in SQLite mode.
Overwrites(s) ==
  /\ ~Distributed
  /\ Exists(route[s]) => route'[s].gen = route[s].gen /\ Calm(route[s], route'[s])
  /\ hwm'[s] \in Nat /\ hwm'[s] >= hwm[s] /\ route'[s].gen <= hwm'[s]

Shaped(s) ==
  Holds(s) \/ Issues(s) \/ Intends(s) \/ Releases(s) \/ Loses(s) \/ Overwrites(s)

\* No route is above the high-water mark, and with PostgreSQL a route is above
\* every generation its sandbox has lost.
Ledger ==
  \A s \in Sandboxes :
    /\ route[s].gen <= hwm[s]
    /\ Distributed => /\ loss[s] <= hwm[s]
                      /\ Exists(route[s]) => loss[s] < route[s].gen

\* A route exists if and only if it has a positive generation.
LEMMA RouteNumbers ==
  ASSUME NEW r \in Live \cup {NoRoute}
  PROVE  r.gen \in Nat /\ (Exists(r) <=> r.gen # 0)
BY Bounds DEF Live, NoRoute, Exists, LiveStates

\* The same of the routes of the gateway, with its other counters.
LEMMA Numbers ==
  ASSUME GatewayOK, NEW s \in Sandboxes
  PROVE  /\ route[s].gen \in Nat /\ hwm[s] \in Nat /\ loss[s] \in Nat
         /\ route[s].boot \in Nat /\ route[s].act \in Nat /\ route[s].del \in Nat
         /\ dels[s] \in Nat
         /\ Exists(route[s]) <=> route[s].gen # 0
         /\ ~Exists(route[s]) => route[s].del = 0 /\ route[s] = NoRoute
<1>1. CASE route[s] \in Live
  BY <1>1, Bounds DEF GatewayOK, Live, Exists, LiveStates
<1>2. CASE route[s] = NoRoute
  BY <1>2, Bounds DEF GatewayOK, NoRoute, Exists
<1> QED
  BY <1>1, <1>2 DEF GatewayOK

\* Every step of the fleet has one of the six shapes at every sandbox: first the
\* shapes of the writes, then those of the actions that write.
LEMMA NextShaped == \A t \in Sandboxes : IInv /\ Ledger /\ [Next]_vars => Shaped(t)
\* A route that keeps its revision, or takes another boot, is calm.
<1>StillCalm. ASSUME NEW e, NEW c, e.act \in Nat, c.act = e.act PROVE Calm(e, c)
  BY <1>StillCalm DEF Calm
<1>BootCalm. ASSUME NEW e, NEW c, c.boot # e.boot PROVE Calm(e, c)
  BY <1>BootCalm, Zenon DEF Calm
\* So is one that gives up its fence.
<1>DetachedCalm. ASSUME NEW e, Fenced(e) PROVE Calm(e, Detached(e))
  BY <1>DetachedCalm DEF Fenced, Detached, Calm
\* An observation that is current keeps the activity revision from rewinding.
<1>CurrentIsCalm. ASSUME NEW e, NEW c, NEW adopt \in BOOLEAN, UpdateIsCurrent(e, c, adopt),
             c.boot # 0, e.act \in Nat, c.act \in Nat
      PROVE  Calm(e, c) /\ c.gen = e.gen
  BY <1>CurrentIsCalm DEF UpdateIsCurrent, Same, Calm
\* And so does a current copy of an earlier read.
<1>FencedIsCalm. ASSUME NEW e, NEW c, UpdateIsCurrent(e, c, TRUE), Fenced(c), Fenced(e),
             e.act \in Nat, c.act \in Nat
      PROVE  Calm(e, c) /\ c.gen = e.gen
  BY <1>FencedIsCalm DEF UpdateIsCurrent, Same, Calm, Fenced
\* The high-water mark after a write.
<1>WriteMark. ASSUME GatewayOK, NEW s \in Sandboxes, NEW r, Write(s, r), r.gen \in Nat
      PROVE  /\ route'[s] = r /\ loss'[s] = loss[s] /\ hwm'[s] \in Nat /\ hwm'[s] >= hwm[s]
             /\ r.gen <= hwm'[s] /\ (r.gen <= hwm[s] => hwm'[s] = hwm[s])
  <2> USE <1>WriteMark
  <2>1. /\ hwm'[s] = IF r.gen > hwm[s] THEN r.gen ELSE hwm[s]
        /\ route'[s] = r /\ loss' = loss
    BY Zenon DEF GatewayOK, Write
  <2>2. hwm[s] \in Nat
    BY Numbers, Zenon
  <2> QED
    BY <2>1, <2>2
\* A step that leaves the gateway alone.
<1>IdleHolds. ASSUME GatewayOK, UNCHANGED gateway, NEW t \in Sandboxes PROVE Holds(t)
  BY <1>IdleHolds, <1>StillCalm, Numbers, ZenonT(30) DEF Holds, gateway
\* A write leaves the other sandboxes alone.
<1>OtherHolds. ASSUME GatewayOK, NEW s \in Sandboxes, NEW r, Write(s, r) \/ Remove(s),
             NEW t \in Sandboxes, t # s
      PROVE  Holds(t)
  <2> USE <1>OtherHolds
  <2>1. route'[t] = route[t] /\ hwm'[t] = hwm[t] /\ loss'[t] = loss[t]
    BY ZenonT(30) DEF GatewayOK, Write, Remove
  <2> QED
    BY <2>1, <1>StillCalm, Numbers, ZenonT(30) DEF Holds
\* Rewriting a route with its generation and intent.
<1>WriteHolds. ASSUME GatewayOK, Ledger, NEW s \in Sandboxes, NEW r, Write(s, r),
             r.gen = route[s].gen, r.del = route[s].del, Calm(route[s], r), NEW t \in Sandboxes
      PROVE  Holds(t)
  <2> USE <1>WriteHolds
  <2>1. route[s].gen <= hwm[s] /\ route[s].gen \in Nat
    BY Numbers, Zenon DEF Ledger
  <2> QED
    BY <2>1, <1>OtherHolds, <1>WriteMark, ZenonT(30) DEF Holds
\* Rewriting a route with its generation and a delete intent it did not have.
<1>WriteIntends. ASSUME GatewayOK, Ledger, NEW s \in Sandboxes, NEW r, Write(s, r),
             Exists(route[s]), r.gen = route[s].gen, route[s].del = 0, r.del # 0,
             Calm(route[s], r), NEW t \in Sandboxes
      PROVE  Holds(t) \/ Intends(t)
  <2> USE <1>WriteIntends
  <2>1. route[s].gen <= hwm[s] /\ route[s].gen \in Nat
    BY Numbers, Zenon DEF Ledger
  <2> QED
    BY <2>1, <1>OtherHolds, <1>WriteMark, ZenonT(30) DEF Intends
\* Writing the next generation.
<1>WriteIssues. ASSUME GatewayOK, NEW s \in Sandboxes, NEW n, NEW b, NEW a,
             Write(s, Placed(NextGeneration(s), n, b, a)), route[s].del = 0, NEW t \in Sandboxes
      PROVE  Holds(t) \/ Issues(t)
  <2> USE <1>WriteIssues
  <2>1. hwm[s] \in Nat
    BY Numbers
  <2>2. CASE t = s
    BY <2>1, <2>2 DEF Issues, Write, Placed, NextGeneration, GatewayOK
  <2> QED
    BY <2>2, <1>OtherHolds, Zenon
\* Removing a route, if there is one.
<1>RemoveReleases. ASSUME GatewayOK, NEW s \in Sandboxes, Remove(s), NEW t \in Sandboxes
      PROVE  Holds(t) \/ Releases(t)
  <2> USE <1>RemoveReleases
  <2>1. CASE t = s /\ Exists(route[s])
    BY <2>1, Zenon DEF Releases, Remove, GatewayOK
  <2>2. CASE t = s /\ ~Exists(route[s])
    <3>1. route'[t] = route[t] /\ hwm'[t] = hwm[t] /\ loss'[t] = loss[t]
      BY <2>2, Numbers, ZenonT(30) DEF Remove, GatewayOK
    <3> QED
      BY <3>1, <1>StillCalm, Numbers, ZenonT(30) DEF Holds
  <2> QED
    BY <2>1, <2>2, <1>OtherHolds, Zenon
\* The writes of a handler, and the reaper's.
<1>WriteShaped. ASSUME IInv, Ledger, NEW h \in Actors, NEW t \in Sandboxes
      PROVE  \/ Allocate(h) \/ ConfirmCreate(h) \/ AbandonCreate(h)
             \/ \E n \in Nodes : Retarget(h, n)
             \/ \E s \in Sandboxes : StartWake(h, s) \/ PrepareDelete(h, s) \/ StartDetach(h, s)
             \/ CommitPark(h) \/ CommitWake(h) \/ RollBackWake(h) \/ CommitDelete(h)
             \/ CommitDetachSnapshot(h) \/ BeginDetach(h) \/ CompleteDetach(h)
             \/ UpsertAccepted(h) \/ AcceptAtomically(h) \/ DeleteAbsent(h)
             => Shaped(t)
  <2> USE <1>WriteShaped
  \* reserve_create_intent issues the next generation of a sandbox without a route.
  <2>Allocate. ASSUME Allocate(h) PROVE Shaped(t)
    <3> USE <2>Allocate
    <3>1. req[h].s \in Sandboxes /\ GatewayOK
      BY ActiveReq DEF Allocate, At, IInv
    <3>2. CASE UNCHANGED gateway
      BY ZenonT(30), <3>1, <3>2, <1>IdleHolds DEF Shaped
    <3>3. CASE /\ ~Exists(route[req[h].s])
               /\ Write(req[h].s, Placed(NextGeneration(req[h].s), req[h].held.node,
                                         req[h].held.boot, req[h].held.act))
      BY <3>1, <3>3, Numbers, <1>WriteIssues, ZenonT(30) DEF Shaped
    <3> QED
      BY <3>2, <3>3 DEF Allocate
  \* A confirmation keeps the generation, and the intent its request had read.
  <2>ConfirmCreate. ASSUME ConfirmCreate(h) PROVE Shaped(t)
    <3> USE <2>ConfirmCreate
    <3> DEFINE s == req[h].s
               held == req[h].held
               a == req[h].ans
               c == CreateReceipt(held, a)
               cur == route[s]
    <3>1. /\ s \in Sandboxes /\ GatewayOK /\ a \in Answers /\ a.boot # 0
      BY ActiveReq DEF ConfirmCreate, Creating, At, IInv, AnswerOK
    <3>2. CASE UNCHANGED gateway
      BY <3>1, <3>2, <1>IdleHolds DEF Shaped
    <3>3. CASE /\ Write(s, c) /\ Exists(cur) /\ cur.del = 0 /\ UpdateIsCurrent(cur, c, TRUE)
      <4>1. c.boot = a.boot /\ c.act = a.act /\ c.del = held.del
        BY DEF CreateReceipt, Edit
      <4>2. c.gen = cur.gen /\ Calm(cur, c)
        <5>1. c.boot # 0 /\ c.act \in Nat /\ cur.act \in Nat
          BY ZenonT(30), <3>1, <4>1, Numbers DEF Answers
        <5> HIDE DEF c, cur
        <5> QED
          BY <3>3, <5>1, <1>CurrentIsCalm, Zenon
      <4>3. CASE held.del = 0
        <5> HIDE DEF c
        <5> QED
          BY <3>1, <3>3, <4>1, <4>2, <4>3, <1>WriteHolds DEF Shaped
      <4>4. CASE held.del # 0
        <5> HIDE DEF c
        <5> QED
          BY ZenonT(30), <3>1, <3>3, <4>1, <4>2, <4>4, <1>WriteIntends DEF Shaped
      <4> QED
        BY <4>3, <4>4
    <3> QED
      BY <3>2, <3>3, ZenonT(30) DEF ConfirmCreate
  \* retarget_create_intent replaces an unconfirmed create that nobody asked to delete.
  <2>Retarget. ASSUME NEW n \in Nodes, Retarget(h, n) PROVE Shaped(t)
    <3> USE <2>Retarget
    <3>1. req[h].s \in Sandboxes /\ GatewayOK
      BY ActiveReq DEF Retarget, At, IInv
    <3>2. CASE UNCHANGED gateway
      BY <3>1, <3>2, <1>IdleHolds DEF Shaped
    <3>3. ASSUME NEW b, NEW a, Write(req[h].s, Placed(NextGeneration(req[h].s), n, b, a)),
                 route[req[h].s].del = 0
          PROVE  Shaped(t)
      BY ZenonT(30), <3>1, <3>3, <1>WriteIssues DEF Shaped
    <3> QED
      BY ZenonT(30), <3>2, <3>3 DEF Retarget
  \* An abandoned create releases.
  <2>AbandonCreate. ASSUME AbandonCreate(h) PROVE Shaped(t)
    <3> USE <2>AbandonCreate
    <3>1. req[h].s \in Sandboxes /\ GatewayOK
      BY ActiveReq DEF AbandonCreate, Creating, IInv
    <3> QED
      BY ZenonT(30), <3>1, <1>IdleHolds, <1>RemoveReleases DEF AbandonCreate, Shaped
  \* A DELETE that found no route releases the one it meets.
  <2>DeleteAbsent. ASSUME DeleteAbsent(h) PROVE Shaped(t)
    BY <2>DeleteAbsent, AbsentReq, <1>RemoveReleases DEF DeleteAbsent, At, Shaped, IInv
  \* Reserving a wake keeps the fence.
  <2>StartWake. ASSUME NEW s \in Sandboxes, StartWake(h, s) PROVE Shaped(t)
    <3> USE <2>StartWake
    <3> DEFINE r == route[s]
               w == IF r.state = "parked" THEN Edit(r, "waking", r.boot, r.act, r.snap) ELSE r
    <3>1. GatewayOK /\ Write(s, w)
      BY ZenonT(30) DEF StartWake, IInv
    <3>2. w.gen = r.gen /\ w.del = r.del /\ w.act = r.act
      BY ZenonT(30) DEF Edit
    <3> HIDE DEF w
    <3> QED
      BY <3>1, <3>2, <1>WriteHolds, <1>StillCalm, Numbers, ZenonT(30) DEF Shaped
  \* A commit that names a boot and passes the compare-and-set is calm.
  <2>AllowedIsCalm. ASSUME NEW cur, NEW held, NEW expected, NEW a,
               SetStateAllowed(cur, held, expected, a), a.boot # 0, NEW st, NEW k
        PROVE  Calm(cur, Edit(cur, st, a.boot, a.act, k))
    BY <2>AllowedIsCalm, Zenon DEF SetStateAllowed, Calm, Edit
  \* The commit of a park passes the compare-and-set.
  <2>CommitPark. ASSUME CommitPark(h) PROVE Shaped(t)
    <3> USE <2>CommitPark
    <3> DEFINE s == req[h].s
               a == req[h].ans
               cur == route[s]
               k == IF a.st = "running" THEN 0 ELSE IF a.snap # 0 THEN a.snap ELSE cur.snap
               r == Edit(cur, a.st, a.boot, a.act, k)
    <3>1. /\ s \in Sandboxes /\ GatewayOK /\ a.boot # 0
      BY ActiveReq DEF CommitPark, At, IInv, AnswerOK
    <3>2. CASE UNCHANGED gateway
      BY <3>1, <3>2, <1>IdleHolds, Zenon DEF Shaped
    <3>3. CASE Write(s, r) /\ SetStateAllowed(cur, req[h].held, {"running", "waking", "parked"}, a)
      <4>1. Calm(cur, r)
        BY <3>1, <3>3, <2>AllowedIsCalm, ZenonT(30)
      <4>2. r.gen = cur.gen /\ r.del = cur.del
        BY DEF Edit
      <4> HIDE DEF r
      <4> QED
        BY <3>1, <3>3, <4>1, <4>2, <1>WriteHolds, Zenon DEF Shaped
    <3> QED
      BY <3>2, <3>3, ZenonT(30) DEF CommitPark
  \* So does the commit of a wake.
  <2>CommitWake. ASSUME CommitWake(h) PROVE Shaped(t)
    <3> USE <2>CommitWake
    <3> DEFINE s == req[h].s
               a == req[h].ans
               cur == route[s]
               r == Edit(cur, "running", a.boot, a.act, 0)
    <3>1. /\ s \in Sandboxes /\ GatewayOK /\ a.boot # 0
      BY ActiveReq, ZenonT(30) DEF CommitWake, At, IInv, AnswerOK
    <3>2. CASE UNCHANGED gateway
      BY ZenonT(30), <3>1, <3>2, <1>IdleHolds DEF Shaped
    <3>3. CASE Write(s, r) /\ SetStateAllowed(cur, req[h].held, {"parked", "waking", "running"}, a)
      <4>1. Calm(cur, r)
        BY <3>1, <3>3, <2>AllowedIsCalm, Zenon
      <4>2. r.gen = cur.gen /\ r.del = cur.del
        BY ZenonT(30) DEF Edit
      <4> HIDE DEF r
      <4> QED
        BY <3>1, <3>3, <4>1, <4>2, <1>WriteHolds DEF Shaped
    <3> QED
      BY <3>2, <3>3, Zenon DEF CommitWake
  \* Rewriting a route with its own fence.
  <2>EditHolds. ASSUME GatewayOK, NEW s \in Sandboxes, NEW st, NEW k,
               Write(s, Edit(route[s], st, route[s].boot, route[s].act, k))
        PROVE  Shaped(t)
    <3> USE <2>EditHolds
    <3> DEFINE r == Edit(route[s], st, route[s].boot, route[s].act, k)
    <3>1. r.gen = route[s].gen /\ r.del = route[s].del /\ r.act = route[s].act
      BY Zenon DEF Edit
    <3> HIDE DEF r
    <3> QED
      BY <3>1, <1>WriteHolds, <1>StillCalm, Numbers, ZenonT(30) DEF Shaped, r
  \* The roll-back of a wake keeps the fence.
  <2>RollBackWake. ASSUME RollBackWake(h) PROVE Shaped(t)
    <3> USE <2>RollBackWake
    <3>1. req[h].s \in Sandboxes /\ GatewayOK
      BY ActiveReq DEF RollBackWake, At, IInv
    <3> QED
      BY <3>1, <2>EditHolds, <1>IdleHolds, ZenonT(30) DEF RollBackWake, Shaped
  \* A DELETE records the one intent of an incarnation, keeps it, or releases.
  <2>PrepareDelete. ASSUME NEW s \in Sandboxes, PrepareDelete(h, s) PROVE Shaped(t)
    <3> USE <2>PrepareDelete
    <3> DEFINE r == IF route[s].del # 0 THEN route[s] ELSE WithDelete(route[s], dels[s] + 1)
    <3>1. GatewayOK /\ route' = [route EXCEPT ![s] = IF r.ws = "detached" THEN NoRoute ELSE r]
      BY ZenonT(30) DEF PrepareDelete, IInv
    <3>2. /\ Exists(route[s]) /\ hwm'[t] = hwm[t] /\ loss'[t] = loss[t] /\ dels[s] \in Nat
          /\ route[s].act \in Nat /\ route[t].act \in Nat
      BY <3>1, Numbers, ZenonT(30) DEF PrepareDelete
    <3>3. r.gen = route[s].gen /\ Calm(route[s], r)
      <4>1. r.gen = route[s].gen /\ r.act = route[s].act
        BY ZenonT(30) DEF WithDelete
      <4> QED
        BY <3>2, <4>1, <1>StillCalm, Zenon
    <3>4. r.del # 0 /\ (route[s].del # 0 => r.del = route[s].del)
      <4>1. dels[s] + 1 # 0
        BY <3>2
      <4> QED
        BY <4>1, ZenonT(30) DEF WithDelete
    <3>5. CASE t # s
      <4>1. route'[t] = route[t]
        BY <3>1, <3>5, Zenon DEF GatewayOK
      <4> QED
        BY <3>2, <4>1, <1>StillCalm, ZenonT(30) DEF Shaped, Holds
    <3>6. CASE t = s
      <4> HIDE DEF r
      <4>1. route'[s] = NoRoute \/ route'[s] = r
        BY <3>1, ZenonT(30) DEF GatewayOK
      <4> QED
        BY <3>2, <3>3, <3>4, <3>6, <4>1, ZenonT(30) DEF Shaped, Holds, Intends, Releases
    <3> QED
      BY <3>5, <3>6, Zenon
  \* The commit of a delete releases.
  <2>CommitDelete. ASSUME CommitDelete(h) PROVE Shaped(t)
    <3> USE <2>CommitDelete
    <3>1. req[h].s \in Sandboxes /\ GatewayOK
      BY ActiveReq DEF CommitDelete, IInv
    <3> QED
      BY <3>1, <1>IdleHolds, <1>RemoveReleases, ZenonT(30) DEF CommitDelete, Shaped
  \* Changing how a route is attached, or detaching it.
  <2>AttachHolds. ASSUME GatewayOK, NEW s \in Sandboxes, NEW w,
               Write(s, WithWorker(route[s], w)) \/ Write(s, Detached(route[s]))
        PROVE  Shaped(t)
    <3> USE <2>AttachHolds
    <3>1. CASE Write(s, WithWorker(route[s], w))
      <4> DEFINE r == WithWorker(route[s], w)
      <4>1. r.gen = route[s].gen /\ r.del = route[s].del /\ r.act = route[s].act
        BY Zenon DEF WithWorker
      <4> HIDE DEF r
      <4> QED
        BY <3>1, <4>1, <1>WriteHolds, <1>StillCalm, Numbers, ZenonT(30) DEF Shaped, r
    <3>2. CASE Write(s, Detached(route[s]))
      <4> DEFINE r == Detached(route[s])
      <4>1. r.gen = route[s].gen /\ r.del = route[s].del
        BY Zenon DEF Detached
      <4>2. Calm(route[s], r)
        BY <1>DetachedCalm, Zenon DEF GatewayOK
      <4> HIDE DEF r
      <4> QED
        BY <3>2, <4>1, <4>2, <1>WriteHolds, ZenonT(30) DEF Shaped, r
    <3> QED
      BY <3>1, <3>2
  \* The first transaction of a detach changes the attachment only.
  <2>StartDetach. ASSUME NEW s \in Sandboxes, StartDetach(h, s) PROVE Shaped(t)
    BY <2>StartDetach, <2>AttachHolds, <1>IdleHolds, Zenon DEF StartDetach, Shaped, IInv
  \* The snapshot of a detach is written without touching the fence.
  <2>CommitDetachSnapshot. ASSUME CommitDetachSnapshot(h) PROVE Shaped(t)
    <3> USE <2>CommitDetachSnapshot
    <3>1. req[h].s \in Sandboxes /\ GatewayOK
      BY ActiveReq, Zenon DEF CommitDetachSnapshot, At, IInv
    <3> QED
      BY <3>1, <2>EditHolds, <1>IdleHolds, Zenon DEF CommitDetachSnapshot, Shaped
  \* begin_sandbox_detach changes the attachment only.
  <2>BeginDetach. ASSUME BeginDetach(h) PROVE Shaped(t)
    <3> USE <2>BeginDetach
    <3>1. req[h].s \in Sandboxes /\ GatewayOK
      BY ActiveReq, Zenon DEF BeginDetach, At, IInv
    <3> QED
      BY <3>1, <2>AttachHolds, <1>IdleHolds, Zenon DEF BeginDetach, Shaped
  \* complete_sandbox_detach gives up the fence.
  <2>CompleteDetach. ASSUME CompleteDetach(h) PROVE Shaped(t)
    <3> USE <2>CompleteDetach
    <3>1. req[h].s \in Sandboxes /\ GatewayOK
      BY ActiveReq, ZenonT(30) DEF CompleteDetach, At, IInv
    <3> QED
      BY <3>1, <2>AttachHolds, <1>IdleHolds, Zenon DEF CompleteDetach, Shaped
  \* A publication accepted in one transaction keeps intent and fence.
  <2>AcceptAtomically. ASSUME AcceptAtomically(h) PROVE Shaped(t)
    <3> USE <2>AcceptAtomically
    <3>1. req[h].s \in Sandboxes /\ GatewayOK
      BY ActiveReq DEF AcceptAtomically, At, IInv
    <3> QED
      BY ZenonT(30), <3>1, <2>EditHolds, <1>IdleHolds DEF AcceptAtomically, Accepted, Shaped
  \* The one write that does not look at what the route has become.
  <2>UpsertAccepted. ASSUME UpsertAccepted(h) PROVE Shaped(t)
    <3> USE <2>UpsertAccepted
    <3> DEFINE s == req[h].s
               c == req[h].held
    <3>1. s \in Sandboxes /\ GatewayOK /\ c \in Live /\ Fenced(c) /\ ~Distributed
      BY ActiveReq, Zenon DEF UpsertAccepted, At, IInv, AnswerOK
    <3>2. CASE UNCHANGED gateway
      BY <3>1, <3>2, <1>IdleHolds DEF Shaped
    <3>3. CASE Write(s, c) /\ (Exists(route[s]) => UpdateIsCurrent(route[s], c, TRUE))
      <4>1. c.gen \in Nat /\ c.act \in Nat
        BY <3>1, RouteNumbers, LiveParts, Zenon
      <4>2. route[s].act \in Nat /\ Fenced(route[s])
        BY <3>1, Numbers, ZenonT(30) DEF GatewayOK
      <4>3. Exists(route[s]) => c.gen = route[s].gen /\ Calm(route[s], c)
        BY <3>1, <3>3, <4>1, <4>2, <1>FencedIsCalm, Zenon
      <4>4. CASE t = s
        BY <3>1, <3>3, <4>1, <4>3, <4>4, <1>WriteMark, ZenonT(30) DEF Shaped, Overwrites
      <4> QED
        BY <3>1, <3>3, <4>4, <1>OtherHolds, ZenonT(30) DEF Shaped
    <3> QED
      BY <3>2, <3>3, Zenon DEF UpsertAccepted
  <2> QED
    BY <2>Allocate, <2>ConfirmCreate, <2>Retarget, <2>AbandonCreate, <2>DeleteAbsent,
       <2>StartWake, <2>CommitPark, <2>CommitWake, <2>RollBackWake, <2>PrepareDelete,
       <2>CommitDelete, <2>StartDetach, <2>CommitDetachSnapshot, <2>BeginDetach, <2>CompleteDetach,
       <2>AcceptAtomically, <2>UpsertAccepted, ZenonT(30)
\* The writes of a heartbeat.
<1>BeatShaped. ASSUME IInv, Ledger, NEW b \in beats, NEW t \in Sandboxes
      PROVE  RetireBeat(b) \/ ReconcileBeat(b) => Shaped(t)
  <2> USE <1>BeatShaped
  \* retire_node_epochs loses, detaches or re-fences what a retired boot owned.
  <2>RetireBeat. ASSUME RetireBeat(b) PROVE Shaped(t)
    <3> USE <2>RetireBeat
    <3> DEFINE after == AfterRetirement(route[t], b, t)
    <3>1. GatewayOK /\ hwm'[t] = hwm[t] /\ route'[t] = after
      BY DEF RetireBeat, IInv
    <3>2. loss'[t] = IF Lost(route[t], after) /\ route[t].gen >= loss[t] THEN route[t].gen ELSE loss[t]
      BY Zenon DEF RetireBeat
    <3>3. CASE after = NoRoute /\ Exists(route[t]) /\ route[t].del = 0
      BY <3>1, <3>2, <3>3, Nulls, ZenonT(30) DEF Shaped, Loses, Lost
    <3>4. CASE after = route[t]
      <4>1. loss'[t] = loss[t]
        BY <3>2, <3>4, Zenon DEF Lost
      <4> QED
        BY <3>1, <3>4, <4>1, <1>StillCalm, Numbers, ZenonT(30) DEF Shaped, Holds
    <3>5. CASE after = Edit(route[t], "parked", b.boot, b.act, route[t].snap) /\ route[t].boot # b.boot
      <4> HIDE DEF after
      <4>1. /\ after.gen = route[t].gen /\ after.del = route[t].del /\ after.boot = b.boot
            /\ after.state = "parked"
        BY <3>5, Zenon DEF Edit
      <4>2. loss'[t] = loss[t]
        BY <3>2, <4>1, Zenon DEF Lost, Exists
      <4> QED
        BY <3>1, <3>5, <4>1, <4>2, <1>BootCalm, ZenonT(30) DEF Shaped, Holds
    <3>6. CASE after = Detached(route[t]) /\ Recoverable(route[t])
      <4> HIDE DEF after
      <4>1. Calm(route[t], after)
        BY <3>1, <3>6, <1>DetachedCalm, Zenon DEF GatewayOK
      <4>2. after.gen = route[t].gen /\ after.del = route[t].del /\ after.state = route[t].state
        BY <3>6, Zenon DEF Detached
      <4>3. loss'[t] = loss[t]
        BY <3>2, <4>2, Zenon DEF Lost, Exists
      <4> QED
        BY <3>1, <4>1, <4>2, <4>3, ZenonT(30) DEF Shaped, Holds
    <3> QED
      BY ZenonT(30), <3>3, <3>4, <3>5, <3>6 DEF AfterRetirement
  \* reconcile_sandboxes_for_node applies a current observation, releases or detaches.
  <2>ReconcileBeat. ASSUME ReconcileBeat(b) PROVE Shaped(t)
    <3> USE <2>ReconcileBeat
    <3> DEFINE c == Observed(route[t], b, t)
    <3>1. GatewayOK /\ hwm'[t] = hwm[t] /\ loss'[t] = loss[t]
      BY DEF ReconcileBeat, IInv
    <3>2. /\ b.boot # 0 /\ b.act \in Nat
      BY DEF IInv, BeatsOK, Beats
    <3>3. CASE route'[t] = route[t]
      BY <3>1, <3>3, <1>StillCalm, Numbers, ZenonT(30) DEF Shaped, Holds
    <3>4. CASE route'[t] = NoRoute /\ Exists(route[t])
      BY <3>1, <3>4, ZenonT(30) DEF Shaped, Releases
    <3>5. CASE route'[t] = Detached(route[t])
      <4>1. Calm(route[t], Detached(route[t]))
        BY <3>1, <1>DetachedCalm, Zenon DEF GatewayOK
      <4>2. Detached(route[t]).gen = route[t].gen /\ Detached(route[t]).del = route[t].del
        BY Zenon DEF Detached
      <4> QED
        BY <3>1, <3>5, <4>1, <4>2, ZenonT(30) DEF Shaped, Holds
    <3>6. CASE route'[t] = c /\ UpdateIsCurrent(route[t], c, FALSE)
      <4>1. c.boot = b.boot /\ c.act = b.act /\ c.del = route[t].del
        BY ZenonT(30) DEF Observed
      <4>2. route[t].act \in Nat
        BY <3>1, Numbers, Zenon
      <4> HIDE DEF c
      <4>3. Calm(route[t], c) /\ c.gen = route[t].gen
        BY <3>2, <3>6, <4>1, <4>2, <1>CurrentIsCalm, Zenon
      <4> QED
        BY <3>1, <3>6, <4>1, <4>3, ZenonT(30) DEF Shaped, Holds
    <3>7. CASE UNCHANGED route
      BY <3>3, <3>7
    <3>8. ASSUME NEW late \in SUBSET Sandboxes,
                 route' = [s \in Sandboxes |-> AfterReconcile(route[s], b, s, s \in late)]
          PROVE  Shaped(t)
      <4>1. \/ route'[t] = route[t]
            \/ route'[t] = NoRoute /\ Exists(route[t])
            \/ route'[t] = Detached(route[t])
            \/ route'[t] = c /\ UpdateIsCurrent(route[t], c, FALSE)
        BY <3>8, Zenon DEF AfterReconcile
      <4> QED
        BY <3>3, <3>4, <3>5, <3>6, <4>1, Zenon
    <3> QED
      BY ZenonT(30), <3>7, <3>8 DEF ReconcileBeat
  <2> QED
    BY <2>RetireBeat, <2>ReconcileBeat, ZenonT(30)
\* The steps of the handlers,
<1>HandlerShaped. ASSUME IInv, Ledger, NEW h \in Handlers, HandlerStep(h), NEW t \in Sandboxes
      PROVE  Shaped(t)
  <2>1. h \in Actors
    BY Zenon DEF Actors
  <2>2. CASE \/ \E s \in Sandboxes, n \in Nodes : ChooseNode(h, s, n)
             \/ \E s \in Sandboxes : StartReplay(h, s) \/ StartPark(h, s) \/ StartPublish(h, s)
             \/ ReadRecord(h) \/ WorkerCreate(h) \/ StampCreate(h) \/ WorkerReject(h)
             \/ WorkerPark(h) \/ DescribePark(h) \/ WorkerWake(h) \/ WorkerWakeFails(h)
             \/ ValidateReceipt(h) \/ WorkerDelete(h) \/ WorkerPublish(h) \/ WorkerEvict(h)
             \/ ReadForAccept(h) \/ Forget(h) \/ WorkerRollBack(h)
             \/ \E s \in Sandboxes : ReadAbsent(h, s)
    <3>1. UNCHANGED gateway
      BY <2>2, ZenonT(30) DEF ChooseNode, StartReplay, StartPark, StartPublish, ReadRecord,
         WorkerCreate, StampCreate, WorkerReject, WorkerPark, DescribePark, WorkerWake,
         WorkerWakeFails, ValidateReceipt, WorkerDelete, WorkerPublish, WorkerEvict,
         ReadForAccept, Forget, WorkerRollBack, ReadAbsent
    <3> QED
      BY <1>HandlerShaped, <3>1, <1>IdleHolds, Zenon DEF Shaped, IInv
  <2> QED
    BY <1>HandlerShaped, <2>1, <2>2, <1>WriteShaped, ZenonT(30) DEF HandlerStep
\* of the workers
<1>WorkerShaped. ASSUME IInv, Ledger, NEW n \in Nodes, WorkerStep(n), NEW t \in Sandboxes
      PROVE  Shaped(t)
  <2>1. n \in Actors
    BY Zenon DEF Actors
  <2>2. CASE \/ Reboot(n) \/ Sample(n) \/ WorkerDelete(n) \/ Forget(n)
             \/ \E s \in Sandboxes : IdlePark(n, s) \/ Publish(n, s)
    <3>1. UNCHANGED gateway
      BY <2>2, Zenon DEF Reboot, Sample, WorkerDelete, Forget, IdlePark, Publish
    <3> QED
      BY <1>WorkerShaped, <3>1, <1>IdleHolds, Zenon DEF Shaped, IInv
  <2> QED
    BY <1>WorkerShaped, <2>1, <2>2, <1>WriteShaped, ZenonT(30) DEF WorkerStep
\* and of the heartbeats.
<1>BeatStepShaped. ASSUME IInv, Ledger, NEW b \in beats, BeatStep(b), NEW t \in Sandboxes
      PROVE  Shaped(t)
  <2>1. CASE \/ ReceiveBeat(b) \/ DropBeat(b) \/ \E n \in Nodes, o \in b.owed : StartReap(n, b, o)
    <3>1. UNCHANGED gateway
      BY <2>1, Zenon DEF ReceiveBeat, DropBeat, StartReap
    <3> QED
      BY <1>BeatStepShaped, <3>1, <1>IdleHolds, Zenon DEF Shaped, IInv
  <2> QED
    BY <1>BeatStepShaped, <2>1, <1>BeatShaped, ZenonT(30) DEF BeatStep
<1>StutterShaped. ASSUME IInv, UNCHANGED vars, NEW t \in Sandboxes PROVE Shaped(t)
  BY <1>StutterShaped, <1>IdleHolds, Zenon DEF vars, Shaped, IInv
<1> QED
  BY <1>HandlerShaped, <1>WorkerShaped, <1>BeatStepShaped, <1>StutterShaped, ZenonT(30) DEF Next

\* The shapes preserve the ledger.
LEMMA LedgerStep ==
  ASSUME IInv, IInv', Ledger, [Next]_vars
  PROVE  Ledger'
<1>1. GatewayOK /\ GatewayOK'
  BY ZenonT(30) DEF IInv
<1>2. ASSUME NEW s \in Sandboxes
      PROVE  /\ route'[s].gen <= hwm'[s]
             /\ Distributed => /\ loss'[s] <= hwm'[s]
                               /\ Exists(route'[s]) => loss'[s] < route'[s].gen
  <2>1. /\ route[s].gen \in Nat /\ hwm[s] \in Nat /\ loss[s] \in Nat
        /\ Exists(route[s]) <=> route[s].gen # 0
    BY <1>1, Numbers, Zenon
  <2>2. /\ route'[s].gen \in Nat /\ hwm'[s] \in Nat /\ loss'[s] \in Nat
        /\ Exists(route'[s]) <=> route'[s].gen # 0
    <3>1. route'[s] \in Live \cup {NoRoute} /\ hwm'[s] \in Nat /\ loss'[s] \in Nat
      BY <1>1, Bounds DEF GatewayOK
    <3> QED
      BY <3>1, RouteNumbers
  <2>3. /\ route[s].gen <= hwm[s]
        /\ Distributed => loss[s] <= hwm[s] /\ (Exists(route[s]) => loss[s] < route[s].gen)
    BY DEF Ledger
  <2>4. Shaped(s)
    BY NextShaped, Zenon
  <2>5. NoRoute.gen = 0
    BY DEF NoRoute
  <2> QED
    BY <2>1, <2>2, <2>3, <2>4, <2>5
    DEF Shaped, Holds, Issues, Intends, Releases, Loses, Overwrites
<1> QED
  BY <1>2 DEF Ledger, Exists

\* The ledger holds at the start.
LEMMA LedgerInit == Init \/ InitRunning => Ledger
<1>1. ASSUME Init PROVE Ledger
  BY <1>1, SMTT(20) DEF Init, Start, Ledger, NoRoute, Exists
<1>2. ASSUME InitRunning PROVE Ledger
  BY <1>2 DEF InitRunning, Start, Ledger, Edit, Placed, Exists
<1> QED
  BY <1>1, <1>2, ZenonT(30)

\* What the ledger says of a state, and the shapes of one step at one sandbox.
LEMMA LossFact == Distributed /\ IInv /\ Ledger => LossIsFinal
<1> SUFFICES ASSUME Distributed, IInv, Ledger, NEW s \in Sandboxes, Exists(route[s])
             PROVE  route[s].gen > loss[s]
  BY Zenon DEF LossIsFinal
<1>1. route[s].gen \in Nat /\ loss[s] \in Nat
  BY Numbers, Zenon DEF IInv
<1> QED
  BY <1>1 DEF Ledger

LEMMA StepFacts ==
  ASSUME IInv, IInv', Ledger, [Next]_vars, NEW s \in Sandboxes
  PROVE  /\ /\ Exists(route[s]) /\ Same(route[s], route'[s])
            /\ route'[s].boot = route[s].boot
            => route'[s].act >= route[s].act
         /\ Distributed /\ ~Exists(route[s]) /\ Exists(route'[s]) => route'[s].gen > hwm[s]
         /\ Distributed /\ route[s].del # 0 /\ route'[s].gen = route[s].gen
            => route'[s].del = route[s].del
<1>1. /\ route[s].gen \in Nat /\ hwm[s] \in Nat /\ route[s].gen <= hwm[s]
      /\ Exists(route[s]) <=> route[s].gen # 0
      /\ ~Exists(route[s]) => route[s].del = 0
  BY Numbers, ZenonT(30) DEF IInv, Ledger
<1>2. route'[s].gen \in Nat /\ (Exists(route'[s]) <=> route'[s].gen # 0)
  <2>1. route'[s] \in Live \cup {NoRoute}
    BY Zenon DEF IInv, GatewayOK
  <2> QED
    BY <2>1, RouteNumbers, Zenon
<1>3. Shaped(s)
  BY NextShaped, Zenon
<1>4. NoRoute.gen = 0
  BY DEF NoRoute
<1>5. ASSUME Exists(route[s]), Same(route[s], route'[s]), route'[s].boot = route[s].boot
      PROVE  route'[s].act >= route[s].act
  <2>1. route'[s].gen = route[s].gen /\ route'[s].node = route[s].node
    BY <1>5, Zenon DEF Same
  <2> QED
    BY SMTT(20), <1>1, <1>3, <1>4, <1>5, <2>1
    DEF Shaped, Holds, Issues, Intends, Releases, Loses, Overwrites, Calm
<1>6. ASSUME Distributed, ~Exists(route[s]), Exists(route'[s]) PROVE route'[s].gen > hwm[s]
  BY SMTT(20), <1>1, <1>2, <1>3, <1>6
  DEF Shaped, Holds, Issues, Intends, Releases, Loses, Overwrites
<1>7. ASSUME Distributed, route[s].del # 0, route'[s].gen = route[s].gen
      PROVE  route'[s].del = route[s].del
  BY ZenonT(30), <1>1, <1>3, <1>4, <1>7
  DEF Shaped, Holds, Issues, Intends, Releases, Loses, Overwrites
<1> QED
  BY <1>5, <1>6, <1>7, ZenonT(30)

\* What a step does to the bookkeeping is a step of Incarnations.
LEMMA StepRefines ==
  ASSUME Distributed, IInv, IInv', Ledger, [Next]_vars
  PROVE  Authority!Next \/ UNCHANGED Authority!vars
<1> DEFINE own == [s \in Sandboxes |-> route[s].gen]
           own1 == [s \in Sandboxes |-> route'[s].gen]
           intent == [s \in Sandboxes |-> route[s].del]
           intent1 == [s \in Sandboxes |-> route'[s].del]
<1>1. GatewayOK /\ GatewayOK'
  BY Zenon DEF IInv
<1>2. ASSUME NEW s \in Sandboxes
      PROVE  /\ route'[s].gen \in Nat /\ route'[s].del \in Nat
             /\ hwm'[s] \in Nat /\ loss'[s] \in Nat
  <2>1. route'[s] \in Live \cup {NoRoute} /\ hwm'[s] \in Nat /\ loss'[s] \in Nat
    BY <1>1, Bounds, SMTT(20) DEF GatewayOK
  <2>2. route'[s].gen \in Nat /\ route'[s].del \in Nat
    BY <2>1, Bounds DEF Live, NoRoute
  <2> QED
    BY <2>1, <2>2
<1>3. {own1, hwm', intent1, loss'} \subseteq [Sandboxes -> Nat]
  <2>1. own1 \in [Sandboxes -> Nat] /\ intent1 \in [Sandboxes -> Nat]
    BY <1>2
  <2>2. hwm' \in [Sandboxes -> Nat] /\ loss' \in [Sandboxes -> Nat]
    BY <1>1, <1>2, Zenon DEF GatewayOK
  <2> HIDE DEF own1, intent1
  <2> QED
    BY <2>1, <2>2
<1>4. ASSUME NEW s \in Sandboxes
      PROVE  \/ Authority!Issue(s) \/ Authority!Intend(s) \/ Authority!Release(s)
             \/ Authority!Lose(s) \/ Authority!Hold(s)
  <2>1. /\ route[s].gen \in Nat /\ hwm[s] \in Nat /\ loss[s] \in Nat
        /\ Exists(route[s]) <=> route[s].gen # 0
    BY <1>1, Numbers, Zenon
  <2>2. /\ own[s] = route[s].gen /\ own1[s] = route'[s].gen
        /\ intent[s] = route[s].del /\ intent1[s] = route'[s].del
    OBVIOUS
  <2>3. Exists(route[s]) => loss[s] < route[s].gen
    BY DEF Ledger
  <2>4. NoRoute.gen = 0 /\ NoRoute.del = 0
    BY DEF NoRoute
  <2>5. Shaped(s)
    BY NextShaped, ZenonT(30)
  <2>6. CASE Holds(s)
    BY <2>2, <2>6, Zenon DEF Holds, Authority!Hold
  <2>7. CASE Issues(s)
    <3>1. /\ intent[s] = 0 /\ own1[s] > hwm[s] /\ hwm'[s] = own1[s]
          /\ intent1[s] = 0 /\ loss'[s] = loss[s]
      <4>1. hwm[s] + 1 > hwm[s]
        BY <2>1
      <4> HIDE DEF own, own1, intent, intent1
      <4> QED
        BY <2>2, <2>7, <4>1, Zenon DEF Issues
    <3> QED
      BY <3>1, Zenon DEF Authority!Issue
  <2>8. CASE Intends(s)
    BY <2>1, <2>2, <2>8, ZenonT(30) DEF Intends, Authority!Intend
  <2>9. CASE Releases(s)
    BY <2>1, <2>2, <2>4, <2>9, Zenon DEF Releases, Authority!Release
  <2>10. CASE Loses(s)
    <3>1. /\ own[s] # 0 /\ intent[s] = 0 /\ own1[s] = 0 /\ intent1[s] = 0
          /\ loss'[s] = own[s] /\ hwm'[s] = hwm[s]
      <4>1. Exists(route[s]) => route[s].gen >= loss[s]
        BY <2>1, <2>3
      <4> HIDE DEF own, own1, intent, intent1
      <4> QED
        BY <2>1, <2>2, <2>4, <2>10, <4>1, ZenonT(30) DEF Loses
    <3> QED
      BY <3>1, Zenon DEF Authority!Lose
  <2> QED
    BY <2>5, <2>6, <2>7, <2>8, <2>9, <2>10, ZenonT(30) DEF Shaped, Overwrites
<1> QED
  BY <1>3, <1>4 DEF Authority!Next

-----------------------------------------------------------------------------
(* The inductive invariant.                                                *)

\* Both initial predicates establish the invariant.
LEMMA InitOK == Init \/ InitRunning => IInv
\* The start states.
<1>StartOK. ASSUME NEW r \in Live \cup {NoRoute}, Fenced(r), NEW g \in 0..MaxGeneration,
             NEW x \in Boxes, Start(r, g, x)
      PROVE  IInv
  <2> USE <1>StartOK
  <2>1. GatewayOK
    BY Zero, ZenonT(30) DEF Start, GatewayOK
  <2>2. SeenOK
    BY Bounds DEF Start, SeenOK
  <2>3. WorkersOK
    <3>1. worker \in [Nodes -> [boot: 1..MaxBoot, act: Nat, lag: Nat]]
      BY Bounds DEF Start
    <3>2. box \in [Nodes -> [Sandboxes -> Boxes]]
      BY NoBoxType, Zenon DEF Start
    <3>3. tomb \in [Nodes -> [Sandboxes -> 0..MaxGeneration]]
      BY Zero, Zenon DEF Start
    <3> QED
      BY <3>1, <3>2, <3>3, ZenonT(30) DEF WorkersOK
  <2>4. BeatsOK /\ ReqOK
    BY Zenon DEF Start, BeatsOK, ReqOK
  <2>5. HistoryOK
    BY Zero DEF Start, HistoryOK
  <2> QED
    BY <2>1, <2>2, <2>3, <2>4, <2>5 DEF IInv
<1>1. ASSUME Init PROVE IInv
  BY <1>1, <1>StartOK, NoBoxType, Zero DEF Init, Fenced, NoRoute
<1>2. ASSUME InitRunning PROVE IInv
  <2>1. PICK n \in Nodes : Start(Edit(Placed(1, n, 1, 0), "running", 1, 0, 0), 1,
                                 Box(1, "running", 0, FALSE))
    BY <1>2, Zenon DEF InitRunning
  <2>2. /\ 1 \in 1..MaxGeneration /\ 1 \in 0..MaxGeneration /\ 1 \in 0..MaxBoot
        /\ 0 \in 0..MaxDelete /\ 0 \in 0..MaxCapture
    BY Bounds
  <2>3. Edit(Placed(1, n, 1, 0), "running", 1, 0, 0) \in Live
    BY <2>2 DEF Edit, Placed, Live, LiveStates, Attachments
  <2>4. Fenced(Edit(Placed(1, n, 1, 0), "running", 1, 0, 0))
    BY Zenon DEF Edit, Fenced
  <2>5. Box(1, "running", 0, FALSE) \in Boxes
    BY <2>2, ZenonT(30) DEF Box, Boxes
  <2> QED
    BY <2>1, <2>2, <2>3, <2>4, <2>5, <1>StartOK, Zenon
<1> QED
  BY <1>1, <1>2, Zenon

\* Every step of the fleet preserves it: first what the writes of the gateway, the
\* moves of a request and the updates of a worker preserve, then one step for each
\* group of actions, with one step below it for each action.
LEMMA NextOK == IInv /\ [Next]_vars => IInv'
\* Editing a live route leaves it live, with its identity, intent and attachment.
<1>EditLive. ASSUME NEW r \in Live, NEW st \in LiveStates, NEW b \in 0..MaxBoot, NEW a \in Nat,
             NEW k \in 0..MaxCapture
      PROVE  /\ Edit(r, st, b, a, k) \in Live
             /\ Edit(r, st, b, a, k).gen = r.gen /\ Edit(r, st, b, a, k).node = r.node
             /\ Edit(r, st, b, a, k).del = r.del /\ Edit(r, st, b, a, k).ws = r.ws
             /\ Edit(r, st, b, a, k).boot = b /\ Edit(r, st, b, a, k).act = a
  BY <1>EditLive DEF Edit, Live, LiveStates, Attachments
\* The same for the membership alone.
<1>EditIsLive. ASSUME NEW r \in Live, NEW st \in LiveStates, NEW b \in 0..MaxBoot,
             NEW a \in Nat, NEW k \in 0..MaxCapture
      PROVE  Edit(r, st, b, a, k) \in Live
  BY ZenonT(30), <1>EditIsLive, <1>EditLive
\* A live route may be held, in full or as its identity.
<1>LiveHeld. ASSUME NEW r \in Live
      PROVE  r \in Held /\ Identity(r) \in Held /\ Identity(r).gen = r.gen
  BY <1>LiveHeld, Bounds DEF Live, Held, Identity, LiveStates, Attachments
\* A placement is a route a request may hold, and a live one once it has a generation.
<1>PlacedType. ASSUME NEW g \in 0..MaxGeneration, NEW n \in Nodes, NEW b \in 0..MaxBoot,
             NEW a \in Nat
      PROVE  /\ Placed(g, n, b, a) \in Held /\ Identity(Placed(g, n, b, a)) \in Held
             /\ g # 0 => Placed(g, n, b, a) \in Live
  BY <1>PlacedType, Bounds DEF Placed, Identity, Held, Live, LiveStates, Attachments
\* A request that is given a typed body and a consistent answer.
<1>StartReqOK. ASSUME ReqOK, NEW h \in Actors, NEW op \in Verbs, NEW step \in Steps,
             NEW s \in Sandboxes, NEW held \in Held, NEW ans \in Answers,
             AnswerOK(Request(op, step, s, held, ans)),
             req' = [req EXCEPT ![h] = Request(op, step, s, held, ans)]
      PROVE  ReqOK'
  <2> USE <1>StartReqOK
  <2>1. Request(op, step, s, held, ans) \in Active
    BY DEF Request, Active
  <2>2. req' \in [Actors -> Active \cup Absent \cup {Idle}]
    BY <2>1 DEF ReqOK
  <2>3. ASSUME NEW i \in Actors, req'[i] # Idle PROVE AnswerOK(req'[i])
    BY ZenonT(30), <2>3 DEF ReqOK
  <2> QED
    BY ZenonT(30), <2>2, <2>3 DEF ReqOK, AnswerOK
\* A request that ends.
<1>FinishOK. ASSUME ReqOK, NEW h \in Actors, Finish(h) PROVE ReqOK'
  <2> USE <1>FinishOK
  <2>2. req' \in [Actors -> Active \cup Absent \cup {Idle}]
    BY DEF ReqOK, Finish
  <2>3. ASSUME NEW i \in Actors, req'[i] # Idle PROVE AnswerOK(req'[i])
    BY <2>3 DEF ReqOK, Finish
  <2> QED
    BY <2>2, <2>3 DEF ReqOK, AnswerOK
\* A request that moves on with the same verb and sandbox.
<1>GotoOK. ASSUME ReqOK, NEW h \in Actors, req[h].step \notin {"idle", "absent"},
             NEW step \in Steps, NEW held \in Held, NEW ans \in Answers,
             AnswerOK(Request(req[h].op, step, req[h].s, held, ans)), Goto(h, step, held, ans)
      PROVE  ReqOK'
  <2> USE <1>GotoOK
  <2>1. req[h].op \in Verbs /\ req[h].s \in Sandboxes
    BY ActiveReq
  <2> QED
    BY <2>1, <1>StartReqOK, Zenon DEF Goto
\* _write_sandbox of a live, fenced route.
<1>WriteOK. ASSUME GatewayOK, NEW s \in Sandboxes, NEW r \in Live, Fenced(r), Write(s, r)
      PROVE  GatewayOK'
  <2> USE <1>WriteOK
  <2>1. r.gen \in 1..MaxGeneration
    BY DEF Live
  <2>2. route' \in [Sandboxes -> Live \cup {NoRoute}]
    BY DEF GatewayOK, Write
  <2>3. \A t \in Sandboxes : Fenced(route'[t])
    BY DEF GatewayOK, Write
  <2>4. hwm' \in [Sandboxes -> 0..MaxGeneration]
    BY <2>1, Bounds DEF GatewayOK, Write
  <2> QED
    BY <2>2, <2>3, <2>4 DEF GatewayOK, Write, Fenced
\* _delete_sandbox_unlocked.
<1>RemoveOK. ASSUME GatewayOK, NEW s \in Sandboxes, Remove(s) PROVE GatewayOK'
  <2> USE <1>RemoveOK
  <2>1. route' \in [Sandboxes -> Live \cup {NoRoute}]
    BY ZenonT(30) DEF GatewayOK, Remove
  <2>2. \A t \in Sandboxes : Fenced(route'[t])
    BY DEF GatewayOK, Remove, Fenced, NoRoute
  <2> QED
    BY ZenonT(30), <2>1, <2>2 DEF GatewayOK, Remove, Fenced
\* A registration that is replaced.
<1>BoxOK. ASSUME WorkersOK, NEW n \in Nodes, NEW s \in Sandboxes, NEW x \in Boxes,
             box' = [box EXCEPT ![n][s] = x]
      PROVE  (box \in [Nodes -> [Sandboxes -> Boxes]])'
  BY ZenonT(30), <1>BoxOK DEF WorkersOK
\* A worker that advances its activity revision.
<1>AdvanceOK. ASSUME WorkersOK, NEW n \in Nodes, worker' = [worker EXCEPT ![n] = Advanced(@)]
      PROVE  /\ (worker \in [Nodes -> [boot: 1..MaxBoot, act: Nat, lag: Nat]])'
             /\ worker'[n].boot = worker[n].boot /\ worker'[n].boot \in 1..MaxBoot
             /\ worker'[n].act \in Nat
  BY <1>AdvanceOK DEF WorkersOK, Advanced
\* A worker whose registry commits.
<1>BumpOK. ASSUME WorkersOK, NEW n \in Nodes, worker' = [worker EXCEPT ![n] = Bumped(@)]
      PROVE  (worker \in [Nodes -> [boot: 1..MaxBoot, act: Nat, lag: Nat]])'
  BY <1>BumpOK DEF WorkersOK, Bumped
\* Facts about one registration.
<1>BoxFacts. ASSUME WorkersOK, NEW n \in Nodes, NEW s \in Sandboxes
      PROVE  /\ box[n][s] \in Boxes /\ box[n][s].gen \in 0..MaxGeneration
             /\ box[n][s].cap \in 0..MaxCapture /\ Published(box[n][s]) \in 0..MaxCapture
             /\ worker[n].boot \in 1..MaxBoot /\ worker[n].act \in Nat
  <2> USE <1>BoxFacts
  <2>1. box[n][s] \in Boxes /\ worker[n] \in [boot: 1..MaxBoot, act: Nat, lag: Nat]
    BY DEF WorkersOK
  <2> QED
    BY <2>1, Bounds DEF Boxes, Published
\* The next capture is in range, and a boot is a number.
<1>NextCapture. ASSUME NEW c \in 0..MaxCapture, c < MaxCapture PROVE c + 1 \in 0..MaxCapture
  BY <1>NextCapture, Bounds
\* A boot is a number an answer may carry, and no boot is 0.
<1>BootRange. \A b \in 1..MaxBoot : b \in 0..MaxBoot /\ b # 0
  BY Bounds
\* The next generation and the next delete operation are in range.
<1>NextNumbers. /\ \A g \in 0..MaxGeneration : g < MaxGeneration => g + 1 \in 1..MaxGeneration
                /\ \A d \in 0..MaxDelete : d < MaxDelete => d + 1 \in 0..MaxDelete
  BY Bounds
\* A generation of a route, missing or not.
<1>GenRange. \A g \in 1..MaxGeneration : g \in 0..MaxGeneration
  BY Bounds
\* The fields of an answer.
<1>AnswerParts. ASSUME NEW a \in Answers
      PROVE  a.boot \in 0..MaxBoot /\ a.act \in Nat /\ a.snap \in 0..MaxCapture /\ a.cap \in 0..MaxCapture
  BY ZenonT(30), <1>AnswerParts DEF Answers
\* A detached route is live and has given up its fence.
<1>DetachedLive. ASSUME NEW r \in Live PROVE Detached(r) \in Live /\ Fenced(Detached(r))
  BY <1>DetachedLive, Bounds DEF Detached, Live, Attachments, Fenced
\* A stable observation of a live route is a live route with the heartbeat's boot.
<1>ObservedLive. ASSUME NEW r \in Live, NEW b \in Beats, NEW s \in Sandboxes, Stable(b, s),
             b.inv[s].gen # 0
      PROVE  Observed(r, b, s) \in Live /\ Fenced(Observed(r, b, s))
  <2> USE <1>ObservedLive
  <2>1. /\ b.boot \in 1..MaxBoot /\ b.act \in Nat /\ b.node \in Nodes
        /\ b.inv[s].gen \in 0..MaxGeneration /\ b.inv[s].snap \in 0..MaxCapture
    BY ZenonT(30) DEF Beats, Entries
  <2>2. Observed(r, b, s) \in Live
    BY <2>1, Bounds DEF Observed, Stable, Live, LiveStates
  <2>3. Observed(r, b, s).boot = b.boot
    BY ZenonT(30) DEF Observed
  <2> QED
    BY <2>1, <2>2, <2>3, <1>BootRange, Zenon DEF Fenced
\* The answers the workers build.
<1>AnswerType. ASSUME NEW st \in {"none", "running", "parked", "ok", "rejected", "refused"},
             NEW c \in 0..MaxCapture, NEW k \in 0..MaxCapture
      PROVE  /\ Says(st, k) \in Answers /\ Says(st, k).st = st
             /\ \A w : w.boot \in 0..MaxBoot /\ w.act \in Nat =>
                  Answer(st, w, c, k) \in Answers /\ Answer(st, w, c, k).st = st
                  /\ Answer(st, w, c, k).boot = w.boot
  BY <1>AnswerType, Bounds DEF Says, Answer, Answers
\* A record stamped with the worker's revision.
<1>StampAnswer. ASSUME NEW x \in Answers, NEW w \in [boot: 1..MaxBoot, act: Nat, lag: Nat]
      PROVE  Answer(x.st, w, 0, x.snap) \in Answers /\ Answer(x.st, w, 0, x.snap).boot # 0
  BY <1>StampAnswer, Bounds DEF Answer, Answers
\* An answer with the epochs of a worker names a boot.
<1>BootAnswer. ASSUME NEW st \in {"running", "parked"}, NEW k \in 0..MaxCapture, NEW n,
             worker[n].boot \in 1..MaxBoot
      PROVE  /\ Answer(st, Boot(n), 0, k) \in Answers /\ Answer(st, Boot(n), 0, k).st = st
             /\ Answer(st, Boot(n), 0, k).boot # 0
  <2> USE <1>BootAnswer
  <2>1. Boot(n).boot = worker[n].boot /\ Boot(n).act = 0
    BY DEF Boot
  <2>2. Boot(n).boot \in 0..MaxBoot /\ Boot(n).boot # 0 /\ Boot(n).act \in Nat
    BY <2>1, <1>BootRange
  <2> QED
    BY ZenonT(30), <2>2, Zero DEF Answer, Answers
\* A step that changes only a request.
<1>ReqFrame. ASSUME IInv, ReqOK', UNCHANGED <<gateway, seen, workers, beats, history>>
      PROVE  IInv'
  BY ZenonT(30), <1>ReqFrame DEF IInv, GatewayOK, SeenOK, WorkersOK, BeatsOK, HistoryOK, gateway, workers, history
\* A step that changes the gateway's store and a request.
<1>GatewayFrame. ASSUME IInv, GatewayOK', ReqOK', UNCHANGED <<seen, workers, beats, history>>
      PROVE  IInv'
  BY ZenonT(30), <1>GatewayFrame DEF IInv, SeenOK, WorkersOK, BeatsOK, HistoryOK, workers, history
\* A step that changes the workers and a request.
<1>WorkersFrame. ASSUME IInv, WorkersOK', ReqOK', UNCHANGED <<gateway, seen, beats, history>>
      PROVE  IInv'
  BY <1>WorkersFrame DEF IInv, GatewayOK, SeenOK, BeatsOK, HistoryOK, gateway, history
\* A step that leaves the requests alone.
<1>ReqUnchanged. ReqOK /\ UNCHANGED req => ReqOK'
  BY DEF ReqOK
\* A worker that drops its registration leaves a tombstone.
<1>DropOK. ASSUME WorkersOK, NEW n \in Nodes, NEW s \in Sandboxes, NEW g \in 0..MaxGeneration,
             box' = [box EXCEPT ![n][s] = NoBox],
             tomb' = [tomb EXCEPT ![n][s] = IF g > @ THEN g ELSE @],
             worker' = [worker EXCEPT ![n] = Bumped(@)]
      PROVE  WorkersOK'
  <2> USE <1>DropOK
  <2>1. (tomb \in [Nodes -> [Sandboxes -> 0..MaxGeneration]])'
    BY DEF WorkersOK
  <2> QED
    BY <2>1, NoBoxType, <1>BoxOK, <1>BumpOK, Zenon DEF WorkersOK
\* A worker's plain answer to a delete or an eviction.
<1>SaysOK. ASSUME ReqOK, NEW h \in Actors, req[h].step \notin {"idle", "absent"},
             req[h].op \in {"delete", "reap", "evict", "detach", "publish"},
             NEW st \in {"ok", "parked"}, NEW k \in 0..MaxCapture,
             Goto(h, "answered", req[h].held, Says(st, k))
      PROVE  ReqOK'
  <2> USE <1>SaysOK
  <2>1. req[h].held \in Held
    BY ActiveReq, Zenon
  <2>2. Says(st, k) \in Answers
    BY Zero DEF Says, Answers
  <2>3. AnswerOK(Request(req[h].op, "answered", req[h].s, req[h].held, Says(st, k)))
    BY Zenon DEF AnswerOK, Request
  <2> QED
    BY <2>1, <2>2, <2>3, <1>GotoOK, Zenon DEF Steps
\* A request that starts has no answer yet.
<1>StartFresh. ASSUME ReqOK, NEW h \in Actors, NEW op \in Verbs, NEW s \in Sandboxes,
             NEW held \in Held,
             req' = [req EXCEPT ![h] = Request(op, "sent", s, held, NoAnswer)]
      PROVE  ReqOK'
  <2> USE <1>StartFresh
  <2>1. AnswerOK(Request(op, "sent", s, held, NoAnswer))
    BY DEF AnswerOK, Request, NoAnswer
  <2>2. "sent" \in Steps /\ NoAnswer \in Answers
    BY Nulls DEF Steps
  <2> QED
    BY <2>1, <2>2, <1>StartReqOK, Zenon
\* The steps of a create, a replay and a record read.
<1>CreateStepOK. ASSUME IInv, NEW h \in Actors
      PROVE  \/ \E s \in Sandboxes, n \in Nodes : ChooseNode(h, s, n)
             \/ \E s \in Sandboxes : StartReplay(h, s)
             \/ Allocate(h) \/ ReadRecord(h) \/ WorkerCreate(h) \/ StampCreate(h) \/ WorkerReject(h)
             \/ WorkerRollBack(h) \/ ConfirmCreate(h) \/ AbandonCreate(h)
             \/ \E n \in Nodes : Retarget(h, n)
             => IInv'
    \* Placement copies the epochs of a stored heartbeat, which names a boot.
  <2> USE <1>CreateStepOK
  <2>ChooseNode. ASSUME NEW s \in Sandboxes, NEW n \in Nodes, ChooseNode(h, s, n) PROVE IInv'
    <3> USE <2>ChooseNode
    <3> DEFINE p == Placed(0, n, seen[n].boot, seen[n].act)
    <3>1. seen[n].boot \in 1..MaxBoot /\ seen[n].act \in Nat
      BY ZenonT(30) DEF IInv, SeenOK
    <3>2. p \in Held
      BY <3>1, <1>PlacedType, Bounds
    <3>3. AnswerOK(Request("create", "chosen", s, p, NoAnswer))
      <4>1. p.boot = seen[n].boot
        BY DEF Placed
      <4>2. Fenced(p)
        BY <3>1, <4>1, <1>BootRange, Zenon DEF Fenced
      <4> QED
        BY ZenonT(30), <4>2 DEF AnswerOK, Request, NoAnswer
    <3>4. ReqOK'
      BY <3>2, <3>3, <1>StartReqOK, Nulls, Zenon DEF ChooseNode, IInv, Verbs, Steps
    <3> QED
      BY <3>4, <1>ReqFrame, Zenon DEF ChooseNode
  \* reserve_create_intent writes the next generation, or hands over a live route.
  <2>Allocate. ASSUME Allocate(h) PROVE IInv'
    <3> USE <2>Allocate
    <3> DEFINE s == req[h].s
               to == req[h].held
               r == Placed(NextGeneration(s), to.node, to.boot, to.act)
    <3>1. s \in Sandboxes /\ to \in Held /\ req[h].step \notin {"idle", "absent"} /\ req[h].op = "create" /\ Fenced(to)
      BY ActiveReq, Zenon DEF Allocate, At, IInv, AnswerOK
    <3>2. CASE Exists(route[s])
      <4>1. route[s] \in Held
        BY ZenonT(30), <3>1, <3>2, ExistsLive, <1>LiveHeld DEF IInv
      <4>2. req' = [req EXCEPT ![h] = Request("replay", "sent", s, route[s], NoAnswer)]
        BY <3>2, Zenon DEF Allocate
      <4>3. ReqOK'
        BY <3>1, <4>1, <4>2, <1>StartFresh, ZenonT(30) DEF IInv, Verbs
      <4> QED
        BY <3>2, <4>3, <1>ReqFrame, Zenon DEF Allocate
    <3>3. CASE ~Exists(route[s])
      <4>1. Write(s, r) /\ Goto(h, "sent", r, NoAnswer) /\ hwm[s] < MaxGeneration
        BY <3>3, Zenon DEF Allocate
      <4>2. to.node \in Nodes /\ to.boot \in 0..MaxBoot /\ to.act \in Nat
        BY ZenonT(30), <3>1 DEF Held
      <4>3. NextGeneration(s) \in 1..MaxGeneration
        <5>1. hwm[s] \in 0..MaxGeneration
          BY <3>1, Zenon DEF IInv, GatewayOK
        <5> QED
          BY <4>1, <5>1, <1>NextNumbers, Zenon DEF NextGeneration
      <4>4. r \in Live /\ r \in Held
        BY <4>2, <4>3, <1>PlacedType
      <4>5. req' = [req EXCEPT ![h] = Request("create", "sent", s, r, NoAnswer)]
        BY <3>1, <4>1, Zenon DEF Goto
      <4>6. ReqOK'
        BY <3>1, <4>4, <4>5, <1>StartFresh, Zenon DEF IInv, Verbs
      <4>7. Fenced(r)
        BY <3>1, Zenon DEF Fenced, Placed
      <4>8. GatewayOK'
        BY <3>1, <4>1, <4>4, <4>7, <1>WriteOK, Zenon DEF IInv
      <4> QED
        BY <4>6, <4>8, <1>GatewayFrame, Zenon DEF Allocate
    <3> QED
      BY <3>2, <3>3
  \* A replay holds the live route it found.
  <2>StartReplay. ASSUME NEW s \in Sandboxes, StartReplay(h, s) PROVE IInv'
    <3> USE <2>StartReplay
    <3>1. route[s] \in Held
      BY ExistsLive, <1>LiveHeld DEF StartReplay, IInv
    <3>2. ReqOK'
      BY <3>1, <1>StartFresh, Zenon DEF StartReplay, IInv, Verbs
    <3> QED
      BY <3>2, <1>ReqFrame, Zenon DEF StartReplay
  \* A record read names the boot that answered.
  <2>ReadRecord. ASSUME ReadRecord(h) PROVE IInv'
    <3> USE <2>ReadRecord
    <3> DEFINE s == req[h].s
               held == req[h].held
               b == box[held.node][s]
               a == Answer(b.st, Boot(held.node), 0, Published(b))
    <3>0. req[h].op = "get" /\ req[h].step = "sent"
      BY Zenon DEF ReadRecord, At
    <3>1. /\ s \in Sandboxes /\ held \in Held /\ held.node \in Nodes
          /\ req[h].step \notin {"idle", "absent"} /\ req[h].op = "get"
      BY <3>0, ActiveReq, Zenon DEF IInv
    <3>2. Published(b) \in 0..MaxCapture /\ worker[held.node].boot \in 1..MaxBoot
      BY ZenonT(30), <3>1, <1>BoxFacts DEF IInv
    <3>3. CASE b.gen = held.gen /\ b.st \in {"running", "parked"}
      <4>1. a \in Answers /\ a.st = b.st /\ a.boot # 0
        BY <3>2, <3>3, <1>BootAnswer, Zenon
      <4>2. Goto(h, "recorded", held, a)
        BY <3>3, Zenon DEF ReadRecord
      <4>3. AnswerOK(Request(req[h].op, "recorded", s, held, a))
        BY <3>1, <4>1, Zenon DEF AnswerOK, Request
      <4>4. ReqOK'
        BY <3>1, <4>1, <4>2, <4>3, <1>GotoOK, Zenon DEF IInv, Steps
      <4> QED
        BY <4>4, <1>ReqFrame, Zenon DEF ReadRecord
    <3>4. CASE ~(b.gen = held.gen /\ b.st \in {"running", "parked"})
      <4>1. CASE held.state = "creating"
        <5>1. req' = [req EXCEPT ![h] = Request("replay", "sent", s, held, NoAnswer)]
          BY <3>4, <4>1, Zenon DEF ReadRecord
        <5>2. ReqOK'
          BY <3>1, <5>1, <1>StartFresh, Zenon DEF IInv, Verbs
        <5> QED
          BY <5>2, <1>ReqFrame, Zenon DEF ReadRecord
      <4>2. CASE held.state # "creating"
        <5>1. Finish(h)
          BY <3>4, <4>2, Zenon DEF ReadRecord, Finish
        <5>2. ReqOK'
          BY <5>1, <1>FinishOK DEF IInv
        <5> QED
          BY <5>2, <1>ReqFrame, Zenon DEF ReadRecord
      <4> QED
        BY <4>1, <4>2, Zenon
    <3> QED
      BY <3>3, <3>4, ZenonT(30)
  \* The create receipt names the boot of the worker that registered the sandbox.
  <2>WorkerCreate. ASSUME WorkerCreate(h) PROVE IInv'
    <3> USE <2>WorkerCreate
    <3> DEFINE s == req[h].s
               held == req[h].held
               n == held.node
               g == held.gen
               b == box[n][s]
    <3>1. /\ s \in Sandboxes /\ held \in Held /\ n \in Nodes /\ g \in 0..MaxGeneration
          /\ req[h].step \notin {"idle", "absent"} /\ req[h].op \in {"create", "replay"}
      BY ActiveReq, Zenon DEF WorkerCreate, Creating, IInv, Held
    <3>2. worker[n].boot \in 1..MaxBoot
      BY <3>1, <1>BoxFacts, Zenon DEF IInv
    <3>3. ASSUME NEW st \in {"running", "parked"}, Goto(h, "recorded", held, Answer(st, Boot(n), 0, 0))
          PROVE  ReqOK'
      <4> DEFINE a == Answer(st, Boot(n), 0, 0)
      <4>1. a \in Answers /\ a.boot # 0
        BY <3>2, Zero, <1>BootAnswer, Zenon
      <4>2. AnswerOK(Request(req[h].op, "recorded", s, held, a))
        BY <3>1, <4>1, Zenon DEF AnswerOK, Request
      <4> QED
        BY <3>1, <3>3, <4>1, <4>2, <1>GotoOK, Zenon DEF IInv, Steps
    <3>4. CASE /\ Bump(n)
               /\ box' = [box EXCEPT ![n][s] = Box(g, "running", 0, FALSE)]
               /\ Goto(h, "recorded", held, Answer("running", Boot(n), 0, 0))
      <4>1. Box(g, "running", 0, FALSE) \in Boxes
        BY <3>1, Bounds DEF Box, Boxes
      <4>2. WorkersOK'
        BY <3>1, <3>4, <4>1, <1>BoxOK, <1>BumpOK, Zenon DEF IInv, WorkersOK, WorkerCreate, Bump
      <4> QED
        BY <3>3, <3>4, <4>2, <1>WorkersFrame, Zenon DEF WorkerCreate
    <3>5. CASE /\ b.st \in {"running", "parked"}
               /\ Goto(h, "recorded", held, Answer(b.st, Boot(n), 0, 0))
               /\ UNCHANGED <<worker, box>>
      <4>1. ReqOK'
        BY <3>3, <3>5, Zenon
      <4> QED
        BY <3>5, <4>1, <1>ReqFrame, ZenonT(30) DEF WorkerCreate, workers
    <3>6. CASE Goto(h, "answered", held, Says("refused", 0)) /\ UNCHANGED <<worker, box>>
      <4>1. Says("refused", 0) \in Answers /\ Says("refused", 0).st = "refused"
        BY Refusals
      <4>2. AnswerOK(Request(req[h].op, "answered", s, held, Says("refused", 0)))
        BY <3>1, <4>1, Zenon DEF AnswerOK, Request
      <4>3. ReqOK'
        BY <3>1, <3>6, <4>1, <4>2, <1>GotoOK, Zenon DEF IInv, Steps
      <4> QED
        BY <3>6, <4>3, <1>ReqFrame, Zenon DEF WorkerCreate, workers
    <3> QED
      BY <3>4, <3>5, <3>6, Zenon DEF WorkerCreate
  \* The receipt's activity revision is that of the same worker.
  <2>StampCreate. ASSUME StampCreate(h) PROVE IInv'
    <3> USE <2>StampCreate
    <3> DEFINE held == req[h].held
               n == held.node
               a == Answer(req[h].ans.st, worker'[n], 0, req[h].ans.snap)
    <3>1. /\ held \in Held /\ n \in Nodes /\ req[h].ans \in Answers
          /\ req[h].step \notin {"idle", "absent"} /\ req[h].op \in {"create", "replay", "get"}
      BY ActiveReq DEF StampCreate, Creating, At, IInv
    <3>2. /\ (worker \in [Nodes -> [boot: 1..MaxBoot, act: Nat, lag: Nat]])'
          /\ worker'[n].boot \in 1..MaxBoot /\ worker'[n].act \in Nat
      BY <3>1, <1>AdvanceOK, Zenon DEF IInv, StampCreate, Advance
    <3>3. WorkersOK'
      BY <3>2, ZenonT(30) DEF IInv, WorkersOK, StampCreate
    <3>4. a \in Answers /\ a.boot # 0
      BY <3>1, <3>2, <1>StampAnswer, Zenon
    <3>5. AnswerOK(Request(req[h].op, "answered", req[h].s, held, a))
      BY <3>1, <3>4, Zenon DEF AnswerOK, Request
    <3>6. ReqOK'
      BY <3>1, <3>4, <3>5, <1>GotoOK, Zenon DEF IInv, Steps, StampCreate
    <3> QED
      BY <3>3, <3>6, <1>WorkersFrame, ZenonT(30) DEF StampCreate
  \* A rejection names no boot and is no receipt.
  <2>WorkerReject. ASSUME WorkerReject(h) PROVE IInv'
    <3> USE <2>WorkerReject
    <3>1. /\ req[h].held \in Held /\ req[h].step \notin {"idle", "absent"} /\ req[h].op \in {"create", "replay"}
      BY ActiveReq DEF WorkerReject, Creating, IInv
    <3>2. Says("rejected", 0) \in Answers /\ Says("rejected", 0).st = "rejected"
      BY Refusals
    <3>3. AnswerOK(Request(req[h].op, "answered", req[h].s, req[h].held, Says("rejected", 0)))
      BY <3>1, <3>2, Zenon DEF AnswerOK, Request
    <3>4. ReqOK'
      BY <3>1, <3>2, <3>3, <1>GotoOK, Zenon DEF IInv, Steps, WorkerReject
    <3> QED
      BY <3>4, <1>ReqFrame, ZenonT(30) DEF WorkerReject
  \* A rolled-back create leaves a tombstone and a rejection.
  <2>WorkerRollBack. ASSUME WorkerRollBack(h) PROVE IInv'
    <3> USE <2>WorkerRollBack
    <3> DEFINE s == req[h].s
               n == req[h].held.node
               g == req[h].held.gen
    <3>1. /\ req[h].held \in Held /\ req[h].step \notin {"idle", "absent"}
          /\ req[h].op \in {"create", "replay"} /\ s \in Sandboxes /\ n \in Nodes
          /\ g \in 0..MaxGeneration
      BY ActiveReq, Zenon DEF WorkerRollBack, Creating, IInv, Held
    <3>2. Says("rejected", 0) \in Answers /\ Says("rejected", 0).st = "rejected"
      BY Refusals
    <3>3. AnswerOK(Request(req[h].op, "answered", req[h].s, req[h].held, Says("rejected", 0)))
      BY <3>1, <3>2, ZenonT(30) DEF AnswerOK, Request
    <3>4. ReqOK'
      BY <3>1, <3>2, <3>3, <1>GotoOK DEF IInv, Steps, WorkerRollBack
    <3>5. (worker \in [Nodes -> [boot: 1..MaxBoot, act: Nat, lag: Nat]])'
      BY <3>1, <1>BumpOK, ZenonT(30) DEF IInv, WorkerRollBack, Bump
    <3>6. (tomb \in [Nodes -> [Sandboxes -> 0..MaxGeneration]])'
      BY ZenonT(30), <3>1 DEF IInv, WorkersOK, WorkerRollBack
    <3>7. WorkersOK'
      BY <3>5, <3>6, Zenon DEF IInv, WorkersOK, WorkerRollBack
    <3> QED
      BY <3>4, <3>7, <1>WorkersFrame, Zenon DEF WorkerRollBack
  \* The receipt of a create for the current incarnation is a live route.
  <2>ReceiptLive. ASSUME NEW cur \in Live, NEW held \in Held, NEW a \in Answers,
               a.st \in {"running", "parked"}, a.boot # 0, Same(cur, CreateReceipt(held, a))
        PROVE  CreateReceipt(held, a) \in Live /\ Fenced(CreateReceipt(held, a))
    <3> USE <2>ReceiptLive
    <3>1. cur.gen \in 1..MaxGeneration
      BY ZenonT(30) DEF Live
    <3>2. CreateReceipt(held, a).gen = held.gen /\ held.gen \in 1..MaxGeneration
      BY <3>1, Zenon DEF Same, CreateReceipt, Edit
    <3>3. CreateReceipt(held, a) \in Live
      BY <3>2, Zenon DEF CreateReceipt, Edit, Live, Held, LiveStates, Attachments, Answers
    <3> QED
      BY <3>3 DEF Fenced, CreateReceipt, Edit
  \* confirm_sandbox_observation writes a receipt of the current incarnation.
  <2>ConfirmCreate. ASSUME ConfirmCreate(h) PROVE IInv'
    <3> USE <2>ConfirmCreate
    <3> DEFINE s == req[h].s
               held == req[h].held
               a == req[h].ans
               c == CreateReceipt(held, a)
    <3>1. /\ s \in Sandboxes /\ held \in Held /\ a \in Answers /\ req[h].step \notin {"idle", "absent"}
          /\ a.st \in {"running", "parked"} /\ a.boot # 0
      BY ActiveReq, Zenon DEF ConfirmCreate, Creating, At, IInv, AnswerOK
    <3>2. ReqOK'
      BY <1>FinishOK, Zenon DEF ConfirmCreate, IInv
    <3>3. CASE Write(s, c) /\ Exists(route[s]) /\ UpdateIsCurrent(route[s], c, TRUE)
      <4>1. c \in Live /\ Fenced(c)
        BY <3>1, <3>3, ExistsLive, <2>ReceiptLive, Zenon DEF IInv, UpdateIsCurrent
      <4>2. GatewayOK'
        BY ZenonT(30), <3>1, <3>3, <4>1, <1>WriteOK DEF IInv
      <4> QED
        BY <3>2, <4>2, <1>GatewayFrame, Zenon DEF ConfirmCreate
    <3>4. CASE UNCHANGED gateway
      BY <3>2, <3>4, <1>ReqFrame, Zenon DEF ConfirmCreate
    <3> QED
      BY <3>3, <3>4, Zenon DEF ConfirmCreate
  \* retarget_create_intent writes the next generation on another node.
  <2>Retarget. ASSUME NEW n \in Nodes, Retarget(h, n) PROVE IInv'
    <3> USE <2>Retarget
    <3> DEFINE s == req[h].s
               held == req[h].held
               old == seen[n].retired
               act(b) == IF b \in old THEN 0 ELSE seen[n].act
               r(b) == Placed(NextGeneration(s), n, b, act(b))
    <3>1. s \in Sandboxes /\ held \in Held /\ req[h].step \notin {"idle", "absent"} /\ req[h].op = "create"
      BY ActiveReq, Zenon DEF Retarget, At, IInv
    <3>2. seen[n].boot \in 1..MaxBoot /\ seen[n].act \in Nat /\ old \subseteq 1..MaxBoot
      BY DEF IInv, SeenOK
    <3>3. CASE Finish(h) /\ UNCHANGED gateway
      BY <3>3, <1>FinishOK, <1>ReqFrame, Zenon DEF Retarget, IInv
    <3>4. ASSUME NEW b \in {seen[n].boot} \cup old, hwm[s] < MaxGeneration,
                 Write(s, r(b)), Goto(h, "sent", r(b), NoAnswer)
          PROVE  IInv'
      <4>1. b \in 1..MaxBoot /\ seen[n].act \in Nat /\ 0 \in Nat
        BY <3>2
      <4>2. hwm[s] \in 0..MaxGeneration
        BY <3>1, Zenon DEF IInv, GatewayOK
      <4>3. NextGeneration(s) \in 1..MaxGeneration
        BY <3>4, <4>2, <1>NextNumbers, Zenon DEF NextGeneration
      <4>4. act(b) \in Nat
        BY <4>1, Zenon
      <4>5. r(b) \in Live /\ r(b) \in Held
        BY <4>1, <4>4, <4>3, <1>PlacedType
      <4>6. Fenced(r(b))
        BY <4>1, <1>BootRange, Zenon DEF Fenced, Placed
      <4>7. req' = [req EXCEPT ![h] = Request("create", "sent", s, r(b), NoAnswer)]
        BY <3>1, <3>4, Zenon DEF Goto
      <4>8. ReqOK'
        BY <3>1, <4>5, <4>7, <1>StartFresh, ZenonT(30) DEF IInv, Verbs
      <4>9. GatewayOK'
        BY ZenonT(30), <3>1, <3>4, <4>5, <4>6, <1>WriteOK DEF IInv
      <4> QED
        BY <4>8, <4>9, <1>GatewayFrame, Zenon DEF Retarget
    <3> QED
      BY <3>3, <3>4, Zenon DEF Retarget
  \* delete_sandbox_if_current of an abandoned create.
  <2>AbandonCreate. ASSUME AbandonCreate(h) PROVE IInv'
    <3> USE <2>AbandonCreate
    <3>1. req[h].s \in Sandboxes
      BY ActiveReq DEF AbandonCreate, Creating, IInv
    <3>2. ReqOK'
      BY <1>FinishOK, Zenon DEF AbandonCreate, IInv
    <3>3. CASE Remove(req[h].s)
      BY <3>1, <3>2, <3>3, <1>RemoveOK, <1>GatewayFrame, Zenon DEF AbandonCreate, IInv
    <3>4. CASE UNCHANGED gateway
      BY <3>2, <3>4, <1>ReqFrame, Zenon DEF AbandonCreate
    <3> QED
      BY <3>3, <3>4, Zenon DEF AbandonCreate
  <2> QED
    BY <2>ChooseNode, <2>Allocate, <2>StartReplay, <2>ReadRecord, <2>WorkerCreate, <2>StampCreate,
       <2>WorkerReject, <2>WorkerRollBack, <2>ConfirmCreate, <2>Retarget, <2>AbandonCreate,
       ZenonT(30)
\* The steps of a park and a wake.
<1>LifecycleStepOK. ASSUME IInv, NEW h \in Actors
      PROVE  \/ \E s \in Sandboxes : StartPark(h, s) \/ StartWake(h, s)
             \/ WorkerPark(h) \/ DescribePark(h) \/ WorkerWake(h) \/ WorkerWakeFails(h)
             \/ ValidateReceipt(h) \/ CommitPark(h) \/ CommitWake(h) \/ RollBackWake(h)
             => IInv'
    \* A park holds the live route it found.
  <2> USE <1>LifecycleStepOK
  <2>StartPark. ASSUME NEW s \in Sandboxes, StartPark(h, s) PROVE IInv'
    <3> USE <2>StartPark
    <3>1. route[s] \in Held
      BY ExistsLive, <1>LiveHeld, Zenon DEF StartPark, IInv, LiveStates
    <3>2. ReqOK'
      BY <3>1, <1>StartFresh, Zenon DEF StartPark, IInv, Verbs
    <3> QED
      BY <3>2, <1>ReqFrame, Zenon DEF StartPark
  \* The worker's park leaves a typed registration and answers running or parked.
  <2>WorkerPark. ASSUME WorkerPark(h) PROVE IInv'
    <3> USE <2>WorkerPark
    <3> DEFINE s == req[h].s
               held == req[h].held
               n == held.node
               b == box[n][s]
    <3>1. s \in Sandboxes /\ held \in Held /\ n \in Nodes /\ req[h].step \notin {"idle", "absent"} /\ req[h].op = "park"
      BY ActiveReq, Zenon DEF WorkerPark, At, IInv
    <3>2. /\ (worker \in [Nodes -> [boot: 1..MaxBoot, act: Nat, lag: Nat]])'
          /\ worker'[n].boot \in 1..MaxBoot /\ worker'[n].act \in Nat
      BY <3>1, <1>AdvanceOK, Zenon DEF IInv, WorkerPark, Advance
    <3>3. ASSUME NEW st \in {"running", "parked"}, Goto(h, "recorded", held, Answer(st, worker'[n], 0, 0))
          PROVE  ReqOK'
      <4> DEFINE a == Answer(st, worker'[n], 0, 0)
      <4>1. a \in Answers /\ a.st = st
        BY <3>2, Bounds DEF Answer, Answers
      <4>2. AnswerOK(Request(req[h].op, "recorded", s, held, a))
        BY <3>1, <4>1, Zenon DEF AnswerOK, Request
      <4> QED
        BY <3>1, <3>3, <4>1, <4>2, <1>GotoOK, Zenon DEF IInv, Steps
    <3>4. CASE /\ b.st = "running" /\ b.cap < MaxCapture
               /\ box' = [box EXCEPT ![n][s] = Box(b.gen, "parked", b.cap + 1, FALSE)]
               /\ Goto(h, "recorded", held, Answer("parked", worker'[n], 0, 0))
      <4>0. b.gen \in 0..MaxGeneration /\ b.cap \in 0..MaxCapture
        BY <3>1, <1>BoxFacts, Zenon DEF IInv
      <4>1. b.gen \in 0..MaxGeneration /\ b.cap + 1 \in 0..MaxCapture
        BY <3>4, <4>0, <1>NextCapture, Zenon
      <4>2. Box(b.gen, "parked", b.cap + 1, FALSE) \in Boxes
        BY <4>1, Zenon DEF Box, Boxes
      <4>3. WorkersOK'
        BY <3>1, <3>2, <3>4, <4>2, <1>BoxOK, Zenon DEF IInv, WorkersOK, WorkerPark
      <4> QED
        BY <3>3, <3>4, <4>3, <1>WorkersFrame, Zenon DEF WorkerPark
    <3>5. CASE UNCHANGED box /\ Goto(h, "recorded", held, Answer(b.st, worker'[n], 0, 0))
      <4>1. WorkersOK'
        BY <3>2, <3>5, Zenon DEF IInv, WorkersOK, WorkerPark
      <4> QED
        BY <3>3, <3>5, <4>1, <1>WorkersFrame, Zenon DEF WorkerPark
    <3> QED
      BY <3>4, <3>5, Zenon DEF WorkerPark
  \* The description of a park adds a published capture.
  <2>DescribePark. ASSUME DescribePark(h) PROVE IInv'
    <3> USE <2>DescribePark
    <3> DEFINE s == req[h].s
               held == req[h].held
               b == box[held.node][s]
               a == Answer(req[h].ans.st, req[h].ans, 0, Published(b))
    <3>1. /\ s \in Sandboxes /\ held \in Held /\ held.node \in Nodes /\ req[h].ans \in Answers
          /\ req[h].step \notin {"idle", "absent"} /\ req[h].op = "park" /\ req[h].ans.st \in {"running", "parked"}
      <4>1. req[h].step = "recorded" /\ req[h].op = "park" /\ ReqOK
        BY DEF DescribePark, At, IInv
      <4>2. AnswerOK(req[h]) /\ req[h].s \in Sandboxes /\ req[h].held \in Held
            /\ req[h].held.node \in Nodes /\ req[h].ans \in Answers
        BY <4>1, ActiveReq, Zenon
      <4> QED
        BY <4>1, <4>2, Zenon DEF AnswerOK
    <3>2. Published(b) \in 0..MaxCapture
      BY <3>1, <1>BoxFacts, ZenonT(30) DEF IInv
    <3>3. a \in Answers /\ a.st \in {"running", "parked"}
      BY <3>1, <3>2, Bounds DEF Answer, Answers
    <3>4. AnswerOK(Request(req[h].op, "answered", s, held, a))
      BY <3>1, <3>3, Zenon DEF AnswerOK, Request
    <3>5. ReqOK'
      BY <3>1, <3>3, <3>4, <1>GotoOK, Zenon DEF IInv, Steps, DescribePark
    <3> QED
      BY <3>5, <1>ReqFrame, Zenon DEF DescribePark
  \* reserve_sandbox_wakes changes only the lifecycle state.
  <2>StartWake. ASSUME NEW s \in Sandboxes, StartWake(h, s) PROVE IInv'
    <3> USE <2>StartWake
    <3> DEFINE r == route[s]
               w == IF r.state = "parked" THEN Edit(r, "waking", r.boot, r.act, r.snap) ELSE r
    <3>1. r \in Live /\ Fenced(r)
      BY ExistsLive, Zenon DEF StartWake, IInv, LiveStates, GatewayOK
    <3>2. w \in Live /\ Fenced(w)
      BY <3>1, Zenon DEF Edit, Live, LiveStates, Attachments, Fenced
    <3>3. w \in Held
      BY <3>2, <1>LiveHeld, Zenon
    <3>4. Write(s, w) /\ req' = [req EXCEPT ![h] = Request("wake", "sent", s, w, NoAnswer)]
      BY Zenon DEF StartWake
    <3>5. GatewayOK'
      BY <3>2, <3>4, <1>WriteOK, Zenon DEF IInv
    <3>6. ReqOK'
      BY <3>3, <3>4, <1>StartFresh, Zenon DEF IInv, Verbs
    <3> QED
      BY <3>5, <3>6, <1>GatewayFrame DEF StartWake
  \* The worker's wake drops the publication.
  <2>WorkerWake. ASSUME WorkerWake(h) PROVE IInv'
    <3> USE <2>WorkerWake
    <3> DEFINE s == req[h].s
               held == req[h].held
               n == held.node
               b == box[n][s]
               a == Answer("running", worker'[n], b.cap, 0)
    <3>1. s \in Sandboxes /\ held \in Held /\ n \in Nodes /\ req[h].step \notin {"idle", "absent"} /\ req[h].op = "wake"
      BY ActiveReq, Zenon DEF WorkerWake, At, IInv
    <3>2. /\ (worker \in [Nodes -> [boot: 1..MaxBoot, act: Nat, lag: Nat]])'
          /\ worker'[n].boot \in 1..MaxBoot /\ worker'[n].act \in Nat
      BY <3>1, <1>AdvanceOK, Zenon DEF IInv, WorkerWake, Advance
    <3>3. b.gen \in 0..MaxGeneration /\ b.cap \in 0..MaxCapture
      BY <3>1, <1>BoxFacts, Zenon DEF IInv
    <3>4. Box(b.gen, "running", b.cap, FALSE) \in Boxes
      BY <3>3, Zenon DEF Box, Boxes
    <3>5. WorkersOK'
      BY <3>1, <3>2, <3>4, <1>BoxOK, ZenonT(30) DEF IInv, WorkersOK, WorkerWake
    <3>6. a \in Answers
      <4>1. b.cap \in 0..MaxCapture /\ 0 \in 0..MaxCapture /\ worker'[n].boot \in 0..MaxBoot
        BY <3>2, <3>3, <1>BootRange, Zero, Zenon
      <4> HIDE DEF b, n
      <4> QED
        BY ZenonT(30), <3>2, <4>1 DEF Answer, Answers
    <3>7. AnswerOK(Request(req[h].op, "answered", s, held, a))
      BY <3>1, Zenon DEF AnswerOK, Request
    <3>8. ReqOK'
      BY <3>1, <3>6, <3>7, <1>GotoOK, Zenon DEF IInv, Steps, WorkerWake
    <3> QED
      BY <3>5, <3>8, <1>WorkersFrame, Zenon DEF WorkerWake
  \* A failed wake carries no epochs.
  <2>WorkerWakeFails. ASSUME WorkerWakeFails(h) PROVE IInv'
    <3> USE <2>WorkerWakeFails
    <3>1. req[h].held \in Held /\ req[h].step \notin {"idle", "absent"} /\ req[h].op = "wake"
      BY ActiveReq, Zenon DEF WorkerWakeFails, At, IInv
    <3>2. Says("parked", 0) \in Answers
      BY Bounds, <1>AnswerType
    <3>3. AnswerOK(Request(req[h].op, "answered", req[h].s, req[h].held, Says("parked", 0)))
      BY <3>1, Zenon DEF AnswerOK, Request
    <3>4. ReqOK'
      BY <3>1, <3>2, <3>3, <1>GotoOK, Zenon DEF IInv, Steps, WorkerWakeFails
    <3> QED
      BY <3>4, <1>ReqFrame, Zenon DEF WorkerWakeFails
  \* A receipt that passes the lifecycle fence names the stored boot, hence one.
  <2>ValidateReceipt. ASSUME ValidateReceipt(h) PROVE IInv'
    <3> USE <2>ValidateReceipt
    <3> DEFINE held == req[h].held
               a == req[h].ans
    <3>1. /\ held \in Held /\ held.node \in Nodes /\ a \in Answers /\ req[h].step \notin {"idle", "absent"}
          /\ req[h].op \in {"park", "wake"} /\ req[h].step = "answered"
          /\ req[h].op = "park" => a.st \in {"running", "parked"}
      BY ActiveReq, Zenon DEF ValidateReceipt, IInv, AnswerOK
    <3>2. CASE Goto(h, "valid", held, a) /\ FenceHolds(held, a, seen[held.node])
      <4>1. seen[held.node].boot \in 1..MaxBoot
        BY <3>1 DEF IInv, SeenOK
      <4>2. a.boot # 0
        BY <3>2, <4>1, <1>BootRange, Zenon DEF FenceHolds
      <4>3. AnswerOK(Request(req[h].op, "valid", req[h].s, held, a))
        BY <3>1, <4>2 DEF AnswerOK, Request
      <4>4. ReqOK'
        BY <3>1, <3>2, <4>3, <1>GotoOK, Zenon DEF IInv, Steps
      <4> QED
        BY <4>4, <1>ReqFrame, Zenon DEF ValidateReceipt
    <3>3. CASE Finish(h)
      BY <3>3, <1>FinishOK, <1>ReqFrame, Zenon DEF ValidateReceipt, IInv
    <3> QED
      BY <3>2, <3>3, Zenon DEF ValidateReceipt
  \* set_sandbox_state_if_current of a park, with its boot.
  <2>CommitPark. ASSUME CommitPark(h) PROVE IInv'
    <3> USE <2>CommitPark
    <3> DEFINE s == req[h].s
               a == req[h].ans
               cur == route[s]
               k == IF a.st = "running" THEN 0 ELSE IF a.snap # 0 THEN a.snap ELSE cur.snap
               r == Edit(cur, a.st, a.boot, a.act, k)
    <3>1. /\ s \in Sandboxes /\ a \in Answers /\ a.st \in {"running", "parked"} /\ a.boot # 0
      BY ActiveReq, Zenon DEF CommitPark, At, IInv, AnswerOK
    <3>2. ReqOK'
      BY <1>FinishOK, Zenon DEF CommitPark, IInv
    <3>3. CASE Write(s, r) /\ SetStateAllowed(cur, req[h].held, {"running", "waking", "parked"}, a)
      <4>1. cur \in Live
        BY <3>1, <3>3, ExistsLive, Zenon DEF IInv, SetStateAllowed, LiveStates
      <4>2. /\ a.st \in LiveStates /\ a.boot \in 0..MaxBoot /\ a.act \in Nat
            /\ a.snap \in 0..MaxCapture /\ cur.snap \in 0..MaxCapture
        BY <3>1, <4>1, <1>AnswerParts, LiveParts, Zenon DEF LiveStates
      <4>3. k \in 0..MaxCapture
        BY <4>2, Zero, Zenon
      <4>4. r \in Live /\ r.boot = a.boot
        <5> HIDE DEF k
        <5>1. r.boot = a.boot
          BY DEF Edit
        <5>2. r \in Live
          BY <4>1, <4>2, <4>3, <1>EditIsLive, Zenon
        <5> QED BY ZenonT(30), <5>1, <5>2
      <4>5. GatewayOK'
        <5> HIDE DEF r
        <5> QED BY <3>1, <3>3, <4>4, <1>WriteOK, Zenon DEF IInv, Fenced
      <4> QED
        BY <3>2, <4>5, <1>GatewayFrame, Zenon DEF CommitPark
    <3>4. CASE UNCHANGED gateway
      BY <3>2, <3>4, <1>ReqFrame, Zenon DEF CommitPark
    <3> QED
      BY <3>3, <3>4, Zenon DEF CommitPark
  \* confirm_sandbox_wake, with its boot.
  <2>CommitWake. ASSUME CommitWake(h) PROVE IInv'
    <3> USE <2>CommitWake
    <3> DEFINE s == req[h].s
               a == req[h].ans
               cur == route[s]
               r == Edit(cur, "running", a.boot, a.act, 0)
    <3>1. /\ s \in Sandboxes /\ a \in Answers /\ a.boot # 0
      BY ActiveReq, Zenon DEF CommitWake, At, IInv, AnswerOK
    <3>2. ReqOK'
      BY <1>FinishOK, Zenon DEF CommitWake, IInv
    <3>3. CASE /\ Write(s, r) /\ SetStateAllowed(cur, req[h].held, {"parked", "waking", "running"}, a)
               /\ committed' = [committed EXCEPT ![s] = [gen |-> cur.gen, cap |-> a.cap]]
      <4>1. cur \in Live
        BY <3>1, <3>3, ExistsLive, Zenon DEF IInv, SetStateAllowed, LiveStates
      <4>2. /\ "running" \in LiveStates /\ a.boot \in 0..MaxBoot /\ a.act \in Nat
            /\ a.cap \in 0..MaxCapture /\ 0 \in 0..MaxCapture
        BY <3>1, Zero, Zenon DEF Answers, LiveStates
      <4>3. r \in Live /\ r.boot = a.boot
        BY <4>1, <4>2, Zenon DEF Edit, Live
      <4>4. GatewayOK'
        BY <3>1, <3>3, <4>3, <1>WriteOK, Zenon DEF IInv, Fenced
      <4>5. cur.gen \in 0..MaxGeneration
        BY <4>1, Bounds DEF Live
      <4>6. HistoryOK'
        BY <3>3, <4>2, <4>5, Zenon DEF IInv, HistoryOK, CommitWake
      <4> QED
        BY <3>2, <4>4, <4>6, Zenon DEF CommitWake, IInv, SeenOK, WorkersOK, BeatsOK, workers
    <3>4. CASE UNCHANGED <<gateway, committed>>
      BY <3>2, <3>4, <1>ReqFrame, Zenon DEF CommitWake, history
    <3> QED
      BY <3>3, <3>4, Zenon DEF CommitWake
  \* The roll-back of a wake keeps the fence of the route.
  <2>RollBackWake. ASSUME RollBackWake(h) PROVE IInv'
    <3> USE <2>RollBackWake
    <3> DEFINE s == req[h].s
               cur == route[s]
               r == Edit(cur, "parked", cur.boot, cur.act, cur.snap)
    <3>1. s \in Sandboxes
      BY ActiveReq, Zenon DEF RollBackWake, At, IInv
    <3>2. ReqOK'
      BY <1>FinishOK, Zenon DEF RollBackWake, IInv
    <3>3. CASE Write(s, r) /\ SetStateAllowed(cur, req[h].held, {"waking"}, NoAnswer)
      <4>1. cur \in Live /\ Fenced(cur)
        BY <3>1, <3>3, ExistsLive, Zenon DEF IInv, SetStateAllowed, LiveStates, GatewayOK
      <4>2. r \in Live /\ Fenced(r)
        BY <4>1, Zenon DEF Edit, Live, LiveStates, Attachments, Fenced
      <4>3. GatewayOK'
        BY <3>1, <3>3, <4>2, <1>WriteOK, Zenon DEF IInv
      <4> QED
        BY <3>2, <4>3, <1>GatewayFrame, Zenon DEF RollBackWake
    <3>4. CASE UNCHANGED gateway
      BY <3>2, <3>4, <1>ReqFrame, Zenon DEF RollBackWake
    <3> QED
      BY <3>3, <3>4, Zenon DEF RollBackWake
  <2> QED
    BY <2>StartPark, <2>WorkerPark, <2>DescribePark, <2>StartWake, <2>WorkerWake,
       <2>WorkerWakeFails, <2>ValidateReceipt, <2>CommitPark, <2>CommitWake, <2>RollBackWake,
       ZenonT(30)
\* The steps of a DELETE and of the reaper, and a request that is given up.
<1>DeleteStepOK. ASSUME IInv, NEW h \in Actors
      PROVE  \/ \E s \in Sandboxes : PrepareDelete(h, s) \/ ReadAbsent(h, s)
             \/ DeleteAbsent(h) \/ WorkerDelete(h) \/ CommitDelete(h) \/ Forget(h)
             => IInv'
    \* prepare_sandbox_delete issues an intent within bounds, or removes the route.
  <2> USE <1>DeleteStepOK
  <2>PrepareDelete. ASSUME NEW s \in Sandboxes, PrepareDelete(h, s) PROVE IInv'
    <3> USE <2>PrepareDelete
    <3> DEFINE r == IF route[s].del # 0 THEN route[s] ELSE WithDelete(route[s], dels[s] + 1)
    <3>1. route[s] \in Live /\ Fenced(route[s]) /\ dels[s] \in 0..MaxDelete
      BY ExistsLive, Zenon DEF PrepareDelete, IInv, GatewayOK
    <3>2. r \in Live /\ Fenced(r)
      <4>1. CASE route[s].del # 0
        BY <3>1, <4>1, Zenon
      <4>2. CASE route[s].del = 0
        <5>1. dels[s] + 1 \in 0..MaxDelete
          BY <3>1, <4>2, <1>NextNumbers, Zenon DEF PrepareDelete
        <5>2. WithDelete(route[s], dels[s] + 1) \in Live
          BY <3>1, <5>1, Zenon DEF WithDelete, Live
        <5> QED
          BY <3>1, <4>2, <5>2, Zenon DEF WithDelete, Fenced
      <4> QED
        BY <4>1, <4>2, Zenon
    <3>3. dels' \in [Sandboxes -> 0..MaxDelete]
      BY <3>1, <1>NextNumbers DEF PrepareDelete, IInv, GatewayOK
    <3>4. route' = [route EXCEPT ![s] = IF r.ws = "detached" THEN NoRoute ELSE r]
      BY Zenon DEF PrepareDelete
    <3>5. /\ route' \in [Sandboxes -> Live \cup {NoRoute}]
          /\ \A t \in Sandboxes : Fenced(route'[t])
      BY <3>2, <3>4, Zenon DEF IInv, GatewayOK, Fenced, NoRoute
    <3>6. GatewayOK'
      BY <3>3, <3>5, Zenon DEF PrepareDelete, IInv, GatewayOK, Fenced
    <3>7. ReqOK'
      <4>1. CASE r.ws = "attached"
        BY <3>2, <4>1, <1>LiveHeld, <1>StartFresh, Zenon DEF PrepareDelete, IInv, Verbs
      <4>2. CASE r.ws # "attached"
        BY <4>2, <1>FinishOK, Zenon DEF PrepareDelete, IInv, Finish
      <4> QED
        BY <4>1, <4>2, Zenon
    <3> QED
      BY <3>6, <3>7, <1>GatewayFrame, Zenon DEF PrepareDelete
  \* A DELETE that found no route waits with nothing in its hands,
  <2>ReadAbsent. ASSUME NEW s \in Sandboxes, ReadAbsent(h, s) PROVE IInv'
    <3> USE <2>ReadAbsent
    <3> DEFINE q == Request("delete", "absent", s, NoRoute, NoAnswer)
    <3>1. q \in Absent /\ AnswerOK(q)
      BY Zenon DEF Absent, AnswerOK, Request
    <3>2. ReqOK /\ req' = [req EXCEPT ![h] = q]
      BY DEF ReadAbsent, IInv
    <3> HIDE DEF q
    <3>3. req' \in [Actors -> Active \cup Absent \cup {Idle}]
      BY <3>1, <3>2 DEF ReqOK
    <3>4. ASSUME NEW i \in Actors, req'[i] # Idle PROVE AnswerOK(req'[i])
      BY <3>1, <3>2, <3>4, Zenon DEF ReqOK
    <3>5. ReqOK'
      BY <3>3, <3>4 DEF ReqOK, AnswerOK
    <3> QED
      BY <3>5, <1>ReqFrame, ZenonT(30) DEF ReadAbsent
  \* and then removes the route there is.
  <2>DeleteAbsent. ASSUME DeleteAbsent(h) PROVE IInv'
    <3> USE <2>DeleteAbsent
    <3>1. req[h].s \in Sandboxes
      BY AbsentReq DEF DeleteAbsent, At, IInv
    <3>2. ReqOK'
      BY <1>FinishOK DEF DeleteAbsent, IInv
    <3> QED
      BY <3>1, <3>2, <1>RemoveOK, <1>GatewayFrame, ZenonT(30) DEF DeleteAbsent, IInv
  \* A client or gateway that goes away leaves only its request.
  <2>Forget. ASSUME Forget(h) PROVE IInv'
    BY <2>Forget, <1>FinishOK, <1>ReqFrame, Zenon DEF Forget, IInv
  \* The worker's delete leaves a tombstone of the generation it was asked for.
  <2>WorkerDelete. ASSUME WorkerDelete(h) PROVE IInv'
    <3> USE <2>WorkerDelete
    <3> DEFINE s == req[h].s
               n == req[h].held.node
               g == req[h].held.gen
    <3>1. /\ s \in Sandboxes /\ n \in Nodes /\ g \in 0..MaxGeneration
          /\ req[h].step \notin {"idle", "absent"}
      BY ActiveReq, Zenon DEF WorkerDelete, IInv, Held
    <3>2. ReqOK'
      BY <3>1, <1>SaysOK, Zero, Zenon DEF WorkerDelete, IInv
    <3>3. CASE /\ box' = [box EXCEPT ![n][s] = NoBox]
               /\ tomb' = [tomb EXCEPT ![n][s] = IF g > @ THEN g ELSE @]
               /\ worker' = [worker EXCEPT ![n] = Bumped(@)]
      BY <3>1, <3>2, <3>3, <1>DropOK, <1>WorkersFrame, Zenon DEF WorkerDelete, IInv
    <3>4. CASE UNCHANGED workers
      BY <3>2, <3>4, <1>ReqFrame, Zenon DEF WorkerDelete
    <3> QED
      BY <3>3, <3>4, Zenon DEF WorkerDelete
  \* The commit of a delete removes the route.
  <2>CommitDelete. ASSUME CommitDelete(h) PROVE IInv'
    <3> USE <2>CommitDelete
    <3> DEFINE s == req[h].s
               held == req[h].held
    <3>1. s \in Sandboxes /\ held.gen \in 0..MaxGeneration
      BY ActiveReq, Zenon DEF CommitDelete, IInv, Held
    <3>2. ReqOK'
      BY <1>FinishOK, Zenon DEF CommitDelete, IInv
    <3>3. CASE Remove(s) /\ acked' = [acked EXCEPT ![s] = @ \cup {held.gen}]
      <4>1. GatewayOK'
        BY <3>1, <3>3, <1>RemoveOK, Zenon DEF IInv
      <4>2. HistoryOK'
        BY <3>1, <3>3 DEF IInv, HistoryOK, CommitDelete
      <4> QED
        BY <3>2, <4>1, <4>2, Zenon DEF CommitDelete, IInv, SeenOK, WorkersOK, BeatsOK, workers
    <3>4. CASE UNCHANGED <<gateway, acked>>
      BY <3>2, <3>4, <1>ReqFrame, Zenon DEF CommitDelete, history
    <3> QED
      BY <3>3, <3>4, Zenon DEF CommitDelete
  <2> QED
    BY <2>PrepareDelete, <2>ReadAbsent, <2>DeleteAbsent, <2>Forget, <2>WorkerDelete,
       <2>CommitDelete, ZenonT(30)
\* The steps of a detach and of a publication.
<1>DetachStepOK. ASSUME IInv, NEW h \in Actors
      PROVE  \/ \E s \in Sandboxes : StartDetach(h, s) \/ StartPublish(h, s)
             \/ WorkerPublish(h) \/ CommitDetachSnapshot(h) \/ BeginDetach(h) \/ WorkerEvict(h)
             \/ CompleteDetach(h) \/ ReadForAccept(h) \/ UpsertAccepted(h) \/ AcceptAtomically(h)
             => IInv'
    \* A detach that fences its route: the eviction starts from the fenced route.
  <2> USE <1>DetachStepOK
  <2>Fence. ASSUME GatewayOK, ReqOK, NEW s \in Sandboxes, route[s] \in Live,
               Write(s, WithWorker(route[s], "detaching")),
               req' = [req EXCEPT ![h] = Request("evict", "sent", s, Identity(WithWorker(route[s], "detaching")), NoAnswer)]
        PROVE  GatewayOK' /\ ReqOK'
    <3> USE <2>Fence
    <3> DEFINE d == WithWorker(route[s], "detaching")
    <3>1. d \in Live
      BY Zenon DEF WithWorker, Live, Attachments
    <3>2. Fenced(d)
      BY DEF GatewayOK, Fenced, WithWorker
    <3>3. Identity(d) \in Held
      BY ZenonT(30), <3>1, <1>LiveHeld
    <3>4. GatewayOK'
      BY <3>1, <3>2, <1>WriteOK
    <3> QED
      BY <3>3, <3>4, <1>StartFresh, Zenon DEF Verbs
  \* A detach fences a portable park, or holds the identity of another.
  <2>StartDetach. ASSUME NEW s \in Sandboxes, StartDetach(h, s) PROVE IInv'
    <3> USE <2>StartDetach
    <3>1. route[s] \in Live
      BY ExistsLive, Zenon DEF StartDetach, IInv, LiveStates
    <3>2. CASE IsPortable(route[s])
      BY <3>1, <3>2, <2>Fence, <1>GatewayFrame, Zenon DEF StartDetach, IInv
    <3>3. CASE ~IsPortable(route[s])
      <4>1. ReqOK'
        BY <3>1, <3>3, <1>LiveHeld, <1>StartFresh DEF StartDetach, IInv, Verbs
      <4> QED
        BY <3>3, <4>1, <1>ReqFrame, Zenon DEF StartDetach
    <3> QED
      BY <3>2, <3>3
  \* A publication on request.
  <2>WorkerPublish. ASSUME WorkerPublish(h) PROVE IInv'
    <3> USE <2>WorkerPublish
    <3> DEFINE s == req[h].s
               n == req[h].held.node
               b == box[n][s]
    <3>1. s \in Sandboxes /\ n \in Nodes /\ req[h].step \notin {"idle", "absent"}
      BY ActiveReq, Zenon DEF WorkerPublish, IInv
    <3>2. b.gen \in 0..MaxGeneration /\ b.cap \in 0..MaxCapture
      BY <3>1, <1>BoxFacts, Zenon DEF IInv
    <3>3. Box(b.gen, "parked", b.cap, TRUE) \in Boxes
      BY <3>2, Zenon DEF Box, Boxes
    <3>4. WorkersOK'
      BY <3>1, <3>3, <1>BoxOK, Zenon DEF WorkerPublish, IInv, WorkersOK
    <3>5. ReqOK'
      BY <3>1, <3>2, <1>SaysOK, Zenon DEF WorkerPublish, IInv
    <3> QED
      BY <3>4, <3>5, <1>WorkersFrame, Zenon DEF WorkerPublish
  \* The snapshot of a detach is committed with the route's own fence.
  <2>CommitDetachSnapshot. ASSUME CommitDetachSnapshot(h) PROVE IInv'
    <3> USE <2>CommitDetachSnapshot
    <3> DEFINE s == req[h].s
               cur == route[s]
               k == req[h].ans.snap
               r == Edit(cur, "parked", cur.boot, cur.act, k)
    <3>1. s \in Sandboxes /\ k \in 0..MaxCapture /\ req[h].step \notin {"idle", "absent"} /\ req[h].op = "detach"
      BY ActiveReq, Zenon DEF CommitDetachSnapshot, At, IInv, Answers
    <3>2. CASE /\ Write(s, r) /\ Goto(h, "valid", Identity(r), NoAnswer)
               /\ SetStateAllowed(cur, req[h].held, {"parked"}, NoAnswer)
      <4>1. cur \in Live /\ Fenced(cur)
        BY <3>1, <3>2, ExistsLive, ZenonT(30) DEF IInv, SetStateAllowed, LiveStates, GatewayOK
      <4>2. r \in Live /\ Fenced(r)
        BY ZenonT(30), <3>1, <4>1 DEF Edit, Live, LiveStates, Attachments, Fenced
      <4>3. GatewayOK'
        BY <3>1, <3>2, <4>2, <1>WriteOK, Zenon DEF IInv
      <4>4. AnswerOK(Request(req[h].op, "valid", s, Identity(r), NoAnswer))
        BY <3>1, ZenonT(30) DEF AnswerOK, Request
      <4>5. Identity(r) \in Held
        BY <4>2, <1>LiveHeld
      <4>6. ReqOK'
        BY <3>1, <3>2, <4>4, <4>5, <1>GotoOK, Nulls, Zenon DEF IInv, Steps
      <4> QED
        BY <4>3, <4>6, <1>GatewayFrame, Zenon DEF CommitDetachSnapshot
    <3>3. CASE Finish(h) /\ UNCHANGED gateway
      BY <3>3, <1>FinishOK, <1>ReqFrame, Zenon DEF CommitDetachSnapshot, IInv
    <3> QED
      BY <3>2, <3>3, Zenon DEF CommitDetachSnapshot
  \* begin_sandbox_detach.
  <2>BeginDetach. ASSUME BeginDetach(h) PROVE IInv'
    <3> USE <2>BeginDetach
    <3> DEFINE s == req[h].s
               d == WithWorker(route[s], "detaching")
    <3>1. s \in Sandboxes
      BY ActiveReq, Zenon DEF BeginDetach, At, IInv
    <3>2. CASE /\ Write(s, d) /\ IsPortable(route[s])
               /\ req' = [req EXCEPT ![h] = Request("evict", "sent", s, Identity(d), NoAnswer)]
      <4>1. route[s] \in Live
        BY <3>1, <3>2, ExistsLive, Zenon DEF IInv, IsPortable, LiveStates
      <4> QED
        BY <3>1, <3>2, <4>1, <2>Fence, <1>GatewayFrame, Zenon DEF BeginDetach, IInv
    <3>3. CASE Finish(h) /\ UNCHANGED gateway
      BY <3>3, <1>FinishOK, <1>ReqFrame, Zenon DEF BeginDetach, IInv
    <3> QED
      BY <3>2, <3>3, Zenon DEF BeginDetach
  \* evict_published leaves a tombstone.
  <2>WorkerEvict. ASSUME WorkerEvict(h) PROVE IInv'
    <3> USE <2>WorkerEvict
    <3> DEFINE s == req[h].s
               n == req[h].held.node
               g == req[h].held.gen
    <3>1. /\ s \in Sandboxes /\ n \in Nodes /\ g \in 0..MaxGeneration
          /\ req[h].step \notin {"idle", "absent"}
      BY ActiveReq, Zenon DEF WorkerEvict, At, IInv, Held
    <3>2. ReqOK'
      BY <3>1, <1>SaysOK, Zero, Zenon DEF WorkerEvict, At, IInv
    <3>3. CASE /\ box' = [box EXCEPT ![n][s] = NoBox]
               /\ tomb' = [tomb EXCEPT ![n][s] = IF g > @ THEN g ELSE @]
               /\ worker' = [worker EXCEPT ![n] = Bumped(@)]
      BY <3>1, <3>2, <3>3, <1>DropOK, <1>WorkersFrame, Zenon DEF WorkerEvict, IInv
    <3>4. CASE UNCHANGED workers
      BY <3>2, <3>4, <1>ReqFrame, Zenon DEF WorkerEvict
    <3> QED
      BY <3>3, <3>4, Zenon DEF WorkerEvict
  \* complete_sandbox_detach.
  <2>CompleteDetach. ASSUME CompleteDetach(h) PROVE IInv'
    <3> USE <2>CompleteDetach
    <3> DEFINE s == req[h].s
    <3>1. s \in Sandboxes
      BY ActiveReq, Zenon DEF CompleteDetach, At, IInv
    <3>2. ReqOK'
      BY <1>FinishOK, Zenon DEF CompleteDetach, IInv
    <3>3. CASE Write(s, Detached(route[s])) /\ IsPortable(route[s])
      <4>1. route[s] \in Live
        BY <3>1, <3>3, ExistsLive, Zenon DEF IInv, IsPortable, LiveStates
      <4>2. Detached(route[s]) \in Live /\ Fenced(Detached(route[s]))
        BY <4>1, <1>DetachedLive, Zenon
      <4>3. GatewayOK'
        BY <3>1, <3>3, <4>2, <1>WriteOK, Zenon DEF IInv
      <4> QED
        BY <3>2, <4>3, <1>GatewayFrame, ZenonT(30) DEF CompleteDetach
    <3>4. CASE UNCHANGED gateway
      BY <3>2, <3>4, <1>ReqFrame, Zenon DEF CompleteDetach
    <3> QED
      BY <3>3, <3>4, Zenon DEF CompleteDetach
  \* A publication request holds the identity of the route.
  <2>StartPublish. ASSUME NEW s \in Sandboxes, StartPublish(h, s) PROVE IInv'
    <3> USE <2>StartPublish
    <3>1. route[s] \in Live
      BY ExistsLive, Zenon DEF StartPublish, IInv, LiveStates
    <3>2. ReqOK'
      BY <3>1, <1>LiveHeld, <1>StartFresh, Zenon DEF StartPublish, IInv, Verbs
    <3> QED
      BY <3>2, <1>ReqFrame, Zenon DEF StartPublish
  \* What a publication writes of the route it read is that route.
  <2>AcceptedLive. ASSUME NEW s \in Sandboxes, NEW held, Acceptable(route[s], held),
               NEW k \in 0..MaxCapture
        PROVE  Accepted(route[s], k) \in Live /\ Fenced(Accepted(route[s], k))
    <3> USE <2>AcceptedLive
    <3>1. route[s] \in Live /\ Fenced(route[s])
      BY ExistsLive DEF IInv, Acceptable, LiveStates, GatewayOK
    <3> QED
      BY <3>1, Zenon DEF Accepted, Edit, Live, LiveStates, Fenced
  \* accept_publication remembers the whole live route it read.
  <2>ReadForAccept. ASSUME ReadForAccept(h) PROVE IInv'
    <3> USE <2>ReadForAccept
    <3> DEFINE s == req[h].s
               a == req[h].ans
               c == Accepted(route[s], a.snap)
    <3>1. /\ s \in Sandboxes /\ a \in Answers /\ a.snap \in 0..MaxCapture /\ req[h].step \notin {"idle", "absent"}
          /\ req[h].op = "publish"
      BY ActiveReq, Zenon DEF ReadForAccept, At, IInv, Answers
    <3>2. CASE Goto(h, "valid", c, a) /\ Acceptable(route[s], req[h].held)
      <4>1. c \in Live /\ Fenced(c)
        BY <3>1, <3>2, <2>AcceptedLive
      <4>2. AnswerOK(Request(req[h].op, "valid", s, c, a))
        BY <3>1, <4>1, Zenon DEF AnswerOK, Request, ReadForAccept
      <4>3. c \in Held
        BY <4>1, <1>LiveHeld, Zenon
      <4>4. ReqOK'
        BY <3>1, <3>2, <4>2, <4>3, <1>GotoOK, Zenon DEF IInv, Steps
      <4> QED
        BY <4>4, <1>ReqFrame, Zenon DEF ReadForAccept
    <3>3. CASE Finish(h)
      BY <3>3, <1>FinishOK, <1>ReqFrame, Zenon DEF ReadForAccept, IInv
    <3> QED
      BY <3>2, <3>3, Zenon DEF ReadForAccept
  \* ... and writes it back.
  <2>UpsertAccepted. ASSUME UpsertAccepted(h) PROVE IInv'
    <3> USE <2>UpsertAccepted
    <3>1. req[h].s \in Sandboxes /\ req[h].held \in Live /\ Fenced(req[h].held)
      BY ActiveReq, Zenon DEF UpsertAccepted, At, IInv, AnswerOK
    <3>2. ReqOK'
      BY <1>FinishOK, Zenon DEF UpsertAccepted, IInv
    <3>3. CASE Write(req[h].s, req[h].held)
      BY <3>1, <3>2, <3>3, <1>WriteOK, <1>GatewayFrame, Zenon DEF UpsertAccepted, IInv
    <3>4. CASE UNCHANGED gateway
      BY <3>2, <3>4, <1>ReqFrame, Zenon DEF UpsertAccepted
    <3> QED
      BY <3>3, <3>4, Zenon DEF UpsertAccepted
  \* accept_publication in one transaction.
  <2>AcceptAtomically. ASSUME AcceptAtomically(h) PROVE IInv'
    <3> USE <2>AcceptAtomically
    <3> DEFINE s == req[h].s
               k == req[h].ans.snap
    <3>1. s \in Sandboxes /\ k \in 0..MaxCapture
      BY ZenonT(30), ActiveReq DEF AcceptAtomically, At, IInv, Answers
    <3>2. ReqOK'
      BY <1>FinishOK, Zenon DEF AcceptAtomically, IInv
    <3>3. CASE Write(s, Accepted(route[s], k)) /\ Acceptable(route[s], req[h].held)
      BY <3>1, <3>2, <3>3, <2>AcceptedLive, <1>WriteOK, <1>GatewayFrame, Zenon DEF AcceptAtomically, IInv
    <3>4. CASE UNCHANGED gateway
      BY <3>2, <3>4, <1>ReqFrame, Zenon DEF AcceptAtomically
    <3> QED
      BY <3>3, <3>4, ZenonT(30) DEF AcceptAtomically
  <2> QED
    BY <2>StartDetach, <2>WorkerPublish, <2>CommitDetachSnapshot, <2>BeginDetach, <2>WorkerEvict,
       <2>CompleteDetach, <2>StartPublish, <2>ReadForAccept, <2>UpsertAccepted, <2>AcceptAtomically,
       ZenonT(30)
\* The steps a worker takes by itself.
<1>WorkerAloneOK. ASSUME IInv, NEW n \in Nodes
      PROVE  \/ Reboot(n) \/ Sample(n) \/ \E s \in Sandboxes : IdlePark(n, s) \/ Publish(n, s)
             => IInv'
    \* The idle parker.
  <2> USE <1>WorkerAloneOK
  <2>IdlePark. ASSUME NEW s \in Sandboxes, IdlePark(n, s) PROVE IInv'
    <3> USE <2>IdlePark
    <3> DEFINE b == box[n][s]
    <3>1. b.gen \in 0..MaxGeneration /\ b.cap \in 0..MaxCapture
      BY <1>BoxFacts DEF IInv
    <3>2. b.cap + 1 \in 0..MaxCapture
      BY <3>1, <1>NextCapture, Zenon DEF IdlePark
    <3>3. Box(b.gen, "parked", b.cap + 1, FALSE) \in Boxes
      BY <3>1, <3>2, Zenon DEF Box, Boxes
    <3>4. WorkersOK'
      BY <3>3, <1>BoxOK, <1>AdvanceOK, Zenon DEF IdlePark, Advance, IInv, WorkersOK
    <3> QED
      BY <3>4, <1>ReqUnchanged, <1>WorkersFrame, Zenon DEF IdlePark, IInv
  \* The background publication of a park.
  <2>Publish. ASSUME NEW s \in Sandboxes, Publish(n, s) PROVE IInv'
    <3> USE <2>Publish
    <3> DEFINE b == box[n][s]
    <3>1. b.gen \in 0..MaxGeneration /\ b.cap \in 0..MaxCapture
      BY <1>BoxFacts DEF IInv
    <3>2. Box(b.gen, "parked", b.cap, TRUE) \in Boxes
      BY <3>1, Zenon DEF Box, Boxes
    <3>3. WorkersOK'
      BY <3>2, <1>BoxOK, Zenon DEF Publish, IInv, WorkersOK
    <3> QED
      BY <3>3, <1>ReqUnchanged, <1>WorkersFrame DEF Publish, IInv
  \* A reboot keeps the registrations typed and stays within MaxBoot.
  <2>Reboot. ASSUME Reboot(n) PROVE IInv'
    <3> USE <2>Reboot
    <3> DEFINE after(s) == IF box[n][s].st = "running"
                           THEN Box(box[n][s].gen, "dead", box[n][s].cap, FALSE)
                           ELSE box[n][s]
    <3>1. worker[n].boot \in 1..MaxBoot
      BY ZenonT(30) DEF IInv, WorkersOK
    <3>2. worker[n].boot + 1 \in 1..MaxBoot
      BY <3>1, Bounds DEF Reboot
    <3>3. (worker \in [Nodes -> [boot: 1..MaxBoot, act: Nat, lag: Nat]])'
      BY <3>2, Zenon DEF Reboot, IInv, WorkersOK
    <3>4. ASSUME NEW s \in Sandboxes PROVE after(s) \in Boxes
      <4>1. /\ box[n][s] \in Boxes
            /\ box[n][s].gen \in 0..MaxGeneration /\ box[n][s].cap \in 0..MaxCapture
        BY <1>BoxFacts, Zenon DEF IInv
      <4> QED
        BY <4>1, Zenon DEF Box, Boxes
    <3>5. box' = [box EXCEPT ![n] = [s \in Sandboxes |-> after(s)]]
      BY DEF Reboot
    <3>6. (box \in [Nodes -> [Sandboxes -> Boxes]])'
      <4> HIDE DEF after
      <4> QED
        BY <3>4, <3>5, Zenon DEF IInv, WorkersOK
    <3>7. WorkersOK'
      BY <3>3, <3>6, Zenon DEF WorkersOK, IInv, Reboot
    <3> QED
      BY <3>7, <1>ReqUnchanged, <1>WorkersFrame, Zenon DEF Reboot, IInv
  \* A heartbeat lists typed entries.
  <2>Sample. ASSUME Sample(n) PROVE IInv'
    <3> USE <2>Sample
    <3>1. PICK a \in 0..worker[n].act : beats' = beats \cup {Sent(n, a)}
      BY DEF Sample
    <3>2. worker[n].boot \in 1..MaxBoot /\ worker[n].act \in Nat
      BY DEF IInv, WorkersOK
    <3>3. a \in Nat
      BY <3>1, <3>2
    <3>4. ASSUME NEW s \in Sandboxes PROVE Entry(box[n][s]) \in Entries
      <4>1. box[n][s] \in Boxes /\ Published(box[n][s]) \in 0..MaxCapture
        BY <1>BoxFacts, Zenon DEF IInv
      <4> QED
        BY <4>1, Zenon DEF Boxes, Entry, Entries
    <3>5. [s \in Sandboxes |-> Entry(box[n][s])] \in [Sandboxes -> Entries]
      BY <3>4, Zenon
    <3>6. Sent(n, a) \in Beats
      BY <3>2, <3>3, <3>5 DEF Sent, Beats
    <3>7. BeatsOK'
      BY <3>1, <3>6 DEF IInv, BeatsOK
    <3>8. WorkersOK'
      BY Zenon DEF Sample, IInv, WorkersOK
    <3> QED
      BY <3>7, <3>8, <1>ReqUnchanged DEF Sample, IInv, SeenOK, GatewayOK, HistoryOK, gateway, history
  <2> QED
    BY <2>IdlePark, <2>Publish, <2>Reboot, <2>Sample, ZenonT(30)
\* The steps of a heartbeat.
<1>BeatStepOK. ASSUME IInv, NEW b \in beats
      PROVE  BeatStep(b) => IInv'
    \* A step that changes nothing but heartbeats.
  <2> USE <1>BeatStepOK
  <2>BeatFrame. ASSUME BeatsOK', SeenOK', UNCHANGED <<gateway, workers, req, history>>
        PROVE  IInv'
    BY <2>BeatFrame, Zenon DEF IInv, GatewayOK, WorkersOK, ReqOK, HistoryOK, gateway, workers, history
  \* A heartbeat that is lost.
  <2>DropBeat. ASSUME DropBeat(b) PROVE IInv'
    <3> USE <2>DropBeat
    <3>1. BeatsOK'
      BY DEF DropBeat, IInv, BeatsOK
    <3> QED
      BY <3>1, <2>BeatFrame DEF DropBeat, IInv, SeenOK
  \* A heartbeat moves on.
  <2>WithStepType. ASSUME NEW hb \in Beats, NEW step \in {"sent", "stored", "retired"},
               NEW retired \in SUBSET (1..MaxBoot), NEW owed \in SUBSET Owed
        PROVE  WithStep(hb, step, retired, owed) \in Beats
    BY <2>WithStepType, Zenon DEF WithStep, Beats
  \* receive_heartbeat stores the boot and retires the one it replaces.
  <2>ReceiveBeat. ASSUME ReceiveBeat(b) PROVE IInv'
    <3> USE <2>ReceiveBeat
    <3> DEFINE p == seen[b.node]
               retired == p.retired \cup (IF b.boot = p.boot THEN {} ELSE {p.boot})
               step == IF retired = {} THEN "retired" ELSE "stored"
    <3>1. b \in Beats
      BY DEF IInv, BeatsOK
    <3>2. b.node \in Nodes /\ b.boot \in 1..MaxBoot /\ b.act \in Nat
      BY <3>1 DEF Beats
    <3>3. p.boot \in 1..MaxBoot /\ p.retired \in SUBSET (1..MaxBoot)
      BY <3>2, Zenon DEF IInv, SeenOK
    <3>4. retired \in SUBSET (1..MaxBoot)
      BY ZenonT(30), <3>3
    <3>5. step \in {"sent", "stored", "retired"} /\ {} \in SUBSET Owed
      OBVIOUS
    <3>6. CASE /\ seen' = [seen EXCEPT ![b.node] =
                             [boot |-> b.boot, act |-> b.act, retired |-> retired]]
               /\ beats' = (beats \ {b}) \cup {WithStep(b, step, retired, {})}
      <4> HIDE DEF retired, step
      <4>1. SeenOK'
        BY <3>2, <3>4, <3>6 DEF IInv, SeenOK
      <4>2. WithStep(b, step, retired, {}) \in Beats
        BY <3>1, <3>4, <3>5, <2>WithStepType, Zenon
      <4>3. BeatsOK'
        BY <3>6, <4>2 DEF IInv, BeatsOK
      <4> QED
        BY <4>1, <4>3, <2>BeatFrame, Zenon DEF ReceiveBeat
    <3>7. CASE beats' = beats \ {b} /\ UNCHANGED seen
      BY <3>7, <2>BeatFrame, Zenon DEF ReceiveBeat, IInv, BeatsOK, SeenOK
    <3> QED
      BY <3>6, <3>7, Zenon DEF ReceiveBeat
  \* What the retirement of a boot leaves of a route is a live route or none.
  <2>AfterRetirementLive. ASSUME NEW hb \in Beats, NEW s \in Sandboxes
        PROVE  /\ AfterRetirement(route[s], hb, s) \in Live \cup {NoRoute}
               /\ Fenced(AfterRetirement(route[s], hb, s))
    <3> USE <2>AfterRetirementLive
    <3> DEFINE r == route[s]
    <3>1. hb.boot \in 1..MaxBoot /\ hb.act \in Nat
      BY Zenon DEF Beats
    <3>2. r \in Live \cup {NoRoute} /\ Fenced(r) /\ Fenced(NoRoute)
      BY DEF IInv, GatewayOK, Fenced, NoRoute
    <3>3. CASE r \in Live
      <4>1. Detached(r) \in Live /\ Fenced(Detached(r))
        BY <3>3, <1>DetachedLive, Zenon
      <4>2. Edit(r, "parked", hb.boot, hb.act, r.snap) \in Live
        BY <3>1, <3>3, <1>BootRange, LiveParts, <1>EditLive, ZenonT(30) DEF LiveStates
      <4>3. Fenced(Edit(r, "parked", hb.boot, hb.act, r.snap))
        BY <3>1, <1>BootRange, Zenon DEF Edit, Fenced
      <4> QED
        BY <3>2, <4>1, <4>2, <4>3, Zenon DEF AfterRetirement
    <3>4. CASE r = NoRoute
      BY <3>2, <3>4, Nulls, Zenon DEF AfterRetirement
    <3> QED
      BY <3>2, <3>3, <3>4
  \* The deletes a reboot leaves are requests a handler may carry.
  <2>IntentsType. ASSUME NEW hb \in Beats PROVE Intents(hb) \in SUBSET Owed
    <3> USE <2>IntentsType
    <3>1. ASSUME NEW s \in Sandboxes, route[s].del # 0 PROVE Intent(s) \in Owed
      <4>1. route[s] \in Live
        BY <3>1 DEF IInv, GatewayOK, NoRoute
      <4>2. Identity(route[s]) \in Held
        BY <4>1, <1>LiveHeld, Zenon
      <4> QED
        BY <4>2, Zenon DEF Intent, Owed
    <3> QED
      BY <3>1 DEF Intents
  \* So are the deletes of lost incarnations.
  <2>StraysType. ASSUME NEW hb \in Beats, NEW lost \in [Sandboxes -> 0..MaxGeneration]
        PROVE  Strays(hb, lost) \in SUBSET Owed
    <3> USE <2>StraysType
    <3>1. hb.node \in Nodes
      BY DEF Beats
    <3>2. ASSUME NEW s \in Sandboxes
          PROVE  [s |-> s, held |-> Identity(Placed(lost[s], hb.node, 0, 0))] \in Owed
      <4>1. Identity(Placed(lost[s], hb.node, 0, 0)) \in Held
        BY <3>1, Zero, <1>PlacedType
      <4> QED
        BY <4>1 DEF Owed
    <3> QED
      BY <3>2 DEF Strays
  \* retire_node_epochs.
  <2>RetireBeat. ASSUME RetireBeat(b) PROVE IInv'
    <3> USE <2>RetireBeat
    <3> DEFINE after == [s \in Sandboxes |-> AfterRetirement(route[s], b, s)]
               loss1 == [s \in Sandboxes |->
                           IF Lost(route[s], after[s]) /\ route[s].gen >= loss[s]
                           THEN route[s].gen ELSE loss[s]]
               owed == Intents(b) \cup Strays(b, loss1)
    <3>1. b \in Beats
      BY DEF IInv, BeatsOK
    <3>2. /\ route' = after /\ loss' = loss1
          /\ beats' = (beats \ {b}) \cup {WithStep(b, "retired", b.retired, owed)}
          /\ UNCHANGED <<hwm, dels, seen, workers, req, history>>
      BY Zenon DEF RetireBeat
    <3>3. after \in [Sandboxes -> Live \cup {NoRoute}] /\ \A s \in Sandboxes : Fenced(after[s])
      BY <3>1, <2>AfterRetirementLive, Zenon
    <3>4. ASSUME NEW s \in Sandboxes PROVE loss1[s] \in 0..MaxGeneration
      <4>1. route[s] \in Live \cup {NoRoute} /\ loss[s] \in 0..MaxGeneration
        BY Zenon DEF IInv, GatewayOK
      <4>2. route[s].gen \in 0..MaxGeneration
        <5>1. NoRoute.gen \in 0..MaxGeneration
          BY Zero DEF NoRoute
        <5> QED
          BY <4>1, <5>1, <1>GenRange, LiveParts, Zenon
      <4> QED
        BY <4>1, <4>2, Zenon
    <3>5. loss1 \in [Sandboxes -> 0..MaxGeneration]
      BY <3>4, Zenon
    <3>6. GatewayOK'
      <4> HIDE DEF after, loss1
      <4> QED
        BY <3>2, <3>3, <3>5 DEF IInv, GatewayOK, Fenced
    <3>7. owed \in SUBSET Owed
      <4> HIDE DEF loss1
      <4> QED
        BY <3>1, <3>5, <2>IntentsType, <2>StraysType, Zenon
    <3>8. WithStep(b, "retired", b.retired, owed) \in Beats
      <4>1. b.retired \in SUBSET (1..MaxBoot)
        BY <3>1, Zenon DEF Beats
      <4> HIDE DEF owed
      <4> QED
        BY <3>1, <3>7, <4>1, <2>WithStepType
    <3>9. BeatsOK'
      <4> HIDE DEF owed
      <4> QED
        BY <3>2, <3>8, Zenon DEF IInv, BeatsOK
    <3> QED
      BY <3>2, <3>6, <3>9, Zenon DEF IInv, SeenOK, WorkersOK, ReqOK, HistoryOK, workers, history
  \* The reaper takes up a typed delete.
  <2>StartReap. ASSUME NEW n \in Nodes, NEW o \in b.owed, StartReap(n, b, o) PROVE IInv'
    <3> USE <2>StartReap
    <3>1. o.s \in Sandboxes /\ o.held \in Held
      BY Zenon DEF IInv, BeatsOK, Beats, Owed
    <3>2. n \in Actors
      BY Zenon DEF Actors
    <3>3. ReqOK'
      BY <3>1, <3>2, <1>StartFresh, Zenon DEF StartReap, IInv, Verbs
    <3> QED
      BY <3>3, <1>ReqFrame, Zenon DEF StartReap
  \* What a reconciliation leaves of a route is a live route or none.
  <2>AfterReconcileLive. ASSUME NEW hb \in Beats, NEW s \in Sandboxes, NEW late \in BOOLEAN
        PROVE  /\ AfterReconcile(route[s], hb, s, late) \in Live \cup {NoRoute}
               /\ Fenced(AfterReconcile(route[s], hb, s, late))
    <3> USE <2>AfterReconcileLive
    <3> DEFINE r == route[s]
               c == Observed(r, hb, s)
    <3>1. /\ hb.boot \in 1..MaxBoot /\ hb.act \in Nat /\ hb.node \in Nodes
          /\ hb.inv[s].gen \in 0..MaxGeneration /\ hb.inv[s].snap \in 0..MaxCapture
      BY ZenonT(30) DEF Beats, Entries
    <3>2. r \in Live \cup {NoRoute} /\ Fenced(r) /\ Fenced(NoRoute)
      BY DEF IInv, GatewayOK, Fenced, NoRoute
    <3>3. CASE r \in Live
      <4>1. Detached(r) \in Live /\ Fenced(Detached(r))
        BY <3>3, <1>DetachedLive, Zenon
      <4>2. CASE Stable(hb, s) /\ hb.inv[s].gen # 0
        <5>1. c \in Live /\ Fenced(c)
          BY <3>3, <4>2, <1>ObservedLive, Zenon
        <5> QED
          BY <3>2, <4>1, <5>1, Zenon DEF AfterReconcile
      <4>3. CASE ~(Stable(hb, s) /\ hb.inv[s].gen # 0)
        BY <3>2, <4>1, <4>3, Zenon DEF AfterReconcile
      <4> QED
        BY <4>2, <4>3, Zenon
    <3>4. CASE r = NoRoute
      BY <3>2, <3>4, Nulls, Zenon DEF AfterReconcile
    <3> QED
      BY <3>2, <3>3, <3>4, Zenon
  \* reconcile_sandboxes_for_node.
  <2>ReconcileBeat. ASSUME ReconcileBeat(b) PROVE IInv'
    <3> USE <2>ReconcileBeat
    <3>1. b \in Beats
      BY DEF IInv, BeatsOK
    <3>2. BeatsOK'
      BY Zenon DEF ReconcileBeat, IInv, BeatsOK
    <3>3. CASE UNCHANGED route
      BY <3>2, <3>3, <2>BeatFrame, ZenonT(30) DEF ReconcileBeat, gateway, IInv, SeenOK
    <3>4. ASSUME NEW late \in SUBSET Sandboxes,
                 route' = [s \in Sandboxes |-> AfterReconcile(route[s], b, s, s \in late)]
          PROVE  IInv'
      <4>1. ASSUME NEW s \in Sandboxes
            PROVE  route'[s] \in Live \cup {NoRoute} /\ Fenced(route'[s])
        <5>1. (s \in late) \in BOOLEAN
          OBVIOUS
        <5> QED
          BY <3>1, <3>4, <5>1, <2>AfterReconcileLive, Zenon
      <4>2. route' \in [Sandboxes -> Live \cup {NoRoute}]
        BY <3>4, <4>1
      <4>3. GatewayOK'
        BY <4>1, <4>2, Zenon DEF ReconcileBeat, IInv, GatewayOK, Fenced
      <4> QED
        BY <3>2, <4>3 DEF ReconcileBeat, IInv, SeenOK, WorkersOK, ReqOK, HistoryOK, workers, history
    <3> QED
      BY <3>3, <3>4 DEF ReconcileBeat
  <2> QED
    BY <2>DropBeat, <2>ReceiveBeat, <2>RetireBeat, <2>StartReap, <2>ReconcileBeat, ZenonT(30) DEF
       BeatStep
\* Every step of a request handler preserves it,
<1>HandlerStepOK. ASSUME IInv, NEW h \in Handlers, HandlerStep(h) PROVE IInv'
  <2> USE <1>HandlerStepOK
  <2>1. h \in Actors
    BY Zenon DEF Actors
  <2> QED
    BY <2>1, <1>CreateStepOK, <1>LifecycleStepOK, <1>DeleteStepOK, <1>DetachStepOK, ZenonT(30) DEF HandlerStep
\* The steps of the workers,
<1>WorkerStepOK. ASSUME IInv, NEW n \in Nodes, WorkerStep(n) PROVE IInv'
  <2>1. n \in Actors
    BY DEF Actors
  <2> QED
    BY <1>WorkerStepOK, <2>1, <1>WorkerAloneOK, <1>DeleteStepOK, ZenonT(30) DEF WorkerStep
\* and the steps that change nothing.
<1>StutterOK. ASSUME IInv, UNCHANGED vars PROVE IInv'
  BY <1>StutterOK, <1>ReqUnchanged, <1>ReqFrame, Zenon DEF vars, IInv
<1> QED
  BY <1>HandlerStepOK, <1>WorkerStepOK, <1>BeatStepOK, <1>StutterOK, ZenonT(30) DEF Next

\* The invariant implies type correctness.
LEMMA InvTypeOK == IInv => TypeOK
<1> SUFFICES ASSUME IInv PROVE TypeOK
  BY ZenonT(30)
<1>1. Live \cup {NoRoute} \subseteq Route
  BY Bounds DEF Live, NoRoute, Route, LiveStates, Attachments
<1>2. Held \subseteq Route
  BY DEF Held, Route, LiveStates, Attachments
<1>3. Idle \in Requests
  <2>1. Idle.s \in Sandboxes
    BY FleetAssumption, Zenon DEF Idle
  <2> QED
    BY <1>1, <2>1, Nulls, Zenon DEF Idle, Requests
<1>4. Active \subseteq Requests
  BY <1>2, Zenon DEF Active, Requests, Verbs, Steps
<1>5. Absent \subseteq Requests
  BY <1>1, Nulls DEF Absent, Request, Requests
<1>6. Owed \subseteq [s: Sandboxes, held: Route]
  BY <1>2 DEF Owed
<1>7. Beats \subseteq Beat
  BY <1>6 DEF Beats, Beat
<1> QED
  BY SMTT(20), <1>1, <1>3, <1>4, <1>5, <1>7 DEF IInv, TypeOK, GatewayOK, SeenOK, WorkersOK, BeatsOK, ReqOK, HistoryOK

\* Whatever the operations, the backend and the bounds: every variable keeps its
\* type, from an empty fleet and from a running one.
THEOREM TypeCorrect == (Spec => []TypeOK) /\ (RunningSpec => []TypeOK)
<1>1. Spec => []IInv
  BY InitOK, NextOK, PTL DEF Spec
<1>2. RunningSpec => []IInv
  BY InitOK, NextOK, PTL DEF RunningSpec
<1> QED
  BY <1>1, <1>2, InvTypeOK, PTL

-----------------------------------------------------------------------------
(* The theorems on the ledger.                                             *)

\* The inductive invariant, from an empty fleet and from a running one.
THEOREM Invariance == (Spec => [](IInv /\ Ledger)) /\ (RunningSpec => [](IInv /\ Ledger))
<1>1. IInv /\ Ledger /\ [Next]_vars => (IInv /\ Ledger)'
  BY NextOK, LedgerStep
<1>2. Spec => [](IInv /\ Ledger)
  BY <1>1, InitOK, LedgerInit, PTL DEF Spec
<1>3. RunningSpec => [](IInv /\ Ledger)
  BY <1>1, InitOK, LedgerInit, PTL DEF RunningSpec
<1> QED
  BY <1>2, <1>3

\* With PostgreSQL a generation recorded as lost owns no route, whatever the
\* instance: LossIsFinal.
THEOREM LossesAreFinal ==
  ASSUME Distributed
  PROVE  (Spec => []LossIsFinal) /\ (RunningSpec => []LossIsFinal)
BY LossFact, Invariance, PTL

\* In both modes the activity revision of a route never goes back within one boot
\* of one incarnation's node: ActivityNeverRewinds.
THEOREM ActivityIsMonotone == (Spec => ActivityNeverRewinds) /\ (RunningSpec => ActivityNeverRewinds)
<1> DEFINE A == \A s \in Sandboxes :
                  /\ Exists(route[s]) /\ Same(route[s], route'[s])
                  /\ route'[s].boot = route[s].boot
                  => route'[s].act >= route[s].act
<1>1. ASSUME IInv, Ledger, [Next]_vars PROVE [A]_vars
  BY <1>1, NextOK, StepFacts, ZenonT(30)
<1> QED
  BY <1>1, Invariance, PTL DEF Spec, RunningSpec, ActivityNeverRewinds

\* With PostgreSQL a route that is gone comes back only as a new generation:
\* GoneStaysGone.
THEOREM GoneIsGone ==
  ASSUME Distributed
  PROVE  (Spec => GoneStaysGone) /\ (RunningSpec => GoneStaysGone)
<1> DEFINE A == \A s \in Sandboxes :
                  ~Exists(route[s]) /\ Exists(route'[s]) => route'[s].gen > hwm[s]
<1>1. ASSUME IInv, Ledger, [Next]_vars PROVE [A]_vars
  BY <1>1, NextOK, StepFacts, ZenonT(30)
<1> QED
  BY <1>1, Invariance, PTL DEF Spec, RunningSpec, GoneStaysGone

\* With PostgreSQL nothing clears or replaces a delete intent while its
\* incarnation has a route: DeleteIntentSticks.
THEOREM IntentsStick ==
  ASSUME Distributed
  PROVE  (Spec => DeleteIntentSticks) /\ (RunningSpec => DeleteIntentSticks)
<1> DEFINE A == \A s \in Sandboxes :
                  route[s].del # 0 /\ route'[s].gen = route[s].gen => route'[s].del = route[s].del
<1>1. ASSUME IInv, Ledger, [Next]_vars PROVE [A]_vars
  BY <1>1, NextOK, StepFacts, ZenonT(30)
<1> QED
  BY <1>1, Invariance, PTL DEF Spec, RunningSpec, DeleteIntentSticks

\* With PostgreSQL the gateway implements Incarnations, for every number of
\* sandboxes, nodes, handlers, reboots and retries: ImplementsIncarnations.
THEOREM Refinement ==
  ASSUME Distributed
  PROVE  Spec => ImplementsIncarnations
<1>1. Init => Authority!Init
  BY DEF Init, Start, NoRoute, Authority!Init
<1>2. IInv /\ Ledger /\ [Next]_vars => [Authority!Next]_(Authority!vars)
  BY NextOK, StepRefines, Zenon
<1> QED
  BY <1>1, <1>2, Invariance, PTL DEF Spec, ImplementsIncarnations, Authority!Spec
=============================================================================
