------------------------- MODULE FleetPresenceProofs -------------------------
(* What a heartbeat may take for gone, and what a receipt may bring back.     *)
(* The invariant Presence relates every route, every request under way and    *)
(* every heartbeat to what the workers have had: a worker that is vouched for  *)
(* either still has the sandbox or has had it and removed it, and a heartbeat  *)
(* that does not list it is older than the fence that vouches for it.         *)
EXTENDS FleetProofs

\* The activity revision a heartbeat sampled now reports at least.
Floor(n) == worker[n].act - worker[n].lag

\* Worker n has, or has had, incarnation g of sandbox s.
Came(n, s, g) == g # 0 /\ (box[n][s].gen = g \/ g <= tomb[n][s])

\* Revision a of boot bt vouches for that incarnation: while the worker has it, a
\* heartbeat of that boot without the sandbox was sampled before a.
Vouched(n, s, g, bt, a) ==
  /\ bt # 0 /\ Came(n, s, g)
  /\ box[n][s].gen = g =>
       \A b \in beats : b.node = n /\ b.boot = bt /\ b.inv[s].gen = 0 => b.act < a

\* What the heartbeats under way say of their workers.
Watched ==
  /\ \A n \in Nodes, s \in Sandboxes : box[n][s].st # "none" => box[n][s].gen # 0
  /\ \A b \in beats :
       /\ b.boot <= worker[b.node].boot
       /\ b.boot = worker[b.node].boot =>
            /\ b.act <= Floor(b.node)
            /\ \A s \in Sandboxes :
                 b.inv[s].gen = 0 /\ box[b.node][s].gen # 0 => b.act < Floor(b.node)
       /\ \A s \in Sandboxes :
            b.inv[s].gen # 0 => Vouched(b.node, s, b.inv[s].gen, b.boot, b.act)

\* A confirmed route names an incarnation its worker came to have, and its fence
\* vouches for it unless it was given up with the worker.
Backed(s, r) ==
  Exists(r) =>
    /\ Valid(r) /\ (r.ws = "detached" => r.del = 0)
    /\ r.state # "creating" =>
         /\ Came(r.node, s, r.gen)
         /\ r.ws # "detached" => Vouched(r.node, s, r.gen, r.boot, r.act)

\* The answer's fence vouches for the incarnation the request holds.
Receipt(x) == Vouched(x.held.node, x.s, x.held.gen, x.ans.boot, x.ans.act)

\* The same for what a request carries to its commit.
Covered(x) ==
  /\ x.op \in {"create", "replay", "get"} =>
       /\ x.held.ws = "detached" => x.held.del = 0
       /\ x.step = "recorded" => Came(x.held.node, x.s, x.held.gen) /\ x.ans.boot # 0
       /\ x.step = "answered" /\ x.ans.st \in {"running", "parked"} => Receipt(x)
  /\ x.op \in {"park", "wake"} =>
       /\ Came(x.held.node, x.s, x.held.gen)
       /\ \/ x.step = "sent"
          \/ x.op = "wake" /\ x.step = "answered" /\ x.ans.st = "parked"
          \/ Receipt(x)
  /\ x.op \in {"wake", "detach", "publish"} => x.held.ws = "attached"
  /\ x.op = "publish" /\ x.step = "valid" => Backed(x.s, x.held)

Presence ==
  /\ Watched
  /\ \A s \in Sandboxes : Backed(s, route[s])
  /\ \A h \in Actors : Covered(req[h])

-----------------------------------------------------------------------------
(* How workers and heartbeats may move.                                    *)

\* The floor of a boot never sinks.
Onward ==
  \A n \in Nodes :
    \/ worker'[n].boot > worker[n].boot
    \/ worker'[n].boot = worker[n].boot /\ Floor(n)' >= Floor(n)

\* A registration goes only behind its tombstone, and comes only above it with a
\* registry commit, which raises the floor.
Settled ==
  \A n \in Nodes, s \in Sandboxes :
    /\ tomb'[n][s] >= tomb[n][s]
    /\ box'[n][s].st # "none" => box'[n][s].gen # 0
    /\ \/ box'[n][s].gen = box[n][s].gen
       \/ box'[n][s].gen = 0 /\ box[n][s].gen <= tomb'[n][s]
       \/ /\ box[n][s].gen = 0 /\ box'[n][s].gen > tomb[n][s]
          /\ worker'[n].boot = worker[n].boot /\ Floor(n)' > Floor(n)

\* A heartbeat that was under way before, in whatever step of its application.
Kept(b) == \E c \in beats : c.node = b.node /\ c.boot = b.boot /\ c.act = b.act /\ c.inv = b.inv

\* A heartbeat sampled in this step.
Sampled(b) ==
  /\ b.boot = worker[b.node].boot /\ worker'[b.node].boot = worker[b.node].boot
  /\ Floor(b.node) <= b.act /\ b.act <= Floor(b.node)'
  /\ \A s \in Sandboxes : b.inv[s].gen = box[b.node][s].gen
  /\ UNCHANGED box

Timely == Onward /\ Settled /\ \A b \in beats' : Kept(b) \/ Sampled(b)

\* The numbers of a worker.
LEMMA FloorFacts ==
  ASSUME WorkersOK, NEW n \in Nodes
  PROVE  /\ worker[n].boot \in Nat /\ worker[n].boot # 0 /\ worker[n].act \in Nat
         /\ worker[n].lag \in Nat /\ Floor(n) \in Int /\ Floor(n) <= worker[n].act
         /\ \A s \in Sandboxes : box[n][s].gen \in Nat /\ tomb[n][s] \in Nat
<1>1. worker[n] \in [boot: 1..MaxBoot, act: Nat, lag: Nat]
  BY DEF WorkersOK
<1>2. \A s \in Sandboxes : box[n][s].gen \in Nat /\ tomb[n][s] \in Nat
  BY Bounds DEF WorkersOK, Boxes
<1> QED
  BY <1>1, <1>2, Bounds DEF Floor

\* The same after a step.
LEMMA FloorFactsNext ==
  ASSUME WorkersOK', NEW n \in Nodes
  PROVE  /\ worker'[n].boot \in Nat /\ worker'[n].boot # 0 /\ worker'[n].act \in Nat
         /\ worker'[n].lag \in Nat /\ Floor(n)' \in Int /\ Floor(n)' <= worker'[n].act
         /\ \A s \in Sandboxes : box'[n][s].gen \in Nat /\ tomb'[n][s] \in Nat
<1>1. worker'[n] \in [boot: 1..MaxBoot, act: Nat, lag: Nat]
  BY DEF WorkersOK
<1>2. \A s \in Sandboxes : box'[n][s].gen \in Nat /\ tomb'[n][s] \in Nat
  BY Bounds DEF WorkersOK, Boxes
<1> QED
  BY <1>1, <1>2, Bounds DEF Floor

\* What a worker once had it goes on having had.
LEMMA CameKept ==
  ASSUME WorkersOK, WorkersOK', Timely, NEW n \in Nodes, NEW s \in Sandboxes, NEW g \in Nat,
         Came(n, s, g)
  PROVE  /\ Came(n, s, g)'
         /\ box'[n][s].gen = g => box[n][s].gen = g
<1>1. /\ box[n][s].gen \in Nat /\ tomb[n][s] \in Nat
      /\ box'[n][s].gen \in Nat /\ tomb'[n][s] \in Nat
  BY FloorFacts, FloorFactsNext, Zenon
<1>2. /\ tomb'[n][s] >= tomb[n][s]
      /\ \/ box'[n][s].gen = box[n][s].gen
         \/ box'[n][s].gen = 0 /\ box[n][s].gen <= tomb'[n][s]
         \/ box[n][s].gen = 0 /\ box'[n][s].gen > tomb[n][s]
  BY Zenon DEF Timely, Settled
<1> QED
  BY <1>1, <1>2 DEF Came

\* A fence that vouches for an incarnation goes on doing so.
LEMMA VouchedKept ==
  ASSUME WorkersOK, WorkersOK', Timely, NEW n \in Nodes, NEW s \in Sandboxes, NEW g \in Nat,
         NEW bt, NEW a, Vouched(n, s, g, bt, a)
  PROVE  Vouched(n, s, g, bt, a)'
<1>1. Came(n, s, g)' /\ (box'[n][s].gen = g => box[n][s].gen = g) /\ g # 0 /\ bt # 0
  BY CameKept, Zenon DEF Vouched, Came
<1>2. ASSUME box'[n][s].gen = g, NEW b \in beats', b.node = n, b.boot = bt, b.inv[s].gen = 0
      PROVE  b.act < a
  <2>1. CASE Kept(b)
    BY <1>1, <1>2, <2>1, Zenon DEF Kept, Vouched
  <2>2. CASE Sampled(b)
    BY <1>1, <1>2, <2>2, Zenon DEF Sampled
  <2> QED
    BY <1>2, <2>1, <2>2, Zenon DEF Timely
<1> QED
  BY <1>1, <1>2, Zenon DEF Vouched

\* What the heartbeats say goes on being true.
LEMMA WatchedKept ==
  ASSUME WorkersOK, WorkersOK', BeatsOK, BeatsOK', Watched, Timely
  PROVE  Watched'
<1>1. \A n \in Nodes, s \in Sandboxes : box'[n][s].st # "none" => box'[n][s].gen # 0
  BY Zenon DEF Timely, Settled
<1>2. ASSUME NEW b \in beats'
      PROVE  /\ b.boot <= worker'[b.node].boot
             /\ b.boot = worker'[b.node].boot =>
                  /\ b.act <= Floor(b.node)'
                  /\ \A s \in Sandboxes :
                       b.inv[s].gen = 0 /\ box'[b.node][s].gen # 0 => b.act < Floor(b.node)'
             /\ \A s \in Sandboxes :
                  b.inv[s].gen # 0 => Vouched(b.node, s, b.inv[s].gen, b.boot, b.act)'
  <2> DEFINE n == b.node
  <2>1. /\ n \in Nodes /\ b.act \in Nat /\ b.boot \in Nat /\ b.boot # 0
        /\ \A s \in Sandboxes : b.inv[s].gen \in Nat
    BY <1>2, Bounds DEF BeatsOK, Beats, Entries
  <2>2. /\ worker[n].boot \in Nat /\ worker'[n].boot \in Nat
        /\ Floor(n) \in Int /\ Floor(n)' \in Int
    BY <2>1, FloorFacts, FloorFactsNext, Zenon
  <2>3. \/ worker'[n].boot > worker[n].boot
        \/ worker'[n].boot = worker[n].boot /\ Floor(n)' >= Floor(n)
    BY <2>1, Zenon DEF Timely, Onward
  <2>4. ASSUME Kept(b)
        PROVE  /\ b.boot <= worker'[n].boot
               /\ b.boot = worker'[n].boot =>
                    /\ b.act <= Floor(n)'
                    /\ \A s \in Sandboxes :
                         b.inv[s].gen = 0 /\ box'[n][s].gen # 0 => b.act < Floor(n)'
               /\ \A s \in Sandboxes :
                    b.inv[s].gen # 0 => Vouched(n, s, b.inv[s].gen, b.boot, b.act)
    <3>1. /\ b.boot <= worker[n].boot
          /\ b.boot = worker[n].boot =>
               /\ b.act <= Floor(n)
               /\ \A s \in Sandboxes :
                    b.inv[s].gen = 0 /\ box[n][s].gen # 0 => b.act < Floor(n)
          /\ \A s \in Sandboxes :
               b.inv[s].gen # 0 => Vouched(n, s, b.inv[s].gen, b.boot, b.act)
      BY <2>4, ZenonT(30) DEF Kept, Watched
    <3>2. b.boot <= worker'[n].boot
      BY <2>1, <2>2, <2>3, <3>1
    <3>3. ASSUME b.boot = worker'[n].boot
          PROVE  worker'[n].boot = worker[n].boot /\ b.act <= Floor(n) /\ Floor(n)' >= Floor(n)
      BY <2>1, <2>2, <2>3, <3>1, <3>3
    <3>4. ASSUME b.boot = worker'[n].boot, NEW s \in Sandboxes,
                 b.inv[s].gen = 0, box'[n][s].gen # 0
          PROVE  b.act < Floor(n)'
      <4>1. \/ box[n][s].gen # 0
            \/ Floor(n)' > Floor(n)
        BY <2>1, <3>4, Zenon DEF Timely, Settled
      <4> QED
        BY <2>1, <2>2, <3>1, <3>3, <3>4, <4>1
    <3>5. b.boot = worker'[n].boot => b.act <= Floor(n)'
      BY <2>1, <2>2, <3>3
    <3> QED
      BY <3>1, <3>2, <3>4, <3>5, Zenon
  <2>5. ASSUME Sampled(b)
        PROVE  /\ b.boot <= worker'[n].boot /\ b.act <= Floor(n)'
               /\ \A s \in Sandboxes : b.inv[s].gen = 0 => box'[n][s].gen = 0
               /\ \A s \in Sandboxes :
                    b.inv[s].gen # 0 => Vouched(n, s, b.inv[s].gen, b.boot, b.act)
    <3>1. b.boot <= worker'[n].boot /\ b.act <= Floor(n)'
      BY <2>1, <2>2, <2>5 DEF Sampled
    <3>2. \A s \in Sandboxes : b.inv[s].gen = 0 => box'[n][s].gen = 0
      BY <2>5, Zenon DEF Sampled
    <3>3. ASSUME NEW s \in Sandboxes, b.inv[s].gen # 0
          PROVE  Vouched(n, s, b.inv[s].gen, b.boot, b.act)
      <4>1. box[n][s].gen = b.inv[s].gen /\ b.boot = worker[n].boot /\ Floor(n) <= b.act
        BY <2>5, Zenon DEF Sampled
      <4>2. ASSUME NEW c \in beats, c.node = n, c.boot = b.boot, c.inv[s].gen = 0
            PROVE  c.act < b.act
        <5>1. c.act < Floor(n)
          BY <3>3, <4>1, <4>2, Zenon DEF Watched
        <5>2. c.act \in Nat
          BY <4>2 DEF BeatsOK, Beats
        <5> QED
          BY <2>1, <2>2, <4>1, <5>1, <5>2
      <4> QED
        BY <2>1, <3>3, <4>1, <4>2, Zenon DEF Vouched, Came
    <3> QED
      BY <3>1, <3>2, <3>3, Zenon
  <2>6. \A s \in Sandboxes : b.inv[s].gen # 0 => Vouched(n, s, b.inv[s].gen, b.boot, b.act)
    BY <1>2, <2>4, <2>5, Zenon DEF Timely
  <2>7. \A s \in Sandboxes : b.inv[s].gen # 0 => Vouched(n, s, b.inv[s].gen, b.boot, b.act)'
    BY <2>1, <2>6, VouchedKept, Zenon
  <2> QED
    BY <1>2, <2>4, <2>5, <2>7, Zenon DEF Timely
<1> QED
  BY <1>1, <1>2, Zenon DEF Watched

\* A step of the gateway leaves the workers alone and samples no heartbeat.
LEMMA QuietTimely ==
  ASSUME WorkersOK, Watched, UNCHANGED workers, \A b \in beats' : Kept(b)
  PROVE  Timely
<1>1. worker' = worker /\ box' = box /\ tomb' = tomb
  BY DEF workers
<1>2. Onward
  <2> SUFFICES ASSUME NEW n \in Nodes PROVE Floor(n)' >= Floor(n)
    BY <1>1, Zenon DEF Onward
  <2> QED
    BY <1>1, FloorFacts DEF Floor
<1>3. Settled
  <2> SUFFICES ASSUME NEW n \in Nodes, NEW s \in Sandboxes
               PROVE  tomb'[n][s] >= tomb[n][s] /\ (box'[n][s].st # "none" => box'[n][s].gen # 0)
    BY <1>1, Zenon DEF Settled
  <2> QED
    BY <1>1, FloorFacts DEF Watched
<1> QED
  BY <1>2, <1>3, Zenon DEF Timely

\* A step that does not touch the heartbeats either.
LEMMA StillTimely ==
  ASSUME WorkersOK, Watched, UNCHANGED <<workers, beats>>
  PROVE  Timely
<1>1. \A b \in beats' : Kept(b)
  BY Zenon DEF Kept
<1> QED
  BY <1>1, QuietTimely, Zenon

\* A route stays backed,
LEMMA BackedKept ==
  ASSUME WorkersOK, WorkersOK', Timely, NEW s \in Sandboxes, NEW r,
         Exists(r) => r.node \in Nodes /\ r.gen \in Nat, Backed(s, r)
  PROVE  Backed(s, r)'
<1>1. ASSUME Exists(r), r.state # "creating"
      PROVE  /\ Came(r.node, s, r.gen)'
             /\ r.ws # "detached" => Vouched(r.node, s, r.gen, r.boot, r.act)'
  BY <1>1, CameKept, VouchedKept, Zenon DEF Backed
<1> QED
  BY <1>1, Zenon DEF Backed

\* and a request covered.
LEMMA CoveredKept ==
  ASSUME WorkersOK, WorkersOK', Timely, NEW x \in Active \cup Absent \cup {Idle}, Covered(x)
  PROVE  Covered(x)'
<1>1. CASE x \in Active
  <2>1. x.s \in Sandboxes /\ x.held.node \in Nodes /\ x.held.gen \in Nat
    BY <1>1, Bounds DEF Active, Held
  <2>2. Came(x.held.node, x.s, x.held.gen) => Came(x.held.node, x.s, x.held.gen)'
    BY <2>1, CameKept, Zenon
  <2>3. Receipt(x) => Receipt(x)'
    BY <2>1, VouchedKept, Zenon DEF Receipt
  <2>4. Backed(x.s, x.held) => Backed(x.s, x.held)'
    BY <2>1, BackedKept, Zenon
  <2> QED
    BY <2>2, <2>3, <2>4, ZenonT(30) DEF Covered
<1>2. CASE x \in Absent \cup {Idle}
  <2>1. x.op \in {"none", "delete"}
    BY <1>2, Nulls DEF Absent, Request
  <2> QED
    BY <2>1, ZenonT(30) DEF Covered
<1> QED
  BY <1>1, <1>2

\* A step keeps the presence invariant when every route and every request it
\* leaves was backed and covered before it.
LEMMA PresenceStep ==
  ASSUME IInv, IInv', Presence, Timely,
         \A t \in Sandboxes : \E r : route'[t] = r /\ Backed(t, r),
         \A i \in Actors : \E x : req'[i] = x /\ (Covered(x) \/ Covered(x)')
  PROVE  Presence'
<1>1. Watched'
  BY WatchedKept, Zenon DEF IInv, Presence
<1>2. ASSUME NEW t \in Sandboxes PROVE Backed(t, route[t])'
  <2>1. PICK r : route'[t] = r /\ Backed(t, r)
    BY <1>2
  <2>2. Exists(r) => r.node \in Nodes /\ r.gen \in Nat
    BY <2>1, Bounds DEF IInv, GatewayOK, Live, NoRoute, Exists
  <2>3. Backed(t, r)'
    BY <2>1, <2>2, BackedKept, Zenon DEF IInv
  <2> QED
    BY <2>1, <2>3, ZenonT(30) DEF Backed, Came, Vouched, Exists, Valid, IsPortable
<1>3. ASSUME NEW i \in Actors PROVE Covered(req[i])'
  <2>1. PICK x : req'[i] = x /\ (Covered(x) \/ Covered(x)')
    BY <1>3
  <2>2. x \in Active \cup Absent \cup {Idle}
    BY <2>1, Zenon DEF IInv, ReqOK
  <2>3. Covered(x)'
    BY <2>1, <2>2, CoveredKept, Zenon DEF IInv
  <2> QED
    BY <2>1, <2>3, ZenonT(60) DEF Covered, Receipt, Backed, Came, Vouched, Exists, Valid, IsPortable
<1> QED
  BY <1>1, <1>2, <1>3, Zenon DEF Presence

\* The step of one actor, with or without a write.
LEMMA ActorStep ==
  ASSUME IInv, IInv', Presence, Timely,
         NEW s \in Sandboxes, NEW r,
         UNCHANGED route \/ (route' = [route EXCEPT ![s] = r] /\ Backed(s, r)),
         NEW h \in Actors, NEW x, req' = [req EXCEPT ![h] = x], Covered(x)
  PROVE  Presence'
<1>1. ASSUME NEW t \in Sandboxes PROVE \E q : route'[t] = q /\ Backed(t, q)
  <2>1. route \in [Sandboxes -> Live \cup {NoRoute}]
    BY DEF IInv, GatewayOK
  <2>2. CASE route'[t] = route[t]
    BY <2>2, Zenon DEF Presence
  <2>3. CASE t = s /\ route'[t] = r /\ Backed(s, r)
    BY <2>3, Zenon
  <2> QED
    BY <2>1, <2>2, <2>3, Zenon
<1>2. ASSUME NEW i \in Actors PROVE \E y : req'[i] = y /\ Covered(y)
  <2>1. req'[i] = x \/ req'[i] = req[i]
    BY DEF IInv, ReqOK
  <2> QED
    BY <2>1, Zenon DEF Presence
<1> QED
  BY <1>1, <1>2, PresenceStep, Zenon

\* The step of one handler at the gateway.
LEMMA GatewayStep ==
  ASSUME IInv, IInv', Presence, UNCHANGED <<workers, beats>>,
         NEW s \in Sandboxes, NEW r,
         UNCHANGED route \/ (route' = [route EXCEPT ![s] = r] /\ Backed(s, r)),
         NEW h \in Actors, NEW x, req' = [req EXCEPT ![h] = x], Covered(x)
  PROVE  Presence'
<1>1. Timely
  BY StillTimely, Zenon DEF IInv, Presence
<1> QED
  BY <1>1, ActorStep, Zenon

\* A step of one actor that writes no route, at the gateway or at a worker.
LEMMA RequestStep ==
  ASSUME IInv, IInv', Presence, Timely, UNCHANGED route,
         NEW h \in Actors, NEW x, req' = [req EXCEPT ![h] = x], Covered(x)
  PROVE  Presence'
<1>1. \A t \in Sandboxes : \E r : route'[t] = r /\ Backed(t, r)
  BY Zenon DEF Presence
<1>2. ASSUME NEW i \in Actors PROVE \E y : req'[i] = y /\ Covered(y)
  <2>1. req'[i] = x \/ req'[i] = req[i]
    BY DEF IInv, ReqOK
  <2> QED
    BY <2>1, Zenon DEF Presence
<1> QED
  BY <1>1, <1>2, PresenceStep, Zenon

\* The activity revision a worker takes after a record vouches for what it had.
LEMMA FreshReceipt ==
  ASSUME IInv, Presence, NEW n \in Nodes, NEW s \in Sandboxes, NEW g, Came(n, s, g)
  PROVE  Vouched(n, s, g, worker[n].boot, worker[n].act + 1)
<1>1. worker[n].boot # 0 /\ Floor(n) <= worker[n].act /\ Floor(n) \in Int /\ worker[n].act \in Nat
  BY FloorFacts, Zenon DEF IInv
<1>2. ASSUME NEW b \in beats, b.node = n, b.boot = worker[n].boot PROVE b.act < worker[n].act + 1
  <2>1. b.act \in Nat
    BY <1>2 DEF IInv, BeatsOK, Beats
  <2>2. b.act <= Floor(n)
    BY <1>2, Zenon DEF Presence, Watched
  <2> QED
    BY <1>1, <2>1, <2>2
<1> QED
  BY <1>1, <1>2, Zenon DEF Vouched

\* A request that ended, and one that does not concern the workers' incarnations.
LEMMA CoveredFree ==
  /\ Covered(Idle)
  /\ \A step, s, held, ans : \A op \in {"delete", "reap", "evict"} :
       Covered(Request(op, step, s, held, ans))
<1>1. Covered(Idle)
  BY Nulls, ZenonT(30) DEF Covered
<1>2. ASSUME NEW step, NEW s, NEW held, NEW ans, NEW op \in {"delete", "reap", "evict"}
      PROVE  Covered(Request(op, step, s, held, ans))
  <2>1. Request(op, step, s, held, ans).op = op
    BY DEF Request
  <2> QED
    BY <2>1, <1>2, ZenonT(30) DEF Covered
<1> QED
  BY <1>1, <1>2, Zenon

-----------------------------------------------------------------------------
(* Which requests are covered and which routes are backed.                 *)

\* A create, a replay or a record read.
LEMMA CoveredCreate ==
  ASSUME NEW op \in {"create", "replay", "get"}, NEW step, NEW s, NEW held, NEW ans,
         held.ws = "detached" => held.del = 0,
         step = "recorded" => Came(held.node, s, held.gen) /\ ans.boot # 0,
         step = "answered" /\ ans.st \in {"running", "parked"}
           => Vouched(held.node, s, held.gen, ans.boot, ans.act)
  PROVE  Covered(Request(op, step, s, held, ans))
<1> DEFINE x == Request(op, step, s, held, ans)
<1>1. x.op = op /\ x.step = step /\ x.s = s /\ x.held = held /\ x.ans = ans
  BY DEF Request
<1>2. op \notin {"park", "wake", "detach", "publish"}
  OBVIOUS
<1> QED
  BY <1>1, <1>2, ZenonT(30) DEF Covered, Receipt

\* A park or a wake.
LEMMA CoveredPark ==
  ASSUME NEW op \in {"park", "wake"}, NEW step, NEW s, NEW held, NEW ans,
         op = "wake" => held.ws = "attached", Came(held.node, s, held.gen),
         \/ step = "sent"
         \/ op = "wake" /\ step = "answered" /\ ans.st = "parked"
         \/ Vouched(held.node, s, held.gen, ans.boot, ans.act)
  PROVE  Covered(Request(op, step, s, held, ans))
<1> DEFINE x == Request(op, step, s, held, ans)
<1>1. x.op = op /\ x.step = step /\ x.s = s /\ x.held = held /\ x.ans = ans
  BY DEF Request
<1>2. op \notin {"create", "replay", "get", "detach", "publish"}
  OBVIOUS
<1> QED
  BY <1>1, <1>2, ZenonT(30) DEF Covered, Receipt

\* A detach or a publication.
LEMMA CoveredDetach ==
  ASSUME NEW op \in {"detach", "publish"}, NEW step, NEW s, NEW held, NEW ans,
         held.ws = "attached", op = "publish" /\ step = "valid" => Backed(s, held)
  PROVE  Covered(Request(op, step, s, held, ans))
<1> DEFINE x == Request(op, step, s, held, ans)
<1>1. x.op = op /\ x.step = step /\ x.s = s /\ x.held = held /\ x.ans = ans
  BY DEF Request
<1>2. op \notin {"create", "replay", "get", "park", "wake"}
  OBVIOUS
<1> QED
  BY <1>1, <1>2, ZenonT(30) DEF Covered

\* No route, and one that is still to be confirmed.
LEMMA BackedNew ==
  /\ \A s : Backed(s, NoRoute)
  /\ \A s, g, n, b, a : Backed(s, Placed(g, n, b, a)) /\ Placed(g, n, b, a).ws = "attached"
BY DEF Backed, NoRoute, Placed, Exists, Valid

\* A route that keeps the incarnation and the fence of a backed one.
LEMMA BackedLike ==
  ASSUME NEW s, NEW r, NEW q, Backed(s, r), Exists(r), r.ws # "detached", q.ws # "detached",
         q.gen = r.gen, q.node = r.node, q.boot = r.boot, q.act = r.act, Valid(q),
         r.state = "creating" => q.state = "creating"
  PROVE  Backed(s, q)
BY ZenonT(30) DEF Backed

\* A route with the fence of a receipt or of a heartbeat.
LEMMA BackedReceipt ==
  ASSUME NEW s, NEW q, Vouched(q.node, s, q.gen, q.boot, q.act), Valid(q),
         q.ws = "detached" => q.del = 0
  PROVE  Backed(s, q)
BY ZenonT(30) DEF Backed, Vouched

\* A portable route that is given up with its worker.
LEMMA BackedDetached ==
  ASSUME NEW s, NEW r, Backed(s, r), Recoverable(r)
  PROVE  Backed(s, Detached(r))
<1> DEFINE q == Detached(r)
<1>1. /\ q.gen = r.gen /\ q.node = r.node /\ q.state = r.state /\ q.ws = "detached"
      /\ q.del = r.del /\ q.snap = r.snap
  BY DEF Detached
<1>2. Exists(r) /\ r.state # "creating" /\ r.del = 0 /\ IsPortable(r)
  BY DEF Recoverable, IsPortable, Exists
<1> QED
  BY <1>1, <1>2, ZenonT(30) DEF Backed, Valid, IsPortable

\* What a route that exists says of its worker.
LEMMA RouteFacts ==
  ASSUME Presence, NEW s \in Sandboxes, Exists(route[s])
  PROVE  /\ Backed(s, route[s]) /\ Valid(route[s]) /\ (route[s].ws = "detached" => route[s].del = 0)
         /\ route[s].state # "creating" => Came(route[s].node, s, route[s].gen)
BY Zenon DEF Presence, Backed

\* A step of a handler that only moves its request.
LEMMA MoveStep ==
  ASSUME IInv, IInv', Presence, UNCHANGED <<gateway, workers, beats>>,
         NEW h \in Actors, NEW x, req' = [req EXCEPT ![h] = x], Covered(x)
  PROVE  Presence'
<1>1. UNCHANGED route /\ Timely
  BY StillTimely, Zenon DEF gateway, IInv, Presence
<1> QED
  BY <1>1, RequestStep, Zenon

\* A commit that ends its request, whether or not it writes.
LEMMA CommitStep ==
  ASSUME IInv, IInv', Presence, UNCHANGED <<workers, beats>>, NEW h \in Actors, Finish(h),
         NEW s \in Sandboxes, NEW r, (Write(s, r) /\ Backed(s, r)) \/ UNCHANGED gateway
  PROVE  Presence'
<1>1. UNCHANGED route \/ (route' = [route EXCEPT ![s] = r] /\ Backed(s, r))
  <2>1. UNCHANGED gateway => UNCHANGED route
    BY Zenon DEF gateway
  <2>2. Write(s, r) => route' = [route EXCEPT ![s] = r]
    BY Zenon DEF Write
  <2> QED
    BY <2>1, <2>2, Zenon
<1>2. req' = [req EXCEPT ![h] = Idle] /\ Covered(Idle)
  BY CoveredFree, Zenon DEF Finish
<1> QED
  BY <1>1, <1>2, GatewayStep, Zenon

\* A request under way is covered.
LEMMA ReqFacts ==
  ASSUME IInv, Presence, NEW h \in Actors, req[h].step \notin {"idle", "absent"}
  PROVE  /\ Covered(req[h]) /\ req[h].s \in Sandboxes /\ req[h].held.node \in Nodes
         /\ req[h].held \in Held /\ req[h].ans \in Answers
BY ActiveReq, Zenon DEF IInv, Presence

-----------------------------------------------------------------------------
(* The steps of the handlers at the gateway.                               *)

\* A removal that ends its request, whether or not it finds its route.
LEMMA RemoveStep ==
  ASSUME IInv, IInv', Presence, UNCHANGED <<workers, beats>>, NEW h \in Actors, Finish(h),
         NEW s \in Sandboxes, Remove(s) \/ UNCHANGED gateway
  PROVE  Presence'
<1>1. UNCHANGED route \/ (route' = [route EXCEPT ![s] = NoRoute] /\ Backed(s, NoRoute))
  <2>1. UNCHANGED gateway => UNCHANGED route
    BY Zenon DEF gateway
  <2> QED
    BY <2>1, BackedNew, Zenon DEF Remove
<1>2. req' = [req EXCEPT ![h] = Idle] /\ Covered(Idle)
  BY CoveredFree, Zenon DEF Finish
<1> QED
  BY <1>1, <1>2, GatewayStep, Zenon

\* The start of a request, what only it remembers, the writes of a create and
\* the removals.
LEMMA CreatePresent ==
  ASSUME IInv, IInv', Presence, NEW h \in Actors
  PROVE  \/ \E s \in Sandboxes, n \in Nodes : ChooseNode(h, s, n)
         \/ \E s \in Sandboxes : \/ StartReplay(h, s) \/ StartPark(h, s) \/ ReadAbsent(h, s)
                                 \/ StartPublish(h, s)
         \/ WorkerReject(h) \/ WorkerWakeFails(h) \/ Forget(h)
         \/ ReadRecord(h) \/ DescribePark(h) \/ ValidateReceipt(h)
         \/ Allocate(h) \/ ConfirmCreate(h) \/ \E n \in Nodes : Retarget(h, n)
         \/ AbandonCreate(h) \/ DeleteAbsent(h) \/ CommitDelete(h)
         => Presence'
\* Placement, a record read and an absent DELETE start without a claim.
<1>Starts. ASSUME NEW s \in Sandboxes,
             (\E n \in Nodes : ChooseNode(h, s, n)) \/ StartReplay(h, s) \/ ReadAbsent(h, s)
      PROVE  Presence'
  <2> USE <1>Starts
  <2>1. ASSUME NEW n \in Nodes, ChooseNode(h, s, n) PROVE Presence'
    <3> DEFINE p == Placed(0, n, seen[n].boot, seen[n].act)
    <3>1. Covered(Request("create", "chosen", s, p, NoAnswer))
      BY BackedNew, CoveredCreate, Zenon
    <3> QED
      BY <2>1, <3>1, MoveStep, Zenon DEF ChooseNode
  <2>2. CASE StartReplay(h, s)
    <3>1. Covered(Request("get", "sent", s, route[s], NoAnswer))
      BY <2>2, RouteFacts, CoveredCreate, Zenon DEF StartReplay
    <3> QED
      BY <2>2, <3>1, MoveStep, Zenon DEF StartReplay
  <2>3. CASE ReadAbsent(h, s)
    <3>1. Covered(Request("delete", "absent", s, NoRoute, NoAnswer))
      BY CoveredFree, Zenon
    <3> QED
      BY <2>3, <3>1, MoveStep, Zenon DEF ReadAbsent
  <2> QED
    BY <2>1, <2>2, <2>3, Zenon
\* A park starts from a confirmed route, a publication from an attached one.
<1>StartPark. ASSUME NEW s \in Sandboxes, StartPark(h, s) \/ StartPublish(h, s)
      PROVE  Presence'
  <2> USE <1>StartPark
  <2>1. CASE StartPark(h, s)
    <3>1. Exists(route[s]) /\ route[s].state # "creating"
      BY <2>1 DEF StartPark, Exists
    <3>2. Covered(Request("park", "sent", s, route[s], NoAnswer))
      BY <3>1, RouteFacts, CoveredPark, Zenon
    <3> QED
      BY <2>1, <3>2, MoveStep, Zenon DEF StartPark
  <2>2. CASE StartPublish(h, s)
    <3>1. Identity(route[s]).ws = "attached"
      BY <2>2 DEF StartPublish, Identity
    <3>2. Covered(Request("publish", "sent", s, Identity(route[s]), NoAnswer))
      BY <3>1, CoveredDetach, Zenon
    <3> QED
      BY <2>2, <3>2, MoveStep, Zenon DEF StartPublish
  <2> QED
    BY <2>1, <2>2
\* Forgotten requests, and the answers that make no claim.
<1>Refused. ASSUME Forget(h) \/ WorkerReject(h) \/ WorkerWakeFails(h) PROVE Presence'
  <2> USE <1>Refused
  <2>1. CASE Forget(h)
    BY <2>1, CoveredFree, MoveStep, Zenon DEF Forget, Finish
  <2>2. CASE WorkerReject(h)
    <3>1. req[h].op \in {"create", "replay", "get"} /\ req[h].step = "sent"
      BY <2>2 DEF WorkerReject, Creating
    <3>2. req[h].held.ws = "detached" => req[h].held.del = 0
      BY <3>1, ReqFacts, Zenon DEF Covered
    <3>3. Says("rejected", 0).st \notin {"running", "parked"}
      BY Refusals
    <3>4. Covered(Request(req[h].op, "answered", req[h].s, req[h].held, Says("rejected", 0)))
      BY <3>1, <3>2, <3>3, CoveredCreate, Zenon
    <3> QED
      BY <2>2, <3>4, MoveStep, Zenon DEF WorkerReject, Goto
  <2>3. CASE WorkerWakeFails(h)
    <3>1. req[h].op = "wake" /\ req[h].step = "sent"
      BY <2>3, Zenon DEF WorkerWakeFails, At
    <3>2. req[h].held.ws = "attached" /\ Came(req[h].held.node, req[h].s, req[h].held.gen)
      BY <3>1, ReqFacts, Zenon DEF Covered
    <3>3. Says("parked", 0).st = "parked"
      BY DEF Says
    <3>4. Covered(Request(req[h].op, "answered", req[h].s, req[h].held, Says("parked", 0)))
      BY <3>1, <3>2, <3>3, CoveredPark, Zenon
    <3> QED
      BY <2>3, <3>4, MoveStep, Zenon DEF WorkerWakeFails, Goto
  <2> QED
    BY ZenonT(30), <2>1, <2>2, <2>3
\* A record that was read is of an incarnation the worker has.
<1>ReadRecord. ASSUME ReadRecord(h) PROVE Presence'
  <2> USE <1>ReadRecord
  <2> DEFINE s == req[h].s
             held == req[h].held
             b == box[held.node][s]
             a == Answer(b.st, Boot(held.node), 0, Published(b))
  <2>1. req[h].op = "get" /\ req[h].step = "sent" /\ UNCHANGED <<gateway, workers, beats>>
    BY Zenon DEF ReadRecord, At
  <2>2. /\ s \in Sandboxes /\ held.node \in Nodes /\ (held.ws = "detached" => held.del = 0)
    BY <2>1, ReqFacts, Zenon DEF Covered
  <2>3. CASE b.gen = held.gen /\ b.st \in {"running", "parked"}
    <3>1. b.gen # 0
      BY <2>2, <2>3, Zenon DEF Presence, Watched
    <3>2. Came(held.node, s, held.gen)
      BY <2>3, <3>1, Zenon DEF Came
    <3>3. a.boot = worker[held.node].boot
      BY DEF Answer, Boot
    <3>4. a.boot # 0
      BY <2>2, <3>3, FloorFacts, Zenon DEF IInv
    <3>5. Covered(Request(req[h].op, "recorded", s, held, a))
      BY <2>1, <2>2, <3>2, <3>4, CoveredCreate, Zenon
    <3> QED
      BY <2>1, <2>3, <3>5, MoveStep, Zenon DEF ReadRecord, Goto
  <2>4. CASE ~(b.gen = held.gen /\ b.st \in {"running", "parked"})
    <3> DEFINE x == IF held.state = "creating" THEN Request("replay", "sent", s, held, NoAnswer) ELSE Idle
    <3>1. Covered(Request("replay", "sent", s, held, NoAnswer))
      BY <2>2, CoveredCreate, Zenon
    <3>2. Covered(x)
      BY <3>1, CoveredFree, Zenon
    <3>3. req' = [req EXCEPT ![h] = x]
      BY <2>4, Zenon DEF ReadRecord
    <3> HIDE DEF x
    <3> QED
      BY <2>1, <3>2, <3>3, MoveStep, Zenon
  <2> QED
    BY <2>3, <2>4, Zenon
\* A park's description and a validated receipt keep the fence of the answer.
<1>Receipt. ASSUME DescribePark(h) \/ ValidateReceipt(h) PROVE Presence'
  <2> USE <1>Receipt
  <2> DEFINE s == req[h].s
             held == req[h].held
             a == req[h].ans
  <2>1. CASE DescribePark(h)
    <3> DEFINE d == Answer(a.st, a, 0, Published(box[held.node][s]))
    <3>1. req[h].op = "park" /\ req[h].step = "recorded"
      BY <2>1, Zenon DEF DescribePark, At
    <3>2. Came(held.node, s, held.gen) /\ Vouched(held.node, s, held.gen, a.boot, a.act)
      BY <3>1, ReqFacts, Zenon DEF Covered, Receipt
    <3>3. d.boot = a.boot /\ d.act = a.act
      BY DEF Answer
    <3>4. Covered(Request("park", "answered", s, held, d))
      BY <3>2, <3>3, CoveredPark, Zenon
    <3> QED
      BY <2>1, <3>1, <3>4, MoveStep, Zenon DEF DescribePark, Goto
  <2>2. CASE ValidateReceipt(h)
    <3>1. /\ req[h].op \in {"park", "wake"} /\ req[h].step = "answered"
          /\ UNCHANGED <<gateway, workers, beats>>
          /\ Goto(h, "valid", held, a) \/ Finish(h)
      BY <2>2, Zenon DEF ValidateReceipt
    <3>2. ~(req[h].op = "wake" /\ a.st = "parked")
      BY <2>2 DEF ValidateReceipt
    <3>3. /\ Came(held.node, s, held.gen) /\ (req[h].op = "wake" => held.ws = "attached")
          /\ Vouched(held.node, s, held.gen, a.boot, a.act)
      BY <3>1, <3>2, ReqFacts, Zenon DEF Covered, Receipt
    <3>4. Covered(Request(req[h].op, "valid", s, held, a))
      BY <3>1, <3>3, CoveredPark, Zenon
    <3> QED
      BY <3>1, <3>4, CoveredFree, MoveStep, Zenon DEF Goto, Finish
  <2> QED
    BY ZenonT(30), <2>1, <2>2
\* A fresh incarnation claims nothing, and a replay takes the route as it is.
<1>Allocate. ASSUME Allocate(h) PROVE Presence'
  <2> USE <1>Allocate
  <2> DEFINE s == req[h].s
             to == req[h].held
             r == Placed(NextGeneration(s), to.node, to.boot, to.act)
  <2>1. /\ req[h].op = "create" /\ req[h].step = "chosen" /\ UNCHANGED <<workers, beats>>
    BY Zenon DEF Allocate, At
  <2>2. s \in Sandboxes
    BY <2>1, ReqFacts, Zenon
  <2>3. CASE Exists(route[s])
    <3>1. Covered(Request("replay", "sent", s, route[s], NoAnswer))
      BY <2>2, <2>3, RouteFacts, CoveredCreate, Zenon
    <3> QED
      BY <2>3, <3>1, MoveStep, Zenon DEF Allocate
  <2>4. CASE ~Exists(route[s])
    <3>1. Backed(s, r) /\ r.ws = "attached"
      BY BackedNew, Zenon
    <3>2. Covered(Request(req[h].op, "sent", s, r, NoAnswer))
      BY <2>1, <3>1, CoveredCreate, Zenon
    <3>3. Write(s, r) /\ Goto(h, "sent", r, NoAnswer)
      BY <2>4, Zenon DEF Allocate
    <3> HIDE DEF r
    <3> QED
      BY <2>1, <2>2, <3>1, <3>2, <3>3, GatewayStep, Zenon DEF Write, Goto
  <2> QED
    BY ZenonT(30), <2>3, <2>4
\* A confirmed create is backed by its receipt.
<1>ConfirmCreate. ASSUME ConfirmCreate(h) PROVE Presence'
  <2> USE <1>ConfirmCreate
  <2> DEFINE s == req[h].s
             held == req[h].held
             a == req[h].ans
             c == CreateReceipt(held, a)
  <2>1. /\ req[h].op \in {"create", "replay", "get"} /\ req[h].step = "answered"
        /\ a.st \in {"running", "parked"} /\ Finish(h) /\ UNCHANGED <<workers, beats>>
    BY SMTT(20) DEF ConfirmCreate, Creating, At
  <2>2. s \in Sandboxes /\ (held.ws = "detached" => held.del = 0)
        /\ Vouched(held.node, s, held.gen, a.boot, a.act)
    BY <2>1, ReqFacts, Zenon DEF Covered, Receipt
  <2>3. c.node = held.node /\ c.gen = held.gen /\ c.boot = a.boot /\ c.act = a.act
        /\ c.ws = held.ws /\ c.del = held.del
    BY DEF CreateReceipt, Edit
  <2>4. (Write(s, c) /\ Valid(c)) \/ UNCHANGED gateway
    BY Zenon DEF ConfirmCreate
  <2> HIDE DEF c
  <2>5. Valid(c) => Backed(s, c)
    BY <2>2, <2>3, BackedReceipt, Zenon
  <2> QED
    BY <2>1, <2>2, <2>4, <2>5, CommitStep, Zenon
\* A retarget places a fresh incarnation; an abandoned create removes one.
<1>Retarget. ASSUME NEW n \in Nodes, Retarget(h, n) PROVE Presence'
  <2> USE <1>Retarget
  <2> DEFINE s == req[h].s
             old == seen[n].retired
  <2>1. req[h].op = "create" /\ req[h].step = "answered" /\ UNCHANGED <<workers, beats>>
    BY Zenon DEF Retarget, At
  <2>2. s \in Sandboxes
    BY <2>1, ReqFacts, Zenon
  <2>3. ASSUME NEW b, NEW r, r = Placed(NextGeneration(s), n, b, IF b \in old THEN 0 ELSE seen[n].act),
               Write(s, r), Goto(h, "sent", r, NoAnswer)
        PROVE  Presence'
    <3>1. Backed(s, r) /\ r.ws = "attached"
      BY <2>3, BackedNew, Zenon
    <3>2. Covered(Request(req[h].op, "sent", s, r, NoAnswer))
      BY <2>1, <3>1, CoveredCreate, Zenon
    <3> QED
      BY <2>1, <2>2, <2>3, <3>1, <3>2, GatewayStep, Zenon DEF Write, Goto
  <2>4. CASE Finish(h) /\ UNCHANGED gateway
    BY <2>1, <2>2, <2>4, RemoveStep, Zenon
  <2> QED
    BY <2>3, <2>4, Zenon DEF Retarget
\* Removals.
<1>Removals. ASSUME AbandonCreate(h) \/ DeleteAbsent(h) \/ CommitDelete(h) PROVE Presence'
  <2> USE <1>Removals
  <2> DEFINE s == req[h].s
  <2>1. s \in Sandboxes
    <3>1. req[h] # Idle
      BY ZenonT(30), Nulls DEF AbandonCreate, DeleteAbsent, CommitDelete, Creating, At
    <3> QED
      BY <3>1 DEF IInv, ReqOK, Active, Absent, Request
  <2>2. /\ Remove(s) \/ UNCHANGED gateway
        /\ Finish(h) /\ UNCHANGED <<workers, beats>>
    <3>1. CASE AbandonCreate(h)
      BY <3>1, Zenon DEF AbandonCreate
    <3>2. CASE DeleteAbsent(h)
      BY <3>2, Zenon DEF DeleteAbsent
    <3>3. CASE CommitDelete(h)
      BY <3>3 DEF CommitDelete
    <3> QED
      BY <3>1, <3>2, <3>3
  <2> QED
    BY <2>1, <2>2, RemoveStep, Zenon
<1> QED
  BY <1>Starts, <1>StartPark, <1>Refused, <1>ReadRecord, <1>Receipt, <1>Allocate,
     <1>ConfirmCreate, <1>Retarget, <1>Removals, ZenonT(30)

\* The other writes of a handler.
LEMMA CommitPresent ==
  ASSUME IInv, IInv', Presence, NEW h \in Actors
  PROVE  \/ \E s \in Sandboxes : StartWake(h, s) \/ PrepareDelete(h, s) \/ StartDetach(h, s)
         \/ CommitPark(h) \/ CommitWake(h) \/ RollBackWake(h)
         \/ CommitDetachSnapshot(h) \/ BeginDetach(h) \/ CompleteDetach(h)
         \/ ReadForAccept(h) \/ UpsertAccepted(h) \/ AcceptAtomically(h)
         => Presence'
\* A wake marks the route it takes, with the same fence.
<1>StartWake. ASSUME NEW s \in Sandboxes, StartWake(h, s) PROVE Presence'
  <2> USE <1>StartWake
  <2> DEFINE r == route[s]
             w == IF r.state = "parked" THEN Edit(r, "waking", r.boot, r.act, r.snap) ELSE r
  <2>1. /\ Exists(r) /\ r.state # "creating" /\ r.ws = "attached"
    BY DEF StartWake, Exists
  <2>2. /\ w.gen = r.gen /\ w.node = r.node /\ w.boot = r.boot /\ w.act = r.act /\ w.ws = r.ws
    BY Zenon DEF Edit
  <2>3. /\ Write(s, w) /\ req' = [req EXCEPT ![h] = Request("wake", "sent", s, w, NoAnswer)]
        /\ UNCHANGED <<workers, beats>>
    BY Zenon DEF StartWake
  <2> HIDE DEF w
  <2>4. Backed(s, w)
    BY <2>1, <2>2, RouteFacts, BackedLike, ZenonT(30) DEF Valid
  <2>5. Covered(Request("wake", "sent", s, w, NoAnswer))
    BY <2>1, <2>2, RouteFacts, CoveredPark, Zenon
  <2> QED
    BY <2>3, <2>4, <2>5, GatewayStep, Zenon DEF Write
\* A committed park or wake is backed by its receipt.
<1>Commits. ASSUME CommitPark(h) \/ CommitWake(h) PROVE Presence'
  <2> USE <1>Commits
  <2> DEFINE s == req[h].s
             held == req[h].held
             a == req[h].ans
             cur == route[s]
             p == Edit(cur, a.st, a.boot, a.act,
                       IF a.st = "running" THEN 0 ELSE IF a.snap # 0 THEN a.snap ELSE cur.snap)
             w == Edit(cur, "running", a.boot, a.act, 0)
  <2>1. /\ req[h].op \in {"park", "wake"} /\ req[h].step = "valid"
        /\ Finish(h) /\ UNCHANGED <<workers, beats>>
    BY SMTT(20) DEF CommitPark, CommitWake, At
  <2>2. /\ s \in Sandboxes /\ Vouched(held.node, s, held.gen, a.boot, a.act)
        /\ req[h].op = "wake" => held.ws = "attached"
    BY <2>1, ReqFacts, Zenon DEF Covered, Receipt
  <2>3. CASE CommitPark(h)
    <3>1. \/ /\ Write(s, p) /\ Valid(p) /\ cur.gen = held.gen /\ cur.node = held.node /\ cur.del = 0
          \/ UNCHANGED gateway
      BY <2>3, Zenon DEF CommitPark, SetStateAllowed, Same
    <3>2. p.gen = cur.gen /\ p.node = cur.node /\ p.boot = a.boot /\ p.act = a.act /\ p.del = cur.del
      BY Zenon DEF Edit
    <3> HIDE DEF p
    <3>3. \/ Write(s, p) /\ Backed(s, p)
          \/ UNCHANGED gateway
      BY <2>2, <3>1, <3>2, BackedReceipt, Zenon
    <3> QED
      BY <2>1, <2>2, <3>3, CommitStep, Zenon
  <2>4. CASE CommitWake(h)
    <3>1. \/ /\ Write(s, w) /\ cur.gen = held.gen /\ cur.node = held.node
             /\ cur.ws = held.ws
          \/ UNCHANGED gateway
      BY <2>4, ZenonT(30) DEF CommitWake, SetStateAllowed, Same
    <3>2. w.gen = cur.gen /\ w.node = cur.node /\ w.boot = a.boot /\ w.act = a.act /\ w.ws = cur.ws
      BY DEF Edit
    <3>3. req[h].op = "wake"
      BY <2>4, Zenon DEF CommitWake, At
    <3> HIDE DEF w
    <3>4. \/ Write(s, w) /\ Backed(s, w)
          \/ UNCHANGED gateway
      BY <2>2, <3>1, <3>2, <3>3, BackedReceipt, Zenon DEF Valid
    <3> QED
      BY <2>1, <2>2, <3>4, CommitStep, Zenon
  <2> QED
    BY <2>3, <2>4
\* A wake that is rolled back leaves the fence alone.
<1>RollBackWake. ASSUME RollBackWake(h) PROVE Presence'
  <2> USE <1>RollBackWake
  <2> DEFINE s == req[h].s
             cur == route[s]
             q == Edit(cur, "parked", cur.boot, cur.act, cur.snap)
  <2>1. req[h].op = "wake" /\ req[h].step = "answered" /\ Finish(h) /\ UNCHANGED <<workers, beats>>
    BY Zenon DEF RollBackWake, At
  <2>2. s \in Sandboxes /\ req[h].held.ws = "attached"
    BY <2>1, ReqFacts, Zenon DEF Covered
  <2>3. \/ Write(s, q) /\ cur.state = "waking" /\ cur.ws = req[h].held.ws
        \/ UNCHANGED gateway
    BY ZenonT(30) DEF RollBackWake, SetStateAllowed
  <2>4. q.gen = cur.gen /\ q.node = cur.node /\ q.boot = cur.boot /\ q.act = cur.act /\ q.ws = cur.ws
    BY Zenon DEF Edit
  <2> HIDE DEF q
  <2>5. ASSUME cur.state = "waking", cur.ws = "attached" PROVE Backed(s, q)
    <3>1. /\ Exists(cur) /\ cur.state # "creating" /\ cur.ws # "detached"
          /\ q.ws # "detached" /\ Valid(q)
      BY <2>4, <2>5 DEF Exists, Valid
    <3> QED
      BY <2>2, <2>4, <3>1, RouteFacts, BackedLike, Zenon
  <2> QED
    BY <2>1, <2>2, <2>3, <2>5, CommitStep, Zenon
\* A delete intent leaves the fence alone; a detached route goes with it.
<1>PrepareDelete. ASSUME NEW s \in Sandboxes, PrepareDelete(h, s) PROVE Presence'
  <2> USE <1>PrepareDelete
  <2> DEFINE cur == route[s]
             r == IF cur.del # 0 THEN cur ELSE WithDelete(cur, dels[s] + 1)
             q == IF r.ws = "detached" THEN NoRoute ELSE r
             x == IF r.ws = "attached" THEN Request("delete", "sent", s, Identity(r), NoAnswer) ELSE Idle
  <2>1. /\ Exists(cur) /\ route' = [route EXCEPT ![s] = q] /\ req' = [req EXCEPT ![h] = x]
        /\ UNCHANGED <<workers, beats>>
    BY Zenon DEF PrepareDelete
  <2>2. /\ r.gen = cur.gen /\ r.node = cur.node /\ r.boot = cur.boot /\ r.act = cur.act
        /\ r.ws = cur.ws /\ r.state = cur.state /\ r.snap = cur.snap
    BY DEF WithDelete
  <2>3. Covered(x)
    BY CoveredFree, Zenon
  <2> HIDE DEF r, x
  <2>4. r.ws # "detached" => Backed(s, r)
    <3>1. Backed(s, cur) /\ Valid(cur)
      BY <2>1, RouteFacts, Zenon
    <3>2. Valid(r)
      BY <2>2, <3>1, Zenon DEF Valid, IsPortable
    <3> QED
      BY <2>1, <2>2, <3>1, <3>2, BackedLike, Zenon
  <2>5. Backed(s, q)
    BY <2>4, BackedNew, Zenon
  <2> HIDE DEF q
  <2> QED
    BY <2>1, <2>3, <2>5, GatewayStep, Zenon
\* A detach marks a portable route, or asks for the publication of an attached one.
<1>StartDetach. ASSUME NEW s \in Sandboxes, StartDetach(h, s) PROVE Presence'
  <2> USE <1>StartDetach
  <2> DEFINE r == route[s]
             d == WithWorker(r, "detaching")
  <2>1. /\ Exists(r) /\ r.state # "creating" /\ r.ws # "detached" /\ UNCHANGED <<workers, beats>>
    BY DEF StartDetach, Exists
  <2>2. /\ Backed(s, r) /\ Valid(r)
    BY <2>1, RouteFacts, Zenon
  <2>3. CASE IsPortable(r)
    <3>1. /\ d.gen = r.gen /\ d.node = r.node /\ d.boot = r.boot /\ d.act = r.act
          /\ d.ws # "detached" /\ d.state = r.state /\ d.snap = r.snap
      BY DEF WithWorker
    <3>2. /\ Write(s, d) /\ req' = [req EXCEPT ![h] = Request("evict", "sent", s, Identity(d), NoAnswer)]
      BY <2>3, Zenon DEF StartDetach
    <3> HIDE DEF d
    <3>3. Valid(d)
      BY <2>3, <3>1, Zenon DEF Valid, IsPortable
    <3>4. Backed(s, d)
      BY <2>1, <2>2, <3>1, <3>3, BackedLike, Zenon
    <3> QED
      BY <2>1, <3>2, <3>4, CoveredFree, GatewayStep, Zenon DEF Write
  <2>4. CASE ~IsPortable(r)
    <3>1. Identity(r).ws = "attached"
      BY <2>2, <2>4, Zenon DEF Valid, Identity
    <3>2. Covered(Request("detach", "sent", s, Identity(r), NoAnswer))
      BY <3>1, CoveredDetach, Zenon
    <3> QED
      BY <2>1, <2>4, <3>2, MoveStep, Zenon DEF StartDetach
  <2> QED
    BY ZenonT(30), <2>3, <2>4
\* The snapshot of a detach is written with the fence the route has.
<1>CommitDetachSnapshot. ASSUME CommitDetachSnapshot(h) PROVE Presence'
  <2> USE <1>CommitDetachSnapshot
  <2> DEFINE s == req[h].s
             cur == route[s]
             q == Edit(cur, "parked", cur.boot, cur.act, req[h].ans.snap)
  <2>1. req[h].op = "detach" /\ req[h].step = "answered" /\ UNCHANGED <<workers, beats>>
    BY Zenon DEF CommitDetachSnapshot, At
  <2>2. s \in Sandboxes /\ req[h].held.ws = "attached"
    BY <2>1, ReqFacts, Zenon DEF Covered
  <2>3. CASE SetStateAllowed(cur, req[h].held, {"parked"}, NoAnswer)
    <3>1. /\ Write(s, q) /\ Goto(h, "valid", Identity(q), NoAnswer)
          /\ cur.state = "parked" /\ cur.ws = req[h].held.ws
      BY <2>3, ZenonT(30) DEF CommitDetachSnapshot, SetStateAllowed
    <3>2. q.gen = cur.gen /\ q.node = cur.node /\ q.boot = cur.boot /\ q.act = cur.act /\ q.ws = cur.ws
      BY DEF Edit
    <3>3. Identity(q).ws = q.ws
      BY ZenonT(30) DEF Identity
    <3> HIDE DEF q
    <3>4. /\ Exists(cur) /\ cur.state # "creating" /\ cur.ws # "detached"
          /\ q.ws # "detached" /\ Valid(q) /\ Identity(q).ws = "attached"
      BY <2>2, <3>1, <3>2, <3>3, Zenon DEF Exists, Valid
    <3>5. Backed(s, q)
      BY <2>2, <3>2, <3>4, RouteFacts, BackedLike, Zenon
    <3>6. Covered(Request(req[h].op, "valid", s, Identity(q), NoAnswer))
      BY <2>1, <3>4, CoveredDetach, Zenon
    <3> QED
      BY <2>1, <2>2, <3>1, <3>5, <3>6, GatewayStep, Zenon DEF Write, Goto
  <2>4. CASE ~SetStateAllowed(cur, req[h].held, {"parked"}, NoAnswer)
    <3>1. Finish(h) /\ UNCHANGED gateway
      BY <2>4, Zenon DEF CommitDetachSnapshot
    <3> QED
      BY <2>1, <2>2, <3>1, RemoveStep, Zenon
  <2> QED
    BY <2>3, <2>4, Zenon
\* The fence of a detach leaves the route's own fence alone,
<1>BeginDetach. ASSUME BeginDetach(h) PROVE Presence'
  <2> USE <1>BeginDetach
  <2> DEFINE s == req[h].s
             cur == route[s]
             d == WithWorker(cur, "detaching")
             Go == Same(cur, req[h].held) /\ IsPortable(cur) /\ cur.del = 0 /\ cur.ws # "detached"
  <2>1. req[h].op = "detach" /\ req[h].step = "valid" /\ UNCHANGED <<workers, beats>>
    BY Zenon DEF BeginDetach, At
  <2>2. s \in Sandboxes
    BY <2>1, ReqFacts, Zenon
  <2>3. CASE Go
    <3>1. /\ Write(s, d) /\ req' = [req EXCEPT ![h] = Request("evict", "sent", s, Identity(d), NoAnswer)]
      BY <2>3, Zenon DEF BeginDetach
    <3>2. /\ d.gen = cur.gen /\ d.node = cur.node /\ d.boot = cur.boot /\ d.act = cur.act
          /\ d.ws # "detached" /\ d.state = cur.state /\ d.snap = cur.snap
      BY ZenonT(30) DEF WithWorker
    <3> HIDE DEF d
    <3>3. /\ Exists(cur) /\ cur.state # "creating" /\ cur.ws # "detached"
      BY <2>3 DEF IsPortable, Exists
    <3>4. Valid(d)
      BY <2>3, <3>2, Zenon DEF Valid, IsPortable
    <3>5. Backed(s, d)
      BY <2>2, <3>2, <3>3, <3>4, RouteFacts, BackedLike, Zenon
    <3> QED
      BY <2>1, <2>2, <3>1, <3>5, CoveredFree, GatewayStep, Zenon DEF Write
  <2>4. CASE ~Go
    <3>1. Finish(h) /\ UNCHANGED gateway
      BY <2>4, Zenon DEF BeginDetach
    <3> QED
      BY <2>1, <2>2, <3>1, RemoveStep, Zenon
  <2> QED
    BY <2>3, <2>4, Zenon
\* and its completion gives it up.
<1>CompleteDetach. ASSUME CompleteDetach(h) PROVE Presence'
  <2> USE <1>CompleteDetach
  <2> DEFINE s == req[h].s
             cur == route[s]
  <2>1. /\ req[h].op = "evict" /\ req[h].step = "answered" /\ Finish(h) /\ UNCHANGED <<workers, beats>>
        /\ (Write(s, Detached(cur)) /\ Recoverable(cur)) \/ UNCHANGED gateway
    BY Zenon DEF CompleteDetach, At, Recoverable
  <2>2. s \in Sandboxes
    BY <2>1, ReqFacts, Zenon
  <2>3. Recoverable(cur) => Backed(s, Detached(cur))
    BY <2>2, BackedDetached, Zenon DEF Presence
  <2> QED
    BY <2>1, <2>2, <2>3, CommitStep, Zenon
\* An accepted publication keeps the fence of the route that was read, in one
\* transaction or in two.
<1>Accept. ASSUME ReadForAccept(h) \/ UpsertAccepted(h) \/ AcceptAtomically(h)
      PROVE  Presence'
  <2> USE <1>Accept
  <2> DEFINE s == req[h].s
             held == req[h].held
             cur == route[s]
             q == Accepted(cur, req[h].ans.snap)
  <2>1. /\ req[h].op = "publish" /\ req[h].step \in {"answered", "valid"} /\ UNCHANGED <<workers, beats>>
    BY ZenonT(30) DEF ReadForAccept, UpsertAccepted, AcceptAtomically, At
  <2>2. s \in Sandboxes /\ held.ws = "attached"
    BY <2>1, ReqFacts, ZenonT(30) DEF Covered
  <2>3. q.gen = cur.gen /\ q.node = cur.node /\ q.boot = cur.boot /\ q.act = cur.act /\ q.ws = cur.ws
    BY DEF Accepted, Edit
  <2> HIDE DEF q
  <2>4. ASSUME Acceptable(cur, held) PROVE Backed(s, q) /\ q.ws = "attached"
    <3>1. /\ Exists(cur) /\ cur.state # "creating" /\ cur.ws # "detached"
          /\ q.ws = "attached" /\ q.ws # "detached" /\ Valid(q)
      BY <2>2, <2>3, <2>4, Zenon DEF Exists, Valid, Acceptable
    <3> QED
      BY <2>2, <2>3, <3>1, RouteFacts, BackedLike, Zenon
  <2>5. CASE ReadForAccept(h)
    <3>1. /\ UNCHANGED gateway
          /\ (Acceptable(cur, held) /\ Goto(h, "valid", q, req[h].ans)) \/ Finish(h)
      BY <2>5, Zenon DEF ReadForAccept, q
    <3>2. CASE Finish(h)
      BY <2>1, <2>2, <3>1, <3>2, RemoveStep, Zenon
    <3>3. CASE Acceptable(cur, held) /\ Goto(h, "valid", q, req[h].ans)
      <4>1. Covered(Request(req[h].op, "valid", s, q, req[h].ans))
        BY <2>1, <2>4, <3>3, CoveredDetach, Zenon
      <4> QED
        BY <2>1, <3>1, <3>3, <4>1, MoveStep, Zenon DEF Goto
    <3> QED
      BY <3>1, <3>2, <3>3, Zenon
  <2>6. CASE UpsertAccepted(h)
    <3>1. /\ Write(s, held) \/ UNCHANGED gateway
          /\ Finish(h) /\ req[h].step = "valid"
      BY <2>6, Zenon DEF UpsertAccepted, At
    <3>2. Backed(s, held)
      BY <2>1, <3>1, ReqFacts, Zenon DEF Covered
    <3> QED
      BY <2>1, <2>2, <3>1, <3>2, CommitStep, Zenon
  <2>7. CASE AcceptAtomically(h)
    <3>1. /\ (Acceptable(cur, held) /\ Write(s, q)) \/ UNCHANGED gateway
          /\ Finish(h)
      BY <2>7, Zenon DEF AcceptAtomically, q
    <3> QED
      BY <2>1, <2>2, <2>4, <3>1, CommitStep, Zenon
  <2> QED
    BY <2>5, <2>6, <2>7
<1> QED
  BY <1>StartWake, <1>Commits, <1>RollBackWake, <1>PrepareDelete, <1>StartDetach,
     <1>CommitDetachSnapshot, <1>BeginDetach, <1>CompleteDetach, <1>Accept, ZenonT(30)

-----------------------------------------------------------------------------
(* The steps of the workers.                                               *)

\* One registration of one worker changes.
LEMMA OneTimely ==
  ASSUME WorkersOK, Watched, UNCHANGED beats, NEW n \in Nodes, NEW s \in Sandboxes,
         \A m \in Nodes \ {n} : worker'[m] = worker[m],
         worker'[n].boot = worker[n].boot, Floor(n)' >= Floor(n),
         \A m \in Nodes, t \in Sandboxes :
           m # n \/ t # s => box'[m][t] = box[m][t] /\ tomb'[m][t] = tomb[m][t],
         tomb'[n][s] >= tomb[n][s],
         box'[n][s].st # "none" => box'[n][s].gen # 0,
         \/ box'[n][s].gen = box[n][s].gen
         \/ box'[n][s].gen = 0 /\ box[n][s].gen <= tomb'[n][s]
         \/ box[n][s].gen = 0 /\ box'[n][s].gen > tomb[n][s] /\ Floor(n)' > Floor(n)
  PROVE  Timely
<1>1. Onward
  <2> SUFFICES ASSUME NEW m \in Nodes, m # n
               PROVE  worker'[m].boot = worker[m].boot /\ Floor(m)' >= Floor(m)
    BY Zenon DEF Onward
  <2>1. worker'[m] = worker[m]
    BY Zenon
  <2> QED
    BY <2>1, FloorFacts DEF Floor
<1>2. Settled
  <2> SUFFICES ASSUME NEW m \in Nodes, NEW t \in Sandboxes, m # n \/ t # s
               PROVE  /\ tomb'[m][t] >= tomb[m][t] /\ box'[m][t].gen = box[m][t].gen
                      /\ box'[m][t].st # "none" => box'[m][t].gen # 0
    BY ZenonT(30) DEF Settled
  <2>1. box'[m][t] = box[m][t] /\ tomb'[m][t] = tomb[m][t]
    BY Zenon
  <2> QED
    BY <2>1, FloorFacts DEF Watched
<1>3. \A b \in beats' : Kept(b)
  BY Zenon DEF Kept
<1> QED
  BY <1>1, <1>2, <1>3, Zenon DEF Timely

\* An advance of the activity revision, whose transient part a sample may miss.
LEMMA AdvanceFloor ==
  ASSUME WorkersOK, NEW n \in Nodes, worker' = [worker EXCEPT ![n] = Advanced(@)]
  PROVE  /\ \A m \in Nodes \ {n} : worker'[m] = worker[m]
         /\ worker'[n].boot = worker[n].boot /\ worker'[n].act = worker[n].act + 1
         /\ Floor(n)' >= Floor(n)
<1>1. worker \in [Nodes -> [boot: 1..MaxBoot, act: Nat, lag: Nat]]
  BY Zenon DEF WorkersOK
<1>2. worker'[n] = Advanced(worker[n]) /\ \A m \in Nodes \ {n} : worker'[m] = worker[m]
  BY <1>1
<1>3. worker[n].act \in Nat /\ worker[n].lag \in Nat
  BY FloorFacts, Zenon
<1>4. Floor(n)' = worker'[n].act - worker'[n].lag
  BY DEF Floor
<1> QED
  BY <1>2, <1>3, <1>4 DEF Floor, Advanced

\* A registry commit, which no sample misses.
LEMMA BumpFloor ==
  ASSUME WorkersOK, NEW n \in Nodes, worker' = [worker EXCEPT ![n] = Bumped(@)]
  PROVE  /\ \A m \in Nodes \ {n} : worker'[m] = worker[m]
         /\ worker'[n].boot = worker[n].boot /\ Floor(n)' > Floor(n) /\ Floor(n)' >= Floor(n)
<1>1. worker \in [Nodes -> [boot: 1..MaxBoot, act: Nat, lag: Nat]]
  BY Zenon DEF WorkersOK
<1>2. worker'[n] = Bumped(worker[n]) /\ \A m \in Nodes \ {n} : worker'[m] = worker[m]
  BY <1>1
<1>3. worker[n].act \in Nat /\ worker[n].lag \in Nat
  BY FloorFacts, Zenon
<1>4. Floor(n)' = worker'[n].act - worker'[n].lag
  BY DEF Floor
<1> QED
  BY <1>2, <1>3, <1>4 DEF Floor, Bumped

\* A registration that keeps its generation while the revision may advance.
LEMMA KeepTimely ==
  ASSUME IInv, Presence, UNCHANGED <<tomb, beats>>, NEW n \in Nodes, NEW s \in Sandboxes,
         UNCHANGED worker \/ worker' = [worker EXCEPT ![n] = Advanced(@)],
         \/ UNCHANGED box
         \/ /\ box[n][s].st # "none"
            /\ \E y : box' = [box EXCEPT ![n][s] = y] /\ y.gen = box[n][s].gen
  PROVE  Timely
<1>1. WorkersOK /\ Watched
  BY Zenon DEF IInv, Presence
<1>2. /\ \A m \in Nodes \ {n} : worker'[m] = worker[m]
      /\ worker'[n].boot = worker[n].boot /\ Floor(n)' >= Floor(n)
  <2>1. CASE UNCHANGED worker
    BY <1>1, <2>1, FloorFacts DEF Floor
  <2>2. CASE worker' = [worker EXCEPT ![n] = Advanced(@)]
    BY <1>1, <2>2, AdvanceFloor, Zenon
  <2> QED
    BY <2>1, <2>2
<1>3. /\ box'[n][s].gen = box[n][s].gen
      /\ \A m \in Nodes, t \in Sandboxes : m # n \/ t # s => box'[m][t] = box[m][t]
  BY <1>1 DEF WorkersOK
<1>4. (box[n][s].st # "none" => box[n][s].gen # 0) /\ tomb'[n][s] >= tomb[n][s]
  BY <1>1, FloorFacts DEF Watched
<1>5. \A m \in Nodes, t \in Sandboxes :
        m # n \/ t # s => box'[m][t] = box[m][t] /\ tomb'[m][t] = tomb[m][t]
  BY <1>3, Zenon
<1>6. box'[n][s].st # "none" => box'[n][s].gen # 0
  BY <1>3, <1>4, Zenon
<1> QED
  BY <1>1, <1>2, <1>3, <1>4, <1>5, <1>6, OneTimely, Zenon

\* A registration that goes, leaving its tombstone.
LEMMA DropTimely ==
  ASSUME IInv, Presence, UNCHANGED beats, NEW n \in Nodes, NEW s \in Sandboxes, NEW g \in Nat,
         box[n][s].gen = g, box' = [box EXCEPT ![n][s] = NoBox],
         tomb' = [tomb EXCEPT ![n][s] = IF g > @ THEN g ELSE @],
         worker' = [worker EXCEPT ![n] = Bumped(@)]
  PROVE  Timely
<1>1. WorkersOK /\ Watched
  BY Zenon DEF IInv, Presence
<1>2. /\ \A m \in Nodes \ {n} : worker'[m] = worker[m]
      /\ worker'[n].boot = worker[n].boot /\ Floor(n)' >= Floor(n)
  BY <1>1, BumpFloor, Zenon
<1>3. /\ box'[n][s] = NoBox
      /\ \A m \in Nodes, t \in Sandboxes : m # n \/ t # s => box'[m][t] = box[m][t]
  BY <1>1 DEF WorkersOK
<1>4. /\ tomb'[n][s] = IF g > tomb[n][s] THEN g ELSE tomb[n][s]
      /\ \A m \in Nodes, t \in Sandboxes : m # n \/ t # s => tomb'[m][t] = tomb[m][t]
  BY <1>1 DEF WorkersOK
<1>5. tomb'[n][s] >= tomb[n][s] /\ g <= tomb'[n][s]
  BY <1>1, <1>4, FloorFacts
<1>6. box'[n][s].gen = 0 /\ box'[n][s].st = "none"
  BY <1>3 DEF NoBox
<1> QED
  BY <1>1, <1>2, <1>3, <1>4, <1>5, <1>6, OneTimely, ZenonT(30)

\* The steps a worker takes for a request.
LEMMA BoxPresent ==
  ASSUME IInv, IInv', Presence, NEW h \in Actors
  PROVE  \/ WorkerCreate(h) \/ StampCreate(h) \/ WorkerRollBack(h)
         \/ WorkerPark(h) \/ WorkerWake(h) \/ WorkerDelete(h) \/ WorkerEvict(h) \/ WorkerPublish(h)
         => Presence'
\* A registration that comes, with a registry commit above its tombstone.
<1>RegisterTimely. ASSUME UNCHANGED <<tomb, beats>>, NEW n \in Nodes, NEW s \in Sandboxes,
             NEW g \in Nat, box[n][s] = NoBox, g > tomb[n][s], Bump(n),
             box' = [box EXCEPT ![n][s] = Box(g, "running", 0, FALSE)]
      PROVE  Timely /\ Came(n, s, g)'
  <2> USE <1>RegisterTimely
  <2>1. WorkersOK /\ Watched
    BY Zenon DEF IInv, Presence
  <2>2. /\ \A m \in Nodes \ {n} : worker'[m] = worker[m]
        /\ worker'[n].boot = worker[n].boot /\ Floor(n)' > Floor(n) /\ Floor(n)' >= Floor(n)
    BY <2>1, BumpFloor, Zenon DEF Bump
  <2>3. /\ box'[n][s] = Box(g, "running", 0, FALSE)
        /\ \A m \in Nodes, t \in Sandboxes : m # n \/ t # s => box'[m][t] = box[m][t]
    BY <2>1, Zenon DEF WorkersOK
  <2>4. tomb[n][s] \in Nat
    BY <2>1, FloorFacts, Zenon
  <2>5. box'[n][s].gen = g /\ g # 0 /\ box[n][s].gen = 0 /\ tomb'[n][s] >= tomb[n][s]
    BY <2>3, <2>4, NoBoxType DEF Box
  <2>6. \A m \in Nodes, t \in Sandboxes :
          m # n \/ t # s => box'[m][t] = box[m][t] /\ tomb'[m][t] = tomb[m][t]
    BY <2>3, Zenon
  <2>7. box'[n][s].gen > tomb[n][s] /\ (box'[n][s].st # "none" => box'[n][s].gen # 0)
    BY <2>5, Zenon
  <2>8. Timely
    BY <2>1, <2>2, <2>5, <2>6, <2>7, OneTimely, Zenon
  <2> QED
    BY <2>5, <2>8, Zenon DEF Came
\* A create registers its incarnation with a registry commit, or finds it.
<1>WorkerCreate. ASSUME WorkerCreate(h) PROVE Presence'
  <2> USE <1>WorkerCreate
  <2> DEFINE s == req[h].s
             held == req[h].held
             n == held.node
             g == held.gen
             b == box[n][s]
  <2>1. /\ req[h].op \in {"create", "replay", "get"} /\ req[h].step = "sent" /\ UNCHANGED <<route, tomb, beats>>
    BY ZenonT(30) DEF WorkerCreate, Creating, gateway
  <2>2. /\ s \in Sandboxes /\ n \in Nodes /\ (held.ws = "detached" => held.del = 0) /\ held \in Held
    BY <2>1, ReqFacts, Zenon DEF Covered
  <2>3. g \in Nat /\ tomb[n][s] \in Nat /\ worker[n].boot # 0 /\ WorkersOK /\ Watched
    BY <2>2, FloorFacts, Bounds DEF Held, IInv, Presence
  <2>4. CASE /\ b = NoBox /\ g > tomb[n][s]
             /\ Bump(n)
             /\ box' = [box EXCEPT ![n][s] = Box(g, "running", 0, FALSE)]
             /\ Goto(h, "recorded", held, Answer("running", Boot(n), 0, 0))
    <3> DEFINE x == Request(req[h].op, "recorded", s, held, Answer("running", Boot(n), 0, 0))
    <3>7. PICK y : y = x
      BY ZenonT(30)
    <3>8. /\ y.op = req[h].op /\ y.step = "recorded" /\ y.s = s /\ y.held = held
          /\ y.ans.boot = worker[n].boot /\ req' = [req EXCEPT ![h] = y]
      BY ZenonT(30), <2>4, <3>7 DEF Request, Answer, Boot, Goto
    <3>9. y.op \notin {"park", "wake", "detach", "publish"} /\ y.step # "answered"
      BY <2>1, <3>8
    <3>10. Timely /\ Came(y.held.node, y.s, y.held.gen)'
      BY <2>1, <2>2, <2>3, <2>4, <3>8, <1>RegisterTimely, Zenon
    <3>11. Covered(y)'
      BY <2>2, <2>3, <3>8, <3>9, <3>10, ZenonT(30) DEF Covered
    <3>12. ASSUME NEW i \in Actors PROVE \E z : req'[i] = z /\ (Covered(z) \/ Covered(z)')
      <4>1. req'[i] = y \/ req'[i] = req[i]
        BY <3>8 DEF IInv, ReqOK
      <4> QED
        BY <3>11, <4>1, Zenon DEF Presence
    <3>13. \A t \in Sandboxes : \E r : route'[t] = r /\ Backed(t, r)
      BY <2>1, Zenon DEF Presence
    <3> QED
      BY <3>10, <3>12, <3>13, PresenceStep, Zenon
  <2>5. ASSUME UNCHANGED <<worker, box>> PROVE Timely /\ UNCHANGED route
    BY ZenonT(30), <2>1, <2>3, <2>5, StillTimely DEF workers
  <2>6. CASE /\ b.gen = g /\ b.st \in {"running", "parked"}
             /\ Goto(h, "recorded", held, Answer(b.st, Boot(n), 0, 0))
             /\ UNCHANGED <<worker, box>>
    <3>1. b.gen # 0
      BY <2>2, <2>3, <2>6, Zenon DEF Watched
    <3>2. Came(n, s, g)
      BY <2>6, <3>1, Zenon DEF Came
    <3>3. Answer(b.st, Boot(n), 0, 0).boot # 0
      BY <2>3 DEF Answer, Boot
    <3>4. Covered(Request(req[h].op, "recorded", s, held, Answer(b.st, Boot(n), 0, 0)))
      BY <2>1, <2>2, <3>2, <3>3, CoveredCreate, Zenon
    <3> QED
      BY <2>5, <2>6, <3>4, RequestStep, Zenon DEF Goto
  <2>7. CASE Goto(h, "answered", held, Says("refused", 0)) /\ UNCHANGED <<worker, box>>
    <3>1. Says("refused", 0).st \notin {"running", "parked"}
      BY Refusals
    <3>2. Covered(Request(req[h].op, "answered", s, held, Says("refused", 0)))
      BY <2>1, <2>2, <3>1, CoveredCreate, Zenon
    <3> QED
      BY <2>5, <2>7, <3>2, RequestStep, Zenon DEF Goto
  <2> QED
    BY <2>4, <2>6, <2>7, ZenonT(30) DEF WorkerCreate
\* A create response takes a revision after the record.
<1>StampCreate. ASSUME StampCreate(h) PROVE Presence'
  <2> USE <1>StampCreate
  <2> DEFINE s == req[h].s
             held == req[h].held
             n == held.node
             a == Answer(req[h].ans.st, worker'[n], 0, req[h].ans.snap)
  <2>1. /\ req[h].op \in {"create", "replay", "get"} /\ req[h].step = "recorded"
        /\ UNCHANGED <<route, tomb, beats, box>> /\ worker' = [worker EXCEPT ![n] = Advanced(@)]
    BY SMTT(20) DEF StampCreate, Creating, At, gateway, Advance
  <2>2. /\ s \in Sandboxes /\ n \in Nodes /\ (held.ws = "detached" => held.del = 0)
        /\ Came(n, s, held.gen)
    BY <2>1, ReqFacts, Zenon DEF Covered
  <2>3. Timely
    BY <2>1, <2>2, KeepTimely, Zenon
  <2>4. worker'[n].boot = worker[n].boot /\ worker'[n].act = worker[n].act + 1
    BY <2>1, <2>2, AdvanceFloor, Zenon DEF IInv
  <2>5. a.boot = worker[n].boot /\ a.act = worker[n].act + 1
    BY <2>4, Zenon DEF Answer
  <2>6. Goto(h, "answered", held, a)
    BY Zenon DEF StampCreate
  <2>7. PICK y : y = a
    OBVIOUS
  <2> HIDE DEF a
  <2>8. Vouched(n, s, held.gen, y.boot, y.act)
    BY <2>2, <2>5, <2>7, FreshReceipt, Zenon
  <2>9. Covered(Request(req[h].op, "answered", s, held, y))
    BY <2>1, <2>2, <2>8, CoveredCreate, Zenon
  <2> QED
    BY <2>1, <2>3, <2>6, <2>7, <2>9, RequestStep, Zenon DEF Goto
\* A tombstone that is raised, with a registry commit.
<1>BuryTimely. ASSUME UNCHANGED <<box, beats>>, NEW n \in Nodes, NEW s \in Sandboxes,
             NEW g \in Nat, g > tomb[n][s], Bump(n), tomb' = [tomb EXCEPT ![n][s] = g]
      PROVE  Timely
  <2> USE <1>BuryTimely
  <2>1. WorkersOK /\ Watched
    BY Zenon DEF IInv, Presence
  <2>2. /\ \A m \in Nodes \ {n} : worker'[m] = worker[m]
        /\ worker'[n].boot = worker[n].boot /\ Floor(n)' >= Floor(n)
    BY <2>1, BumpFloor, Zenon DEF Bump
  <2>3. /\ tomb'[n][s] = g
        /\ \A m \in Nodes, t \in Sandboxes : m # n \/ t # s => tomb'[m][t] = tomb[m][t]
    BY <2>1 DEF WorkersOK
  <2>4. tomb[n][s] \in Nat /\ (box'[n][s].st # "none" => box'[n][s].gen # 0)
    BY <2>1, FloorFacts, Zenon DEF Watched
  <2>5. tomb'[n][s] >= tomb[n][s]
    BY <2>3, <2>4
  <2>6. \A m \in Nodes, t \in Sandboxes :
          m # n \/ t # s => box'[m][t] = box[m][t] /\ tomb'[m][t] = tomb[m][t]
    BY <2>3, Zenon
  <2> QED
    BY <2>1, <2>2, <2>4, <2>5, <2>6, OneTimely, Zenon
\* A create that is rolled back makes no claim.
<1>WorkerRollBack. ASSUME WorkerRollBack(h) PROVE Presence'
  <2> USE <1>WorkerRollBack
  <2> DEFINE s == req[h].s
             held == req[h].held
             n == held.node
             g == held.gen
  <2>1. /\ req[h].op \in {"create", "replay", "get"} /\ req[h].step = "sent"
        /\ UNCHANGED <<route, box, beats>>
        /\ g > tomb[n][s] /\ Bump(n) /\ tomb' = [tomb EXCEPT ![n][s] = g]
        /\ Goto(h, "answered", held, Says("rejected", 0))
    BY ZenonT(30) DEF WorkerRollBack, Creating, gateway
  <2>2. /\ s \in Sandboxes /\ n \in Nodes /\ (held.ws = "detached" => held.del = 0) /\ held \in Held
    BY <2>1, ReqFacts, Zenon DEF Covered
  <2>3. g \in Nat
    BY <2>2, Bounds DEF Held
  <2>4. Timely
    BY <2>1, <2>2, <2>3, <1>BuryTimely, Zenon
  <2>5. Says("rejected", 0).st \notin {"running", "parked"}
    BY Refusals
  <2>6. Covered(Request(req[h].op, "answered", s, held, Says("rejected", 0)))
    BY <2>1, <2>2, <2>5, CoveredCreate, Zenon
  <2> QED
    BY <2>1, <2>4, <2>6, RequestStep, Zenon DEF Goto
\* A park and a wake answer with a revision taken after what they did.
<1>Lifecycle. ASSUME WorkerPark(h) \/ WorkerWake(h) PROVE Presence'
  <2> USE <1>Lifecycle
  <2> DEFINE s == req[h].s
             held == req[h].held
             n == held.node
             b == box[n][s]
  <2>1. /\ req[h].op \in {"park", "wake"} /\ req[h].step = "sent"
        /\ UNCHANGED <<route, tomb, beats>> /\ worker' = [worker EXCEPT ![n] = Advanced(@)]
        /\ b.st \in {"running", "parked"}
    BY ZenonT(30) DEF WorkerPark, WorkerWake, At, gateway, Advance
  <2>2. /\ s \in Sandboxes /\ n \in Nodes /\ Came(n, s, held.gen)
        /\ req[h].op = "wake" => held.ws = "attached"
    BY <2>1, ReqFacts, Zenon DEF Covered
  <2>3. b.st # "none"
    BY ZenonT(30), <2>1
  <2>4. /\ Box(b.gen, "parked", b.cap + 1, FALSE).gen = b.gen
        /\ Box(b.gen, "running", b.cap, FALSE).gen = b.gen
    BY DEF Box
  <2>5. \/ UNCHANGED box
        \/ box' = [box EXCEPT ![n][s] = Box(b.gen, "parked", b.cap + 1, FALSE)]
        \/ box' = [box EXCEPT ![n][s] = Box(b.gen, "running", b.cap, FALSE)]
    BY ZenonT(30) DEF WorkerPark, WorkerWake
  <2>6. Timely
    <3>1. CASE UNCHANGED box
      BY <2>1, <2>2, <3>1, KeepTimely, Zenon
    <3>2. CASE box' = [box EXCEPT ![n][s] = Box(b.gen, "parked", b.cap + 1, FALSE)]
      BY <2>1, <2>2, <2>3, <2>4, <3>2, KeepTimely, Zenon
    <3>3. CASE box' = [box EXCEPT ![n][s] = Box(b.gen, "running", b.cap, FALSE)]
      BY <2>1, <2>2, <2>3, <2>4, <3>3, KeepTimely, Zenon
    <3> QED
      BY <2>5, <3>1, <3>2, <3>3, Zenon
  <2>7. worker'[n].boot = worker[n].boot /\ worker'[n].act = worker[n].act + 1
    BY <2>1, <2>2, AdvanceFloor, Zenon DEF IInv
  <2>8. \E step, a : /\ Goto(h, step, held, a)
                     /\ a.boot = worker[n].boot /\ a.act = worker[n].act + 1
    <3>1. \A st, c, k : LET a == Answer(st, worker'[n], c, k)
                        IN  a.boot = worker[n].boot /\ a.act = worker[n].act + 1
      BY <2>7 DEF Answer
    <3>2. \/ Goto(h, "recorded", held, Answer("parked", worker'[n], 0, 0))
          \/ Goto(h, "recorded", held, Answer(b.st, worker'[n], 0, 0))
          \/ Goto(h, "answered", held, Answer("running", worker'[n], b.cap, 0))
      BY ZenonT(30) DEF WorkerPark, WorkerWake
    <3> QED
      BY <3>1, <3>2, Zenon
  <2>9. PICK step, a : /\ Goto(h, step, held, a)
                       /\ a.boot = worker[n].boot /\ a.act = worker[n].act + 1
    BY <2>8
  <2>10. Vouched(n, s, held.gen, a.boot, a.act)
    BY <2>2, <2>9, FreshReceipt, Zenon
  <2>11. Covered(Request(req[h].op, step, s, held, a))
    BY <2>1, <2>2, <2>10, CoveredPark, Zenon
  <2> QED
    BY <2>1, <2>6, <2>9, <2>11, RequestStep, Zenon DEF Goto
\* A delete and an eviction remove a registration behind its tombstone.
<1>Removes. ASSUME WorkerDelete(h) \/ WorkerEvict(h) PROVE Presence'
  <2> USE <1>Removes
  <2> DEFINE s == req[h].s
             held == req[h].held
             n == held.node
             g == held.gen
  <2>1. /\ req[h].op \in {"delete", "reap", "evict"} /\ req[h].step = "sent"
        /\ UNCHANGED <<route, beats>> /\ Goto(h, "answered", held, Says("ok", 0))
    BY ZenonT(30) DEF WorkerDelete, WorkerEvict, At, gateway
  <2>2. /\ s \in Sandboxes /\ n \in Nodes /\ held \in Held
    BY <2>1, ReqFacts
  <2>3. g \in Nat
    BY <2>2, Bounds DEF Held
  <2>4. \/ UNCHANGED workers
        \/ /\ box[n][s].gen = g /\ box' = [box EXCEPT ![n][s] = NoBox]
           /\ tomb' = [tomb EXCEPT ![n][s] = IF g > @ THEN g ELSE @]
           /\ worker' = [worker EXCEPT ![n] = Bumped(@)]
    BY ZenonT(30) DEF WorkerDelete, WorkerEvict, Evictable
  <2>5. Timely
    <3>1. CASE UNCHANGED workers
      BY <2>1, <3>1, StillTimely, Zenon DEF IInv, Presence
    <3> QED
      BY <2>1, <2>2, <2>3, <2>4, <3>1, DropTimely, Zenon
  <2>6. Covered(Request(req[h].op, "answered", s, held, Says("ok", 0)))
    BY <2>1, CoveredFree, Zenon
  <2> QED
    BY <2>1, <2>5, <2>6, RequestStep, Zenon DEF Goto
\* A publication keeps the registration.
<1>WorkerPublish. ASSUME WorkerPublish(h) PROVE Presence'
  <2> USE <1>WorkerPublish
  <2> DEFINE s == req[h].s
             held == req[h].held
             n == held.node
             b == box[n][s]
  <2>1. /\ req[h].op \in {"detach", "publish"} /\ req[h].step = "sent"
        /\ UNCHANGED <<route, worker, tomb, beats>> /\ b.st = "parked"
        /\ Goto(h, "answered", held, Says("parked", b.cap))
        /\ box' = [box EXCEPT ![n][s] = Box(b.gen, "parked", b.cap, TRUE)]
    BY ZenonT(30) DEF WorkerPublish, gateway
  <2>2. /\ s \in Sandboxes /\ n \in Nodes /\ held.ws = "attached"
    BY <2>1, ReqFacts, Zenon DEF Covered
  <2>3. b.st # "none" /\ Box(b.gen, "parked", b.cap, TRUE).gen = b.gen
    BY <2>1, Zenon DEF Box
  <2>4. Timely
    BY <2>1, <2>2, <2>3, KeepTimely, Zenon
  <2>5. Covered(Request(req[h].op, "answered", s, held, Says("parked", b.cap)))
    BY <2>1, <2>2, CoveredDetach, Zenon
  <2> QED
    BY <2>1, <2>4, <2>5, RequestStep, Zenon DEF Goto
<1> QED
  BY <1>WorkerCreate, <1>StampCreate, <1>WorkerRollBack, <1>Lifecycle, <1>Removes,
     <1>WorkerPublish, ZenonT(30)

\* A step that leaves the routes and the requests alone.
LEMMA QuietStep ==
  ASSUME IInv, IInv', Presence, Timely, UNCHANGED <<route, req>>
  PROVE  Presence'
<1>1. \A t \in Sandboxes : \E r : route'[t] = r /\ Backed(t, r)
  BY Zenon DEF Presence
<1>2. \A i \in Actors : \E x : req'[i] = x /\ (Covered(x) \/ Covered(x)')
  BY Zenon DEF Presence
<1> QED
  BY <1>1, <1>2, PresenceStep, Zenon

\* The steps a worker takes by itself.
LEMMA WorkerPresent ==
  ASSUME IInv, IInv', Presence, NEW n \in Nodes
  PROVE  Reboot(n) \/ Sample(n) \/ (\E s \in Sandboxes : IdlePark(n, s) \/ Publish(n, s)) => Presence'
\* What a worker does by itself to one registration.
<1>Alone. ASSUME NEW s \in Sandboxes, IdlePark(n, s) \/ Publish(n, s) PROVE Presence'
  <2> USE <1>Alone
  <2> DEFINE b == box[n][s]
  <2>1. UNCHANGED <<route, req, tomb, beats>>
    BY ZenonT(30) DEF IdlePark, Publish, gateway
  <2>2. /\ Box(b.gen, "parked", b.cap + 1, FALSE).gen = b.gen
        /\ Box(b.gen, "parked", b.cap, TRUE).gen = b.gen
    BY DEF Box
  <2>3. CASE IdlePark(n, s)
    <3>1. b.st # "none"
      BY <2>3 DEF IdlePark
    <3>2. /\ worker' = [worker EXCEPT ![n] = Advanced(@)]
          /\ box' = [box EXCEPT ![n][s] = Box(b.gen, "parked", b.cap + 1, FALSE)]
      BY <2>3, Zenon DEF IdlePark, Advance
    <3>3. Timely
      BY <2>1, <2>2, <3>1, <3>2, KeepTimely, Zenon
    <3> QED
      BY <2>1, <3>3, QuietStep, Zenon
  <2>4. CASE Publish(n, s)
    <3>1. b.st # "none"
      BY <2>4 DEF Publish
    <3>2. UNCHANGED worker /\ box' = [box EXCEPT ![n][s] = Box(b.gen, "parked", b.cap, TRUE)]
      BY <2>4, Zenon DEF Publish
    <3>3. Timely
      BY <2>1, <2>2, <3>1, <3>2, KeepTimely, Zenon
    <3> QED
      BY <2>1, <3>3, QuietStep, Zenon
  <2> QED
    BY <2>3, <2>4
\* A reboot starts a boot that no heartbeat has reported.
<1>Reboot. ASSUME Reboot(n) PROVE Presence'
  <2> USE <1>Reboot
  <2>1. WorkersOK /\ Watched /\ UNCHANGED <<route, req, tomb, beats>>
    BY Zenon DEF Reboot, gateway, IInv, Presence
  <2>2. worker'[n].boot = worker[n].boot + 1 /\ \A m \in Nodes \ {n} : worker'[m] = worker[m]
    BY <2>1 DEF Reboot, WorkersOK
  <2>3. Onward
    <3> SUFFICES ASSUME NEW m \in Nodes
                 PROVE  \/ worker'[m].boot > worker[m].boot
                        \/ worker'[m].boot = worker[m].boot /\ Floor(m)' >= Floor(m)
      BY Zenon DEF Onward
    <3>1. CASE m = n
      BY <2>1, <2>2, <3>1, FloorFacts
    <3>2. CASE m # n
      <4>1. worker'[m] = worker[m]
        BY <2>2, <3>2, Zenon
      <4> QED
        BY <2>1, <4>1, FloorFacts DEF Floor
    <3> QED
      BY <3>1, <3>2
  <2>4. Settled
    <3> SUFFICES ASSUME NEW m \in Nodes, NEW s \in Sandboxes
                 PROVE  /\ tomb'[m][s] >= tomb[m][s] /\ box'[m][s].gen = box[m][s].gen
                        /\ box'[m][s].st # "none" => box'[m][s].gen # 0
      BY Zenon DEF Settled
    <3>1. \/ box'[m][s] = box[m][s]
          \/ /\ box[m][s].st = "running"
             /\ box'[m][s] = Box(box[m][s].gen, "dead", box[m][s].cap, FALSE)
      BY <2>1, ZenonT(30) DEF Reboot, WorkersOK
    <3>2. box'[m][s].gen = box[m][s].gen /\ (box'[m][s].st # "none" => box[m][s].st # "none")
      BY <3>1 DEF Box
    <3>3. box[m][s].st # "none" => box[m][s].gen # 0
      BY <2>1, Zenon DEF Watched
    <3>4. tomb'[m][s] >= tomb[m][s]
      BY <2>1, FloorFacts
    <3> QED
      BY <3>2, <3>3, <3>4, Zenon
  <2>5. \A b \in beats' : Kept(b)
    BY <2>1, Zenon DEF Kept
  <2>6. Timely
    BY <2>3, <2>4, <2>5, Zenon DEF Timely
  <2> QED
    BY <2>1, <2>6, QuietStep, Zenon
\* A sample reports at least the floor and lists what the worker has.
<1>Sample. ASSUME Sample(n) PROVE Presence'
  <2> USE <1>Sample
  <2>1. WorkersOK /\ Watched /\ UNCHANGED <<route, req, box, tomb>>
    BY Zenon DEF Sample, gateway, IInv, Presence
  <2>2. PICK a \in 0..worker[n].act : a + worker[n].lag >= worker[n].act /\ beats' = beats \cup {Sent(n, a)}
    BY Zenon DEF Sample
  <2>3. /\ worker'[n].boot = worker[n].boot /\ worker'[n].act = worker[n].act /\ worker'[n].lag = 0
        /\ \A m \in Nodes \ {n} : worker'[m] = worker[m]
    BY ZenonT(30), <2>1 DEF Sample, WorkersOK
  <2>4. Floor(n)' = worker[n].act /\ Floor(n) <= a /\ a <= Floor(n)' /\ Floor(n)' >= Floor(n)
    <3>1. Floor(n)' = worker'[n].act - worker'[n].lag
      BY ZenonT(30) DEF Floor
    <3> QED
      BY <2>1, <2>2, <2>3, <3>1, FloorFacts DEF Floor
  <2>5. Onward
    <3> SUFFICES ASSUME NEW m \in Nodes, m # n
                 PROVE  worker'[m].boot = worker[m].boot /\ Floor(m)' >= Floor(m)
      BY <2>3, <2>4, Zenon DEF Onward
    <3>1. worker'[m] = worker[m]
      BY <2>3, Zenon
    <3> QED
      BY <2>1, <3>1, FloorFacts DEF Floor
  <2>6. Settled
    <3> SUFFICES ASSUME NEW m \in Nodes, NEW s \in Sandboxes
                 PROVE  tomb'[m][s] >= tomb[m][s] /\ (box'[m][s].st # "none" => box'[m][s].gen # 0)
      BY <2>1, Zenon DEF Settled
    <3> QED
      BY <2>1, FloorFacts DEF Watched
  <2>7. ASSUME NEW b \in beats' PROVE Kept(b) \/ Sampled(b)
    <3>1. CASE b \in beats
      BY <3>1, Zenon DEF Kept
    <3>2. CASE b = Sent(n, a)
      <4>1. /\ b.node = n /\ b.boot = worker[n].boot /\ b.act = a
            /\ \A s \in Sandboxes : b.inv[s].gen = box[n][s].gen
        BY <3>2 DEF Sent, Entry
      <4> QED
        BY <2>1, <2>3, <2>4, <4>1, Zenon DEF Sampled
    <3> QED
      BY ZenonT(30), <2>2, <2>7, <3>1, <3>2
  <2>8. Timely
    BY <2>5, <2>6, <2>7, Zenon DEF Timely
  <2> QED
    BY <2>1, <2>8, QuietStep, Zenon
<1> QED
  BY <1>Alone, <1>Reboot, <1>Sample, ZenonT(30)

-----------------------------------------------------------------------------
(* The steps of the heartbeats.                                            *)

\* The steps of a heartbeat.
LEMMA BeatPresent ==
  ASSUME IInv, IInv', Presence, NEW b \in beats
  PROVE  BeatStep(b) => Presence'
\* The next step of a heartbeat's application says the same of its worker.
<1>StepKept. ASSUME NEW step, NEW retired, NEW owed, NEW c,
             c \in (beats \ {b}) \cup {WithStep(b, step, retired, owed)}
      PROVE  Kept(c)
  <2> USE <1>StepKept
  <2>1. CASE c \in beats
    BY <2>1, Zenon DEF Kept
  <2>2. CASE c = WithStep(b, step, retired, owed)
    BY <2>2 DEF WithStep, Kept
  <2> QED
    BY <2>1, <2>2
\* A heartbeat that is stored, refused or lost.
<1>Receive. ASSUME ReceiveBeat(b) \/ DropBeat(b) PROVE Presence'
  <2> USE <1>Receive
  <2>1. UNCHANGED <<route, req, workers>>
    BY ZenonT(30) DEF ReceiveBeat, DropBeat, gateway
  <2>2. \/ beats' = beats \ {b}
        \/ \E step, retired : beats' = (beats \ {b}) \cup {WithStep(b, step, retired, {})}
    BY ZenonT(30) DEF ReceiveBeat, DropBeat
  <2>3. ASSUME NEW c \in beats' PROVE Kept(c)
    <3>1. CASE beats' = beats \ {b}
      BY <2>3, <3>1, Zenon DEF Kept
    <3>2. CASE \E step, retired : beats' = (beats \ {b}) \cup {WithStep(b, step, retired, {})}
      BY <2>3, <3>2, <1>StepKept, Zenon
    <3> QED
      BY ZenonT(30), <2>2, <3>1, <3>2
  <2>4. Timely
    BY <2>1, <2>3, QuietTimely, Zenon DEF IInv, Presence
  <2> QED
    BY <2>1, <2>4, QuietStep, Zenon
\* A heartbeat that writes routes.
<1>BeatStep. ASSUME UNCHANGED <<workers, req>>, \A c \in beats' : Kept(c),
             \A t \in Sandboxes : \E r : route'[t] = r /\ Backed(t, r)
      PROVE  Presence'
  <2> USE <1>BeatStep
  <2>1. Timely
    BY QuietTimely, Zenon DEF IInv, Presence
  <2>2. \A i \in Actors : \E x : req'[i] = x /\ (Covered(x) \/ Covered(x)')
    BY Zenon DEF Presence
  <2> QED
    BY <2>1, <2>2, PresenceStep, Zenon
\* A park that the new boot lists is fenced by the heartbeat that lists it.
<1>Retire. ASSUME RetireBeat(b) PROVE Presence'
  <2> USE <1>Retire
  <2>1. UNCHANGED <<workers, req>>
    BY ZenonT(30) DEF RetireBeat
  <2>2. \E owed : beats' = (beats \ {b}) \cup {WithStep(b, "retired", b.retired, owed)}
    BY ZenonT(30) DEF RetireBeat
  <2>3. \A c \in beats' : Kept(c)
    BY <2>2, <1>StepKept, Zenon
  <2>4. ASSUME NEW t \in Sandboxes PROVE Backed(t, AfterRetirement(route[t], b, t))
    <3> DEFINE r == route[t]
               after == AfterRetirement(r, b, t)
               q == Edit(r, "parked", b.boot, b.act, r.snap)
    <3>1. Backed(t, r) /\ (Exists(r) => r \in Live)
      BY ExistsLive, Zenon DEF Presence, IInv
    <3>2. CASE after = r
      BY <3>1, <3>2, Zenon
    <3>3. CASE after = q /\ Exists(r) /\ r.node = b.node /\ r.ws = "attached" /\ b.inv[t].gen = r.gen
      <4>1. /\ q.gen = r.gen /\ q.node = r.node /\ q.ws = r.ws /\ q.boot = b.boot /\ q.act = b.act
        BY ZenonT(30) DEF Edit
      <4>2. r.gen # 0
        BY <3>1, <3>3, LiveParts
      <4> HIDE DEF q
      <4>3. Vouched(q.node, t, q.gen, q.boot, q.act)
        BY <3>3, <4>1, <4>2, Zenon DEF Presence, Watched
      <4>4. Valid(q) /\ q.ws # "detached"
        BY <3>3, <4>1 DEF Valid
      <4> QED
        BY <3>3, <4>3, <4>4, BackedReceipt, Zenon
    <3>4. CASE after = Detached(r) /\ Recoverable(r)
      BY <3>1, <3>4, BackedDetached, Zenon
    <3>5. CASE after = NoRoute
      BY <3>5, BackedNew, Zenon
    <3> QED
      BY <3>2, <3>3, <3>4, <3>5, ZenonT(30) DEF AfterRetirement
  <2>5. ASSUME NEW t \in Sandboxes PROVE \E r : route'[t] = r /\ Backed(t, r)
    <3>1. route'[t] = AfterRetirement(route[t], b, t)
      BY DEF RetireBeat
    <3> QED
      BY <2>4, <3>1, Zenon
  <2> QED
    BY <2>1, <2>3, <2>5, <1>BeatStep, Zenon
\* A route that is observed takes the fence of the heartbeat that lists it.
<1>Reconcile. ASSUME ReconcileBeat(b) PROVE Presence'
  <2> USE <1>Reconcile
  <2>1. UNCHANGED <<workers, req>> /\ beats' = beats \ {b}
    BY ZenonT(30) DEF ReconcileBeat
  <2>2. \A c \in beats' : Kept(c)
    BY <2>1, Zenon DEF Kept
  <2>3. ASSUME ~ReconcileRaises(b), NEW t \in Sandboxes, NEW late
        PROVE  Backed(t, AfterReconcile(route[t], b, t, late))
    <3> DEFINE r == route[t]
               after == AfterReconcile(r, b, t, late)
               c == Observed(r, b, t)
    <3>1. Backed(t, r)
      BY Zenon DEF Presence
    <3>2. CASE after = r
      BY <3>1, <3>2, Zenon
    <3>3. CASE after = c /\ Exists(r) /\ b.inv[t].gen # 0 /\ Stable(b, t)
      <4>1. /\ c.gen = b.inv[t].gen /\ c.node = b.node /\ c.boot = b.boot /\ c.act = b.act
            /\ c.ws = r.ws /\ c.del = r.del
        BY SMTT(20) DEF Observed
      <4>2. Valid(c)
        BY <2>3, <3>3, Zenon DEF ReconcileRaises
      <4> HIDE DEF c
      <4>3. Vouched(c.node, t, c.gen, c.boot, c.act)
        BY <3>3, <4>1, Zenon DEF Presence, Watched
      <4>4. c.ws = "detached" => c.del = 0
        BY <3>3, <4>1, RouteFacts, Zenon
      <4> QED
        BY <3>3, <4>2, <4>3, <4>4, BackedReceipt, Zenon
    <3>4. CASE after = Detached(r) /\ Recoverable(r)
      BY <3>1, <3>4, BackedDetached, Zenon
    <3>5. CASE after = NoRoute
      BY <3>5, BackedNew, Zenon
    <3> QED
      BY <3>2, <3>3, <3>4, <3>5, ZenonT(30) DEF AfterReconcile
  <2>4. ASSUME NEW t \in Sandboxes PROVE \E r : route'[t] = r /\ Backed(t, r)
    <3>1. CASE ReconcileRaises(b)
      BY <3>1, Zenon DEF ReconcileBeat, Presence
    <3>2. CASE ~ReconcileRaises(b)
      <4>1. PICK late \in SUBSET Sandboxes :
              route' = [s \in Sandboxes |-> AfterReconcile(route[s], b, s, s \in late)]
        BY <3>2, Zenon DEF ReconcileBeat
      <4>2. route'[t] = AfterReconcile(route[t], b, t, t \in late)
        BY <4>1, Zenon
      <4> QED
        BY <2>3, <3>2, <4>2, Zenon
    <3> QED
      BY <3>1, <3>2
  <2> QED
    BY <2>1, <2>2, <2>4, <1>BeatStep, Zenon
\* The reaper takes up a delete.
<1>StartReap. ASSUME NEW n \in Nodes, NEW o \in b.owed, StartReap(n, b, o) PROVE Presence'
  <2> USE <1>StartReap
  <2>1. n \in Actors
    BY Zenon DEF Actors
  <2>2. Covered(Request("reap", "sent", o.s, o.held, NoAnswer))
    BY CoveredFree, Zenon
  <2> QED
    BY <2>1, <2>2, MoveStep, Zenon DEF StartReap
<1> QED
  BY <1>Receive, <1>Retire, <1>Reconcile, <1>StartReap, ZenonT(30) DEF BeatStep

\* Both initial predicates establish the presence invariant.
LEMMA InitPresent == Init \/ InitRunning => Presence
<1>1. ASSUME NEW r, NEW g, NEW x, Start(r, g, x), x.st # "none" => x.gen # 0,
             \A s \in Sandboxes : Backed(s, r)
      PROVE  Presence
  <2>1. \A n \in Nodes, s \in Sandboxes : box[n][s].st # "none" => box[n][s].gen # 0
    BY <1>1, Zenon DEF Start, NoBox
  <2>2. Watched
    BY <1>1, <2>1, Zenon DEF Start, Watched
  <2>3. \A s \in Sandboxes : Backed(s, route[s])
    BY <1>1, Zenon DEF Start
  <2>4. \A h \in Actors : Covered(req[h])
    BY <1>1, CoveredFree, Zenon DEF Start
  <2> QED
    BY <2>2, <2>3, <2>4, Zenon DEF Presence
<1>2. ASSUME Init PROVE Presence
  <2>1. NoBox.st = "none"
    BY DEF NoBox
  <2> QED
    BY <1>1, <1>2, <2>1, BackedNew, Zenon DEF Init
<1>3. ASSUME InitRunning PROVE Presence
  <2> DEFINE x == Box(1, "running", 0, FALSE)
  <2>1. PICK n \in Nodes : Start(Edit(Placed(1, n, 1, 0), "running", 1, 0, 0), 1, x)
    BY <1>3, Zenon DEF InitRunning
  <2> DEFINE r == Edit(Placed(1, n, 1, 0), "running", 1, 0, 0)
  <2>2. /\ r.node = n /\ r.gen = 1 /\ r.boot = 1 /\ r.act = 0 /\ r.ws = "attached" /\ x.gen = 1
    BY DEF Edit, Placed, Box
  <2> HIDE DEF r, x
  <2>3. \A s \in Sandboxes : box[n][s] = x
    BY <2>1, <2>2, Zenon DEF Start, r
  <2>4. beats = {}
    BY <2>1, Zenon DEF Start
  <2>5. ASSUME NEW s \in Sandboxes PROVE Backed(s, r)
    <3>1. Vouched(r.node, s, r.gen, r.boot, r.act)
      BY <2>2, <2>3, <2>4 DEF Vouched, Came
    <3>2. Valid(r) /\ r.ws # "detached"
      BY <2>2 DEF Valid
    <3> QED
      BY <3>1, <3>2, BackedReceipt, Zenon
  <2>6. x.gen # 0
    BY <2>2
  <2> QED
    BY <1>1, <2>1, <2>5, <2>6, Zenon DEF r
<1> QED
  BY <1>2, <1>3, Zenon

\* Every step of a request handler preserves it,
LEMMA HandlerPresent ==
  ASSUME IInv, IInv', Presence, NEW h \in Handlers, HandlerStep(h)
  PROVE  Presence'
<1>1. h \in Actors
  BY Zenon DEF Actors
<1> QED
  BY <1>1, CreatePresent, CommitPresent, BoxPresent, ZenonT(30) DEF HandlerStep

\* and so does every step of the fleet.
LEMMA NextPresent ==
  ASSUME IInv, Presence, [Next]_vars
  PROVE  Presence'
<1>1. IInv'
  BY NextOK
<1>2. ASSUME NEW n \in Nodes, WorkerStep(n) PROVE Presence'
  <2>1. n \in Actors
    BY Zenon DEF Actors
  <2> QED
    BY <1>1, <1>2, <2>1, WorkerPresent, BoxPresent, CreatePresent, ZenonT(30) DEF WorkerStep
<1>3. ASSUME NEW b \in beats, BeatStep(b) PROVE Presence'
  BY <1>1, <1>3, BeatPresent, Zenon
<1>4. CASE UNCHANGED vars
  <2>1. UNCHANGED <<route, req, workers, beats>>
    BY <1>4, Zenon DEF vars, gateway
  <2>2. Timely
    BY <2>1, StillTimely, Zenon DEF IInv, Presence
  <2> QED
    BY <1>1, <2>1, <2>2, QuietStep, Zenon
<1> QED
  BY <1>1, <1>2, <1>3, <1>4, HandlerPresent, Zenon DEF Next

\* Only the reconciliation of a heartbeat takes it away and touches a route.
LEMMA OnlyReconcile ==
  ASSUME [Next]_vars, NEW b \in beats, b.step = "retired", beats' = beats \ {b}
  PROVE  UNCHANGED route \/ ReconcileBeat(b)
<1>1. beats' # beats
  BY Zenon
<1>2. ASSUME NEW h \in Handlers, HandlerStep(h) PROVE FALSE
  <2>1. CASE \/ \E s \in Sandboxes, n \in Nodes : ChooseNode(h, s, n)
             \/ \E s \in Sandboxes : StartReplay(h, s) \/ StartPark(h, s) \/ StartWake(h, s)
             \/ \E s \in Sandboxes : PrepareDelete(h, s) \/ ReadAbsent(h, s)
             \/ \E s \in Sandboxes : StartDetach(h, s) \/ StartPublish(h, s)
             \/ \E n \in Nodes : Retarget(h, n)
    BY <1>1, <2>1, ZenonT(30) DEF ChooseNode, StartReplay, StartPark, StartWake, PrepareDelete,
       ReadAbsent, StartDetach, StartPublish, Retarget
  <2>2. CASE \/ ReadRecord(h) \/ Allocate(h) \/ WorkerCreate(h) \/ StampCreate(h) \/ WorkerReject(h)
             \/ WorkerRollBack(h) \/ ConfirmCreate(h) \/ AbandonCreate(h) \/ WorkerPark(h)
             \/ DescribePark(h) \/ WorkerWake(h) \/ WorkerWakeFails(h) \/ ValidateReceipt(h)
             \/ CommitPark(h) \/ CommitWake(h) \/ RollBackWake(h)
    BY <1>1, <2>2, ZenonT(30) DEF ReadRecord, Allocate, WorkerCreate, StampCreate, WorkerReject,
       WorkerRollBack, ConfirmCreate, AbandonCreate, WorkerPark, DescribePark, WorkerWake,
       WorkerWakeFails, ValidateReceipt, CommitPark, CommitWake, RollBackWake
  <2>3. CASE \/ DeleteAbsent(h) \/ WorkerDelete(h) \/ CommitDelete(h) \/ WorkerPublish(h)
             \/ CommitDetachSnapshot(h) \/ BeginDetach(h) \/ WorkerEvict(h) \/ CompleteDetach(h)
             \/ ReadForAccept(h) \/ UpsertAccepted(h) \/ AcceptAtomically(h) \/ Forget(h)
    BY <1>1, <2>3, ZenonT(30) DEF DeleteAbsent, WorkerDelete, CommitDelete, WorkerPublish,
       CommitDetachSnapshot, BeginDetach, WorkerEvict, CompleteDetach, ReadForAccept,
       UpsertAccepted, AcceptAtomically, Forget
  <2> QED
    BY <1>2, <2>1, <2>2, <2>3, ZenonT(30) DEF HandlerStep
<1>3. ASSUME NEW n \in Nodes, WorkerStep(n) PROVE UNCHANGED route
  BY <1>1, <1>3, ZenonT(30) DEF WorkerStep, Reboot, Sample, IdlePark, Publish, WorkerDelete,
     CommitDelete, Forget, gateway
<1>4. ASSUME NEW c \in beats, BeatStep(c) PROVE UNCHANGED route \/ ReconcileBeat(b)
  <2>1. CASE RetireBeat(c)
    <3>1. c # b
      BY <2>1, Zenon DEF RetireBeat
    <3> QED
      BY <2>1, <3>1, Zenon DEF RetireBeat
  <2>2. CASE ReconcileBeat(c)
    <3>1. c = b
      BY <2>2, Zenon DEF ReconcileBeat
    <3> QED
      BY <2>2, <3>1, Zenon
  <2> QED
    BY <1>4, <2>1, <2>2, ZenonT(30) DEF BeatStep, ReceiveBeat, DropBeat, StartReap, gateway
<1> QED
  BY <1>2, <1>3, <1>4, Zenon DEF Next, vars, gateway

\* The inventory proves absence: what it removes or detaches is not on the worker.
LEMMA AbsenceHolds ==
  ASSUME IInv, Presence, NEW b \in beats, ReconcileBeat(b), NEW s \in Sandboxes, Exists(route[s]),
         ~Exists(route'[s]) \/ (route[s].ws # "detached" /\ route'[s].ws = "detached")
  PROVE  box[b.node][s].gen # route[s].gen
<1> DEFINE r == route[s]
           c == Observed(r, b, s)
<1>1. ~(route'[s] = r)
  BY Zenon
<1>2. PICK late \in SUBSET Sandboxes : route'[s] = AfterReconcile(r, b, s, s \in late)
  BY <1>1, Zenon DEF ReconcileBeat
<1>3. Stable(b, s) => Exists(c) /\ c.ws = r.ws
  <2>1. c.ws = r.ws /\ c.state = b.inv[s].st
    BY SMTT(20) DEF Observed
  <2> HIDE DEF c
  <2> QED
    BY ZenonT(30), <2>1 DEF Stable, Exists
<1> HIDE DEF c
<1>4. /\ b.inv[s].gen = 0 /\ AbsenceProved(r, b)
      /\ route'[s] = IF Recoverable(r) THEN Detached(r) ELSE NoRoute
  BY <1>1, <1>2, <1>3, ZenonT(30) DEF AfterReconcile, c
<1>5. /\ r.node = b.node /\ r.boot \in {0, b.boot} /\ r.state # "creating" /\ r.act <= b.act
  BY <1>4, Zenon DEF AbsenceProved
<1>6. r.ws # "detached"
  <2>1. SUFFICES ASSUME r.ws = "detached" PROVE FALSE
    OBVIOUS
  <2>2. Valid(r) /\ r.del = 0
    BY <2>1, RouteFacts, Zenon
  <2>3. Recoverable(r)
    BY ZenonT(30), <2>1, <2>2 DEF Valid, Recoverable
  <2>4. Exists(Detached(r))
    BY <2>3 DEF Recoverable, IsPortable, Detached, Exists
  <2> QED
    BY <1>4, <2>1, <2>3, <2>4, Zenon
<1>7. Vouched(r.node, s, r.gen, r.boot, r.act)
  BY <1>5, <1>6, RouteFacts, Zenon DEF Backed
<1>8. r.act \in Nat /\ b.act \in Nat
  <2>1. r \in Live
    BY ExistsLive, Zenon DEF IInv
  <2> QED
    BY <2>1, LiveParts DEF IInv, BeatsOK, Beats
<1>9. r.boot = b.boot
  BY <1>5, <1>7 DEF Vouched
<1>10. box[b.node][s].gen = r.gen => b.act < r.act
  BY <1>4, <1>5, <1>7, <1>9, Zenon DEF Vouched
<1> QED
  BY <1>5, <1>8, <1>10

\* When a heartbeat removes or detaches a route, its worker does not have that
\* incarnation at that moment, whatever was sampled, delayed, lost or reordered
\* since: AbsenceIsReal, in both modes and across reboots.
THEOREM AbsenceSafe == (Spec => AbsenceIsReal) /\ (RunningSpec => AbsenceIsReal)
<1> DEFINE A == \A b \in beats : b.step = "retired" /\ beats' = beats \ {b} =>
                  \A s \in Sandboxes :
                    /\ Exists(route[s])
                    /\ ~Exists(route'[s]) \/ (route[s].ws # "detached" /\ route'[s].ws = "detached")
                    => box[b.node][s].gen # route[s].gen
<1>1. ASSUME IInv, Presence, [Next]_vars PROVE A
  BY <1>1, OnlyReconcile, AbsenceHolds, Zenon
<1>2. ASSUME IInv, Presence, [Next]_vars PROVE [A]_vars
  BY <1>1, <1>2, Zenon
<1>3. Spec => [](IInv /\ Presence)
  BY InitOK, InitPresent, NextOK, NextPresent, PTL DEF Spec
<1>4. RunningSpec => [](IInv /\ Presence)
  BY InitOK, InitPresent, NextOK, NextPresent, PTL DEF RunningSpec
<1> QED
  BY <1>2, <1>3, <1>4, PTL DEF Spec, RunningSpec, AbsenceIsReal

-----------------------------------------------------------------------------
(* Detached routes, when no create is under way: a receipt that was taken    *)
(* while the route was attached is the one thing that brings it back to its  *)
(* former worker.                                                            *)

\* No create or replay is served, and a publication is accepted in one
\* transaction.
Uncreated == Operations \cap {"create", "replay"} = {} /\ (Distributed \/ "publish" \notin Operations)

\* The requests there are then; a DELETE that found no route still finds none.
Plain(x) ==
  /\ x.op \notin {"create", "replay", "get"}
  /\ x.op = "publish" => "publish" \in Operations
  /\ x.step = "absent" => ~Exists(route[x.s])

\* A step does not insert a route, and leaves a detached one detached and
\* portable unless a DELETE ends it.
Gentle(s) ==
  /\ ~Exists(route[s]) => ~Exists(route'[s])
  /\ Exists(route[s]) /\ route[s].ws = "detached" =>
       \/ IsPortable(route'[s]) /\ route'[s].ws = "detached"
       \/ dels'[s] > dels[s]

\* A route that is left alone.
LEMMA GentleSame ==
  ASSUME Presence, NEW s \in Sandboxes, route'[s] = route[s]
  PROVE  Gentle(s)
BY RouteFacts DEF Gentle, Valid

\* A route that is attached when it is written, or stays detached and portable.
LEMMA GentleWrite ==
  ASSUME IInv, Presence, NEW s \in Sandboxes, NEW r,
         \/ UNCHANGED route
         \/ /\ route' = [route EXCEPT ![s] = r] /\ Exists(route[s])
            /\ route[s].ws # "detached" \/ (IsPortable(r) /\ r.ws = "detached"),
         NEW t \in Sandboxes
  PROVE  Gentle(t)
<1>1. route \in [Sandboxes -> Live \cup {NoRoute}]
  BY Zenon DEF IInv, GatewayOK
<1>2. CASE route'[t] = route[t]
  BY <1>2, GentleSame, Zenon
<1>3. CASE /\ t = s /\ route'[t] = r /\ Exists(route[s])
           /\ route[s].ws # "detached" \/ (IsPortable(r) /\ r.ws = "detached")
  BY <1>3, Zenon DEF Gentle
<1> QED
  BY <1>1, <1>2, <1>3, Zenon

\* A write of a commit.
LEMMA GentleCommit ==
  ASSUME IInv, Presence, NEW s \in Sandboxes, NEW r,
         \/ UNCHANGED gateway
         \/ /\ Write(s, r) /\ Exists(route[s])
            /\ route[s].ws # "detached" \/ (IsPortable(r) /\ r.ws = "detached"),
         NEW t \in Sandboxes
  PROVE  Gentle(t)
<1>1. UNCHANGED gateway => UNCHANGED route
  BY Zenon DEF gateway
<1>2. Write(s, r) => route' = [route EXCEPT ![s] = r]
  BY Zenon DEF Write
<1> QED
  BY <1>1, <1>2, GentleWrite, Zenon

\* A wake takes an attached route.
LEMMA StartWakeGentle ==
  ASSUME IInv, Presence, NEW h \in Actors, NEW s \in Sandboxes, StartWake(h, s), NEW t \in Sandboxes
  PROVE  Gentle(t)
<1> DEFINE w == IF route[s].state = "parked"
                THEN Edit(route[s], "waking", route[s].boot, route[s].act, route[s].snap) ELSE route[s]
<1>1. Write(s, w)
  BY Zenon DEF StartWake
<1>2. Exists(route[s]) /\ route[s].ws # "detached"
  BY DEF StartWake, Exists
<1> QED
  BY <1>1, <1>2, GentleCommit, Zenon

\* A park, a wake and its roll back are committed to the attachment they were
\* requested for.
LEMMA CommitsGentle ==
  ASSUME IInv, Presence, NEW h \in Actors, CommitPark(h) \/ CommitWake(h) \/ RollBackWake(h),
         NEW t \in Sandboxes
  PROVE  Gentle(t)
<1> DEFINE s == req[h].s
           held == req[h].held
           a == req[h].ans
           cur == route[s]
           p == Edit(cur, a.st, a.boot, a.act,
                     IF a.st = "running" THEN 0 ELSE IF a.snap # 0 THEN a.snap ELSE cur.snap)
<1>1. /\ req[h].op \in {"park", "wake"} /\ req[h].step \in {"valid", "answered"}
  BY ZenonT(30) DEF CommitPark, CommitWake, RollBackWake, At
<1>2. s \in Sandboxes /\ Covered(req[h])
  BY <1>1, ReqFacts
<1>3. CASE CommitPark(h)
  <2>1. \/ Write(s, p) /\ Valid(p) /\ cur.state \in {"running", "waking", "parked"}
        \/ UNCHANGED gateway
    BY <1>3, Zenon DEF CommitPark, SetStateAllowed
  <2>2. p.ws = cur.ws
    BY DEF Edit
  <2>3. cur.state \in {"running", "waking", "parked"} => Exists(cur)
    BY DEF Exists
  <2> HIDE DEF p
  <2>4. Valid(p) => cur.ws # "detached" \/ (IsPortable(p) /\ p.ws = "detached")
    BY <2>2 DEF Valid
  <2> QED
    BY <1>2, <2>1, <2>3, <2>4, GentleCommit, Zenon
<1>4. CASE CommitWake(h) \/ RollBackWake(h)
  <2>1. req[h].op = "wake"
    BY <1>4, Zenon DEF CommitWake, RollBackWake, At
  <2>2. held.ws = "attached"
    BY <1>2, <2>1, Zenon DEF Covered
  <2>3. \/ (\E r : Write(s, r)) /\ cur.state \in {"running", "waking", "parked"} /\ cur.ws = held.ws
        \/ UNCHANGED gateway
    <3>1. CASE CommitWake(h)
      BY <3>1, ZenonT(30) DEF CommitWake, SetStateAllowed
    <3>2. CASE RollBackWake(h)
      BY <3>2, Zenon DEF RollBackWake, SetStateAllowed
    <3> QED
      BY <1>4, <3>1, <3>2, ZenonT(30)
  <2>4. cur.state \in {"running", "waking", "parked"} /\ cur.ws = held.ws => Exists(cur) /\ cur.ws # "detached"
    BY <2>2 DEF Exists
  <2>5. ASSUME NEW r, Write(s, r), Exists(cur), cur.ws # "detached" PROVE Gentle(t)
    BY <1>2, <2>5, GentleCommit, Zenon
  <2>6. CASE UNCHANGED gateway
    BY <2>6, GentleSame, Zenon DEF gateway
  <2> QED
    BY <2>3, <2>4, <2>5, <2>6, Zenon
<1> QED
  BY <1>3, <1>4

\* A DELETE removes a detached route at once, and any other without one.
LEMMA DeletesGentle ==
  ASSUME IInv, Presence, NEW h \in Actors, \A i \in Actors : Plain(req[i]),
         (\E s \in Sandboxes : PrepareDelete(h, s)) \/ DeleteAbsent(h) \/ CommitDelete(h),
         NEW t \in Sandboxes
  PROVE  Gentle(t)
<1>1. ASSUME NEW s \in Sandboxes, PrepareDelete(h, s) PROVE Gentle(t)
  <2> DEFINE cur == route[s]
             r == IF cur.del # 0 THEN cur ELSE WithDelete(cur, dels[s] + 1)
             q == IF r.ws = "detached" THEN NoRoute ELSE r
  <2>1. Exists(cur) /\ route' = [route EXCEPT ![s] = q] /\ dels' = [dels EXCEPT ![s] = IF cur.del # 0 THEN @ ELSE @ + 1]
    BY <1>1, Zenon DEF PrepareDelete
  <2>2. CASE t = s /\ cur.ws = "detached"
    <3>1. cur.del = 0
      BY <2>1, <2>2, RouteFacts, Zenon
    <3>2. dels[s] \in Nat /\ dels'[s] = dels[s] + 1
      BY <2>1, <3>1, Bounds DEF IInv, GatewayOK
    <3> QED
      BY <2>1, <2>2, <3>2 DEF Gentle
  <2>3. CASE cur.ws # "detached"
    BY <2>1, <2>3, GentleWrite, Zenon
  <2>4. CASE t # s
    <3>1. route'[t] = route[t]
      BY <2>1, <2>4, Zenon DEF IInv, GatewayOK
    <3> QED
      BY <3>1, GentleSame, Zenon
  <2> QED
    BY <2>2, <2>3, <2>4, Zenon
<1>2. CASE DeleteAbsent(h)
  <2>1. req[h].step = "absent" /\ route' = [route EXCEPT ![req[h].s] = NoRoute]
    BY <1>2, Zenon DEF DeleteAbsent, At, Remove
  <2>2. ~Exists(route[req[h].s])
    BY <2>1, Zenon DEF Plain
  <2>3. CASE t = req[h].s
    BY <2>1, <2>2, <2>3, Nulls, ZenonT(30) DEF Gentle, IInv, GatewayOK
  <2>4. CASE t # req[h].s
    BY <2>1, <2>4, GentleSame, Zenon DEF IInv, GatewayOK
  <2> QED
    BY <2>3, <2>4
<1>3. CASE CommitDelete(h)
  <2> DEFINE s == req[h].s
  <2>1. \/ /\ route' = [route EXCEPT ![s] = NoRoute] /\ route[s].del # 0
        \/ UNCHANGED route
    BY <1>3, ZenonT(30) DEF CommitDelete, Remove, gateway
  <2>2. s \in Sandboxes
    BY <1>3, ReqFacts, ZenonT(30) DEF CommitDelete
  <2>3. route[s].del # 0 => Exists(route[s])
    BY <2>2, ExistsLive DEF IInv, NoRoute
  <2>4. Exists(route[s]) /\ route[s].del # 0 => route[s].ws # "detached"
    BY <2>2, RouteFacts, Zenon
  <2> QED
    BY <2>1, <2>2, <2>3, <2>4, GentleWrite, Zenon
<1> QED
  BY <1>1, <1>2, <1>3, Zenon

\* A detach takes a route that is not detached yet.
LEMMA DetachesGentle ==
  ASSUME IInv, Presence, NEW h \in Actors,
         \/ \E s \in Sandboxes : StartDetach(h, s)
         \/ CommitDetachSnapshot(h) \/ BeginDetach(h) \/ CompleteDetach(h),
         NEW t \in Sandboxes
  PROVE  Gentle(t)
<1>1. ASSUME NEW s \in Sandboxes, NEW r, Write(s, r), route[s].state = "parked", route[s].ws # "detached"
      PROVE  Gentle(t)
  <2>1. Exists(route[s])
    BY <1>1 DEF Exists
  <2> QED
    BY <1>1, <2>1, GentleCommit, Zenon
<1>2. CASE UNCHANGED gateway
  BY <1>2, GentleSame, Zenon DEF gateway
<1>3. ASSUME NEW s \in Sandboxes, StartDetach(h, s) PROVE Gentle(t)
  BY <1>1, <1>2, <1>3, Zenon DEF StartDetach
<1>4. CASE CommitDetachSnapshot(h)
  <2>1. Covered(req[h]) /\ req[h].s \in Sandboxes
    BY <1>4, ReqFacts, Zenon DEF CommitDetachSnapshot, At
  <2>2. req[h].held.ws = "attached"
    BY <1>4, <2>1, Zenon DEF Covered, CommitDetachSnapshot, At
  <2>3. \/ \E r : /\ Write(req[h].s, r) /\ route[req[h].s].state = "parked"
                  /\ route[req[h].s].ws = "attached"
        \/ UNCHANGED gateway
    BY <1>4, <2>2, ZenonT(30) DEF CommitDetachSnapshot, SetStateAllowed
  <2>4. "attached" # "detached"
    OBVIOUS
  <2> QED
    BY <1>1, <1>2, <2>1, <2>3, <2>4, Zenon
<1>5. CASE BeginDetach(h) \/ CompleteDetach(h)
  <2>1. req[h].s \in Sandboxes
    BY <1>5, ReqFacts, ZenonT(30) DEF BeginDetach, CompleteDetach, At
  <2>2. \/ \E r : /\ Write(req[h].s, r) /\ route[req[h].s].state = "parked"
                  /\ route[req[h].s].ws # "detached"
        \/ UNCHANGED gateway
    <3>1. CASE BeginDetach(h)
      BY <3>1, Zenon DEF BeginDetach, IsPortable
    <3>2. CASE CompleteDetach(h)
      BY <3>2, ZenonT(30) DEF CompleteDetach, IsPortable
    <3> QED
      BY <1>5, <3>1, <3>2, Zenon
  <2> QED
    BY <1>1, <1>2, <2>1, <2>2, Zenon
<1> QED
  BY <1>3, <1>4, <1>5, Zenon

\* A publication is accepted for the attachment it was asked for.
LEMMA AcceptGentle ==
  ASSUME IInv, Presence, NEW h \in Actors, AcceptAtomically(h), NEW t \in Sandboxes
  PROVE  Gentle(t)
<1>1. req[h].op = "publish" /\ Covered(req[h]) /\ req[h].s \in Sandboxes
  BY ReqFacts, Zenon DEF AcceptAtomically, At
<1>2. req[h].held.ws = "attached"
  BY <1>1, Zenon DEF Covered
<1>3. \/ \E r : Write(req[h].s, r) /\ Exists(route[req[h].s]) /\ route[req[h].s].ws # "detached"
      \/ UNCHANGED gateway
  <2>1. Acceptable(route[req[h].s], req[h].held)
        => Exists(route[req[h].s]) /\ route[req[h].s].ws # "detached"
    BY <1>2 DEF Acceptable, Exists
  <2> QED
    BY <2>1, Zenon DEF AcceptAtomically
<1>4. CASE UNCHANGED gateway
  BY <1>4, GentleSame, Zenon DEF gateway
<1> QED
  BY <1>1, <1>3, <1>4, GentleCommit, Zenon

\* A retirement and a reconciliation insert nothing, and leave a detached route
\* detached.
LEMMA BeatsGentle ==
  ASSUME IInv, Presence, NEW b \in beats, RetireBeat(b) \/ ReconcileBeat(b), NEW t \in Sandboxes
  PROVE  Gentle(t)
<1> DEFINE r == route[t]
           c == Observed(r, b, t)
<1>1. Exists(r) /\ r.ws = "detached" => IsPortable(r) /\ Recoverable(r)
  BY RouteFacts DEF Valid, Recoverable
<1>2. r.ws = "detached" /\ IsPortable(r) => IsPortable(Detached(r)) /\ Detached(r).ws = "detached"
  BY Zenon DEF Detached, IsPortable
<1>3. CASE route'[t] = r
  BY <1>3, GentleSame, Zenon
<1>4. CASE RetireBeat(b)
  <2>1. route'[t] = AfterRetirement(r, b, t)
    BY <1>4, Zenon DEF RetireBeat
  <2>2. ~Exists(r) => AfterRetirement(r, b, t) = r
    BY Zenon DEF AfterRetirement
  <2>3. Exists(r) /\ r.ws = "detached" => AfterRetirement(r, b, t) \in {r, Detached(r)}
    <3>1. "attached" # "detached"
      OBVIOUS
    <3> QED
      BY <1>1, <3>1, ZenonT(30) DEF AfterRetirement
  <2> QED
    BY <1>1, <1>2, <2>1, <2>2, <2>3, Zenon DEF Gentle
<1>5. CASE ReconcileBeat(b) /\ route'[t] # r
  <2>1. PICK late \in SUBSET Sandboxes : route'[t] = AfterReconcile(r, b, t, t \in late)
    BY <1>5, Zenon DEF ReconcileBeat
  <2>2. ~ReconcileRaises(b)
    BY <1>5, Zenon DEF ReconcileBeat
  <2>3. Exists(r)
    BY <1>5, <2>1, Zenon DEF AfterReconcile
  <2>4. c.ws = r.ws
    BY Zenon DEF Observed
  <2>5. r.ws = "detached" =>
          \/ route'[t] = Detached(r)
          \/ route'[t] = c /\ Valid(c)
    BY <1>1, <1>5, <2>1, <2>2, <2>3, ZenonT(30) DEF AfterReconcile, ReconcileRaises
  <2> HIDE DEF c
  <2>6. r.ws = "detached" /\ Valid(c) => IsPortable(c) /\ c.ws = "detached"
    BY <2>4, Zenon DEF Valid
  <2> QED
    BY <1>1, <1>2, <2>3, <2>5, <2>6, Zenon DEF Gentle
<1> QED
  BY <1>3, <1>4, <1>5, Zenon

-----------------------------------------------------------------------------
(* Which requests there are.                                               *)

\* Handler h starts a request other than a create, or goes on with its own.
Follows(h) ==
  \E x : /\ req' = [req EXCEPT ![h] = x] /\ x.step # "absent"
         /\ \/ x.op \in {"none", "park", "wake", "delete", "reap", "detach", "evict", req[h].op}
            \/ x.op = "publish" /\ "publish" \in Operations

\* A request that starts, moves on or ends.
LEMMA FollowsForms ==
  ASSUME NEW h
  PROVE  /\ Finish(h) => Follows(h)
         /\ \A step, held, ans : Goto(h, step, held, ans) /\ step # "absent" => Follows(h)
         /\ \A op, step, s, held, ans :
              /\ req' = [req EXCEPT ![h] = Request(op, step, s, held, ans)] /\ step # "absent"
              /\ \/ op \in {"park", "wake", "delete", "reap", "detach", "evict"}
                 \/ op = "publish" /\ "publish" \in Operations
              => Follows(h)
<1>1. Idle.op = "none" /\ Idle.step # "absent"
  BY DEF Idle
<1>2. Finish(h) => Follows(h)
  BY <1>1, Zenon DEF Finish, Follows
<1>3. ASSUME NEW step, NEW held, NEW ans, Goto(h, step, held, ans), step # "absent" PROVE Follows(h)
  <2> DEFINE x == Request(req[h].op, step, req[h].s, held, ans)
  <2>1. req' = [req EXCEPT ![h] = x]
    BY <1>3, Zenon DEF Goto
  <2>2. x.op = req[h].op /\ x.step = step
    BY DEF Request
  <2> HIDE DEF x
  <2> QED
    BY <1>3, <2>1, <2>2, Zenon DEF Follows
<1>4. ASSUME NEW op, NEW step, NEW s, NEW held, NEW ans,
             req' = [req EXCEPT ![h] = Request(op, step, s, held, ans)], step # "absent",
             \/ op \in {"park", "wake", "delete", "reap", "detach", "evict"}
             \/ op = "publish" /\ "publish" \in Operations
      PROVE  Follows(h)
  <2> DEFINE x == Request(op, step, s, held, ans)
  <2>1. req' = [req EXCEPT ![h] = x]
    BY <1>4, Zenon
  <2>2. x.op = op /\ x.step = step
    BY DEF Request
  <2> HIDE DEF x
  <2> QED
    BY <1>4, <2>1, <2>2, Zenon DEF Follows
<1> QED
  BY <1>2, <1>3, <1>4, Zenon

\* Without creates, every step of a handler is one of these; ReadAbsent apart,
\* they go on with a request or start one that is no create.
LEMMA HandlerFollows ==
  ASSUME Uncreated, NEW h \in Actors, Plain(req[h]), HandlerStep(h)
  PROVE  Follows(h) \/ \E s \in Sandboxes : ReadAbsent(h, s)
<1>1. /\ "create" \notin Operations /\ "replay" \notin Operations
      /\ req[h].op # "create" /\ req[h].op # "replay" /\ req[h].op # "get"
  BY Zenon DEF Uncreated, Plain
<1>2. /\ "sent" # "absent" /\ "recorded" # "absent" /\ "answered" # "absent" /\ "valid" # "absent"
  OBVIOUS
<1>3. CASE \E s \in Sandboxes : StartReplay(h, s) \/ \E n \in Nodes : ChooseNode(h, s, n)
  BY <1>1, <1>3, Zenon DEF ChooseNode, StartReplay
<1>4. CASE \E n \in Nodes : Retarget(h, n)
  BY <1>1, <1>4, Zenon DEF Retarget, At
<1>5. CASE \/ ReadRecord(h) \/ Allocate(h) \/ WorkerCreate(h) \/ StampCreate(h) \/ WorkerReject(h)
           \/ WorkerRollBack(h) \/ ConfirmCreate(h) \/ AbandonCreate(h)
  BY <1>1, <1>5, ZenonT(30) DEF ReadRecord, Allocate, WorkerCreate, StampCreate, WorkerReject,
     WorkerRollBack, ConfirmCreate, AbandonCreate, At, Creating
<1>6. ASSUME NEW s \in Sandboxes, StartPark(h, s) \/ StartWake(h, s) \/ StartPublish(h, s)
      PROVE  Follows(h)
  <2>1. \E op, held : /\ req' = [req EXCEPT ![h] = Request(op, "sent", s, held, NoAnswer)]
                      /\ \/ op \in {"park", "wake"}
                         \/ op = "publish" /\ "publish" \in Operations
    <3>1. CASE StartPark(h, s)
      BY <3>1, Zenon DEF StartPark
    <3>2. CASE StartWake(h, s)
      BY <3>2, Zenon DEF StartWake
    <3>3. CASE StartPublish(h, s)
      BY <3>3, Zenon DEF StartPublish
    <3> QED
      BY ZenonT(30), <1>6, <3>1, <3>2, <3>3
  <2> QED
    BY <1>2, <2>1, FollowsForms, Zenon
<1>7. ASSUME NEW s \in Sandboxes, PrepareDelete(h, s) PROVE Follows(h)
  <2> DEFINE r == IF route[s].del # 0 THEN route[s] ELSE WithDelete(route[s], dels[s] + 1)
  <2>1. req' = [req EXCEPT ![h] = IF r.ws = "attached"
                                  THEN Request("delete", "sent", s, Identity(r), NoAnswer)
                                  ELSE Idle]
    BY <1>7, Zenon DEF PrepareDelete
  <2> HIDE DEF r
  <2>2. \/ req' = [req EXCEPT ![h] = Request("delete", "sent", s, Identity(r), NoAnswer)]
        \/ Finish(h)
    BY <2>1, Zenon DEF Finish
  <2> QED
    BY <1>2, <2>2, FollowsForms, ZenonT(30)
<1>8. ASSUME NEW s \in Sandboxes, StartDetach(h, s) PROVE Follows(h)
  <2>1. \E op, held : /\ req' = [req EXCEPT ![h] = Request(op, "sent", s, held, NoAnswer)]
                      /\ op \in {"detach", "evict"}
    BY <1>8, Zenon DEF StartDetach
  <2> QED
    BY <1>2, <2>1, FollowsForms, Zenon
<1>9. CASE \/ WorkerPark(h) \/ DescribePark(h) \/ WorkerWake(h) \/ WorkerWakeFails(h)
           \/ ValidateReceipt(h) \/ CommitPark(h) \/ CommitWake(h) \/ RollBackWake(h)
  BY <1>2, <1>9, FollowsForms, ZenonT(30) DEF WorkerPark, DescribePark, WorkerWake,
     WorkerWakeFails, ValidateReceipt, CommitPark, CommitWake, RollBackWake
<1>10. CASE \/ DeleteAbsent(h) \/ WorkerDelete(h) \/ CommitDelete(h) \/ WorkerPublish(h)
            \/ CommitDetachSnapshot(h) \/ BeginDetach(h) \/ WorkerEvict(h) \/ CompleteDetach(h)
            \/ ReadForAccept(h) \/ UpsertAccepted(h) \/ AcceptAtomically(h) \/ Forget(h)
  BY <1>2, <1>10, FollowsForms, ZenonT(30) DEF DeleteAbsent, WorkerDelete, CommitDelete,
     WorkerPublish, CommitDetachSnapshot, BeginDetach, WorkerEvict, CompleteDetach,
     ReadForAccept, UpsertAccepted, AcceptAtomically, Forget
<1> QED
  BY <1>3, <1>4, <1>5, <1>6, <1>7, <1>8, <1>9, <1>10, ZenonT(30) DEF HandlerStep

\* No step of a handler takes a detached route from its snapshot.
LEMMA HandlerGentle ==
  ASSUME IInv, Presence, Uncreated, \A i \in Actors : Plain(req[i]),
         NEW h \in Actors, HandlerStep(h), NEW t \in Sandboxes
  PROVE  Gentle(t)
<1>1. /\ "create" \notin Operations /\ "replay" \notin Operations
      /\ req[h].op # "create" /\ req[h].op # "replay" /\ req[h].op # "get"
  BY Zenon DEF Uncreated, Plain
<1>2. ASSUME UNCHANGED gateway PROVE Gentle(t)
  BY <1>2, GentleSame, Zenon DEF gateway
<1>3. CASE \E s \in Sandboxes, n \in Nodes : ChooseNode(h, s, n) \/ Retarget(h, n)
  BY <1>1, <1>3, Zenon DEF ChooseNode, Retarget, At
<1>4. CASE \E n \in Nodes : Retarget(h, n)
  BY <1>1, <1>4, Zenon DEF Retarget, At
<1>5. CASE \/ ReadRecord(h) \/ Allocate(h) \/ WorkerCreate(h) \/ StampCreate(h) \/ WorkerReject(h)
           \/ WorkerRollBack(h) \/ ConfirmCreate(h) \/ AbandonCreate(h)
  BY <1>1, <1>5, ZenonT(30) DEF ReadRecord, Allocate, WorkerCreate, StampCreate, WorkerReject,
     WorkerRollBack, ConfirmCreate, AbandonCreate, At, Creating
<1>6. CASE \E s \in Sandboxes : StartReplay(h, s) \/ StartPark(h, s) \/ ReadAbsent(h, s) \/ StartPublish(h, s)
  BY <1>2, <1>6, ZenonT(30) DEF StartReplay, StartPark, ReadAbsent, StartPublish
<1>7. CASE \/ WorkerPark(h) \/ DescribePark(h) \/ WorkerWake(h) \/ WorkerWakeFails(h)
           \/ ValidateReceipt(h) \/ WorkerDelete(h) \/ WorkerPublish(h) \/ WorkerEvict(h)
           \/ ReadForAccept(h) \/ Forget(h)
  BY <1>2, <1>7, ZenonT(30) DEF WorkerPark, DescribePark, WorkerWake, WorkerWakeFails,
     ValidateReceipt, WorkerDelete, WorkerPublish, WorkerEvict, ReadForAccept, Forget
<1>8. CASE UpsertAccepted(h)
  <2>1. req[h].op = "publish" /\ req[h].step = "valid"
    BY <1>8, Zenon DEF UpsertAccepted, At
  <2>2. req[h] # Idle
    BY <2>1 DEF Idle
  <2>3. ~Distributed
    BY <2>1, <2>2, Zenon DEF IInv, ReqOK, AnswerOK
  <2>4. "publish" \in Operations
    BY <2>1, Zenon DEF Plain
  <2> QED
    BY <2>3, <2>4, Zenon DEF Uncreated
<1>9. CASE \/ \E s \in Sandboxes : StartWake(h, s) \/ PrepareDelete(h, s) \/ StartDetach(h, s)
           \/ CommitPark(h) \/ CommitWake(h) \/ RollBackWake(h) \/ DeleteAbsent(h)
           \/ CommitDelete(h) \/ CommitDetachSnapshot(h) \/ BeginDetach(h) \/ CompleteDetach(h)
           \/ AcceptAtomically(h)
  BY <1>9, StartWakeGentle, CommitsGentle, DeletesGentle, DetachesGentle, AcceptGentle, ZenonT(30)
<1> QED
  BY <1>3, <1>4, <1>5, <1>6, <1>7, <1>8, <1>9, ZenonT(30) DEF HandlerStep

\* The requests stay plain: no route comes back under a DELETE that found none.
LEMMA PlainStep ==
  ASSUME IInv, IInv', \A i \in Actors : Plain(req[i]), \A s \in Sandboxes : Gentle(s),
         \/ UNCHANGED req
         \/ \E h \in Actors : Follows(h) \/ \E s \in Sandboxes : ReadAbsent(h, s)
  PROVE  \A i \in Actors : Plain(req[i])'
<1> SUFFICES ASSUME NEW i \in Actors PROVE Plain(req[i])'
  BY Zenon
<1>1. CASE req'[i] = req[i]
  <2>1. req[i].step = "absent" => req[i].s \in Sandboxes
    BY DEF IInv, ReqOK, Active, Absent, Idle, Steps, Request
  <2> QED
    BY <1>1, <2>1, ZenonT(30) DEF Plain, Gentle
<1>2. ASSUME NEW h \in Actors, Follows(h), req'[i] # req[i] PROVE Plain(req[i])'
  <2>1. PICK x : /\ req' = [req EXCEPT ![h] = x] /\ x.step # "absent"
                 /\ \/ x.op \in {"none", "park", "wake", "delete", "reap", "detach", "evict", req[h].op}
                    \/ x.op = "publish" /\ "publish" \in Operations
    BY <1>2, Zenon DEF Follows
  <2>2. i = h /\ req'[i] = x
    BY <1>2, <2>1, Zenon DEF IInv, ReqOK
  <2>3. Plain(req[h])
    BY Zenon
  <2>4. x.op \notin {"create", "replay", "get"} /\ (x.op = "publish" => "publish" \in Operations)
    BY <2>1, <2>3, Zenon DEF Plain
  <2> QED
    BY <2>1, <2>2, <2>4, Zenon DEF Plain
<1>3. ASSUME NEW h \in Actors, NEW s \in Sandboxes, ReadAbsent(h, s), req'[i] # req[i] PROVE Plain(req[i])'
  <2> DEFINE x == Request("delete", "absent", s, NoRoute, NoAnswer)
  <2>1. req' = [req EXCEPT ![h] = x] /\ ~Exists(route[s]) /\ UNCHANGED route
    BY <1>3, Zenon DEF ReadAbsent, gateway
  <2>2. x.op = "delete" /\ x.s = s
    BY DEF Request
  <2> HIDE DEF x
  <2>3. req'[i] = x
    BY <1>3, <2>1, Zenon DEF IInv, ReqOK
  <2>4. x.op \notin {"create", "replay", "get", "publish"}
    BY <2>2
  <2> QED
    BY <2>1, <2>2, <2>3, <2>4, Zenon DEF Plain
<1> QED
  BY <1>1, <1>2, <1>3, Zenon

\* Every step of the fleet is gentle to every route, and its requests stay plain.
LEMMA NextGentle ==
  ASSUME IInv, Presence, Uncreated, \A i \in Actors : Plain(req[i]), [Next]_vars
  PROVE  (\A s \in Sandboxes : Gentle(s)) /\ \A i \in Actors : Plain(req[i])'
<1>1. IInv'
  BY NextOK
<1> DEFINE G == \A s \in Sandboxes : Gentle(s)
           M == \/ UNCHANGED req
                \/ \E h \in Actors : Follows(h) \/ \E s \in Sandboxes : ReadAbsent(h, s)
<1>2. ASSUME UNCHANGED gateway PROVE G
  BY <1>2, GentleSame, Zenon DEF gateway
<1>3. ASSUME NEW h \in Handlers, HandlerStep(h) PROVE G /\ M
  <2>1. h \in Actors
    BY Zenon DEF Actors
  <2> QED
    BY <1>3, <2>1, HandlerFollows, HandlerGentle, Zenon
<1>4. ASSUME NEW n \in Nodes, WorkerStep(n) PROVE G /\ M
  <2>1. n \in Actors
    BY Zenon DEF Actors
  <2>2. CASE Reboot(n) \/ Sample(n) \/ \E s \in Sandboxes : IdlePark(n, s) \/ Publish(n, s)
    BY <1>2, <2>2, ZenonT(30) DEF Reboot, Sample, IdlePark, Publish
  <2>3. CASE WorkerDelete(n) \/ CommitDelete(n) \/ Forget(n)
    <3>1. "answered" # "absent"
      OBVIOUS
    <3>2. M
      BY <2>1, <2>3, <3>1, FollowsForms, ZenonT(30) DEF WorkerDelete, CommitDelete, Forget
    <3>3. G
      BY <1>2, <2>1, <2>3, DeletesGentle, ZenonT(30) DEF WorkerDelete, Forget
    <3> QED
      BY <3>2, <3>3
  <2> QED
    BY <1>4, <2>2, <2>3, Zenon DEF WorkerStep
<1>5. ASSUME NEW b \in beats, BeatStep(b) PROVE G /\ M
  <2>1. CASE ReceiveBeat(b) \/ DropBeat(b)
    BY <1>2, <2>1, Zenon DEF ReceiveBeat, DropBeat
  <2>2. CASE RetireBeat(b) \/ ReconcileBeat(b)
    BY <2>2, BeatsGentle, Zenon DEF RetireBeat, ReconcileBeat
  <2>3. ASSUME NEW n \in Nodes, NEW o \in b.owed, StartReap(n, b, o) PROVE G /\ M
    <3>1. n \in Actors /\ "sent" # "absent"
      BY DEF Actors
    <3>2. Follows(n)
      BY <2>3, <3>1, FollowsForms, Zenon DEF StartReap
    <3> QED
      BY <1>2, <2>3, <3>1, <3>2, Zenon DEF StartReap
  <2> QED
    BY <1>5, <2>1, <2>2, <2>3, Zenon DEF BeatStep
<1>6. ASSUME UNCHANGED vars PROVE G /\ M
  BY <1>2, <1>6, Zenon DEF vars, gateway
<1>7. G /\ M
  BY <1>3, <1>4, <1>5, <1>6, Zenon DEF Next
<1> QED
  BY <1>1, <1>7, PlainStep, Zenon

\* From a running fleet, while no create and no replay is served and a publication
\* is accepted in one transaction, a detached route keeps its snapshot until a
\* DELETE ends it, for any number of boots, parks, wakes, detaches and deletes:
\* DetachedStaysWakeable.
THEOREM DetachedSafe ==
  ASSUME Operations \cap {"create", "replay"} = {}, Distributed \/ "publish" \notin Operations
  PROVE  RunningSpec => DetachedStaysWakeable
<1> DEFINE J == IInv /\ Presence /\ \A i \in Actors : Plain(req[i])
           A == \A s \in Sandboxes :
                  Exists(route[s]) /\ route[s].ws = "detached" =>
                    \/ IsPortable(route'[s]) /\ route'[s].ws = "detached"
                    \/ dels'[s] > dels[s]
<1>1. Uncreated
  BY Zenon DEF Uncreated
<1>2. ASSUME InitRunning PROVE J
  <2>1. req = [h \in Actors |-> Idle]
    BY <1>2, Zenon DEF InitRunning, Start
  <2>2. Idle.op = "none" /\ Idle.step = "idle"
    BY DEF Idle
  <2>3. Plain(Idle)
    BY <2>2 DEF Plain
  <2> QED
    BY <1>2, <2>1, <2>3, InitOK, InitPresent, Zenon
<1>3. ASSUME J, [Next]_vars PROVE J' /\ [A]_vars
  <2>1. (\A s \in Sandboxes : Gentle(s)) /\ \A i \in Actors : Plain(req[i])'
    BY <1>1, <1>3, NextGentle, Zenon
  <2>2. A
    BY <2>1, Zenon DEF Gentle
  <2>3. IInv' /\ Presence'
    BY <1>3, NextOK, NextPresent, Zenon
  <2> QED
    BY <2>1, <2>2, <2>3, Zenon
<1> HIDE DEF J
<1> QED
  BY <1>2, <1>3, PTL DEF RunningSpec, DetachedStaysWakeable
=============================================================================
