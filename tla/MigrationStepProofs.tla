-------------------------- MODULE MigrationStepProofs -------------------------
(* The gateway's handlers keep the inductive invariant: each request that      *)
(* comes, each step of advancing, rolling back and deleting, each failure.     *)
EXTENDS MigrationCallProofs

-----------------------------------------------------------------------------
(* Records                                                                   *)

Kinds == {"post", "soft", "cancel", "delete"}
Named == Migrations \cup {NoMigration}

\* A new phase.
LEMMA PhaseMoves ==
  ASSUME NEW c \in Entry, NEW p \in Phases
  PROVE  /\ [c EXCEPT !.phase = p] \in Entry
         /\ [c EXCEPT !.phase = p].phase = p
         /\ [c EXCEPT !.phase = p].src = c.src
         /\ [c EXCEPT !.phase = p].dst = c.dst
         /\ [c EXCEPT !.phase = p].fenced = c.fenced
         /\ [c EXCEPT !.phase = p].snap = c.snap
  <1>2. [c EXCEPT !.phase = p] \in Entry
    BY EntryField, Zenon
  <1>3. /\ [c EXCEPT !.phase = p].phase = p
        /\ [c EXCEPT !.phase = p].src = c.src
        /\ [c EXCEPT !.phase = p].dst = c.dst
        /\ [c EXCEPT !.phase = p].fenced = c.fenced
        /\ [c EXCEPT !.phase = p].snap = c.snap
    BY SMT DEF Entry
  <1>4. QED
    BY <1>2, <1>3, Zenon

\* A detached sandbox is prepared.
LEMMA SnapMoves ==
  ASSUME NEW c \in Entry, NEW v \in Versions
  PROVE  /\ [c EXCEPT !.phase = "prepared", !.snap = v] \in Entry
         /\ [c EXCEPT !.phase = "prepared", !.snap = v].phase = "prepared"
         /\ [c EXCEPT !.phase = "prepared", !.snap = v].src = c.src
         /\ [c EXCEPT !.phase = "prepared", !.snap = v].dst = c.dst
         /\ [c EXCEPT !.phase = "prepared", !.snap = v].fenced = c.fenced
         /\ [c EXCEPT !.phase = "prepared", !.snap = v].snap = v
  <1>0. "prepared" \in Phases /\ TRUE \in BOOLEAN
    BY Zenon DEF Phases, Uncommitted
  <1>1. [[c EXCEPT !.phase = "prepared"] EXCEPT !.snap = v] = [c EXCEPT !.phase = "prepared", !.snap = v]
    OBVIOUS
  <1>2. [[c EXCEPT !.phase = "prepared"] EXCEPT !.snap = v] \in Entry
    BY <1>0, EntryField, Zenon
  <1>3. /\ [c EXCEPT !.phase = "prepared", !.snap = v].phase = "prepared"
        /\ [c EXCEPT !.phase = "prepared", !.snap = v].src = c.src
        /\ [c EXCEPT !.phase = "prepared", !.snap = v].dst = c.dst
        /\ [c EXCEPT !.phase = "prepared", !.snap = v].fenced = c.fenced
        /\ [c EXCEPT !.phase = "prepared", !.snap = v].snap = v
    BY SMT DEF Entry
  <1>4. QED
    BY <1>1, <1>2, <1>3, Zenon

\* An attached one is, and fenced.
LEMMA FenceMoves ==
  ASSUME NEW c \in Entry
  PROVE  /\ [c EXCEPT !.phase = "prepared", !.fenced = TRUE] \in Entry
         /\ [c EXCEPT !.phase = "prepared", !.fenced = TRUE].phase = "prepared"
         /\ [c EXCEPT !.phase = "prepared", !.fenced = TRUE].src = c.src
         /\ [c EXCEPT !.phase = "prepared", !.fenced = TRUE].dst = c.dst
         /\ [c EXCEPT !.phase = "prepared", !.fenced = TRUE].fenced = TRUE
         /\ [c EXCEPT !.phase = "prepared", !.fenced = TRUE].snap = c.snap
  <1>0. "prepared" \in Phases /\ TRUE \in BOOLEAN
    BY Zenon DEF Phases, Uncommitted
  <1>1. [[c EXCEPT !.phase = "prepared"] EXCEPT !.fenced = TRUE] = [c EXCEPT !.phase = "prepared", !.fenced = TRUE]
    OBVIOUS
  <1>2. [[c EXCEPT !.phase = "prepared"] EXCEPT !.fenced = TRUE] \in Entry
    BY <1>0, EntryField, Zenon
  <1>3. /\ [c EXCEPT !.phase = "prepared", !.fenced = TRUE].phase = "prepared"
        /\ [c EXCEPT !.phase = "prepared", !.fenced = TRUE].src = c.src
        /\ [c EXCEPT !.phase = "prepared", !.fenced = TRUE].dst = c.dst
        /\ [c EXCEPT !.phase = "prepared", !.fenced = TRUE].fenced = TRUE
        /\ [c EXCEPT !.phase = "prepared", !.fenced = TRUE].snap = c.snap
    BY SMT DEF Entry
  <1>4. QED
    BY <1>1, <1>2, <1>3, Zenon

\* No entry at all.
LEMMA FirstEntry ==
  /\ NoEntry \in Entry /\ NoEntry.phase = "none" /\ NoEntry.fenced = FALSE
  <1>0. 0 \in Versions
    BY MigrationAssumption DEF Versions
  <1>1. \A b \in BOOLEAN : [phase |-> "none", src |-> NoNode, dst |-> NoNode, fenced |-> b, snap |-> 0] \in Entry
    BY <1>0, SMT DEF Entry, Versions
  <1>2. QED
    BY <1>1, Zenon DEF NoEntry

\* The first of a migration.
FirstOf(s, d) == [NoEntry EXCEPT !.phase = "planned", !.src = s, !.dst = d]

\* The entry a migration begins with.
LEMMA PlannedEntry ==
  ASSUME NEW s \in Nodes, NEW d \in Nodes
  PROVE  /\ FirstOf(s, d) \in Entry
         /\ FirstOf(s, d).phase = "planned" /\ FirstOf(s, d).src = s /\ FirstOf(s, d).dst = d
         /\ FirstOf(s, d).fenced = FALSE
  <1> DEFINE e == [NoEntry EXCEPT !.phase = "planned", !.src = s, !.dst = d]
  <1>1. [[[NoEntry EXCEPT !.phase = "planned"] EXCEPT !.src = s] EXCEPT !.dst = d] = e
    OBVIOUS
  <1>2. "planned" \in Phases
    BY Zenon DEF Phases, Uncommitted
  <1>3. e \in Entry
    BY <1>1, <1>2, FirstEntry, EntryField, Zenon
  <1>4. e.phase = "planned" /\ e.src = s /\ e.dst = d /\ e.fenced = NoEntry.fenced
    BY FirstEntry, SMT DEF Entry
  <1>5. FirstOf(s, d) = e
    BY Zenon DEF FirstOf
  <1> HIDE DEF e
  <1>6. QED
    BY <1>3, <1>4, <1>5, FirstEntry, Zenon

\* A handler goes on.
LEMMA GotoFields ==
  ASSUME hand \in [Handlers -> Handler], NEW h \in Handlers, NEW p \in Steps, NEW c \in Entry,
         hand' = Goto(h, p, c)
  PROVE  /\ hand' \in [Handlers -> Handler]
         /\ hand'[h].pc = p /\ hand'[h].c = c /\ hand'[h].to = Target(p, c) /\ hand'[h].re = "none"
         /\ hand'[h].kind = hand[h].kind /\ hand'[h].m = hand[h].m
         /\ \A g \in Handlers \ {h} : hand'[g] = hand[g]
  <1> DEFINE x == hand[h]
             t == Target(p, c)
             y == [x EXCEPT !.pc = p, !.c = c, !.re = "none", !.to = t]
  <1>1. x \in Handler
    BY Zenon
  <1>2. t \in Nodes \cup {NoNode}
    BY TargetTyped, Zenon
  <1>3. hand' = [hand EXCEPT ![h] = y]
    BY Zenon DEF Goto
  <1> HIDE DEF x, t
  <1>4. /\ y.pc = p /\ y.c = c /\ y.to = t /\ y.re = "none" /\ y.kind = x.kind /\ y.m = x.m
    BY <1>1, SMT DEF Handler
  <1>5. y \in Handler
    <2>1. [[[[x EXCEPT !.pc = p] EXCEPT !.c = c] EXCEPT !.re = "none"] EXCEPT !.to = t] = y
      OBVIOUS
    <2>2. [[x EXCEPT !.pc = p] EXCEPT !.c = c] \in Handler
      BY <1>1, HandlerField, Zenon
    <2>3. [[[[x EXCEPT !.pc = p] EXCEPT !.c = c] EXCEPT !.re = "none"] EXCEPT !.to = t] \in Handler
      BY <1>2, <2>2, HandlerField, Zenon
    <2>4. QED
      BY <2>1, <2>3, Zenon
  <1> HIDE DEF y
  <1>6. hand'[h] = y /\ hand' \in [Handlers -> Handler] /\ \A g \in Handlers \ {h} : hand'[g] = hand[g]
    BY <1>3, <1>5, Zenon
  <1>7. QED
    BY <1>4, <1>6, Zenon DEF x, t

\* A request comes in.
Entered(h, k, m, p, c) ==
  /\ h \in Handlers /\ k \in Kinds /\ m \in Named /\ p \in Steps /\ c \in Entry
  /\ hand' = Enter(h, k, m, p, c)

Fresh(h, k, m, p, c) ==
  /\ hand' \in [Handlers -> Handler]
  /\ hand'[h].pc = p /\ hand'[h].c = c /\ hand'[h].to = Target(p, c) /\ hand'[h].re = "none"
  /\ hand'[h].kind = k /\ hand'[h].m = m
  /\ \A g \in Handlers \ {h} : hand'[g] = hand[g]

\* A handler that enters has the fields it is given.
LEMMA EnterFields ==
  ASSUME hand \in [Handlers -> Handler], NEW h, NEW k, NEW m, NEW p, NEW c, Entered(h, k, m, p, c)
  PROVE  Fresh(h, k, m, p, c)
  <1>0. h \in Handlers /\ k \in Kinds /\ m \in Named /\ p \in Steps /\ c \in Entry
    BY Zenon DEF Entered
  <1> DEFINE t == Target(p, c)
             y == [pc |-> p, kind |-> k, m |-> m, c |-> c, to |-> t, re |-> "none"]
  <1>1. t \in Nodes \cup {NoNode}
    BY <1>0, TargetTyped, Zenon
  <1>2. hand' = [hand EXCEPT ![h] = y]
    BY Zenon DEF Enter, Entered
  <1> HIDE DEF t
  <1>3. y.pc = p /\ y.c = c /\ y.to = t /\ y.re = "none" /\ y.kind = k /\ y.m = m
    BY Zenon
  <1>4. y \in Handler
    BY <1>0, <1>1, SMT DEF Handler, Steps, Kinds, Named
  <1> HIDE DEF y
  <1>5. hand'[h] = y /\ hand' \in [Handlers -> Handler] /\ \A g \in Handlers \ {h} : hand'[g] = hand[g]
    BY <1>0, <1>2, <1>4, Zenon
  <1>6. QED
    BY <1>3, <1>5, Zenon DEF t, Fresh

\* A handler ends.
LEMMA LeaveFields ==
  ASSUME hand \in [Handlers -> Handler], NEW h \in Handlers, hand' = Leave(h)
  PROVE  /\ hand' \in [Handlers -> Handler]
         /\ hand'[h] = Idle /\ Idle.pc = "idle" /\ Idle.c = NoEntry
         /\ \A g \in Handlers \ {h} : hand'[g] = hand[g]
  <1>1. Idle \in Handler /\ Idle.pc = "idle" /\ Idle.c = NoEntry
    <2>1. \A c \in Entry :
            [pc |-> "idle", kind |-> "post", m |-> NoMigration, c |-> c, to |-> NoNode, re |-> "none"] \in Handler
      BY SMT DEF Handler
    <2>2. QED
      BY <2>1, FirstEntry, Zenon DEF Idle
  <1>2. QED
    BY <1>1, Zenon DEF Leave

-----------------------------------------------------------------------------
(* Where handlers go                                                         *)

\* The next step from a phase, and the first of a rollback.
LEMMA StepDue ==
  ASSUME NEW c \in Entry
  PROVE  /\ c.phase \in Uncommitted \cup Committed =>
              Step(c) \in Advancing /\ Step(c) \in Steps /\ Due(Step(c), c)
         /\ c.phase \in Uncommitted => Undo(c) \in Undoing /\ Undo(c) \in Steps /\ Due(Undo(c), c)
  <1>1. c.fenced \in BOOLEAN
    BY EntryTyped, Zenon
  <1>2. ASSUME c.phase \in Uncommitted \cup Committed
        PROVE  Step(c) \in Advancing /\ Step(c) \in Steps /\ Due(Step(c), c)
    <2>1. CASE c.phase = "planned"
      <3>1. Step(c) = "plan"
        BY <2>1, SMT DEF Step
      <3>2. QED
        BY <2>1, <3>1, SMT DEF Due, Advancing, Steps
    <2>2. CASE c.phase = "prepared"
      <3>1. Step(c) = "import"
        BY <2>2, SMT DEF Step
      <3>2. QED
        BY <2>2, <3>1, SMT DEF Due, Advancing, Steps, Calls, DestinationCalls
    <2>3. CASE c.phase = "staged"
      <3>1. Step(c) = "route"
        BY <2>3, SMT DEF Step
      <3>2. QED
        BY <2>3, <3>1, SMT DEF Due, Advancing, Steps
    <2>4. CASE c.phase = "routed"
      <3>1. Step(c) = "activate"
        BY <2>4, SMT DEF Step
      <3>2. QED
        BY <2>4, <3>1, SMT DEF Due, Advancing, Steps, Calls, DestinationCalls
    <2>5. CASE c.phase = "activated" /\ c.fenced
      <3>1. Step(c) = "finalize"
        BY <2>5, SMT DEF Step
      <3>2. QED
        BY <2>5, <3>1, SMT DEF Due, Advancing, Steps, Calls, SourceCalls
    <2>6. CASE c.phase = "activated" /\ ~c.fenced
      <3>1. Step(c) = "complete"
        BY <2>6, SMT DEF Step
      <3>2. QED
        BY <2>6, <3>1, SMT DEF Due, Advancing, Steps
    <2>7. QED
      BY <1>2, <2>1, <2>2, <2>3, <2>4, <2>5, <2>6, Zenon DEF Uncommitted, Committed
  <1>3. ASSUME c.phase \in Uncommitted
        PROVE  Undo(c) \in Undoing /\ Undo(c) \in Steps /\ Due(Undo(c), c)
    <2>1. CASE c.phase = "planned"
      <3>1. Undo(c) = "undo_move"
        BY <2>1, Zenon DEF Undo
      <3>2. QED
        BY <2>1, <3>1, SMT DEF Due, Undoing, Steps, Calls, SourceCalls, Uncommitted
    <2>2. CASE c.phase \in {"prepared", "staged"}
      <3>1. Undo(c) = "undo_import"
        BY <2>2, SMT DEF Undo
      <3>2. QED
        BY <2>2, <3>1, SMT DEF Due, Undoing, Steps, Calls, DestinationCalls
    <2>3. QED
      BY <1>3, <2>1, <2>2, Zenon DEF Uncommitted
  <1>4. QED
    BY <1>2, <1>3, Zenon

\* Steps that carry no migration.
LEMMA FreeSteps ==
  ASSUME NEW c
  PROVE  /\ {"resolve", "send", "prepare", "activate", "undo_move", "delete"} \subseteq Steps
         /\ Due("resolve", c) /\ Due("send", c)
         /\ "resolve" \notin Advancing \cup Undoing /\ "send" \notin Advancing \cup Undoing
         /\ "delete" \notin Advancing \cup Undoing /\ "delete" \notin Undoing
         /\ "delete" \notin Advancing
  <1>1. {"resolve", "send", "prepare", "activate", "undo_move", "delete"} \subseteq Steps
    BY SMT DEF Steps, Calls, SourceCalls, DestinationCalls
  <1>2. Due("resolve", c) /\ Due("send", c)
    BY SMT DEF Due
  <1>3. QED
    BY <1>1, <1>2, SMT DEF Advancing, Undoing

\* What the end of an advance may be.
LEMMA ReturnedCases ==
  ASSUME NEW h \in Handlers, NEW c, hand' = Returned(h, c)
  PROVE  \/ hand[h].kind = "soft" /\ c.phase \in Uncommitted /\ hand' = Goto(h, Undo(c), c)
         \/ hand[h].kind = "delete" /\ c.phase = "complete" /\ hand' = Goto(h, "send", c)
         \/ hand' = Leave(h)
  BY SMT DEF Returned

-----------------------------------------------------------------------------
(* Steps of the gateway alone                                                *)

\* A handler at work goes on while nothing else changes.
LEMMA CalmStep ==
  ASSUME Typed, Typed', IInv, Calm, NEW h \in Handlers, hand[h].pc # "idle", Moves(h),
         \A k \in stray' : k \in stray \/ (hand[h].kind = "post" /\ Legit(k)'), Fits(h)'
  PROVE  IInv'
  <1>1. World'
    BY CalmWorld, Zenon DEF IInv
  <1>2. hand[h].kind = "post" => Onward(hand[h].m)
    <2>1. Fits(h)
      BY Zenon DEF IInv, Handling
    <2>2. hand[h].kind = "post" => hand[h].m \in Migrations /\ Open(hand[h].m)
      BY <2>1, PostAdvances, Zenon
    <2>3. QED
      BY <2>2, CalmOnward, Zenon
  <1>3. QED
    BY <1>1, <1>2, HandStep, Zenon DEF Moves

\* A handler that leaves fits.
LEMMA LeaveFits ==
  ASSUME Typed, NEW h \in Handlers, hand' = Leave(h)
  PROVE  Fits(h)' /\ Moves(h)
  <1>1. /\ hand'[h] = Idle /\ Idle.pc = "idle"
        /\ \A g \in Handlers \ {h} : hand'[g] = hand[g]
    BY HandParts, LeaveFields, Zenon
  <1>2. QED
    BY <1>1, Zenon DEF Fits, Moves

\* It advances its migration.
LEMMA GotoAdvance ==
  ASSUME Typed, NEW h \in Handlers, NEW p \in Advancing, NEW c \in Entry, p \in Steps, hand' = Goto(h, p, c),
         NEW m, m = hand[h].m, Open(m)', Copy(c, journal'[m]),
         hand[h].kind # "post" => journal'[m].phase = c.phase,
         hand[h].kind = "delete" => (Exists /\ route.del)'
  PROVE  Fits(h)' /\ Moves(h)
  <1>1. /\ hand'[h].pc = p /\ hand'[h].c = c /\ hand'[h].re = "none"
        /\ hand'[h].kind = hand[h].kind /\ hand'[h].m = m
        /\ \A g \in Handlers \ {h} : hand'[g] = hand[g]
    BY HandParts, GotoFields, ZenonT(30)
  <1>2. Advances(h)'
    BY <1>1, Zenon DEF Advances
  <1>3. p \in Advancing \cup Undoing \cup Deleting /\ p \notin Undoing \cup Deleting /\ "none" # "ok"
    BY StepKinds, Zenon
  <1>4. QED
    BY <1>1, <1>2, <1>3, Zenon DEF Fits, Moves

\* It rolls its migration back.
LEMMA GotoUndo ==
  ASSUME Typed, NEW h \in Handlers, NEW p \in Undoing, NEW c \in Entry, p \in Steps, hand' = Goto(h, p, c),
         NEW m, m = hand[h].m, hand[h].kind # "post",
         journal'[m].phase = c.phase, c.src = journal'[m].src, c.dst = journal'[m].dst,
         p = "undo_move" => reg'[c.dst].phase = "none",
         hand[h].kind = "delete" => (Exists /\ route.del)'
  PROVE  Fits(h)' /\ Moves(h)
  <1>1. /\ hand'[h].pc = p /\ hand'[h].c = c /\ hand'[h].re = "none"
        /\ hand'[h].kind = hand[h].kind /\ hand'[h].m = m
        /\ \A g \in Handlers \ {h} : hand'[g] = hand[g]
    BY HandParts, GotoFields, ZenonT(30)
  <1>2. p \notin Deleting /\ p \notin Advancing /\ p # "resolve" /\ p # "send" /\ p # "delete" /\ "none" # "ok"
    BY SMT DEF Undoing, Deleting, Advancing
  <1>3. RollsBack(h)'
    BY <1>1, <1>2, Zenon DEF RollsBack, Empty
  <1>4. QED
    BY <1>1, <1>2, <1>3, Zenon DEF Fits, Moves

\* It deletes the sandbox.
LEMMA GotoSend ==
  ASSUME Typed, NEW h \in Handlers, NEW c \in Entry, hand' = Goto(h, "send", c), hand[h].kind = "delete",
         (Inactive \/ route.ws = "detached")', (Exists /\ route.del)'
  PROVE  Fits(h)' /\ Moves(h)
  <1>0. "send" \in Steps
    BY FreeSteps, Zenon
  <1>1. /\ hand'[h].pc = "send" /\ hand'[h].c = c /\ hand'[h].re = "none"
        /\ hand'[h].kind = hand[h].kind
        /\ \A g \in Handlers \ {h} : hand'[g] = hand[g]
    BY <1>0, HandParts, GotoFields, Zenon
  <1>2. "send" \in Deleting /\ "send" \notin Advancing /\ "send" \notin Undoing
    BY SMT DEF Deleting, Advancing, Undoing
  <1>3. RollsBack(h)'
    BY <1>1, <1>2, Zenon DEF RollsBack
  <1>4. QED
    BY <1>1, <1>2, <1>3, Zenon DEF Fits, Moves

\* The step of an advance, or the first of a rollback, from the stored entry.
LEMMA DestinationEmpty ==
  ASSUME World, NEW m \in Migrations, journal[m].phase = "planned"
  PROVE  Active(m) /\ Empty(journal[m].dst) /\ journal[m].fenced = FALSE
  <1>1. Active(m) /\ journal[m].phase \in Uncommitted
    BY SMT DEF Active, Uncommitted
  <1>2. Source(m, journal[m])
    BY <1>1, Zenon DEF World, UnderWay
  <1>3. QED
    BY <1>1, <1>2, SMT DEF Source

\* An advance ends before its migration does.
LEMMA ReturnedFits ==
  ASSUME Typed, World, Calm, NEW h \in Handlers, Fits(h), hand[h].pc \in Advancing,
         hand' = Returned(h, hand[h].c)
  PROVE  Fits(h)' /\ Moves(h)
  <1>1. PICK m \in Migrations : m = hand[h].m
    BY AdvancingParts, Zenon
  <1>2. PICK c \in Entry : c = hand[h].c
    BY AdvancingParts, Zenon
  <1>3. PICK e \in Entry : e = journal[m] /\ e = journal'[m]
    BY <1>1, AdvancingParts, Zenon DEF Calm
  <1>4. /\ Copy(c, e) /\ c.phase # "complete"
        /\ hand[h].kind # "post" => e.phase = c.phase
        /\ hand[h].kind = "delete" => Exists /\ route.del
    BY <1>1, <1>2, <1>3, AdvancingParts, Zenon
  <1>5. CASE hand' = Leave(h)
    BY <1>5, LeaveFits, Zenon
  <1>6. CASE hand[h].kind = "soft" /\ c.phase \in Uncommitted /\ hand' = Goto(h, Undo(c), c)
    <2>1. Undo(c) \in Undoing /\ Undo(c) \in Steps
      BY <1>6, StepDue, Zenon
    <2>2. hand[h].kind # "post" /\ hand[h].kind # "delete" /\ e.phase = c.phase
      BY <1>4, <1>6, Zenon
    <2>3. c.src = e.src /\ c.dst = e.dst
      BY <1>4, Zenon DEF Copy
    <2>4. Undo(c) = "undo_move" => e.phase = "planned"
      BY <2>2, Zenon DEF Undo
    <2>5. Undo(c) = "undo_move" => reg'[c.dst].phase = "none"
      BY <1>3, <2>3, <2>4, DestinationEmpty, Zenon DEF Empty, Calm
    <2>6. PICK p : p = Undo(c)
      BY Zenon
    <2>7. QED
      BY <1>1, <1>3, <1>6, <2>1, <2>2, <2>3, <2>5, <2>6, GotoUndo, Zenon
  <1>7. CASE hand[h].kind = "delete" /\ c.phase = "complete"
    BY <1>4, <1>7, Zenon
  <1>8. QED
    BY <1>2, <1>5, <1>6, <1>7, ReturnedCases, Zenon

\* A call fails, or the handler that waits for it ends.
LEMMA FailureKept ==
  ASSUME Typed, Typed', IInv, NEW h \in Handlers, CallFailed(h) \/ Lose(h) \/ Crash(h)
  PROVE  IInv'
  <1>1. Fits(h) /\ World
    BY Zenon DEF IInv, Handling
  <1>2. Calm /\ stray' = stray /\ hand[h].pc # "idle"
    BY SMT DEF CallFailed, Lose, Crash, worker, Calm, Calls, SourceCalls, DestinationCalls
  <1>3. CASE hand' = Leave(h)
    BY <1>2, <1>3, LeaveFits, CalmStep, Zenon
  <1>4. CASE hand[h].pc \in Advancing /\ hand' = Returned(h, hand[h].c)
    BY <1>1, <1>2, <1>4, ReturnedFits, CalmStep, Zenon
  <1>5. CASE hand[h].pc \in Calls /\ hand' = [hand EXCEPT ![h].re = "error"]
    <2>1. /\ hand'[h].pc = hand[h].pc /\ hand'[h].c = hand[h].c /\ hand'[h].to = hand[h].to
          /\ hand'[h].re = "error" /\ hand'[h].kind = hand[h].kind /\ hand'[h].m = hand[h].m
          /\ \A g \in Handlers \ {h} : hand'[g] = hand[g]
      BY <1>5, HandParts, HearFields, Zenon
    <2>2. Moves(h)
      BY <2>1, Zenon DEF Moves
    <2>3. Fits(h)'
      <3>1. UNCHANGED <<journal, route, reg>>
        BY <1>2, Zenon DEF Calm
      <3>2. hand[h].pc \in Advancing => Advances(h)'
        <4> SUFFICES ASSUME hand[h].pc \in Advancing PROVE Advances(h)'
          OBVIOUS
        <4>1. PICK m \in Migrations : m = hand[h].m
          BY <1>1, AdvancingParts, Zenon
        <4>2. Open(m)'
          BY <1>1, <1>2, <4>1, AdvancingParts, CalmOpen, Zenon
        <4>3. Advances(h)
          BY <1>1, StepKinds, Zenon DEF Fits
        <4>4. QED
          BY <2>1, <3>1, <4>1, <4>2, <4>3, Zenon DEF Advances
      <3>3. hand[h].pc \in Undoing \cup Deleting => RollsBack(h)'
        <4> SUFFICES ASSUME hand[h].pc \in Undoing \cup Deleting PROVE RollsBack(h)'
          OBVIOUS
        <4>1. RollsBack(h)
          BY <1>1, <1>2, Zenon DEF Fits
        <4>2. hand[h].pc # "send"
          BY <1>5, SMT DEF Calls, SourceCalls, DestinationCalls
        <4>3. QED
          BY <2>1, <3>1, <4>1, <4>2, SMT DEF RollsBack, Inactive, Active, Empty
      <3>4. QED
        BY <1>1, <1>2, <2>1, <3>1, <3>2, <3>3, SMT DEF Fits, Exists
    <2>4. QED
      BY <1>2, <2>2, <2>3, CalmStep, Zenon
  <1>6. QED
    <2>1. CASE CallFailed(h)
      <3>1. hand' = Leave(h) \/ (hand[h].pc \in Advancing /\ hand' = Returned(h, hand[h].c))
        BY <2>1, SMT DEF CallFailed, Calls, SourceCalls, DestinationCalls, Advancing
      <3>2. QED
        BY <1>3, <1>4, <3>1, Zenon
    <2>2. CASE Lose(h)
      BY <1>5, <2>2, Zenon DEF Lose, Hear
    <2>3. CASE Crash(h)
      BY <1>3, <2>3, Zenon DEF Crash
    <2>4. QED
      BY <2>1, <2>2, <2>3, Zenon

\* A call stays in flight when its handler gives up.
LEMMA AbandonKept ==
  ASSUME Typed, Typed', IInv, Disciplined, NEW h \in Handlers, Abandon(h)
  PROVE  IInv'
  <1>1. Fits(h) /\ World /\ Astray
    BY Zenon DEF IInv, Handling
  <1>2. hand[h].kind = "post" /\ hand[h].pc \in Calls
    BY Zenon DEF Abandon, MayStray, Calling, Disciplined
  <1>3. Calm /\ hand[h].pc # "idle"
    BY <1>2, SMT DEF Abandon, worker, Calm, Calls, SourceCalls, DestinationCalls
  <1>4. hand[h].pc \in Advancing /\ hand[h].m \in Migrations /\ Open(hand[h].m) /\ Advances(h)
    BY <1>1, <1>2, <1>3, PostAdvances, Zenon
  <1>5. PICK k : k = Request(h) /\ Legit(k) /\ k.m = hand[h].m
    BY <1>1, <1>2, <1>4, RequestLegit, Zenon
  <1>6. Legit(k)'
    BY <1>3, <1>4, <1>5, CalmOnward, OnwardLegit, Zenon
  <1>7. \A j \in stray' : j \in stray \/ (hand[h].kind = "post" /\ Legit(j)')
    BY <1>2, <1>5, <1>6, Zenon DEF Abandon
  <1>8. CASE hand' = Leave(h)
    BY <1>3, <1>7, <1>8, LeaveFits, CalmStep, Zenon
  <1>9. CASE hand' = [hand EXCEPT ![h].re = "error"]
    <2>1. /\ hand'[h].pc = hand[h].pc /\ hand'[h].c = hand[h].c /\ hand'[h].to = hand[h].to
          /\ hand'[h].re = "error" /\ hand'[h].kind = hand[h].kind /\ hand'[h].m = hand[h].m
          /\ \A g \in Handlers \ {h} : hand'[g] = hand[g]
      BY <1>9, HandParts, HearFields, Zenon
    <2>2. Moves(h)
      BY <2>1, Zenon DEF Moves
    <2>3. PICK m : m = hand[h].m /\ Open(m)'
      BY <1>3, <1>4, CalmOpen, Zenon
    <2>4. Advances(h)'
      BY <1>3, <1>4, <2>1, <2>3, Zenon DEF Advances, Calm
    <2>5. Fits(h)'
      BY <1>2, <1>4, <2>1, <2>4, StepKinds, SMT DEF Fits
    <2>6. QED
      BY <1>3, <1>7, <2>2, <2>5, CalmStep, Zenon
  <1>10. QED
    BY <1>8, <1>9, Zenon DEF Abandon

-----------------------------------------------------------------------------
(* Requests                                                                  *)

\* A request comes when nothing is in flight.
LEMMA QuietStep ==
  ASSUME World', NEW h \in Handlers, Quiet, stray' = stray, Fits(h)',
         \A g \in Handlers \ {h} : hand'[g] = hand[g]
  PROVE  IInv'
  <1>1. stray' = {} /\ \A g \in Handlers \ {h} : hand'[g].pc = "idle"
    BY Zenon DEF Quiet, Busy
  <1>2. Apart'
    BY <1>1, Zenon DEF Apart, Alone
  <1>3. \A g \in Handlers : Fits(g)'
    BY <1>1, Zenon DEF Fits
  <1>4. Astray'
    BY <1>1, Zenon DEF Astray
  <1>5. QED
    BY <1>2, <1>3, <1>4, Zenon DEF IInv, Handling

\* It comes beside others of its kind.
LEMMA BesideStep ==
  ASSUME Typed, Typed', IInv, Calm, NEW h \in Handlers, stray' = stray, Fits(h)', hand'[h].kind = "post",
         \A g \in Handlers \ {h} : hand'[g] = hand[g],
         \A g \in Busy : hand[g].kind = "post"
  PROVE  IInv'
  <1>0. World' /\ (\A g \in Handlers : Fits(g)) /\ Astray
    BY CalmWorld, Zenon DEF IInv, Handling
  <1>1. \A g \in Handlers : hand'[g].pc # "idle" => hand'[g].kind = "post"
    BY Zenon DEF Busy
  <1>2. Apart'
    BY <1>1, Zenon DEF Apart
  <1>3. ASSUME NEW g \in Handlers \ {h} PROVE Fits(g)'
    <2>1. CASE hand[g].pc = "idle"
      BY <2>1, Zenon DEF Fits
    <2>2. CASE hand[g].pc # "idle"
      <3>1. hand[g].kind = "post"
        BY <2>2, Zenon DEF Busy
      <3>2. PICK m \in Migrations : m = hand[g].m /\ Open(m)
        BY <1>0, <2>2, <3>1, PostAdvances, Zenon
      <3>3. Onward(m)
        BY <3>2, CalmOnward, Zenon
      <3>4. QED
        BY <1>0, <3>1, <3>2, <3>3, OnwardFits, Zenon
    <2>3. QED
      BY <2>1, <2>2, Zenon
  <1>4. ASSUME NEW k \in stray PROVE Legit(k)'
    <2>1. Legit(k) /\ k.m \in Migrations /\ Open(k.m)
      BY <1>0, Zenon DEF Astray, Legit
    <2>2. Onward(k.m)
      BY <2>1, CalmOnward, Zenon
    <2>3. QED
      BY <2>1, <2>2, OnwardLegit, Zenon
  <1>5. Astray'
    BY <1>4, Zenon DEF Astray
  <1>6. QED
    BY <1>0, <1>2, <1>3, <1>5, Zenon DEF IInv, Handling

\* The handler of a request that advances or rolls back the stored entry.
LEMMA EnterAdvance ==
  ASSUME Typed, World, NEW h \in Handlers, NEW k \in Kinds, NEW m \in Migrations, NEW c, Calm,
         c = journal[m], Active(m), m \notin undoing, Entered(h, k, m, Step(c), c),
         k = "delete" => Exists /\ route.del
  PROVE  Fits(h)' /\ hand'[h].kind = k /\ \A g \in Handlers \ {h} : hand'[g] = hand[g]
  <1>1. hand \in [Handlers -> Handler] /\ c \in Entry /\ c.phase \in Live
    BY JournalParts, Zenon DEF Typed, HandsOK, Live, Active
  <1>2. PICK p : p = Step(c) /\ p \in Advancing /\ Fresh(h, k, m, p, c)
    BY <1>1, StepDue, EnterFields, Zenon DEF Live
  <1>3. /\ hand'[h].pc = p /\ hand'[h].c = c /\ hand'[h].re = "none" /\ hand'[h].kind = k /\ hand'[h].m = m
        /\ \A g \in Handlers \ {h} : hand'[g] = hand[g]
    BY <1>2, Zenon DEF Fresh
  <1>4. Open(m)'
    <2>1. Open(m)
      BY Zenon DEF Open, World
    <2>2. QED
      BY <2>1, CalmOpen, Zenon
  <1>5. Copy(c, c)
    <2>1. c.phase \in Phases /\ c.phase # "none"
      BY <1>1, Zenon DEF Live, Phases, Uncommitted, Committed
    <2>2. c.phase \in From(c.phase)
      BY <2>1, FromFacts, Zenon
    <2>3. c.phase = "planned" => c.fenced = FALSE
      BY DestinationEmpty, Zenon
    <2>4. QED
      BY <2>2, <2>3, Zenon DEF Copy
  <1>6. Advances(h)'
    BY <1>3, <1>4, <1>5, Zenon DEF Advances, Calm
  <1>7. (Exists /\ route.del) => (Exists /\ route.del)'
    BY Zenon DEF Calm, Exists
  <1>8. p \in Advancing \cup Undoing \cup Deleting /\ p \notin Undoing \cup Deleting /\ "none" # "ok"
    BY <1>2, StepKinds, Zenon
  <1>9. QED
    BY <1>2, <1>3, <1>6, <1>7, <1>8, Zenon DEF Fits

\* A request enters to roll back.
LEMMA EnterUndo ==
  ASSUME Typed, World, NEW h \in Handlers, NEW k \in Kinds, NEW m \in Migrations, NEW c, Calm,
         c = journal[m], c.phase \in Uncommitted, Entered(h, k, m, Undo(c), c), k # "post",
         k = "delete" => Exists /\ route.del
  PROVE  Fits(h)' /\ hand'[h].kind = k /\ \A g \in Handlers \ {h} : hand'[g] = hand[g]
  <1>1. hand \in [Handlers -> Handler] /\ c \in Entry
    BY JournalParts, Zenon DEF Typed, HandsOK
  <1>2. PICK p : p = Undo(c) /\ p \in Undoing /\ Fresh(h, k, m, p, c)
    BY <1>1, StepDue, EnterFields, Zenon
  <1>3. /\ hand'[h].pc = p /\ hand'[h].c = c /\ hand'[h].re = "none" /\ hand'[h].kind = k /\ hand'[h].m = m
        /\ \A g \in Handlers \ {h} : hand'[g] = hand[g]
    BY <1>2, Zenon DEF Fresh
  <1>4. journal'[m] = c /\ reg' = reg
    BY Zenon DEF Calm
  <1>5. p = "undo_move" => reg'[c.dst].phase = "none"
    <2>1. p = "undo_move" => c.phase = "planned"
      BY <1>2, Zenon DEF Undo
    <2>2. QED
      BY <1>4, <2>1, DestinationEmpty, Zenon DEF Empty
  <1>6. p \notin Deleting /\ p \notin Advancing /\ p # "resolve" /\ p # "send" /\ p # "delete" /\ "none" # "ok"
    BY <1>2, SMT DEF Undoing, Deleting, Advancing
  <1>7. RollsBack(h)'
    BY <1>3, <1>4, <1>5, <1>6, Zenon DEF RollsBack, Empty
  <1>8. (Exists /\ route.del) => (Exists /\ route.del)'
    BY Zenon DEF Calm, Exists
  <1>9. QED
    BY <1>2, <1>3, <1>6, <1>7, <1>8, Zenon DEF Fits

\* A POST.
LEMMA PostKept ==
  ASSUME Typed, Typed', IInv, Disciplined, NEW h \in Handlers, NEW m \in Migrations,
         NEW kind \in {"post", "soft"}, Post(h, m, kind)
  PROVE  IInv'
  <1>1. /\ Admitted(kind) /\ m \notin undoing /\ Active(m)
        /\ hand' = Enter(h, kind, m, Step(journal[m]), journal[m]) /\ stray' = stray
    BY Zenon DEF Post, Disciplined
  <1>2. Calm /\ World
    BY Zenon DEF Post, worker, Calm, IInv
  <1>3. PICK c : c = journal[m]
    BY Zenon
  <1>4. c \in Entry /\ c.phase \in Live
    BY <1>1, <1>3, JournalParts, Zenon DEF Active, Live
  <1>5. kind \in Kinds /\ m \in Named /\ Step(c) \in Steps /\ kind # "delete"
    BY <1>4, StepDue, Zenon DEF Kinds, Named, Live
  <1>6. Entered(h, kind, m, Step(c), c)
    BY <1>1, <1>3, <1>4, <1>5, Zenon DEF Entered
  <1>7. Fits(h)' /\ hand'[h].kind = kind /\ \A g \in Handlers \ {h} : hand'[g] = hand[g]
    BY <1>1, <1>2, <1>3, <1>5, <1>6, EnterAdvance, Zenon
  <1>8. Quiet \/ (kind = "post" /\ \A g \in Busy : hand[g].kind = "post")
    BY <1>1, Zenon DEF Admitted, Disciplined
  <1>9. CASE Quiet
    BY <1>1, <1>2, <1>7, <1>9, CalmWorld, QuietStep, Zenon
  <1>10. CASE kind = "post" /\ \A g \in Busy : hand[g].kind = "post"
    BY <1>1, <1>2, <1>7, <1>10, BesideStep, Zenon
  <1>11. QED
    BY <1>8, <1>9, <1>10, Zenon

\* A cancel.
LEMMA CancelKept ==
  ASSUME Typed, Typed', IInv, Disciplined, NEW h \in Handlers, NEW m \in Migrations, Cancel(h, m)
  PROVE  IInv'
  <1>1. /\ Admitted("cancel") /\ journal[m].phase \in Uncommitted
        /\ hand' = Enter(h, "cancel", m, Undo(journal[m]), journal[m]) /\ stray' = stray
    BY Zenon DEF Cancel
  <1>2. Calm /\ World
    BY Zenon DEF Cancel, worker, Calm, IInv
  <1>3. PICK c : c = journal[m]
    BY Zenon
  <1>4. c \in Entry /\ c.phase \in Uncommitted
    BY <1>1, <1>3, JournalParts, Zenon
  <1>5. "cancel" \in Kinds /\ m \in Named /\ Undo(c) \in Steps /\ "cancel" # "delete" /\ "cancel" # "post"
    BY <1>4, StepDue, Zenon DEF Kinds, Named
  <1>6. Entered(h, "cancel", m, Undo(c), c)
    BY <1>1, <1>3, <1>4, <1>5, Zenon DEF Entered
  <1>7. Fits(h)' /\ \A g \in Handlers \ {h} : hand'[g] = hand[g]
    BY <1>2, <1>3, <1>4, <1>5, <1>6, EnterUndo, Zenon
  <1>8. Quiet
    BY <1>1, <1>5, Zenon DEF Admitted, Disciplined
  <1>9. QED
    BY <1>1, <1>2, <1>7, <1>8, CalmWorld, QuietStep, Zenon

\* A DELETE.
LEMMA DeleteKept ==
  ASSUME Typed, Typed', IInv, Disciplined, NEW h \in Handlers, DeleteIntent(h)
  PROVE  IInv'
  <1>1. /\ Admitted("delete") /\ Exists /\ route' = [route EXCEPT !.del = TRUE] /\ stray' = stray
        /\ UNCHANGED <<journal, reg, data, undoing, latest>>
    BY Zenon DEF DeleteIntent, worker
  <1>2. route'.at = route.at /\ route'.ws = route.ws /\ route'.snap = route.snap /\ route'.del = TRUE
    <2>1. \A r \in Route, b \in BOOLEAN :
            LET q == [r EXCEPT !.del = b] IN q.at = r.at /\ q.ws = r.ws /\ q.snap = r.snap /\ q.del = b
      BY ZenonT(30) DEF Route
    <2>2. QED
      BY <1>1, <2>1, Zenon DEF Typed, TypeOK
  <1>3. World'
    <2>1. World
      BY Zenon DEF IInv
    <2>2. QED
      BY <1>1, <1>2, <2>1, SMTT(20) DEF World, Active, UnderWay, Source, Destination, Importing, Discarding,
         AtRest, Inactive, At, Empty, Elsewhere, Exists
  <1>4. PICK p : /\ hand' = Enter(h, "delete", NoMigration, p, NoEntry)
                 /\ p = IF route.ws = "detached" THEN "send" ELSE "resolve"
    BY Zenon DEF DeleteIntent
  <1>5. Fresh(h, "delete", NoMigration, p, NoEntry)
    <2>1. /\ NoEntry \in Entry /\ NoMigration \in Named /\ "delete" \in Kinds /\ p \in Steps
          /\ hand \in [Handlers -> Handler]
      BY <1>4, FirstEntry, FreeSteps, Zenon DEF Named, Kinds, Typed, HandsOK
    <2>2. Entered(h, "delete", NoMigration, p, NoEntry)
      BY <1>4, <2>1, Zenon DEF Entered
    <2>3. QED
      BY <2>1, <2>2, EnterFields, Zenon
  <1>6. /\ hand'[h].pc = p /\ hand'[h].re = "none" /\ hand'[h].kind = "delete"
        /\ \A g \in Handlers \ {h} : hand'[g] = hand[g]
    BY <1>5, Zenon DEF Fresh
  <1>7. p \in Deleting /\ p \notin Advancing /\ p \notin Undoing /\ p # "delete" /\ "none" # "ok"
    BY <1>4, SMT DEF Deleting, Advancing, Undoing
  <1>8. p = "send" => route.ws = "detached"
    BY <1>4, Zenon
  <1>9. p = "resolve" => route.ws = "attached"
    <2>1. route.ws \in {"attached", "detached"}
      BY SMT DEF Typed, TypeOK, Route
    <2>2. QED
      BY <1>4, <2>1, Zenon
  <1>10. RollsBack(h)'
    BY <1>2, <1>6, <1>7, <1>8, <1>9, Zenon DEF RollsBack
  <1>11. Fits(h)'
    BY <1>1, <1>2, <1>6, <1>7, <1>10, Zenon DEF Fits, Exists
  <1>12. Quiet
    BY <1>1, Zenon DEF Admitted, Disciplined
  <1>13. QED
    BY <1>1, <1>3, <1>6, <1>11, <1>12, QuietStep, Zenon

\* A migration begins.
LEMMA BeginKept ==
  ASSUME Typed, Typed', IInv, Disciplined, NEW m \in Migrations, NEW d \in Nodes, Begin(m, d)
  PROVE  IInv'
  <1> DEFINE e == FirstOf(route.at, d)
  <1>1. /\ Admitted("begin") /\ Exists /\ ~route.del /\ d # route.at
        /\ \A k \in Migrations : journal[k].phase = (IF k < m THEN "complete" ELSE "none")
        /\ journal' = [journal EXCEPT ![m] = e]
        /\ UNCHANGED <<route, reg, data, undoing, latest, hand, stray>>
    BY Zenon DEF Begin, FirstOf, worker
  <1>2. Quiet /\ "begin" # "post"
    BY <1>1, Zenon DEF Admitted, Disciplined
  <1>3. Inactive
    BY <1>1, SMT DEF Inactive, Active, Uncommitted, Committed
  <1>4. PICK s \in Nodes : s = route.at
    BY <1>1, SMT DEF Typed, TypeOK, Route, Exists
  <1>5. PICK f \in Entry : f = e /\ f.phase = "planned" /\ f.src = s /\ f.dst = d /\ f.fenced = FALSE
    BY <1>4, PlannedEntry, Zenon
  <1> HIDE DEF e
  <1>6. journal'[m] = f /\ \A k \in Migrations \ {m} : journal'[k] = journal[k]
    BY <1>1, <1>5, Zenon DEF Typed, JournalOK
  <1>7. /\ route.ws = "detached" => \A n \in Nodes : Empty(n)
        /\ route.ws = "attached" => data[s] = latest /\ reg[s].phase = "owned" /\ Elsewhere({s})
        /\ route.ws \in {"attached", "detached"}
    <2>1. AtRest
      BY <1>3, Zenon DEF IInv, World
    <2>2. route.ws \in {"attached", "detached"}
      BY SMT DEF Typed, TypeOK, Route
    <2>3. QED
      BY <1>1, <1>4, <2>1, <2>2, Zenon DEF AtRest
  <1>8. \A n \in Nodes \ {s} : Empty(n)
    BY <1>7, Zenon DEF Elsewhere
  <1>9. UnderWay(m)'
    <2>1. Exists' /\ route'.at = s
      BY <1>1, <1>4, Zenon DEF Exists
    <2>2. \A n \in Nodes \ {s} : reg'[n].phase = "none"
      BY <1>1, <1>8, Zenon DEF Empty
    <2>3. Source(m, f)'
      BY <1>1, <1>5, <1>7, <2>1, <2>2, Zenon DEF Source, Empty
    <2>4. Elsewhere({f.src, f.dst})'
      BY <1>5, <2>2, Zenon DEF Elsewhere, Empty
    <2>5. f.phase \in Uncommitted /\ f.phase \notin Committed
      BY <1>5, SMT DEF Uncommitted, Committed
    <2>6. QED
      BY <1>6, <2>1, <2>3, <2>4, <2>5, Zenon DEF UnderWay, Source, Importing, Discarding, Elsewhere, At, Empty
  <1>10. World'
    <2>1. \A k \in Migrations \ {m} : ~Active(k)'
      BY <1>3, <1>6, Zenon DEF Inactive, Active
    <2>2. Active(m)'
      BY <1>5, <1>6, SMT DEF Active, Uncommitted
    <2>3. Exists' /\ route'.ws = "detached" => latest' = 0 /\ route'.snap = 0
      BY <1>1, Zenon DEF IInv, World
    <2>4. QED
      BY <1>9, <2>1, <2>2, <2>3, Zenon DEF World, Inactive
  <1>11. stray' = {} /\ \A g \in Handlers : hand'[g].pc = "idle"
    BY <1>1, <1>2, Zenon DEF Quiet, Busy
  <1>12. Apart' /\ Astray' /\ \A g \in Handlers : Fits(g)'
    BY <1>11, Zenon DEF Apart, Astray, Fits
  <1>13. QED
    BY <1>10, <1>12, Zenon DEF IInv, Handling

-----------------------------------------------------------------------------
(* Rollbacks and deletions                                                   *)

\* The import is undone, the move is next.
LEMMA ImportUndoneKept ==
  ASSUME Typed, Typed', IInv, NEW h \in Handlers, ImportUndone(h)
  PROVE  IInv'
  <1>1. /\ hand[h].pc = "undo_import" /\ hand[h].re = "ok" /\ hand' = Goto(h, "undo_move", hand[h].c)
        /\ stray' = stray /\ Calm /\ Fits(h)
    BY Zenon DEF ImportUndone, Answered, worker, Calm, IInv, Handling
  <1>2. /\ "undo_import" \in Undoing /\ "undo_move" \in Undoing /\ "undo_move" \in Steps
        /\ "undo_import" # "idle"
    BY FreeSteps, Zenon DEF Undoing
  <1>3. PICK c \in Entry : c = hand[h].c
    BY HandParts, Zenon
  <1>4. PICK m : m = hand[h].m
    BY Zenon
  <1>5. /\ journal[m].phase = c.phase /\ c.src = journal[m].src /\ c.dst = journal[m].dst
        /\ hand[h].kind # "post" /\ (hand[h].kind = "delete" => Exists /\ route.del) /\ Heard(h)
    BY <1>1, <1>2, <1>3, <1>4, UndoingParts, Zenon
  <1>6. Empty(c.dst)
    BY <1>1, <1>3, <1>5, Zenon DEF Heard
  <1>7. /\ journal'[m].phase = c.phase /\ c.src = journal'[m].src /\ c.dst = journal'[m].dst
        /\ reg'[c.dst].phase = "none" /\ (hand[h].kind = "delete" => (Exists /\ route.del)')
    BY <1>1, <1>5, <1>6, Zenon DEF Calm, Empty, Exists
  <1>8. Fits(h)' /\ Moves(h)
    BY <1>1, <1>2, <1>3, <1>4, <1>5, <1>7, GotoUndo, Zenon
  <1>9. QED
    BY <1>1, <1>2, <1>8, CalmStep, Zenon

\* A DELETE finds the migration it must finish or roll back, or none.
LEMMA ResolveKept ==
  ASSUME Typed, Typed', IInv, NEW h \in Handlers, Resolve(h)
  PROVE  IInv'
  <1>1. hand[h].pc = "resolve" /\ stray' = stray /\ Calm /\ Fits(h) /\ World
    BY Zenon DEF Resolve, worker, Calm, IInv, Handling
  <1>2. "resolve" \in Deleting /\ "delete" \in Kinds /\ NoEntry \in Entry
    BY FirstEntry, Zenon DEF Deleting, Kinds
  <1>3. hand[h].kind = "delete" /\ Exists /\ route.del /\ hand[h].pc # "idle" /\ hand[h].kind # "post"
    BY <1>1, <1>2, DeletingParts, Zenon
  <1>4. (Exists /\ route.del)'
    BY <1>1, <1>3, Zenon DEF Calm, Exists
  <1>5. CASE (~\E m \in Migrations : Active(m)) /\ hand' = Goto(h, "send", NoEntry)
    <2>1. Inactive'
      BY <1>1, <1>5, Zenon DEF Inactive, Active, Calm
    <2>2. Fits(h)' /\ Moves(h)
      BY <1>2, <1>3, <1>4, <1>5, <2>1, GotoSend, Zenon
    <2>3. QED
      BY <1>1, <1>3, <2>2, CalmStep, Zenon
  <1>6. ASSUME NEW m \in Migrations, Active(m),
               hand' = Enter(h, "delete", m, IF journal[m].phase \in Committed THEN Step(journal[m])
                                             ELSE Undo(journal[m]), journal[m])
        PROVE  IInv'
    <2>1. PICK c \in Entry : c = journal[m]
      BY JournalParts, Zenon
    <2>2. c.phase \in Uncommitted \/ c.phase \in Committed
      BY <1>6, <2>1, Zenon DEF Active
    <2>3. m \in Named
      BY Zenon DEF Named
    <2>4. CASE c.phase \in Committed
      <3>1. Step(c) \in Steps
        BY <2>4, StepDue, Zenon
      <3>2. Entered(h, "delete", m, Step(c), c)
        BY <1>2, <1>6, <2>1, <2>3, <2>4, <3>1, Zenon DEF Entered
      <3>3. m \notin undoing
        BY <1>1, <1>6, <2>1, <2>4, Zenon DEF World, UnderWay, Destination
      <3>4. Fits(h)' /\ hand'[h].kind = "delete" /\ \A g \in Handlers \ {h} : hand'[g] = hand[g]
        BY <1>1, <1>2, <1>3, <1>6, <2>1, <3>2, <3>3, EnterAdvance, Zenon
      <3>5. QED
        BY <1>1, <1>3, <3>4, CalmStep, Zenon DEF Moves
    <2>5. CASE c.phase \in Uncommitted
      <3>0. c.phase \notin Committed
        BY <2>5, SMT DEF Uncommitted, Committed
      <3>1. Undo(c) \in Steps
        BY <2>5, StepDue, Zenon
      <3>2. Entered(h, "delete", m, Undo(c), c)
        BY <1>2, <1>6, <2>1, <2>3, <3>0, <3>1, Zenon DEF Entered
      <3>3. Fits(h)' /\ hand'[h].kind = "delete" /\ \A g \in Handlers \ {h} : hand'[g] = hand[g]
        BY <1>1, <1>2, <1>3, <2>1, <2>5, <3>2, EnterUndo, Zenon
      <3>4. QED
        BY <1>1, <1>3, <3>3, CalmStep, Zenon DEF Moves
    <2>6. QED
      BY <2>2, <2>4, <2>5, Zenon
  <1>7. QED
    BY <1>5, <1>6, Zenon DEF Resolve

\* The gateway forgets the sandbox.
LEMMA RemovedWorld ==
  ASSUME Typed, Removed, UNCHANGED <<reg, data, latest, undoing>>,
         \A n \in Nodes : reg[n].phase # "owned"
  PROVE  World'
  <1>1. route'.at = NoNode
    <2>1. \A r \in Route : [r EXCEPT !.at = NoNode, !.del = FALSE].at = NoNode
      BY SMT DEF Route
    <2>2. QED
      BY <2>1, Zenon DEF Removed, Typed, TypeOK
  <1>2. ASSUME NEW m \in Migrations PROVE ~Active(m)'
    <2>1. journal'[m] = IF Active(m) THEN [journal[m] EXCEPT !.phase = "complete"] ELSE journal[m]
      BY Zenon DEF Removed
    <2>2. [journal[m] EXCEPT !.phase = "complete"].phase = "complete"
      BY JournalParts, SMT DEF Entry
    <2>3. Active(m)' <=> journal'[m].phase \in Uncommitted \cup Committed
      BY Zenon DEF Active
    <2>4. "complete" \notin Uncommitted \cup Committed
      BY SMT DEF Uncommitted, Committed
    <2>5. QED
      BY <2>1, <2>2, <2>3, <2>4, Zenon DEF Active
  <1>3. AtRest' /\ ~Exists'
    BY <1>1, Zenon DEF AtRest, Exists
  <1>4. QED
    BY <1>2, <1>3, Zenon DEF World

\* A DELETE reads the route again; a detached sandbox is dropped at once.
LEMMA SendKept ==
  ASSUME Typed, Typed', IInv, NEW h \in Handlers, Send(h)
  PROVE  IInv'
  <1>1. hand[h].pc = "send" /\ stray' = stray /\ UNCHANGED <<reg, data, undoing, latest>> /\ Fits(h) /\ World
    BY Zenon DEF Send, worker, IInv, Handling
  <1>2. "send" \in Deleting /\ "delete" # "post"
    BY Zenon DEF Deleting
  <1>3. /\ hand[h].kind = "delete" /\ Exists /\ route.del /\ hand[h].pc # "idle" /\ hand[h].kind # "post"
        /\ RollsBack(h)
    BY <1>1, <1>2, DeletingParts, Zenon
  <1>4. CASE /\ route.ws = "attached" /\ UNCHANGED <<journal, route>>
             /\ hand' = [hand EXCEPT ![h] = [@ EXCEPT !.pc = "delete", !.to = route.at, !.c = NoEntry]]
    <2>1. Calm
      BY <1>1, <1>4, Zenon DEF Calm
    <2>2. Inactive'
      <3>1. Inactive
        BY <1>1, <1>3, <1>4, Zenon DEF RollsBack
      <3>2. QED
        BY <1>4, <3>1, Zenon DEF Inactive, Active
    <2>3. /\ hand'[h].pc = "delete" /\ hand'[h].to = route'.at /\ hand'[h].kind = "delete"
          /\ hand'[h].re = hand[h].re
          /\ \A g \in Handlers \ {h} : hand'[g] = hand[g]
      <3>1. PICK x \in Handler : x = hand[h]
        BY HandParts, Zenon
      <3>2. PICK n : n = route.at
        BY Zenon
      <3> DEFINE y == [x EXCEPT !.pc = "delete", !.to = n, !.c = NoEntry]
      <3>3. y.pc = "delete" /\ y.to = n /\ y.kind = x.kind /\ y.re = x.re
        BY SMT DEF Handler
      <3>4. hand' = [hand EXCEPT ![h] = y]
        BY <1>4, <3>1, <3>2, Zenon
      <3> HIDE DEF y
      <3>5. hand'[h] = y /\ \A g \in Handlers \ {h} : hand'[g] = hand[g]
        BY <3>4, HandParts, Zenon
      <3>6. QED
        BY <1>3, <1>4, <3>1, <3>2, <3>3, <3>5, Zenon
    <2>4. "delete" \in Deleting /\ "delete" \notin Advancing /\ "delete" \notin Undoing /\ "none" # "ok"
      BY SMT DEF Deleting, Advancing, Undoing
    <2>5. hand'[h].re # "ok"
      BY <1>1, <1>3, <2>3, <2>4, Zenon DEF RollsBack
    <2>6. RollsBack(h)'
      BY <1>2, <1>4, <2>2, <2>3, <2>4, Zenon DEF RollsBack
    <2>7. (Exists /\ route.del)'
      BY <1>3, <1>4, Zenon DEF Exists
    <2>8. Fits(h)' /\ Moves(h)
      BY <1>3, <2>3, <2>4, <2>5, <2>6, <2>7, Zenon DEF Fits, Moves
    <2>9. QED
      BY <1>1, <1>3, <2>1, <2>8, CalmStep, Zenon
  <1>5. CASE route.ws = "detached" /\ Removed /\ hand' = Leave(h)
    <2>1. ASSUME NEW n \in Nodes PROVE reg[n].phase # "owned"
      <3>1. CASE Inactive
        BY <1>1, <1>3, <1>5, <3>1, Zenon DEF World, AtRest, Empty
      <3>2. ASSUME NEW m \in Migrations, Active(m) PROVE reg[n].phase # "owned"
        <4>1. PICK e \in Entry : e = journal[m]
          BY JournalParts, Zenon
        <4>2. /\ Elsewhere({e.src, e.dst})
              /\ e.phase \in Uncommitted => Source(m, e)
              /\ e.phase \in Committed => Destination(m, e)
              /\ e.phase \in Uncommitted \cup Committed
          BY <1>1, <3>2, <4>1, Zenon DEF World, UnderWay, Active
        <4>3. Source(m, e)
          BY <1>5, <4>2, SMT DEF Destination
        <4>4. e.phase = "planned" \/ Importing(m, e) \/ Discarding(m, e)
          BY <4>3, Zenon DEF Source
        <4>5. reg[e.dst].phase # "owned" /\ reg[e.src].phase = "none"
          BY <1>5, <4>3, <4>4, SMT DEF Source, Importing, Discarding, At, Empty
        <4>6. QED
          BY <4>2, <4>5, SMT DEF Elsewhere, Empty
      <3>3. QED
        BY <3>1, <3>2, Zenon DEF Inactive
    <2>2. World'
      BY <1>1, <1>5, <2>1, RemovedWorld, Zenon
    <2>3. QED
      BY <1>1, <1>3, <1>5, <2>2, LeaveFits, HandStep, Zenon DEF Moves
  <1>6. QED
    BY <1>3, <1>4, <1>5, Zenon DEF Send

\* The worker has deleted the sandbox, and the route is dropped.
LEMMA DropKept ==
  ASSUME Typed, Typed', IInv, NEW h \in Handlers, Drop(h)
  PROVE  IInv'
  <1>1. /\ hand[h].pc = "delete" /\ hand[h].re = "ok" /\ stray' = stray /\ UNCHANGED <<reg, data, undoing, latest>>
        /\ Fits(h) /\ World /\ Removed /\ hand' = Leave(h)
    BY Zenon DEF Drop, Answered, worker, IInv, Handling
  <1>2. "delete" \in Deleting /\ "delete" # "post"
    BY Zenon DEF Deleting
  <1>3. /\ hand[h].kind = "delete" /\ Exists /\ route.del /\ hand[h].pc # "idle" /\ hand[h].kind # "post"
        /\ RollsBack(h) /\ Heard(h)
    BY <1>1, <1>2, DeletingParts, Zenon
  <1>4. Inactive /\ route.ws = "attached" /\ Empty(route.at)
    BY <1>1, <1>3, Zenon DEF RollsBack, Heard
  <1>5. \A n \in Nodes : reg[n].phase # "owned"
    BY <1>1, <1>3, <1>4, SMT DEF World, AtRest, Elsewhere, Empty
  <1>6. World'
    BY <1>1, <1>5, RemovedWorld, Zenon
  <1>7. QED
    BY <1>1, <1>3, <1>6, LeaveFits, HandStep, Zenon DEF Moves

\* A rollback ends: what its last answer says is still so.
LEMMA CloseFacts ==
  ASSUME Typed, IInv, NEW h \in Handlers, Close(h)
  PROVE  LET m == hand[h].m
             c == hand[h].c
             e == journal[m] IN
         /\ m \in Migrations /\ e \in Entry /\ e.phase \in Uncommitted /\ e.phase = c.phase /\ Active(m)
         /\ Exists /\ route.at = e.src /\ route.ws = "attached"
         /\ reg[e.src].phase = "owned" /\ data[e.src] = latest
         /\ \A n \in Nodes \ {e.src} : Empty(n)
  <1>1. hand[h].pc = "undo_move" /\ hand[h].re = "ok" /\ Fits(h) /\ World
    BY Zenon DEF Close, Answered, IInv, Handling
  <1>2. "undo_move" \in Undoing
    BY Zenon DEF Undoing
  <1>3. PICK m \in Migrations : m = hand[h].m
    BY <1>1, <1>2, UndoingParts, Zenon
  <1>4. PICK e \in Entry : e = journal[m]
    BY JournalParts, Zenon
  <1>5. /\ e.phase = hand[h].c.phase /\ hand[h].c.src = e.src /\ hand[h].c.dst = e.dst
        /\ e.phase \in Uncommitted /\ Heard(h)
    BY <1>1, <1>2, <1>3, <1>4, UndoingParts, Zenon
  <1>6. reg[e.src].phase = "owned" /\ Empty(e.dst)
    BY <1>1, <1>5, Zenon DEF Heard
  <1>7. Active(m)
    BY <1>4, <1>5, Zenon DEF Active
  <1>8. Exists /\ Elsewhere({e.src, e.dst}) /\ Source(m, e)
    BY <1>1, <1>4, <1>5, <1>7, Zenon DEF World, UnderWay
  <1>9. route.ws \in {"attached", "detached"}
    BY SMT DEF Typed, TypeOK, Route
  <1>10. route.at = e.src /\ route.ws = "attached" /\ data[e.src] = latest
    BY <1>6, <1>8, <1>9, SMT DEF Source, Empty
  <1>11. \A n \in Nodes \ {e.src} : Empty(n)
    BY <1>6, <1>8, Zenon DEF Elsewhere
  <1>12. QED
    BY <1>3, <1>4, <1>5, <1>6, <1>7, <1>8, <1>10, <1>11, Zenon

\* A rollback ends the journal.
LEMMA CloseKept ==
  ASSUME Typed, Typed', IInv, NEW h \in Handlers, Close(h)
  PROVE  IInv'
  <1>1. /\ hand[h].pc = "undo_move" /\ stray' = stray /\ UNCHANGED <<route, reg, data, undoing, latest>>
        /\ Fits(h) /\ World
        /\ hand' = IF hand[h].kind = "delete" THEN Goto(h, "send", hand[h].c) ELSE Leave(h)
    BY Zenon DEF Close, Answered, worker, IInv, Handling
  <1>2. "undo_move" \in Undoing /\ "undo_move" # "idle"
    BY Zenon DEF Undoing
  <1>3. hand[h].kind # "post" /\ (hand[h].kind = "delete" => Exists /\ route.del) /\ hand[h].c \in Entry
    BY <1>1, <1>2, UndoingParts, Zenon
  <1>4. PICK m \in Migrations : m = hand[h].m
    BY CloseFacts, Zenon
  <1>5. PICK e \in Entry : e = journal[m]
    BY JournalParts, Zenon
  <1>6. /\ e.phase = hand[h].c.phase /\ Active(m)
        /\ Exists /\ route.at = e.src /\ route.ws = "attached"
        /\ reg[e.src].phase = "owned" /\ data[e.src] = latest
        /\ \A n \in Nodes \ {e.src} : Empty(n)
    BY <1>4, <1>5, CloseFacts, Zenon
  <1>7. journal' = [journal EXCEPT ![m].phase = "complete"]
    BY <1>4, <1>5, <1>6, Zenon DEF Close
  <1>8. journal'[m].phase = "complete" /\ \A k \in Migrations \ {m} : journal'[k] = journal[k]
    <2>1. journal'[m] = [e EXCEPT !.phase = "complete"] /\ \A k \in Migrations \ {m} : journal'[k] = journal[k]
      BY <1>5, <1>7, JournalParts, Zenon
    <2>2. [e EXCEPT !.phase = "complete"].phase = "complete"
      BY SMT DEF Entry
    <2>3. QED
      BY <2>1, <2>2, Zenon
  <1>9. Inactive'
    <2>1. ASSUME NEW k \in Migrations \ {m} PROVE ~Active(k)'
      BY <1>1, <1>6, <1>8, Zenon DEF World, Active
    <2>2. ~Active(m)'
      BY <1>8, SMT DEF Active, Uncommitted, Committed
    <2>3. QED
      BY <2>1, <2>2, Zenon DEF Inactive
  <1>10. World'
    <2>1. AtRest'
      BY <1>1, <1>6, SMT DEF AtRest, Exists, Empty, Elsewhere
    <2>2. route'.ws # "detached"
      BY <1>1, <1>6, Zenon
    <2>3. QED
      BY <1>9, <2>1, <2>2, Zenon DEF World, Inactive
  <1>11. Fits(h)' /\ Moves(h)
    <2>1. CASE hand[h].kind = "delete"
      <3>1. hand' = Goto(h, "send", hand[h].c) /\ (Exists /\ route.del)'
        BY <1>1, <1>3, <2>1, Zenon DEF Exists
      <3>2. QED
        BY <1>3, <1>9, <2>1, <3>1, GotoSend, Zenon
    <2>2. CASE hand[h].kind # "delete"
      BY <1>1, <2>2, LeaveFits, Zenon
    <2>3. QED
      BY <2>1, <2>2, Zenon
  <1>12. QED
    BY <1>1, <1>2, <1>3, <1>10, <1>11, HandStep, Zenon DEF Moves

-----------------------------------------------------------------------------
(* The journal goes on                                                       *)

\* The order of the phases.
LEMMA NextPhase ==
  /\ "prepared" \in From("planned") /\ "staged" \in From("prepared") /\ "routed" \in From("staged")
  /\ "activated" \in From("routed") /\ "complete" \in From("activated")
  /\ {"planned", "prepared", "staged"} = Uncommitted /\ {"routed", "activated"} = Committed
  /\ \A q \in Uncommitted : q \in Live /\ q \notin Committed
  /\ \A q \in Committed : q \in Live /\ q \notin Uncommitted
  BY SMT DEF From, Live, Uncommitted, Committed

\* The journal goes to a later phase of the same migration.
LEMMA Relabelled ==
  ASSUME Typed, World, NEW m \in Migrations, NEW e \in Entry, NEW f \in Entry, e = journal[m], Open(m), Active(m),
         journal' = [journal EXCEPT ![m] = f], UNCHANGED <<reg, data, latest, undoing>>,
         f.src = e.src, f.dst = e.dst, f.phase \in From(e.phase), f.phase \in Live,
         e.phase # "planned" => f.fenced = e.fenced /\ f.snap = e.snap,
         Exists', f.phase \in Uncommitted => Source(m, f)', f.phase \in Committed => Destination(m, f)',
         route'.ws = "detached" => latest' = 0 /\ route'.snap = 0
  PROVE  World' /\ Onward(m)
  <1>1. journal'[m] = f /\ \A k \in Migrations \ {m} : journal'[k] = journal[k]
    BY JournalParts, Zenon
  <1>2. Active(m)' /\ \A k \in Migrations \ {m} : ~Active(k)'
    BY <1>1, Zenon DEF World, Active, Live
  <1>3. Elsewhere({f.src, f.dst})'
    <2>1. Elsewhere({e.src, e.dst})
      BY Zenon DEF World, UnderWay
    <2>2. QED
      BY <2>1, Zenon DEF Elsewhere, Empty
  <1>4. UnderWay(m)'
    <2>1. Elsewhere({journal[m].src, journal[m].dst})'
      BY <1>1, <1>3, Zenon DEF Elsewhere, Empty
    <2>2. f.phase \in Uncommitted => Source(m, journal[m])'
      BY <1>1, Zenon DEF Source, Importing, Discarding, At, Empty
    <2>3. f.phase \in Committed => Destination(m, journal[m])'
      BY <1>1, Zenon DEF Destination, At, Empty
    <2>4. QED
      BY <1>1, <2>1, <2>2, <2>3, Zenon DEF UnderWay
  <1>5. World'
    BY <1>2, <1>4, Zenon DEF World, Inactive
  <1>6. Open(m)'
    BY <1>2, Zenon DEF Open
  <1>7. Onward(m)
    BY <1>1, <1>6, SMT DEF Onward, At, Empty
  <1>8. QED
    BY <1>5, <1>7, Zenon

\* A compare-and-set of the journal's phase.
LEMMA SwitchKept ==
  ASSUME Typed, Typed', IInv, NEW h \in Handlers, hand[h].pc \in Advancing, NEW p, NEW f \in Entry,
         NEW m, m = hand[h].m, Switch(h, p, f), UNCHANGED <<route, reg, data, latest, undoing, stray>>,
         f.phase \in Live, f.phase # "planned",
         journal[m].phase = p /\ journal' = [journal EXCEPT ![m] = f] => World' /\ Onward(m)
  PROVE  IInv'
  <1>1. Fits(h) /\ World /\ hand[h].pc # "idle"
    BY StepKinds, Zenon DEF IInv, Handling
  <1>2. CASE /\ journal[m].phase = p /\ journal' = [journal EXCEPT ![m] = f]
             /\ hand' = Goto(h, Step(f), f)
    <2>1. World' /\ Onward(m) /\ Open(m)'
      BY <1>2, Zenon DEF Onward
    <2>2. m \in Migrations /\ (hand[h].kind = "delete" => Exists /\ route.del)
      BY <1>1, AdvancingParts, Zenon
    <2>3. journal'[m] = f
      BY <1>2, <2>2, JournalParts, Zenon
    <2>4. PICK q : q = Step(f) /\ q \in Advancing /\ q \in Steps
      BY StepDue, Zenon DEF Live
    <2>5. Copy(f, f)
      <3>1. f.phase \in Phases /\ f.phase # "none"
        BY Zenon DEF Live, Phases, Uncommitted, Committed
      <3>2. f.phase \in From(f.phase)
        BY <3>1, FromFacts, Zenon
      <3>3. QED
        BY <3>2, Zenon DEF Copy
    <2>6. hand[h].kind = "delete" => (Exists /\ route.del)'
      BY <2>2, Zenon DEF Exists
    <2>7. Fits(h)' /\ Moves(h)
      BY <1>2, <2>1, <2>3, <2>4, <2>5, <2>6, GotoAdvance, Zenon
    <2>8. QED
      BY <1>1, <2>1, <2>7, HandStep, Zenon DEF Moves
  <1>3. CASE hand' = Returned(h, hand[h].c) /\ UNCHANGED journal
    <2>1. Calm
      BY <1>3, Zenon DEF Calm
    <2>2. Fits(h)' /\ Moves(h)
      BY <1>1, <1>3, <2>1, ReturnedFits, Zenon
    <2>3. QED
      BY <1>1, <2>1, <2>2, CalmStep, Zenon
  <1>4. QED
    BY <1>2, <1>3, Zenon DEF Switch

\* What is known of the migration a handler advances.
LEMMA AdvanceFacts ==
  ASSUME Typed, IInv, NEW h \in Handlers, hand[h].pc \in Advancing
  PROVE  \E m \in Migrations : \E c, e \in Entry :
           /\ m = hand[h].m /\ c = hand[h].c /\ e = journal[m] /\ Due(hand[h].pc, c)
           /\ Open(m) /\ Copy(c, e) /\ Whole(e) /\ e.fenced \in BOOLEAN
           /\ hand[h].kind # "post" => e.phase = c.phase
           /\ hand[h].kind = "delete" => Exists /\ route.del
           /\ hand[h].re = "ok" => Heard(h)
           /\ e.phase \in Live => Active(m) /\ Exists /\ Elsewhere({e.src, e.dst})
           /\ e.phase \in Uncommitted => Source(m, e)
           /\ e.phase \in Committed => Destination(m, e)
           /\ Fits(h) /\ World /\ hand[h].pc # "idle"
  <1>1. Fits(h) /\ World /\ hand[h].pc # "idle"
    BY StepKinds, Zenon DEF IInv, Handling
  <1>2. PICK m \in Migrations : m = hand[h].m
    BY <1>1, AdvancingParts, Zenon
  <1>3. PICK c \in Entry : c = hand[h].c
    BY <1>1, AdvancingParts, Zenon
  <1>4. PICK e \in Entry : e = journal[m]
    BY JournalParts, Zenon
  <1>5. /\ Open(m) /\ Copy(c, e) /\ Whole(e) /\ Due(hand[h].pc, c)
        /\ hand[h].kind # "post" => e.phase = c.phase
        /\ hand[h].kind = "delete" => Exists /\ route.del
        /\ hand[h].re = "ok" => Heard(h)
    BY <1>1, <1>2, <1>3, <1>4, AdvancingParts, Zenon
  <1>6. e.fenced \in BOOLEAN
    BY EntryTyped, Zenon
  <1>7. /\ e.phase \in Live => Active(m) /\ Exists /\ Elsewhere({e.src, e.dst})
        /\ e.phase \in Uncommitted => Source(m, e)
        /\ e.phase \in Committed => Destination(m, e)
    BY <1>1, <1>4, Zenon DEF Live, Active, World, UnderWay
  <1>8. QED
    BY <1>1, <1>2, <1>3, <1>4, <1>5, <1>6, <1>7, Zenon

\* The source is prepared, or a detached sandbox needs none.
LEMMA PlanKept ==
  ASSUME Typed, Typed', IInv, NEW h \in Handlers, Plan(h)
  PROVE  IInv'
  <1>0. hand[h].pc = "plan" /\ UNCHANGED <<route, reg, data, latest, undoing, stray>>
    BY Zenon DEF Plan, worker
  <1>1. hand[h].pc \in Advancing /\ "prepare" \in Advancing /\ "prepare" \in Steps
    BY <1>0, FreeSteps, Zenon DEF Advancing
  <1>2. PICK m \in Migrations : \E c, e \in Entry :
           /\ m = hand[h].m /\ c = hand[h].c /\ e = journal[m] /\ Due(hand[h].pc, c)
           /\ Open(m) /\ Copy(c, e) /\ Whole(e) /\ e.fenced \in BOOLEAN
           /\ hand[h].kind # "post" => e.phase = c.phase
           /\ hand[h].kind = "delete" => Exists /\ route.del
           /\ e.phase \in Live => Active(m) /\ Exists /\ Elsewhere({e.src, e.dst})
           /\ e.phase \in Uncommitted => Source(m, e)
           /\ Fits(h) /\ World /\ hand[h].pc # "idle"
    BY <1>1, AdvanceFacts, ZenonT(30)
  <1>3. PICK c \in Entry, e \in Entry :
           /\ m = hand[h].m /\ c = hand[h].c /\ e = journal[m] /\ Due(hand[h].pc, c)
           /\ Open(m) /\ Copy(c, e) /\ Whole(e) /\ e.fenced \in BOOLEAN
           /\ hand[h].kind # "post" => e.phase = c.phase
           /\ hand[h].kind = "delete" => Exists /\ route.del
           /\ e.phase \in Live => Active(m) /\ Exists /\ Elsewhere({e.src, e.dst})
           /\ e.phase \in Uncommitted => Source(m, e)
           /\ Fits(h) /\ World /\ hand[h].pc # "idle"
    BY <1>2, Zenon
  <1>4. c.phase = "planned"
    BY <1>0, <1>3, SMT DEF Due
  <1>5. CASE hand' = Returned(h, c) /\ UNCHANGED journal
    <2>1. Calm
      BY <1>0, <1>5, Zenon DEF Calm
    <2>2. Fits(h)' /\ Moves(h)
      BY <1>1, <1>3, <1>5, <2>1, ReturnedFits, Zenon
    <2>3. QED
      BY <1>0, <1>3, <2>1, <2>2, CalmStep, Zenon
  <1>6. CASE hand' = Goto(h, "prepare", c) /\ UNCHANGED journal
    <2>1. Calm
      BY <1>0, <1>6, Zenon DEF Calm
    <2>2. Open(m)' /\ (hand[h].kind = "delete" => (Exists /\ route.del)') /\ journal'[m] = e
      BY <1>0, <1>3, <1>6, <2>1, CalmOpen, Zenon DEF Exists
    <2>3. Fits(h)' /\ Moves(h)
      BY <1>1, <1>3, <1>6, <2>2, GotoAdvance, Zenon
    <2>4. QED
      BY <1>0, <1>3, <2>1, <2>3, CalmStep, Zenon
  <1>7. CASE Exists /\ route.ws = "detached" /\ Switch(h, "planned", [c EXCEPT !.phase = "prepared", !.snap = route.snap])
    <2>1. PICK v \in Versions : v = route.snap
      BY SMT DEF Typed, TypeOK, Route
    <2>2. PICK f \in Entry : /\ f = [c EXCEPT !.phase = "prepared", !.snap = v] /\ f.phase = "prepared"
                             /\ f.src = c.src /\ f.dst = c.dst /\ f.fenced = c.fenced /\ f.snap = v
      BY SnapMoves, Zenon
    <2>3. Switch(h, "planned", f)
      BY <1>7, <2>1, <2>2, Zenon
    <2>4. v = latest /\ latest = 0 /\ route.snap = 0
      BY <1>3, <1>7, <2>1, Zenon DEF World
    <2>5. ASSUME e.phase = "planned", journal' = [journal EXCEPT ![m] = f] PROVE World' /\ Onward(m)
      <3>1. Source(m, e) /\ e.phase \in Live /\ f.phase \in Live /\ f.phase \in From(e.phase)
        BY <1>3, <2>2, <2>5, NextPhase, Zenon
      <3>2. f.src = e.src /\ f.dst = e.dst /\ f.fenced = FALSE
        BY <1>3, <1>4, <2>2, Zenon DEF Copy
      <3>3. route.at = e.src /\ Empty(e.src) /\ Empty(e.dst)
        BY <1>7, <2>5, <3>1, Zenon DEF Source
      <3>4. Source(m, f)'
        BY <1>0, <1>7, <2>2, <2>4, <3>2, <3>3, Zenon DEF Source, Importing, Discarding, At, Empty
      <3>5. f.phase \notin Committed /\ Exists' /\ Active(m) /\ (route'.ws = "detached" => latest' = 0 /\ route'.snap = 0)
        BY <1>0, <1>3, <1>7, <2>2, <2>4, <3>1, Zenon DEF Committed, Exists
      <3>6. QED
        BY <1>0, <1>3, <2>5, <3>1, <3>2, <3>4, <3>5, Relabelled, Zenon
    <2>6. f.phase \in Live /\ f.phase # "planned"
      BY <2>2, SMT DEF Live, Uncommitted
    <2>7. QED
      BY <1>0, <1>1, <1>3, <2>3, <2>5, <2>6, SwitchKept, Zenon
  <1>8. QED
    BY <1>3, <1>5, <1>6, <1>7, Zenon DEF Plan

\* The parts of a compare-and-set after an answer.
LEMMA PrepareDoneKept ==
  ASSUME Typed, Typed', IInv, NEW h \in Handlers, PrepareDone(h)
  PROVE  IInv'
  <1>0. /\ hand[h].pc = "prepare" /\ hand[h].re = "ok" /\ UNCHANGED <<route, reg, data, latest, undoing, stray>>
        /\ Switch(h, "planned", [hand[h].c EXCEPT !.phase = "prepared", !.fenced = TRUE])
    BY Zenon DEF PrepareDone, Answered, worker
  <1>1. hand[h].pc \in Advancing
    BY <1>0, Zenon DEF Advancing
  <1>2. PICK m \in Migrations : \E c, e \in Entry :
           /\ m = hand[h].m /\ c = hand[h].c /\ e = journal[m] /\ Due(hand[h].pc, c)
           /\ Open(m) /\ Copy(c, e) /\ Heard(h)
           /\ e.phase \in Live => Active(m) /\ Exists
           /\ e.phase \in Uncommitted => Source(m, e)
           /\ World
    BY <1>0, <1>1, AdvanceFacts, Zenon
  <1>3. PICK c \in Entry, e \in Entry :
           /\ m = hand[h].m /\ c = hand[h].c /\ e = journal[m] /\ Due(hand[h].pc, c)
           /\ Open(m) /\ Copy(c, e) /\ Heard(h)
           /\ e.phase \in Live => Active(m) /\ Exists
           /\ e.phase \in Uncommitted => Source(m, e)
           /\ World
    BY <1>2, Zenon
  <1>4. PICK f \in Entry : /\ f = [c EXCEPT !.phase = "prepared", !.fenced = TRUE] /\ f.phase = "prepared"
                           /\ f.src = c.src /\ f.dst = c.dst /\ f.fenced = TRUE /\ f.snap = c.snap
    BY FenceMoves, Zenon
  <1>5. Switch(h, "planned", f)
    BY <1>0, <1>3, <1>4, Zenon
  <1>6. ASSUME e.phase = "planned", journal' = [journal EXCEPT ![m] = f] PROVE World' /\ Onward(m)
    <2>1. Source(m, e) /\ e.phase \in Live /\ f.phase \in Live /\ f.phase \in From(e.phase)
      BY <1>3, <1>4, <1>6, NextPhase, Zenon
    <2>2. f.src = e.src /\ f.dst = e.dst
      BY <1>3, <1>4, Zenon DEF Copy
    <2>3. At(e.src, "moving_out", m) /\ f.snap = latest
      BY <1>0, <1>3, <1>4, <1>6, <2>2, Zenon DEF Heard
    <2>4. route.ws = "attached"
      <3>1. route.ws \in {"attached", "detached"}
        BY Zenon DEF Typed, TypeOK, Route
      <3>2. QED
        BY <2>1, <2>3, <3>1, Zenon DEF Source, Empty, At
    <2>5. route.at = e.src /\ Empty(e.dst) /\ data[e.src] = latest
      BY <1>6, <2>1, <2>4, Zenon DEF Source
    <2>6. Source(m, f)'
      <3>1. m \notin undoing
        BY <1>3, Zenon DEF Open
      <3>2. QED
        BY <1>0, <1>4, <2>2, <2>3, <2>4, <2>5, <3>1, Zenon DEF Source, Importing, Discarding, At, Empty
    <2>7. f.phase \notin Committed /\ Exists' /\ Active(m) /\ (route'.ws = "detached" => latest' = 0 /\ route'.snap = 0)
      BY <1>0, <1>3, <1>4, <2>1, <2>4, Zenon DEF Committed, Exists
    <2>8. QED
      BY <1>0, <1>3, <1>6, <2>1, <2>2, <2>6, <2>7, Relabelled, Zenon
  <1>7. f.phase \in Live /\ f.phase # "planned"
    BY <1>4, SMT DEF Live, Uncommitted
  <1>8. QED
    BY <1>0, <1>1, <1>3, <1>5, <1>6, <1>7, SwitchKept, Zenon

\* The import is recorded.
LEMMA ImportDoneKept ==
  ASSUME Typed, Typed', IInv, NEW h \in Handlers, ImportDone(h)
  PROVE  IInv'
  <1>0. /\ hand[h].pc = "import" /\ hand[h].re = "ok" /\ UNCHANGED <<route, reg, data, latest, undoing, stray>>
        /\ Switch(h, "prepared", [hand[h].c EXCEPT !.phase = "staged"])
    BY Zenon DEF ImportDone, Answered, worker
  <1>1. hand[h].pc \in Advancing /\ "staged" \in Phases
    BY <1>0, Zenon DEF Advancing, Phases, Uncommitted
  <1>2. PICK m \in Migrations : \E c, e \in Entry :
           /\ m = hand[h].m /\ c = hand[h].c /\ e = journal[m] /\ Due(hand[h].pc, c)
           /\ Open(m) /\ Copy(c, e) /\ Heard(h)
           /\ e.phase \in Live => Active(m) /\ Exists
           /\ e.phase \in Uncommitted => Source(m, e)
           /\ World
    BY <1>0, <1>1, AdvanceFacts, ZenonT(30)
  <1>3. PICK c \in Entry, e \in Entry :
           /\ m = hand[h].m /\ c = hand[h].c /\ e = journal[m] /\ Due(hand[h].pc, c)
           /\ Open(m) /\ Copy(c, e) /\ Heard(h)
           /\ e.phase \in Live => Active(m) /\ Exists
           /\ e.phase \in Uncommitted => Source(m, e)
           /\ World
    BY <1>2, Zenon
  <1>4. PICK f \in Entry : /\ f = [c EXCEPT !.phase = "staged"] /\ f.phase = "staged"
                           /\ f.src = c.src /\ f.dst = c.dst /\ f.fenced = c.fenced /\ f.snap = c.snap
    BY <1>1, PhaseMoves, Zenon
  <1>5. Switch(h, "prepared", f) /\ c.phase = "prepared"
    BY <1>0, <1>3, <1>4, Zenon DEF Due
  <1>6. ASSUME e.phase = "prepared", journal' = [journal EXCEPT ![m] = f] PROVE World' /\ Onward(m)
    <2>1. Source(m, e) /\ e.phase \in Live /\ f.phase \in Live /\ f.phase \in From(e.phase)
      BY <1>3, <1>4, <1>6, NextPhase, Zenon
    <2>2. f.src = e.src /\ f.dst = e.dst /\ f.fenced = e.fenced /\ f.snap = e.snap
      BY <1>3, <1>4, <1>5, Zenon DEF Copy
    <2>3. At(e.dst, "import_ready", m) \/ At(e.dst, "owned", m)
      BY <1>0, <1>3, <1>4, <2>2, ZenonT(30) DEF Heard
    <2>4. m \notin undoing /\ Importing(m, e)
      BY <1>3, <1>6, <2>1, SMT DEF Open, Source
    <2>5. At(e.dst, "import_ready", m) /\ data[e.dst] = latest
      BY <2>3, <2>4, Zenon DEF Importing, At, Empty
    <2>6. Source(m, f)'
      <3>1. Importing(m, f)'
        BY <1>0, <2>2, <2>5, Zenon DEF Importing, At, Empty
      <3>2. QED
        BY <1>0, <1>4, <1>6, <2>1, <2>2, <2>4, <3>1, Zenon DEF Source, At, Empty
    <2>7. f.phase \notin Committed /\ Exists' /\ Active(m) /\ (route'.ws = "detached" => latest' = 0 /\ route'.snap = 0)
      BY <1>0, <1>3, <1>4, <2>1, Zenon DEF Committed, Exists, World
    <2>8. QED
      BY <1>0, <1>3, <1>6, <2>1, <2>2, <2>6, <2>7, Relabelled, Zenon
  <1>7. f.phase \in Live /\ f.phase # "planned"
    BY <1>4, SMT DEF Live, Uncommitted
  <1>8. QED
    BY <1>0, <1>1, <1>3, <1>5, <1>6, <1>7, SwitchKept, Zenon

\* The activation is recorded.
LEMMA ActivateDoneKept ==
  ASSUME Typed, Typed', IInv, NEW h \in Handlers, ActivateDone(h)
  PROVE  IInv'
  <1>0. /\ hand[h].pc = "activate" /\ hand[h].re = "ok" /\ UNCHANGED <<route, reg, data, latest, undoing, stray>>
        /\ Switch(h, "routed", [hand[h].c EXCEPT !.phase = "activated"])
    BY Zenon DEF ActivateDone, Answered, worker
  <1>1. hand[h].pc \in Advancing /\ "activated" \in Phases
    BY <1>0, Zenon DEF Advancing, Phases, Committed
  <1>2. PICK m \in Migrations : \E c, e \in Entry :
           /\ m = hand[h].m /\ c = hand[h].c /\ e = journal[m] /\ Due(hand[h].pc, c)
           /\ Open(m) /\ Copy(c, e) /\ Heard(h)
           /\ e.phase \in Live => Active(m) /\ Exists
           /\ e.phase \in Committed => Destination(m, e)
           /\ World
    BY <1>0, <1>1, AdvanceFacts, ZenonT(30)
  <1>3. PICK c \in Entry, e \in Entry :
           /\ m = hand[h].m /\ c = hand[h].c /\ e = journal[m] /\ Due(hand[h].pc, c)
           /\ Open(m) /\ Copy(c, e) /\ Heard(h)
           /\ e.phase \in Live => Active(m) /\ Exists
           /\ e.phase \in Committed => Destination(m, e)
           /\ World
    BY <1>2, Zenon
  <1>4. PICK f \in Entry : /\ f = [c EXCEPT !.phase = "activated"] /\ f.phase = "activated"
                           /\ f.src = c.src /\ f.dst = c.dst /\ f.fenced = c.fenced /\ f.snap = c.snap
    BY <1>1, PhaseMoves, Zenon
  <1>5. Switch(h, "routed", f) /\ c.phase = "routed"
    BY <1>0, <1>3, <1>4, Zenon DEF Due
  <1>6. ASSUME e.phase = "routed", journal' = [journal EXCEPT ![m] = f] PROVE World' /\ Onward(m)
    <2>1. Destination(m, e) /\ e.phase \in Live /\ f.phase \in Live /\ f.phase \in From(e.phase)
      BY <1>3, <1>4, <1>6, NextPhase, Zenon
    <2>2. f.src = e.src /\ f.dst = e.dst /\ f.fenced = e.fenced /\ f.snap = e.snap
      BY <1>3, <1>4, <1>5, Zenon DEF Copy
    <2>3. At(e.dst, "owned", m)
      BY <1>0, <1>3, <1>4, <2>2, ZenonT(30) DEF Heard
    <2>4. Destination(m, f)'
      BY <1>0, <1>4, <1>6, <2>1, <2>2, <2>3, SMT DEF Destination, At, Empty
    <2>5. route.ws = "attached"
      BY <2>1, Zenon DEF Destination
    <2>6. f.phase \notin Uncommitted /\ Exists' /\ Active(m) /\ (route'.ws = "detached" => latest' = 0 /\ route'.snap = 0)
      BY <1>0, <1>3, <1>4, <2>1, <2>5, Zenon DEF Uncommitted, Exists
    <2>7. QED
      BY <1>0, <1>3, <1>6, <2>1, <2>2, <2>4, <2>6, Relabelled, Zenon
  <1>7. f.phase \in Live /\ f.phase # "planned"
    BY <1>4, SMT DEF Live, Committed
  <1>8. QED
    BY <1>0, <1>1, <1>3, <1>5, <1>6, <1>7, SwitchKept, Zenon

\* The route is switched.
LEMMA SwitchRouteKept ==
  ASSUME Typed, Typed', IInv, NEW h \in Handlers, SwitchRoute(h)
  PROVE  IInv'
  <1>0. hand[h].pc = "route" /\ UNCHANGED <<reg, data, latest, undoing, stray>>
    BY Zenon DEF SwitchRoute, worker
  <1>1. /\ hand[h].pc \in Advancing /\ "routed" \in Phases
        /\ "activate" \in Advancing /\ "activate" \in Steps
    BY <1>0, FreeSteps, Zenon DEF Advancing, Phases, Committed
  <1>2. PICK m \in Migrations : \E c, e \in Entry :
           /\ m = hand[h].m /\ c = hand[h].c /\ e = journal[m] /\ Whole(e)
           /\ Open(m) /\ Copy(c, e)
           /\ hand[h].kind = "delete" => Exists /\ route.del
           /\ e.phase \in Live => Active(m) /\ Exists
           /\ e.phase \in Uncommitted => Source(m, e)
           /\ World /\ Fits(h) /\ hand[h].pc # "idle"
    BY <1>0, <1>1, AdvanceFacts, Zenon
  <1>3. PICK c \in Entry, e \in Entry :
           /\ m = hand[h].m /\ c = hand[h].c /\ e = journal[m] /\ Whole(e)
           /\ Open(m) /\ Copy(c, e)
           /\ hand[h].kind = "delete" => Exists /\ route.del
           /\ e.phase \in Live => Active(m) /\ Exists
           /\ e.phase \in Uncommitted => Source(m, e)
           /\ World /\ Fits(h) /\ hand[h].pc # "idle"
    BY <1>2, Zenon
  <1>4. CASE hand' = Returned(h, c) /\ UNCHANGED <<journal, route>>
    <2>1. Calm
      BY <1>0, <1>4, Zenon DEF Calm
    <2>2. Fits(h)' /\ Moves(h)
      BY <1>1, <1>3, <1>4, <2>1, ReturnedFits, Zenon
    <2>3. QED
      BY <1>0, <1>3, <2>1, <2>2, CalmStep, Zenon
  <1>5. CASE e.phase = "routed" /\ hand' = Goto(h, "activate", e) /\ UNCHANGED <<journal, route>>
    <2>1. Calm
      BY <1>0, <1>5, Zenon DEF Calm
    <2>2. Open(m)' /\ (hand[h].kind = "delete" => (Exists /\ route.del)') /\ journal'[m] = e
      BY <1>0, <1>3, <1>5, <2>1, CalmOpen, Zenon DEF Exists
    <2>3. Copy(e, e)
      BY <1>5, SMT DEF Copy, From
    <2>4. Fits(h)' /\ Moves(h)
      BY <1>1, <1>3, <1>5, <2>2, <2>3, GotoAdvance, Zenon
    <2>5. QED
      BY <1>0, <1>3, <2>1, <2>4, CalmStep, Zenon
  <1>6. CASE /\ MaySwitch(e) /\ route' = Routed(e) /\ journal' = [journal EXCEPT ![m] = [e EXCEPT !.phase = "routed"]]
             /\ hand' = Goto(h, "activate", [e EXCEPT !.phase = "routed"])
    <2>1. PICK f \in Entry : /\ f = [e EXCEPT !.phase = "routed"] /\ f.phase = "routed"
                             /\ f.src = e.src /\ f.dst = e.dst /\ f.fenced = e.fenced /\ f.snap = e.snap
      BY <1>1, PhaseMoves, Zenon
    <2>2. e.phase = "staged" /\ ~route.del
      BY <1>6, Zenon DEF MaySwitch
    <2>3. Source(m, e) /\ Active(m) /\ f.phase \in Live /\ f.phase \in From(e.phase) /\ f.phase \notin Uncommitted
      BY <1>3, <2>1, <2>2, NextPhase, Zenon
    <2>4. route'.at = e.dst /\ route'.ws = "attached" /\ e.dst # NoNode
      <3>1. e.dst \in Nodes
        BY <1>3, <2>2, Zenon DEF Whole
      <3>2. QED
        BY <1>6, <3>1, MigrationAssumption, Zenon DEF Routed
    <2>5. m \notin undoing /\ Importing(m, e)
      BY <1>3, <2>2, <2>3, Zenon DEF Open, Source
    <2>6. At(e.dst, "import_ready", m) /\ data[e.dst] = latest
      BY <2>2, <2>5, Zenon DEF Importing
    <2>7. Empty(e.src) \/ (e.fenced /\ At(e.src, "moving_out", m))
      <3>1. route.ws \in {"attached", "detached"}
        BY SMT DEF Typed, TypeOK, Route
      <3>2. QED
        BY <2>2, <2>3, <2>5, <3>1, Zenon DEF Source
    <2>8. Destination(m, f)'
      BY <1>0, <2>1, <2>4, <2>5, <2>6, <2>7, Zenon DEF Destination, At, Empty
    <2>9. World' /\ Onward(m)
      <3>1. Exists' /\ (route'.ws = "detached" => latest' = 0 /\ route'.snap = 0)
        BY <2>4, Zenon DEF Exists
      <3>2. journal' = [journal EXCEPT ![m] = f]
        BY <1>6, <2>1, Zenon
      <3>3. QED
        BY <1>0, <1>3, <2>1, <2>2, <2>3, <2>8, <3>1, <3>2, Relabelled, Zenon
    <2>10. Open(m)' /\ journal'[m] = f /\ hand' = Goto(h, "activate", f)
      BY <1>6, <2>1, <2>9, JournalParts, Zenon DEF Onward
    <2>11. Copy(f, f)
      BY <2>1, SMT DEF Copy, From
    <2>12. hand[h].kind # "delete"
      BY <1>3, <2>2, Zenon
    <2>13. Fits(h)' /\ Moves(h)
      BY <1>1, <1>3, <2>10, <2>11, <2>12, GotoAdvance, Zenon
    <2>14. QED
      BY <1>0, <1>3, <2>9, <2>13, HandStep, Zenon DEF Moves
  <1>7. QED
    BY <1>3, <1>4, <1>5, <1>6, Zenon DEF SwitchRoute

\* A migration is over.
LEMMA CompleteKept ==
  ASSUME Typed, Typed', IInv, NEW h \in Handlers, Complete(h)
  PROVE  IInv'
  <1>0. /\ hand[h].pc = "complete" \/ (hand[h].pc = "finalize" /\ hand[h].re = "ok")
        /\ UNCHANGED <<route, reg, data, latest, undoing, stray>>
    BY Zenon DEF Complete, Answered, worker
  <1>1. hand[h].pc \in Advancing /\ "complete" \in Phases
    BY <1>0, Zenon DEF Advancing, Phases
  <1>2. PICK m \in Migrations : \E c, e \in Entry :
           /\ m = hand[h].m /\ c = hand[h].c /\ e = journal[m] /\ Due(hand[h].pc, c)
           /\ Open(m) /\ Copy(c, e)
           /\ hand[h].kind # "post" => e.phase = c.phase
           /\ hand[h].kind = "delete" => Exists /\ route.del
           /\ hand[h].re = "ok" => Heard(h)
           /\ e.phase \in Live => Active(m) /\ Exists /\ Elsewhere({e.src, e.dst})
           /\ e.phase \in Committed => Destination(m, e)
           /\ World /\ Fits(h) /\ hand[h].pc # "idle"
    BY <1>1, AdvanceFacts, Zenon
  <1>3. PICK c \in Entry, e \in Entry :
           /\ m = hand[h].m /\ c = hand[h].c /\ e = journal[m] /\ Due(hand[h].pc, c)
           /\ Open(m) /\ Copy(c, e)
           /\ hand[h].kind # "post" => e.phase = c.phase
           /\ hand[h].kind = "delete" => Exists /\ route.del
           /\ hand[h].re = "ok" => Heard(h)
           /\ e.phase \in Live => Active(m) /\ Exists /\ Elsewhere({e.src, e.dst})
           /\ e.phase \in Committed => Destination(m, e)
           /\ World /\ Fits(h) /\ hand[h].pc # "idle"
    BY <1>2, Zenon
  <1>4. PICK f \in Entry : /\ f = [e EXCEPT !.phase = "complete"] /\ f.phase = "complete"
                           /\ f.src = e.src /\ f.dst = e.dst /\ f.fenced = e.fenced /\ f.snap = e.snap
    BY <1>1, PhaseMoves, Zenon
  <1>5. c.phase = "activated" /\ (hand[h].pc = "complete" => ~c.fenced) /\ c.phase # "complete"
    BY <1>0, <1>3, Zenon DEF Due
  <1>6. f.phase \notin Uncommitted
    BY <1>4, SMT DEF Uncommitted
  <1>7. CASE /\ e.phase = "activated" /\ route.at = e.dst /\ ~route.del
             /\ journal' = [journal EXCEPT ![m] = f] /\ hand' = Returned(h, f)
    <2>1. hand' = Leave(h)
      BY <1>3, <1>6, <1>7, ReturnedCases, Zenon
    <2>2. Destination(m, e) /\ Active(m) /\ Exists /\ Elsewhere({e.src, e.dst})
      BY <1>3, <1>7, Zenon DEF Live, Committed
    <2>3. Empty(e.src)
      <3>1. CASE hand[h].pc = "complete"
        <4>1. ~e.fenced
          BY <1>3, <1>5, <3>1, Zenon DEF Copy
        <4>2. QED
          BY <2>2, <4>1, Zenon DEF Destination
      <3>2. CASE hand[h].pc = "finalize" /\ hand[h].re = "ok"
        BY <1>3, <3>2, Zenon DEF Heard, Copy
      <3>3. QED
        BY <1>0, <3>1, <3>2, Zenon
    <2>4. At(e.dst, "owned", m) /\ data[e.dst] = latest /\ route.ws = "attached" /\ m \notin undoing
      BY <1>7, <2>2, Zenon DEF Destination
    <2>5. \A n \in Nodes \ {e.dst} : Empty(n)
      BY <2>2, <2>3, Zenon DEF Elsewhere
    <2>6. journal'[m] = f /\ \A k \in Migrations \ {m} : journal'[k] = journal[k]
      BY <1>7, JournalParts, Zenon
    <2>7. \A k \in Migrations : ~Active(k)'
      <3>1. ~Active(m)'
        BY <1>4, <2>6, Zenon DEF Active, Uncommitted, Committed
      <3>2. QED
        BY <1>3, <2>2, <2>6, <3>1, Zenon DEF World, Active
    <2>8. World'
      <3>1. AtRest'
        BY <1>0, <1>7, <2>2, <2>4, <2>5, Zenon DEF AtRest, Exists, Empty, Elsewhere, At
      <3>2. route'.ws # "detached"
        BY <1>0, <2>4, Zenon
      <3>3. QED
        BY <2>7, <3>1, <3>2, Zenon DEF World
    <2>9. Open(m)'
      <3>1. Moved(m)'
        <4>1. journal'[m].dst = e.dst /\ route'.at = e.dst /\ e.dst # NoNode
          BY <1>0, <1>4, <1>7, <2>2, <2>6, Zenon DEF Exists
        <4>2. reg'[e.dst].phase = "owned" /\ reg'[e.dst].mig = m /\ \A n \in Nodes \ {e.dst} : reg'[n].phase = "none"
          BY <1>0, <2>4, <2>5, Zenon DEF At, Empty
        <4>3. QED
          BY <4>1, <4>2, Zenon DEF Moved, Exists, At, Empty, Elsewhere
      <3>2. QED
        BY <1>0, <1>4, <2>4, <2>6, <2>7, <3>1, Zenon DEF Open
    <2>10. f.phase \in From(e.phase)
      BY <1>4, <1>7, NextPhase, Zenon
    <2>11. Onward(m)
      BY <1>0, <1>3, <1>4, <2>6, <2>9, <2>10, Zenon DEF Onward, At, Empty
    <2>12. QED
      BY <1>0, <1>3, <2>1, <2>8, <2>11, LeaveFits, HandStep, Zenon DEF Moves
  <1>8. CASE e.phase = "complete" /\ hand' = Returned(h, f) /\ UNCHANGED journal
    <2>1. Calm
      BY <1>0, <1>8, Zenon DEF Calm
    <2>2. hand[h].kind # "delete"
      BY <1>3, <1>5, <1>8, Zenon
    <2>3. hand' = Leave(h)
      BY <1>6, <1>8, <2>2, ReturnedCases, Zenon
    <2>4. QED
      BY <1>0, <1>3, <2>1, <2>3, LeaveFits, CalmStep, Zenon
  <1>9. CASE hand' = Returned(h, c) /\ UNCHANGED journal
    <2>1. Calm
      BY <1>0, <1>9, Zenon DEF Calm
    <2>2. Fits(h)' /\ Moves(h)
      BY <1>1, <1>3, <1>9, <2>1, ReturnedFits, Zenon
    <2>3. QED
      BY <1>0, <1>3, <2>1, <2>2, CalmStep, Zenon
  <1>10. QED
    <2>1. PICK d : d = [e EXCEPT !.phase = "complete"]
      BY Zenon
    <2>2. \/ /\ e.phase = "activated" /\ route.at = e.dst /\ ~route.del
             /\ journal' = [journal EXCEPT ![m] = d] /\ hand' = Returned(h, d)
          \/ e.phase = "complete" /\ hand' = Returned(h, d) /\ UNCHANGED journal
          \/ hand' = Returned(h, c) /\ UNCHANGED journal
      BY <1>3, <2>1, Zenon DEF Complete
    <2>3. QED
      BY <1>4, <1>7, <1>8, <1>9, <2>1, <2>2, Zenon
===============================================================================
