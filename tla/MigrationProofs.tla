-------------------------- MODULE MigrationProofs -----------------------------
(* Types for any callers; then, for callers of both disciplines, the           *)
(* properties of Migration.                                                    *)
EXTENDS MigrationStepProofs

-----------------------------------------------------------------------------
(* Types are kept                                                            *)

\* A call carried out, in whole or in part.
LEMMA PerformTyped ==
  ASSUME TypeOK, NEW k \in Call, k.op \in Undoing => k.m \in Migrations, Perform(k) \/ Halfway(k)
  PROVE  /\ reg' \in [Nodes -> Registration] /\ data' \in [Nodes -> Versions]
         /\ retired' \subseteq Nodes \X Migrations /\ running' \subseteq Nodes
         /\ undoing' \subseteq Migrations
  <1>1. k.op \in Calls /\ k.to \in Nodes /\ k.m \in Migrations \cup {NoMigration} /\ k.snap \in Versions
    BY SMT DEF Call
  <1>2. /\ reg \in [Nodes -> Registration] /\ data \in [Nodes -> Versions]
        /\ retired \subseteq Nodes \X Migrations /\ running \subseteq Nodes /\ undoing \subseteq Migrations
    BY Zenon DEF TypeOK
  <1>3. Outcome(k).reg \in Registration
    BY <1>1, <1>2, OutcomeTyped, Zenon
  <1>4. Noted(k) => undoing' \subseteq Migrations
    BY <1>2, Zenon DEF Noted, Undoing
  <1>5. CASE Perform(k)
    <2>1. reg' = [reg EXCEPT ![k.to] = Outcome(k).reg]
      BY <1>5, Zenon DEF Perform
    <2>2. reg' \in [Nodes -> Registration]
      BY <1>1, <1>2, <1>3, <2>1, Zenon
    <2>3. data' = data \/ data' = [data EXCEPT ![k.to] = k.snap]
      BY <1>5, Zenon DEF Perform
    <2>4. data' \in [Nodes -> Versions]
      BY <1>1, <1>2, <2>3, Zenon
    <2>5. retired' \subseteq Nodes \X Migrations
      BY <1>2, <1>5, Zenon DEF Perform
    <2>6. running' \subseteq Nodes
      BY <1>2, <1>5, Zenon DEF Perform
    <2>7. QED
      BY <1>4, <1>5, <2>2, <2>4, <2>5, <2>6, Zenon DEF Perform
  <1>6. CASE Halfway(k)
    <2> DEFINE r == reg[k.to]
               q == IF k.op = "import" THEN [phase |-> "import", mig |-> k.m]
                    ELSE [r EXCEPT !.phase = "deleting"]
    <2>1. reg' = [reg EXCEPT ![k.to] = q]
      BY <1>6, Zenon DEF Halfway
    <2>2. q \in Registration
      BY <1>1, <1>2, RegistrationTyped, Zenon
    <2> HIDE DEF q
    <2>3. reg' \in [Nodes -> Registration]
      BY <1>1, <1>2, <2>1, <2>2, Zenon
    <2>4. running' \subseteq Nodes /\ data' = data /\ retired' = retired
      BY <1>2, <1>6, Zenon DEF Halfway
    <2>5. QED
      BY <1>2, <1>4, <1>6, <2>3, <2>4, Zenon DEF Halfway
  <1>7. QED
    BY <1>5, <1>6, Zenon

\* One handler changes.
LEMMA OneHand ==
  ASSUME Typed, NEW h \in Handlers, hand' \in [Handlers -> Handler], Carries(hand'[h]),
         \A g \in Handlers \ {h} : hand'[g] = hand[g]
  PROVE  HandsOK'
  <1>1. \A g \in Handlers : Carries(hand[g])
    BY Zenon DEF Typed, HandsOK
  <1>2. \A g \in Handlers : Carries(hand'[g])
    BY <1>1, Zenon
  <1>3. QED
    BY <1>2, Zenon DEF HandsOK

\* A handler that leaves keeps its type.
LEMMA LeaveTyped ==
  ASSUME Typed, NEW h \in Handlers, hand' = Leave(h)
  PROVE  HandsOK'
  <1>1. /\ hand' \in [Handlers -> Handler]
        /\ hand'[h] = Idle /\ Idle.pc = "idle" /\ Idle.c = NoEntry
        /\ \A g \in Handlers \ {h} : hand'[g] = hand[g]
    BY HandParts, LeaveFields, Zenon
  <1>2. Whole(NoEntry)
    BY FirstEntry, Zenon DEF Whole
  <1>3. Due("idle", NoEntry)
    BY SMT DEF Due
  <1>4. Carries(Idle)
    BY <1>1, <1>2, <1>3, SMT DEF Carries, Advancing, Undoing
  <1>5. QED
    BY <1>1, <1>4, OneHand, Zenon

\* So does one that goes to a step its entry is due for,
LEMMA GotoTyped ==
  ASSUME Typed, NEW h \in Handlers, NEW p \in Steps, NEW c \in Entry, hand' = Goto(h, p, c),
         Whole(c), Due(p, c), p # "delete", p \in Advancing \cup Undoing => hand[h].m \in Migrations
  PROVE  HandsOK'
  <1>1. /\ hand' \in [Handlers -> Handler]
        /\ hand'[h].pc = p /\ hand'[h].c = c /\ hand'[h].to = Target(p, c)
        /\ hand'[h].m = hand[h].m
        /\ \A g \in Handlers \ {h} : hand'[g] = hand[g]
    BY HandParts, GotoFields, Zenon
  <1>2. Carries(hand'[h])
    BY <1>1, Zenon DEF Carries
  <1>3. QED
    BY <1>1, <1>2, OneHand, Zenon

\* one that enters there,
LEMMA EnterTyped ==
  ASSUME Typed, NEW h, NEW p, NEW c, NEW k, NEW m, Entered(h, k, m, p, c),
         Whole(c), Due(p, c), p # "delete", p \in Advancing \cup Undoing => m \in Migrations
  PROVE  HandsOK'
  <1>0. hand \in [Handlers -> Handler] /\ h \in Handlers
    BY Zenon DEF Typed, HandsOK, Entered
  <1>4. Fresh(h, k, m, p, c)
    BY <1>0, EnterFields, Zenon
  <1>1. /\ hand' \in [Handlers -> Handler]
        /\ hand'[h].pc = p /\ hand'[h].c = c /\ hand'[h].to = Target(p, c) /\ hand'[h].m = m
        /\ \A g \in Handlers \ {h} : hand'[g] = hand[g]
    BY <1>4, Zenon DEF Fresh
  <1>2. Carries(hand'[h])
    BY <1>1, Zenon DEF Carries
  <1>3. QED
    BY <1>0, <1>1, <1>2, OneHand, Zenon

\* and one that returns from advancing.
LEMMA ReturnedTyped ==
  ASSUME Typed, NEW h \in Handlers, NEW c \in Entry, hand' = Returned(h, c), Whole(c),
         hand[h].m \in Migrations
  PROVE  HandsOK'
  <1>1. CASE hand' = Leave(h)
    BY <1>1, LeaveTyped, Zenon
  <1>2. CASE c.phase \in Uncommitted /\ hand' = Goto(h, Undo(c), c)
    <2>1. Undo(c) \in Undoing /\ Undo(c) \in Steps /\ Due(Undo(c), c)
      BY <1>2, StepDue, Zenon
    <2>2. Undo(c) # "delete"
      BY <2>1, FreeSteps, Zenon
    <2>3. QED
      BY <1>2, <2>1, <2>2, GotoTyped, Zenon
  <1>3. CASE hand' = Goto(h, "send", c)
    <2>1. "send" \in Steps /\ Due("send", c) /\ "send" # "delete"
      BY FreeSteps, Zenon
    <2>2. QED
      BY <1>3, <2>1, GotoTyped, Zenon
  <1>4. QED
    BY <1>1, <1>2, <1>3, ReturnedCases, Zenon

\* One journal changes.
LEMMA OneJournal ==
  ASSUME Typed, NEW m \in Migrations, NEW e \in Entry, Whole(e), journal' = [journal EXCEPT ![m] = e]
  PROVE  JournalOK' /\ journal'[m] = e /\ \A k \in Migrations \ {m} : journal'[k] = journal[k]
  <1>1. journal \in [Migrations -> Entry] /\ \A k \in Migrations : Whole(journal[k])
    BY Zenon DEF Typed, JournalOK
  <1>2. /\ journal' \in [Migrations -> Entry] /\ journal'[m] = e
        /\ \A k \in Migrations \ {m} : journal'[k] = journal[k]
    BY <1>1, Zenon
  <1>3. \A k \in Migrations : Whole(journal'[k])
    BY <1>1, <1>2, Zenon
  <1>4. QED
    BY <1>2, <1>3, Zenon DEF JournalOK

\* The compare-and-set of the journal keeps its type.
LEMMA SwitchTyped ==
  ASSUME Typed, NEW h \in Handlers, NEW p, NEW e \in Entry, Whole(e),
         e.phase \in Uncommitted \cup Committed, hand[h].pc \in Advancing, Switch(h, p, e)
  PROVE  HandsOK' /\ JournalOK'
  <1> DEFINE m == hand[h].m
  <1>1. m \in Migrations /\ hand[h].c \in Entry /\ Whole(hand[h].c)
    BY HandParts, Zenon
  <1>2. CASE journal' = [journal EXCEPT ![m] = e] /\ hand' = Goto(h, Step(e), e)
    <2>1. Step(e) \in Advancing /\ Step(e) \in Steps /\ Due(Step(e), e)
      BY StepDue, Zenon
    <2>2. Step(e) # "delete"
      BY <2>1, FreeSteps, Zenon
    <2>3. HandsOK'
      BY <1>1, <1>2, <2>1, <2>2, GotoTyped, Zenon
    <2>4. QED
      BY <1>1, <1>2, <2>3, OneJournal, Zenon
  <1>3. CASE hand' = Returned(h, hand[h].c) /\ UNCHANGED journal
    <2>1. HandsOK'
      BY <1>1, <1>3, ReturnedTyped, Zenon
    <2>2. JournalOK'
      BY <1>3, Zenon DEF JournalOK, Typed
    <2>3. QED
      BY <2>1, <2>2, Zenon
  <1>4. QED
    BY <1>2, <1>3, Zenon DEF Switch

\* Only handlers and journals change.
LEMMA GatewayTyped ==
  ASSUME Typed, HandsOK', JournalOK',
         UNCHANGED <<route, worker, running, latest, stray, faults>>
  PROVE  Typed'
  <1>1. UNCHANGED <<route, reg, data, retired, undoing, running, latest, stray, faults>>
    BY Zenon DEF worker
  <1>2. QED
    BY <1>1, Zenon DEF Typed, TypeOK, StraysOK, HandsOK, JournalOK

\* ... and the route.
LEMMA RouteTyped ==
  ASSUME Typed, HandsOK', JournalOK', route' \in Route,
         UNCHANGED <<worker, running, latest, stray, faults>>
  PROVE  Typed'
  <1>1. UNCHANGED <<reg, data, retired, undoing, running, latest, stray, faults>>
    BY Zenon DEF worker
  <1>2. QED
    BY <1>1, Zenon DEF Typed, TypeOK, StraysOK, HandsOK, JournalOK

\* Handlers, calls in flight and the count of faults change.
LEMMA CallTyped ==
  ASSUME Typed, HandsOK', StraysOK', faults' \in 0..MaxFaults, UNCHANGED <<journal, route, latest>>,
         reg' \in [Nodes -> Registration], data' \in [Nodes -> Versions],
         retired' \subseteq Nodes \X Migrations, running' \subseteq Nodes, undoing' \subseteq Migrations
  PROVE  Typed'
  BY Zenon DEF Typed, TypeOK, StraysOK, HandsOK, JournalOK

\* The workers are untouched.
LEMMA WorkerTyped ==
  ASSUME Typed, UNCHANGED <<worker, running>>
  PROVE  /\ reg' \in [Nodes -> Registration] /\ data' \in [Nodes -> Versions]
         /\ retired' \subseteq Nodes \X Migrations /\ running' \subseteq Nodes /\ undoing' \subseteq Migrations
  BY Zenon DEF Typed, TypeOK, worker

\* The steps of an advance.
LEMMA AdvanceTyped ==
  ASSUME Typed, NEW h \in Handlers,
         Plan(h) \/ PrepareDone(h) \/ ImportDone(h) \/ ActivateDone(h)
  PROVE  Typed'
  <1> DEFINE c == hand[h].c
  <1>1. /\ c \in Entry /\ Whole(c) /\ Due(hand[h].pc, c)
        /\ hand[h].pc \in Advancing \cup Undoing => hand[h].m \in Migrations
    BY HandParts, Zenon
  <1>2. /\ {"plan", "prepare", "import", "activate"} \subseteq Advancing
        /\ {"prepared", "staged", "activated"} \subseteq Phases
        /\ {"prepared", "staged", "activated"} \subseteq Uncommitted \cup Committed
    BY SMT DEF Advancing, Phases, Uncommitted, Committed
  <1>3. JournalOK
    BY Zenon DEF Typed
  <1>4. ASSUME NEW e \in Entry, e.src = c.src, e.dst = c.dst,
               e.phase \in {"prepared", "staged", "activated"}, c.phase # "none",
               NEW p, Switch(h, p, e), hand[h].pc \in Advancing
        PROVE  HandsOK' /\ JournalOK'
    <2>1. Whole(e)
      BY <1>1, <1>4, Zenon DEF Whole
    <2>2. QED
      BY <1>2, <1>4, <2>1, SwitchTyped, Zenon
  <1>5. CASE Plan(h)
    <2>1. hand[h].pc = "plan" /\ UNCHANGED <<route, worker, running, latest, stray, faults>>
      BY <1>5, Zenon DEF Plan
    <2>2. hand[h].pc \in Advancing /\ c.phase = "planned" /\ hand[h].m \in Migrations
      BY <1>1, <1>2, <2>1, SMT DEF Due
    <2>3. CASE hand' = Returned(h, c) /\ UNCHANGED journal
      <3>1. HandsOK'
        BY <1>1, <2>2, <2>3, ReturnedTyped, Zenon
      <3>2. JournalOK'
        BY <1>3, <2>3, Zenon DEF JournalOK
      <3>3. QED
        BY <2>1, <3>1, <3>2, GatewayTyped, Zenon
    <2>4. CASE Switch(h, "planned", [c EXCEPT !.phase = "prepared", !.snap = route.snap])
      <3> DEFINE e == [c EXCEPT !.phase = "prepared", !.snap = route.snap]
      <3>1. route.snap \in Versions
        BY SMT DEF Typed, TypeOK, Route
      <3>2. c \in Entry /\ "prepared" \in Phases
        BY <1>1, <1>2, Zenon
      <3> HIDE DEF c
      <3>6. e \in Entry /\ e.phase = "prepared" /\ e.src = c.src /\ e.dst = c.dst
        BY <3>1, <3>2, SnapMoves, Zenon
      <3>3. c.phase # "none"
        BY <2>2
      <3> HIDE DEF e
      <3>4. HandsOK' /\ JournalOK'
        BY <1>4, <2>2, <2>4, <3>6, <3>3, Zenon DEF e, c
      <3>5. QED
        BY <2>1, <3>4, GatewayTyped, Zenon
    <2>5. CASE hand' = Goto(h, "prepare", c) /\ UNCHANGED journal
      <3>1. Due("prepare", c)
        BY <2>2, SMT DEF Due
      <3>2. "prepare" \in Steps /\ "prepare" # "delete"
        BY FreeSteps, Zenon
      <3>3. HandsOK'
        BY <1>1, <2>2, <2>5, <3>1, <3>2, GotoTyped, Zenon
      <3>4. JournalOK'
        BY <1>3, <2>5, Zenon DEF JournalOK
      <3>5. QED
        BY <2>1, <3>3, <3>4, GatewayTyped, Zenon
    <2>6. QED
      BY <1>5, <2>3, <2>4, <2>5, Zenon DEF Plan
  <1>6. CASE PrepareDone(h)
    <2> DEFINE e == [c EXCEPT !.phase = "prepared", !.fenced = TRUE]
    <2>1. /\ hand[h].pc = "prepare" /\ Switch(h, "planned", e)
          /\ UNCHANGED <<route, worker, running, latest, stray, faults>>
      BY <1>6, Zenon DEF PrepareDone, Answered
    <2>6. c \in Entry /\ "prepared" \in Phases /\ TRUE \in BOOLEAN
      BY <1>1, <1>2, Zenon
    <2>2. e \in Entry /\ e.phase = "prepared" /\ e.src = c.src /\ e.dst = c.dst
      BY <2>6, FenceMoves, Zenon
    <2>3. c.phase # "none" /\ hand[h].pc \in Advancing
      BY <1>1, <1>2, <2>1, SMT DEF Due
    <2> HIDE DEF e
    <2>4. HandsOK' /\ JournalOK'
      BY <1>4, <2>1, <2>2, <2>3, Zenon
    <2>5. QED
      BY <2>1, <2>4, GatewayTyped, Zenon
  <1>7. CASE ImportDone(h)
    <2> DEFINE e == [c EXCEPT !.phase = "staged"]
    <2>1. /\ hand[h].pc = "import" /\ Switch(h, "prepared", e)
          /\ UNCHANGED <<route, worker, running, latest, stray, faults>>
      BY <1>7, Zenon DEF ImportDone, Answered
    <2>2. e \in Entry /\ e.phase = "staged" /\ e.src = c.src /\ e.dst = c.dst
      BY <1>1, <1>2, PhaseMoves, Zenon
    <2>3. c.phase # "none" /\ hand[h].pc \in Advancing
      BY <1>1, <1>2, <2>1, SMT DEF Due
    <2> HIDE DEF e
    <2>4. HandsOK' /\ JournalOK'
      BY <1>4, <2>1, <2>2, <2>3, Zenon
    <2>5. QED
      BY <2>1, <2>4, GatewayTyped, Zenon
  <1>8. CASE ActivateDone(h)
    <2> DEFINE e == [c EXCEPT !.phase = "activated"]
    <2>1. /\ hand[h].pc = "activate" /\ Switch(h, "routed", e)
          /\ UNCHANGED <<route, worker, running, latest, stray, faults>>
      BY <1>8, Zenon DEF ActivateDone, Answered
    <2>2. e \in Entry /\ e.phase = "activated" /\ e.src = c.src /\ e.dst = c.dst
      BY <1>1, <1>2, PhaseMoves, Zenon
    <2>3. c.phase # "none" /\ hand[h].pc \in Advancing
      BY <1>1, <1>2, <2>1, SMT DEF Due
    <2> HIDE DEF e
    <2>4. HandsOK' /\ JournalOK'
      BY <1>4, <2>1, <2>2, <2>3, Zenon
    <2>5. QED
      BY <2>1, <2>4, GatewayTyped, Zenon
  <1>9. QED
    BY <1>5, <1>6, <1>7, <1>8, Zenon

\* The route is switched.
LEMMA SwitchRouteTyped ==
  ASSUME Typed, NEW h \in Handlers, SwitchRoute(h)
  PROVE  Typed'
  <1> DEFINE m == hand[h].m
             c == hand[h].c
             e == journal[m]
             d == [e EXCEPT !.phase = "routed"]
  <1>1. hand[h].pc = "route" /\ UNCHANGED <<worker, running, latest, stray, faults>>
    BY Zenon DEF SwitchRoute
  <1>2. c \in Entry /\ Whole(c) /\ m \in Migrations
    BY <1>1, HandParts, SMT DEF Advancing
  <1>3. e \in Entry /\ Whole(e)
    BY <1>2, JournalParts, Zenon
  <1>4. "routed" \in Phases /\ route \in Route /\ JournalOK
    BY Zenon DEF Phases, Committed, Typed, TypeOK
  <1>5. /\ d \in Entry /\ d.phase = "routed" /\ d.src = e.src /\ d.dst = e.dst
        /\ "activate" \in Steps /\ "activate" # "delete"
    BY <1>3, <1>4, PhaseMoves, FreeSteps, Zenon
  <1>6. CASE MaySwitch(e) /\ route' = Routed(e) /\ journal' = [journal EXCEPT ![m] = d] /\ hand' = Goto(h, "activate", d)
    <2>1. e.phase # "none" /\ Due("activate", d)
      BY <1>5, <1>6, SMT DEF MaySwitch, Due
    <2>2. Whole(d)
      BY <1>3, <1>5, <2>1, Zenon DEF Whole
    <2>3. route' \in Route
      <3>1. e.dst \in Nodes /\ e.snap \in Versions /\ route.del \in BOOLEAN
        BY <1>3, <1>4, <2>1, SMT DEF Whole, Route, Entry
      <3>2. \A n \in Nodes, v \in Versions, b \in BOOLEAN : [at |-> n, ws |-> "attached", del |-> b, snap |-> v] \in Route
        BY SMT DEF Route
      <3>3. QED
        BY <1>6, <3>1, <3>2, Zenon DEF Routed
    <2> HIDE DEF d
    <2>4. HandsOK'
      BY <1>2, <1>5, <1>6, <2>1, <2>2, GotoTyped, Zenon
    <2>5. JournalOK'
      BY <1>2, <1>5, <1>6, <2>2, OneJournal, Zenon
    <2>6. QED
      BY <1>1, <2>3, <2>4, <2>5, RouteTyped, Zenon
  <1>7. CASE e.phase = "routed" /\ hand' = Goto(h, "activate", e) /\ UNCHANGED <<journal, route>>
    <2>1. Due("activate", e)
      BY <1>7, SMT DEF Due
    <2>2. HandsOK'
      BY <1>2, <1>3, <1>5, <1>7, <2>1, GotoTyped, Zenon
    <2>3. JournalOK' /\ route' \in Route
      BY <1>4, <1>7, Zenon DEF JournalOK
    <2>4. QED
      BY <1>1, <2>2, <2>3, RouteTyped, Zenon
  <1>8. CASE hand' = Returned(h, c) /\ UNCHANGED <<journal, route>>
    <2>2. HandsOK'
      BY <1>2, <1>8, ReturnedTyped, Zenon
    <2>3. JournalOK' /\ route' \in Route
      BY <1>4, <1>8, Zenon DEF JournalOK
    <2>4. QED
      BY <1>1, <2>2, <2>3, RouteTyped, Zenon
  <1>9. QED
    BY <1>6, <1>7, <1>8, Zenon DEF SwitchRoute

\* A migration is over.
LEMMA CompleteTyped ==
  ASSUME Typed, NEW h \in Handlers, Complete(h)
  PROVE  Typed'
  <1> DEFINE m == hand[h].m
             c == hand[h].c
             e == journal[m]
             d == [e EXCEPT !.phase = "complete"]
  <1>1. hand[h].pc \in {"complete", "finalize"} /\ UNCHANGED <<route, worker, running, latest, stray, faults>>
    BY Zenon DEF Complete, Answered
  <1>2. c \in Entry /\ Whole(c) /\ m \in Migrations
    BY <1>1, HandParts, SMT DEF Advancing
  <1>3. e \in Entry /\ Whole(e) /\ JournalOK
    BY <1>2, JournalParts, Zenon DEF Typed
  <1>4. "complete" \in Phases
    BY Zenon DEF Phases
  <1>5. d \in Entry /\ d.phase = "complete" /\ d.src = e.src /\ d.dst = e.dst
    BY <1>3, <1>4, PhaseMoves, Zenon
  <1>6. /\ \/ hand' = Returned(h, d) /\ e.phase \in {"activated", "complete"}
           \/ hand' = Returned(h, c)
        /\ \/ journal' = journal
           \/ e.phase \in {"activated", "complete"} /\ journal' = [journal EXCEPT ![m] = d]
    BY SMT DEF Complete
  <1>7. e.phase \in {"activated", "complete"} => Whole(d)
    BY <1>3, <1>5, SMT DEF Whole
  <1> HIDE DEF d
  <1>8. HandsOK'
    BY <1>2, <1>5, <1>6, <1>7, ReturnedTyped, Zenon
  <1>9. JournalOK'
    <2>1. CASE journal' = journal
      BY <1>3, <2>1, Zenon DEF JournalOK
    <2>2. CASE e.phase \in {"activated", "complete"} /\ journal' = [journal EXCEPT ![m] = d]
      BY <1>2, <1>5, <1>7, <2>2, OneJournal, Zenon
    <2>3. QED
      BY <1>6, <2>1, <2>2, Zenon
  <1>10. QED
    BY <1>1, <1>8, <1>9, GatewayTyped, Zenon

\* A call failed, or a rollback goes on or ends.
LEMMA UndoTyped ==
  ASSUME Typed, NEW h \in Handlers, CallFailed(h) \/ ImportUndone(h) \/ Close(h)
  PROVE  Typed'
  <1> DEFINE m == hand[h].m
             c == hand[h].c
  <1>1. /\ c \in Entry /\ Whole(c) /\ Due(hand[h].pc, c)
        /\ hand[h].pc \in Advancing \cup Undoing => m \in Migrations
    BY HandParts, Zenon
  <1>2. JournalOK
    BY Zenon DEF Typed
  <1>3. CASE CallFailed(h)
    <2>1. UNCHANGED <<journal, route, worker, running, latest, stray, faults>>
      BY <1>3, Zenon DEF CallFailed
    <2>2. hand' = Leave(h) \/ (hand[h].pc \in Advancing /\ hand' = Returned(h, c))
      BY <1>3, SMT DEF CallFailed, Calls, SourceCalls, DestinationCalls, Advancing
    <2>3. HandsOK'
      BY <1>1, <2>2, LeaveTyped, ReturnedTyped, Zenon
    <2>4. JournalOK'
      BY <1>2, <2>1, Zenon DEF JournalOK
    <2>5. QED
      BY <2>1, <2>3, <2>4, GatewayTyped, Zenon
  <1>4. CASE ImportUndone(h)
    <2>1. /\ UNCHANGED <<journal, route, worker, running, latest, stray, faults>>
          /\ hand[h].pc = "undo_import" /\ hand' = Goto(h, "undo_move", c)
      BY <1>4, Zenon DEF ImportUndone, Answered
    <2>2. m \in Migrations /\ Due("undo_move", c)
      BY <1>1, <2>1, SMT DEF Due, Undoing, Uncommitted
    <2>3. "undo_move" \in Steps /\ "undo_move" # "delete"
      BY FreeSteps, Zenon
    <2>4. HandsOK'
      BY <1>1, <2>1, <2>2, <2>3, GotoTyped, Zenon
    <2>5. JournalOK'
      BY <1>2, <2>1, Zenon DEF JournalOK
    <2>6. QED
      BY <2>1, <2>4, <2>5, GatewayTyped, Zenon
  <1>5. CASE Close(h)
    <2>1. /\ UNCHANGED <<route, worker, running, latest, stray, faults>>
          /\ hand[h].pc = "undo_move"
          /\ hand' = Goto(h, "send", c) \/ hand' = Leave(h)
          /\ \/ journal' = journal
             \/ journal[m].phase = c.phase /\ journal' = [journal EXCEPT ![m].phase = "complete"]
      BY <1>5, Zenon DEF Close, Answered
    <2>2. m \in Migrations /\ c.phase # "none"
      BY <1>1, <2>1, SMT DEF Due, Undoing, Uncommitted
    <2>3. "send" \in Steps /\ Due("send", c) /\ "send" # "delete"
      BY FreeSteps, Zenon
    <2>4. HandsOK'
      BY <1>1, <2>1, <2>2, <2>3, GotoTyped, LeaveTyped, Zenon
    <2>5. JournalOK'
      <3>1. CASE journal' = journal
        BY <1>2, <3>1, Zenon DEF JournalOK
      <3>2. CASE journal[m].phase = c.phase /\ journal' = [journal EXCEPT ![m].phase = "complete"]
        <4> DEFINE d == [journal[m] EXCEPT !.phase = "complete"]
        <4>1. journal' = [journal EXCEPT ![m] = d]
          BY <3>2, Zenon
        <4>2. "complete" \in Phases
          BY Zenon DEF Phases
        <4>3. d \in Entry /\ d.phase = "complete" /\ d.src = journal[m].src /\ d.dst = journal[m].dst
          BY <2>2, <4>2, JournalParts, PhaseMoves, Zenon
        <4>4. Whole(d)
          BY <2>2, <3>2, <4>3, JournalParts, Zenon DEF Whole
        <4> HIDE DEF d
        <4>5. QED
          BY <2>2, <4>1, <4>3, <4>4, OneJournal, Zenon
      <3>3. QED
        BY <2>1, <3>1, <3>2, Zenon
    <2>6. QED
      BY <2>1, <2>4, <2>5, GatewayTyped, Zenon
  <1>6. QED
    BY <1>3, <1>4, <1>5, Zenon

\* A migration begins, or a request comes in.
LEMMA BeginTyped ==
  ASSUME Typed, NEW m \in Migrations, NEW d \in Nodes, Begin(m, d)
  PROVE  Typed'
  <1> DEFINE e == FirstOf(route.at, d)
  <1>1. /\ journal' = [journal EXCEPT ![m] = e] /\ d # route.at /\ Exists
        /\ UNCHANGED <<route, worker, running, latest, hand, stray, faults>>
    BY Zenon DEF Begin, FirstOf
  <1>2. route.at \in Nodes
    BY <1>1, SMT DEF Typed, TypeOK, Route, Exists
  <1>3. e \in Entry /\ e.src = route.at /\ e.dst = d
    BY <1>2, PlannedEntry, Zenon
  <1>4. Whole(e)
    BY <1>1, <1>2, <1>3, Zenon DEF Whole
  <1> HIDE DEF e
  <1>5. JournalOK'
    BY <1>1, <1>3, <1>4, OneJournal, Zenon
  <1>6. HandsOK'
    BY <1>1, Zenon DEF Typed, HandsOK
  <1>7. QED
    BY <1>1, <1>5, <1>6, GatewayTyped, Zenon

\* A POST or a cancel enters.
LEMMA RequestComes ==
  ASSUME Typed, NEW h \in Handlers, NEW m \in Migrations,
         (\E kind \in {"post", "soft"} : Post(h, m, kind)) \/ Cancel(h, m)
  PROVE  Typed'
  <1>0. PICK kind \in Kinds :
          /\ \/ Active(m) /\ hand' = Enter(h, kind, m, Step(journal[m]), journal[m])
             \/ journal[m].phase \in Uncommitted /\ hand' = Enter(h, kind, m, Undo(journal[m]), journal[m])
          /\ UNCHANGED <<journal, route, worker, running, latest, stray, faults>>
    BY Zenon DEF Post, Cancel, Kinds
  <1>1. PICK p :
          /\ hand' = Enter(h, kind, m, p, journal[m])
          /\ \/ Active(m) /\ p = Step(journal[m])
             \/ journal[m].phase \in Uncommitted /\ p = Undo(journal[m])
          /\ UNCHANGED <<journal, route, worker, running, latest, stray, faults>>
    BY <1>0, Zenon
  <1>2. journal[m] \in Entry /\ Whole(journal[m]) /\ JournalOK
    BY JournalParts, Zenon DEF Typed
  <1>3. p \in Steps /\ Due(p, journal[m]) /\ p \in Advancing \cup Undoing
    BY <1>1, <1>2, StepDue, Zenon DEF Active
  <1>4. p # "delete" /\ m \in Named
    BY <1>3, FreeSteps, Zenon DEF Named
  <1>5. Entered(h, kind, m, p, journal[m])
    BY <1>1, <1>2, <1>3, <1>4, Zenon DEF Entered
  <1>6. PICK c : c = journal[m]
    BY Zenon
  <1>7. HandsOK'
    <2>1. Entered(h, kind, m, p, c) /\ Whole(c) /\ Due(p, c)
      BY <1>2, <1>3, <1>5, <1>6, Zenon
    <2>2. QED
      BY <1>4, <2>1, EnterTyped, Zenon
  <1>8. JournalOK'
    BY <1>1, <1>2, Zenon DEF JournalOK
  <1>9. QED
    BY <1>1, <1>7, <1>8, GatewayTyped, Zenon

\* A deletion begins and finds a migration to end, or none.
LEMMA DeleteTyped ==
  ASSUME Typed, NEW h \in Handlers, DeleteIntent(h) \/ Resolve(h)
  PROVE  Typed'
  <1>1. /\ NoEntry \in Entry /\ Whole(NoEntry) /\ NoMigration \in Named /\ "delete" \in Kinds
        /\ Due("send", NoEntry) /\ Due("resolve", NoEntry) /\ "send" \in Steps /\ "resolve" \in Steps
        /\ "send" # "delete" /\ "resolve" # "delete"
        /\ "send" \notin Advancing \cup Undoing /\ "resolve" \notin Advancing \cup Undoing
    BY FirstEntry, FreeSteps, Zenon DEF Whole, Named, Kinds
  <1>2. JournalOK
    BY Zenon DEF Typed
  <1>3. CASE DeleteIntent(h)
    <2>1. PICK p : /\ hand' = Enter(h, "delete", NoMigration, p, NoEntry)
                   /\ p = "send" \/ p = "resolve"
      BY <1>3, Zenon DEF DeleteIntent
    <2>2. Entered(h, "delete", NoMigration, p, NoEntry)
      BY <1>1, <2>1, Zenon DEF Entered
    <2>3. HandsOK'
      BY <1>1, <2>1, <2>2, EnterTyped, Zenon
    <2>4. UNCHANGED <<journal, worker, running, latest, stray, faults>> /\ route' = [route EXCEPT !.del = TRUE]
      BY <1>3, Zenon DEF DeleteIntent
    <2>5. route' \in Route
      <3>1. \A r \in Route, b \in BOOLEAN : [r EXCEPT !.del = b] \in Route
        BY SMT DEF Route
      <3>2. route \in Route
        BY Zenon DEF Typed, TypeOK
      <3>3. QED
        BY <2>4, <3>1, <3>2, Zenon
    <2>6. JournalOK'
      BY <1>2, <2>4, Zenon DEF JournalOK
    <2>7. QED
      BY <2>3, <2>4, <2>5, <2>6, RouteTyped, Zenon
  <1>4. CASE Resolve(h)
    <2>1. UNCHANGED <<journal, route, worker, running, latest, stray, faults>>
      BY <1>4, Zenon DEF Resolve
    <2>2. ASSUME hand' = Goto(h, "send", NoEntry) PROVE HandsOK'
      BY <1>1, <2>2, GotoTyped, Zenon
    <2>3. ASSUME NEW m \in Migrations, Active(m),
                 hand' = Enter(h, "delete", m, IF journal[m].phase \in Committed THEN Step(journal[m])
                                               ELSE Undo(journal[m]), journal[m])
          PROVE  HandsOK'
      <3>1. journal[m] \in Entry /\ Whole(journal[m])
        BY JournalParts, Zenon
      <3>2. PICK c : c = journal[m]
        BY Zenon
      <3>3. PICK p : /\ hand' = Enter(h, "delete", m, p, c)
                     /\ p = Step(c) \/ (c.phase \in Uncommitted /\ p = Undo(c))
        BY <2>3, <3>2, Zenon DEF Active
      <3>4. c \in Entry /\ Whole(c) /\ c.phase \in Uncommitted \cup Committed
        BY <2>3, <3>1, <3>2, Zenon DEF Active
      <3>5. p \in Steps /\ Due(p, c) /\ p \in Advancing \cup Undoing
        BY <3>3, <3>4, StepDue, Zenon
      <3>6. p # "delete" /\ m \in Named
        BY <3>5, FreeSteps, Zenon DEF Named
      <3>7. Entered(h, "delete", m, p, c)
        BY <1>1, <3>3, <3>4, <3>5, <3>6, Zenon DEF Entered
      <3>8. QED
        BY <3>4, <3>5, <3>6, <3>7, EnterTyped, Zenon
    <2>4. HandsOK'
      BY <1>4, <2>2, <2>3, Zenon DEF Resolve
    <2>5. JournalOK'
      BY <1>2, <2>1, Zenon DEF JournalOK
    <2>6. QED
      BY <2>1, <2>4, <2>5, GatewayTyped, Zenon
  <1>5. QED
    BY <1>3, <1>4, Zenon

\* The sandbox is removed.
LEMMA RemovedTyped ==
  ASSUME Typed, Removed
  PROVE  route' \in Route /\ JournalOK'
  <1>1. route \in Route /\ JournalOK
    BY Zenon DEF Typed, TypeOK
  <1>2. route' \in Route
    <2>1. \A r \in Route, b \in BOOLEAN : [r EXCEPT !.at = NoNode] \in Route /\ [r EXCEPT !.del = b] \in Route
      BY SMT DEF Route
    <2>2. [[route EXCEPT !.at = NoNode] EXCEPT !.del = FALSE] \in Route
      BY <1>1, <2>1, Zenon
    <2>3. route' = [[route EXCEPT !.at = NoNode] EXCEPT !.del = FALSE]
      BY Zenon DEF Removed
    <2>4. QED
      BY <2>2, <2>3, Zenon
  <1>3. ASSUME NEW m \in Migrations
        PROVE  LET e == IF Active(m) THEN [journal[m] EXCEPT !.phase = "complete"] ELSE journal[m] IN
               e \in Entry /\ Whole(e)
    <2> DEFINE c == journal[m]
               d == [c EXCEPT !.phase = "complete"]
    <2>1. c \in Entry /\ Whole(c) /\ "complete" \in Phases
      BY JournalParts, Zenon DEF Phases
    <2>2. d \in Entry /\ d.phase = "complete" /\ d.src = c.src /\ d.dst = c.dst
      BY <2>1, PhaseMoves, Zenon
    <2>3. Active(m) => c.phase # "none"
      BY Zenon DEF Active, Uncommitted, Committed
    <2>4. Active(m) => Whole(d)
      BY <2>1, <2>2, <2>3, Zenon DEF Whole
    <2>5. QED
      BY <2>1, <2>2, <2>4, Zenon
  <1>4. journal' = [m \in Migrations |-> IF Active(m) THEN [journal[m] EXCEPT !.phase = "complete"] ELSE journal[m]]
    BY Zenon DEF Removed
  <1>5. QED
    BY <1>2, <1>3, <1>4, Zenon DEF JournalOK

\* The delete is sent, or the route dropped.
LEMMA SendTyped ==
  ASSUME Typed, NEW h \in Handlers, Send(h) \/ Drop(h)
  PROVE  Typed'
  <1>1. UNCHANGED <<worker, running, latest, stray, faults>>
    BY Zenon DEF Send, Drop
  <1>2. (route' \in Route /\ JournalOK') \/ UNCHANGED <<journal, route>>
    BY RemovedTyped, Zenon DEF Send, Drop
  <1>3. route' \in Route /\ JournalOK'
    BY <1>2, Zenon DEF Typed, TypeOK, JournalOK
  <1>4. CASE hand' = Leave(h)
    BY <1>1, <1>3, <1>4, LeaveTyped, RouteTyped, Zenon
  <1>5. CASE /\ Exists
             /\ hand' = [hand EXCEPT ![h] = [@ EXCEPT !.pc = "delete", !.to = route.at, !.c = NoEntry]]
    <2> DEFINE x == hand[h]
               n == route.at
               y == [x EXCEPT !.pc = "delete", !.to = n, !.c = NoEntry]
    <2>1. route.at \in Nodes
      BY <1>5, SMT DEF Typed, TypeOK, Route, Exists
    <2>2. x \in Handler /\ hand \in [Handlers -> Handler]
      BY HandParts, Zenon
    <2>3. hand' = [hand EXCEPT ![h] = y]
      BY <1>5, Zenon
    <2>4. "delete" \in Steps /\ NoEntry \in Entry /\ NoEntry.phase = "none"
      BY FreeSteps, FirstEntry, Zenon
    <2> HIDE DEF x, n
    <2>5. y.pc = "delete" /\ y.to = n /\ y.c = NoEntry
      BY <2>2, SMT DEF Handler
    <2>6. y \in Handler
      <3>1. [[[x EXCEPT !.pc = "delete"] EXCEPT !.to = n] EXCEPT !.c = NoEntry] = y
        OBVIOUS
      <3>2. n \in Nodes \cup {NoNode}
        BY <2>1, Zenon DEF n
      <3>3. [[x EXCEPT !.pc = "delete"] EXCEPT !.to = n] \in Handler
        BY <2>2, <2>4, <3>2, HandlerField, Zenon
      <3>4. QED
        BY <2>4, <3>1, <3>3, HandlerField, Zenon
    <2> HIDE DEF y
    <2>7. hand'[h] = y /\ hand' \in [Handlers -> Handler] /\ \A g \in Handlers \ {h} : hand'[g] = hand[g]
      BY <2>2, <2>3, <2>6, Zenon
    <2>8. Carries(y)
      <3>1. Whole(NoEntry)
        BY <2>4, Zenon DEF Whole
      <3>2. Due("delete", NoEntry)
        BY SMT DEF Due
      <3>3. "delete" \notin Advancing \cup Undoing /\ y.to \in Nodes
        BY <2>1, <2>5, FreeSteps, Zenon DEF n
      <3>4. QED
        BY <2>5, <3>1, <3>2, <3>3, Zenon DEF Carries
    <2>9. HandsOK'
      BY <2>7, <2>8, OneHand, Zenon
    <2>10. QED
      BY <1>1, <1>3, <2>9, RouteTyped, Zenon
  <1>6. QED
    BY <1>4, <1>5, Zenon DEF Send, Drop

\* A worker answers, or fails in the middle.
LEMMA ServeTyped ==
  ASSUME Typed, NEW h \in Handlers, Serve(h) \/ Stumble(h)
  PROVE  Typed'
  <1> DEFINE k == Request(h)
             c == hand[h].c
  <1>1. hand[h].pc \in Calls
    BY Zenon DEF Serve, Stumble, Calling
  <1>2. k \in Call /\ (k.op \in Undoing => k.m \in Migrations) /\ k.to \in Nodes
    BY <1>1, RequestTyped, Zenon
  <1>3. TypeOK /\ hand \in [Handlers -> Handler] /\ c \in Entry /\ Carries(hand[h])
    BY HandParts, Zenon DEF Typed
  <1>4. /\ reg' \in [Nodes -> Registration] /\ data' \in [Nodes -> Versions]
        /\ retired' \subseteq Nodes \X Migrations /\ running' \subseteq Nodes /\ undoing' \subseteq Migrations
    <2>1. Perform(k) \/ Halfway(k)
      BY Zenon DEF Serve, Stumble
    <2>2. PICK j : j = k
      BY Zenon
    <2>3. j \in Call /\ (j.op \in Undoing => j.m \in Migrations) /\ (Perform(j) \/ Halfway(j))
      BY <1>2, <2>1, <2>2, Zenon
    <2>4. QED
      BY <1>3, <2>3, PerformTyped, Zenon
  <1>5. StraysOK' /\ UNCHANGED <<journal, route, latest>>
    BY Zenon DEF Serve, Stumble, Typed, StraysOK
  <1>6. ASSUME NEW a \in {"ok", "error"}, NEW v \in Versions,
               hand' = [hand EXCEPT ![h] = [@ EXCEPT !.re = a, !.c.snap = v]]
        PROVE  HandsOK'
    <2>1. /\ hand' \in [Handlers -> Handler]
          /\ hand'[h].pc = hand[h].pc /\ hand'[h].c = [c EXCEPT !.snap = v] /\ hand'[h].to = hand[h].to
          /\ hand'[h].m = hand[h].m
          /\ \A g \in Handlers \ {h} : hand'[g] = hand[g]
      BY <1>3, <1>6, ServedFields, Zenon
    <2>2. PICK d \in Entry : d = [c EXCEPT !.snap = v]
      BY <1>3, EntryField, Zenon
    <2>3. d.phase = c.phase /\ d.src = c.src /\ d.dst = c.dst /\ d.fenced = c.fenced
      BY <1>3, <2>2, SMT DEF Entry
    <2>4. Whole(d) /\ Due(hand[h].pc, d)
      BY <1>3, <2>3, Zenon DEF Carries, Whole, Due
    <2>5. Target(hand[h].pc, d) = Target(hand[h].pc, c)
      BY <2>3, Zenon DEF Target
    <2>6. Carries(hand'[h])
      BY <1>3, <2>1, <2>2, <2>4, <2>5, Zenon DEF Carries
    <2>7. QED
      BY <2>1, <2>6, OneHand, Zenon
  <1>7. CASE Serve(h)
    <2>1. Outcome(k).re \in {"ok", "error"}
      <3>1. k.op \in Calls /\ k.m \in Migrations \cup {NoMigration} /\ reg \in [Nodes -> Registration]
        BY <1>2, <1>3, SMT DEF Call, TypeOK
      <3>2. QED
        BY <1>2, <3>1, OutcomeTyped, Zenon
    <2>2. data[k.to] \in Versions /\ k.snap \in Versions
      BY <1>2, <1>3, SMT DEF TypeOK, Call
    <2> HIDE DEF k
    <2>3. \E v \in Versions : hand' = [hand EXCEPT ![h] = [@ EXCEPT !.re = Outcome(k).re, !.c.snap = v]]
      <3>1. hand' = [hand EXCEPT ![h] = [@ EXCEPT !.re = Outcome(k).re,
                       !.c.snap = IF k.op = "prepare" /\ Outcome(k).re = "ok" THEN data[k.to] ELSE k.snap]]
        BY <1>7, Zenon DEF Serve, k
      <3>2. QED
        BY <2>2, <3>1, Zenon
    <2>4. HandsOK' /\ faults' \in 0..MaxFaults
      BY <1>3, <1>6, <1>7, <2>1, <2>3, Zenon DEF Serve, TypeOK
    <2>5. QED
      BY <1>4, <1>5, <2>4, CallTyped, Zenon
  <1>8. CASE Stumble(h)
    <2>1. hand' = [hand EXCEPT ![h].re = "error"] /\ Fault
      BY <1>8, Zenon DEF Stumble, Hear
    <2>2. faults' \in 0..MaxFaults
      BY <1>3, <2>1, SMT, MigrationAssumption DEF Fault, TypeOK
    <2>3. HandsOK'
      <3>1. /\ hand' \in [Handlers -> Handler]
            /\ hand'[h].pc = hand[h].pc /\ hand'[h].c = c /\ hand'[h].to = hand[h].to
            /\ hand'[h].m = hand[h].m
            /\ \A g \in Handlers \ {h} : hand'[g] = hand[g]
        BY <1>3, <2>1, HearFields, Zenon
      <3>2. Carries(hand'[h])
        BY <1>3, <3>1, Zenon DEF Carries
      <3>3. QED
        BY <3>1, <3>2, OneHand, Zenon
    <2>4. QED
      BY <1>4, <1>5, <2>2, <2>3, CallTyped, Zenon
  <1>9. QED
    BY <1>7, <1>8, Zenon

\* Calls and processes are lost.
LEMMA FaultTyped ==
  ASSUME Typed, NEW h \in Handlers, Lose(h) \/ Abandon(h) \/ Crash(h)
  PROVE  Typed'
  <1>1. UNCHANGED <<journal, route, worker, running, latest>> /\ Fault
    BY Zenon DEF Lose, Abandon, Crash
  <1>2. faults' \in 0..MaxFaults
    BY <1>1, SMT, MigrationAssumption DEF Fault, Typed, TypeOK
  <1>3. /\ reg' \in [Nodes -> Registration] /\ data' \in [Nodes -> Versions]
        /\ retired' \subseteq Nodes \X Migrations /\ running' \subseteq Nodes /\ undoing' \subseteq Migrations
    BY <1>1, WorkerTyped, Zenon
  <1>4. HandsOK'
    <2>1. CASE hand' = Leave(h)
      BY <2>1, LeaveTyped, Zenon
    <2>2. CASE hand' = [hand EXCEPT ![h].re = "error"]
      <3>0. hand \in [Handlers -> Handler] /\ Carries(hand[h])
        BY HandParts, Zenon
      <3>1. /\ hand' \in [Handlers -> Handler]
            /\ hand'[h].pc = hand[h].pc /\ hand'[h].c = hand[h].c /\ hand'[h].to = hand[h].to
            /\ hand'[h].m = hand[h].m
            /\ \A g \in Handlers \ {h} : hand'[g] = hand[g]
        BY <2>2, <3>0, HearFields, Zenon
      <3>2. Carries(hand'[h])
        BY <3>0, <3>1, Zenon DEF Carries
      <3>3. QED
        BY <3>1, <3>2, OneHand, Zenon
    <2>3. QED
      BY <2>1, <2>2, Zenon DEF Lose, Abandon, Crash, Hear
  <1>5. StraysOK'
    <2>1. CASE stray' = stray
      BY <2>1, Zenon DEF Typed, StraysOK
    <2>2. CASE Abandon(h)
      <3>1. hand[h].pc \in Calls
        BY <2>2, Zenon DEF Abandon, MayStray, Calling
      <3>2. Request(h) \in Call /\ (Request(h).op \in Undoing => Request(h).m \in Migrations)
        BY <3>1, RequestTyped, Zenon
      <3>3. QED
        BY <2>2, <3>2, Zenon DEF Abandon, Typed, StraysOK
    <2>3. QED
      BY <2>1, <2>2, Zenon DEF Lose, Crash
  <1>6. QED
    BY <1>1, <1>2, <1>3, <1>4, <1>5, CallTyped, Zenon

\* A call nobody waits for lands.
LEMMA LandTyped ==
  ASSUME Typed, NEW k \in stray, Land(k)
  PROVE  Typed'
  <1>1. k \in Call /\ (k.op \in Undoing => k.m \in Migrations) /\ TypeOK
    BY Zenon DEF Typed, StraysOK
  <1>2. /\ reg' \in [Nodes -> Registration] /\ data' \in [Nodes -> Versions]
        /\ retired' \subseteq Nodes \X Migrations /\ running' \subseteq Nodes /\ undoing' \subseteq Migrations
    BY <1>1, PerformTyped, Zenon DEF Land
  <1>3. /\ HandsOK' /\ StraysOK' /\ faults' \in 0..MaxFaults /\ UNCHANGED <<journal, route, latest>>
    BY Zenon DEF Land, Typed, TypeOK, HandsOK, StraysOK
  <1>4. QED
    BY <1>2, <1>3, CallTyped, Zenon

\* The sandbox is woken or parked.
LEMMA WakeTyped ==
  ASSUME Typed, Wake \/ \E n \in Nodes : Park(n)
  PROVE  Typed'
  <1>1. CASE Wake
    <2>1. route.at \in Nodes /\ latest + 1 \in Versions
      BY <1>1, MigrationAssumption, SMT DEF Wake, Exists, Typed, TypeOK, Route, Versions
    <2>2. data' \in [Nodes -> Versions] /\ running' \subseteq Nodes /\ latest' \in Versions
      BY <1>1, <2>1, Zenon DEF Wake, Typed, TypeOK
    <2>3. UNCHANGED <<journal, route, reg, retired, undoing, hand, stray, faults>>
      BY <1>1, Zenon DEF Wake
    <2>4. QED
      BY <2>2, <2>3, Zenon DEF Typed, TypeOK, JournalOK, HandsOK, StraysOK
  <1>2. CASE \E n \in Nodes : Park(n)
    <2>1. running' \subseteq Nodes
      BY <1>2, Zenon DEF Park, Typed, TypeOK
    <2>2. UNCHANGED <<journal, route, reg, data, retired, undoing, latest, hand, stray, faults>>
      BY <1>2, Zenon DEF Park, worker
    <2>3. QED
      BY <2>1, <2>2, Zenon DEF Typed, TypeOK, JournalOK, HandsOK, StraysOK
  <1>3. QED
    BY <1>1, <1>2, Zenon

\* The types hold at first.
LEMMA TypedInit == Init => Typed
  <1> SUFFICES ASSUME Init PROVE Typed
    OBVIOUS
  <1>1. NoEntry \in Entry /\ NoEntry.phase = "none" /\ Whole(NoEntry)
    BY FirstEntry, Zenon DEF Whole
  <1>2. Idle \in Handler /\ Carries(Idle)
    <2>1. \A c \in Entry :
            [pc |-> "idle", kind |-> "post", m |-> NoMigration, c |-> c, to |-> NoNode, re |-> "none"] \in Handler
      BY SMT DEF Handler
    <2>2. Idle \in Handler /\ Idle.pc = "idle" /\ Idle.c = NoEntry
      BY <1>1, <2>1, Zenon DEF Idle
    <2>3. Due("idle", NoEntry)
      BY SMT DEF Due
    <2>4. QED
      BY <1>1, <2>2, <2>3, SMT DEF Carries, Advancing, Undoing
  <1>3. 0 \in Versions /\ 0 \in 0..MaxFaults
    BY MigrationAssumption, SMT DEF Versions
  <1>4. PICK n \in Nodes, ws \in Starts :
          /\ route = [at |-> n, ws |-> ws, del |-> FALSE, snap |-> 0]
          /\ reg = [k \in Nodes |-> IF k = n /\ ws = "attached"
                                    THEN [phase |-> "owned", mig |-> NoMigration] ELSE NoReg]
    BY Zenon DEF Init
  <1>5. route \in Route
    <2>1. ws \in {"attached", "detached"}
      BY MigrationAssumption, Zenon
    <2>2. \A b \in BOOLEAN, v \in Versions : [at |-> n, ws |-> ws, del |-> b, snap |-> v] \in Route
      BY <2>1, SMT DEF Route
    <2>3. QED
      BY <1>3, <1>4, <2>2, Zenon
  <1>6. reg \in [Nodes -> Registration]
    <2>1. [phase |-> "owned", mig |-> NoMigration] \in Registration /\ NoReg \in Registration
      BY RegistrationTyped, Zenon
    <2>2. QED
      BY <1>4, <2>1, Zenon
  <1>7. /\ journal \in [Migrations -> Entry] /\ \A m \in Migrations : Whole(journal[m])
    BY <1>1, Zenon DEF Init
  <1>8. hand \in [Handlers -> Handler] /\ \A h \in Handlers : Carries(hand[h])
    BY <1>2, Zenon DEF Init
  <1>9. /\ data \in [Nodes -> Versions] /\ retired = {} /\ running = {} /\ latest \in Versions /\ stray = {}
        /\ faults \in 0..MaxFaults /\ undoing = {}
    BY <1>3, Zenon DEF Init
  <1>10. QED
    BY <1>5, <1>6, <1>7, <1>8, <1>9, Zenon DEF Typed, TypeOK, JournalOK, HandsOK, StraysOK

\* Every step keeps them.
LEMMA TypedNext ==
  ASSUME Typed, [Next]_vars
  PROVE  Typed'
  <1>1. CASE UNCHANGED vars
    BY <1>1, Zenon DEF vars, Typed, TypeOK, JournalOK, HandsOK, StraysOK
  <1>2. ASSUME NEW h \in Handlers, Continue(h) \/ Serve(h) \/ Stumble(h) \/ Lose(h) \/ Abandon(h) \/ Crash(h)
        PROVE  Typed'
    <2>1. CASE Plan(h) \/ PrepareDone(h) \/ ImportDone(h) \/ ActivateDone(h)
      BY <2>1, AdvanceTyped, Zenon
    <2>2. CASE SwitchRoute(h)
      BY <2>2, SwitchRouteTyped, Zenon
    <2>3. CASE Complete(h)
      BY <2>3, CompleteTyped, Zenon
    <2>4. CASE CallFailed(h) \/ ImportUndone(h) \/ Close(h)
      BY <2>4, UndoTyped, Zenon
    <2>5. CASE Resolve(h)
      BY <2>5, DeleteTyped, Zenon
    <2>6. CASE Send(h) \/ Drop(h)
      BY <2>6, SendTyped, Zenon
    <2>7. CASE Serve(h) \/ Stumble(h)
      BY <2>7, ServeTyped, Zenon
    <2>8. CASE Lose(h) \/ Abandon(h) \/ Crash(h)
      BY <2>8, FaultTyped, Zenon
    <2>9. QED
      BY <1>2, <2>1, <2>2, <2>3, <2>4, <2>5, <2>6, <2>7, <2>8, Zenon DEF Continue
  <1>3. CASE \E m \in Migrations, d \in Nodes : Begin(m, d)
    BY <1>3, BeginTyped, Zenon
  <1>4. CASE \E h \in Handlers, m \in Migrations : \E kind \in {"post", "soft"} : Post(h, m, kind)
    BY <1>4, RequestComes, Zenon
  <1>5. CASE \E h \in Handlers, m \in Migrations : Cancel(h, m)
    BY <1>5, RequestComes, Zenon
  <1>6. CASE \E h \in Handlers : DeleteIntent(h)
    BY <1>6, DeleteTyped, Zenon
  <1>7. CASE \E k \in stray : Land(k)
    BY <1>7, LandTyped, Zenon
  <1>8. CASE Wake \/ \E n \in Nodes : Park(n)
    BY <1>8, WakeTyped, Zenon
  <1>9. QED
    BY <1>1, <1>2, <1>3, <1>4, <1>5, <1>6, <1>7, <1>8, Zenon DEF Next

\* Journal, route, registrations, handlers and calls in flight keep their types,
\* whatever the callers' discipline.
THEOREM TypeCorrect == Spec => []TypeOK
  <1>1. Init => Typed
    BY TypedInit
  <1>2. Typed /\ [Next]_vars => Typed'
    BY TypedNext
  <1>3. Typed => TypeOK
    BY DEF Typed
  <1>4. QED
    BY <1>1, <1>2, <1>3, PTL DEF Spec

-----------------------------------------------------------------------------
(* The theorems                                                              *)

\* The inductive invariant holds at first.
LEMMA IInvInit ==
  ASSUME Init
  PROVE  IInv
  <1>1. PICK n \in Nodes, ws \in Starts :
          /\ route = [at |-> n, ws |-> ws, del |-> FALSE, snap |-> 0]
          /\ reg = [k \in Nodes |-> IF k = n /\ ws = "attached"
                                    THEN [phase |-> "owned", mig |-> NoMigration] ELSE NoReg]
    BY Zenon DEF Init
  <1>2. /\ journal = [m \in Migrations |-> NoEntry] /\ data = [k \in Nodes |-> 0] /\ latest = 0
        /\ hand = [h \in Handlers |-> Idle] /\ stray = {}
    BY Zenon DEF Init
  <1>3. n # NoNode /\ ws \in {"attached", "detached"}
    BY MigrationAssumption, Zenon
  <1>4. route.at = n /\ route.ws = ws /\ route.snap = 0 /\ Exists
    BY <1>1, <1>3, SMT DEF Exists
  <1>5. Inactive
    <2>1. NoEntry.phase \notin Uncommitted \cup Committed
      BY SMT DEF NoEntry, Uncommitted, Committed
    <2>2. QED
      BY <1>2, <2>1, Zenon DEF Inactive, Active
  <1>6. /\ \A k \in Nodes \ {n} : reg[k] = NoReg
        /\ ws = "attached" => reg[n] = [phase |-> "owned", mig |-> NoMigration]
        /\ ws # "attached" => reg[n] = NoReg
    BY <1>1, Zenon
  <1>7. /\ \A k \in Nodes \ {n} : Empty(k)
        /\ ws = "attached" => reg[n].phase = "owned"
        /\ ws = "detached" => Empty(n)
    BY <1>6, SMT DEF Empty, NoReg
  <1>8. AtRest
    <2>1. data[n] = latest
      BY <1>2, Zenon
    <2>2. Elsewhere({n})
      BY <1>7, Zenon DEF Elsewhere
    <2>3. QED
      BY <1>3, <1>4, <1>7, <2>1, <2>2, Zenon DEF AtRest
  <1>9. World
    BY <1>2, <1>4, <1>5, <1>8, Zenon DEF World, Inactive
  <1>10. \A h \in Handlers : hand[h].pc = "idle"
    <2>1. Idle.pc = "idle"
      BY SMT DEF Idle
    <2>2. QED
      BY <1>2, <2>1, Zenon
  <1>11. Handling /\ Astray
    BY <1>2, <1>10, Zenon DEF Handling, Apart, Fits, Astray
  <1>12. QED
    BY <1>9, <1>11, Zenon DEF IInv

\* Every step of disciplined callers, and of everything else, keeps it.
LEMMA IInvNext ==
  ASSUME Typed, Typed', Disciplined, IInv, [Next]_vars
  PROVE  IInv'
  <1>1. CASE UNCHANGED vars
    BY <1>1, ParkKept, Zenon
  <1>2. ASSUME NEW h \in Handlers, Continue(h)
        PROVE  IInv'
    <2>1. CASE Plan(h)
      BY <2>1, PlanKept, Zenon
    <2>2. CASE PrepareDone(h)
      BY <2>2, PrepareDoneKept, Zenon
    <2>3. CASE ImportDone(h)
      BY <2>3, ImportDoneKept, Zenon
    <2>4. CASE SwitchRoute(h)
      BY <2>4, SwitchRouteKept, Zenon
    <2>5. CASE ActivateDone(h)
      BY <2>5, ActivateDoneKept, Zenon
    <2>6. CASE Complete(h)
      BY <2>6, CompleteKept, Zenon
    <2>7. CASE CallFailed(h)
      BY <2>7, FailureKept, Zenon
    <2>8. CASE ImportUndone(h)
      BY <2>8, ImportUndoneKept, Zenon
    <2>9. CASE Close(h)
      BY <2>9, CloseKept, Zenon
    <2>10. CASE Resolve(h)
      BY <2>10, ResolveKept, Zenon
    <2>11. CASE Send(h)
      BY <2>11, SendKept, Zenon
    <2>12. CASE Drop(h)
      BY <2>12, DropKept, Zenon
    <2>13. QED
      BY <1>2, <2>1, <2>2, <2>3, <2>4, <2>5, <2>6, <2>7, <2>8, <2>9, <2>10, <2>11, <2>12, Zenon DEF Continue
  <1>3. ASSUME NEW h \in Handlers, Serve(h) \/ Stumble(h) \/ Lose(h) \/ Abandon(h) \/ Crash(h)
        PROVE  IInv'
    <2>1. CASE Serve(h) \/ Stumble(h)
      BY <2>1, ServeKept, Zenon
    <2>2. CASE Lose(h) \/ Crash(h)
      BY <2>2, FailureKept, Zenon
    <2>3. CASE Abandon(h)
      BY <2>3, AbandonKept, Zenon
    <2>4. QED
      BY <1>3, <2>1, <2>2, <2>3, Zenon
  <1>4. CASE \E m \in Migrations, d \in Nodes : Begin(m, d)
    BY <1>4, BeginKept, Zenon
  <1>5. CASE \E h \in Handlers, m \in Migrations : \E kind \in {"post", "soft"} : Post(h, m, kind)
    BY <1>5, PostKept, Zenon
  <1>6. CASE \E h \in Handlers, m \in Migrations : Cancel(h, m)
    BY <1>6, CancelKept, Zenon
  <1>7. CASE \E h \in Handlers : DeleteIntent(h)
    BY <1>7, DeleteKept, Zenon
  <1>8. CASE \E k \in stray : Land(k)
    BY <1>8, LandKept, Zenon
  <1>9. CASE Wake
    BY <1>9, WakeKept, Zenon
  <1>10. CASE \E n \in Nodes : Park(n)
    BY <1>10, ParkKept, Zenon
  <1>11. QED
    BY <1>1, <1>2, <1>3, <1>4, <1>5, <1>6, <1>7, <1>8, <1>9, <1>10, Zenon DEF Next

\* What the inductive invariant says where the properties look.
LEMMA WorldCases ==
  ASSUME Typed, World
  PROVE  \/ Inactive /\ AtRest
         \/ \E m \in Migrations, e \in Entry :
              /\ e = journal[m] /\ Active(m) /\ e.phase \in Uncommitted
              /\ Source(m, e) /\ Elsewhere({e.src, e.dst})
         \/ \E m \in Migrations, e \in Entry :
              /\ e = journal[m] /\ Active(m) /\ e.phase \in Committed
              /\ Destination(m, e) /\ Elsewhere({e.src, e.dst})
  <1>1. CASE Inactive
    BY <1>1, Zenon DEF World
  <1>2. ASSUME NEW m \in Migrations, Active(m)
        PROVE  \E e \in Entry :
                 /\ e = journal[m] /\ Elsewhere({e.src, e.dst})
                 /\ \/ e.phase \in Uncommitted /\ Source(m, e)
                    \/ e.phase \in Committed /\ Destination(m, e)
    <2>1. PICK e \in Entry : e = journal[m]
      BY JournalParts, Zenon
    <2>2. e.phase \in Uncommitted \/ e.phase \in Committed
      BY <1>2, <2>1, Zenon DEF Active
    <2>3. QED
      BY <1>2, <2>1, <2>2, Zenon DEF World, UnderWay
  <1>3. QED
    BY <1>1, <1>2, Zenon DEF Inactive

\* One owner, and it is current.
LEMMA OwnerFollows ==
  ASSUME Typed, World
  PROVE  OneCurrentOwner
  <1> SUFFICES ASSUME NEW n \in Nodes, reg[n].phase = "owned"
               PROVE  data[n] = latest /\ \A k \in Nodes \ {n} : reg[k].phase # "owned"
    BY Zenon DEF OneCurrentOwner
  <1>0. ~Empty(n) /\ (\A k \in Nodes : Empty(k) => reg[k].phase # "owned")
        /\ route.ws \in {"attached", "detached"}
    BY SMT DEF Empty, Typed, TypeOK, Route
  <1>1. CASE Inactive /\ AtRest
    <2>1. Exists /\ route.ws = "attached"
      BY <1>0, <1>1, SMT DEF AtRest
    <2>2. n = route.at
      BY <1>0, <1>1, <2>1, Zenon DEF AtRest, Elsewhere
    <2>3. QED
      BY <1>0, <1>1, <2>1, <2>2, Zenon DEF AtRest, Elsewhere
  <1>2. ASSUME NEW m \in Migrations, NEW e \in Entry, Source(m, e), Elsewhere({e.src, e.dst})
        PROVE  data[n] = latest /\ \A k \in Nodes \ {n} : reg[k].phase # "owned"
    <2>1. reg[e.dst].phase # "owned"
      BY <1>2, SMT DEF Source, Importing, Discarding, At, Empty
    <2>2. n = e.src
      BY <1>0, <1>2, <2>1, Zenon DEF Elsewhere
    <2>3. data[n] = latest
      BY <1>0, <1>2, <2>2, SMT DEF Source
    <2>4. QED
      BY <1>0, <1>2, <2>1, <2>2, <2>3, Zenon DEF Elsewhere
  <1>3. ASSUME NEW m \in Migrations, NEW e \in Entry, Destination(m, e), Elsewhere({e.src, e.dst})
        PROVE  data[n] = latest /\ \A k \in Nodes \ {n} : reg[k].phase # "owned"
    <2>1. reg[e.src].phase # "owned"
      BY <1>3, SMT DEF Destination, At, Empty
    <2>2. n = e.dst
      BY <1>0, <1>3, <2>1, Zenon DEF Elsewhere
    <2>3. data[n] = latest
      BY <1>3, <2>2, Zenon DEF Destination
    <2>4. QED
      BY <1>0, <1>3, <2>1, <2>2, <2>3, Zenon DEF Elsewhere
  <1>4. QED
    BY <1>1, <1>2, <1>3, WorldCases, Zenon

\* The route leads to a current copy.
LEMMA CopyFollows ==
  ASSUME Typed, World
  PROVE  RouteHasCopy
  <1> SUFFICES ASSUME Exists, ~route.del, route.ws = "attached"
               PROVE  /\ data[route.at] = latest
                      /\ \/ reg[route.at].phase = "owned"
                         \/ \E m \in Migrations :
                              /\ reg[route.at].mig = m
                              /\ \/ reg[route.at].phase = "moving_out" /\ journal[m].phase \in Uncommitted
                                 \/ reg[route.at].phase = "import_ready" /\ journal[m].phase = "routed"
    BY Zenon DEF RouteHasCopy
  <1>1. CASE Inactive /\ AtRest
    BY <1>1, Zenon DEF AtRest
  <1>2. ASSUME NEW m \in Migrations, NEW e \in Entry, e = journal[m], e.phase \in Uncommitted, Source(m, e)
        PROVE  /\ data[route.at] = latest
               /\ reg[route.at].phase = "owned" \/ At(route.at, "moving_out", m)
    BY <1>2, Zenon DEF Source
  <1>3. ASSUME NEW m \in Migrations, NEW e \in Entry, e = journal[m], Destination(m, e)
        PROVE  /\ data[route.at] = latest
               /\ reg[route.at].phase = "owned" \/ (e.phase = "routed" /\ At(route.at, "import_ready", m))
    BY <1>3, Zenon DEF Destination, At
  <1>4. QED
    BY <1>1, <1>2, <1>3, WorldCases, Zenon DEF At

\* Nothing is left behind.
LEMMA CleanFollows ==
  ASSUME Typed, World
  PROVE  EndsClean
  <1> SUFFICES ASSUME Exists, ~route.del, Inactive, NEW n \in Nodes
               PROVE  reg[n].phase \in {"none", "owned"}
    BY Zenon DEF EndsClean, Inactive
  <1>1. AtRest /\ route.ws \in {"attached", "detached"}
    BY SMT DEF World, Typed, TypeOK, Route
  <1>2. QED
    BY <1>1, Zenon DEF AtRest, Elsewhere, Empty

\* The inductive invariant holds throughout.
LEMMA Inductive ==
  ASSUME Disciplined
  PROVE  Spec => [](Typed /\ IInv)
  <1>1. Init => Typed /\ IInv
    BY TypedInit, IInvInit
  <1>2. Typed /\ IInv /\ [Next]_vars => (Typed /\ IInv)'
    <2> SUFFICES ASSUME Typed, IInv, [Next]_vars PROVE Typed' /\ IInv'
      OBVIOUS
    <2>1. Typed'
      BY TypedNext
    <2>2. QED
      BY <2>1, IInvNext
  <1>3. QED
    BY <1>1, <1>2, PTL DEF Spec

\* With callers of both disciplines, whatever calls, answers and processes are
\* lost and in whatever order the calls in flight land, at most one worker
\* owns the sandbox, and it has the files last written.
THEOREM OwnerSafe ==
  ASSUME Disciplined
  PROVE  Spec => []OneCurrentOwner
  <1>1. Typed /\ IInv => OneCurrentOwner
    BY OwnerFollows DEF IInv
  <1>2. QED
    BY <1>1, Inductive, PTL

\* ... the route of a sandbox nobody deletes leads to a worker that has its
\* files and serves them, or will when the migration goes on.
THEOREM CopySafe ==
  ASSUME Disciplined
  PROVE  Spec => []RouteHasCopy
  <1>1. Typed /\ IInv => RouteHasCopy
    BY CopyFollows DEF IInv
  <1>2. QED
    BY <1>1, Inductive, PTL

\* ... a migration that is over has left no fenced source, no import and no
\* half of a deletion on any worker.
THEOREM CleanSafe ==
  ASSUME Disciplined
  PROVE  Spec => []EndsClean
  <1>1. Typed /\ IInv => EndsClean
    BY CleanFollows DEF IInv
  <1>2. QED
    BY <1>1, Inductive, PTL

\* What the end of a rollback reports.
LEMMA CloseHolds ==
  ASSUME Typed, IInv, NEW h \in Handlers, Close(h)
  PROVE  LET e == journal'[hand[h].m] IN
         /\ e.phase = "complete"
         /\ Exists => route.at = e.src /\ reg[e.src].phase = "owned"
  <1>1. PICK m \in Migrations : m = hand[h].m
    BY CloseFacts, Zenon
  <1>2. PICK e \in Entry : e = journal[m]
    BY JournalParts, Zenon
  <1>3. e.phase = hand[h].c.phase /\ route.at = e.src /\ reg[e.src].phase = "owned"
    BY <1>1, <1>2, CloseFacts, Zenon
  <1>4. journal' = [journal EXCEPT ![m] = [e EXCEPT !.phase = "complete"]]
    BY <1>1, <1>2, <1>3, Zenon DEF Close
  <1>5. journal'[m] = [e EXCEPT !.phase = "complete"]
    BY <1>4, JournalParts, Zenon
  <1>6. journal'[m].phase = "complete" /\ journal'[m].src = e.src
    BY <1>5, SMT DEF Entry
  <1>7. QED
    BY <1>1, <1>3, <1>6, Zenon

\* ... and a rollback that reports success has ended the journal, with the
\* route at the source and the source serving the sandbox again.
THEOREM RollbackSafe ==
  ASSUME Disciplined
  PROVE  Spec => RollbackHolds
  <1> DEFINE Holds == \A h \in Handlers :
                        Close(h) =>
                        LET e == journal'[hand[h].m] IN
                        /\ e.phase = "complete"
                        /\ Exists => route.at = e.src /\ reg[e.src].phase = "owned"
  <1>1. Typed /\ IInv => Holds
    BY CloseHolds, Zenon
  <1>2. [](Typed /\ IInv) => [][Holds]_vars
    <2>1. Typed /\ IInv => [Holds]_vars
      BY <1>1
    <2> HIDE DEF Holds
    <2>2. QED
      BY <2>1, PTL
  <1>3. RollbackHolds <=> [][Holds]_vars
    BY DEF RollbackHolds
  <1>4. QED
    BY <1>2, <1>3, Inductive, PTL
===============================================================================
