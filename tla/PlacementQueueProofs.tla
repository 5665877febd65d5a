------------------------ MODULE PlacementQueueProofs ------------------------
(* The safety of PlacementQueue for any keys, executions, deleters and       *)
(* bounds.                                                                    *)
(*                                                                           *)
(* The properties are about the route and the commands; what makes them      *)
(* hold is that a command which was answered stays answered, that bound      *)
(* generations only come from the counter, and that an execution acts on a   *)
(* row only under the row's own fence.  IInv says this.                      *)
EXTENDS PlacementQueue, TLAPS

-----------------------------------------------------------------------------
(* The invariant                                                             *)

\* Command ids are given in order; a bound generation came from the counter.
Rows ==
  \A c \in Commands :
    /\ cmd[c].st = "absent" <=> c > issued
    /\ cmd[c].st = "absent" => cmd[c].gen = 0
    /\ cmd[c].gen <= hwm

\* The route came from the counter, and from a command.
Routed ==
  /\ route.gen <= hwm
  /\ Exists => route.gen # 0 /\ route.by \in Commands /\ cmd[route.by].st # "absent"

\* A slot in use executes a command that was submitted.
Executing ==
  \A t \in Slots :
    \/ exec[t].pc = "free" /\ exec[t].held = FALSE
    \/ exec[t].pc # "free" /\ exec[t].c \in Commands /\ cmd[exec[t].c].st # "absent"

\* What a DELETE cancelled has ended, before and after its acknowledgement,
\* and what it finds beside the incarnation it deletes is of a later command.
Cut ==
  /\ \A c \in erased : Ended(c)
  /\ \A d \in Deleters : \A c \in del[d].cut : Ended(c)
  /\ \A d \in Deleters :
       del[d].pc = "proxy" /\ Exists /\ route.gen # del[d].gen => route.by \notin del[d].cut

\* A command that lost its incarnation stays bound to it, and it is not back.
Left ==
  \A c \in gone :
    /\ cmd[c].st # "absent"
    /\ Outstanding(c) => cmd[c].gen # 0 /\ ~(Exists /\ route.gen = cmd[c].gen)

\* What the commands and the route say of each other.
Bonds == Rows /\ Routed /\ Left /\ BoundToItsRoute

\* The inductive invariant.
IInv == TypeOK /\ Bonds /\ Executing /\ Cut /\ DeletedStaysDeleted /\ NoOrphanDemand

-----------------------------------------------------------------------------
(* What a step may do to the rows                                            *)

\* An answer is final; only pruning forgets it.
Final ==
  \A c \in Commands :
    Ended(c) => cmd'[c].st = "pruned" \/ (cmd'[c].st = "done" /\ cmd'[c].res = cmd[c].res)

\* No command appears, and none that can still be replayed changes its bond.
Quiet ==
  /\ cmd' \in [Commands -> Command]
  /\ Final
  /\ \A c \in Commands :
       /\ cmd'[c].st = "absent" <=> cmd[c].st = "absent"
       /\ cmd'[c].gen = cmd[c].gen \/ (cmd'[c].gen = 0 /\ Ended(c))

\* Row c is bound to g; nothing else changes.
Bound(c, g) ==
  /\ cmd' \in [Commands -> Command]
  /\ \A b \in Commands : cmd'[b].st = cmd[b].st /\ cmd'[b].res = cmd[b].res
  /\ \A b \in Commands \ {c} : cmd'[b].gen = cmd[b].gen
  /\ cmd'[c].gen = g

\* The same incarnation is there, or none is, as before.
SameRoute == route'.gen = route.gen /\ route'.by = route.by /\ Exists' = Exists

\* The state of a row is one of five, so what is outstanding has not ended.
LEMMA OneState ==
  ASSUME TypeOK, NEW c \in Commands
  PROVE  /\ Outstanding(c) \/ Ended(c) \/ cmd[c].st = "absent"
         /\ ~(Outstanding(c) /\ Ended(c)) /\ (Ended(c) => cmd[c].st # "absent")
         /\ (Outstanding(c) => cmd[c].st # "absent")
  BY SMT DEF TypeOK, Command, Outstanding, Ended

\* In a quiet step nothing becomes outstanding and nothing ended comes back.
LEMMA QuietStates ==
  ASSUME TypeOK, Quiet, NEW c \in Commands
  PROVE  /\ Outstanding(c)' => Outstanding(c) /\ cmd'[c].gen = cmd[c].gen
         /\ Ended(c) => Ended(c)'
  <1>1. Ended(c) => Ended(c)'
    BY Zenon DEF Quiet, Final, Ended
  <1>2. Outstanding(c)' => cmd'[c].st # "absent" /\ ~Ended(c)'
    BY Zenon DEF Outstanding, Ended
  <1>3. Outstanding(c)' => Outstanding(c) /\ ~Ended(c)
    BY <1>1, <1>2, OneState, Zenon DEF Quiet
  <1>4. QED
    BY <1>1, <1>3, Zenon DEF Quiet


\* A quiet step on the same route keeps the bonds.
LEMMA QuietBonds ==
  ASSUME TypeOK, Bonds, Quiet, SameRoute, UNCHANGED <<issued, hwm, gone>>
  PROVE  Bonds'
  <1>1. Rows'
    <2> SUFFICES ASSUME NEW c \in Commands
                 PROVE  /\ cmd'[c].st = "absent" <=> c > issued
                        /\ cmd'[c].st = "absent" => cmd'[c].gen = 0
                        /\ cmd'[c].gen <= hwm
      BY DEF Rows
    <2>1. cmd'[c].gen = cmd[c].gen \/ cmd'[c].gen = 0
      BY Zenon DEF Quiet
    <2>2. cmd'[c].st = "absent" <=> cmd[c].st = "absent"
      BY Zenon DEF Quiet
    <2>3. hwm \in Nat
      BY QueueAssumption DEF TypeOK
    <2>4. QED
      BY <2>1, <2>2, <2>3 DEF Bonds, Rows
  <1>2. Routed'
    BY Zenon DEF Bonds, Routed, SameRoute, Quiet
  <1>3. Left'
    <2>1. gone \subseteq Commands
      BY Zenon DEF TypeOK
    <2>2. QED
      BY <2>1, QuietStates, Zenon DEF Bonds, Left, SameRoute, Quiet
  <1>4. BoundToItsRoute'
    BY QuietStates, Zenon DEF Bonds, Routed, BoundToItsRoute, SameRoute
  <1>5. QED
    BY <1>1, <1>2, <1>3, <1>4, Zenon DEF Bonds

\* A row that its fence lets through has not lost its incarnation.
LEMMA AuthorizedStays ==
  ASSUME TypeOK, Bonds, NEW t \in Slots, exec[t].c \in Commands, Authorized(t)
  PROVE  exec[t].c \notin gone /\ Outstanding(exec[t].c)
  BY Zenon DEF Bonds, Left, Authorized, Claims, Outstanding

\* Binding a row leaves every state, and so every answer, as it is.
LEMMA BoundStates ==
  ASSUME NEW c, NEW g, Bound(c, g)
  PROVE  /\ \A b \in Commands : /\ Outstanding(b)' = Outstanding(b) /\ Ended(b)' = Ended(b)
                                /\ cmd'[b].st = cmd[b].st
         /\ Final
  BY Zenon DEF Bound, Outstanding, Ended, Final

\* Binding a row to the route that is there keeps the bonds.
LEMMA BindBonds ==
  ASSUME TypeOK, Bonds, NEW c \in Commands, c \notin gone, Outstanding(c),
         Exists, Bound(c, route.gen), UNCHANGED <<route, issued, hwm, gone>>
  PROVE  Bonds'
  <1>1. \A b \in Commands : Outstanding(b)' = Outstanding(b) /\ cmd'[b].st = cmd[b].st
    BY BoundStates, Zenon
  <1>2. cmd[c].st # "absent"
    BY OneState, Zenon
  <1>3. Rows'
    <2> SUFFICES ASSUME NEW b \in Commands
                 PROVE  /\ cmd'[b].st = "absent" <=> b > issued
                        /\ cmd'[b].st = "absent" => cmd'[b].gen = 0
                        /\ cmd'[b].gen <= hwm
      BY DEF Rows
    <2>1. CASE b = c
      BY <2>1, <1>1, <1>2 DEF Bonds, Rows, Routed, Bound
    <2>2. CASE b # c
      BY <2>2, <1>1 DEF Bonds, Rows, Bound
    <2>3. QED
      BY <2>1, <2>2
  <1>4. Routed'
    BY <1>1, Zenon DEF Bonds, Routed, Exists
  <1>5. Left'
    <2>1. gone \subseteq Commands
      BY Zenon DEF TypeOK
    <2>2. QED
      BY <1>1, <2>1, Zenon DEF Bonds, Left, Bound, Exists
  <1>6. BoundToItsRoute'
    BY <1>1, Zenon DEF Bonds, Routed, BoundToItsRoute, Bound, Exists
  <1>7. QED
    BY <1>3, <1>4, <1>5, <1>6, Zenon DEF Bonds

\* A fresh incarnation of a command that is not gone keeps the bonds.
LEMMA PlaceBonds ==
  ASSUME TypeOK, Bonds, NEW c \in Commands, c \notin gone, Outstanding(c),
         hwm' = hwm + 1, route'.gen = hwm + 1, route'.by = c, Bound(c, hwm + 1),
         UNCHANGED <<issued, gone>>
  PROVE  Bonds'
  <1>1. \A b \in Commands : Outstanding(b)' = Outstanding(b) /\ cmd'[b].st = cmd[b].st
    BY BoundStates, Zenon
  <1>2. cmd[c].st # "absent"
    BY OneState, Zenon
  <1>3. hwm \in Nat /\ \A b \in Commands : cmd[b].gen \in Nat
    BY QueueAssumption DEF TypeOK, Command
  <1>4. Rows'
    <2> SUFFICES ASSUME NEW b \in Commands
                 PROVE  /\ cmd'[b].st = "absent" <=> b > issued
                        /\ cmd'[b].st = "absent" => cmd'[b].gen = 0
                        /\ cmd'[b].gen <= hwm + 1
      BY DEF Rows
    <2>1. CASE b = c
      BY <2>1, <1>1, <1>2, <1>3 DEF Bonds, Rows, Bound
    <2>2. CASE b # c
      BY <2>2, <1>1, <1>3 DEF Bonds, Rows, Bound
    <2>3. QED
      BY <2>1, <2>2
  <1>5. Routed'
    BY <1>1, <1>2, <1>3 DEF Routed
  <1>6. Left'
    <2>1. gone \subseteq Commands
      BY Zenon DEF TypeOK
    <2>2. \A b \in Commands : cmd[b].gen # hwm + 1
      BY <1>3 DEF Bonds, Rows
    <2>3. QED
      BY <1>1, <2>1, <2>2, Zenon DEF Bonds, Left, Bound
  <1>7. BoundToItsRoute'
    BY Zenon DEF BoundToItsRoute, Bound
  <1>8. QED
    BY <1>4, <1>5, <1>6, <1>7, Zenon DEF Bonds

\* The route goes.  Commands bound to it are gone, unless they are unbound.
LEMMA RemoveBonds ==
  ASSUME TypeOK, Bonds, route' = NoRoute, UNCHANGED <<issued, hwm>>,
         \A b \in Commands : /\ cmd'[b].st = cmd[b].st
                             /\ cmd'[b].gen = cmd[b].gen \/ (cmd'[b].gen = 0 /\ b \notin gone'),
         \A b \in gone' : b \in gone \/ (b \in Commands /\ Exists /\ cmd[b].gen = route.gen)
  PROVE  Bonds'
  <1>1. route'.gen = 0 /\ ~Exists'
    BY Zenon DEF NoRoute, Exists
  <1>2. hwm \in Nat
    BY QueueAssumption DEF TypeOK
  <1>3. Rows'
    BY <1>2 DEF Bonds, Rows
  <1>4. Routed'
    BY <1>1, <1>2 DEF Routed
  <1>5. Left'
    <2> SUFFICES ASSUME NEW b \in gone'
                 PROVE  /\ cmd'[b].st # "absent"
                        /\ Outstanding(b)' => cmd'[b].gen # 0
      BY <1>1, Zenon DEF Left
    <2>1. b \in Commands
      BY Zenon DEF TypeOK
    <2>2. cmd'[b].st = cmd[b].st /\ cmd'[b].gen = cmd[b].gen
      BY <2>1, Zenon
    <2>3. CASE b \in gone
      BY <2>2, <2>3, Zenon DEF Bonds, Left, Outstanding
    <2>4. CASE Exists /\ cmd[b].gen = route.gen
      BY <2>1, <2>2, <2>4, Zenon DEF Bonds, Rows, Routed
    <2>5. QED
      BY <2>3, <2>4, Zenon
  <1>6. BoundToItsRoute'
    BY <1>1, Zenon DEF BoundToItsRoute
  <1>7. QED
    BY <1>3, <1>4, <1>5, <1>6, Zenon DEF Bonds

\* What a DELETE cancelled stays out in every step that is not a DELETE's.
LEMMA CutKept ==
  ASSUME TypeOK, Cut, DeletedStaysDeleted, UNCHANGED <<del, erased>>,
         \A c \in Commands : Ended(c) => Ended(c)',
         SameRoute \/ ~Exists' \/ (route'.by \in Commands /\ ~Ended(route'.by))
  PROVE  Cut' /\ DeletedStaysDeleted'
  <1>1. erased \subseteq Commands /\ \A d \in Deleters : del[d].cut \subseteq Commands
    BY DEF TypeOK, Deletion
  <1>2. QED
    <2>1. Cut'
      <3>1. /\ \A c \in erased' : Ended(c)'
            /\ \A d \in Deleters : \A c \in del'[d].cut : Ended(c)'
        BY <1>1, Zenon DEF Cut
      <3>2. ASSUME NEW d \in Deleters, del[d].pc = "proxy", Exists', route'.gen # del[d].gen
            PROVE  route'.by \notin del[d].cut
        <4>1. CASE SameRoute
          BY <3>2, <4>1, Zenon DEF Cut, SameRoute
        <4>2. CASE route'.by \in Commands /\ ~Ended(route'.by)
          BY <3>2, <4>2, Zenon DEF Cut
        <4>3. QED
          BY <3>2, <4>1, <4>2, Zenon
      <3>3. QED
        BY <3>1, <3>2, Zenon DEF Cut
    <2>2. DeletedStaysDeleted'
      BY <1>1, Zenon DEF Cut, DeletedStaysDeleted, SameRoute
    <2>3. QED
      BY <2>1, <2>2

-----------------------------------------------------------------------------
(* The updates of a row                                                      *)

\* No command stops being outstanding.
Alive == \A c \in Commands : Outstanding(c) => Outstanding(c)'

\* Each field of a row takes the values of its type.
LEMMA FieldTyped ==
  ASSUME NEW q \in Command
  PROVE  /\ \A s \in {"queued", "running", "done", "pruned"} : [q EXCEPT !.st = s] \in Command
         /\ \A k \in Slots \cup {NoSlot} : [q EXCEPT !.tok = k] \in Command
         /\ \A v \in BOOLEAN : [q EXCEPT !.live = v] \in Command
         /\ \A a \in Results : [q EXCEPT !.res = a] \in Command
  BY SMT DEF Command

\* The fields of a row that is claimed, given back or answered.
LEMMA ClaimFields ==
  ASSUME NEW q \in Command, NEW s \in {"queued", "running", "done"}, NEW k \in Slots \cup {NoSlot},
         NEW v \in BOOLEAN
  PROVE  /\ [q EXCEPT !.st = s, !.tok = k, !.live = v] \in Command
         /\ [q EXCEPT !.st = s, !.tok = k, !.live = v].st = s
         /\ [q EXCEPT !.st = s, !.tok = k, !.live = v].gen = q.gen
  <1>1. [[[q EXCEPT !.st = s] EXCEPT !.tok = k] EXCEPT !.live = v] \in Command
    <2>1. [q EXCEPT !.st = s] \in Command
      BY FieldTyped, Zenon
    <2>2. [[q EXCEPT !.st = s] EXCEPT !.tok = k] \in Command
      BY <2>1, FieldTyped, Zenon
    <2>3. QED
      BY <2>2, FieldTyped, Zenon
  <1>2. [[[q EXCEPT !.st = s] EXCEPT !.tok = k] EXCEPT !.live = v]
          = [q EXCEPT !.st = s, !.tok = k, !.live = v]
    OBVIOUS
  <1>3. /\ [q EXCEPT !.st = s, !.tok = k, !.live = v].st = s
        /\ [q EXCEPT !.st = s, !.tok = k, !.live = v].gen = q.gen
    BY SMT DEF Command
  <1>4. QED
    BY <1>1, <1>2, <1>3, Zenon

\* With an answer, besides.
LEMMA AnswerFields ==
  ASSUME NEW q \in Command, NEW a \in Results
  PROVE  /\ [q EXCEPT !.st = "done", !.tok = NoSlot, !.live = FALSE, !.res = a] \in Command
         /\ [q EXCEPT !.st = "done", !.tok = NoSlot, !.live = FALSE, !.res = a].st = "done"
         /\ [q EXCEPT !.st = "done", !.tok = NoSlot, !.live = FALSE, !.res = a].gen = q.gen
  <1> DEFINE p == [q EXCEPT !.st = "done", !.tok = NoSlot, !.live = FALSE]
  <1>1. p \in Command
    BY ClaimFields, Zenon
  <1>2. [p EXCEPT !.res = a] \in Command
    BY <1>1, FieldTyped, Zenon
  <1>3. [p EXCEPT !.res = a] = [q EXCEPT !.st = "done", !.tok = NoSlot, !.live = FALSE, !.res = a]
    OBVIOUS
  <1>4. /\ [q EXCEPT !.st = "done", !.tok = NoSlot, !.live = FALSE, !.res = a].st = "done"
        /\ [q EXCEPT !.st = "done", !.tok = NoSlot, !.live = FALSE, !.res = a].gen = q.gen
    BY SMT DEF Command
  <1>5. QED
    BY <1>2, <1>3, <1>4, Zenon

\* An unused row, and a pruned one.
LEMMA AbsentFields ==
  /\ Absent \in Command
  /\ [Absent EXCEPT !.st = "pruned"] \in Command
  /\ [Absent EXCEPT !.st = "pruned"].st = "pruned"
  /\ [Absent EXCEPT !.st = "pruned"].gen = 0
  <1>1. Absent \in Command
    BY QueueAssumption, SMT DEF Absent, Command, Results
  <1>2. [Absent EXCEPT !.st = "pruned"] \in Command
    BY <1>1, FieldTyped, Zenon
  <1>3. [Absent EXCEPT !.st = "pruned"].st = "pruned" /\ [Absent EXCEPT !.st = "pruned"].gen = 0
    BY SMT DEF Absent
  <1>4. QED
    BY <1>1, <1>2, <1>3

\* A clock leaves the rest of the row.
LEMMA ClockFields ==
  ASSUME NEW q \in Command, NEW v \in BOOLEAN
  PROVE  /\ [q EXCEPT !.live = v] \in Command /\ [q EXCEPT !.live = v].st = q.st
         /\ [q EXCEPT !.live = v].gen = q.gen /\ [q EXCEPT !.live = v].res = q.res
         /\ [q EXCEPT !.late = v] \in Command /\ [q EXCEPT !.late = v].st = q.st
         /\ [q EXCEPT !.late = v].gen = q.gen /\ [q EXCEPT !.late = v].res = q.res
  BY SMT DEF Command

\* So does a binding.
LEMMA BindFields ==
  ASSUME NEW q \in Command, NEW g \in 0..MaxGeneration
  PROVE  /\ [q EXCEPT !.gen = g] \in Command /\ [q EXCEPT !.gen = g].st = q.st
         /\ [q EXCEPT !.gen = g].gen = g /\ [q EXCEPT !.gen = g].res = q.res
  BY SMT DEF Command

\* The rows are commands.
LEMMA RowTyped ==
  ASSUME TypeOK
  PROVE  cmd \in [Commands -> Command] /\ \A c \in Commands : cmd[c] \in Command
  BY Zenon DEF TypeOK

\* A step that leaves the commands alone is quiet.
LEMMA SameRows ==
  ASSUME TypeOK, UNCHANGED cmd
  PROVE  Quiet /\ Alive
  <1>1. cmd' \in [Commands -> Command]
    BY Zenon DEF TypeOK
  <1>2. Final
    BY Zenon DEF Final, Ended
  <1>3. Alive
    BY Zenon DEF Alive, Outstanding
  <1>4. QED
    BY <1>1, <1>2, <1>3 DEF Quiet

\* One row changes: what it takes for the step to be quiet.
LEMMA OneRow ==
  ASSUME TypeOK, NEW c \in Commands, NEW r \in Command, cmd' = [cmd EXCEPT ![c] = r],
         r.st = cmd[c].st \/ (cmd[c].st # "absent" /\ r.st # "absent"),
         r.gen = cmd[c].gen \/ (r.gen = 0 /\ Ended(c)),
         Ended(c) => r.st = "pruned" \/ (r.st = "done" /\ r.res = cmd[c].res)
  PROVE  /\ Quiet /\ cmd'[c] = r
         /\ \A b \in Commands \ {c} : cmd'[b] = cmd[b]
  <1>1. cmd' \in [Commands -> Command] /\ cmd'[c] = r /\ \A b \in Commands \ {c} : cmd'[b] = cmd[b]
    BY DEF TypeOK
  <1>2. Final
    <2> SUFFICES ASSUME NEW b \in Commands, Ended(b)
                 PROVE  cmd'[b].st = "pruned" \/ (cmd'[b].st = "done" /\ cmd'[b].res = cmd[b].res)
      BY Zenon DEF Final
    <2>1. CASE b = c
      BY <1>1, <2>1, Zenon
    <2>2. CASE b # c
      BY <1>1, <2>2, Zenon DEF Ended
    <2>3. QED
      BY <2>1, <2>2, Zenon
  <1>3. \A b \in Commands : /\ cmd'[b].st = "absent" <=> cmd[b].st = "absent"
                            /\ cmd'[b].gen = cmd[b].gen \/ (cmd'[b].gen = 0 /\ Ended(b))
    BY <1>1
  <1>4. QED
    BY <1>1, <1>2, <1>3, Zenon DEF Quiet

\* claim writes the token and the lease of an outstanding command.
LEMMA BeginRow ==
  ASSUME TypeOK, NEW c \in Commands, NEW t \in Slots, Outstanding(c), Begin(t, c)
  PROVE  Quiet /\ Alive
  <1> DEFINE r == [cmd[c] EXCEPT !.st = "running", !.tok = t, !.live = TRUE]
  <1>1. /\ r \in Command /\ r.st = "running" /\ r.gen = cmd[c].gen
    <2>1. /\ cmd[c] \in Command /\ "running" \in {"queued", "running", "done"}
          /\ t \in Slots \cup {NoSlot} /\ TRUE \in BOOLEAN
      BY RowTyped, Zenon
    <2>2. r \in Command
      BY <2>1, ClaimFields, Zenon
    <2>3. r.st = "running" /\ r.gen = cmd[c].gen
      BY <2>1, SMT DEF Command
    <2>4. QED
      BY <2>2, <2>3, Zenon
  <1>2. cmd' = [cmd EXCEPT ![c] = r]
    BY RowTyped, Zenon DEF Begin
  <1>3. ~Ended(c) /\ cmd[c].st # "absent"
    BY OneState, Zenon
  <1> HIDE DEF r
  <1>4. Quiet /\ cmd'[c] = r /\ \A b \in Commands \ {c} : cmd'[b] = cmd[b]
    BY <1>1, <1>2, <1>3, OneRow, Zenon
  <1>5. QED
    BY <1>1, <1>4, Zenon DEF Alive, Outstanding

\* An answer ends an outstanding command and leaves the others alone.
LEMMA AnsweredRow ==
  ASSUME TypeOK, NEW c \in Commands, NEW a \in Results, Outstanding(c), cmd' = Answered(c, a)
  PROVE  Quiet /\ \A b \in Commands \ {c} : cmd'[b] = cmd[b]
  <1> DEFINE r == [cmd[c] EXCEPT !.st = "done", !.tok = NoSlot, !.live = FALSE, !.res = a]
  <1>1. /\ r \in Command /\ r.st = "done" /\ r.gen = cmd[c].gen
    BY RowTyped, AnswerFields, Zenon
  <1>2. cmd' = [cmd EXCEPT ![c] = r]
    BY RowTyped, Zenon DEF Answered
  <1>3. ~Ended(c) /\ cmd[c].st # "absent"
    BY OneState, Zenon
  <1> HIDE DEF r
  <1>4. QED
    BY <1>1, <1>2, <1>3, OneRow, Zenon

\* defer gives the command back.
LEMMA DeferredRow ==
  ASSUME TypeOK, NEW t \in Slots, exec[t].c \in Commands, cmd' = Deferred(t)
  PROVE  Quiet /\ Alive
  <1> DEFINE c == exec[t].c
             r == [cmd[c] EXCEPT !.st = "queued", !.tok = NoSlot, !.live = FALSE]
  <1>1. CASE ~Claims(t)
    BY <1>1, SameRows, Zenon DEF Deferred
  <1>2. CASE Claims(t)
    <2>1. /\ r \in Command /\ r.st = "queued" /\ r.gen = cmd[c].gen
      <3>1. /\ cmd[c] \in Command /\ "queued" \in {"queued", "running", "done"}
            /\ NoSlot \in Slots \cup {NoSlot} /\ FALSE \in BOOLEAN
        BY RowTyped, Zenon
      <3>2. r \in Command
        BY <3>1, ClaimFields, Zenon
      <3>3. r.st = "queued" /\ r.gen = cmd[c].gen
        BY <3>1, SMT DEF Command
      <3>4. QED
        BY <3>2, <3>3, Zenon
    <2>2. cmd' = [cmd EXCEPT ![c] = r]
      BY <1>2, RowTyped, Zenon DEF Deferred
    <2>3. ~Ended(c) /\ cmd[c].st # "absent"
      BY <1>2, Zenon DEF Claims, Ended
    <2> HIDE DEF r
    <2>4. Quiet /\ cmd'[c] = r /\ \A b \in Commands \ {c} : cmd'[b] = cmd[b]
      BY <2>1, <2>2, <2>3, OneRow, Zenon
    <2>5. QED
      BY <2>1, <2>4, Zenon DEF Alive, Outstanding
  <1>3. QED
    BY <1>1, <1>2, Zenon

\* A lease is renewed or runs out, or a deadline passes.
LEMMA ClockRow ==
  ASSUME TypeOK, NEW c \in Commands, NEW v \in BOOLEAN,
         \/ cmd' = [cmd EXCEPT ![c].live = v]
         \/ cmd' = [cmd EXCEPT ![c].late = v]
  PROVE  Quiet /\ Alive
  <1>1. PICK r \in Command : /\ r.st = cmd[c].st /\ r.gen = cmd[c].gen /\ r.res = cmd[c].res
                             /\ cmd' = [cmd EXCEPT ![c] = r]
    <2>1. CASE cmd' = [cmd EXCEPT ![c].live = v]
      <3>1. cmd' = [cmd EXCEPT ![c] = [cmd[c] EXCEPT !.live = v]]
        BY <2>1, RowTyped
      <3>2. QED
        BY <3>1, RowTyped, ClockFields, Zenon
    <2>2. CASE cmd' = [cmd EXCEPT ![c].late = v]
      <3>1. cmd' = [cmd EXCEPT ![c] = [cmd[c] EXCEPT !.late = v]]
        BY <2>2, RowTyped
      <3>2. QED
        BY <3>1, RowTyped, ClockFields, Zenon
    <2>3. QED
      BY <2>1, <2>2, Zenon
  <1>2. Quiet /\ cmd'[c] = r /\ \A b \in Commands \ {c} : cmd'[b] = cmd[b]
    <2>1. Ended(c) => r.st = "pruned" \/ (r.st = "done" /\ r.res = cmd[c].res)
      BY <1>1, Zenon DEF Ended
    <2>2. QED
      BY <1>1, <2>1, OneRow, Zenon
  <1>3. QED
    BY <1>1, <1>2, Zenon DEF Alive, Outstanding

\* prune forgets an answered command.
LEMMA PruneRow ==
  ASSUME TypeOK, NEW c \in Commands, Prune(c)
  PROVE  Quiet /\ Alive
  <1> DEFINE r == [Absent EXCEPT !.st = "pruned"]
  <1>1. r \in Command /\ r.st = "pruned" /\ r.gen = 0
    BY AbsentFields, Zenon
  <1>2. Ended(c) /\ cmd[c].st # "absent" /\ cmd' = [cmd EXCEPT ![c] = r] /\ ~Outstanding(c)
    BY Zenon DEF Prune, Ended, Outstanding
  <1> HIDE DEF r
  <1>3. Quiet /\ \A b \in Commands \ {c} : cmd'[b] = cmd[b]
    BY <1>1, <1>2, OneRow, Zenon
  <1>4. QED
    BY <1>2, <1>3, Zenon DEF Alive, Outstanding

\* Binding writes the generation only.
LEMMA BindRow ==
  ASSUME TypeOK, NEW c \in Commands, NEW g \in 0..MaxGeneration, cmd' = [cmd EXCEPT ![c].gen = g]
  PROVE  Bound(c, g)
  <1>1. /\ [cmd[c] EXCEPT !.gen = g] \in Command /\ [cmd[c] EXCEPT !.gen = g].st = cmd[c].st
        /\ [cmd[c] EXCEPT !.gen = g].gen = g /\ [cmd[c] EXCEPT !.gen = g].res = cmd[c].res
    BY RowTyped, BindFields, Zenon
  <1>2. /\ cmd' \in [Commands -> Command]
        /\ \A b \in Commands \ {c} : cmd'[b] = cmd[b]
        /\ cmd'[c].gen = g /\ cmd'[c].st = cmd[c].st /\ cmd'[c].res = cmd[c].res
    BY <1>1, RowTyped
  <1>3. QED
    BY <1>2, Zenon DEF Bound

\* cancel_create_commands ends what is outstanding.
LEMMA CancelRows ==
  ASSUME TypeOK, cmd' = [c \in Commands |-> IF Outstanding(c) THEN Cancelled(c) ELSE cmd[c]]
  PROVE  Quiet /\ \A c \in Commands : cmd[c].st # "absent" => Ended(c)'
  <1>1. ASSUME NEW c \in Commands
        PROVE  /\ Cancelled(c) \in Command /\ Cancelled(c).st = "done" /\ Cancelled(c).gen = cmd[c].gen
    BY RowTyped, AnswerFields, Zenon DEF Cancelled, Results
  <1>2. \A c \in Commands : cmd[c] \in Command
    BY Zenon DEF TypeOK
  <1>3. cmd' \in [Commands -> Command]
    BY <1>1, <1>2, Zenon
  <1>4. ASSUME NEW c \in Commands
        PROVE  cmd'[c] = IF Outstanding(c) THEN Cancelled(c) ELSE cmd[c]
    BY Zenon
  <1>5. ASSUME NEW c \in Commands, Outstanding(c)
        PROVE  cmd'[c].st = "done" /\ cmd'[c].gen = cmd[c].gen /\ ~Ended(c) /\ cmd[c].st # "absent"
    BY <1>1, <1>4, <1>5, OneState, Zenon
  <1>6. ASSUME NEW c \in Commands, ~Outstanding(c)
        PROVE  cmd'[c] = cmd[c]
    BY <1>4, <1>6, Zenon
  <1>7. Final
    BY <1>5, <1>6, Zenon DEF Final, Ended
  <1>8. Quiet
    BY <1>3, <1>5, <1>6, <1>7 DEF Quiet
  <1>9. ASSUME NEW c \in Commands, cmd[c].st # "absent"
        PROVE  Ended(c)'
    BY <1>5, <1>6, <1>9, OneState, Zenon DEF Ended
  <1>10. QED
    BY <1>8, <1>9, Zenon

-----------------------------------------------------------------------------
(* The updates of an execution                                               *)

Steps == {"check", "read", "place", "observe", "dispatch", "replay", "demand", "redemand", "answer"}

\* An execution is left alone, ends, or goes on with the command it has.
Carried ==
  /\ exec' \in [Slots -> Execution]
  /\ \A u \in Slots :
       \/ exec'[u] = exec[u]
       \/ exec'[u].pc = "free" /\ exec'[u].held = FALSE
       \/ exec[u].pc # "free" /\ exec'[u].pc # "free" /\ exec'[u].c = exec[u].c

\* A free slot.
LEMMA FreeFields == Free \in Execution /\ Free.pc = "free" /\ Free.held = FALSE
  <1>1. Free \in Execution
    BY QueueAssumption, SMT DEF Free, Execution, Results
  <1>2. Free.pc = "free" /\ Free.held = FALSE
    BY Zenon DEF Free
  <1>3. QED
    BY <1>1, <1>2, Zenon

\* Each field of an execution takes the values of its type.
LEMMA SlotTyped ==
  ASSUME NEW q \in Execution
  PROVE  /\ \A p \in Steps : [q EXCEPT !.pc = p] \in Execution
         /\ \A g \in 0..MaxGeneration : [q EXCEPT !.gen = g] \in Execution
         /\ \A a \in Results : [q EXCEPT !.ans = a] \in Execution
         /\ \A v \in BOOLEAN : [q EXCEPT !.held = v] \in Execution
         /\ \A c \in 0..MaxCommands : [q EXCEPT !.c = c] \in Execution
  BY SMT DEF Execution, Steps

\* One slot changes.
LEMMA OneSlot ==
  ASSUME TypeOK, NEW t \in Slots, NEW r \in Execution, exec' = [exec EXCEPT ![t] = r],
         \/ r.pc = "free" /\ r.held = FALSE
         \/ exec[t].pc # "free" /\ r.pc # "free" /\ r.c = exec[t].c
  PROVE  Carried
  <1>1. /\ exec' \in [Slots -> Execution] /\ exec'[t] = r
        /\ \A u \in Slots \ {t} : exec'[u] = exec[u]
    BY Zenon DEF TypeOK
  <1>2. QED
    BY <1>1, Zenon DEF Carried

\* The executions are typed.
LEMMA Slotted ==
  ASSUME TypeOK
  PROVE  exec \in [Slots -> Execution] /\ \A t \in Slots : exec[t] \in Execution
  BY Zenon DEF TypeOK

\* A handler goes on to its next step.
LEMMA GotoCarried ==
  ASSUME TypeOK, NEW t \in Slots, exec[t].pc # "free", NEW p \in Steps, Goto(t, p)
  PROVE  Carried
  <1> DEFINE r == [exec[t] EXCEPT !.pc = p]
  <1>1. r \in Execution
    BY Slotted, SlotTyped, Zenon
  <1>2. r.pc = p /\ r.c = exec[t].c
    BY Slotted, SMT DEF Execution
  <1>3. exec' = [exec EXCEPT ![t] = r]
    BY Slotted, Zenon DEF Goto
  <1>4. p # "free"
    BY DEF Steps
  <1> HIDE DEF r
  <1>5. QED
    BY <1>1, <1>2, <1>3, <1>4, OneSlot, Zenon

\* A handler goes on with an incarnation.
LEMMA WorkCarried ==
  ASSUME TypeOK, NEW t \in Slots, exec[t].pc # "free", NEW p \in Steps,
         NEW g \in 0..MaxGeneration, WorkOn(t, p, g)
  PROVE  Carried
  <1> DEFINE q == [exec[t] EXCEPT !.pc = p]
             r == [q EXCEPT !.gen = g]
  <1>1. r \in Execution
    <2>1. q \in Execution
      BY Slotted, SlotTyped, Zenon
    <2> HIDE DEF q
    <2>2. QED
      BY <2>1, SlotTyped, Zenon
  <1>2. r.pc = p /\ r.c = exec[t].c
    BY Slotted, SMT DEF Execution
  <1>3. exec' = [exec EXCEPT ![t] = r]
    BY Slotted, Zenon DEF WorkOn
  <1>4. p # "free"
    BY DEF Steps
  <1> HIDE DEF r
  <1>5. QED
    BY <1>1, <1>2, <1>3, <1>4, OneSlot, Zenon

\* A handler answers.
LEMMA ReplyCarried ==
  ASSUME TypeOK, NEW t \in Slots, exec[t].pc # "free", NEW a \in Results, Reply(t, a)
  PROVE  Carried
  <1> DEFINE q == [exec[t] EXCEPT !.pc = "answer"]
             p == [q EXCEPT !.ans = a]
             r == [p EXCEPT !.gen = 0]
  <1>1. CASE ~exec[t].held
    <2>1. exec' = [exec EXCEPT ![t] = Free]
      BY <1>1, Slotted, Zenon DEF Reply
    <2>2. QED
      BY <2>1, FreeFields, OneSlot, Zenon
  <1>2. CASE exec[t].held
    <2>1. r \in Execution
      <3>1. q \in Execution
        BY Slotted, SlotTyped, Zenon DEF Steps
      <3> HIDE DEF q
      <3>2. p \in Execution
        BY <3>1, SlotTyped, Zenon
      <3> HIDE DEF p
      <3>3. 0 \in 0..MaxGeneration
        BY QueueAssumption
      <3>4. QED
        BY <3>2, <3>3, SlotTyped, Zenon
    <2>2. r.pc = "answer" /\ r.c = exec[t].c
      BY Slotted, SMT DEF Execution
    <2>3. exec' = [exec EXCEPT ![t] = r]
      BY <1>2, Slotted, Zenon DEF Reply
    <2> HIDE DEF r
    <2>4. QED
      BY <2>1, <2>2, <2>3, OneSlot, Zenon
  <1>3. QED
    BY <1>1, <1>2, Zenon

\* An execution ends.
LEMMA FreeCarried ==
  ASSUME TypeOK, NEW t \in Slots, exec' = [exec EXCEPT ![t] = Free]
  PROVE  Carried
  BY FreeFields, OneSlot, Zenon

\* The worker task leaves its handler.
LEMMA OrphanCarried ==
  ASSUME TypeOK, NEW t \in Slots, exec[t].pc # "free", Orphan(t)
  PROVE  Carried
  <1> DEFINE r == [exec[t] EXCEPT !.held = FALSE]
  <1>1. CASE exec[t].pc = "answer"
    <2>1. exec' = [exec EXCEPT ![t] = Free]
      BY <1>1, Slotted, Zenon DEF Orphan
    <2>2. QED
      BY <2>1, FreeCarried, Zenon
  <1>2. CASE exec[t].pc # "answer"
    <2>1. r \in Execution
      BY Slotted, SlotTyped, Zenon
    <2>2. r.pc = exec[t].pc /\ r.c = exec[t].c
      BY Slotted, SMT DEF Execution
    <2>3. exec' = [exec EXCEPT ![t] = r]
      BY <1>2, Slotted, Zenon DEF Orphan
    <2> HIDE DEF r
    <2>4. QED
      BY <2>1, <2>2, <2>3, OneSlot, Zenon
  <1>3. QED
    BY <1>1, <1>2, Zenon

\* Nothing moves.
LEMMA SameSlots ==
  ASSUME TypeOK, UNCHANGED exec
  PROVE  Carried
  BY Zenon DEF TypeOK, Carried

\* What is carried executes a submitted command, as long as none is unsubmitted.
LEMMA CarriedExecutes ==
  ASSUME TypeOK, Executing, Carried,
         \A c \in Commands : cmd[c].st # "absent" => cmd'[c].st # "absent"
  PROVE  Executing'
  BY Zenon DEF Executing, Carried

\* Demand stays with an outstanding command, or is of another kind.
LEMMA DemandStays ==
  ASSUME TypeOK, NoOrphanDemand, Alive, pending' \in {pending, None, Other}
  PROVE  NoOrphanDemand' /\ pending' \in 0..(MaxCommands + 1)
  <1>1. None \notin Commands /\ Other \notin Commands /\ {None, Other} \subseteq 0..(MaxCommands + 1)
    BY QueueAssumption DEF None, Other, Commands
  <1>2. pending \in 0..(MaxCommands + 1)
    BY Zenon DEF TypeOK
  <1>3. QED
    BY <1>1, <1>2, Zenon DEF NoOrphanDemand, Alive

-----------------------------------------------------------------------------
(* The kinds of step                                                         *)

\* What every step is shown to do: keep the invariant and the answers, and
\* give an incarnation to no command that lost one.
Preserved == IInv' /\ Final /\ (hwm' > hwm => route'.by \notin gone)

\* The parts of the invariant.
LEMMA Parts ==
  ASSUME IInv
  PROVE  /\ TypeOK /\ Bonds /\ Executing /\ Cut /\ DeletedStaysDeleted /\ NoOrphanDemand
         /\ hwm \in Nat
  <1>1. TypeOK
    BY Zenon DEF IInv
  <1>2. hwm \in Nat
    BY <1>1, QueueAssumption DEF TypeOK
  <1>3. QED
    BY <1>2, Zenon DEF IInv

\* A quiet step on the same route.
LEMMA QuietStep ==
  ASSUME IInv, Quiet, SameRoute, route' \in Route, UNCHANGED <<issued, hwm, gone, del, erased>>,
         faults' \in 0..MaxFaults, exec' \in [Slots -> Execution], Executing',
         NoOrphanDemand', pending' \in 0..(MaxCommands + 1)
  PROVE  Preserved
  <1>1. TypeOK /\ Bonds /\ Cut /\ DeletedStaysDeleted /\ hwm \in Nat
    BY Parts, Zenon
  <1>2. TypeOK'
    BY <1>1, Zenon DEF TypeOK, Quiet
  <1>3. Bonds'
    BY <1>1, QuietBonds, Zenon
  <1>4. Cut' /\ DeletedStaysDeleted'
    BY <1>1, QuietStates, CutKept, Zenon
  <1>5. ~(hwm' > hwm)
    BY <1>1
  <1>6. QED
    BY <1>2, <1>3, <1>4, <1>5, Zenon DEF Preserved, IInv, Quiet

\* A handler's step that leaves the tables alone.
LEMMA IdleStep ==
  ASSUME IInv, Carried, UNCHANGED <<cmd, issued, route, hwm, del, gone, erased>>,
         faults' \in 0..MaxFaults, pending' \in {pending, None, Other}
  PROVE  Preserved
  <1>1. TypeOK /\ Executing /\ NoOrphanDemand
    BY Parts, Zenon
  <1>2. Quiet /\ Alive
    BY <1>1, SameRows, Zenon
  <1>3. NoOrphanDemand' /\ pending' \in 0..(MaxCommands + 1)
    BY <1>1, <1>2, DemandStays, Zenon
  <1>4. Executing' /\ exec' \in [Slots -> Execution]
    BY <1>1, CarriedExecutes, Zenon DEF Carried
  <1>5. SameRoute /\ route' \in Route
    BY <1>1, Zenon DEF SameRoute, Exists, TypeOK
  <1>6. QED
    BY <1>2, <1>3, <1>4, <1>5, QuietStep, Zenon

\* A command is bound, under its fence, to the route that is there.
LEMMA BindStep ==
  ASSUME IInv, NEW t \in Slots, exec[t].pc # "free", Authorized(t), Exists, Bind(t, route.gen),
         Carried, UNCHANGED <<issued, route, hwm, pending, del, faults, gone, erased>>
  PROVE  Preserved
  <1> DEFINE c == exec[t].c
  <1>1. TypeOK /\ Bonds /\ Executing /\ Cut /\ DeletedStaysDeleted /\ NoOrphanDemand /\ hwm \in Nat
    BY Parts, Zenon
  <1>2. c \in Commands /\ route.gen \in 0..MaxGeneration
    BY <1>1 DEF Executing, TypeOK, Route
  <1>3. c \notin gone /\ Outstanding(c)
    BY <1>1, <1>2, AuthorizedStays, Zenon
  <1>4. Bound(c, route.gen)
    BY <1>1, <1>2, BindRow, Zenon DEF Bind
  <1>5. /\ \A b \in Commands : /\ Outstanding(b)' = Outstanding(b) /\ Ended(b)' = Ended(b)
                               /\ cmd'[b].st = cmd[b].st
        /\ Final
    BY <1>4, BoundStates, Zenon
  <1>6. Bonds'
    BY <1>1, <1>2, <1>3, <1>4, BindBonds, Zenon
  <1>7. Cut' /\ DeletedStaysDeleted'
    BY <1>1, <1>5, CutKept, Zenon DEF SameRoute, Exists
  <1>8. Executing'
    BY <1>1, <1>5, CarriedExecutes, Zenon
  <1>9. NoOrphanDemand'
    BY <1>1, <1>5, DemandStays, Zenon DEF Alive
  <1>10. TypeOK'
    BY <1>1, <1>4, Zenon DEF TypeOK, Bound, Carried
  <1>11. ~(hwm' > hwm)
    BY <1>1
  <1>12. QED
    BY <1>5, <1>6, <1>7, <1>8, <1>9, <1>10, <1>11, Zenon DEF Preserved, IInv

\* A command gets, under its fence, a fresh incarnation.
LEMMA PlaceStep ==
  ASSUME IInv, NEW t \in Slots, exec[t].pc # "free", Authorized(t), hwm < MaxGeneration,
         hwm' = hwm + 1, route' = Placed(t, hwm + 1), Bind(t, hwm + 1), Carried,
         pending' \in {pending, None}, UNCHANGED <<issued, del, faults, gone, erased>>
  PROVE  Preserved
  <1> DEFINE c == exec[t].c
  <1>1. TypeOK /\ Bonds /\ Executing /\ Cut /\ DeletedStaysDeleted /\ NoOrphanDemand /\ hwm \in Nat
    BY Parts, Zenon
  <1>2. c \in Commands
    BY <1>1, Zenon DEF Executing
  <1>3. c \notin gone /\ Outstanding(c)
    BY <1>1, <1>2, AuthorizedStays, Zenon
  <1>4. hwm + 1 \in 0..MaxGeneration
    BY <1>1, QueueAssumption
  <1>5. Bound(c, hwm + 1)
    BY <1>1, <1>2, <1>4, BindRow, Zenon DEF Bind
  <1>6. /\ \A b \in Commands : /\ Outstanding(b)' = Outstanding(b) /\ Ended(b)' = Ended(b)
                               /\ cmd'[b].st = cmd[b].st
        /\ Final
    BY <1>5, BoundStates, Zenon
  <1>7. route'.gen = hwm + 1 /\ route'.by = c
    BY Zenon DEF Placed
  <1>8. route' \in Route
    <2>1. cmd[c].key \in Keys \cup {NoKey}
      BY <1>1, <1>2, RowTyped DEF Command
    <2>2. c \in 0..MaxCommands
      BY <1>2, QueueAssumption DEF Commands
    <2>3. QED
      BY <1>4, <2>1, <2>2 DEF Placed, Route
  <1>9. Bonds'
    BY <1>1, <1>2, <1>3, <1>5, <1>7, PlaceBonds, Zenon
  <1>10. Cut' /\ DeletedStaysDeleted'
    <2>1. ~Ended(c)
      BY <1>1, <1>2, <1>3, OneState, Zenon
    <2>2. QED
      BY <1>1, <1>2, <1>6, <1>7, <2>1, CutKept, Zenon
  <1>11. Executing'
    BY <1>1, <1>6, CarriedExecutes, Zenon
  <1>12. NoOrphanDemand' /\ pending' \in 0..(MaxCommands + 1)
    BY <1>1, <1>6, DemandStays, Zenon DEF Alive
  <1>13. TypeOK'
    BY <1>1, <1>4, <1>5, <1>8, <1>12, Zenon DEF TypeOK, Bound, Carried
  <1>14. QED
    BY <1>3, <1>6, <1>7, <1>9, <1>10, <1>11, <1>12, <1>13, Zenon DEF Preserved, IInv

-----------------------------------------------------------------------------
(* The queue                                                                 *)

\* A new command is the next unused row.
LEMMA SubmitRow ==
  ASSUME TypeOK, Bonds, NEW k \in Keys, issued < MaxCommands,
         cmd' = [cmd EXCEPT ![issued + 1] = [Absent EXCEPT !.st = "queued", !.key = k]]
  PROVE  /\ issued + 1 \in Commands /\ issued \in Nat /\ cmd[issued + 1].st = "absent"
         /\ cmd' \in [Commands -> Command]
         /\ cmd'[issued + 1].st = "queued" /\ cmd'[issued + 1].gen = 0
         /\ \A b \in Commands \ {issued + 1} : cmd'[b] = cmd[b]
  <1> DEFINE q == [Absent EXCEPT !.st = "queued"]
             r == [q EXCEPT !.key = k]
  <1>1. issued \in Nat /\ issued + 1 \in Commands
    BY QueueAssumption DEF TypeOK, Commands
  <1>2. q \in Command
    BY AbsentFields, FieldTyped, Zenon
  <1>3. r \in Command
    <2> HIDE DEF q
    <2>1. QED
      BY <1>2, SMT DEF Command
  <1>4. r.st = "queued" /\ r.gen = 0
    BY SMT DEF Absent
  <1>5. cmd' = [cmd EXCEPT ![issued + 1] = r]
    BY Zenon
  <1>6. cmd[issued + 1].st = "absent"
    BY <1>1 DEF Bonds, Rows
  <1> HIDE DEF r
  <1>7. /\ cmd' \in [Commands -> Command] /\ cmd'[issued + 1] = r
        /\ \A b \in Commands \ {issued + 1} : cmd'[b] = cmd[b]
    BY <1>1, <1>3, <1>5, RowTyped, Zenon
  <1>8. QED
    BY <1>1, <1>4, <1>6, <1>7, Zenon

\* submit
LEMMA SubmitStep ==
  ASSUME IInv, NEW k \in Keys, Submit(k)
  PROVE  Preserved
  <1>1. TypeOK /\ Bonds /\ Executing /\ Cut /\ DeletedStaysDeleted /\ NoOrphanDemand /\ hwm \in Nat
    BY Parts, Zenon
  <1>2. UNCHANGED <<route, hwm, exec, del, faults, gone, erased>>
    BY Zenon DEF Submit
  <1>3. ASSUME NEW c \in Commands, Joins(k, c), pending' = Demanded(c), UNCHANGED <<cmd, issued>>
        PROVE  Preserved
    <2>1. Quiet /\ Alive
      BY <1>1, <1>3, SameRows, Zenon
    <2>2. NoOrphanDemand' /\ pending' \in 0..(MaxCommands + 1)
      <3>1. CASE pending' = pending
        BY <1>1, <2>1, <3>1, DemandStays, Zenon
      <3>2. CASE pending' = c
        <4>1. c \in 0..(MaxCommands + 1)
          BY QueueAssumption DEF Commands
        <4>2. Outstanding(c)'
          BY <1>3, <2>1, Zenon DEF Joins, Alive
        <4>3. QED
          BY <3>2, <4>1, <4>2, Zenon DEF NoOrphanDemand
      <3>3. QED
        BY <1>3, <3>1, <3>2, Zenon DEF Demanded
    <2>3. Executing' /\ exec' \in [Slots -> Execution]
      BY <1>1, <1>2, <1>3, SameSlots, CarriedExecutes, Zenon DEF Carried
    <2>4. SameRoute /\ route' \in Route /\ faults' \in 0..MaxFaults
      BY <1>1, <1>2, Zenon DEF SameRoute, Exists, TypeOK
    <2>5. QED
      BY <1>2, <1>3, <2>1, <2>2, <2>3, <2>4, QuietStep, Zenon
  <1>4. ASSUME issued < MaxCommands, issued' = issued + 1, pending' = Demanded(issued + 1),
               cmd' = [cmd EXCEPT ![issued + 1] = [Absent EXCEPT !.st = "queued", !.key = k]]
        PROVE  Preserved
    <2> DEFINE n == issued + 1
    <2>1. /\ n \in Commands /\ issued \in Nat /\ cmd[n].st = "absent"
          /\ cmd' \in [Commands -> Command] /\ cmd'[n].st = "queued" /\ cmd'[n].gen = 0
          /\ \A b \in Commands \ {n} : cmd'[b] = cmd[b]
      BY <1>1, <1>4, SubmitRow, Zenon
    <2>2. n \in 0..MaxCommands /\ n \in 0..(MaxCommands + 1)
      BY <2>1, QueueAssumption DEF Commands
    <2>3. Final /\ Alive /\ \A c \in Commands : Ended(c) => Ended(c)'
      BY <2>1, Zenon DEF Final, Alive, Outstanding, Ended
    <2>4. \A c \in Commands : cmd[c].st # "absent" => cmd'[c] = cmd[c] /\ cmd'[c].st # "absent"
      BY <2>1, Zenon
    <2>5. Rows'
      <3> SUFFICES ASSUME NEW b \in Commands
                   PROVE  /\ cmd'[b].st = "absent" <=> b > issued + 1
                          /\ cmd'[b].st = "absent" => cmd'[b].gen = 0
                          /\ cmd'[b].gen <= hwm
        BY <1>2, <1>4 DEF Rows
      <3>1. CASE b = n
        BY <1>1, <2>1, <3>1
      <3>2. CASE b # n
        <4>1. b > issued <=> b > issued + 1
          BY <2>1, <3>2, QueueAssumption DEF Commands
        <4>2. QED
          BY <1>1, <2>1, <3>2, <4>1 DEF Bonds, Rows
      <3>3. QED
        BY <3>1, <3>2
    <2>6. Routed' /\ BoundToItsRoute'
      BY <1>1, <1>2, <2>4, Zenon DEF Bonds, Routed, BoundToItsRoute, Exists, Outstanding
    <2>7. Left'
      <3>1. gone \subseteq Commands
        BY <1>1, Zenon DEF TypeOK
      <3>2. QED
        BY <1>1, <1>2, <2>4, <3>1, Zenon DEF Bonds, Left, Exists, Outstanding
    <2>8. Cut' /\ DeletedStaysDeleted'
      BY <1>1, <1>2, <2>3, CutKept, Zenon DEF SameRoute, Exists
    <2>9. Executing'
      BY <1>1, <1>2, <2>4, SameSlots, CarriedExecutes, Zenon
    <2>10. NoOrphanDemand' /\ pending' \in 0..(MaxCommands + 1)
      <3>1. CASE pending' = pending
        BY <1>1, <2>3, <3>1, DemandStays, Zenon
      <3>2. CASE pending' = n
        BY <2>1, <2>2, <3>2, Zenon DEF NoOrphanDemand, Outstanding
      <3>3. QED
        BY <1>4, <3>1, <3>2, Zenon DEF Demanded
    <2>11. TypeOK'
      BY <1>1, <1>2, <1>4, <2>1, <2>2, <2>10, Zenon DEF TypeOK
    <2>12. ~(hwm' > hwm)
      BY <1>1, <1>2
    <2>13. QED
      BY <2>3, <2>5, <2>6, <2>7, <2>8, <2>9, <2>10, <2>11, <2>12, Zenon DEF Preserved, IInv, Bonds
  <1>5. QED
    BY <1>3, <1>4, Zenon DEF Submit

\* An answer takes the demand of its command with it.
LEMMA AnsweredDemand ==
  ASSUME TypeOK, NoOrphanDemand, NEW c \in Commands, \A b \in Commands \ {c} : cmd'[b] = cmd[b],
         pending' = IF pending = c THEN None ELSE pending
  PROVE  NoOrphanDemand' /\ pending' \in 0..(MaxCommands + 1)
  <1>1. None \notin Commands /\ None \in 0..(MaxCommands + 1)
    BY QueueAssumption DEF None, Commands
  <1>2. pending \in 0..(MaxCommands + 1)
    BY Zenon DEF TypeOK
  <1>3. QED
    BY <1>1, <1>2, Zenon DEF NoOrphanDemand, Outstanding

\* claim
LEMMA ClaimStep ==
  ASSUME IInv, NEW t \in Slots, NEW c \in Commands, Claim(t, c)
  PROVE  Preserved
  <1>1. TypeOK /\ Bonds /\ Executing /\ NoOrphanDemand
    BY Parts, Zenon
  <1>2. Outstanding(c) /\ UNCHANGED <<issued, route, hwm, del, faults, gone, erased>>
    BY Zenon DEF Claim
  <1>3. SameRoute /\ route' \in Route /\ faults' \in 0..MaxFaults
    BY <1>1, <1>2, Zenon DEF SameRoute, Exists, TypeOK
  <1>4. CASE Overdue(c)
    <2>1. /\ cmd' = Answered(c, "retry") /\ UNCHANGED exec
          /\ pending' = IF pending = c THEN None ELSE pending
      BY <1>4, Zenon DEF Claim
    <2>2. Quiet /\ \A b \in Commands \ {c} : cmd'[b] = cmd[b]
      BY <1>1, <1>2, <2>1, AnsweredRow, Zenon DEF Results
    <2>3. NoOrphanDemand' /\ pending' \in 0..(MaxCommands + 1)
      BY <1>1, <2>1, <2>2, AnsweredDemand, Zenon
    <2>4. Executing' /\ exec' \in [Slots -> Execution]
      BY <1>1, <2>1, <2>2, SameSlots, CarriedExecutes, Zenon DEF Carried, Quiet
    <2>5. QED
      BY <1>2, <1>3, <2>2, <2>3, <2>4, QuietStep, Zenon
  <1>5. CASE ~Overdue(c)
    <2> DEFINE r == [Free EXCEPT !.pc = "check", !.c = c, !.held = TRUE]
    <2>1. Begin(t, c)
      BY <1>5, Zenon DEF Claim
    <2>2. Quiet /\ Alive
      BY <1>1, <1>2, <2>1, BeginRow, Zenon
    <2>3. exec' = [exec EXCEPT ![t] = r] /\ UNCHANGED pending
      BY <2>1, Zenon DEF Begin
    <2>4. r \in Execution
      <3>1. c \in 0..MaxCommands
        BY QueueAssumption DEF Commands
      <3>2. [Free EXCEPT !.pc = "check"] \in Execution
        BY FreeFields, SlotTyped, Zenon DEF Steps
      <3>3. [[Free EXCEPT !.pc = "check"] EXCEPT !.c = c] \in Execution
        BY <3>1, <3>2, SlotTyped, Zenon
      <3>4. [[[Free EXCEPT !.pc = "check"] EXCEPT !.c = c] EXCEPT !.held = TRUE] \in Execution
        BY <3>3, SlotTyped, Zenon
      <3>5. [[[Free EXCEPT !.pc = "check"] EXCEPT !.c = c] EXCEPT !.held = TRUE] = r
        BY Zenon
      <3>6. QED
        BY <3>4, <3>5, Zenon
    <2>5. r.pc = "check" /\ r.c = c
      BY SMT DEF Free
    <2> HIDE DEF r
    <2>6. /\ exec' \in [Slots -> Execution] /\ exec'[t] = r
          /\ \A u \in Slots \ {t} : exec'[u] = exec[u]
      BY <1>1, <2>3, <2>4, Slotted, Zenon
    <2>7. cmd[c].st # "absent" /\ \A b \in Commands : cmd[b].st # "absent" => cmd'[b].st # "absent"
      BY <1>1, <1>2, <2>2, OneState, Zenon DEF Quiet
    <2>8. Executing'
      <3> SUFFICES ASSUME NEW u \in Slots
                   PROVE  \/ exec'[u].pc = "free" /\ exec'[u].held = FALSE
                          \/ exec'[u].pc # "free" /\ exec'[u].c \in Commands /\ cmd'[exec'[u].c].st # "absent"
        BY Zenon DEF Executing
      <3>1. CASE u = t
        BY <2>5, <2>6, <2>7, <3>1, Zenon
      <3>2. CASE u # t
        BY <1>1, <2>6, <2>7, <3>2, Zenon DEF Executing
      <3>3. QED
        BY <3>1, <3>2, Zenon
    <2>9. NoOrphanDemand' /\ pending' \in 0..(MaxCommands + 1)
      BY <1>1, <2>2, <2>3, DemandStays, Zenon
    <2>10. QED
      BY <1>2, <1>3, <2>2, <2>6, <2>8, <2>9, QuietStep, Zenon
  <1>6. QED
    BY <1>4, <1>5, Zenon

\* The worker's verdict on an outcome: defer or complete, under the fence.
LEMMA SettleQuiet ==
  ASSUME TypeOK, NoOrphanDemand, NEW t \in Slots, exec[t].c \in Commands, NEW a \in Results,
         Settle(t, a)
  PROVE  Quiet /\ NoOrphanDemand' /\ pending' \in 0..(MaxCommands + 1)
  <1> DEFINE c == exec[t].c
  <1>1. CASE cmd' = Deferred(t) /\ UNCHANGED pending
    BY <1>1, DeferredRow, DemandStays, Zenon
  <1>2. CASE cmd' = Completed(t, a) /\ pending' = DemandDropped(t) /\ Claims(t)
    <2>1. Outstanding(c) /\ cmd' = Answered(c, a) /\ pending' = IF pending = c THEN None ELSE pending
      BY <1>2, Zenon DEF Completed, DemandDropped, Claims, Outstanding
    <2>2. Quiet /\ \A b \in Commands \ {c} : cmd'[b] = cmd[b]
      BY <2>1, AnsweredRow, Zenon
    <2>3. QED
      BY <2>1, <2>2, AnsweredDemand, Zenon
  <1>3. CASE cmd' = Completed(t, a) /\ pending' = DemandDropped(t) /\ ~Claims(t)
    <2>1. UNCHANGED <<cmd, pending>>
      BY <1>3, Zenon DEF Completed, DemandDropped
    <2>2. QED
      BY <2>1, SameRows, DemandStays, Zenon
  <1>4. QED
    BY <1>1, <1>2, <1>3, Zenon DEF Settle

\* A step that is quiet for the rows, carries the executions and settles demand.
LEMMA RowStep ==
  ASSUME IInv, Quiet, Carried, NoOrphanDemand', pending' \in 0..(MaxCommands + 1),
         faults' \in 0..MaxFaults, UNCHANGED <<issued, route, hwm, del, gone, erased>>
  PROVE  Preserved
  <1>1. TypeOK /\ Executing
    BY Parts, Zenon
  <1>2. SameRoute /\ route' \in Route
    BY <1>1, Zenon DEF SameRoute, Exists, TypeOK
  <1>3. Executing' /\ exec' \in [Slots -> Execution]
    BY <1>1, CarriedExecutes, Zenon DEF Carried, Quiet
  <1>4. QED
    BY <1>2, <1>3, QuietStep, Zenon

\* A slot in use has a command.
LEMMA SlotCommand ==
  ASSUME IInv, NEW t \in Slots, exec[t].pc # "free" \/ exec[t].held
  PROVE  exec[t].pc # "free" /\ exec[t].c \in Commands /\ cmd[exec[t].c].st # "absent"
  BY Parts, Zenon DEF Executing

\* The worker hears the handler, loses it, or renews its lease.
LEMMA TaskStep ==
  ASSUME IInv, NEW t \in Slots, Answer(t) \/ LoseConnection(t) \/ Renew(t)
  PROVE  Preserved
  <1>1. TypeOK /\ NoOrphanDemand /\ exec[t] \in Execution /\ faults \in 0..MaxFaults
    BY Parts, Slotted, Zenon DEF TypeOK
  <1>2. CASE Answer(t)
    <2>1. /\ exec[t].pc # "free" /\ Settle(t, exec[t].ans) /\ exec' = [exec EXCEPT ![t] = Free]
          /\ UNCHANGED <<issued, route, hwm, del, faults, gone, erased>>
      BY <1>2, Zenon DEF Answer
    <2>2. exec[t].ans \in Results
      BY <1>1 DEF Execution
    <2>3. Quiet /\ NoOrphanDemand' /\ pending' \in 0..(MaxCommands + 1)
      BY <1>1, <2>1, <2>2, SlotCommand, SettleQuiet, Zenon
    <2>4. QED
      BY <1>1, <2>1, <2>3, FreeCarried, RowStep, Zenon
  <1>3. CASE LoseConnection(t)
    <2>1. /\ exec[t].held /\ Settle(t, "retry") /\ Orphan(t)
          /\ UNCHANGED <<issued, route, hwm, del, faults, gone, erased>>
      BY <1>3, Zenon DEF LoseConnection
    <2>2. exec[t].pc # "free" /\ exec[t].c \in Commands
      BY <2>1, SlotCommand, Zenon
    <2>3. Quiet /\ NoOrphanDemand' /\ pending' \in 0..(MaxCommands + 1)
      BY <1>1, <2>1, <2>2, SettleQuiet, Zenon DEF Results
    <2>4. QED
      BY <1>1, <2>1, <2>2, <2>3, OrphanCarried, RowStep, Zenon
  <1>4. CASE Renew(t)
    <2>1. exec[t].held /\ UNCHANGED <<issued, route, hwm, pending, del, faults, gone, erased>>
      BY <1>4, Zenon DEF Renew
    <2>2. exec[t].pc # "free" /\ exec[t].c \in Commands /\ cmd[exec[t].c].st # "absent"
      BY <2>1, SlotCommand, Zenon
    <2>3. Quiet /\ Alive /\ Carried
      <3>1. CASE Claims(t)
        <4>1. cmd' = [cmd EXCEPT ![exec[t].c].live = TRUE] /\ UNCHANGED exec
          BY <1>4, <3>1, Zenon DEF Renew
        <4>2. QED
          BY <1>1, <2>2, <4>1, ClockRow, SameSlots, Zenon
      <3>2. CASE ~Claims(t)
        <4>1. Orphan(t) /\ UNCHANGED cmd
          BY <1>4, <3>2, Zenon DEF Renew
        <4>2. QED
          BY <1>1, <2>2, <4>1, OrphanCarried, SameRows, Zenon
      <3>3. QED
        BY <3>1, <3>2, Zenon
    <2>4. NoOrphanDemand' /\ pending' \in 0..(MaxCommands + 1)
      BY <1>1, <2>1, <2>3, DemandStays, Zenon
    <2>5. QED
      BY <1>1, <2>1, <2>3, <2>4, RowStep, Zenon
  <1>5. QED
    BY <1>2, <1>3, <1>4, Zenon

\* Pruning, deadlines and leases.
LEMMA TimeStep ==
  ASSUME IInv, NEW c \in Commands, Prune(c) \/ Deadline(c) \/ Expire(c)
  PROVE  Preserved
  <1>1. TypeOK /\ NoOrphanDemand /\ faults \in 0..MaxFaults
    BY Parts, Zenon DEF TypeOK
  <1>2. UNCHANGED <<issued, route, hwm, pending, exec, del, gone, erased>>
    BY Zenon DEF Prune, Deadline, Expire
  <1>3. faults' \in 0..MaxFaults
    <2>1. CASE faults' = faults
      BY <1>1, <2>1, Zenon
    <2>2. CASE faults < MaxFaults /\ faults' = faults + 1
      BY <1>1, <2>2, QueueAssumption
    <2>3. QED
      BY <2>1, <2>2, Zenon DEF Prune, Deadline, Expire
  <1>4. Quiet /\ Alive
    <2>1. CASE Prune(c)
      BY <1>1, <2>1, PruneRow, Zenon
    <2>2. CASE Deadline(c)
      <3>1. cmd' = [cmd EXCEPT ![c].late = TRUE]
        BY <2>2, Zenon DEF Deadline
      <3>2. QED
        BY <1>1, <3>1, ClockRow, Zenon
    <2>3. CASE Expire(c)
      <3>1. cmd' = [cmd EXCEPT ![c].live = FALSE]
        BY <2>3, Zenon DEF Expire
      <3>2. QED
        BY <1>1, <3>1, ClockRow, Zenon
    <2>4. QED
      BY <2>1, <2>2, <2>3, Zenon
  <1>5. NoOrphanDemand' /\ pending' \in 0..(MaxCommands + 1)
    BY <1>1, <1>2, <1>4, DemandStays, Zenon
  <1>6. QED
    BY <1>1, <1>2, <1>3, <1>4, <1>5, SameSlots, RowStep, Zenon

-----------------------------------------------------------------------------
(* The create handler                                                        *)

\* The updates of the route.
LEMMA RouteFields ==
  ASSUME TypeOK
  PROVE  /\ [route EXCEPT !.st = "running"] \in Route
         /\ [route EXCEPT !.st = "running"].gen = route.gen
         /\ [route EXCEPT !.st = "running"].by = route.by
         /\ [route EXCEPT !.st = "running"].st = "running"
         /\ [route EXCEPT !.del = TRUE] \in Route
         /\ [route EXCEPT !.del = TRUE].gen = route.gen
         /\ [route EXCEPT !.del = TRUE].by = route.by
         /\ [route EXCEPT !.del = TRUE].st = route.st
         /\ route \in Route /\ route.gen \in 0..MaxGeneration /\ route.gen \in Nat
  <1>1. route \in Route
    BY Zenon DEF TypeOK
  <1>2. /\ [route EXCEPT !.st = "running"] \in Route
        /\ [route EXCEPT !.st = "running"].gen = route.gen
        /\ [route EXCEPT !.st = "running"].by = route.by
        /\ [route EXCEPT !.st = "running"].st = "running"
    BY <1>1, SMT DEF Route
  <1>3. \A v \in BOOLEAN : [route EXCEPT !.del = v] \in Route
    BY <1>1, SMT DEF Route
  <1>4. /\ [route EXCEPT !.del = TRUE].gen = route.gen
        /\ [route EXCEPT !.del = TRUE].by = route.by
        /\ [route EXCEPT !.del = TRUE].st = route.st
    BY <1>1, SMT DEF Route
  <1>5. route.gen \in 0..MaxGeneration
    BY <1>1, SMT DEF Route
  <1>6. route.gen \in Nat
    BY <1>5, QueueAssumption
  <1>7. QED
    BY <1>1, <1>2, <1>3, <1>4, <1>5, <1>6, Zenon

\* No route.
LEMMA NoRouteFields ==
  /\ NoRoute \in Route /\ NoRoute.st = "none" /\ NoRoute.gen = 0
  <1>1. NoRoute \in Route
    BY QueueAssumption, SMT DEF NoRoute, Route
  <1>2. NoRoute.st = "none" /\ NoRoute.gen = 0
    BY Zenon DEF NoRoute
  <1>3. QED
    BY <1>1, <1>2, Zenon

\* The handler is told that its claim is over.
LEMMA RejectedStep ==
  ASSUME IInv, NEW t \in Slots, exec[t].pc # "free", Rejected(t), UNCHANGED <<issued, del, faults, erased>>
  PROVE  Preserved
  <1>1. TypeOK /\ faults' \in 0..MaxFaults
    BY Parts, Zenon DEF TypeOK
  <1>2. Reply(t, "refused") /\ UNCHANGED <<cmd, route, hwm, pending, gone>>
    BY Zenon DEF Rejected
  <1>3. Carried
    BY <1>1, <1>2, ReplyCarried, Zenon DEF Results
  <1>4. QED
    BY <1>1, <1>2, <1>3, IdleStep, Zenon

\* command_execution and _check_command_request
LEMMA CheckStep ==
  ASSUME IInv, NEW t \in Slots, Check(t)
  PROVE  Preserved
  <1>1. TypeOK /\ faults \in 0..MaxFaults
    BY Parts, Zenon DEF TypeOK
  <1>2. exec[t].pc # "free" /\ UNCHANGED <<issued, del, faults, erased>>
    BY Zenon DEF Check
  <1>3. CASE Rejected(t)
    BY <1>2, <1>3, RejectedStep, Zenon
  <1>4. CASE ~Rejected(t)
    <2>1. /\ Authorized(t) /\ Goto(t, "read") /\ UNCHANGED <<route, hwm, pending, gone>>
          /\ IF Exists /\ cmd[exec[t].c].gen = 0 THEN Bind(t, route.gen) ELSE UNCHANGED cmd
      BY <1>4, Zenon DEF Check
    <2>2. Carried
      BY <1>1, <1>2, <2>1, GotoCarried, Zenon DEF Steps
    <2>3. CASE Exists /\ cmd[exec[t].c].gen = 0
      BY <1>2, <2>1, <2>2, <2>3, BindStep, Zenon
    <2>4. CASE ~(Exists /\ cmd[exec[t].c].gen = 0)
      BY <1>1, <1>2, <2>1, <2>2, <2>4, IdleStep, Zenon
    <2>5. QED
      BY <2>3, <2>4, Zenon
  <1>5. QED
    BY <1>3, <1>4, Zenon

\* Steps that only move the handler: a read, an ambiguous answer, a demand, a crash.
LEMMA MoveStep ==
  ASSUME IInv, NEW t \in Slots, Read(t) \/ Ambiguous(t) \/ Demand(t) \/ Crash(t)
  PROVE  Preserved
  <1>1. TypeOK /\ faults \in 0..MaxFaults /\ route.gen \in 0..MaxGeneration
    BY Parts, RouteFields, Zenon DEF TypeOK
  <1>2. /\ exec[t].pc # "free" /\ UNCHANGED <<cmd, issued, route, hwm, del, gone, erased>>
        /\ pending' \in {pending, None, Other}
    BY Zenon DEF Read, Ambiguous, Demand, Crash
  <1>3. faults' \in 0..MaxFaults
    <2>1. CASE faults' = faults
      BY <1>1, <2>1, Zenon
    <2>2. CASE faults < MaxFaults /\ faults' = faults + 1
      BY <1>1, <2>2, QueueAssumption
    <2>3. QED
      BY <2>1, <2>2, Zenon DEF Read, Ambiguous, Demand, Crash
  <1>4. Carried
    <2>1. CASE Read(t)
      <3>1. \/ Goto(t, "place")
            \/ Reply(t, "refused")
            \/ WorkOn(t, "observe", route.gen)
            \/ WorkOn(t, "replay", route.gen)
            \/ Reply(t, "retry")
        BY <2>1, Zenon DEF Read
      <3>2. QED
        BY <1>1, <1>2, <3>1, GotoCarried, ReplyCarried, WorkCarried, Zenon DEF Steps, Results
    <2>2. CASE Ambiguous(t)
      BY <1>1, <1>2, <2>2, ReplyCarried, Zenon DEF Ambiguous, Results
    <2>3. CASE Demand(t)
      <3>1. Reply(t, "retry") \/ Goto(t, "read")
        BY <2>3, Zenon DEF Demand
      <3>2. QED
        BY <1>1, <1>2, <3>1, ReplyCarried, GotoCarried, Zenon DEF Steps, Results
    <2>4. CASE Crash(t)
      BY <1>1, <2>4, FreeCarried, Zenon DEF Crash
    <2>5. QED
      BY <2>1, <2>2, <2>3, <2>4, Zenon
  <1>5. QED
    BY <1>2, <1>3, <1>4, IdleStep, Zenon

\* reserve_create_intent
LEMMA PlacedStep ==
  ASSUME IInv, NEW t \in Slots, Place(t)
  PROVE  Preserved
  <1>1. TypeOK /\ faults \in 0..MaxFaults /\ route.gen \in 0..MaxGeneration /\ hwm \in Nat
    BY Parts, RouteFields, Zenon DEF TypeOK
  <1>2. exec[t].pc # "free" /\ UNCHANGED <<issued, del, faults, erased>>
    BY Zenon DEF Place
  <1>3. CASE Goto(t, "demand") /\ UNCHANGED <<cmd, route, hwm, pending, gone>>
    <2>1. Carried
      BY <1>1, <1>2, <1>3, GotoCarried, Zenon DEF Steps
    <2>2. QED
      BY <1>1, <1>2, <1>3, <2>1, IdleStep, Zenon
  <1>4. CASE Rejected(t)
    BY <1>2, <1>4, RejectedStep, Zenon
  <1>5. CASE /\ Authorized(t) /\ Exists /\ Bind(t, route.gen) /\ WorkOn(t, "replay", route.gen)
             /\ UNCHANGED <<route, hwm, pending, gone>>
    <2>1. Carried
      BY <1>1, <1>2, <1>5, WorkCarried, Zenon DEF Steps
    <2>2. QED
      BY <1>2, <1>5, <2>1, BindStep, Zenon
  <1>6. CASE Reply(t, "refused") /\ UNCHANGED <<cmd, route, hwm, pending, gone>>
    <2>1. Carried
      BY <1>1, <1>2, <1>6, ReplyCarried, Zenon DEF Results
    <2>2. QED
      BY <1>1, <1>2, <1>6, <2>1, IdleStep, Zenon
  <1>7. CASE /\ Authorized(t) /\ hwm < MaxGeneration /\ hwm' = hwm + 1 /\ route' = Placed(t, hwm + 1)
             /\ Bind(t, hwm + 1) /\ pending' = None /\ WorkOn(t, "dispatch", hwm + 1) /\ UNCHANGED gone
    <2>1. hwm + 1 \in 0..MaxGeneration
      BY <1>1, <1>7, QueueAssumption
    <2>2. Carried
      BY <1>1, <1>2, <1>7, <2>1, WorkCarried, Zenon DEF Steps
    <2>3. QED
      BY <1>2, <1>7, <2>2, PlaceStep, Zenon
  <1>8. QED
    BY <1>3, <1>4, <1>5, <1>6, <1>7, Zenon DEF Place

\* confirm_create
LEMMA ConfirmStep ==
  ASSUME IInv, NEW t \in Slots, Confirm(t)
  PROVE  Preserved
  <1>1. TypeOK /\ Executing /\ NoOrphanDemand /\ faults' \in 0..MaxFaults
    BY Parts, Zenon DEF TypeOK, Confirm
  <1>2. exec[t].pc # "free" /\ UNCHANGED <<cmd, issued, hwm, del, faults, gone, erased>>
    BY Zenon DEF Confirm
  <1>3. CASE Mine(t) /\ ~route.del
    <2>1. route' = [route EXCEPT !.st = "running"] /\ pending' = None /\ Reply(t, "ok")
      BY <1>3, Zenon DEF Confirm
    <2>2. Carried
      BY <1>1, <1>2, <2>1, ReplyCarried, Zenon DEF Results
    <2>3. SameRoute /\ route' \in Route
      BY <1>1, <1>3, <2>1, RouteFields, Zenon DEF SameRoute, Exists, Mine
    <2>4. Quiet /\ Alive
      BY <1>1, <1>2, SameRows, Zenon
    <2>5. NoOrphanDemand' /\ pending' \in 0..(MaxCommands + 1)
      BY <1>1, <2>1, <2>4, DemandStays, Zenon
    <2>6. Executing' /\ exec' \in [Slots -> Execution]
      BY <1>1, <1>2, <2>2, CarriedExecutes, Zenon DEF Carried
    <2>7. QED
      BY <1>1, <1>2, <2>3, <2>4, <2>5, <2>6, QuietStep, Zenon
  <1>4. CASE ~(Mine(t) /\ ~route.del)
    <2>1. Reply(t, "refused") /\ UNCHANGED <<route, pending>>
      BY <1>4, Zenon DEF Confirm
    <2>2. Carried
      BY <1>1, <1>2, <2>1, ReplyCarried, Zenon DEF Results
    <2>3. QED
      BY <1>1, <1>2, <2>1, <2>2, IdleStep, Zenon
  <1>5. QED
    BY <1>3, <1>4, Zenon

\* retarget_create_intent
LEMMA RetargetStep ==
  ASSUME IInv, NEW t \in Slots, Retarget(t)
  PROVE  Preserved
  <1>1. TypeOK /\ faults \in 0..MaxFaults /\ hwm \in Nat
    BY Parts, Zenon DEF TypeOK
  <1>2. exec[t].pc # "free" /\ UNCHANGED <<issued, del, faults, erased>>
    BY Zenon DEF Retarget
  <1>3. CASE Rejected(t)
    BY <1>2, <1>3, RejectedStep, Zenon
  <1>4. CASE /\ Authorized(t) /\ hwm < MaxGeneration /\ hwm' = hwm + 1 /\ route' = Placed(t, hwm + 1)
             /\ Bind(t, hwm + 1) /\ WorkOn(t, "dispatch", hwm + 1) /\ UNCHANGED <<pending, gone>>
    <2>1. hwm + 1 \in 0..MaxGeneration
      BY <1>1, <1>4, QueueAssumption
    <2>2. Carried
      BY <1>1, <1>2, <1>4, <2>1, WorkCarried, Zenon DEF Steps
    <2>3. QED
      BY <1>2, <1>4, <2>2, PlaceStep, Zenon
  <1>5. CASE Reply(t, "retry") /\ UNCHANGED <<cmd, route, hwm, pending, gone>>
    <2>1. Carried
      BY <1>1, <1>2, <1>5, ReplyCarried, Zenon DEF Results
    <2>2. QED
      BY <1>1, <1>2, <1>5, <2>1, IdleStep, Zenon
  <1>6. QED
    BY <1>3, <1>4, <1>5, Zenon DEF Retarget

-----------------------------------------------------------------------------
(* The route goes                                                            *)

\* The route is removed; the rows lose at most the bond of one that is not gone.
LEMMA RemoveStep ==
  ASSUME IInv, route' = NoRoute, pending' = None, UNCHANGED <<issued, hwm, faults>>, Carried,
         cmd' \in [Commands -> Command],
         \A b \in Commands : /\ cmd'[b].st = cmd[b].st /\ cmd'[b].res = cmd[b].res
                             /\ cmd'[b].gen = cmd[b].gen \/ (cmd'[b].gen = 0 /\ b \notin gone'),
         gone' \subseteq Commands,
         \A b \in gone' : b \in gone \/ (b \in Commands /\ Exists /\ cmd[b].gen = route.gen),
         del' \in [Deleters -> Deletion], erased' \subseteq Commands,
         \A c \in erased' : Ended(c), \A d \in Deleters : \A c \in del'[d].cut : Ended(c)
  PROVE  Preserved
  <1>1. TypeOK /\ Bonds /\ Executing /\ NoOrphanDemand /\ hwm \in Nat
    BY Parts, Zenon
  <1>2. ~Exists' /\ route' \in Route
    BY NoRouteFields, Zenon DEF Exists
  <1>3. \A c \in Commands : Ended(c)' = Ended(c) /\ Outstanding(c)' = Outstanding(c)
    BY Zenon DEF Ended, Outstanding
  <1>4. Final
    BY Zenon DEF Final, Ended
  <1>5. Bonds'
    BY <1>1, RemoveBonds, Zenon
  <1>6. Cut' /\ DeletedStaysDeleted'
    <2>1. \A d \in Deleters : del'[d].cut \subseteq Commands
      BY DEF Deletion
    <2>2. QED
      BY <1>2, <1>3, <2>1, Zenon DEF Cut, DeletedStaysDeleted
  <1>7. Executing'
    BY <1>1, CarriedExecutes, Zenon
  <1>8. NoOrphanDemand' /\ pending' \in 0..(MaxCommands + 1)
    BY <1>1, <1>3, DemandStays, Zenon DEF Alive
  <1>9. TypeOK'
    BY <1>1, <1>2, <1>8, Zenon DEF TypeOK, Carried
  <1>10. ~(hwm' > hwm)
    BY <1>1
  <1>11. QED
    BY <1>4, <1>5, <1>6, <1>7, <1>8, <1>9, <1>10, Zenon DEF Preserved, IInv

\* delete_sandbox_if_current under a command
LEMMA ReleaseStep ==
  ASSUME IInv, NEW t \in Slots, Release(t)
  PROVE  Preserved
  <1>1. TypeOK /\ Bonds /\ Executing /\ Cut /\ faults \in 0..MaxFaults
    BY Parts, Zenon DEF TypeOK
  <1>2. exec[t].pc # "free" /\ UNCHANGED <<issued, del, faults, erased>>
    BY Zenon DEF Release
  <1>3. CASE Rejected(t)
    BY <1>2, <1>3, RejectedStep, Zenon
  <1>4. ASSUME UNCHANGED <<cmd, route, hwm, pending, gone>>, NEW r \in {"refused", "retry"}, Reply(t, r)
        PROVE  Preserved
    <2>1. Carried
      BY <1>1, <1>2, <1>4, ReplyCarried, Zenon DEF Results
    <2>2. QED
      BY <1>1, <1>2, <1>4, <2>1, IdleStep, Zenon
  <1>5. CASE /\ Authorized(t) /\ Mine(t) /\ route' = NoRoute /\ pending' = None /\ Bind(t, 0)
             /\ gone' = gone \cup Orphaned({exec[t].c}) /\ UNCHANGED hwm
             /\ \/ WorkOn(t, "demand", 0)
                \/ WorkOn(t, "redemand", 0)
                \/ \E r \in {"refused", "retry"} : Reply(t, r)
    <2> DEFINE c == exec[t].c
    <2>1. c \in Commands /\ 0 \in 0..MaxGeneration
      <3>1. c \in Commands
        BY <1>1, <1>2, Zenon DEF Executing
      <3>2. 0 \in 0..MaxGeneration
        BY QueueAssumption
      <3>3. QED
        BY <3>1, <3>2
    <2>2. Carried
      BY <1>1, <1>2, <1>5, <2>1, WorkCarried, ReplyCarried, Zenon DEF Steps, Results
    <2>3. c \notin gone
      BY <1>1, <1>5, <2>1, AuthorizedStays, Zenon
    <2>4. Bound(c, 0)
      BY <1>1, <1>5, <2>1, BindRow, Zenon DEF Bind
    <2>5. /\ gone' \subseteq Commands /\ c \notin gone'
          /\ \A b \in gone' : b \in gone \/ (b \in Commands /\ Exists /\ cmd[b].gen = route.gen)
      BY <1>1, <1>5, <2>3, Zenon DEF Orphaned, TypeOK, Mine
    <2>6. /\ cmd' \in [Commands -> Command]
          /\ \A b \in Commands : /\ cmd'[b].st = cmd[b].st /\ cmd'[b].res = cmd[b].res
                                 /\ cmd'[b].gen = cmd[b].gen \/ (cmd'[b].gen = 0 /\ b \notin gone')
      BY <2>4, <2>5, Zenon DEF Bound
    <2>7. /\ del' \in [Deleters -> Deletion] /\ erased' \subseteq Commands
          /\ \A b \in erased' : Ended(b)
          /\ \A d \in Deleters : \A b \in del'[d].cut : Ended(b)
      BY <1>1, <1>2, Zenon DEF Cut, TypeOK
    <2>8. QED
      BY <1>2, <1>5, <2>2, <2>5, <2>6, <2>7, RemoveStep, Zenon
  <1>6. QED
    BY <1>3, <1>4, <1>5, Zenon DEF Release

\* The route goes, by whatever removes it without a command.
LEMMA RemovedStep ==
  ASSUME IInv, Removed, UNCHANGED <<cmd, issued, hwm, exec, faults>>,
         del' \in [Deleters -> Deletion], erased' \subseteq Commands,
         \A c \in erased' : Ended(c), \A d \in Deleters : \A c \in del'[d].cut : Ended(c)
  PROVE  Preserved
  <1>1. TypeOK
    BY Parts, Zenon
  <1>2. /\ gone' \subseteq Commands
        /\ \A b \in gone' : b \in gone \/ (b \in Commands /\ Exists /\ cmd[b].gen = route.gen)
    BY <1>1, Zenon DEF Removed, Orphaned, TypeOK
  <1>3. /\ cmd' \in [Commands -> Command]
        /\ \A b \in Commands : /\ cmd'[b].st = cmd[b].st /\ cmd'[b].res = cmd[b].res
                               /\ cmd'[b].gen = cmd[b].gen
    BY <1>1, Zenon DEF TypeOK
  <1>4. Carried /\ route' = NoRoute /\ pending' = None
    BY <1>1, SameSlots, Zenon DEF Removed
  <1>5. QED
    BY <1>2, <1>3, <1>4, RemoveStep, Zenon

\* The worker is lost, or demand is.
LEMMA LossStep ==
  ASSUME IInv, Lose \/ ExpireDemand
  PROVE  Preserved
  <1>1. TypeOK /\ Cut /\ faults \in 0..MaxFaults
    BY Parts, Zenon DEF TypeOK
  <1>2. CASE Lose
    <2>1. Removed /\ UNCHANGED <<cmd, issued, hwm, exec, del, faults, erased>>
      BY <1>2, Zenon DEF Lose
    <2>2. /\ del' \in [Deleters -> Deletion] /\ erased' \subseteq Commands
          /\ \A b \in erased' : Ended(b)
          /\ \A d \in Deleters : \A b \in del'[d].cut : Ended(b)
      BY <1>1, <2>1, Zenon DEF Cut, TypeOK
    <2>3. QED
      BY <2>1, <2>2, RemovedStep, Zenon
  <1>3. CASE ExpireDemand
    <2>1. pending' = None /\ UNCHANGED <<cmd, issued, route, hwm, exec, del, faults, gone, erased>>
      BY <1>3, Zenon DEF ExpireDemand
    <2>2. QED
      BY <1>1, <2>1, SameSlots, IdleStep, Zenon
  <1>4. QED
    BY <1>2, <1>3, Zenon

-----------------------------------------------------------------------------
(* DELETE                                                                    *)

\* One deletion changes.
LEMMA OneDeletion ==
  ASSUME TypeOK, NEW d \in Deleters, NEW r \in Deletion, del' = [del EXCEPT ![d] = r]
  PROVE  /\ del' \in [Deleters -> Deletion] /\ del'[d] = r
         /\ \A e \in Deleters \ {d} : del'[e] = del[e]
  BY Zenon DEF TypeOK

\* A deletion with new fields is one.
LEMMA DeletionField ==
  ASSUME NEW r \in Deletion, NEW p \in {"read", "proxy"}
  PROVE  /\ \A g \in 0..MaxGeneration :
              /\ [r EXCEPT !.pc = p, !.gen = g] \in Deletion
              /\ [r EXCEPT !.pc = p, !.gen = g].gen = g
              /\ [r EXCEPT !.pc = p, !.gen = g].cut = r.cut
         /\ \A s \in SUBSET Commands :
              /\ [r EXCEPT !.pc = p, !.cut = s] \in Deletion
              /\ [r EXCEPT !.pc = p, !.cut = s].pc = p
              /\ [r EXCEPT !.pc = p, !.cut = s].cut = s
  <1>1. \A q \in Deletion : [q EXCEPT !.pc = p] \in Deletion
    BY SMT DEF Deletion
  <1>2. \A q \in Deletion : \A g \in 0..MaxGeneration : [q EXCEPT !.gen = g] \in Deletion
    BY SMT DEF Deletion
  <1>3. \A q \in Deletion : \A s \in SUBSET Commands : [q EXCEPT !.cut = s] \in Deletion
    BY SMT DEF Deletion
  <1>4. ASSUME NEW g \in 0..MaxGeneration
        PROVE  /\ [r EXCEPT !.pc = p, !.gen = g] \in Deletion
               /\ [r EXCEPT !.pc = p, !.gen = g].gen = g
               /\ [r EXCEPT !.pc = p, !.gen = g].cut = r.cut
    <2>1. [[r EXCEPT !.pc = p] EXCEPT !.gen = g] \in Deletion
      BY <1>1, <1>2, Zenon
    <2>2. [[r EXCEPT !.pc = p] EXCEPT !.gen = g] = [r EXCEPT !.pc = p, !.gen = g]
      OBVIOUS
    <2>3. [r EXCEPT !.pc = p, !.gen = g].gen = g /\ [r EXCEPT !.pc = p, !.gen = g].cut = r.cut
      BY SMT DEF Deletion
    <2>4. QED
      BY <2>1, <2>2, <2>3, Zenon
  <1>5. ASSUME NEW s \in SUBSET Commands
        PROVE  /\ [r EXCEPT !.pc = p, !.cut = s] \in Deletion
               /\ [r EXCEPT !.pc = p, !.cut = s].pc = p
               /\ [r EXCEPT !.pc = p, !.cut = s].cut = s
    <2>1. [[r EXCEPT !.pc = p] EXCEPT !.cut = s] \in Deletion
      BY <1>1, <1>3, Zenon
    <2>2. [[r EXCEPT !.pc = p] EXCEPT !.cut = s] = [r EXCEPT !.pc = p, !.cut = s]
      OBVIOUS
    <2>3. [r EXCEPT !.pc = p, !.cut = s].pc = p /\ [r EXCEPT !.pc = p, !.cut = s].cut = s
      BY SMT DEF Deletion
    <2>4. QED
      BY <2>1, <2>2, <2>3, Zenon
  <1>6. QED
    BY <1>4, <1>5, Zenon

\* The records of a deletion.
LEMMA DeletionFields ==
  ASSUME TypeOK, NEW d \in Deleters
  PROVE  /\ del[d] \in Deletion /\ del[d].cut \subseteq Commands
         /\ Idle \in Deletion /\ Idle.pc = "idle" /\ Idle.cut = {}
         /\ \A p \in {"absent", "present"} :
              /\ [del[d] EXCEPT !.pc = p] \in Deletion
              /\ [del[d] EXCEPT !.pc = p].pc = p
              /\ [del[d] EXCEPT !.pc = p].cut = del[d].cut
         /\ \A g \in 0..MaxGeneration :
              /\ [del[d] EXCEPT !.pc = "proxy", !.gen = g] \in Deletion
              /\ [del[d] EXCEPT !.pc = "proxy", !.gen = g].gen = g
              /\ [del[d] EXCEPT !.pc = "proxy", !.gen = g].cut = del[d].cut
         /\ \A s \in SUBSET Commands :
              /\ [Idle EXCEPT !.pc = "read", !.cut = s] \in Deletion
              /\ [Idle EXCEPT !.pc = "read", !.cut = s].pc = "read"
              /\ [Idle EXCEPT !.pc = "read", !.cut = s].cut = s
  <1>1. del[d] \in Deletion
    BY Zenon DEF TypeOK
  <1>2. del[d].cut \subseteq Commands
    BY <1>1, SMT DEF Deletion
  <1>3. Idle \in Deletion /\ Idle.pc = "idle" /\ Idle.cut = {}
    BY QueueAssumption, SMT DEF Idle, Deletion
  <1>4. \A p \in {"absent", "present"} :
              /\ [del[d] EXCEPT !.pc = p] \in Deletion
              /\ [del[d] EXCEPT !.pc = p].pc = p
              /\ [del[d] EXCEPT !.pc = p].cut = del[d].cut
    BY <1>1, SMT DEF Deletion
  <1>5. \A g \in 0..MaxGeneration :
              /\ [del[d] EXCEPT !.pc = "proxy", !.gen = g] \in Deletion
              /\ [del[d] EXCEPT !.pc = "proxy", !.gen = g].gen = g
              /\ [del[d] EXCEPT !.pc = "proxy", !.gen = g].cut = del[d].cut
    BY <1>1, DeletionField, Zenon
  <1>6. \A s \in SUBSET Commands :
              /\ [Idle EXCEPT !.pc = "read", !.cut = s] \in Deletion
              /\ [Idle EXCEPT !.pc = "read", !.cut = s].pc = "read"
              /\ [Idle EXCEPT !.pc = "read", !.cut = s].cut = s
    BY <1>3, DeletionField, Zenon
  <1>7. QED
    BY <1>1, <1>2, <1>3, <1>4, <1>5, <1>6, Zenon

\* A DELETE's step that leaves the route where it is.
LEMMA DeleteStays ==
  ASSUME IInv, Quiet, SameRoute, route' \in Route, UNCHANGED <<issued, hwm, exec, faults, gone>>,
         del' \in [Deleters -> Deletion], erased' \subseteq Commands,
         Cut', DeletedStaysDeleted', NoOrphanDemand', pending' \in 0..(MaxCommands + 1)
  PROVE  Preserved
  <1>1. TypeOK /\ Bonds /\ Executing /\ hwm \in Nat
    BY Parts, Zenon
  <1>2. Bonds'
    BY <1>1, QuietBonds, Zenon
  <1>3. Executing'
    BY <1>1, SameSlots, CarriedExecutes, Zenon DEF Quiet
  <1>4. TypeOK'
    BY <1>1, Zenon DEF TypeOK, Quiet
  <1>5. ~(hwm' > hwm)
    BY <1>1
  <1>6. QED
    BY <1>2, <1>3, <1>4, <1>5, Zenon DEF Preserved, IInv, Quiet

\* cancel_create_commands
LEMMA CancelStep ==
  ASSUME IInv, NEW d \in Deleters, Cancel(d)
  PROVE  Preserved
  <1> DEFINE r == [Idle EXCEPT !.pc = "read", !.cut = 1..issued]
  <1>1. TypeOK /\ Bonds /\ Cut /\ DeletedStaysDeleted /\ NoOrphanDemand
    BY Parts, Zenon
  <1>2. /\ cmd' = [c \in Commands |-> IF Outstanding(c) THEN Cancelled(c) ELSE cmd[c]]
        /\ pending' = IF pending \in Commands /\ Outstanding(pending) THEN None ELSE pending
        /\ del' = [del EXCEPT ![d] = r]
        /\ UNCHANGED <<issued, route, hwm, exec, faults, gone, erased>>
    BY Zenon DEF Cancel
  <1>3. Quiet /\ \A c \in Commands : cmd[c].st # "absent" => Ended(c)'
    BY <1>1, <1>2, CancelRows, Zenon
  <1>4. 1..issued \in SUBSET Commands /\ \A c \in 1..issued : cmd[c].st # "absent"
    <2>1. issued \in Nat /\ issued <= MaxCommands
      BY <1>1, QueueAssumption DEF TypeOK
    <2>2. QED
      BY <1>1, <2>1, QueueAssumption DEF Commands, Bonds, Rows
  <1>5. r \in Deletion /\ r.pc = "read" /\ r.cut = 1..issued
    BY <1>1, <1>4, DeletionFields, Zenon
  <1> HIDE DEF r
  <1>6. /\ del' \in [Deleters -> Deletion] /\ del'[d] = r
        /\ \A e \in Deleters \ {d} : del'[e] = del[e]
    BY <1>1, <1>2, <1>5, OneDeletion, Zenon
  <1>7. SameRoute /\ route' \in Route /\ erased' \subseteq Commands
    BY <1>1, <1>2, Zenon DEF SameRoute, Exists, TypeOK
  <1>8. \A c \in Commands : Ended(c) => Ended(c)'
    BY <1>1, <1>3, QuietStates, Zenon
  <1>9. Cut'
    <2>1. erased \subseteq Commands /\ \A e \in Deleters : del[e].cut \subseteq Commands
      BY <1>1 DEF TypeOK, Deletion
    <2>2. \A c \in erased' : Ended(c)'
      BY <1>1, <1>2, <1>8, <2>1, Zenon DEF Cut
    <2>3. ASSUME NEW e \in Deleters
          PROVE  /\ \A c \in del'[e].cut : Ended(c)'
                 /\ del'[e].pc = "proxy" /\ Exists' /\ route'.gen # del'[e].gen => route'.by \notin del'[e].cut
      <3>1. CASE e = d
        BY <1>3, <1>4, <1>5, <1>6, <3>1, Zenon
      <3>2. CASE e # d
        BY <1>1, <1>2, <1>6, <1>8, <2>1, <3>2, Zenon DEF Cut, Exists
      <3>3. QED
        BY <3>1, <3>2, Zenon
    <2>4. QED
      BY <2>2, <2>3, Zenon DEF Cut
  <1>10. DeletedStaysDeleted'
    BY <1>1, <1>2, Zenon DEF DeletedStaysDeleted, Exists
  <1>11. NoOrphanDemand' /\ pending' \in 0..(MaxCommands + 1)
    <2>1. None \notin Commands /\ None \in 0..(MaxCommands + 1)
      BY QueueAssumption DEF None, Commands
    <2>2. pending' = None \/ (pending' = pending /\ pending \notin Commands)
      BY <1>1, <1>2, Zenon DEF NoOrphanDemand
    <2>3. pending \in 0..(MaxCommands + 1)
      BY <1>1, Zenon DEF TypeOK
    <2>4. QED
      BY <2>1, <2>2, <2>3, Zenon DEF NoOrphanDemand
  <1>12. QED
    BY <1>2, <1>3, <1>6, <1>7, <1>9, <1>10, <1>11, DeleteStays, Zenon

\* A DELETE that changes its own record only, and keeps what it cut.
LEMMA DeleteMoves ==
  ASSUME IInv, NEW d \in Deleters, NEW r \in Deletion, del' = [del EXCEPT ![d] = r],
         r.cut \subseteq del[d].cut,
         r.pc # "proxy" \/ r.gen = route.gen,
         SameRoute, route' \in Route,
         UNCHANGED <<cmd, issued, hwm, pending, exec, faults, gone>>,
         erased' = erased \/ (~Exists /\ erased' = erased \cup del[d].cut)
                          \/ (route.by \notin del[d].cut /\ erased' = erased \cup del[d].cut)
  PROVE  Preserved
  <1>1. TypeOK /\ Cut /\ DeletedStaysDeleted /\ NoOrphanDemand
    BY Parts, Zenon
  <1>2. Quiet /\ Alive
    BY <1>1, SameRows, Zenon
  <1>3. /\ del' \in [Deleters -> Deletion] /\ del'[d] = r
        /\ \A e \in Deleters \ {d} : del'[e] = del[e]
    BY <1>1, OneDeletion, Zenon
  <1>4. erased \subseteq Commands /\ del[d].cut \subseteq Commands
    BY <1>1, DeletionFields, Zenon DEF TypeOK
  <1>5. erased' \subseteq Commands /\ \A c \in erased' : Ended(c)
    BY <1>1, <1>4, Zenon DEF Cut
  <1>6. Cut'
    <2>1. \A c \in erased' : Ended(c)'
      BY <1>5, Zenon DEF Ended
    <2>2. ASSUME NEW e \in Deleters
          PROVE  /\ \A c \in del'[e].cut : Ended(c)'
                 /\ del'[e].pc = "proxy" /\ Exists' /\ route'.gen # del'[e].gen => route'.by \notin del'[e].cut
      <3>1. CASE e = d
        BY <1>1, <1>3, <3>1, Zenon DEF Cut, Ended, SameRoute
      <3>2. CASE e # d
        BY <1>1, <1>3, <3>2, Zenon DEF Cut, Ended, SameRoute
      <3>3. QED
        BY <3>1, <3>2, Zenon
    <2>3. QED
      BY <2>1, <2>2, Zenon DEF Cut
  <1>7. DeletedStaysDeleted'
    <2>1. Exists' => Exists /\ route'.by = route.by
      BY Zenon DEF SameRoute
    <2>2. erased' = erased \/ ~Exists \/ (route.by \notin del[d].cut /\ erased' = erased \cup del[d].cut)
      BY Zenon
    <2>3. Exists => route.by \notin erased'
      BY <1>1, <2>2, Zenon DEF DeletedStaysDeleted
    <2>4. QED
      BY <2>1, <2>3, Zenon DEF DeletedStaysDeleted
  <1>8. NoOrphanDemand' /\ pending' \in 0..(MaxCommands + 1)
    BY <1>1, <1>2, DemandStays, Zenon
  <1>9. QED
    BY <1>2, <1>3, <1>5, <1>6, <1>7, <1>8, DeleteStays, Zenon

\* The rest of a DELETE.
LEMMA DeleteStep ==
  ASSUME IInv, NEW d \in Deleters,
         DeleteRead(d) \/ DeleteAbsent(d) \/ DeletePrepare(d) \/ DeleteCommit(d)
  PROVE  Preserved
  <1>1. TypeOK /\ Cut /\ route.gen \in 0..MaxGeneration /\ route \in Route
    BY Parts, RouteFields, Zenon
  <1>2. SameRoute \/ route' # route
    BY Zenon DEF SameRoute, Exists
  <1>3. Idle \in Deletion /\ Idle.pc = "idle" /\ Idle.cut = {}
    BY <1>1, DeletionFields, Zenon
  <1>4. CASE DeleteRead(d)
    <2>1. PICK p \in {"absent", "present"} : del' = [del EXCEPT ![d].pc = p]
      BY <1>4, Zenon DEF DeleteRead
    <2>2. UNCHANGED <<cmd, issued, route, hwm, pending, exec, faults, gone, erased>>
      BY <1>4, Zenon DEF DeleteRead
    <2> DEFINE r == [del[d] EXCEPT !.pc = p]
    <2>3. del' = [del EXCEPT ![d] = r]
      BY <2>1, Zenon
    <2>4. r \in Deletion /\ r.pc # "proxy" /\ r.cut = del[d].cut
      BY <1>1, DeletionFields, ZenonT(30)
    <2> HIDE DEF r
    <2>5. QED
      BY <1>1, <1>2, <2>2, <2>3, <2>4, DeleteMoves, Zenon
  <1>5. ASSUME Removed, Acknowledge(d), UNCHANGED <<cmd, issued, hwm, exec, faults>>
        PROVE  Preserved
    <2>1. del' = [del EXCEPT ![d] = Idle] /\ erased' = erased \cup del[d].cut
      BY <1>5, Zenon DEF Acknowledge
    <2>2. /\ del' \in [Deleters -> Deletion] /\ del'[d] = Idle
          /\ \A e \in Deleters \ {d} : del'[e] = del[e]
      BY <1>1, <1>3, <2>1, OneDeletion, Zenon
    <2>3. erased \subseteq Commands /\ del[d].cut \subseteq Commands
      BY <1>1, DeletionFields, Zenon DEF TypeOK
    <2>4. erased' \subseteq Commands /\ \A c \in erased' : Ended(c)
      BY <1>1, <2>1, <2>3, Zenon DEF Cut
    <2>5. \A e \in Deleters : \A c \in del'[e].cut : Ended(c)
      BY <1>1, <1>3, <2>2, Zenon DEF Cut
    <2>6. QED
      BY <1>5, <2>2, <2>4, <2>5, RemovedStep, Zenon
  <1>6. ASSUME Acknowledge(d), UNCHANGED <<cmd, issued, route, hwm, pending, exec, faults, gone>>,
               ~Exists \/ route.by \notin del[d].cut
        PROVE  Preserved
    BY <1>1, <1>2, <1>3, <1>6, DeleteMoves, Zenon DEF Acknowledge
  <1>7. CASE DeleteAbsent(d)
    BY <1>5, <1>7, Zenon DEF DeleteAbsent
  <1>8. CASE DeletePrepare(d) /\ Exists
    <2> DEFINE r == [del[d] EXCEPT !.pc = "proxy", !.gen = route.gen]
    <2>1. /\ route' = [route EXCEPT !.del = TRUE]
          /\ del' = [del EXCEPT ![d].pc = "proxy", ![d].gen = route.gen]
          /\ UNCHANGED <<cmd, issued, hwm, pending, exec, faults, gone, erased>>
      BY <1>8, Zenon DEF DeletePrepare
    <2>2. SameRoute /\ route' \in Route
      BY <1>1, <2>1, RouteFields, Zenon DEF SameRoute, Exists
    <2>3. del' = [del EXCEPT ![d] = r]
      BY <2>1, Zenon
    <2>4. r \in Deletion /\ r.gen = route.gen /\ r.cut = del[d].cut
      BY <1>1, DeletionFields, ZenonT(30)
    <2> HIDE DEF r
    <2>5. QED
      BY <2>1, <2>2, <2>3, <2>4, DeleteMoves, Zenon
  <1>9. CASE DeletePrepare(d) /\ ~Exists
    BY <1>6, <1>9, Zenon DEF DeletePrepare
  <1>10. CASE DeleteCommit(d)
    <2>1. del[d].pc = "proxy" /\ UNCHANGED <<cmd, issued, hwm, exec, faults>>
      BY <1>10, Zenon DEF DeleteCommit
    <2>2. CASE Exists /\ route.gen = del[d].gen /\ Removed /\ Acknowledge(d)
      BY <1>5, <2>1, <2>2, Zenon
    <2>3. CASE ~(Exists /\ route.gen = del[d].gen) /\ UNCHANGED <<route, pending, gone>> /\ Acknowledge(d)
      BY <1>1, <1>6, <2>1, <2>3, Zenon DEF Cut
    <2>4. CASE del' = [del EXCEPT ![d] = Idle] /\ UNCHANGED <<route, pending, gone, erased>>
      BY <1>1, <1>2, <1>3, <2>1, <2>4, DeleteMoves, Zenon
    <2>5. QED
      BY <1>10, <2>2, <2>3, <2>4, Zenon DEF DeleteCommit
  <1>11. QED
    BY <1>4, <1>7, <1>8, <1>9, <1>10, Zenon

-----------------------------------------------------------------------------
(* The theorems                                                              *)

\* The invariant holds at the start.
LEMMA InitOK == Init => IInv
  <1> SUFFICES ASSUME Init PROVE IInv
    OBVIOUS
  <1>1. /\ cmd = [c \in Commands |-> Absent] /\ exec = [t \in Slots |-> Free]
        /\ del = [d \in Deleters |-> Idle] /\ route = NoRoute /\ pending = None
        /\ issued = 0 /\ hwm = 0 /\ faults = 0 /\ gone = {} /\ erased = {}
    BY Zenon DEF Init
  <1>2. Absent \in Command /\ Absent.st = "absent" /\ Absent.gen = 0
    BY QueueAssumption, SMTT(20) DEF Absent, Command, Results, NoKey
  <1>3. Free \in Execution /\ Free.pc = "free" /\ Free.held = FALSE
    BY FreeFields, Zenon DEF Free
  <1>4. NoRoute \in Route /\ ~Exists
    BY <1>1, NoRouteFields, Zenon DEF Exists
  <1>5. Idle \in Deletion /\ Idle.pc = "idle" /\ Idle.cut = {}
    BY QueueAssumption, SMTT(20) DEF Idle, Deletion
  <1>6. /\ 0 \in 0..MaxCommands /\ 0 \in 0..MaxGeneration /\ 0 \in 0..MaxFaults
        /\ None \in 0..(MaxCommands + 1) /\ None \notin Commands
    BY QueueAssumption DEF None, Commands
  <1>7. \A c \in Commands : cmd[c].st = "absent" /\ cmd[c].gen = 0
    BY <1>1, <1>2, Zenon
  <1>8. TypeOK
    BY <1>1, <1>2, <1>3, <1>4, <1>5, <1>6, Zenon DEF TypeOK
  <1>9. Bonds
    <2>1. Rows
      BY <1>1, <1>7, QueueAssumption DEF Rows, Commands
    <2>2. route.gen <= hwm
      BY <1>1 DEF NoRoute
    <2>3. Routed
      BY <1>4, <2>2, Zenon DEF Routed
    <2>4. Left /\ BoundToItsRoute
      BY <1>1, <1>4, Zenon DEF Left, BoundToItsRoute
    <2>5. QED
      BY <2>1, <2>3, <2>4, Zenon DEF Bonds
  <1>10. Executing /\ Cut
    <2>1. \A t \in Slots : exec[t] = Free
      BY <1>1, Zenon
    <2>2. \A d \in Deleters : del[d] = Idle
      BY <1>1, Zenon
    <2>3. Cut
      BY <1>1, <1>4, <1>5, <2>2, Zenon DEF Cut
    <2>4. QED
      BY <1>3, <2>1, <2>3, Zenon DEF Executing
  <1>11. DeletedStaysDeleted /\ NoOrphanDemand
    BY <1>1, <1>4, <1>6, Zenon DEF DeletedStaysDeleted, NoOrphanDemand
  <1>12. QED
    BY <1>8, <1>9, <1>10, <1>11, Zenon DEF IInv

\* Every step of the queue, the cells and the clients keeps it.
LEMMA NextOK ==
  ASSUME IInv, Next
  PROVE  Preserved
  <1>1. ASSUME NEW k \in Keys, Submit(k) PROVE Preserved
    BY <1>1, SubmitStep, Zenon
  <1>2. ASSUME NEW t \in Slots, NEW c \in Commands, Claim(t, c) PROVE Preserved
    BY <1>2, ClaimStep, Zenon
  <1>3. ASSUME NEW t \in Slots, Handler(t) PROVE Preserved
    BY <1>3, CheckStep, MoveStep, PlacedStep, ConfirmStep, RetargetStep, ReleaseStep, TaskStep, Zenon
       DEF Handler
  <1>4. ASSUME NEW t \in Slots, Renew(t) \/ LoseConnection(t) \/ Crash(t) PROVE Preserved
    BY <1>4, TaskStep, MoveStep, Zenon
  <1>5. ASSUME NEW d \in Deleters, Delete(d) PROVE Preserved
    BY <1>5, CancelStep, DeleteStep, Zenon DEF Delete
  <1>6. ASSUME NEW c \in Commands, Prune(c) \/ Deadline(c) \/ Expire(c) PROVE Preserved
    BY <1>6, TimeStep, Zenon
  <1>7. CASE Lose \/ ExpireDemand
    BY <1>7, LossStep, Zenon
  <1>8. QED
    BY <1>1, <1>2, <1>3, <1>4, <1>5, <1>6, <1>7, Zenon DEF Next

\* A stuttering step keeps it as well.
LEMMA StepOK ==
  ASSUME IInv, [Next]_vars
  PROVE  IInv'
  <1>1. CASE Next
    BY <1>1, NextOK, Zenon DEF Preserved
  <1>2. CASE UNCHANGED vars
    BY <1>2, Zenon DEF vars, IInv, TypeOK, Bonds, Rows, Routed, Left, BoundToItsRoute, Executing, Cut,
       DeletedStaysDeleted, NoOrphanDemand, Exists, Outstanding, Ended
  <1>3. QED
    BY <1>1, <1>2, Zenon

\* The inductive invariant holds in every reachable state of the placement
\* queue, for any number of create commands, worker slots and deletes.
THEOREM Invariance == Spec => []IInv
  <1>1. IInv /\ [Next]_vars => IInv'
    BY StepOK, Zenon
  <1>2. QED
    BY <1>1, InitOK, PTL DEF Spec

\* Type correctness: every row, task, route and deletion stays in its domain
\* (the columns of create_commands and the records the handlers keep).
THEOREM TypeCorrect == Spec => []TypeOK
  <1>1. IInv => TypeOK
    BY Zenon DEF IInv
  <1>2. QED
    BY <1>1, Invariance, PTL

\* Once a DELETE is acknowledged, no route of a create accepted before it
\* exists (cancel_create_commands, prepare_delete, delete_sandbox_if_current).
THEOREM Deleted == Spec => []DeletedStaysDeleted
  <1>1. IInv => DeletedStaysDeleted
    BY Zenon DEF IInv
  <1>2. QED
    BY <1>1, Invariance, PTL

\* The command that wrote the route is bound to it while it can be replayed
\* (_bind_command commits with the route).
THEOREM Binding == Spec => []BoundToItsRoute
  <1>1. IInv => BoundToItsRoute
    BY Zenon DEF IInv, Bonds
  <1>2. QED
    BY <1>1, Invariance, PTL

\* Queued demand always belongs to a create that is outstanding: whatever
\* answers, cancels or prunes the command takes its demand away.
THEOREM DemandIsOwned == Spec => []NoOrphanDemand
  <1>1. IInv => NoOrphanDemand
    BY Zenon DEF IInv
  <1>2. QED
    BY <1>1, Invariance, PTL

\* A command whose incarnation somebody else removed never allocates another
\* one, however often it is replayed (the bound generation is checked before
\* a placement is published).
THEOREM Replay == Spec => ReplayNeverRecreates
  <1>1. IInv /\ [Next]_vars => [hwm' > hwm => route'.by \notin gone]_vars
    BY NextOK, Zenon DEF Preserved
  <1>2. QED
    BY <1>1, Invariance, PTL DEF Spec, ReplayNeverRecreates

\* A command that has an answer keeps it until it is pruned: no later
\* execution, cancellation or expiry writes another one.
THEOREM OneAnswer == Spec => AnsweredOnce
  <1>1. IInv /\ [Next]_vars =>
          [\A c \in Commands :
             Ended(c) => \/ cmd'[c].st = "pruned"
                         \/ cmd'[c].st = "done" /\ cmd'[c].res = cmd[c].res]_vars
    BY NextOK, Zenon DEF Preserved, Final
  <1>2. QED
    BY <1>1, Invariance, PTL DEF Spec, AnsweredOnce
=============================================================================
