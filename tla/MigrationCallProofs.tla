-------------------------- MODULE MigrationCallProofs -------------------------
(* The inductive invariant of Migration, and what the calls that reach a       *)
(* worker, the waking and the parking do to it, for any workers, handlers and  *)
(* bounds.                                                                     *)
(*                                                                             *)
(* The invariant holds for callers of both disciplines.  Nothing else is in    *)
(* flight when a worker rolls back, so every call names the one migration that *)
(* is at work or has just ended.  Nobody repeats a migration after a worker    *)
(* has begun to undo it, so a snapshot once taken stays the latest until the   *)
(* route is switched or the migration is over.                                 *)
EXTENDS Migration, TLAPS

-----------------------------------------------------------------------------
(* Types                                                                     *)

Advancing == {"plan", "prepare", "import", "route", "activate", "finalize", "complete"}
Undoing == {"undo_import", "undo_move"}
Deleting == {"resolve", "send", "delete"}

\* A migration that has begun has two workers.
Whole(e) == e.phase # "none" => e.src \in Nodes /\ e.dst \in Nodes /\ e.src # e.dst

\* The phase of the entry at each step of a handler.
Due(p, c) ==
  /\ p \in {"plan", "prepare"} => c.phase = "planned"
  /\ p = "import" => c.phase = "prepared"
  /\ p = "route" => c.phase = "staged"
  /\ p = "activate" => c.phase = "routed"
  /\ p = "finalize" => c.phase = "activated" /\ c.fenced
  /\ p = "complete" => c.phase = "activated" /\ ~c.fenced
  /\ p = "undo_move" => c.phase \in Uncommitted
  /\ p = "undo_import" => c.phase \in {"prepared", "staged"}

\* What a handler carries.
Carries(x) ==
  /\ Whole(x.c)
  /\ Due(x.pc, x.c)
  /\ x.pc \in Advancing \cup Undoing => x.m \in Migrations /\ x.to = Target(x.pc, x.c)
  /\ x.pc = "delete" => x.to \in Nodes

\* The types, and what they rest on.
JournalOK == journal \in [Migrations -> Entry] /\ \A m \in Migrations : Whole(journal[m])

HandsOK == hand \in [Handlers -> Handler] /\ \A h \in Handlers : Carries(hand[h])
StraysOK == stray \subseteq Call /\ \A k \in stray : k.op \in Undoing => k.m \in Migrations
Typed == TypeOK /\ JournalOK /\ HandsOK /\ StraysOK

-----------------------------------------------------------------------------
(* Records                                                                   *)

Phases == Uncommitted \cup Committed \cup {"none", "complete"}
Steps == Calls \cup {"idle", "plan", "route", "complete", "close", "resolve", "send", "drop"}

\* The fields of a journal entry.
LEMMA EntryTyped ==
  ASSUME NEW c \in Entry
  PROVE  /\ c.phase \in Phases /\ c.src \in Nodes \cup {NoNode} /\ c.dst \in Nodes \cup {NoNode}
         /\ c.fenced \in BOOLEAN /\ c.snap \in Versions
  BY SMT DEF Entry, Phases

\* One of them changes.
LEMMA EntryField ==
  ASSUME NEW c \in Entry
  PROVE  /\ \A p \in Phases : [c EXCEPT !.phase = p] \in Entry
         /\ \A n \in Nodes \cup {NoNode} : [c EXCEPT !.src = n] \in Entry /\ [c EXCEPT !.dst = n] \in Entry
         /\ \A b \in BOOLEAN : [c EXCEPT !.fenced = b] \in Entry
         /\ \A v \in Versions : [c EXCEPT !.snap = v] \in Entry
  <1>1. \A p \in Phases : [c EXCEPT !.phase = p] \in Entry
    BY SMT DEF Entry, Phases
  <1>2. \A n \in Nodes \cup {NoNode} : [c EXCEPT !.src = n] \in Entry /\ [c EXCEPT !.dst = n] \in Entry
    BY SMT DEF Entry
  <1>3. \A b \in BOOLEAN : [c EXCEPT !.fenced = b] \in Entry
    BY SMT DEF Entry
  <1>4. \A v \in Versions : [c EXCEPT !.snap = v] \in Entry
    BY SMT DEF Entry
  <1>5. QED
    BY <1>1, <1>2, <1>3, <1>4, Zenon

\* The fields of a handler.
LEMMA HandlerTyped ==
  ASSUME NEW x \in Handler
  PROVE  /\ x.pc \in Steps /\ x.kind \in {"post", "soft", "cancel", "delete"}
         /\ x.m \in Migrations \cup {NoMigration} /\ x.c \in Entry
         /\ x.to \in Nodes \cup {NoNode} /\ x.re \in {"none", "ok", "error"}
  BY SMT DEF Handler, Steps

\* One of them changes.
LEMMA HandlerField ==
  ASSUME NEW x \in Handler
  PROVE  /\ \A p \in Steps : [x EXCEPT !.pc = p] \in Handler
         /\ \A c \in Entry : [x EXCEPT !.c = c] \in Handler
         /\ \A t \in Nodes \cup {NoNode} : [x EXCEPT !.to = t] \in Handler
         /\ \A r \in {"none", "ok", "error"} : [x EXCEPT !.re = r] \in Handler
  <1>1. \A p \in Steps : [x EXCEPT !.pc = p] \in Handler
    BY SMT DEF Handler, Steps
  <1>2. \A c \in Entry : [x EXCEPT !.c = c] \in Handler
    BY SMT DEF Handler
  <1>3. \A t \in Nodes \cup {NoNode} : [x EXCEPT !.to = t] \in Handler
    BY SMT DEF Handler
  <1>4. \A r \in {"none", "ok", "error"} : [x EXCEPT !.re = r] \in Handler
    BY SMT DEF Handler
  <1>5. QED
    BY <1>1, <1>2, <1>3, <1>4, Zenon

\* The worker a step calls.
LEMMA TargetTyped ==
  ASSUME NEW p, NEW c \in Entry
  PROVE  /\ Target(p, c) \in Nodes \cup {NoNode}
         /\ p \in SourceCalls => Target(p, c) = c.src
         /\ p \in DestinationCalls => Target(p, c) = c.dst
  <1>1. c.src \in Nodes \cup {NoNode} /\ c.dst \in Nodes \cup {NoNode}
    BY EntryTyped, Zenon
  <1>2. QED
    BY <1>1, SMT DEF Target, SourceCalls, DestinationCalls

\* An answer, or none, comes back.
LEMMA HearFields ==
  ASSUME hand \in [Handlers -> Handler], NEW h \in Handlers, NEW a \in {"ok", "error"},
         hand' = [hand EXCEPT ![h].re = a]
  PROVE  /\ hand' \in [Handlers -> Handler]
         /\ hand'[h].pc = hand[h].pc /\ hand'[h].c = hand[h].c /\ hand'[h].to = hand[h].to
         /\ hand'[h].re = a /\ hand'[h].kind = hand[h].kind /\ hand'[h].m = hand[h].m
         /\ \A g \in Handlers \ {h} : hand'[g] = hand[g]
  <1> DEFINE x == hand[h]
             y == [x EXCEPT !.re = a]
  <1>1. x \in Handler
    BY Zenon
  <1>2. hand' = [hand EXCEPT ![h] = y]
    BY Zenon
  <1> HIDE DEF x
  <1>3. y.pc = x.pc /\ y.c = x.c /\ y.to = x.to /\ y.re = a /\ y.kind = x.kind /\ y.m = x.m
    BY <1>1, SMT DEF Handler
  <1>4. y \in Handler
    BY <1>1, SMT DEF Handler
  <1> HIDE DEF y
  <1>5. hand'[h] = y /\ hand' \in [Handlers -> Handler] /\ \A g \in Handlers \ {h} : hand'[g] = hand[g]
    BY <1>2, <1>4, Zenon
  <1>6. QED
    BY <1>3, <1>5, Zenon DEF x

\* An answer with what it carries.
LEMMA ServedFields ==
  ASSUME hand \in [Handlers -> Handler], NEW h \in Handlers, NEW a \in {"ok", "error"},
         NEW v \in Versions, hand' = [hand EXCEPT ![h] = [@ EXCEPT !.re = a, !.c.snap = v]]
  PROVE  /\ hand' \in [Handlers -> Handler]
         /\ hand'[h].pc = hand[h].pc /\ hand'[h].c = [hand[h].c EXCEPT !.snap = v]
         /\ hand'[h].to = hand[h].to
         /\ hand'[h].re = a /\ hand'[h].kind = hand[h].kind /\ hand'[h].m = hand[h].m
         /\ \A g \in Handlers \ {h} : hand'[g] = hand[g]
  <1> DEFINE x == hand[h]
             d == [x.c EXCEPT !.snap = v]
             y == [x EXCEPT !.re = a, !.c = d]
  <1>1. x \in Handler /\ x.c \in Entry
    BY HandlerTyped, Zenon
  <1>2. hand' = [hand EXCEPT ![h] = y]
    BY Zenon
  <1>3. d \in Entry
    BY <1>1, EntryField, Zenon
  <1> HIDE DEF x, d
  <1>4. y.pc = x.pc /\ y.c = d /\ y.to = x.to /\ y.re = a /\ y.kind = x.kind /\ y.m = x.m
    BY <1>1, SMT DEF Handler
  <1>5. y \in Handler
    <2>1. [[x EXCEPT !.re = a] EXCEPT !.c = d] = y
      OBVIOUS
    <2>2. [[x EXCEPT !.re = a] EXCEPT !.c = d] \in Handler
      BY <1>1, <1>3, HandlerField, Zenon
    <2>3. QED
      BY <2>1, <2>2, Zenon
  <1> HIDE DEF y
  <1>6. hand'[h] = y /\ hand' \in [Handlers -> Handler] /\ \A g \in Handlers \ {h} : hand'[g] = hand[g]
    BY <1>2, <1>5, Zenon
  <1>7. QED
    BY <1>4, <1>6, Zenon DEF x, d

-----------------------------------------------------------------------------
(* What calls do                                                             *)

\* A registration.
LEMMA RegistrationTyped ==
  /\ NoReg \in Registration /\ NoReg.phase = "none"
  /\ \A p \in {"owned", "moving_out", "import", "import_ready", "deleting"} :
       \A m \in Migrations \cup {NoMigration} :
         /\ [phase |-> p, mig |-> m] \in Registration
         /\ [phase |-> p, mig |-> m].phase = p /\ [phase |-> p, mig |-> m].mig = m
  /\ \A r \in Registration :
       /\ r.phase \in {"none", "owned", "moving_out", "import", "import_ready", "deleting"}
       /\ r.mig \in Migrations \cup {NoMigration} /\ r = [phase |-> r.phase, mig |-> r.mig]
       /\ [r EXCEPT !.phase = "deleting"] \in Registration
       /\ [r EXCEPT !.phase = "deleting"].phase = "deleting"
       /\ [r EXCEPT !.phase = "deleting"].mig = r.mig
  <1>1. NoReg \in Registration /\ NoReg.phase = "none"
    BY SMT DEF NoReg, Registration
  <1>2. \A p \in {"owned", "moving_out", "import", "import_ready", "deleting"} :
          \A m \in Migrations \cup {NoMigration} :
            /\ [phase |-> p, mig |-> m] \in Registration
            /\ [phase |-> p, mig |-> m].phase = p /\ [phase |-> p, mig |-> m].mig = m
    BY SMT DEF Registration
  <1>3. \A r \in Registration :
          /\ r.phase \in {"none", "owned", "moving_out", "import", "import_ready", "deleting"}
          /\ r.mig \in Migrations \cup {NoMigration} /\ r = [phase |-> r.phase, mig |-> r.mig]
    BY SMT DEF Registration
  <1>4. \A r \in Registration :
          /\ [r EXCEPT !.phase = "deleting"] \in Registration
          /\ [r EXCEPT !.phase = "deleting"].phase = "deleting"
          /\ [r EXCEPT !.phase = "deleting"].mig = r.mig
    BY SMT DEF Registration
  <1>5. QED
    BY <1>1, <1>2, <1>3, <1>4, Zenon

\* The outcomes of each call.
LEMMA PrepareOutcome ==
  ASSUME NEW k, k.op = "prepare"
  PROVE  LET r == reg[k.to]
             o == Outcome(k) IN
         /\ \/ o.reg = r /\ o.re \in {"ok", "error"} /\ (o.re = "ok" => r.phase = "moving_out" /\ r.mig = k.m)
            \/ r.phase = "owned" /\ o.reg = [phase |-> "moving_out", mig |-> k.m] /\ o.re = "ok"
         /\ o.ends \in {r.mig, NoMigration}
  <1> DEFINE r == reg[k.to]
  <1>1. Outcome(k) = Prepared(r, k.to, k.m)
    BY Zenon DEF Outcome
  <1> HIDE DEF r
  <1>2. \/ r.phase = "moving_out" /\ r.mig = k.m /\ Prepared(r, k.to, k.m) = Stays(r, "ok")
        \/ Prepared(r, k.to, k.m) = Stays(r, "error")
        \/ r.phase = "owned" /\ Prepared(r, k.to, k.m) = [Becomes("moving_out", k.m) EXCEPT !.ends = r.mig]
    BY Zenon DEF Prepared, Refused
  <1>3. QED
    BY <1>1, <1>2, SMT DEF Stays, Becomes, Deleted, r

\* An import: refused, repeated, or the import made ready.
LEMMA ImportOutcome ==
  ASSUME NEW k, k.op = "import"
  PROVE  LET r == reg[k.to]
             o == Outcome(k) IN
         /\ \/ /\ o.reg = r /\ o.re \in {"ok", "error"}
               /\ o.re = "ok" => r.phase \in {"import_ready", "owned"} /\ r.mig = k.m
            \/ /\ r.phase = "none" \/ (r.phase = "import" /\ r.mig = k.m)
               /\ o.reg = [phase |-> "import_ready", mig |-> k.m] /\ o.re = "ok"
         /\ o.ends = NoMigration
  <1> DEFINE r == reg[k.to]
  <1>1. Outcome(k) = Imported(r, k.to, k.m)
    BY Zenon DEF Outcome
  <1> HIDE DEF r
  <1>2. \/ r.phase \in {"import_ready", "owned"} /\ r.mig = k.m /\ Imported(r, k.to, k.m) = Stays(r, "ok")
        \/ Imported(r, k.to, k.m) = Stays(r, "error")
        \/ /\ r.phase = "none" \/ (r.phase = "import" /\ r.mig = k.m)
           /\ Imported(r, k.to, k.m) = Becomes("import_ready", k.m)
    BY SMT DEF Imported, Refused
  <1>3. QED
    BY <1>1, <1>2, SMT DEF Stays, Becomes, Deleted, r

\* An activation: refused, or the import is owned.
LEMMA ActivateOutcome ==
  ASSUME NEW k, k.op = "activate"
  PROVE  LET r == reg[k.to]
             o == Outcome(k) IN
         /\ \/ o.reg = r /\ o.re = "error"
            \/ /\ r.phase \in {"import_ready", "owned"} /\ r.mig = k.m
               /\ o.reg = [phase |-> "owned", mig |-> k.m] /\ o.re = "ok"
         /\ o.ends = NoMigration
  <1> DEFINE r == reg[k.to]
  <1>1. Outcome(k) = ActivatedAt(r, k.m)
    BY Zenon DEF Outcome
  <1> HIDE DEF r
  <1>2. \/ ActivatedAt(r, k.m) = Stays(r, "error")
        \/ /\ r.phase \in {"import_ready", "owned"} /\ r.mig = k.m
           /\ ActivatedAt(r, k.m) = Becomes("owned", k.m)
    BY SMT DEF ActivatedAt, Refused
  <1>3. QED
    BY <1>1, <1>2, SMT DEF Stays, Becomes, Deleted, r

\* The end at the source: refused, already gone, or gone now.
LEMMA FinalizeOutcome ==
  ASSUME NEW k, k.op = "finalize"
  PROVE  LET r == reg[k.to]
             o == Outcome(k) IN
         /\ \/ o.reg = r /\ o.re \in {"ok", "error"} /\ (o.re = "ok" => r.phase = "none")
            \/ /\ r.phase = "deleting" \/ (r.phase = "moving_out" /\ r.mig = k.m)
               /\ o.reg = NoReg /\ o.re = "ok"
         /\ o.ends \in {r.mig, NoMigration}
  <1> DEFINE r == reg[k.to]
  <1>1. Outcome(k) = Finalized(r, k.m)
    BY Zenon DEF Outcome
  <1> HIDE DEF r
  <1>2. \/ r.phase = "none" /\ Finalized(r, k.m) = Stays(r, "ok")
        \/ Finalized(r, k.m) = Stays(r, "error")
        \/ /\ r.phase = "deleting" \/ (r.phase = "moving_out" /\ r.mig = k.m)
           /\ Finalized(r, k.m) = Deleted(r)
    BY SMT DEF Finalized, Refused
  <1>3. QED
    BY <1>1, <1>2, SMT DEF Stays, Becomes, Deleted, r

\* An import undone: refused, already gone, or gone now.
LEMMA UndoImportOutcome ==
  ASSUME NEW k, k.op = "undo_import"
  PROVE  LET r == reg[k.to]
             o == Outcome(k) IN
         /\ \/ o.reg = r /\ o.re \in {"ok", "error"} /\ (o.re = "ok" => r.phase = "none")
            \/ /\ r.phase = "deleting" \/ (r.phase \in {"import", "import_ready"} /\ r.mig = k.m)
               /\ o.reg = NoReg /\ o.re = "ok"
         /\ o.ends \in {r.mig, NoMigration}
  <1> DEFINE r == reg[k.to]
  <1>1. Outcome(k) = ImportAborted(r, k.m)
    BY Zenon DEF Outcome
  <1> HIDE DEF r
  <1>2. \/ r.phase = "none" /\ ImportAborted(r, k.m) = Stays(r, "ok")
        \/ ImportAborted(r, k.m) = Stays(r, "error")
        \/ /\ r.phase = "deleting" \/ (r.phase \in {"import", "import_ready"} /\ r.mig = k.m)
           /\ ImportAborted(r, k.m) = Deleted(r)
    BY SMT DEF ImportAborted, Refused
  <1>3. QED
    BY <1>1, <1>2, SMT DEF Stays, Becomes, Deleted, r

\* A move undone: refused, or owned again.
LEMMA UndoMoveOutcome ==
  ASSUME NEW k, k.op = "undo_move"
  PROVE  LET r == reg[k.to]
             o == Outcome(k) IN
         /\ \/ o.reg = r /\ o.re \in {"ok", "error"} /\ (o.re = "ok" => r.phase = "owned")
            \/ /\ r.phase = "moving_out" /\ r.mig = k.m
               /\ o.reg = [phase |-> "owned", mig |-> NoMigration] /\ o.re = "ok"
         /\ o.ends = NoMigration
  <1> DEFINE r == reg[k.to]
  <1>1. Outcome(k) = MoveAborted(r, k.m)
    BY Zenon DEF Outcome
  <1> HIDE DEF r
  <1>2. \/ r.phase = "owned" /\ MoveAborted(r, k.m) = Stays(r, "ok")
        \/ MoveAborted(r, k.m) = Stays(r, "error")
        \/ /\ r.phase = "moving_out" /\ r.mig = k.m
           /\ MoveAborted(r, k.m) = Becomes("owned", NoMigration)
    BY SMT DEF MoveAborted, Refused
  <1>3. QED
    BY <1>1, <1>2, SMT DEF Stays, Becomes, Deleted, r

\* A delete: refused, already gone, or gone now.
LEMMA DeleteOutcome ==
  ASSUME NEW k, k.op = "delete"
  PROVE  LET r == reg[k.to]
             o == Outcome(k) IN
         /\ \/ o.reg = r /\ o.re \in {"ok", "error"} /\ (o.re = "ok" => r.phase = "none")
            \/ r.phase \in {"owned", "deleting"} /\ o.reg = NoReg /\ o.re = "ok"
         /\ o.ends \in {r.mig, NoMigration}
  <1> DEFINE r == reg[k.to]
  <1>1. Outcome(k) = DeletedAt(r)
    BY Zenon DEF Outcome
  <1> HIDE DEF r
  <1>2. \/ r.phase = "none" /\ DeletedAt(r) = Stays(r, "ok")
        \/ DeletedAt(r) = Stays(r, "error")
        \/ r.phase \in {"owned", "deleting"} /\ DeletedAt(r) = Deleted(r)
    BY SMT DEF DeletedAt, Refused
  <1>3. QED
    BY <1>1, <1>2, SMT DEF Stays, Deleted, r

\* The outcome of any call is a registration and an answer.
LEMMA OutcomeTyped ==
  ASSUME reg \in [Nodes -> Registration], NEW k, k.op \in Calls, k.to \in Nodes,
         k.m \in Migrations \cup {NoMigration}
  PROVE  Outcome(k).reg \in Registration /\ Outcome(k).re \in {"ok", "error"}
  <1>1. /\ reg[k.to] \in Registration /\ NoReg \in Registration
        /\ [phase |-> "moving_out", mig |-> k.m] \in Registration
        /\ [phase |-> "import_ready", mig |-> k.m] \in Registration
        /\ [phase |-> "owned", mig |-> k.m] \in Registration
        /\ [phase |-> "owned", mig |-> NoMigration] \in Registration
    BY RegistrationTyped, Zenon
  <1>2. \/ k.op = "prepare" \/ k.op = "import" \/ k.op = "activate" \/ k.op = "finalize"
        \/ k.op = "undo_import" \/ k.op = "undo_move" \/ k.op = "delete"
    BY Zenon DEF Calls, SourceCalls, DestinationCalls
  <1>3. CASE k.op = "prepare"
    BY <1>1, <1>3, PrepareOutcome, Zenon
  <1>4. CASE k.op = "import"
    BY <1>1, <1>4, ImportOutcome, Zenon
  <1>5. CASE k.op = "activate"
    BY <1>1, <1>5, ActivateOutcome, Zenon
  <1>6. CASE k.op = "finalize"
    BY <1>1, <1>6, FinalizeOutcome, Zenon
  <1>7. CASE k.op = "undo_import"
    BY <1>1, <1>7, UndoImportOutcome, Zenon
  <1>8. CASE k.op = "undo_move"
    BY <1>1, <1>8, UndoMoveOutcome, Zenon
  <1>9. CASE k.op = "delete"
    BY <1>1, <1>9, DeleteOutcome, Zenon
  <1>10. QED
    BY <1>2, <1>3, <1>4, <1>5, <1>6, <1>7, <1>8, <1>9, Zenon

-----------------------------------------------------------------------------
(* What the types give                                                       *)

\* A handler's call.
LEMMA RequestTyped ==
  ASSUME Typed, NEW h \in Handlers, hand[h].pc \in Calls
  PROVE  /\ Request(h) \in Call /\ Request(h).op = hand[h].pc /\ Request(h).m = hand[h].m
         /\ Request(h).to = hand[h].to /\ Request(h).snap = hand[h].c.snap
         /\ hand[h].to \in Nodes
         /\ hand[h].pc \in Undoing => hand[h].m \in Migrations
  <1> DEFINE x == hand[h]
  <1>1. x \in Handler /\ Carries(x)
    BY Zenon DEF Typed, HandsOK
  <1> HIDE DEF x
  <1>2. /\ x.m \in Migrations \cup {NoMigration} /\ x.c \in Entry /\ x.c.snap \in Versions
    BY <1>1, HandlerTyped, EntryTyped, Zenon
  <1>3. x.pc \in SourceCalls \cup DestinationCalls \/ x.pc = "delete"
    BY Zenon DEF x, Calls
  <1>4. ASSUME x.pc \in SourceCalls \cup DestinationCalls PROVE x.to \in Nodes /\ x.m \in Migrations
    <2>1. x.pc \in Advancing \cup Undoing /\ x.c.phase # "none"
      BY <1>1, <1>4, SMT DEF SourceCalls, DestinationCalls, Advancing, Undoing, Carries, Due, Uncommitted
    <2>2. x.c.src \in Nodes /\ x.c.dst \in Nodes /\ x.to = Target(x.pc, x.c) /\ x.m \in Migrations
      BY <1>1, <2>1, Zenon DEF Carries, Whole
    <2>3. QED
      BY <1>2, <1>4, <2>2, TargetTyped, Zenon
  <1>5. x.to \in Nodes
    BY <1>1, <1>3, <1>4, Zenon DEF Carries
  <1>6. x.pc \in Undoing => x.m \in Migrations
    BY <1>1, Zenon DEF Carries
  <1>7. [op |-> x.pc, m |-> x.m, to |-> x.to, snap |-> x.c.snap] \in Call
    BY <1>2, <1>5, SMT DEF Call, x
  <1>8. QED
    BY <1>5, <1>6, <1>7, Zenon DEF Request, x

\* What a handler holds.
LEMMA HandParts ==
  ASSUME Typed, NEW h \in Handlers
  PROVE  /\ hand \in [Handlers -> Handler] /\ hand[h] \in Handler /\ Carries(hand[h])
         /\ hand[h].c \in Entry /\ Whole(hand[h].c) /\ Due(hand[h].pc, hand[h].c)
         /\ hand[h].pc \in Advancing \cup Undoing => hand[h].m \in Migrations
         /\ hand[h].kind \in {"post", "soft", "cancel", "delete"}
         /\ hand[h].m \in Migrations \cup {NoMigration}
  <1>1. hand \in [Handlers -> Handler] /\ hand[h] \in Handler /\ Carries(hand[h])
    BY Zenon DEF Typed, HandsOK
  <1>2. QED
    BY <1>1, HandlerTyped, Zenon DEF Carries

\* An entry of the journal.
LEMMA JournalParts ==
  ASSUME Typed, NEW m \in Migrations
  PROVE  journal \in [Migrations -> Entry] /\ journal[m] \in Entry /\ Whole(journal[m])
  BY Zenon DEF Typed, JournalOK

-----------------------------------------------------------------------------
(* The workers                                                               *)

At(n, phase, m) == reg[n].phase = phase /\ reg[n].mig = m
Empty(n) == reg[n].phase = "none"
Elsewhere(ns) == \A n \in Nodes \ ns : Empty(n)

\* The destination before the route is switched.
Importing(m, e) ==
  /\ Empty(e.dst) \/ At(e.dst, "import", m) \/ At(e.dst, "import_ready", m)
  /\ At(e.dst, "import_ready", m) => data[e.dst] = latest
  /\ e.phase = "staged" => At(e.dst, "import_ready", m)

\* It may have been undone, and if the source serves again it has been.
Discarding(m, e) ==
  /\ \/ Empty(e.dst) \/ At(e.dst, "import", m) \/ At(e.dst, "import_ready", m)
     \/ At(e.dst, "deleting", m)
  /\ reg[e.src].phase = "owned" => Empty(e.dst)

\* The route leads to the source; a detached sandbox has none.
Source(m, e) ==
  /\ route.at = e.src
  /\ e.fenced <=> e.phase # "planned" /\ route.ws = "attached"
  /\ route.ws = "detached" => Empty(e.src)
  /\ route.ws = "attached" =>
       /\ data[e.src] = latest
       /\ reg[e.src].phase = "owned" \/ At(e.src, "moving_out", m)
  /\ e.phase = "planned" => Empty(e.dst)
  /\ e.phase # "planned" /\ m \notin undoing =>
       /\ e.snap = latest
       /\ route.ws = "attached" => At(e.src, "moving_out", m)
       /\ Importing(m, e)
  /\ e.phase # "planned" /\ m \in undoing => Discarding(m, e)

\* The route leads to the destination, and the source serves no more.
Destination(m, e) ==
  /\ route.at = e.dst /\ route.ws = "attached"
  /\ m \notin undoing
  /\ data[e.dst] = latest
  /\ At(e.dst, "owned", m) \/ (e.phase = "routed" /\ At(e.dst, "import_ready", m))
  /\ \/ Empty(e.src)
     \/ e.fenced /\ At(e.src, "moving_out", m)
     \/ e.fenced /\ e.phase = "activated" /\ reg[e.src].phase = "deleting"

\* The workers while migration m is at work.
UnderWay(m) ==
  LET e == journal[m] IN
  /\ Exists
  /\ Elsewhere({e.src, e.dst})
  /\ e.phase \in Uncommitted => Source(m, e)
  /\ e.phase \in Committed => Destination(m, e)

\* The workers when none is.
AtRest ==
  /\ ~Exists => \A n \in Nodes : reg[n].phase # "owned"
  /\ Exists /\ route.ws = "detached" => \A n \in Nodes : Empty(n)
  /\ Exists /\ route.ws = "attached" =>
       /\ data[route.at] = latest
       /\ \/ reg[route.at].phase = "owned"
          \/ route.del /\ reg[route.at].phase \in {"deleting", "none"}
       /\ Elsewhere({route.at})

\* Migration m is over, and left its sandbox at the destination.
Moved(m) ==
  LET e == journal[m] IN
  /\ route.at = e.dst /\ Exists
  /\ At(e.dst, "owned", m)
  /\ Elsewhere({e.dst})

Inactive == \A m \in Migrations : ~Active(m)

World ==
  /\ \A m, k \in Migrations : Active(m) /\ Active(k) => m = k
  /\ \A m \in Migrations : Active(m) => UnderWay(m)
  /\ Inactive => AtRest
  /\ Exists /\ route.ws = "detached" => latest = 0 /\ route.snap = 0

-----------------------------------------------------------------------------
(* The requests                                                              *)

\* Migration m is the one that calls may name, and no worker undoes it.
Open(m) ==
  /\ m \notin undoing
  /\ \A k \in Migrations \ {m} : ~Active(k)
  /\ Active(m) \/ (journal[m].phase = "complete" /\ Moved(m))

\* The phases a journal may be in after a step was called in phase p.
From(p) ==
  CASE p = "planned" -> {"planned", "prepared", "staged", "routed", "activated", "complete"}
    [] p = "prepared" -> {"prepared", "staged", "routed", "activated", "complete"}
    [] p = "staged" -> {"staged", "routed", "activated", "complete"}
    [] p = "routed" -> {"routed", "activated", "complete"}
    [] p = "activated" -> {"activated", "complete"}
    [] OTHER -> {"complete"}

\* c was the journal's entry e, or is, but for an answer not yet recorded.
Copy(c, e) ==
  /\ c.src = e.src /\ c.dst = e.dst
  /\ e.phase \in From(c.phase)
  /\ c.phase # "planned" => c.fenced = e.fenced /\ c.snap = e.snap
  /\ c.phase = "planned" => c.fenced = FALSE

\* What a worker's answer says, to handler h.
Heard(h) ==
  LET x == hand[h] IN
  /\ x.pc = "prepare" /\ journal[x.m].phase = "planned" =>
       At(x.c.src, "moving_out", x.m) /\ x.c.snap = latest
  /\ x.pc = "import" => At(x.c.dst, "import_ready", x.m) \/ At(x.c.dst, "owned", x.m)
  /\ x.pc = "activate" => At(x.c.dst, "owned", x.m)
  /\ x.pc = "finalize" => Empty(x.c.src)
  /\ x.pc = "undo_import" => Empty(x.c.dst)
  /\ x.pc = "undo_move" => reg[x.c.src].phase = "owned" /\ Empty(x.c.dst)
  /\ x.pc = "delete" => Empty(x.to)

\* A handler that advances its migration.
Advances(h) ==
  LET x == hand[h] IN
  /\ Open(x.m)
  /\ Copy(x.c, journal[x.m])
  /\ x.kind # "post" => journal[x.m].phase = x.c.phase

\* A handler that rolls back or deletes.
RollsBack(h) ==
  LET x == hand[h] IN
  /\ x.kind # "post"
  /\ x.pc \in Undoing =>
       /\ journal[x.m].phase = x.c.phase
       /\ x.c.src = journal[x.m].src /\ x.c.dst = journal[x.m].dst
       /\ x.pc = "undo_move" => Empty(x.c.dst)
  /\ x.pc \in Deleting => x.kind = "delete"
  /\ x.pc = "resolve" => route.ws = "attached"
  /\ x.pc = "send" => x.re = "none" /\ (Inactive \/ route.ws = "detached")
  /\ x.pc = "delete" => Inactive /\ route.ws = "attached" /\ x.to = route.at

Fits(h) ==
  hand[h].pc # "idle" =>
    /\ hand[h].pc \in Advancing \cup Undoing \cup Deleting
    /\ hand[h].pc \in Advancing => Advances(h)
    /\ hand[h].pc \in Undoing \cup Deleting => RollsBack(h)
    /\ hand[h].kind = "delete" => Exists /\ route.del
    /\ hand[h].re = "ok" => Heard(h)

\* A handler that may roll back is alone.
Alone(h) ==
  /\ \A g \in Handlers \ {h} : hand[g].pc = "idle"
  /\ stray = {}

Apart == \A h \in Handlers : hand[h].pc # "idle" /\ hand[h].kind # "post" => Alone(h)
Handling == Apart /\ \A h \in Handlers : Fits(h)

\* A call that advances a migration.
Legit(k) ==
  LET e == journal[k.m] IN
  /\ k.m \in Migrations
  /\ k.op \in {"prepare", "import", "activate", "finalize"}
  /\ Open(k.m)
  /\ k.to = Target(k.op, e)
  /\ k.op = "import" => e.phase \in From("prepared") /\ k.snap = e.snap
  /\ k.op = "activate" => e.phase \in From("routed")
  /\ k.op = "finalize" => e.phase \in From("activated")

Astray == \A k \in stray : Legit(k)

\* The inductive invariant, for callers of both disciplines.
IInv == World /\ Handling /\ Astray

Disciplined == {"alone", "through"} \subseteq Discipline

-----------------------------------------------------------------------------
(* One migration at a time                                                   *)

Live == Uncommitted \cup Committed

\* A journal only goes on.
LEMMA FromFacts ==
  ASSUME NEW p \in Phases
  PROVE  /\ p \in From(p) \/ p = "none"
         /\ "planned" \in From(p) => p = "planned"
         /\ \A q, r \in Phases : q \in From(p) /\ r \in From(q) => r \in From(p)
         /\ From(p) \subseteq Phases
  <1>1. /\ From("planned") = {"planned", "prepared", "staged", "routed", "activated", "complete"}
        /\ From("prepared") = {"prepared", "staged", "routed", "activated", "complete"}
        /\ From("staged") = {"staged", "routed", "activated", "complete"}
        /\ From("routed") = {"routed", "activated", "complete"}
        /\ From("activated") = {"activated", "complete"}
        /\ From("complete") = {"complete"} /\ From("none") = {"complete"}
    BY SMT DEF From
  <1>2. \/ p = "planned" \/ p = "prepared" \/ p = "staged" \/ p = "routed" \/ p = "activated"
        \/ p = "complete" \/ p = "none"
    BY Zenon DEF Phases, Uncommitted, Committed
  <1>3. (p \in From(p) \/ p = "none") /\ ("planned" \in From(p) => p = "planned")
    BY <1>1, <1>2, SMT
  <1>4. \A q, r \in Phases : q \in From(p) /\ r \in From(q) => r \in From(p)
    BY <1>1, <1>2, SMT
  <1>5. From(p) \subseteq Phases
    BY <1>1, <1>2, SMT DEF Phases, Uncommitted, Committed
  <1>6. QED
    BY <1>3, <1>4, <1>5, Zenon

\* Handlers and calls that advance a migration name the same one.
LEMMA OpenOne ==
  ASSUME NEW m \in Migrations, NEW k \in Migrations, Open(m), Open(k)
  PROVE  m = k
  <1> SUFFICES ASSUME m # k PROVE FALSE
    OBVIOUS
  <1>1. ~Active(m) /\ ~Active(k)
    BY Zenon DEF Open
  <1>2. Moved(m) /\ Moved(k)
    BY <1>1, Zenon DEF Open
  <1>3. reg[route.at].mig = m /\ reg[route.at].mig = k
    BY <1>2, Zenon DEF Moved, At
  <1>4. QED
    BY <1>3, Zenon

\* What a step may do while a migration is open: the journal goes on, and what
\* a worker has answered stays true.
Onward(m) ==
  LET e == journal[m]
      f == journal'[m] IN
  /\ Open(m)'
  /\ f.src = e.src /\ f.dst = e.dst
  /\ f.phase \in From(e.phase)
  /\ e.phase # "planned" => f.fenced = e.fenced /\ f.snap = e.snap
  /\ f.phase = "planned" /\ At(e.src, "moving_out", m) =>
       latest' = latest /\ reg'[e.src].phase = "moving_out" /\ reg'[e.src].mig = m
  /\ At(e.dst, "import_ready", m) => reg'[e.dst].phase \in {"import_ready", "owned"} /\ reg'[e.dst].mig = m
  /\ At(e.dst, "owned", m) => reg'[e.dst].phase = "owned" /\ reg'[e.dst].mig = m
  /\ Empty(e.src) => reg'[e.src].phase = "none"

\* The parts of the advancing handlers.
LEMMA StepKinds ==
  /\ \A p \in Advancing : p \notin Undoing \cup Deleting /\ p # "idle"
  /\ \A p \in Undoing : p \notin Advancing /\ p \notin Deleting /\ p # "idle"
  /\ \A p \in Deleting : p \notin Advancing /\ p \notin Undoing /\ p # "idle"
  BY SMT DEF Advancing, Undoing, Deleting

\* A POST's handler advances an open migration.
LEMMA PostAdvances ==
  ASSUME Typed, NEW h \in Handlers, Fits(h), hand[h].pc # "idle", hand[h].kind = "post"
  PROVE  hand[h].pc \in Advancing /\ Advances(h) /\ hand[h].m \in Migrations /\ Open(hand[h].m)
  <1>1. hand[h].pc \in Advancing
    BY Zenon DEF Fits, RollsBack
  <1>2. hand[h].m \in Migrations
    BY <1>1, HandParts, Zenon
  <1>3. QED
    BY <1>1, <1>2, Zenon DEF Fits, Advances

\* ... and still fits when the migration goes on.
LEMMA OnwardFits ==
  ASSUME Typed, Typed', NEW m \in Migrations, Onward(m), NEW g \in Handlers, Fits(g), hand'[g] = hand[g],
         hand[g].pc # "idle" => hand[g].kind = "post" /\ hand[g].m = m
  PROVE  Fits(g)'
  <1> SUFFICES ASSUME hand[g].pc # "idle" PROVE Fits(g)'
    BY Zenon DEF Fits
  <1>1. hand[g].pc \in Advancing /\ Advances(g) /\ hand[g].kind = "post" /\ hand[g].m = m
    BY PostAdvances, Zenon
  <1>2. PICK x \in Handler : x = hand[g]
    BY HandParts, Zenon
  <1>3. PICK e \in Entry : e = journal[m]
    BY JournalParts, Zenon
  <1>4. PICK f : f = journal'[m] /\ f \in Entry
    BY Zenon DEF Typed, JournalOK
  <1>5. PICK c \in Entry : c = x.c
    BY <1>2, HandlerTyped, Zenon
  <1>6. x.pc \in Advancing /\ x.kind = "post" /\ x.m = m /\ hand'[g] = x /\ Copy(c, e)
    BY <1>1, <1>2, <1>3, <1>5, Zenon DEF Advances
  <1>7. /\ f.src = e.src /\ f.dst = e.dst /\ f.phase \in From(e.phase)
        /\ e.phase # "planned" => f.fenced = e.fenced /\ f.snap = e.snap
    BY <1>3, <1>4, Zenon DEF Onward
  <1>8. c.phase \in Phases /\ e.phase \in Phases /\ f.phase \in Phases
    BY <1>3, <1>4, <1>5, EntryTyped, Zenon
  <1>9. Copy(c, f)
    <2>1. f.phase \in From(c.phase) /\ (e.phase = "planned" => c.phase = "planned")
      BY <1>6, <1>7, <1>8, FromFacts, Zenon DEF Copy
    <2>2. QED
      BY <1>6, <1>7, <2>1, Zenon DEF Copy
  <1>10. Advances(g)'
    BY <1>4, <1>5, <1>6, <1>9, Zenon DEF Advances, Onward
  <1>11. x.re = "ok" => Heard(g)'
    <2> SUFFICES ASSUME x.re = "ok" PROVE Heard(g)'
      OBVIOUS
    <2>1. c.src = e.src /\ c.dst = e.dst
      BY <1>6, Zenon DEF Copy
    <2>2. Heard(g)
      BY <1>2, <1>1, Zenon DEF Fits
    <2>3. /\ x.pc = "prepare" /\ e.phase = "planned" => At(e.src, "moving_out", m) /\ c.snap = latest
          /\ x.pc = "import" => At(e.dst, "import_ready", m) \/ At(e.dst, "owned", m)
          /\ x.pc = "activate" => At(e.dst, "owned", m)
          /\ x.pc = "finalize" => Empty(e.src)
      BY <1>2, <1>3, <1>5, <1>6, <2>1, <2>2, Zenon DEF Heard
    <2>4. f.phase = "planned" => e.phase = "planned"
      BY <1>7, <1>8, FromFacts, Zenon
    <2>5. /\ x.pc = "prepare" /\ f.phase = "planned" =>
               reg'[e.src].phase = "moving_out" /\ reg'[e.src].mig = m /\ c.snap = latest'
          /\ x.pc = "import" => reg'[e.dst].phase \in {"import_ready", "owned"} /\ reg'[e.dst].mig = m
          /\ x.pc = "activate" => reg'[e.dst].phase = "owned" /\ reg'[e.dst].mig = m
          /\ x.pc = "finalize" => reg'[e.src].phase = "none"
      BY <1>3, <1>4, <2>3, <2>4, Zenon DEF Onward
    <2>6. x.pc \notin {"undo_import", "undo_move", "delete"}
      BY <1>6, SMT DEF Advancing
    <2>7. QED
      BY <1>4, <1>5, <1>6, <2>1, <2>5, <2>6, SMT DEF Heard, At, Empty
  <1>12. QED
    BY <1>6, <1>10, <1>11, StepKinds, Zenon DEF Fits

\* ... and so is a call in flight still legitimate.
LEMMA OnwardLegit ==
  ASSUME Typed, Typed', NEW m \in Migrations, Onward(m), NEW k, Legit(k), k.m = m
  PROVE  Legit(k)'
  <1>1. PICK e \in Entry : e = journal[m]
    BY JournalParts, Zenon
  <1>2. PICK f : f = journal'[m] /\ f \in Entry
    BY Zenon DEF Typed, JournalOK
  <1>3. /\ f.src = e.src /\ f.dst = e.dst /\ f.phase \in From(e.phase) /\ Open(m)'
        /\ e.phase # "planned" => f.fenced = e.fenced /\ f.snap = e.snap
    BY <1>1, <1>2, Zenon DEF Onward
  <1>4. /\ k.op \in {"prepare", "import", "activate", "finalize"}
        /\ k.to = Target(k.op, e)
        /\ k.op = "import" => e.phase \in From("prepared") /\ k.snap = e.snap
        /\ k.op = "activate" => e.phase \in From("routed")
        /\ k.op = "finalize" => e.phase \in From("activated")
    BY <1>1, Zenon DEF Legit
  <1>5. Target(k.op, e) = Target(k.op, f)
    BY <1>3, Zenon DEF Target
  <1>6. /\ e.phase \in Phases /\ f.phase \in Phases
        /\ "prepared" \in Phases /\ "routed" \in Phases /\ "activated" \in Phases
    BY <1>1, <1>2, EntryTyped, Zenon DEF Phases, Uncommitted, Committed
  <1>7. /\ k.op = "import" => f.phase \in From("prepared") /\ e.phase # "planned"
        /\ k.op = "activate" => f.phase \in From("routed")
        /\ k.op = "finalize" => f.phase \in From("activated")
    BY <1>3, <1>4, <1>6, FromFacts, Zenon
  <1>8. QED
    BY <1>2, <1>3, <1>4, <1>5, <1>7, Zenon DEF Legit

\* The step of a handler at work.
LEMMA HandStep ==
  ASSUME Typed, Typed', IInv, World', NEW h \in Handlers, hand[h].pc # "idle",
         \A g \in Handlers \ {h} : hand'[g] = hand[g],
         \A k \in stray' : k \in stray \/ (hand[h].kind = "post" /\ Legit(k)'),
         hand[h].kind = "post" => Onward(hand[h].m),
         Fits(h)', hand'[h].pc = "idle" \/ hand'[h].kind = hand[h].kind
  PROVE  IInv'
  <1>1. Apart /\ (\A g \in Handlers : Fits(g)) /\ Astray
    BY Zenon DEF IInv, Handling
  <1>2. CASE hand[h].kind # "post"
    <2>1. Alone(h)
      BY <1>1, <1>2, Zenon DEF Apart
    <2>2. stray' = {} /\ \A g \in Handlers \ {h} : hand'[g].pc = "idle"
      BY <1>2, <2>1, Zenon DEF Alone
    <2>3. Apart'
      BY <2>2, Zenon DEF Apart, Alone
    <2>4. \A g \in Handlers : Fits(g)'
      BY <2>2, Zenon DEF Fits
    <2>5. Astray'
      BY <2>2, Zenon DEF Astray
    <2>6. QED
      BY <2>3, <2>4, <2>5, Zenon DEF IInv, Handling
  <1>3. CASE hand[h].kind = "post"
    <2>1. PICK m \in Migrations : m = hand[h].m /\ Open(m) /\ Onward(m)
      BY <1>1, <1>3, PostAdvances, Zenon
    <2>2. ASSUME NEW g \in Handlers, hand[g].pc # "idle" PROVE hand[g].kind = "post"
      BY <1>1, <1>3, <2>2, Zenon DEF Apart, Alone
    <2>3. \A g \in Handlers : hand'[g].pc # "idle" => hand'[g].kind = "post"
      BY <1>3, <2>2, Zenon
    <2>4. Apart'
      BY <2>3, Zenon DEF Apart
    <2>5. ASSUME NEW g \in Handlers \ {h} PROVE Fits(g)'
      <3>1. hand[g].pc # "idle" => hand[g].kind = "post" /\ hand[g].m \in Migrations /\ Open(hand[g].m)
        BY <1>1, <2>2, PostAdvances, Zenon
      <3>2. hand[g].pc # "idle" => hand[g].m = m
        BY <2>1, <3>1, OpenOne, Zenon
      <3>3. QED
        BY <1>1, <2>1, <3>1, <3>2, OnwardFits, Zenon
    <2>6. ASSUME NEW k \in stray PROVE Legit(k)'
      <3>1. Legit(k) /\ k.m \in Migrations /\ Open(k.m)
        BY <1>1, Zenon DEF Astray, Legit
      <3>2. k.m = m
        BY <2>1, <3>1, OpenOne, Zenon
      <3>3. QED
        BY <2>1, <3>1, <3>2, OnwardLegit, Zenon
    <2>7. Astray'
      BY <2>6, ZenonT(30) DEF Astray
    <2>8. QED
      BY <2>4, <2>5, <2>7, Zenon DEF IInv, Handling
  <1>4. QED
    BY <1>2, <1>3, Zenon

-----------------------------------------------------------------------------
(* What a handler knows                                                      *)

\* The journal, the route and the workers stay as they are.
Calm == UNCHANGED <<journal, route, reg, data, latest, undoing>>

\* A step that leaves journal, route and registrations alone keeps the world,
LEMMA CalmWorld ==
  ASSUME World, Calm
  PROVE  World'
  BY SMTT(20) DEF World, Calm, Active, UnderWay, Source, Destination, Importing, Discarding, AtRest, Inactive,
     At, Empty, Elsewhere, Exists

\* what may be named,
LEMMA CalmOpen ==
  ASSUME NEW m, Calm
  PROVE  Open(m)' <=> Open(m)
  BY SMTT(20) DEF Open, Calm, Active, Moved, At, Empty, Elsewhere, Exists

\* and is onward.
LEMMA CalmOnward ==
  ASSUME Typed, NEW m \in Migrations, Open(m), Calm
  PROVE  Onward(m)
  <1>1. journal' = journal /\ reg' = reg /\ latest' = latest
    BY Zenon DEF Calm
  <1>2. journal[m].phase \in Phases /\ journal[m].phase # "none"
    BY JournalParts, EntryTyped, Zenon DEF Open, Active, Uncommitted, Committed
  <1>3. journal[m].phase \in From(journal[m].phase)
    BY <1>2, FromFacts, Zenon
  <1>4. Open(m)'
    BY CalmOpen, Zenon
  <1>5. QED
    BY <1>1, <1>3, <1>4, SMT DEF Onward, At, Empty

\* Handler h takes a step and the others do not.
Moves(h) ==
  /\ \A g \in Handlers \ {h} : hand'[g] = hand[g]
  /\ hand'[h].pc = "idle" \/ hand'[h].kind = hand[h].kind

\* A handler at work, opened up.
LEMMA AdvancingParts ==
  ASSUME Typed, NEW h \in Handlers, Fits(h), hand[h].pc \in Advancing
  PROVE  LET m == hand[h].m
             c == hand[h].c
             e == journal[m] IN
         /\ m \in Migrations /\ c \in Entry /\ e \in Entry /\ Open(m) /\ Copy(c, e) /\ Due(hand[h].pc, c)
         /\ Whole(c) /\ Whole(e)
         /\ c.phase \in Live /\ c.phase # "complete"
         /\ hand[h].kind # "post" => e.phase = c.phase
         /\ hand[h].kind = "delete" => Exists /\ route.del
         /\ hand[h].re = "ok" => Heard(h)
  <1>1. /\ hand[h].m \in Migrations /\ hand[h].c \in Entry /\ Due(hand[h].pc, hand[h].c) /\ Whole(hand[h].c)
    BY HandParts, Zenon
  <1>2. journal[hand[h].m] \in Entry /\ Whole(journal[hand[h].m])
    BY <1>1, JournalParts, Zenon
  <1>3. hand[h].c.phase \in Live /\ hand[h].c.phase # "complete"
    BY <1>1, SMT DEF Due, Advancing, Live, Uncommitted, Committed
  <1>4. /\ Advances(h)
        /\ hand[h].kind = "delete" => Exists /\ route.del
        /\ hand[h].re = "ok" => Heard(h)
    BY StepKinds, Zenon DEF Fits
  <1>5. QED
    BY <1>1, <1>2, <1>3, <1>4, Zenon DEF Advances

\* What a handler that rolls back knows.
LEMMA UndoingParts ==
  ASSUME Typed, NEW h \in Handlers, Fits(h), hand[h].pc \in Undoing
  PROVE  LET m == hand[h].m
             c == hand[h].c
             e == journal[m] IN
         /\ m \in Migrations /\ c \in Entry /\ e \in Entry /\ Due(hand[h].pc, c)
         /\ Whole(e) /\ e.phase = c.phase /\ c.src = e.src /\ c.dst = e.dst
         /\ e.phase \in Uncommitted /\ hand[h].kind # "post"
         /\ hand[h].pc = "undo_move" => Empty(c.dst)
         /\ hand[h].kind = "delete" => Exists /\ route.del
         /\ hand[h].re = "ok" => Heard(h)
  <1>1. /\ hand[h].m \in Migrations /\ hand[h].c \in Entry /\ Due(hand[h].pc, hand[h].c)
    BY HandParts, Zenon
  <1>2. journal[hand[h].m] \in Entry /\ Whole(journal[hand[h].m])
    BY <1>1, JournalParts, Zenon
  <1>3. hand[h].c.phase \in Uncommitted
    BY <1>1, SMT DEF Due, Undoing, Uncommitted
  <1>4. /\ RollsBack(h)
        /\ hand[h].kind = "delete" => Exists /\ route.del
        /\ hand[h].re = "ok" => Heard(h)
    BY StepKinds, Zenon DEF Fits
  <1>5. QED
    BY <1>1, <1>2, <1>3, <1>4, Zenon DEF RollsBack

\* A handler's call that advances its migration.
LEMMA RequestLegit ==
  ASSUME Typed, NEW h \in Handlers, Fits(h), hand[h].pc \in Advancing, hand[h].pc \in Calls
  PROVE  Legit(Request(h)) /\ Request(h).m = hand[h].m
  <1>1. PICK k : k = Request(h)
    BY Zenon
  <1>2. PICK x \in Handler : x = hand[h]
    BY HandParts, Zenon
  <1>3. k.op = x.pc /\ k.m = x.m /\ k.to = x.to /\ k.snap = x.c.snap
    BY <1>1, <1>2, RequestTyped, Zenon
  <1>4. PICK e \in Entry : e = journal[x.m]
    BY <1>2, AdvancingParts, Zenon
  <1>5. PICK c \in Entry : c = x.c
    BY <1>2, HandlerTyped, Zenon
  <1>6. /\ x.m \in Migrations /\ Open(x.m) /\ Copy(c, e) /\ Due(x.pc, c) /\ x.to = Target(x.pc, c)
    BY <1>2, <1>4, <1>5, AdvancingParts, HandParts, Zenon DEF Carries
  <1>7. Target(x.pc, c) = Target(x.pc, e)
    BY <1>6, Zenon DEF Copy, Target
  <1>8. x.pc \in {"prepare", "import", "activate", "finalize"}
    BY <1>2, SMT DEF Advancing, Calls, SourceCalls, DestinationCalls
  <1>9. /\ x.pc = "import" => e.phase \in From("prepared") /\ c.snap = e.snap
        /\ x.pc = "activate" => e.phase \in From("routed")
        /\ x.pc = "finalize" => e.phase \in From("activated")
    BY <1>6, SMT DEF Copy, Due
  <1>10. Legit(k)
    BY <1>3, <1>4, <1>5, <1>6, <1>7, <1>8, <1>9, Zenon DEF Legit
  <1>11. QED
    BY <1>1, <1>2, <1>3, <1>10, Zenon

\* What a handler that deletes knows.
LEMMA DeletingParts ==
  ASSUME Typed, NEW h \in Handlers, Fits(h), hand[h].pc \in Deleting
  PROVE  /\ RollsBack(h) /\ hand[h].kind = "delete" /\ Exists /\ route.del /\ hand[h].pc # "idle"
         /\ hand[h].re = "ok" => Heard(h)
  BY StepKinds, Zenon DEF Fits, RollsBack

-----------------------------------------------------------------------------
(* Calls                                                                     *)

\* What calls that advance a migration do to its workers.
Prepares(m, e) ==
  /\ reg[e.src].phase = "owned"
  /\ reg' = [reg EXCEPT ![e.src] = [phase |-> "moving_out", mig |-> m]]
  /\ data' = data

Imports(m, e) ==
  /\ e.phase \in From("prepared")
  /\ Empty(e.dst) \/ At(e.dst, "import", m)
  /\ \/ /\ reg' = [reg EXCEPT ![e.dst] = [phase |-> "import_ready", mig |-> m]]
        /\ data' = [data EXCEPT ![e.dst] = e.snap]
     \/ /\ reg' = [reg EXCEPT ![e.dst] = [phase |-> "import", mig |-> m]]
        /\ data' = data

Activates(m, e) ==
  /\ e.phase \in From("routed")
  /\ At(e.dst, "import_ready", m) \/ At(e.dst, "owned", m)
  /\ reg' = [reg EXCEPT ![e.dst] = [phase |-> "owned", mig |-> m]]
  /\ data' = data

Finalizes(m, e) ==
  /\ e.phase \in From("activated")
  /\ reg[e.src].phase = "deleting" \/ At(e.src, "moving_out", m)
  /\ \E q \in {NoReg, [reg[e.src] EXCEPT !.phase = "deleting"]} : reg' = [reg EXCEPT ![e.src] = q]
  /\ data' = data

\* A call that advances does one of these, or nothing.
LEMMA CallEffect ==
  ASSUME Typed, NEW k \in Call, Legit(k), Perform(k) \/ Halfway(k), NEW m \in Migrations, NEW e \in Entry,
         m = k.m, e = journal[m]
  PROVE  /\ undoing' = undoing
         /\ \/ reg' = reg /\ data' = data
            \/ Prepares(m, e) \/ Imports(m, e) \/ Activates(m, e) \/ Finalizes(m, e)
  <1>0. k.to \in Nodes /\ reg \in [Nodes -> Registration] /\ data \in [Nodes -> Versions]
    BY SMT DEF Call, Typed, TypeOK
  <1>1. k.op \in {"prepare", "import", "activate", "finalize"} /\ k.to = Target(k.op, e)
    BY Zenon DEF Legit
  <1>2. undoing' = undoing
    <2>1. k.op \notin {"undo_import", "undo_move"}
      BY <1>1, SMT
    <2>2. QED
      BY <2>1, Zenon DEF Perform, Halfway, Noted
  <1> DEFINE r == reg[k.to]
             o == Outcome(k)
  <1>3. Perform(k) => reg' = [reg EXCEPT ![k.to] = o.reg]
    BY Zenon DEF Perform
  <1>4. Perform(k) /\ (k.op # "import" \/ o.reg = r) => data' = data
    BY Zenon DEF Perform
  <1>5. Perform(k) /\ k.op = "import" /\ o.reg # r => data' = [data EXCEPT ![k.to] = k.snap]
    BY Zenon DEF Perform
  <1>6. Halfway(k) => /\ o.re = "ok" /\ o.reg # r /\ o.reg.phase \in {"import_ready", "none"} /\ data' = data
                      /\ k.op = "import" => reg' = [reg EXCEPT ![k.to] = [phase |-> "import", mig |-> k.m]]
                      /\ k.op # "import" => reg' = [reg EXCEPT ![k.to] = [r EXCEPT !.phase = "deleting"]]
    BY Zenon DEF Halfway
  <1>7. Perform(k) /\ o.reg = r => reg' = reg /\ data' = data
    BY <1>0, <1>3, <1>4, Zenon
  <1> HIDE DEF o
  <1>8. CASE k.op = "prepare"
    <2>1. k.to = e.src
      BY <1>1, <1>8, SMT DEF Target, SourceCalls, DestinationCalls
    <2>2. \/ o.reg = r
          \/ r.phase = "owned" /\ o.reg = [phase |-> "moving_out", mig |-> m]
      BY <1>8, PrepareOutcome, Zenon DEF o
    <2>3. ~Halfway(k)
      BY <1>6, <2>2, SMT
    <2>4. QED
      BY <1>2, <1>3, <1>4, <1>7, <1>8, <2>1, <2>2, <2>3, Zenon DEF Prepares
  <1>9. CASE k.op = "import"
    <2>1. k.to = e.dst /\ e.phase \in From("prepared") /\ k.snap = e.snap
      BY <1>1, <1>9, SMT DEF Target, DestinationCalls, SourceCalls, Legit
    <2>2. \/ o.reg = r
          \/ /\ r.phase = "none" \/ (r.phase = "import" /\ r.mig = m)
             /\ o.reg = [phase |-> "import_ready", mig |-> m]
      BY <1>9, ImportOutcome, Zenon DEF o
    <2>3. CASE Perform(k)
      BY <1>2, <1>3, <1>5, <1>7, <1>9, <2>1, <2>2, <2>3, Zenon DEF Imports, Empty, At
    <2>4. CASE Halfway(k)
      BY <1>2, <1>6, <1>9, <2>1, <2>2, <2>4, Zenon DEF Imports, Empty, At
    <2>5. QED
      BY <2>3, <2>4, Zenon
  <1>10. CASE k.op = "activate"
    <2>1. k.to = e.dst /\ e.phase \in From("routed")
      BY <1>1, <1>10, SMT DEF Target, DestinationCalls, SourceCalls, Legit
    <2>2. \/ o.reg = r
          \/ /\ r.phase \in {"import_ready", "owned"} /\ r.mig = m
             /\ o.reg = [phase |-> "owned", mig |-> m]
      BY <1>10, ActivateOutcome, Zenon DEF o
    <2>3. ~Halfway(k)
      BY <1>6, <2>2, SMT
    <2>4. k.op # "import"
      BY <1>10, Zenon
    <2>5. QED
      BY <1>2, <1>3, <1>4, <1>7, <2>1, <2>2, <2>3, <2>4, Zenon DEF Activates, At
  <1>11. CASE k.op = "finalize"
    <2>1. k.to = e.src /\ e.phase \in From("activated")
      BY <1>1, <1>11, SMT DEF Target, SourceCalls, DestinationCalls, Legit
    <2>2. \/ o.reg = r
          \/ /\ r.phase = "deleting" \/ (r.phase = "moving_out" /\ r.mig = m)
             /\ o.reg = NoReg
      BY <1>11, FinalizeOutcome, Zenon DEF o
    <2>3. k.op # "import"
      BY <1>11, Zenon
    <2>4. CASE Perform(k)
      BY <1>2, <1>3, <1>4, <1>7, <2>1, <2>2, <2>3, <2>4, Zenon DEF Finalizes, At
    <2>5. CASE Halfway(k)
      BY <1>2, <1>6, <2>1, <2>2, <2>3, <2>5, Zenon DEF Finalizes, At
    <2>6. QED
      BY <2>4, <2>5, Zenon
  <1>12. QED
    BY <1>1, <1>8, <1>9, <1>10, <1>11, Zenon

\* The workers change under a migration at work.
LEMMA Working ==
  ASSUME Typed, World, NEW m \in Migrations, NEW e \in Entry, e = journal[m], Active(m),
         UNCHANGED <<journal, route>>,
         \A n \in Nodes \ {e.src, e.dst} : reg'[n] = reg[n],
         e.phase \in Uncommitted => Source(m, e)', e.phase \in Committed => Destination(m, e)',
         route.ws = "detached" => latest' = latest
  PROVE  World' /\ (m \notin undoing' => Open(m)')
  <1>1. Exists' /\ Active(m)' /\ journal'[m] = e /\ \A k \in Migrations \ {m} : ~Active(k)'
    BY Zenon DEF World, UnderWay, Active, Exists
  <1>2. Elsewhere({e.src, e.dst})'
    <2>1. Elsewhere({e.src, e.dst})
      BY Zenon DEF World, UnderWay
    <2>2. QED
      BY <2>1, Zenon DEF Elsewhere, Empty
  <1>3. UnderWay(m)'
    <2>1. Elsewhere({journal[m].src, journal[m].dst})'
      BY <1>1, <1>2, Zenon DEF Elsewhere, Empty
    <2>2. e.phase \in Uncommitted => Source(m, journal[m])'
      BY <1>1, Zenon DEF Source, Importing, Discarding, At, Empty
    <2>3. e.phase \in Committed => Destination(m, journal[m])'
      BY <1>1, Zenon DEF Destination, At, Empty
    <2>4. QED
      BY <1>1, <2>1, <2>2, <2>3, Zenon DEF UnderWay
  <1>4. Exists' /\ route'.ws = "detached" => latest' = 0 /\ route'.snap = 0
    <2>1. Exists
      BY <1>1, Zenon DEF Exists
    <2>2. QED
      BY <2>1, Zenon DEF World
  <1>5. World'
    BY <1>1, <1>3, <1>4, Zenon DEF World, Inactive
  <1>6. m \notin undoing' => Open(m)'
    BY <1>1, Zenon DEF Open
  <1>7. QED
    BY <1>5, <1>6, Zenon

\* The phases of a migration that calls may name.
LEMMA OpenCases ==
  ASSUME Typed, World, NEW m \in Migrations, Open(m), NEW e \in Entry, e = journal[m]
  PROVE  \/ Active(m) /\ e.phase \in Uncommitted /\ Source(m, e)
         \/ Active(m) /\ e.phase \in Committed /\ Destination(m, e)
         \/ e.phase = "complete" /\ Moved(m)
  <1>1. CASE Active(m)
    <2>1. UnderWay(m)
      BY <1>1, Zenon DEF World
    <2>2. e.phase \in Uncommitted \/ e.phase \in Committed
      BY <1>1, Zenon DEF Active
    <2>3. QED
      BY <1>1, <2>1, <2>2, Zenon DEF UnderWay
  <1>2. QED
    BY <1>1, Zenon DEF Open

\* The workers of a migration that calls may name.
LEMMA OpenEnds ==
  ASSUME Typed, NEW m \in Migrations, Open(m), NEW e \in Entry, e = journal[m]
  PROVE  e.src \in Nodes /\ e.dst \in Nodes /\ e.src # e.dst
  <1>1. e.phase # "none"
    BY SMT DEF Open, Active, Uncommitted, Committed
  <1>2. QED
    BY <1>1, JournalParts, Zenon DEF Whole

\* The source is fenced, when the journal says so.
LEMMA PreparesKept ==
  ASSUME Typed, World, NEW m \in Migrations, Open(m), NEW e \in Entry, e = journal[m],
         UNCHANGED <<journal, route, latest, undoing>>, Prepares(m, e)
  PROVE  World' /\ Onward(m)
  <1>1. /\ reg \in [Nodes -> Registration] /\ e.src \in Nodes /\ e.dst \in Nodes /\ e.src # e.dst
    BY OpenEnds, Zenon DEF Typed, TypeOK
  <1>2. reg[e.src].phase = "owned" /\ data' = data
    BY Zenon DEF Prepares
  <1>3. /\ reg'[e.src] = [phase |-> "moving_out", mig |-> m]
        /\ \A n \in Nodes \ {e.src} : reg'[n] = reg[n]
    BY <1>1, Zenon DEF Prepares
  <1>4. reg'[e.src].phase = "moving_out" /\ reg'[e.src].mig = m
    BY <1>3, SMT
  <1>5. /\ Active(m) /\ e.phase = "planned" /\ route.ws = "attached" /\ route.at = e.src /\ ~e.fenced
        /\ data[e.src] = latest /\ Empty(e.dst)
    <2>1. CASE e.phase = "complete" /\ Moved(m)
      <3>1. Empty(e.src)
        BY <1>1, <2>1, Zenon DEF Moved, Elsewhere
      <3>2. QED
        BY <1>2, <3>1, SMT DEF Empty
    <2>2. CASE e.phase \in Committed /\ Destination(m, e)
      BY <1>2, <2>2, SMT DEF Destination, Empty, At
    <2>3. CASE Active(m) /\ e.phase \in Uncommitted /\ Source(m, e)
      <3>1. m \notin undoing /\ route.ws \in {"attached", "detached"}
        BY SMT DEF Open, Typed, TypeOK, Route
      <3>2. QED
        BY <1>2, <2>3, <3>1, SMT DEF Source, Empty, At
    <2>4. QED
      BY <2>1, <2>2, <2>3, OpenCases, Zenon
  <1>6. Source(m, e)'
    <2>1. reg'[e.dst].phase = "none"
      BY <1>1, <1>3, <1>5, Zenon DEF Empty
    <2>2. QED
      BY <1>2, <1>4, <1>5, <2>1, SMT DEF Source, At, Empty
  <1>7. e.phase \notin Committed
    BY <1>5, SMT DEF Committed
  <1>8. m \notin undoing'
    BY Zenon DEF Open
  <1>9. World' /\ Open(m)'
    BY <1>3, <1>5, <1>6, <1>7, <1>8, Working, Zenon
  <1>10. /\ e.phase \in From(e.phase) /\ ~Empty(e.src) /\ journal' = journal
         /\ ~At(e.dst, "import_ready", m) /\ ~At(e.dst, "owned", m)
    BY <1>2, <1>5, SMT DEF From, Empty, At
  <1>11. Onward(m)
    BY <1>4, <1>9, <1>10, Zenon DEF Onward
  <1>12. QED
    BY <1>9, <1>11, Zenon

\* The destination imports the snapshot.
LEMMA ImportsKept ==
  ASSUME Typed, World, NEW m \in Migrations, Open(m), NEW e \in Entry, e = journal[m],
         UNCHANGED <<journal, route, latest, undoing>>, Imports(m, e)
  PROVE  World' /\ Onward(m)
  <1>1. /\ reg \in [Nodes -> Registration] /\ e.src \in Nodes /\ e.dst \in Nodes /\ e.src # e.dst
        /\ data \in [Nodes -> Versions]
    BY OpenEnds, Zenon DEF Typed, TypeOK
  <1>2. Empty(e.dst) \/ At(e.dst, "import", m)
    BY Zenon DEF Imports
  <1>3. /\ \A n \in Nodes \ {e.dst} : reg'[n] = reg[n] /\ data'[n] = data[n]
        /\ \/ reg'[e.dst] = [phase |-> "import_ready", mig |-> m] /\ data'[e.dst] = e.snap
           \/ reg'[e.dst] = [phase |-> "import", mig |-> m]
    BY <1>1, Zenon DEF Imports
  <1>4. /\ reg'[e.dst].phase \in {"import", "import_ready"} /\ reg'[e.dst].mig = m
        /\ reg'[e.dst].phase = "import_ready" => data'[e.dst] = e.snap
    BY <1>3, SMT
  <1>5. Active(m) /\ e.phase = "prepared" /\ Source(m, e) /\ m \notin undoing
    <2>0. e.phase # "planned" /\ m \notin undoing
      BY SMT DEF Imports, From, Open
    <2>1. CASE e.phase = "complete" /\ Moved(m)
      <3>1. At(e.dst, "owned", m)
        BY <2>1, Zenon DEF Moved
      <3>2. QED
        BY <1>2, <3>1, SMT DEF Empty, At
    <2>2. CASE e.phase \in Committed /\ Destination(m, e)
      BY <1>2, <2>2, Zenon DEF Destination, Empty, At
    <2>3. CASE Active(m) /\ e.phase \in Uncommitted /\ Source(m, e)
      BY <1>2, <2>0, <2>3, Zenon DEF Source, Importing, Empty, At, Uncommitted
    <2>4. QED
      BY <2>1, <2>2, <2>3, OpenCases, Zenon
  <1>6. Source(m, e)'
    <2>1. reg'[e.src] = reg[e.src] /\ data'[e.src] = data[e.src]
      BY <1>1, <1>3, Zenon
    <2>2. QED
      BY <1>4, <1>5, <2>1, SMT DEF Source, Importing, At, Empty
  <1>7. e.phase \notin Committed
    BY <1>5, SMT DEF Committed
  <1>8. m \notin undoing'
    BY Zenon DEF Open
  <1>9. World' /\ Open(m)'
    BY <1>3, <1>5, <1>6, <1>7, <1>8, Working, Zenon
  <1>10. /\ e.phase \in From(e.phase) /\ journal' = journal /\ reg'[e.src] = reg[e.src]
         /\ ~At(e.dst, "import_ready", m) /\ ~At(e.dst, "owned", m)
    BY <1>1, <1>2, <1>3, <1>5, SMT DEF From, Empty, At
  <1>11. Onward(m)
    BY <1>9, <1>10, Zenon DEF Onward, At, Empty
  <1>12. QED
    BY <1>9, <1>11, Zenon

\* The destination is activated.
LEMMA ActivatesKept ==
  ASSUME Typed, World, NEW m \in Migrations, Open(m), NEW e \in Entry, e = journal[m],
         UNCHANGED <<journal, route, latest, undoing>>, Activates(m, e)
  PROVE  World' /\ Onward(m)
  <1>1. /\ reg \in [Nodes -> Registration] /\ e.src \in Nodes /\ e.dst \in Nodes /\ e.src # e.dst
    BY OpenEnds, Zenon DEF Typed, TypeOK
  <1>2. (At(e.dst, "import_ready", m) \/ At(e.dst, "owned", m)) /\ data' = data
    BY Zenon DEF Activates
  <1>3. /\ reg'[e.dst] = [phase |-> "owned", mig |-> m]
        /\ \A n \in Nodes \ {e.dst} : reg'[n] = reg[n]
    BY <1>1, Zenon DEF Activates
  <1>4. reg'[e.dst].phase = "owned" /\ reg'[e.dst].mig = m
    BY <1>3, SMT
  <1>5. CASE At(e.dst, "owned", m)
    <2>1. reg[e.dst] = [phase |-> "owned", mig |-> m]
      BY <1>1, <1>5, RegistrationTyped, SMT DEF At, Registration
    <2>2. reg' = reg
      BY <1>1, <2>1, Zenon DEF Activates
    <2>3. Calm
      BY <1>2, <2>2, Zenon DEF Calm
    <2>4. QED
      BY <2>3, CalmWorld, CalmOnward, Zenon
  <1>6. CASE At(e.dst, "import_ready", m)
    <2>1. Active(m) /\ e.phase \in Committed /\ Destination(m, e)
      <3>1. CASE e.phase = "complete" /\ Moved(m)
        <4>1. At(e.dst, "owned", m)
          BY <3>1, Zenon DEF Moved
        <4>2. QED
          BY <1>6, <4>1, SMT DEF At
      <3>2. e.phase \notin Uncommitted
        BY SMT DEF Activates, From, Uncommitted
      <3>3. QED
        BY <3>1, <3>2, OpenCases, Zenon
    <2>2. Destination(m, e)'
      <3>1. reg'[e.src] = reg[e.src]
        BY <1>1, <1>3, Zenon
      <3>2. QED
        BY <1>2, <1>4, <2>1, <3>1, SMT DEF Destination, At, Empty
    <2>3. e.phase \notin Uncommitted /\ m \notin undoing'
      BY <2>1, SMT DEF Committed, Uncommitted, Open
    <2>4. World' /\ Open(m)'
      BY <1>3, <2>1, <2>2, <2>3, Working, Zenon
    <2>5. /\ e.phase \in From(e.phase) /\ journal' = journal /\ reg'[e.src] = reg[e.src]
      BY <1>1, <1>3, <2>1, SMT DEF From, Committed
    <2>6. Onward(m)
      BY <1>4, <2>4, <2>5, Zenon DEF Onward, At, Empty
    <2>7. QED
      BY <2>4, <2>6, Zenon
  <1>7. QED
    BY <1>2, <1>5, <1>6, Zenon

\* The source is deleted, or half of it.
LEMMA FinalizesKept ==
  ASSUME Typed, World, NEW m \in Migrations, Open(m), NEW e \in Entry, e = journal[m],
         UNCHANGED <<journal, route, latest, undoing>>, Finalizes(m, e)
  PROVE  World' /\ Onward(m)
  <1>1. /\ reg \in [Nodes -> Registration] /\ e.src \in Nodes /\ e.dst \in Nodes /\ e.src # e.dst
    BY OpenEnds, Zenon DEF Typed, TypeOK
  <1>2. (reg[e.src].phase = "deleting" \/ At(e.src, "moving_out", m)) /\ data' = data
    BY Zenon DEF Finalizes
  <1>3. /\ reg'[e.src].phase \in {"none", "deleting"}
        /\ \A n \in Nodes \ {e.src} : reg'[n] = reg[n]
    <2>1. PICK q \in {NoReg, [reg[e.src] EXCEPT !.phase = "deleting"]} : reg' = [reg EXCEPT ![e.src] = q]
      BY Zenon DEF Finalizes
    <2>2. reg[e.src] \in Registration
      BY <1>1, Zenon
    <2>3. q.phase \in {"none", "deleting"}
      BY <2>2, SMT DEF NoReg, Registration
    <2>4. QED
      BY <1>1, <2>1, <2>3, Zenon
  <1>4. Active(m) /\ e.phase = "activated" /\ Destination(m, e) /\ e.fenced
    <2>0. e.phase \in {"activated", "complete"}
      BY SMT DEF Finalizes, From
    <2>1. CASE e.phase = "complete" /\ Moved(m)
      <3>1. Empty(e.src)
        BY <1>1, <2>1, Zenon DEF Moved, Elsewhere
      <3>2. QED
        BY <1>2, <3>1, Zenon DEF Empty, At
    <2>2. CASE Active(m) /\ e.phase \in Committed /\ Destination(m, e)
      BY <1>2, <2>0, <2>2, SMT DEF Destination, Empty, At, Committed
    <2>3. CASE e.phase \in Uncommitted
      BY <2>0, <2>3, SMT DEF Uncommitted
    <2>4. QED
      BY <2>1, <2>2, <2>3, OpenCases, Zenon
  <1>5. reg'[e.dst] = reg[e.dst]
    BY <1>1, <1>3, Zenon
  <1>6. Destination(m, e)'
    BY <1>2, <1>3, <1>4, <1>5, SMT DEF Destination, At, Empty
  <1>7. e.phase \notin Uncommitted /\ m \notin undoing'
    BY <1>4, SMT DEF Uncommitted, Open
  <1>8. World' /\ Open(m)'
    BY <1>3, <1>4, <1>6, <1>7, Working, Zenon
  <1>9. /\ e.phase \in From(e.phase) /\ journal' = journal /\ ~Empty(e.src) /\ e.phase # "planned"
    BY <1>2, <1>4, SMT DEF From, Empty, At
  <1>10. Onward(m)
    BY <1>5, <1>8, <1>9, Zenon DEF Onward, At, Empty
  <1>11. QED
    BY <1>8, <1>10, Zenon

\* A call that advances a migration, carried out by a worker or half so.
LEMMA CallKept ==
  ASSUME Typed, World, NEW k \in Call, Legit(k), Perform(k) \/ Halfway(k), UNCHANGED <<journal, route, latest>>
  PROVE  World' /\ Onward(k.m)
  <1>1. PICK m \in Migrations : m = k.m
    BY Zenon DEF Legit
  <1>2. PICK e \in Entry : e = journal[m]
    BY JournalParts, Zenon
  <1>3. Open(m)
    BY <1>1, Zenon DEF Legit
  <1>5. undoing' = undoing
    BY <1>1, <1>2, CallEffect, Zenon
  <1>6. CASE reg' = reg /\ data' = data
    <2>1. Calm
      BY <1>5, <1>6, Zenon DEF Calm
    <2>2. QED
      BY <1>1, <1>3, <2>1, CalmWorld, CalmOnward, Zenon
  <1>7. CASE Prepares(m, e)
    BY <1>1, <1>2, <1>3, <1>5, <1>7, PreparesKept, Zenon
  <1>8. CASE Imports(m, e)
    BY <1>1, <1>2, <1>3, <1>5, <1>8, ImportsKept, Zenon
  <1>9. CASE Activates(m, e)
    BY <1>1, <1>2, <1>3, <1>5, <1>9, ActivatesKept, Zenon
  <1>10. CASE Finalizes(m, e)
    BY <1>1, <1>2, <1>3, <1>5, <1>10, FinalizesKept, Zenon
  <1>11. QED
    BY <1>1, <1>2, <1>6, <1>7, <1>8, <1>9, <1>10, CallEffect, Zenon

\* A call in flight lands.
LEMMA LandKept ==
  ASSUME Typed, Typed', IInv, NEW k \in stray, Land(k)
  PROVE  IInv'
  <1>1. /\ World /\ Apart /\ Astray /\ \A h \in Handlers : Fits(h)
    BY Zenon DEF IInv, Handling
  <1>2. k \in Call /\ Legit(k)
    BY <1>1, Zenon DEF Astray, Typed, StraysOK
  <1>3. /\ Perform(k) /\ UNCHANGED <<journal, route, latest>> /\ hand' = hand /\ stray' \subseteq stray
    BY Zenon DEF Land
  <1>4. PICK m \in Migrations : m = k.m /\ Open(m)
    BY <1>2, Zenon DEF Legit
  <1>5. World' /\ Onward(m)
    BY <1>1, <1>2, <1>3, <1>4, CallKept, Zenon
  <1>6. ASSUME NEW h \in Handlers, hand[h].pc # "idle"
        PROVE  hand[h].kind = "post" /\ hand[h].m = m
    <2>1. hand[h].kind = "post"
      BY <1>1, <1>6, Zenon DEF Apart, Alone
    <2>2. hand[h].m \in Migrations /\ Open(hand[h].m)
      BY <1>1, <1>6, <2>1, PostAdvances, Zenon
    <2>3. QED
      BY <1>4, <2>1, <2>2, OpenOne, Zenon
  <1>7. \A h \in Handlers : Fits(h)'
    <2> SUFFICES ASSUME NEW h \in Handlers PROVE Fits(h)'
      OBVIOUS
    <2>1. Fits(h) /\ hand'[h] = hand[h] /\ (hand[h].pc # "idle" => hand[h].kind = "post" /\ hand[h].m = m)
      BY <1>1, <1>3, <1>6, Zenon
    <2>2. QED
      BY <1>5, <2>1, OnwardFits, Zenon
  <1>8. Apart'
    BY <1>3, <1>6, Zenon DEF Apart
  <1>9. Astray'
    <2> SUFFICES ASSUME NEW j \in stray' PROVE Legit(j)'
      BY Zenon DEF Astray
    <2>1. Legit(j) /\ j.m \in Migrations /\ Open(j.m)
      BY <1>1, <1>3, Zenon DEF Astray, Legit
    <2>2. j.m = m
      BY <1>4, <2>1, OpenOne, Zenon
    <2>3. QED
      BY <1>5, <2>1, <2>2, OnwardLegit, Zenon
  <1>10. QED
    BY <1>5, <1>7, <1>8, <1>9, Zenon DEF IInv, Handling

\* What handler h has heard when its call was carried out, or half so.
Hears(h) ==
  LET k == Request(h)
      c == hand[h].c
      d == hand'[h].c IN
  /\ Perform(k) \/ Halfway(k)
  /\ hand'[h].pc = hand[h].pc /\ hand'[h].kind = hand[h].kind /\ hand'[h].m = hand[h].m
  /\ hand'[h].to = hand[h].to
  /\ d.phase = c.phase /\ d.src = c.src /\ d.dst = c.dst /\ d.fenced = c.fenced
  /\ hand[h].pc # "prepare" => d.snap = c.snap
  /\ hand'[h].re = "ok" =>
       /\ reg'[k.to] = Outcome(k).reg
       /\ Outcome(k).re = "ok"
       /\ hand[h].pc = "prepare" => d.snap = data[k.to]
  /\ hand'[h].re # "none"
  /\ Moves(h)
  /\ UNCHANGED <<journal, route, latest, stray>>

\* Both ways a call is answered are such.
LEMMA Hearing ==
  ASSUME Typed, NEW h \in Handlers, Serve(h) \/ Stumble(h)
  PROVE  Hears(h) /\ hand[h].pc \in Calls
  <1>1. hand[h].pc \in Calls
    BY Zenon DEF Serve, Stumble, Calling
  <1>2. PICK k \in Call : /\ k = Request(h) /\ k.to \in Nodes /\ k.op = hand[h].pc /\ k.to = hand[h].to
                          /\ k.snap = hand[h].c.snap /\ k.m = hand[h].m
    BY <1>1, RequestTyped, Zenon
  <1>3. PICK c \in Entry : c = hand[h].c
    BY HandParts, Zenon
  <1>4. hand \in [Handlers -> Handler] /\ reg \in [Nodes -> Registration] /\ data \in [Nodes -> Versions]
    BY HandParts, Zenon DEF Typed, TypeOK
  <1>5. UNCHANGED <<journal, route, latest, stray>>
    BY Zenon DEF Serve, Stumble
  <1>6. CASE Stumble(h)
    <2>1. /\ hand'[h].pc = hand[h].pc /\ hand'[h].c = hand[h].c /\ hand'[h].to = hand[h].to
          /\ hand'[h].re = "error" /\ hand'[h].kind = hand[h].kind /\ hand'[h].m = hand[h].m
          /\ \A g \in Handlers \ {h} : hand'[g] = hand[g]
      BY <1>4, <1>6, HearFields, Zenon DEF Stumble, Hear
    <2>2. Halfway(Request(h))
      BY <1>6, Zenon DEF Stumble
    <2>3. QED
      BY <1>1, <1>5, <2>1, <2>2, Zenon DEF Hears, Moves
  <1>7. CASE Serve(h)
    <2>1. PICK o : o = Outcome(k)
      OBVIOUS
    <2>2. o.re \in {"ok", "error"}
      BY <1>1, <1>2, <1>4, <2>1, OutcomeTyped, SMT DEF Call
    <2>3. PICK v : v = IF k.op = "prepare" /\ o.re = "ok" THEN data[k.to] ELSE k.snap
      OBVIOUS
    <2>4. v \in Versions
      BY <1>2, <1>4, <2>3, SMT DEF Call
    <2>5. PICK a \in {"ok", "error"} : a = o.re
      BY <2>2
    <2>6. hand' = [hand EXCEPT ![h] = [@ EXCEPT !.re = a, !.c.snap = v]]
      BY <1>2, <1>7, <2>1, <2>3, <2>5, Zenon DEF Serve
    <2>7. /\ hand'[h].pc = hand[h].pc /\ hand'[h].c = [hand[h].c EXCEPT !.snap = v]
          /\ hand'[h].to = hand[h].to
          /\ hand'[h].re = a /\ hand'[h].kind = hand[h].kind /\ hand'[h].m = hand[h].m
          /\ \A g \in Handlers \ {h} : hand'[g] = hand[g]
      BY <1>4, <2>4, <2>6, ServedFields, Zenon
    <2>8. PICK d : d = hand'[h].c
      OBVIOUS
    <2>9. d.phase = c.phase /\ d.src = c.src /\ d.dst = c.dst /\ d.fenced = c.fenced /\ d.snap = v
      BY <1>3, <2>7, <2>8, SMT DEF Entry
    <2>10. k.op # "prepare" => v = k.snap
      BY <2>3, Zenon
    <2>11. k.op = "prepare" /\ a = "ok" => v = data[k.to]
      BY <2>3, <2>5, Zenon
    <2>12. Perform(k) /\ reg'[k.to] = o.reg
      BY <1>2, <1>4, <1>7, <2>1, Zenon DEF Serve, Perform
    <2>13. a # "none"
      BY SMT
    <2>14. Moves(h)
      BY <2>7, Zenon DEF Moves
    <2>15. QED
      BY <1>1, <1>2, <1>3, <1>5, <2>1, <2>5, <2>7, <2>8, <2>9, <2>10, <2>11, <2>12, <2>13, <2>14, Zenon DEF Hears
  <1>8. QED
    BY <1>6, <1>7, Zenon

\* The answer to a call that advances a migration is true.
LEMMA AdvancingHeard ==
  ASSUME Typed, NEW h \in Handlers, Fits(h), World, Hears(h), hand[h].pc \in Calls, hand[h].pc \in Advancing,
         hand'[h].re = "ok"
  PROVE  Heard(h)'
  <1>1. PICK k \in Call : /\ k = Request(h) /\ k.to \in Nodes /\ k.op = hand[h].pc /\ k.to = hand[h].to
                          /\ k.m = hand[h].m
    BY RequestTyped, Zenon
  <1>2. PICK m \in Migrations : m = hand[h].m
    BY AdvancingParts, Zenon
  <1>3. PICK c \in Entry : c = hand[h].c /\ c.phase \in Live
    BY AdvancingParts, Zenon
  <1>4. PICK e \in Entry : e = journal[m]
    BY JournalParts, Zenon
  <1>5. PICK p : p = hand[h].pc
    OBVIOUS
  <1>6. c.src = e.src /\ c.dst = e.dst /\ Open(m)
    BY <1>2, <1>3, <1>4, AdvancingParts, Zenon DEF Copy
  <1>7. PICK o : o = Outcome(k)
    OBVIOUS
  <1>8. /\ reg'[k.to] = o.reg /\ o.re = "ok" /\ (p = "prepare" => hand'[h].c.snap = data[k.to])
        /\ hand'[h].pc = p /\ hand'[h].m = m /\ hand'[h].c.src = c.src /\ hand'[h].c.dst = c.dst
        /\ journal' = journal /\ latest' = latest
    BY <1>1, <1>2, <1>3, <1>5, <1>7, Zenon DEF Hears
  <1>9. k.to = Target(p, c) /\ p \in {"prepare", "import", "activate", "finalize"} /\ k.op = p
    BY <1>1, <1>3, <1>5, HandParts, Zenon DEF Carries, Advancing, Calls, SourceCalls, DestinationCalls
  <1>10. CASE p = "prepare"
    <2>1. k.to = c.src
      BY <1>9, <1>10, SMT DEF Target, SourceCalls, DestinationCalls
    <2>2. /\ o.reg.phase = "moving_out" /\ o.reg.mig = m
          /\ reg[k.to].phase = "owned" \/ (reg[k.to].phase = "moving_out" /\ reg[k.to].mig = m)
      <3>0. k.op = "prepare" /\ k.m = m /\ o.re = "ok"
        BY <1>1, <1>2, <1>8, <1>9, <1>10, Zenon
      <3>1. \/ o.reg = reg[k.to] /\ reg[k.to].phase = "moving_out" /\ reg[k.to].mig = m
            \/ reg[k.to].phase = "owned" /\ o.reg = [phase |-> "moving_out", mig |-> m]
        BY <1>7, <3>0, PrepareOutcome, ZenonT(30)
      <3>2. QED
        BY <3>1, SMT
    <2>3. e.phase = "planned" => data[k.to] = latest
      <3> SUFFICES ASSUME e.phase = "planned" PROVE data[k.to] = latest
        OBVIOUS
      <3>1. Source(m, e)
        BY <1>4, <1>6, OpenCases, SMT DEF Committed
      <3>2. ~Empty(e.src) /\ k.to = e.src /\ route.ws \in {"attached", "detached"}
        BY <1>6, <2>1, <2>2, SMT DEF Empty, Typed, TypeOK, Route
      <3>3. QED
        BY <3>1, <3>2, SMT DEF Source
    <2>4. QED
      BY <1>4, <1>8, <1>10, <2>1, <2>2, <2>3, SMT DEF Heard, At
  <1>11. CASE p = "import"
    <2>1. k.to = c.dst
      BY <1>9, <1>11, SMT DEF Target, SourceCalls, DestinationCalls
    <2>2. o.reg.phase \in {"import_ready", "owned"} /\ o.reg.mig = m
      <3>0. k.op = "import" /\ k.m = m /\ o.re = "ok"
        BY <1>1, <1>2, <1>8, <1>9, <1>11, Zenon
      <3>1. \/ o.reg = reg[k.to] /\ reg[k.to].phase \in {"import_ready", "owned"} /\ reg[k.to].mig = m
            \/ o.reg = [phase |-> "import_ready", mig |-> m]
        BY <1>7, <3>0, ImportOutcome, ZenonT(30)
      <3>2. QED
        BY <3>1, SMT
    <2>3. QED
      BY <1>8, <1>11, <2>1, <2>2, SMT DEF Heard, At
  <1>12. CASE p = "activate"
    <2>1. k.to = c.dst
      BY <1>9, <1>12, SMT DEF Target, SourceCalls, DestinationCalls
    <2>2. o.reg.phase = "owned" /\ o.reg.mig = m
      <3>1. o.reg = [phase |-> "owned", mig |-> m]
        <4>1. o.re # "error"
          BY <1>8, SMT
        <4>2. QED
          BY <1>1, <1>2, <1>7, <1>9, <1>12, <4>1, ActivateOutcome, ZenonT(30)
      <3>2. QED
        BY <3>1, SMT
    <2>3. QED
      BY <1>8, <1>12, <2>1, <2>2, SMT DEF Heard, At
  <1>13. CASE p = "finalize"
    <2>1. k.to = c.src
      BY <1>9, <1>13, SMT DEF Target, SourceCalls, DestinationCalls
    <2>2. o.reg.phase = "none"
      <3>1. (o.reg = reg[k.to] /\ reg[k.to].phase = "none") \/ o.reg = NoReg
        BY <1>1, <1>7, <1>8, <1>9, <1>13, FinalizeOutcome, Zenon
      <3>2. QED
        BY <3>1, SMT DEF NoReg
    <2>3. QED
      BY <1>8, <1>13, <2>1, <2>2, SMT DEF Heard, Empty
  <1>14. QED
    BY <1>9, <1>10, <1>11, <1>12, <1>13, Zenon

\* A worker carries out a call that advances a migration, or half of it.
LEMMA AdvancingServed ==
  ASSUME Typed, Typed', IInv, NEW h \in Handlers, Hears(h), hand[h].pc \in Calls, hand[h].pc \in Advancing
  PROVE  IInv'
  <1>1. World /\ Fits(h)
    BY Zenon DEF IInv, Handling
  <1>2. PICK m \in Migrations : m = hand[h].m /\ Open(m)
    BY <1>1, AdvancingParts, Zenon
  <1>3. PICK k \in Call : k = Request(h) /\ Legit(k) /\ k.m = m
    BY <1>1, <1>2, RequestTyped, RequestLegit, Zenon
  <1>4. (Perform(k) \/ Halfway(k)) /\ UNCHANGED <<journal, route, latest, stray>>
    BY <1>3, Zenon DEF Hears
  <1>5. World' /\ Onward(m)
    BY <1>1, <1>3, <1>4, CallKept, Zenon
  <1>6. PICK c \in Entry : c = hand[h].c
    BY HandParts, Zenon
  <1>7. PICK e \in Entry : e = journal[m]
    BY JournalParts, Zenon
  <1>8. PICK d : d = hand'[h].c
    OBVIOUS
  <1>9. /\ Copy(c, e) /\ (hand[h].pc = "prepare" => c.phase = "planned")
        /\ hand[h].kind # "post" => e.phase = c.phase
    BY <1>1, <1>2, <1>6, <1>7, AdvancingParts, Zenon DEF Due
  <1>10. /\ hand'[h].pc = hand[h].pc /\ hand'[h].kind = hand[h].kind /\ hand'[h].m = m
         /\ d.phase = c.phase /\ d.src = c.src /\ d.dst = c.dst /\ d.fenced = c.fenced
         /\ hand[h].pc # "prepare" => d.snap = c.snap
         /\ Moves(h)
    BY <1>2, <1>6, <1>8, Zenon DEF Hears
  <1>11. Copy(d, e)
    BY <1>9, <1>10, Zenon DEF Copy
  <1>12. Advances(h)'
    BY <1>4, <1>5, <1>7, <1>8, <1>9, <1>10, <1>11, Zenon DEF Advances, Onward
  <1>13. hand'[h].re = "ok" => Heard(h)'
    BY <1>1, AdvancingHeard, Zenon
  <1>14. /\ hand[h].pc \notin Undoing \cup Deleting /\ hand[h].pc # "idle"
    BY StepKinds, Zenon
  <1>15. hand[h].kind = "delete" => Exists /\ route.del
    BY <1>1, <1>14, Zenon DEF Fits
  <1>16. Fits(h)'
    BY <1>4, <1>10, <1>12, <1>13, <1>14, <1>15, Zenon DEF Fits, Exists
  <1>17. QED
    BY <1>2, <1>4, <1>5, <1>10, <1>14, <1>16, HandStep, Zenon DEF Moves

\* What rolling back and deleting do to a worker n that holds the sandbox for j.
Withdraws(n, j) ==
  /\ data' = data
  /\ \/ reg' = reg
     \/ /\ reg[n].phase = "deleting" \/ (reg[n].phase \in {"import", "import_ready"} /\ reg[n].mig = j)
        /\ \E q \in {NoReg, [reg[n] EXCEPT !.phase = "deleting"]} : reg' = [reg EXCEPT ![n] = q]

Restores(n, j) ==
  /\ data' = data
  /\ \/ reg' = reg
     \/ /\ At(n, "moving_out", j)
        /\ reg' = [reg EXCEPT ![n] = [phase |-> "owned", mig |-> NoMigration]]

Erases(n) ==
  /\ data' = data
  /\ \/ reg' = reg
     \/ \E q \in {NoReg, [reg[n] EXCEPT !.phase = "deleting"]} : reg' = [reg EXCEPT ![n] = q]

\* A call that rolls back or deletes does one of these.
LEMMA UndoEffect ==
  ASSUME Typed, NEW k \in Call, Perform(k) \/ Halfway(k)
  PROVE  /\ k.op = "undo_import" => Withdraws(k.to, k.m)
         /\ k.op = "undo_move" => Restores(k.to, k.m)
         /\ k.op = "delete" => Erases(k.to)
         /\ k.op \in {"undo_import", "undo_move"} => undoing' = undoing \cup {k.m}
         /\ k.op = "delete" => undoing' = undoing
  <1>1. k.to \in Nodes /\ reg \in [Nodes -> Registration]
    BY SMT DEF Call, Typed, TypeOK
  <1>2. PICK r \in Registration : r = reg[k.to]
    BY <1>1, Zenon
  <1>3. PICK o : o = Outcome(k)
    OBVIOUS
  <1>4. Perform(k) => reg' = [reg EXCEPT ![k.to] = o.reg] /\ (k.op # "import" => data' = data)
    BY <1>3, Zenon DEF Perform
  <1>5. Perform(k) /\ o.reg = r => reg' = reg
    BY <1>1, <1>2, <1>4, Zenon
  <1>6. Halfway(k) => /\ o.reg # r /\ o.reg.phase \in {"import_ready", "none"} /\ data' = data
                      /\ k.op # "import" => reg' = [reg EXCEPT ![k.to] = [r EXCEPT !.phase = "deleting"]]
    BY <1>2, <1>3, Zenon DEF Halfway
  <1>7. k.op = "undo_import" => Withdraws(k.to, k.m)
    <2> SUFFICES ASSUME k.op = "undo_import" PROVE Withdraws(k.to, k.m)
      OBVIOUS
    <2>1. \/ o.reg = r
          \/ /\ r.phase = "deleting" \/ (r.phase \in {"import", "import_ready"} /\ r.mig = k.m)
             /\ o.reg = NoReg
      BY <1>2, <1>3, UndoImportOutcome, ZenonT(30)
    <2>2. k.op # "import"
      BY SMT
    <2>3. CASE Perform(k)
      BY <1>2, <1>4, <1>5, <2>1, <2>2, <2>3, Zenon DEF Withdraws
    <2>4. CASE Halfway(k)
      BY <1>2, <1>6, <2>1, <2>2, <2>4, Zenon DEF Withdraws
    <2>5. QED
      BY <2>3, <2>4, Zenon
  <1>8. k.op = "undo_move" => Restores(k.to, k.m)
    <2> SUFFICES ASSUME k.op = "undo_move" PROVE Restores(k.to, k.m)
      OBVIOUS
    <2>1. \/ o.reg = r
          \/ /\ r.phase = "moving_out" /\ r.mig = k.m
             /\ o.reg = [phase |-> "owned", mig |-> NoMigration]
      BY <1>2, <1>3, UndoMoveOutcome, ZenonT(30)
    <2>2. k.op # "import"
      BY SMT
    <2>3. ~Halfway(k)
      BY <1>6, <2>1, SMT
    <2>4. QED
      BY <1>2, <1>4, <1>5, <2>1, <2>2, <2>3, Zenon DEF Restores, At
  <1>9. k.op = "delete" => Erases(k.to)
    <2> SUFFICES ASSUME k.op = "delete" PROVE Erases(k.to)
      OBVIOUS
    <2>1. o.reg = r \/ o.reg = NoReg
      BY <1>2, <1>3, DeleteOutcome, ZenonT(30)
    <2>2. k.op # "import"
      BY SMT
    <2>3. CASE Perform(k)
      BY <1>2, <1>4, <1>5, <2>1, <2>2, <2>3, Zenon DEF Erases
    <2>4. CASE Halfway(k)
      BY <1>2, <1>6, <2>1, <2>2, <2>4, Zenon DEF Erases
    <2>5. QED
      BY <2>3, <2>4, Zenon
  <1>10. k.op \in {"undo_import", "undo_move"} => undoing' = undoing \cup {k.m}
    BY Zenon DEF Perform, Halfway, Noted
  <1>11. k.op = "delete" => undoing' = undoing
    <2>1. k.op = "delete" => k.op \notin {"undo_import", "undo_move"}
      BY SMT
    <2>2. QED
      BY <2>1, Zenon DEF Perform, Halfway, Noted
  <1>12. QED
    BY <1>7, <1>8, <1>9, <1>10, <1>11, Zenon

\* The answers to those calls are true.
LEMMA RollbackHeard ==
  ASSUME Typed, NEW h \in Handlers, Hears(h), hand[h].pc \in Calls, hand[h].pc \in Undoing \cup Deleting,
         hand'[h].re = "ok", hand[h].pc = "undo_move" => reg'[hand[h].c.dst].phase = "none"
  PROVE  Heard(h)'
  <1>1. PICK k \in Call : k = Request(h) /\ k.to \in Nodes /\ k.op = hand[h].pc /\ k.to = hand[h].to
    BY RequestTyped, Zenon
  <1>2. PICK p : p = hand[h].pc
    OBVIOUS
  <1>3. PICK c \in Entry : c = hand[h].c
    BY HandParts, Zenon
  <1>4. PICK o : o = Outcome(k)
    OBVIOUS
  <1>5. /\ reg'[k.to] = o.reg /\ o.re = "ok" /\ hand'[h].pc = p /\ hand'[h].to = k.to
        /\ hand'[h].c.src = c.src /\ hand'[h].c.dst = c.dst
    BY <1>1, <1>2, <1>3, <1>4, Zenon DEF Hears
  <1>6. /\ p \in {"undo_import", "undo_move"} => k.to = Target(p, c)
        /\ p \in {"undo_import", "undo_move", "delete"} /\ k.op = p
    BY <1>1, <1>2, <1>3, HandParts, Zenon DEF Carries, Undoing, Deleting, Calls, SourceCalls, DestinationCalls
  <1>7. CASE p = "undo_import"
    <2>1. k.to = c.dst
      BY <1>6, <1>7, SMT DEF Target, SourceCalls, DestinationCalls
    <2>2. (o.reg = reg[k.to] /\ reg[k.to].phase = "none") \/ o.reg = NoReg
      BY <1>4, <1>5, <1>6, <1>7, UndoImportOutcome, ZenonT(30)
    <2>3. o.reg.phase = "none"
      BY <2>2, SMT DEF NoReg
    <2>4. QED
      BY <1>5, <1>7, <2>1, <2>3, SMT DEF Heard, Empty
  <1>8. CASE p = "undo_move"
    <2>1. k.to = c.src
      BY <1>6, <1>8, SMT DEF Target, SourceCalls, DestinationCalls
    <2>2. \/ o.reg = reg[k.to] /\ reg[k.to].phase = "owned"
          \/ o.reg = [phase |-> "owned", mig |-> NoMigration]
      BY <1>4, <1>5, <1>6, <1>8, UndoMoveOutcome, ZenonT(30)
    <2>3. o.reg.phase = "owned"
      BY <2>2, SMT
    <2>4. reg'[c.dst].phase = "none"
      BY <1>2, <1>3, <1>8, Zenon
    <2>5. QED
      BY <1>5, <1>8, <2>1, <2>3, <2>4, SMT DEF Heard, Empty
  <1>9. CASE p = "delete"
    <2>1. (o.reg = reg[k.to] /\ reg[k.to].phase = "none") \/ o.reg = NoReg
      BY <1>4, <1>5, <1>6, <1>9, DeleteOutcome, ZenonT(30)
    <2>2. o.reg.phase = "none"
      BY <2>1, SMT DEF NoReg
    <2>3. QED
      BY <1>5, <1>9, <2>2, SMT DEF Heard, Empty
  <1>10. QED
    BY <1>6, <1>7, <1>8, <1>9, Zenon

\* The destination discards the import.
LEMMA WithdrawsKept ==
  ASSUME Typed, World, NEW m \in Migrations, NEW e \in Entry, e = journal[m], e.phase \in {"prepared", "staged"},
         UNCHANGED <<journal, route, latest>>, undoing' = undoing \cup {m}, Withdraws(e.dst, m)
  PROVE  World'
  <1>1. /\ reg \in [Nodes -> Registration] /\ data' = data
        /\ e.src \in Nodes /\ e.dst \in Nodes /\ e.src # e.dst
    <2>1. e.phase # "none"
      BY SMT
    <2>2. QED
      BY <2>1, JournalParts, Zenon DEF Typed, TypeOK, Whole, Withdraws
  <1>2. PICK r \in Registration : r = reg[e.dst]
    BY <1>1, Zenon
  <1>3. /\ \A n \in Nodes \ {e.dst} : reg'[n] = reg[n]
        /\ \/ reg'[e.dst] = r
           \/ /\ r.phase = "deleting" \/ (r.phase \in {"import", "import_ready"} /\ r.mig = m)
              /\ reg'[e.dst] \in {NoReg, [r EXCEPT !.phase = "deleting"]}
    <2>1. CASE reg' = reg
      BY <1>2, <2>1, Zenon
    <2>2. CASE reg' # reg
      <3>1. PICK q \in {NoReg, [r EXCEPT !.phase = "deleting"]} : reg' = [reg EXCEPT ![e.dst] = q]
        BY <1>2, <2>2, Zenon DEF Withdraws
      <3>2. reg'[e.dst] = q /\ \A n \in Nodes \ {e.dst} : reg'[n] = reg[n]
        BY <1>1, <3>1, Zenon
      <3>3. QED
        BY <1>2, <2>2, <3>1, <3>2, Zenon DEF Withdraws
    <2>3. QED
      BY <2>1, <2>2, Zenon
  <1>4. /\ reg'[e.dst].phase = r.phase /\ reg'[e.dst].mig = r.mig
        \/ /\ r.phase = "deleting" \/ (r.phase \in {"import", "import_ready"} /\ r.mig = m)
           /\ reg'[e.dst].phase = "none" \/ (reg'[e.dst].phase = "deleting" /\ reg'[e.dst].mig = r.mig)
    BY <1>3, SMT DEF NoReg, Registration
  <1>5. Active(m) /\ e.phase \in Uncommitted /\ e.phase \notin Committed /\ e.phase # "planned"
    BY SMT DEF Active, Uncommitted, Committed
  <1>6. Source(m, e)
    BY <1>5, Zenon DEF World, UnderWay
  <1>7. reg'[e.src] = reg[e.src]
    BY <1>1, <1>3, Zenon
  <1>8. route.ws \in {"attached", "detached"}
    BY Zenon DEF Typed, TypeOK, Route
  <1>9. /\ \/ Empty(e.dst) \/ At(e.dst, "import", m) \/ At(e.dst, "import_ready", m)
           \/ At(e.dst, "deleting", m)
        /\ reg[e.src].phase = "owned" => Empty(e.dst)
    BY <1>5, <1>6, <1>8, Zenon DEF Source, Importing, Discarding, At, Empty
  <1>10. Discarding(m, e)'
    BY <1>2, <1>4, <1>7, <1>9, Zenon DEF Discarding, At, Empty
  <1>11. Source(m, e)'
    <2>1. m \in undoing'
      BY Zenon
    <2>2. QED
      BY <1>1, <1>5, <1>6, <1>7, <1>10, <2>1, SMT DEF Source, At, Empty
  <1>12. QED
    BY <1>3, <1>5, <1>11, Working, Zenon

\* The source lifts its fence.
LEMMA RestoresKept ==
  ASSUME Typed, World, NEW m \in Migrations, NEW e \in Entry, e = journal[m], e.phase \in Uncommitted, Empty(e.dst),
         UNCHANGED <<journal, route, latest>>, undoing' = undoing \cup {m}, Restores(e.src, m)
  PROVE  World' /\ reg'[e.dst].phase = "none"
  <1>1. /\ reg \in [Nodes -> Registration] /\ data' = data
        /\ e.src \in Nodes /\ e.dst \in Nodes /\ e.src # e.dst
    <2>1. e.phase # "none"
      BY SMT DEF Uncommitted
    <2>2. QED
      BY <2>1, JournalParts, Zenon DEF Typed, TypeOK, Whole, Restores
  <1>2. /\ \A n \in Nodes \ {e.src} : reg'[n] = reg[n]
        /\ \/ reg'[e.src] = reg[e.src]
           \/ At(e.src, "moving_out", m) /\ reg'[e.src] = [phase |-> "owned", mig |-> NoMigration]
    BY <1>1, Zenon DEF Restores
  <1>3. \/ reg'[e.src] = reg[e.src]
        \/ At(e.src, "moving_out", m) /\ reg'[e.src].phase = "owned"
    BY <1>2, SMT
  <1>4. Active(m) /\ e.phase \notin Committed
    BY SMT DEF Active, Uncommitted, Committed
  <1>5. Source(m, e)
    BY <1>4, Zenon DEF World, UnderWay
  <1>6. reg'[e.dst] = reg[e.dst]
    BY <1>1, <1>2, ZenonT(30)
  <1>7. Source(m, e)'
    <2>1. m \in undoing'
      BY Zenon
    <2>2. QED
      BY <1>1, <1>3, <1>5, <1>6, <2>1, SMT DEF Source, Discarding, At, Empty
  <1>8. World'
    BY <1>2, <1>4, <1>7, Working, Zenon
  <1>9. QED
    BY <1>6, <1>8, Zenon DEF Empty

\* The worker of a sandbox that is being deleted deletes it.
LEMMA ErasesKept ==
  ASSUME Typed, World, Exists, Inactive, route.ws = "attached", route.del, route.at \in Nodes,
         UNCHANGED <<journal, route, latest>>, Erases(route.at)
  PROVE  World' /\ Inactive'
  <1>1. reg \in [Nodes -> Registration] /\ data' = data
    BY Zenon DEF Typed, TypeOK, Erases
  <1>2. PICK n \in Nodes : n = route.at
    BY Zenon
  <1>3. PICK r \in Registration : r = reg[n]
    BY <1>1, Zenon
  <1>4. /\ \A i \in Nodes \ {n} : reg'[i] = reg[i]
        /\ reg'[n] = r \/ reg'[n] \in {NoReg, [r EXCEPT !.phase = "deleting"]}
    BY <1>1, <1>2, <1>3, Zenon DEF Erases
  <1>5. reg'[n] = r \/ reg'[n].phase \in {"none", "deleting"}
    BY <1>4, SMT DEF NoReg, Registration
  <1>6. AtRest
    BY Zenon DEF World
  <1>7. AtRest'
    <2>1. data[n] = latest /\ Elsewhere({n}) /\ (r.phase = "owned" \/ r.phase \in {"deleting", "none"})
      BY <1>2, <1>3, <1>6, Zenon DEF AtRest
    <2>2. Elsewhere({n})'
      BY <1>4, <2>1, Zenon DEF Elsewhere, Empty
    <2>3. Exists' /\ route'.ws # "detached" /\ route'.at = n /\ route'.del
      BY <1>2, SMT DEF Exists
    <2>4. reg'[n].phase = "owned" \/ reg'[n].phase \in {"deleting", "none"}
      BY <1>5, <2>1, Zenon
    <2>5. data'[n] = latest'
      BY <1>1, <2>1, Zenon
    <2>6. QED
      BY <2>2, <2>3, <2>4, <2>5, Zenon DEF AtRest
  <1>8. Inactive'
    BY Zenon DEF Inactive, Active
  <1>9. QED
    BY <1>7, <1>8, Zenon DEF World, Inactive, Exists

\* A worker carries out a call that rolls back or deletes, or half of it.
LEMMA RollbackServed ==
  ASSUME Typed, Typed', IInv, NEW h \in Handlers, Hears(h), hand[h].pc \in Calls,
         hand[h].pc \in Undoing \cup Deleting
  PROVE  IInv'
  <1>1. World /\ Fits(h) /\ RollsBack(h) /\ hand[h].pc # "idle" /\ hand[h].pc \notin Advancing
    BY StepKinds, Zenon DEF IInv, Handling, Fits
  <1>2. PICK k \in Call : /\ k = Request(h) /\ k.to \in Nodes /\ k.op = hand[h].pc /\ k.to = hand[h].to
                          /\ k.m = hand[h].m
    BY RequestTyped, Zenon
  <1>3. (Perform(k) \/ Halfway(k)) /\ UNCHANGED <<journal, route, latest, stray>>
    BY <1>2, Zenon DEF Hears
  <1>4. PICK c \in Entry : c = hand[h].c
    BY HandParts, Zenon
  <1>5. /\ hand'[h].pc = hand[h].pc /\ hand'[h].kind = hand[h].kind /\ hand'[h].m = hand[h].m
        /\ hand'[h].to = hand[h].to /\ hand'[h].re # "none"
        /\ hand'[h].c.phase = c.phase /\ hand'[h].c.src = c.src /\ hand'[h].c.dst = c.dst
        /\ Moves(h)
    BY <1>4, Zenon DEF Hears
  <1>6. hand[h].kind # "post" /\ (hand[h].kind = "delete" => Exists /\ route.del)
    BY <1>1, Zenon DEF Fits, RollsBack
  <1>7. /\ hand[h].pc \in {"undo_import", "undo_move", "delete"}
    BY SMT DEF Undoing, Deleting, Calls, SourceCalls, DestinationCalls
  <1>8. ASSUME World', RollsBack(h)', hand[h].pc = "undo_move" => reg'[c.dst].phase = "none"
        PROVE  IInv'
    <2>1. hand'[h].re = "ok" => Heard(h)'
      BY <1>4, <1>8, RollbackHeard, Zenon
    <2>2. Fits(h)'
      BY <1>1, <1>3, <1>5, <1>6, <1>8, <2>1, Zenon DEF Fits, Exists
    <2>3. QED
      BY <1>1, <1>3, <1>5, <1>6, <1>8, <2>2, HandStep, Zenon DEF Moves
  <1>9. CASE hand[h].pc \in Undoing
    <2>1. PICK m \in Migrations : m = hand[h].m
      BY <1>9, HandParts, Zenon
    <2>2. PICK e \in Entry : e = journal[m]
      BY JournalParts, Zenon
    <2>3. /\ Due(hand[h].pc, c) /\ e.phase = c.phase /\ c.src = e.src /\ c.dst = e.dst
          /\ e.phase \in Uncommitted /\ (hand[h].pc = "undo_move" => Empty(e.dst))
      BY <1>1, <1>4, <1>9, <2>1, <2>2, UndoingParts, Zenon
    <2>4. k.to = Target(hand[h].pc, c)
      BY <1>2, <1>4, <1>9, HandParts, Zenon DEF Carries
    <2>5. undoing' = undoing \cup {m}
      BY <1>2, <1>3, <1>9, <2>1, UndoEffect, Zenon DEF Undoing
    <2>6. World' /\ (hand[h].pc = "undo_move" => reg'[c.dst].phase = "none")
      <3>1. CASE hand[h].pc = "undo_import"
        <4>1. k.to = e.dst /\ e.phase \in {"prepared", "staged"} /\ hand[h].pc # "undo_move"
          BY <2>3, <2>4, <3>1, SMT DEF Due, Target, SourceCalls, DestinationCalls
        <4>2. Withdraws(e.dst, m)
          BY <1>2, <1>3, <2>1, <3>1, <4>1, UndoEffect, Zenon
        <4>3. QED
          BY <1>1, <1>3, <2>2, <2>5, <4>1, <4>2, WithdrawsKept, Zenon
      <3>2. CASE hand[h].pc = "undo_move"
        <4>1. k.to = e.src
          BY <2>3, <2>4, <3>2, SMT DEF Target, SourceCalls, DestinationCalls
        <4>2. Restores(e.src, m)
          BY <1>2, <1>3, <2>1, <3>2, <4>1, UndoEffect, Zenon
        <4>3. QED
          BY <1>1, <1>3, <2>2, <2>3, <2>5, <3>2, <4>2, RestoresKept, Zenon
      <3>3. QED
        BY <1>9, <3>1, <3>2, Zenon DEF Undoing
    <2>7. RollsBack(h)'
      <3>1. hand[h].pc \notin Deleting /\ hand[h].pc # "resolve" /\ hand[h].pc # "send" /\ hand[h].pc # "delete"
        BY <1>9, SMT DEF Undoing, Deleting
      <3>2. QED
        BY <1>3, <1>5, <1>6, <2>1, <2>2, <2>3, <2>6, <3>1, Zenon DEF RollsBack, Empty
    <2>8. QED
      BY <1>8, <2>6, <2>7, Zenon
  <1>10. CASE hand[h].pc = "delete"
    <2>1. hand[h].pc \in Deleting /\ hand[h].pc \notin Undoing /\ hand[h].pc # "resolve" /\ hand[h].pc # "send"
      BY <1>10, SMT DEF Undoing, Deleting
    <2>2. Exists /\ route.del /\ Inactive /\ route.ws = "attached" /\ k.to = route.at /\ hand[h].kind = "delete"
      BY <1>1, <1>2, <1>10, <2>1, DeletingParts, Zenon DEF RollsBack
    <2>3. Erases(route.at) /\ route.at \in Nodes
      BY <1>2, <1>3, <1>10, <2>2, UndoEffect, Zenon
    <2>4. World' /\ Inactive'
      BY <1>1, <1>3, <2>2, <2>3, ErasesKept, Zenon
    <2>5. RollsBack(h)'
      BY <1>2, <1>3, <1>5, <1>6, <2>1, <2>2, <2>4, Zenon DEF RollsBack
    <2>6. hand[h].pc # "undo_move"
      BY <1>10, SMT
    <2>7. QED
      BY <1>8, <2>4, <2>5, <2>6, Zenon
  <1>11. QED
    BY <1>7, <1>9, <1>10, SMT DEF Undoing

\* A worker serves a handler's call, or stumbles over it.
LEMMA ServeKept ==
  ASSUME Typed, Typed', IInv, NEW h \in Handlers, Serve(h) \/ Stumble(h)
  PROVE  IInv'
  <1>1. Hears(h) /\ hand[h].pc \in Calls
    BY Hearing, Zenon
  <1>2. hand[h].pc \in Advancing \/ hand[h].pc \in Undoing \cup Deleting
    BY <1>1, SMT DEF Calls, SourceCalls, DestinationCalls, Advancing, Undoing, Deleting
  <1>3. QED
    BY <1>1, <1>2, AdvancingServed, RollbackServed, Zenon

-----------------------------------------------------------------------------
(* The sandbox                                                               *)

\* The files do not decide what may be named.
LEMMA SameOpen ==
  ASSUME NEW m, UNCHANGED <<journal, route, reg, undoing>>
  PROVE  Open(m)' <=> Open(m)
  BY SMTT(20) DEF Open, Active, Moved, At, Empty, Elsewhere, Exists

\* The sandbox executes, and writes its files, where the route leads.
LEMMA WakeWorld ==
  ASSUME Typed, World, Wake
  PROVE  World'
  <1>1. /\ Exists /\ route.ws = "attached" /\ reg[route.at].phase = "owned"
        /\ UNCHANGED <<journal, route, reg, undoing>>
    BY Zenon DEF Wake
  <1>2. PICK n \in Nodes : n = route.at
    BY <1>1, SMT DEF Typed, TypeOK, Route, Exists
  <1>3. data'[n] = latest' /\ \A k \in Nodes \ {n} : data'[k] = data[k]
    <2>1. data \in [Nodes -> Versions] /\ data' = [data EXCEPT ![n] = latest'] /\ latest' = latest + 1
      BY <1>2, Zenon DEF Wake, Typed, TypeOK
    <2>2. QED
      BY <1>2, <2>1, Zenon
  <1>4. route.ws # "detached"
    BY <1>1, SMT
  <1>5. CASE Inactive
    <2>1. AtRest
      BY <1>5, Zenon DEF World
    <2>2. AtRest'
      BY <1>1, <1>2, <1>3, <1>4, <2>1, SMT DEF AtRest, Elsewhere, Empty, Exists
    <2>3. Inactive'
      BY <1>1, <1>5, Zenon DEF Inactive, Active
    <2>4. QED
      BY <1>1, <1>4, <2>2, <2>3, Zenon DEF World, Inactive
  <1>6. ASSUME NEW m \in Migrations, Active(m)
        PROVE  World'
    <2>1. PICK e \in Entry : e = journal[m]
      BY JournalParts, Zenon
    <2>2. /\ e.phase \in Uncommitted => Source(m, e)
          /\ e.phase \in Committed => Destination(m, e)
      BY <1>6, <2>1, Zenon DEF World, UnderWay
    <2>3. e.phase \in Uncommitted => Source(m, e)'
      <3> SUFFICES ASSUME Source(m, e) PROVE Source(m, e)'
        BY <2>2
      <3>1. n = e.src /\ ~At(e.src, "moving_out", m)
        BY <1>1, <1>2, SMT DEF Source, At
      <3>2. e.phase = "planned" \/ m \in undoing
        BY <1>1, <3>1, Zenon DEF Source
      <3>3. QED
        BY <1>1, <1>3, <1>4, <3>1, <3>2, SMT DEF Source, Discarding, At, Empty
    <2>4. e.phase \in Committed => Destination(m, e)'
      <3> SUFFICES ASSUME Destination(m, e) PROVE Destination(m, e)'
        BY <2>2
      <3>1. n = e.dst
        BY <1>2, Zenon DEF Destination
      <3>2. QED
        BY <1>1, <1>3, <3>1, SMT DEF Destination, At, Empty
    <2>5. \A k \in Nodes \ {e.src, e.dst} : reg'[k] = reg[k]
      BY <1>1, Zenon
    <2>6. QED
      BY <1>1, <1>4, <1>6, <2>1, <2>3, <2>4, <2>5, Working, Zenon
  <1>7. QED
    BY <1>5, <1>6, Zenon DEF Inactive

\* No answer that still counts was about the files before.
LEMMA WakeKept ==
  ASSUME Typed, Typed', IInv, Wake
  PROVE  IInv'
  <1>1. World /\ Apart /\ Astray /\ \A h \in Handlers : Fits(h)
    BY Zenon DEF IInv, Handling
  <1>2. /\ route.ws = "attached" /\ reg[route.at].phase = "owned"
        /\ UNCHANGED <<journal, route, reg, undoing>> /\ hand' = hand /\ stray' = stray
    BY Zenon DEF Wake
  <1>3. \A h \in Handlers : Fits(h)'
    <2> SUFFICES ASSUME NEW h \in Handlers, hand[h].pc # "idle" PROVE Fits(h)'
      BY <1>2, Zenon DEF Fits
    <2>1. Fits(h)
      BY <1>1, Zenon
    <2>2. hand[h].pc \in Advancing => Advances(h)'
      <3> SUFFICES ASSUME hand[h].pc \in Advancing PROVE Advances(h)'
        OBVIOUS
      <3>1. PICK m \in Migrations : m = hand[h].m /\ Open(m)
        BY <2>1, AdvancingParts, Zenon
      <3>2. Open(m)'
        BY <1>2, <3>1, SameOpen, Zenon
      <3>3. Advances(h)
        BY <2>1, ZenonT(30) DEF Fits
      <3>4. QED
        BY <1>2, <3>1, <3>2, <3>3, Zenon DEF Advances
    <2>3. hand[h].pc \in Undoing \cup Deleting => RollsBack(h)'
      BY <1>2, <2>1, SMT DEF Fits, RollsBack, Inactive, Active, Empty
    <2>4. hand[h].re = "ok" => Heard(h)'
      <3> SUFFICES ASSUME hand[h].re = "ok" PROVE Heard(h)'
        OBVIOUS
      <3>1. Heard(h)
        BY <2>1, Zenon DEF Fits
      <3>2. CASE hand[h].pc = "prepare"
        <4>0. hand[h].pc \in Advancing
          BY <3>2, SMT DEF Advancing
        <4>1. PICK m \in Migrations : m = hand[h].m /\ Open(m)
          BY <2>1, <4>0, AdvancingParts, Zenon
        <4>2. PICK e \in Entry : e = journal[m]
          BY JournalParts, Zenon
        <4>3. PICK c \in Entry : c = hand[h].c /\ c.src = e.src
          BY <2>1, <4>0, <4>1, <4>2, AdvancingParts, Zenon DEF Copy
        <4>4. e.phase # "planned"
          <5> SUFFICES ASSUME e.phase = "planned" PROVE FALSE
            OBVIOUS
          <5>1. Source(m, e)
            BY <1>1, <4>1, <4>2, OpenCases, SMT DEF Committed
          <5>2. At(e.src, "moving_out", m) /\ route.at = e.src
            BY <3>1, <3>2, <4>1, <4>2, <4>3, <5>1, Zenon DEF Heard, Source
          <5>3. QED
            BY <1>2, <5>2, SMT DEF At
        <4>5. QED
          BY <1>2, <3>2, <4>1, <4>2, <4>4, SMT DEF Heard
      <3>3. CASE hand[h].pc # "prepare"
        BY <1>2, <3>1, <3>3, Zenon DEF Heard, At, Empty
      <3>4. QED
        BY <3>2, <3>3, Zenon
    <2>5. QED
      BY <1>2, <2>1, <2>2, <2>3, <2>4, Zenon DEF Fits, Exists
  <1>4. Apart'
    BY <1>1, <1>2, Zenon DEF Apart, Alone
  <1>5. Astray'
    <2> SUFFICES ASSUME NEW k \in stray PROVE Legit(k)'
      BY <1>2, Zenon DEF Astray
    <2>1. Legit(k)
      BY <1>1, Zenon DEF Astray
    <2>2. Open(k.m)'
      BY <1>2, <2>1, SameOpen, Zenon DEF Legit
    <2>3. QED
      BY <1>2, <2>1, <2>2, Zenon DEF Legit
  <1>6. QED
    BY <1>1, <1>3, <1>4, <1>5, WakeWorld, Zenon DEF IInv, Handling

\* A worker parks the sandbox: the migration does not see it.
LEMMA ParkKept ==
  ASSUME Typed, Typed', IInv, NEW n, Park(n) \/ UNCHANGED vars
  PROVE  IInv'
  <1>1. Calm /\ hand' = hand /\ stray' = stray
    BY Zenon DEF Park, vars, worker, Calm
  <1>2. World'
    BY <1>1, CalmWorld, Zenon DEF IInv
  <1>3. \A m : Open(m)' <=> Open(m)
    BY <1>1, CalmOpen, Zenon
  <1>4. UNCHANGED <<journal, route, reg, latest>>
    BY <1>1, Zenon DEF Calm
  <1>5. \A h \in Handlers : Fits(h)'
    <2> SUFFICES ASSUME NEW h \in Handlers, Fits(h), hand[h].pc # "idle" PROVE Fits(h)'
      BY <1>1, Zenon DEF Fits, IInv, Handling
    <2>1. Advances(h) => Advances(h)'
      BY <1>1, <1>3, <1>4, Zenon DEF Advances
    <2>2. RollsBack(h) => RollsBack(h)'
      BY <1>1, <1>4, Zenon DEF RollsBack, Inactive, Active, Empty
    <2>3. Heard(h) => Heard(h)'
      BY <1>1, <1>4, Zenon DEF Heard, At, Empty
    <2>4. QED
      BY <1>1, <1>4, <2>1, <2>2, <2>3, Zenon DEF Fits, Exists
  <1>6. Apart'
    BY <1>1, Zenon DEF Apart, Alone, IInv, Handling
  <1>7. Astray'
    BY <1>1, <1>3, <1>4, Zenon DEF Astray, Legit, IInv
  <1>8. QED
    BY <1>2, <1>5, <1>6, <1>7, Zenon DEF IInv, Handling
===============================================================================
