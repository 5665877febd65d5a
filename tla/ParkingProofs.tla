--------------------------- MODULE ParkingProofs ---------------------------
(***************************************************************************)
(* The safety properties of Parking, for every number of publishers, parks,*)
(* mounts, growth steps and faults.                                        *)
(*                                                                         *)
(* The properties are not inductive: that a sentry is dead while a         *)
(* candidate runs, say, rests on what the journal says at each step of the *)
(* operation that holds the lock.  The invariants below add that, one for  *)
(* each piece of state, and each is shown to be kept by every step with    *)
(* the help of the ones before it.                                         *)
(***************************************************************************)
EXTENDS Parking, TLAPS

-----------------------------------------------------------------------------
(* The inductive invariant.                                                  *)

\* The bounds hold where a step relies on a guard of an earlier one.
Bounded ==
    /\ w.pc \in {"limit", "begin"} => parks < MaxParks
    /\ w.pc = "grow" => vol.granted < MaxGrant

\* What the journal says while the lock is held at a step.
Stages ==
    /\ w.pc \in {"limit", "begin", "finalize"} => life = "running"
    /\ w.pc \in {"capture", "prepare", "preparing", "complete", "undo", "unpause", "abort", "stop", "reap"}
         => life = "hibernating"
    /\ w.pc = "commit" => life = "reaped"
    /\ w.pc \in {"seal", "release", "releasing", "charge"} => life \in {"reaped", "parked"}
    /\ w.pc \in {"seal", "release", "releasing", "charge"} /\ w.by = "park" => life = "reaped"
    /\ w.pc \in {"mount", "mounting", "claim", "verify"} => life = "parked"
    /\ w.pc \in {"restore", "mark"} => life = "restoring"
    /\ w.pc \in {"thaw", "run"} => life = "candidate"
    /\ w.pc \in {"fence", "unrestore"} => life \in {"restoring", "candidate"}
    /\ w.pc \in {"discard", "discarding", "uncharge"}
         => life \in {"reaped", "parked", "restoring", "candidate"}

\* The process that holds the sandbox's memory, and the marker that decides.
Custody ==
    /\ life \in {"reaped", "parked", "restoring", "candidate"} => sentry = "dead"
    /\ w.pc = "reap" => sentry = "dead"
    /\ cand # "none" => life \in {"restoring", "candidate"}
    /\ w.pc \in {"restore", "discard", "discarding", "uncharge", "unrestore"} => cand = "none"
    /\ w.pc \in {"capture", "prepare", "preparing", "complete", "undo", "unpause", "abort"}
         => art.st # "complete"

\* Under what runs, is about to run or ran last, the volume is mounted or failed.
Underneath ==
    /\ \/ life = "running"
       \/ cand # "none"
       \/ w.pc \in {"capture", "prepare", "unpause", "abort", "claim", "verify", "restore", "run"}
       => vol.st \in {"mounted", "error"}

\* A publisher that may still uncharge the workspace has read the current epoch.
OffNode ==
    /\ led.released => vol.st = "published"
    /\ \A p \in Publishers : pub[p].pc # "idle" => pub[p].epoch <= led.epoch
    /\ \A p \in Publishers : pub[p].pc = "done" /\ pub[p].epoch = led.epoch => vol.st = "published"
    /\ w.pc = "mount" => ~led.released /\ \A p \in Publishers : pub[p].pc # "idle" => pub[p].epoch < led.epoch
    /\ w.pc = "uncharge" /\ w.due = 0 => vol.st = "published"

\* Every charge that is written, or is about to be, covers the grant.
Covered ==
    /\ led.ws >= vol.granted
    /\ w.pc = "grow" => led.ws > vol.granted /\ track = Seeded
    /\ w.pc \in {"charge", "claim", "uncharge", "grown"} => w.due = 0 \/ w.due >= vol.granted
    /\ track.pc = "listed" => track.due >= vol.granted

\* The backing's limit between the two writes of raising and of settling it.
Space ==
    /\ mem.limit <= mem.claim
    /\ w.pc = "limit" => mem.claim = 2
    /\ w.pc = "unclaim" => mem.limit = 1

\* The checkpoint and the layers it was captured with.
Captured == art.st # "none" /\ HasLayers /\ art.cap = vol.cap

\* Unless a process died on its own, an ended sentry left a capture.
Kept ==
    /\ w.pc = "complete" \/ vol.st = "prepared" => vol.sealed = TRUE
    /\ w.pc = "complete" => vol.st \in {"prepared", "error"}
    /\ ~died =>
        /\ life = "running" => sentry # "dead"
        /\ w.pc \in {"capture", "prepare", "preparing", "complete", "undo", "unpause", "abort"} => sentry # "dead"
        /\ w.pc = "run" => cand # "none"
        /\ life \in {"reaped", "parked", "restoring", "candidate"} => Captured
        /\ life = "hibernating" /\ (art.st = "complete" \/ sentry = "dead" \/ w.pc \in {"stop", "reap"})
             => Captured /\ art.st = "complete"
        /\ vol.st = "preparing" =>
             life \in {"hibernating", "recovery"} /\ (life = "hibernating" => art.st # "complete")

\* Types, with the bounds the guards keep.
Typed == TypeOK /\ Bounded

\* What the journals, the processes, the volume and the checkpoint say together.
Journal == Stages /\ Custody /\ Underneath /\ Space /\ Kept

-----------------------------------------------------------------------------
(* The records: what each update leaves.                                     *)

\* Moving to a step of an operation changes its program counter only.
LEMMA GotoFields ==
  ASSUME w \in Operation, NEW s, Goto(s)
  PROVE  (s \in Steps => w' \in Operation) /\ w'.pc = s /\ w'.by = w.by /\ w'.due = w.due
  BY SMT DEF Goto, Operation

\* What a sync charges is a number, zero exactly for a published record, and
\* otherwise at least the grant.
LEMMA DueBounds ==
  ASSUME NEW v \in Volume
  PROVE  /\ Charge(v) \in Nat /\ Charge(v) >= v.granted
         /\ Due(v) \in Nat
         /\ Due(v) = 0 <=> v.st = "published"
         /\ v.st # "published" => Due(v) >= v.granted
  <1>1. v.granted \in Nat /\ v.granted >= 1
    BY ParkingAssumption, SMT DEF Volume
  <1>2. Charge(v) \in Nat /\ Charge(v) >= v.granted
    BY <1>1, SMT DEF Charge
  <1>3. QED
    BY <1>1, <1>2, SMT DEF Due

\* Moving to a sync carries the charge of the record.
LEMMA SyncFields ==
  ASSUME w \in Operation, NEW s, NEW v \in Volume, GotoSync(s, v)
  PROVE  (s \in Steps => w' \in Operation) /\ w'.pc = s /\ w'.by = w.by /\ w'.due = Due(v)
  <1> DEFINE x == [w EXCEPT !.pc = s]
  <1>1. /\ s \in Steps => x \in Operation
        /\ x = [pc |-> s, due |-> w.due, by |-> w.by]
    BY SMT DEF Operation
  <1>2. w' = [x EXCEPT !.due = Due(v)]
    BY Zenon DEF GotoSync
  <1>3. Due(v) \in Nat
    BY DueBounds, Zenon
  <1> HIDE DEF x
  <1>4. QED
    BY <1>1, <1>2, <1>3, SMT DEF Operation

\* The lock is free, or taken at a first step.
LEMMA AtFields ==
  ASSUME NEW s, NEW b
  PROVE  /\ s \in Steps /\ b \in {"park", "wake", "reconcile", "publish", "maintenance", "growth"}
              => At(s, b) \in Operation
         /\ At(s, b).pc = s /\ At(s, b).by = b /\ At(s, b).due = 0
  BY SMT DEF At, Operation

\* An idle operation.
LEMMA IdleFields == Idle \in Operation /\ Idle.pc = "idle"
  BY SMT DEF Idle, Operation, Steps

\* A journaled transition of the daemon changes state and revision only.
LEMMA MovedFields ==
  ASSUME vol \in Volume, NEW s
  PROVE  /\ (s \in VolumeStates => Moved(s) \in Volume) /\ Moved(s).st = s /\ Moved(s).cap = vol.cap
         /\ Moved(s).sealed = vol.sealed /\ Moved(s).pub = vol.pub
         /\ Moved(s).granted = vol.granted
  <1> DEFINE x == [vol EXCEPT !.st = s]
  <1>1. /\ s \in VolumeStates => x \in Volume
        /\ x = [st |-> s, rev |-> vol.rev, cap |-> vol.cap, sealed |-> vol.sealed,
                pub |-> vol.pub, granted |-> vol.granted]
    BY SMT DEF Volume
  <1>2. Moved(s) = [x EXCEPT !.rev = vol.rev + 1]
    BY Zenon DEF Moved
  <1>3. vol.rev + 1 \in Nat
    BY SMT DEF Volume
  <1> HIDE DEF x
  <1>4. QED
    BY <1>1, <1>2, <1>3, SMT DEF Volume

\* So does one that leaves the revision alone.
LEMMA StateFields ==
  ASSUME vol \in Volume, NEW s
  PROVE  LET v == [vol EXCEPT !.st = s] IN
         /\ (s \in VolumeStates => v \in Volume) /\ v.st = s /\ v.cap = vol.cap
         /\ v.sealed = vol.sealed /\ v.pub = vol.pub /\ v.granted = vol.granted
  BY SMT DEF Volume

\* Superseding a publication leaves layers and grant alone.
LEMMA SupersededFields ==
  ASSUME vol \in Volume
  PROVE  /\ Superseded \in Volume
         /\ Superseded.st = IF vol.st = "publishing" THEN "released" ELSE vol.st
         /\ Superseded.cap = vol.cap /\ Superseded.sealed = vol.sealed
         /\ Superseded.pub = vol.pub /\ Superseded.granted = vol.granted
  <1>1. "released" \in VolumeStates
    BY Zenon DEF VolumeStates
  <1>2. QED
    BY <1>1, MovedFields, SMT DEF Superseded

\* A restart of the daemon keeps layers and grant, and a published record.
LEMMA ReopenedFields ==
  ASSUME vol \in Volume, NEW lost \in BOOLEAN
  PROVE  LET v == Reopened(lost) IN
         /\ v \in Volume /\ v.cap = vol.cap
         /\ v.sealed = vol.sealed /\ v.pub = vol.pub /\ v.granted = vol.granted
         /\ v.st \in {vol.st, "error", "released"}
         /\ vol.st = "published" => v.st = "published"
         /\ vol.st \in {"mounted", "error"} => v.st \in {"mounted", "error"}
         /\ vol.st \in {"prepared", "error"} => v.st \in {"prepared", "error"}
  <1>1. {"released", "error"} \subseteq VolumeStates
    BY Zenon DEF VolumeStates
  <1>2. QED
    BY <1>1, MovedFields, StateFields, SMT DEF Reopened

\* A publisher is answered, or left as it was; it keeps the epoch it read.
LEMMA AnsweredFields ==
  ASSUME pub \in [Publishers -> Publication], NEW rev, NEW c \in {"idle", "done"}
  PROVE  /\ Answered(rev, c) \in [Publishers -> Publication]
         /\ \A p \in Publishers :
              \/ Answered(rev, c)[p] = pub[p]
              \/ Answered(rev, c)[p].pc = "idle"
              \/ /\ c = "done" /\ pub[p].pc # "idle" /\ Answered(rev, c)[p].epoch = pub[p].epoch
  <1>1. Resting \in Publication /\ Resting.pc = "idle"
    BY SMT DEF Resting, Publication
  <1>2. ASSUME NEW p \in Publishers
        PROVE  LET q == [pub[p] EXCEPT !.pc = c] IN q \in Publication /\ q.epoch = pub[p].epoch
    BY SMT DEF Publication
  <1>3. QED
    BY <1>1, <1>2, SMT DEF Answered

\* The charge of the operation is a number.
LEMMA DueTyped == ASSUME w \in Operation PROVE w.due \in Nat
  BY SMT DEF Operation

\* A sync writes the charge, never the epoch or the release.
LEMMA SyncedFields ==
  ASSUME led \in Ledger, NEW due \in Nat
  PROVE  /\ Synced(due) \in Ledger /\ Synced(due).ws = IF due = 0 THEN led.ws ELSE due
         /\ Synced(due).epoch = led.epoch /\ Synced(due).released = led.released
  BY SMT DEF Synced, Ledger

\* A raised claim, likewise.
LEMMA ClaimFields ==
  ASSUME led \in Ledger, NEW n \in Nat
  PROVE  LET l == [led EXCEPT !.ws = n] IN
         l \in Ledger /\ l.ws = n /\ l.epoch = led.epoch /\ l.released = led.released
  BY SMT DEF Ledger

\* Setting the release of the ledger.
LEMMA LedgerFlag ==
  ASSUME NEW l \in Ledger, NEW b \in BOOLEAN
  PROVE  LET z == [l EXCEPT !.released = b] IN
         z \in Ledger /\ z.ws = l.ws /\ z.epoch = l.epoch /\ z.released = b
  BY SMT DEF Ledger

\* Releasing the charge of a workspace.
LEMMA ReleasedFields ==
  ASSUME led \in Ledger
  PROVE  LET l == [led EXCEPT !.released = TRUE] IN
         l \in Ledger /\ l.ws = led.ws /\ l.epoch = led.epoch /\ l.released = TRUE
  BY LedgerFlag, Zenon

\* Reserving a mount advances the epoch and charges the workspace again.
LEMMA ReservedFields ==
  ASSUME led \in Ledger
  PROVE  /\ Reserved \in Ledger /\ Reserved.ws = led.ws /\ Reserved.released = FALSE
         /\ Reserved.epoch = led.epoch + 1 /\ led.epoch \in Nat
  <1> DEFINE x == [led EXCEPT !.epoch = led.epoch + 1]
  <1>1. x \in Ledger /\ x.ws = led.ws /\ x.epoch = led.epoch + 1 /\ led.epoch \in Nat
    BY SMT DEF Ledger
  <1>2. Reserved = [x EXCEPT !.released = FALSE]
    BY Zenon DEF Reserved
  <1> HIDE DEF x
  <1>3. QED
    BY <1>1, <1>2, LedgerFlag, Zenon

\* A publisher at rest.
LEMMA RestingFields == Resting \in Publication /\ Resting.pc = "idle"
  BY SMT DEF Resting, Publication

\* Setting one field of the daemon's record.
LEMMA FlagFields ==
  ASSUME NEW v \in Volume, NEW b \in BOOLEAN
  PROVE  LET x == [v EXCEPT !.sealed = b]
             y == [v EXCEPT !.pub = b]
         IN /\ x \in Volume /\ x.st = v.st /\ x.cap = v.cap /\ x.sealed = b /\ x.granted = v.granted
            /\ x.pub = v.pub
            /\ y \in Volume /\ y.st = v.st /\ y.cap = v.cap /\ y.pub = b /\ y.granted = v.granted
  BY SMT DEF Volume

\* A new capture leaves the revision, the published layers and the grant alone.
LEMMA PreparedFields ==
  ASSUME vol \in Volume, parks \in Nat
  PROVE  LET v == [vol EXCEPT !.st = "prepared", !.cap = parks, !.sealed = TRUE] IN
         v \in Volume /\ v.st = "prepared" /\ v.cap = parks /\ v.sealed = TRUE /\ v.granted = vol.granted
  <1> DEFINE x == [vol EXCEPT !.st = "prepared"]
             y == [x EXCEPT !.cap = parks]
  <1>1. x \in Volume /\ x.st = "prepared" /\ x.granted = vol.granted
    BY SMT DEF Volume, VolumeStates
  <1> HIDE DEF x
  <1>2. y \in Volume /\ y.st = "prepared" /\ y.cap = parks /\ y.granted = vol.granted
    BY <1>1, SMT DEF Volume
  <1>3. [vol EXCEPT !.st = "prepared", !.cap = parks, !.sealed = TRUE] = [y EXCEPT !.sealed = TRUE]
    BY Zenon DEF x
  <1> HIDE DEF y
  <1>4. LET z == [y EXCEPT !.sealed = TRUE] IN
        z \in Volume /\ z.st = y.st /\ z.cap = y.cap /\ z.sealed = TRUE /\ z.granted = y.granted
    BY <1>2, FlagFields, Zenon
  <1>5. QED
    BY <1>2, <1>3, <1>4, Zenon

\* A publication that completes moves the layers off the node.
LEMMA PublishedFields ==
  ASSUME vol \in Volume
  PROVE  LET v == [vol EXCEPT !.st = "published", !.sealed = FALSE, !.pub = TRUE] IN
         v \in Volume /\ v.st = "published" /\ v.cap = vol.cap /\ v.pub = TRUE /\ v.granted = vol.granted
  <1> DEFINE x == [vol EXCEPT !.st = "published"]
             y == [x EXCEPT !.sealed = FALSE]
  <1>1. x \in Volume /\ x.st = "published" /\ x.cap = vol.cap /\ x.granted = vol.granted
    BY SMT DEF Volume, VolumeStates
  <1> HIDE DEF x
  <1>2. y \in Volume /\ y.st = "published" /\ y.cap = vol.cap /\ y.granted = vol.granted
    BY <1>1, FlagFields, Zenon
  <1>3. [vol EXCEPT !.st = "published", !.sealed = FALSE, !.pub = TRUE] = [y EXCEPT !.pub = TRUE]
    BY Zenon DEF x
  <1> HIDE DEF y
  <1>4. LET z == [y EXCEPT !.pub = TRUE] IN
        z \in Volume /\ z.st = y.st /\ z.cap = y.cap /\ z.pub = TRUE /\ z.granted = y.granted
    BY <1>2, FlagFields, Zenon
  <1>5. QED
    BY <1>2, <1>3, <1>4, Zenon

\* A mount reads the grant back from the superblock: at most the old one.
LEMMA MountedFields ==
  ASSUME vol \in Volume, NEW g \in 1 .. vol.granted
  PROVE  LET v == [vol EXCEPT !.st = "mounted", !.granted = g] IN
         /\ v \in Volume /\ v.st = "mounted" /\ v.cap = vol.cap
         /\ v.sealed = vol.sealed /\ v.pub = vol.pub /\ v.granted = g
  <1> DEFINE x == [vol EXCEPT !.st = "mounted"]
  <1>1. /\ x \in Volume /\ x.st = "mounted" /\ x.cap = vol.cap
        /\ x.sealed = vol.sealed /\ x.pub = vol.pub
    BY SMT DEF Volume, VolumeStates
  <1>2. [vol EXCEPT !.st = "mounted", !.granted = g] = [x EXCEPT !.granted = g]
    BY Zenon
  <1>3. g \in 1 .. MaxGrant
    BY ParkingAssumption, SMT DEF Volume
  <1> HIDE DEF x
  <1>4. QED
    BY <1>1, <1>2, <1>3, SMT DEF Volume

\* A mount from a snapshot, of whatever the publication was superseded to.
LEMMA AcquiringFields ==
  ASSUME vol \in Volume
  PROVE  LET v == [Superseded EXCEPT !.st = "acquiring", !.rev = @ + 1] IN
         /\ v \in Volume /\ v.st = "acquiring" /\ v.cap = vol.cap
         /\ v.sealed = vol.sealed /\ v.pub = vol.pub /\ v.granted = vol.granted
  <1> DEFINE x == [Superseded EXCEPT !.st = "acquiring"]
  <1>1. /\ x \in Volume /\ x.st = "acquiring" /\ x.cap = vol.cap
        /\ x.sealed = vol.sealed /\ x.pub = vol.pub /\ x.granted = vol.granted
    BY SupersededFields, SMT DEF Volume, VolumeStates
  <1>2. Superseded.rev + 1 \in Nat
    BY SupersededFields, SMT DEF Volume
  <1>3. [Superseded EXCEPT !.st = "acquiring", !.rev = @ + 1] = [x EXCEPT !.rev = Superseded.rev + 1]
    BY Zenon
  <1> HIDE DEF x
  <1>4. LET z == [x EXCEPT !.rev = Superseded.rev + 1] IN
        /\ z \in Volume /\ z.st = x.st /\ z.cap = x.cap
        /\ z.sealed = x.sealed /\ z.pub = x.pub /\ z.granted = x.granted
    BY <1>1, <1>2, SMT DEF Volume
  <1>5. QED
    BY <1>1, <1>3, <1>4, Zenon

\* A grown filesystem.
LEMMA GrownFields ==
  ASSUME vol \in Volume
  PROVE  LET v == [vol EXCEPT !.granted = @ + 1] IN
         /\ vol.granted < MaxGrant => v \in Volume
         /\ v.st = vol.st /\ v.cap = vol.cap /\ v.sealed = vol.sealed /\ v.pub = vol.pub
         /\ v.granted = vol.granted + 1 /\ vol.granted \in Nat
  BY ParkingAssumption, SMT DEF Volume

-----------------------------------------------------------------------------
(* Types and bounds.                                                         *)

\* The initial state has the types and is within the bounds.
LEMMA TypedInit == Init => Typed
  <1> SUFFICES ASSUME Init PROVE Typed
    OBVIOUS
  <1>1. vol \in Volume /\ led \in Ledger
    BY ParkingAssumption DEF Init, Volume, VolumeStates, Ledger
  <1>2. w \in Operation /\ w.pc = "idle"
    BY IdleFields DEF Init
  <1>3. pub \in [Publishers -> Publication]
    BY RestingFields DEF Init
  <1>4. track \in [pc : {"unseeded", "listed", "seeded"}, due : Nat]
    BY DEF Init, Unseeded
  <1>5. life \in Lives /\ art \in [st : {"none", "complete", "consumed"}, cap : Nat]
    BY DEF Init, Lives
  <1>6. /\ parks \in 0 .. MaxParks /\ faults \in 0 .. MaxFaults
        /\ mem \in [claim : {1, 2}, limit : {1, 2}] /\ uploads \subseteq Nat
        /\ sentry \in {"running", "paused", "dead"} /\ cand \in {"none", "paused", "running"}
    BY ParkingAssumption DEF Init
  <1>7. died \in BOOLEAN
    BY Zenon DEF Init
  <1>8. QED
    BY <1>1, <1>2, <1>3, <1>4, <1>5, <1>6, <1>7, Zenon DEF Typed, TypeOK, Bounded

\* Types and bounds are kept by every step.
LEMMA TypedStep == Typed /\ [Next]_vars => Typed'
  <1> SUFFICES ASSUME Typed, [Next]_vars PROVE Typed'
    OBVIOUS
  <1> USE ParkingAssumption DEF Typed
  <1>1. CASE FinishPrepare
    <2>1. vol' \in Volume /\ vol'.granted = vol.granted
      <3>1. CASE vol' = [vol EXCEPT !.st = "prepared", !.cap = parks, !.sealed = TRUE]
        BY <3>1, PreparedFields DEF TypeOK
      <3>2. CASE vol' = [vol EXCEPT !.st = "error"]
        BY <3>2 DEF TypeOK, Volume, VolumeStates
      <3>3. QED
        BY <1>1, <3>1, <3>2, Zenon DEF FinishPrepare
    <2>2. QED
      BY <1>1, <2>1 DEF FinishPrepare, runtime, claims, Fault, TypeOK, Bounded
  <1>2. CASE FinishRelease
    BY <1>2 DEF FinishRelease, Fault, runtime, claims, TypeOK, Bounded, Lives, Steps,
       VolumeStates, Volume
  <1>3. CASE FinishMount
    <2>1. vol' \in Volume /\ vol'.granted <= vol.granted
      <3>1. ASSUME NEW g \in 1 .. vol.granted, vol' = [vol EXCEPT !.st = "mounted", !.granted = g]
            PROVE  vol' \in Volume /\ vol'.granted <= vol.granted
        <4>1. vol' \in Volume /\ vol'.granted = g
          BY <3>1, MountedFields, Zenon DEF TypeOK
        <4>2. QED
          BY <4>1 DEF TypeOK, Volume
      <3>2. CASE vol' = [vol EXCEPT !.st = "mountfail"]
        BY <3>2 DEF TypeOK, Volume, VolumeStates
      <3>3. QED
        BY <1>3, <3>1, <3>2, Zenon DEF FinishMount
    <2>2. vol.granted \in Int /\ vol'.granted \in Int /\ (w.pc = "grow" => vol'.granted < MaxGrant)
      BY <2>1 DEF TypeOK, Bounded, Volume
    <2>3. /\ UNCHANGED faults \/ Fault
          /\ UNCHANGED <<life, parks, sentry, cand, died, art, led, mem, w, pub, uploads, track>>
      BY <1>3, Zenon DEF FinishMount, runtime, claims
    <2>4. QED
      BY <2>1, <2>2, <2>3 DEF Fault, TypeOK, Bounded
  <1>4. CASE FinishDiscard
    BY <1>4 DEF FinishDiscard, Fault, runtime, claims, TypeOK, Bounded, Lives, Steps,
       VolumeStates, Volume
  <1>5. CASE RaiseLimit
    BY <1>5, GotoFields DEF RaiseLimit, Holds, runtime, TypeOK, Bounded, Lives, Steps,
       VolumeStates
  <1>6. CASE BeginHibernate
    BY <1>6, GotoFields DEF BeginHibernate, Holds, runtime, claims, TypeOK, Bounded,
       Lives, Steps, VolumeStates
  <1>7. CASE Capture
    BY <1>7, GotoFields DEF Capture, Fault, Holds, claims, TypeOK, Bounded, Lives,
       Steps, VolumeStates
  <1>8. CASE PrepareCapture
    BY <1>8, GotoFields, MovedFields DEF PrepareCapture, Holds, runtime, claims, TypeOK,
       Bounded, Lives, Steps, VolumeStates
  <1>9. CASE CapturePrepared
    BY <1>9, GotoFields DEF CapturePrepared, Holds, runtime, claims, TypeOK, Bounded,
       Lives, Steps, VolumeStates
  <1>10. CASE PublishComplete
    BY <1>10, GotoFields, IdleFields DEF PublishComplete, Fault, Return, Holds, runtime,
       claims, TypeOK, Bounded, Lives, Steps, VolumeStates, Volume
  <1>11. CASE Terminate
    BY <1>11, GotoFields DEF Terminate, Holds, claims, TypeOK, Bounded, Lives, Steps,
       VolumeStates
  <1>12. CASE MarkSentryReaped
    BY <1>12, GotoFields DEF MarkSentryReaped, Holds, runtime, claims, TypeOK, Bounded,
       Lives, Steps, VolumeStates
  <1>13. CASE CommitParked
    BY <1>13, GotoFields DEF CommitParked, Holds, runtime, claims, TypeOK, Bounded,
       Lives, Steps, VolumeStates
  <1>14. CASE SettleLimit
    BY <1>14, GotoFields DEF SettleLimit, Holds, runtime, TypeOK, Bounded, Lives, Steps,
       VolumeStates
  <1>15. CASE SettleClaim
    BY <1>15, IdleFields DEF SettleClaim, Return, Holds, runtime, TypeOK, Bounded,
       Lives, Steps, VolumeStates
  <1>16. CASE AbortCapture
    BY <1>16, GotoFields, IdleFields, MovedFields DEF AbortCapture, Return, Holds,
       runtime, claims, TypeOK, Bounded, Lives, Steps, VolumeStates
  <1>17. CASE ResumeOriginal
    BY <1>17, GotoFields, IdleFields DEF ResumeOriginal, Return, Holds, claims, TypeOK,
       Bounded, Lives, Steps, VolumeStates
  <1>18. CASE AbortHibernate
    BY <1>18, IdleFields DEF AbortHibernate, Return, Holds, runtime, claims, TypeOK,
       Bounded, Lives, Steps, VolumeStates
  <1>19. CASE CommitCapture
    BY <1>19, GotoFields, MovedFields DEF CommitCapture, Loadable, Holds, runtime,
       claims, TypeOK, Bounded, Lives, Steps, VolumeStates
  <1>20. CASE ReleaseRuntime
    BY <1>20, GotoFields, IdleFields, MovedFields, SyncFields DEF ReleaseRuntime,
       Return, Holds, runtime, claims, TypeOK, Bounded, Lives, Steps, VolumeStates
  <1>21. CASE RuntimeReleased
    BY <1>21, IdleFields, SyncFields DEF RuntimeReleased, Return, Holds, runtime,
       claims, TypeOK, Bounded, Lives, Steps, VolumeStates
  <1>22. CASE SyncReleased
    BY <1>22, GotoFields, IdleFields, SyncedFields, DueTyped DEF SyncReleased, Return,
       Holds, runtime, TypeOK, Bounded, Lives, Steps, VolumeStates
  <1>23. CASE MountSnapshot
    BY <1>23, GotoFields, SyncFields, SupersededFields, AcquiringFields DEF
       MountSnapshot, Fault, Holds, runtime, claims, TypeOK, Bounded, Lives, Steps,
       VolumeStates
  <1>24. CASE Mounted
    BY <1>24, GotoFields, SyncFields DEF Mounted, Holds, runtime, claims, TypeOK,
       Bounded, Lives, Steps, VolumeStates
  <1>25. CASE SyncMounted
    BY <1>25, GotoFields, SyncedFields, DueTyped DEF SyncMounted, Holds, runtime,
       TypeOK, Bounded, Lives, Steps, VolumeStates
  <1>26. CASE BeginRestore
    BY <1>26, GotoFields DEF BeginRestore, Fault, Loadable, Holds, runtime, claims,
       TypeOK, Bounded, Lives, Steps, VolumeStates
  <1>27. CASE RunscRestore
    BY <1>27, GotoFields DEF RunscRestore, Fault, Holds, claims, TypeOK, Bounded, Lives,
       Steps, VolumeStates
  <1>28. CASE MarkCandidate
    BY <1>28, GotoFields DEF MarkCandidate, Holds, runtime, claims, TypeOK, Bounded,
       Lives, Steps, VolumeStates
  <1>29. CASE ThawCandidate
    BY <1>29, GotoFields DEF ThawCandidate, Fault, Holds, claims, TypeOK, Bounded,
       Lives, Steps, VolumeStates
  <1>30. CASE CommitRunning
    BY <1>30, GotoFields DEF CommitRunning, Holds, claims, TypeOK, Bounded, Lives,
       Steps, VolumeStates
  <1>31. CASE FinalizeRestore
    BY <1>31, IdleFields DEF FinalizeRestore, Return, Holds, runtime, claims, TypeOK,
       Bounded, Lives, Steps, VolumeStates
  <1>32. CASE FenceCandidate
    BY <1>32, GotoFields DEF FenceCandidate, Holds, claims, TypeOK, Bounded, Lives,
       Steps, VolumeStates
  <1>33. CASE DiscardMounted
    BY <1>33, GotoFields, IdleFields, MovedFields, SyncFields, SupersededFields DEF
       DiscardMounted, Return, HasLayers, Holds, runtime, claims, TypeOK, Bounded,
       Lives, Steps, VolumeStates
  <1>34. CASE Discarded
    BY <1>34, IdleFields, SyncFields DEF Discarded, Return, Holds, runtime, claims,
       TypeOK, Bounded, Lives, Steps, VolumeStates
  <1>35. CASE SyncDiscarded
    BY <1>35, GotoFields, IdleFields, SyncedFields, DueTyped, ReleasedFields DEF
       SyncDiscarded, Return, Holds, runtime, TypeOK, Bounded, Lives, Steps,
       VolumeStates
  <1>36. CASE RollbackRestore
    BY <1>36, IdleFields DEF RollbackRestore, Return, Holds, runtime, claims, TypeOK,
       Bounded, Lives, Steps, VolumeStates
  <1>37. CASE GrowVolume
    BY <1>37, IdleFields, SyncFields, GrownFields DEF GrowVolume, Fault, Return, Holds,
       runtime, claims, TypeOK, Bounded, Lives, Steps, VolumeStates
  <1>38. CASE SyncGrown
    BY <1>38, IdleFields, SyncedFields, DueTyped DEF SyncGrown, Return, Holds, runtime,
       TypeOK, Bounded, Lives, Steps, VolumeStates
  <1>39. CASE ReconcileStorageError
    BY <1>39, IdleFields DEF ReconcileStorageError, Failed, claims, TypeOK, Bounded,
       Lives, Steps, VolumeStates
  <1>40. CASE ReconcileRestoring
    BY <1>40, AtFields, IdleFields DEF ReconcileRestoring, Reconciling, Failed, runtime,
       claims, TypeOK, Bounded, Lives, Steps, VolumeStates
  <1>41. CASE ReconcileRunning
    BY <1>41, IdleFields DEF ReconcileRunning, Reconciling, Failed, runtime, claims,
       TypeOK, Bounded, Lives, Steps, VolumeStates
  <1>42. CASE ReconcileHibernating
    BY <1>42, AtFields, IdleFields DEF ReconcileHibernating, Reconciling, Failed,
       runtime, claims, TypeOK, Bounded, Lives, Steps, VolumeStates
  <1>43. CASE ReconcileReaped
    BY <1>43, AtFields, IdleFields DEF ReconcileReaped, Reconciling, Failed, runtime,
       claims, TypeOK, Bounded, Lives, Steps, VolumeStates
  <1>44. CASE ReconcileParked
    BY <1>44, AtFields, IdleFields DEF ReconcileParked, Reconciling, Failed, runtime,
       claims, TypeOK, Bounded, Lives, Steps, VolumeStates
  <1>45. CASE Park
    <2>1. w' \in Operation /\ w'.pc = "limit"
      BY <1>45, AtFields DEF Park, Steps
    <2>2. QED
      BY <1>45, <2>1 DEF Park, runtime, TypeOK, Bounded
  <1>46. CASE Resume
    <2>1. w' \in Operation /\ w'.pc \in {"mount", "discard"}
      BY <1>46, AtFields DEF Resume, Steps
    <2>2. led' \in Ledger
      BY <1>46, ReservedFields, Zenon DEF Resume, TypeOK
    <2>3. QED
      BY <1>46, <2>1, <2>2 DEF Resume, Fault, runtime, TypeOK, Bounded
  <1>47. CASE SettleIdle
    BY <1>47, IdleFields, AtFields DEF SettleIdle, runtime, claims, TypeOK, Bounded,
       Lives, Steps, VolumeStates
  <1>48. CASE GrowClaim
    <2>1. w' \in Operation /\ w'.pc = "grow"
      BY <1>48, AtFields DEF GrowClaim, Steps
    <2>2. led' \in Ledger
      BY <1>48, DueBounds, ClaimFields DEF GrowClaim, TypeOK
    <2>3. QED
      BY <1>48, <2>1, <2>2 DEF GrowClaim, runtime, TypeOK, Bounded
  <1>49. CASE TrackList
    BY <1>49, DueBounds DEF TrackList, Unseeded, Seeded, runtime, claims, TypeOK,
       Bounded, Lives, Steps, VolumeStates
  <1>50. CASE TrackSync
    BY <1>50, SyncedFields, DueTyped DEF TrackSync, Seeded, runtime, TypeOK, Bounded,
       Lives, Steps, VolumeStates
  <1>51. CASE SentryDies
    BY <1>51 DEF SentryDies, Fault, claims, TypeOK, Bounded, Lives, Steps, VolumeStates
  <1>52. CASE CandidateDies
    BY <1>52 DEF CandidateDies, Fault, claims, TypeOK, Bounded, Lives, Steps,
       VolumeStates
  <1>53. CASE AgentCrash
    BY <1>53, IdleFields, RestingFields DEF AgentCrash, Unseeded, Fault, runtime,
       claims, TypeOK, Bounded, Lives, Steps, VolumeStates, Publication
  <1>54. CASE DaemonRestart
    <2>1. vol' \in Volume /\ vol'.granted = vol.granted
      <3>1. PICK lost \in BOOLEAN : vol' = Reopened(lost)
        BY <1>54, Zenon DEF DaemonRestart
      <3>2. QED
        BY <3>1, ReopenedFields, Zenon DEF TypeOK
    <2>2. w' \in Operation /\ w'.pc \in {w.pc, "undo", "discard", "idle"}
      BY <1>54, IdleFields DEF DaemonRestart, TypeOK, Operation, Steps
    <2>3. pub' \in [Publishers -> Publication]
      BY <1>54, RestingFields DEF DaemonRestart, TypeOK
    <2>4. QED
      BY <1>54, <2>1, <2>2, <2>3 DEF DaemonRestart, Fault, runtime, claims, TypeOK, Bounded
  <1>55. ASSUME NEW p \in Publishers, PublishRead(p) PROVE Typed'
    <2>1. w' \in Operation /\ w'.pc \in {w.pc, "seal"}
      BY <1>55, AtFields DEF PublishRead, Steps, TypeOK
    <2>2. led' \in Ledger
      BY <1>55, ReleasedFields, Zenon DEF PublishRead, Uncharged, TypeOK
    <2>3. pub' \in [Publishers -> Publication]
      BY <1>55 DEF PublishRead, TypeOK, Publication, Volume, Ledger
    <2>4. QED
      BY <1>55, <2>1, <2>2, <2>3 DEF PublishRead, runtime, TypeOK, Bounded
  <1>56. ASSUME NEW p \in Publishers, PublishBegin(p) PROVE Typed'
    BY <1>56, RestingFields, MovedFields DEF PublishBegin, PublishFence, runtime,
       claims, TypeOK, Bounded, Lives, Steps, VolumeStates, Publication
  <1>57. ASSUME NEW p \in Publishers, PublishRelease(p) PROVE Typed'
    BY <1>57, RestingFields, ReleasedFields DEF PublishRelease, Uncharged, runtime,
       TypeOK, Bounded, Lives, Steps, VolumeStates, Publication
  <1>58. ASSUME NEW rev \in uploads, FinishPublish(rev) PROVE Typed'
    <2>1. vol' \in Volume /\ vol'.granted = vol.granted
      <3>1. CASE vol' = [vol EXCEPT !.st = "published", !.sealed = FALSE, !.pub = TRUE]
        BY <3>1, PublishedFields DEF TypeOK
      <3>2. CASE vol' = [vol EXCEPT !.st = "released"]
        BY <3>2 DEF TypeOK, Volume, VolumeStates
      <3>3. CASE vol' = vol
        BY <3>3 DEF TypeOK
      <3>4. QED
        BY <1>58, <3>1, <3>2, <3>3, Zenon DEF FinishPublish
    <2>2. pub' \in [Publishers -> Publication]
      BY <1>58, AnsweredFields DEF FinishPublish, TypeOK
    <2>3. QED
      BY <1>58, <2>1, <2>2 DEF FinishPublish, Fault, runtime, claims, TypeOK, Bounded
  <1>59. CASE UNCHANGED vars
    BY <1>59 DEF vars, TypeOK, Bounded, Lives, Steps, VolumeStates
  <1>60. QED
    BY <1>1, <1>2, <1>3, <1>4, <1>5, <1>6, <1>7, <1>8, <1>9, <1>10, <1>11, <1>12, <1>13,
       <1>14, <1>15, <1>16, <1>17, <1>18, <1>19, <1>20, <1>21, <1>22, <1>23, <1>24,
       <1>25, <1>26, <1>27, <1>28, <1>29, <1>30, <1>31, <1>32, <1>33, <1>34, <1>35,
       <1>36, <1>37, <1>38, <1>39, <1>40, <1>41, <1>42, <1>43, <1>44, <1>45, <1>46,
       <1>47, <1>48, <1>49, <1>50, <1>51, <1>52, <1>53, <1>54, <1>55, <1>56, <1>57,
       <1>58, <1>59, ZenonT(30) DEF Next, DaemonStep, LockedStep, ParkStep, WakeStep,
       Reconcile, Publish

-----------------------------------------------------------------------------
(* What the larger steps of the daemon and of the growth loop leave.         *)

\* Growing changes the grant only, by at most one step.
LEMMA GrowFields ==
  ASSUME Typed, GrowVolume
  PROVE  /\ w.pc = "grow" /\ vol.granted \in Nat
         /\ vol'.st = vol.st /\ vol'.cap = vol.cap /\ vol'.sealed = vol.sealed /\ vol'.pub = vol.pub
         /\ vol'.granted \in {vol.granted, vol.granted + 1}
         /\ vol' \in Volume
         /\ w' = Idle \/ (w'.pc = "grown" /\ w'.due = Due(vol'))
         /\ UNCHANGED <<life, parks, sentry, cand, died, art, led, mem, pub, uploads, track>>
  <1> DEFINE grown == [vol EXCEPT !.granted = @ + 1]
  <1>1. w \in Operation /\ vol \in Volume /\ w.pc = "grow" /\ vol.granted < MaxGrant
    BY Zenon DEF Typed, TypeOK, Bounded, GrowVolume, Holds
  <1>2. /\ grown \in Volume /\ grown.granted = vol.granted + 1 /\ vol.granted \in Nat
        /\ grown.st = vol.st /\ grown.cap = vol.cap /\ grown.sealed = vol.sealed /\ grown.pub = vol.pub
    BY <1>1, GrownFields, Zenon
  <1>3. UNCHANGED <<life, parks, sentry, cand, died, art, led, mem, pub, uploads, track>>
    BY Zenon DEF GrowVolume, runtime, claims
  <1>4. \/ vol' = grown /\ GotoSync("grown", grown)
        \/ vol' = vol /\ GotoSync("grown", vol)
        \/ vol' \in {vol, grown} /\ w' = Idle
    BY Zenon DEF GrowVolume, Return
  <1> HIDE DEF grown
  <1>5. w' = Idle \/ (w'.pc = "grown" /\ w'.due = Due(vol'))
    BY <1>1, <1>2, <1>4, SyncFields, Zenon
  <1>6. vol' \in {vol, grown}
    BY <1>4, Zenon
  <1>7. QED
    BY <1>1, <1>2, <1>3, <1>5, <1>6, Zenon

\* The numbers of the state are numbers.
LEMMA NumbersTyped ==
  ASSUME Typed
  PROVE  /\ led.ws \in Nat /\ led.epoch \in Nat /\ vol.granted \in Nat
         /\ w.due \in Nat /\ track.due \in Nat
         /\ \A p \in Publishers : pub[p].epoch \in Nat
  BY ParkingAssumption DEF Typed, TypeOK, Ledger, Volume, Operation, Publication

\* What a capture that is prepared, or fails to be, does to the record.
LEMMA PrepareFields ==
  ASSUME Typed, FinishPrepare
  PROVE  /\ vol.st = "preparing" /\ vol'.granted = vol.granted /\ vol'.st \in {"prepared", "error"}
         /\ \/ vol'.sealed = TRUE
            \/ vol'.st = "error" /\ vol'.cap = vol.cap /\ vol'.sealed = vol.sealed /\ vol'.pub = vol.pub
         /\ UNCHANGED <<life, parks, sentry, cand, died, art, led, mem, w, pub, uploads, track>>
  <1>1. vol \in Volume /\ parks \in Nat
    BY ParkingAssumption DEF Typed, TypeOK
  <1>2. /\ vol.st = "preparing"
        /\ UNCHANGED <<life, parks, sentry, cand, died, art, led, mem, w, pub, uploads, track>>
        /\ \/ vol' = [vol EXCEPT !.st = "prepared", !.cap = parks, !.sealed = TRUE]
           \/ vol' = [vol EXCEPT !.st = "error"]
    BY Zenon DEF FinishPrepare, runtime, claims
  <1>3. CASE vol' = [vol EXCEPT !.st = "prepared", !.cap = parks, !.sealed = TRUE]
    BY <1>1, <1>2, <1>3, PreparedFields, Zenon
  <1>4. CASE vol' = [vol EXCEPT !.st = "error"]
    BY <1>1, <1>2, <1>4, StateFields
  <1>5. QED
    BY <1>2, <1>3, <1>4, Zenon

\* What the end of a release, a mount or a discard does to the record.
LEMMA FinishFields ==
  ASSUME Typed, FinishRelease \/ FinishMount \/ FinishDiscard
  PROVE  /\ vol'.cap = vol.cap /\ vol'.sealed = vol.sealed /\ vol'.pub = vol.pub
         /\ vol.st \in {"releasing", "acquiring", "discarding"} /\ vol'.st \notin {"preparing", "prepared"}
         /\ vol.granted \in Nat /\ vol'.granted \in Nat /\ vol'.granted <= vol.granted
         /\ UNCHANGED <<life, parks, sentry, cand, died, art, led, mem, w, pub, uploads, track>>
  <1>1. vol \in Volume /\ vol.granted \in Nat
    BY ParkingAssumption DEF Typed, TypeOK, Volume
  <1>2. /\ vol.st \in {"releasing", "acquiring", "discarding"}
        /\ UNCHANGED <<life, parks, sentry, cand, died, art, led, mem, w, pub, uploads, track>>
    BY Zenon DEF FinishRelease, FinishMount, FinishDiscard, runtime, claims
  <1>3. \/ \E s \in {"released", "published", "mountfail", "error"} : vol' = [vol EXCEPT !.st = s]
        \/ \E g \in 1 .. vol.granted : vol' = [vol EXCEPT !.st = "mounted", !.granted = g]
    BY Zenon DEF FinishRelease, FinishMount, FinishDiscard
  <1>4. CASE \E s \in {"released", "published", "mountfail", "error"} : vol' = [vol EXCEPT !.st = s]
    BY <1>1, <1>2, <1>4, StateFields
  <1>5. CASE \E g \in 1 .. vol.granted : vol' = [vol EXCEPT !.st = "mounted", !.granted = g]
    <2>1. PICK g \in 1 .. vol.granted : vol' = [vol EXCEPT !.st = "mounted", !.granted = g]
      BY <1>5, Zenon
    <2>2. /\ vol'.st = "mounted" /\ vol'.cap = vol.cap /\ vol'.sealed = vol.sealed
          /\ vol'.pub = vol.pub /\ vol'.granted = g
      BY <1>1, <2>1, MountedFields, Zenon
    <2>3. g \in Nat /\ g <= vol.granted
      BY <1>1
    <2>4. QED
      BY <1>1, <1>2, <2>2, <2>3
  <1>6. QED
    BY <1>3, <1>4, <1>5, Zenon

\* What the end of an upload does to the record and to the publishers.
LEMMA UploadFields ==
  ASSUME Typed, NEW rev \in uploads, FinishPublish(rev)
  PROVE  /\ vol'.granted = vol.granted /\ vol'.cap = vol.cap
         /\ vol'.st \in {vol.st, "published", "released"}
         /\ vol.st = "published" => vol'.st = "published"
         /\ vol.st # "publishing" => vol' = vol
         /\ (vol'.sealed = vol.sealed /\ vol'.pub = vol.pub) \/ vol'.pub = TRUE
         /\ \A p \in Publishers :
              pub'[p].pc # "idle" => /\ pub[p].pc # "idle" /\ pub'[p].epoch = pub[p].epoch
                                     /\ pub'[p] = pub[p] \/ vol'.st = "published"
         /\ UNCHANGED <<life, parks, sentry, cand, died, art, led, mem, w, track>>
  <1>1. vol \in Volume /\ pub \in [Publishers -> Publication]
    BY Zenon DEF Typed, TypeOK
  <1>2. UNCHANGED <<life, parks, sentry, cand, died, art, led, mem, w, track>>
    BY Zenon DEF FinishPublish, runtime, claims
  <1>3. \/ /\ vol.st = "publishing" /\ pub' = Answered(rev, "done")
           /\ vol' = [vol EXCEPT !.st = "published", !.sealed = FALSE, !.pub = TRUE]
        \/ /\ vol.st = "publishing" /\ pub' = Answered(rev, "idle")
           /\ vol' = [vol EXCEPT !.st = "released"]
        \/ vol' = vol /\ pub' = Answered(rev, "idle")
    BY Zenon DEF FinishPublish, UploadCurrent
  <1>4. \A p \in Publishers : \A c \in {"idle", "done"} :
          \/ Answered(rev, c)[p] = pub[p]
          \/ Answered(rev, c)[p].pc = "idle"
          \/ c = "done" /\ pub[p].pc # "idle" /\ Answered(rev, c)[p].epoch = pub[p].epoch
    BY <1>1, AnsweredFields, Zenon
  <1>5. CASE vol.st = "publishing" /\ pub' = Answered(rev, "done")
             /\ vol' = [vol EXCEPT !.st = "published", !.sealed = FALSE, !.pub = TRUE]
    BY <1>1, <1>2, <1>4, <1>5, PublishedFields, Zenon
  <1>6. CASE vol.st = "publishing" /\ pub' = Answered(rev, "idle")
             /\ vol' = [vol EXCEPT !.st = "released"]
    BY <1>1, <1>2, <1>4, <1>6, StateFields
  <1>7. CASE vol' = vol /\ pub' = Answered(rev, "idle")
    BY <1>1, <1>2, <1>4, <1>7
  <1>8. QED
    BY <1>3, <1>5, <1>6, <1>7, Zenon

\* What a mount from a snapshot does to the record.
LEMMA MountFields ==
  ASSUME Typed, MountSnapshot
  PROVE  /\ w.pc = "mount" /\ w'.pc \in {"mounting", "claim", "discard"} /\ vol' \in Volume
         /\ vol'.cap = vol.cap /\ vol'.sealed = vol.sealed /\ vol'.pub = vol.pub
         /\ vol'.granted = vol.granted
         /\ vol'.st \in {"preparing", "prepared"} => vol.st = vol'.st
         /\ w'.pc = "claim" => w'.due = Due(vol) /\ vol' = vol /\ vol.st = "mounted"
         /\ UNCHANGED <<life, parks, sentry, cand, died, art, led, mem, pub, uploads, track>>
  <1>1. w \in Operation /\ vol \in Volume
    BY Zenon DEF Typed, TypeOK
  <1>2. /\ w.pc = "mount"
        /\ UNCHANGED <<life, parks, sentry, cand, died, art, led, mem, pub, uploads, track>>
    BY Zenon DEF MountSnapshot, Holds, runtime, claims
  <1>3. /\ vol' \in {[Superseded EXCEPT !.st = "acquiring", !.rev = @ + 1], Superseded, vol}
        /\ \/ Goto("mounting") \/ Goto("discard")
           \/ GotoSync("claim", vol) /\ vol' = vol /\ vol.st = "mounted"
    BY Zenon DEF MountSnapshot
  <1>4. /\ vol' \in Volume /\ vol'.cap = vol.cap /\ vol'.sealed = vol.sealed /\ vol'.pub = vol.pub
        /\ vol'.granted = vol.granted /\ (vol'.st \in {"preparing", "prepared"} => vol.st = vol'.st)
    <2>1. CASE vol' = [Superseded EXCEPT !.st = "acquiring", !.rev = @ + 1]
      BY <1>1, <2>1, AcquiringFields, Zenon
    <2>2. CASE vol' = Superseded
      BY <1>1, <2>2, SupersededFields, Zenon
    <2>3. QED
      BY <1>1, <1>3, <2>1, <2>2, Zenon
  <1>5. CASE Goto("mounting") \/ Goto("discard")
    BY <1>1, <1>2, <1>4, <1>5, GotoFields
  <1>6. CASE GotoSync("claim", vol) /\ vol' = vol /\ vol.st = "mounted"
    BY <1>1, <1>2, <1>4, <1>6, SyncFields
  <1>7. QED
    BY <1>3, <1>5, <1>6, Zenon

\* What a discard does, or the publication it supersedes.
LEMMA DiscardFields ==
  ASSUME Typed, DiscardMounted
  PROVE  /\ w.pc = "discard" /\ w'.pc \in {"discarding", "uncharge", "idle"} /\ vol' \in Volume
         /\ vol'.cap = vol.cap /\ vol'.sealed = vol.sealed /\ vol'.pub = vol.pub
         /\ vol'.granted = vol.granted
         /\ vol'.st \in {"preparing", "prepared"} => vol.st = vol'.st
         /\ vol.st = "published" => vol'.st = "published"
         /\ w'.pc = "uncharge" => w'.due = Due(vol')
         /\ UNCHANGED <<life, parks, sentry, cand, died, art, led, mem, pub, uploads, track>>
  <1>1. w \in Operation /\ vol \in Volume
    BY Zenon DEF Typed, TypeOK
  <1>2. /\ w.pc = "discard"
        /\ UNCHANGED <<life, parks, sentry, cand, died, art, led, mem, pub, uploads, track>>
    BY Zenon DEF DiscardMounted, Holds, runtime, claims
  <1>3. \/ vol' = Moved("discarding") /\ Goto("discarding") /\ vol.st \in {"mounted", "mountfail"}
        \/ vol' = Superseded /\ GotoSync("uncharge", Superseded)
        \/ vol' = vol /\ w' = Idle
    BY Zenon DEF DiscardMounted, Return
  <1>4. CASE vol' = Moved("discarding") /\ Goto("discarding") /\ vol.st \in {"mounted", "mountfail"}
    BY <1>1, <1>2, <1>4, MovedFields, GotoFields DEF VolumeStates
  <1>5. CASE vol' = Superseded /\ GotoSync("uncharge", Superseded)
    BY <1>1, <1>2, <1>5, SupersededFields, SyncFields
  <1>6. CASE vol' = vol /\ w' = Idle
    BY <1>1, <1>2, <1>6, IdleFields
  <1>7. QED
    BY <1>3, <1>4, <1>5, <1>6, Zenon

-----------------------------------------------------------------------------
(* The journals.                                                             *)

\* The initial state satisfies the journal invariant.
LEMMA JournalInit == Init => Journal
  <1> SUFFICES ASSUME Init PROVE Journal
    OBVIOUS
  <1>1. life = "running" /\ sentry = "running" /\ cand = "none"
    BY Zenon DEF Init
  <1>2. w.pc = "idle" /\ vol.st = "mounted" /\ mem.claim = 1 /\ mem.limit = 1
    BY IdleFields DEF Init
  <1>3. Stages /\ Custody /\ Underneath
    BY <1>1, <1>2, Zenon DEF Stages, Custody, Underneath
  <1>4. Space
    BY <1>2 DEF Space
  <1>5. Kept
    BY <1>1, <1>2, Zenon DEF Kept
  <1>6. QED
    BY <1>3, <1>4, <1>5, Zenon DEF Journal

\* Every step of the warden, the daemon and the publishers keeps it.
LEMMA JournalStep == Typed /\ Journal /\ [Next]_vars => Journal'
  <1> SUFFICES ASSUME Typed, Journal, [Next]_vars PROVE Journal'
    OBVIOUS
  <1>0. /\ w \in Operation /\ vol \in Volume /\ led \in Ledger
        /\ mem \in [claim : {1, 2}, limit : {1, 2}] /\ art \in [st : {"none", "complete", "consumed"}, cap : Nat]
    BY Zenon DEF Typed, TypeOK
  <1>1. CASE FinishPrepare
    <2>1. Stages' /\ Custody' /\ Underneath' /\ Space'
      BY <1>1, PrepareFields, ZenonT(30) DEF Journal, Stages, Custody, Underneath, Space
    <2>2. HasLayers => HasLayers'
      BY <1>1, PrepareFields, Zenon DEF HasLayers
    <2>3. Kept'
      BY <1>1, <2>2, PrepareFields, Zenon DEF Journal, Custody, Kept, Captured
    <2>4. QED
      BY <2>1, <2>3, Zenon DEF Journal
  <1>2. CASE FinishRelease
    BY <1>2, FinishFields DEF Journal, Stages, Custody, Underneath, Space, Kept, Captured, HasLayers
  <1>3. CASE FinishMount
    BY <1>3, FinishFields DEF Journal, Stages, Custody, Underneath, Space, Kept, Captured, HasLayers
  <1>4. CASE FinishDiscard
    BY <1>4, FinishFields DEF Journal, Stages, Custody, Underneath, Space, Kept, Captured, HasLayers
  <1>5. CASE RaiseLimit
    BY <1>5, GotoFields, <1>0 DEF RaiseLimit, Holds, runtime, Journal, Stages, Custody,
       Underneath, Space, Kept, Captured, HasLayers
  <1>6. CASE BeginHibernate
    BY <1>6, GotoFields, <1>0 DEF BeginHibernate, Holds, runtime, claims, Journal,
       Stages, Custody, Underneath, Space, Kept, Captured, HasLayers
  <1>7. CASE Capture
    BY <1>7, GotoFields, <1>0 DEF Capture, Fault, Holds, claims, Journal, Stages,
       Custody, Underneath, Space, Kept, Captured, HasLayers
  <1>8. CASE PrepareCapture
    BY <1>8, GotoFields, MovedFields, <1>0 DEF PrepareCapture, Holds, runtime, claims,
       Journal, Stages, Custody, Underneath, Space, Kept, Captured, HasLayers
  <1>9. CASE CapturePrepared
    BY <1>9, GotoFields, <1>0 DEF CapturePrepared, Holds, runtime, claims, Journal,
       Stages, Custody, Underneath, Space, Kept, Captured, HasLayers
  <1>10. CASE PublishComplete
    <2>1. CASE art' = [st |-> "complete", cap |-> vol.cap]
      BY SMTT(20), <1>10, <1>0, <2>1, GotoFields, IdleFields DEF PublishComplete, Return, Holds, runtime,
         claims,
         Journal, Stages, Custody, Underneath, Space, Kept, Captured, HasLayers
    <2>2. CASE art' = art /\ w'.pc = "undo"
      BY <1>10, <2>2 DEF PublishComplete, Holds, runtime, claims, Journal, Stages, Custody,
         Underneath, Space, Kept, Captured, HasLayers
    <2>3. QED
      BY SMTT(20), <1>10, <1>0, <2>1, <2>2, GotoFields DEF PublishComplete
  <1>11. CASE Terminate
    BY <1>11, GotoFields, <1>0 DEF Terminate, Holds, claims, Journal, Stages, Custody,
       Underneath, Space, Kept, Captured, HasLayers
  <1>12. CASE MarkSentryReaped
    BY <1>12, GotoFields, <1>0 DEF MarkSentryReaped, Holds, runtime, claims, Journal,
       Stages, Custody, Underneath, Space, Kept, Captured, HasLayers
  <1>13. CASE CommitParked
    BY <1>13, GotoFields, <1>0 DEF CommitParked, Holds, runtime, claims, Journal,
       Stages, Custody, Underneath, Space, Kept, Captured, HasLayers
  <1>14. CASE SettleLimit
    BY <1>14, GotoFields, <1>0 DEF SettleLimit, Holds, runtime, Journal, Stages,
       Custody, Underneath, Space, Kept, Captured, HasLayers
  <1>15. CASE SettleClaim
    BY <1>15, IdleFields, <1>0 DEF SettleClaim, Return, Holds, runtime, Journal, Stages,
       Custody, Underneath, Space, Kept, Captured, HasLayers
  <1>16. CASE AbortCapture
    BY SMTT(20), <1>16, GotoFields, IdleFields, MovedFields, <1>0 DEF AbortCapture, Return, Holds,
       runtime, claims, Journal, Stages, Custody, Underneath, Space, Kept, Captured,
       HasLayers
  <1>17. CASE ResumeOriginal
    BY <1>17, GotoFields, IdleFields, <1>0 DEF ResumeOriginal, Return, Holds, claims,
       Journal, Stages, Custody, Underneath, Space, Kept, Captured, HasLayers
  <1>18. CASE AbortHibernate
    BY SMTT(20), <1>18, IdleFields, <1>0 DEF AbortHibernate, Return, Holds, runtime, claims,
       Journal, Stages, Custody, Underneath, Space, Kept, Captured, HasLayers
  <1>19. CASE CommitCapture
    BY SMTT(20), <1>19, GotoFields, MovedFields, <1>0 DEF CommitCapture, Loadable, Holds, runtime,
       claims, Journal, Stages, Custody, Underneath, Space, Kept, Captured, HasLayers
  <1>20. CASE ReleaseRuntime
    BY SMTT(20), <1>20, GotoFields, IdleFields, MovedFields, SyncFields, <1>0 DEF ReleaseRuntime,
       Return, Holds, runtime, claims, Journal, Stages, Custody, Underneath, Space,
       Kept, Captured, HasLayers
  <1>21. CASE RuntimeReleased
    BY SMTT(20), <1>21, IdleFields, SyncFields, <1>0 DEF RuntimeReleased, Return, Holds, runtime,
       claims, Journal, Stages, Custody, Underneath, Space, Kept, Captured, HasLayers
  <1>22. CASE SyncReleased
    BY SMTT(20), <1>22, GotoFields, IdleFields, SyncedFields, DueTyped, <1>0 DEF SyncReleased,
       Return, Holds, runtime, Journal, Stages, Custody, Underneath, Space, Kept,
       Captured, HasLayers
  <1>23. CASE MountSnapshot
    BY SMTT(20), <1>23, <1>0, MountFields, DueBounds DEF Journal, Stages, Custody, Underneath, Space,
       Kept, Captured, HasLayers
  <1>24. CASE Mounted
    BY SMTT(20), <1>24, GotoFields, SyncFields, <1>0 DEF Mounted, Holds, runtime, claims, Journal,
       Stages, Custody, Underneath, Space, Kept, Captured, HasLayers
  <1>25. CASE SyncMounted
    BY SMTT(20), <1>25, GotoFields, SyncedFields, DueTyped, <1>0 DEF SyncMounted, Holds, runtime,
       Journal, Stages, Custody, Underneath, Space, Kept, Captured, HasLayers
  <1>26. CASE BeginRestore
    BY <1>26, GotoFields, <1>0 DEF BeginRestore, Fault, Loadable, Holds, runtime,
       claims, Journal, Stages, Custody, Underneath, Space, Kept, Captured, HasLayers
  <1>27. CASE RunscRestore
    BY SMTT(20), <1>27, GotoFields, <1>0 DEF RunscRestore, Fault, Holds, claims, Journal, Stages,
       Custody, Underneath, Space, Kept, Captured, HasLayers
  <1>28. CASE MarkCandidate
    BY SMTT(20), <1>28, GotoFields, <1>0 DEF MarkCandidate, Holds, runtime, claims, Journal,
       Stages, Custody, Underneath, Space, Kept, Captured, HasLayers
  <1>29. CASE ThawCandidate
    BY SMTT(20), <1>29, GotoFields, <1>0 DEF ThawCandidate, Fault, Holds, claims, Journal, Stages,
       Custody, Underneath, Space, Kept, Captured, HasLayers
  <1>30. CASE CommitRunning
    BY <1>30, GotoFields, <1>0 DEF CommitRunning, Holds, claims, Journal, Stages,
       Custody, Underneath, Space, Kept, Captured, HasLayers
  <1>31. CASE FinalizeRestore
    BY SMTT(20), <1>31, IdleFields, <1>0 DEF FinalizeRestore, Return, Holds, runtime, claims,
       Journal, Stages, Custody, Underneath, Space, Kept, Captured, HasLayers
  <1>32. CASE FenceCandidate
    BY SMTT(20), <1>32, GotoFields, <1>0 DEF FenceCandidate, Holds, claims, Journal, Stages,
       Custody, Underneath, Space, Kept, Captured, HasLayers
  <1>33. CASE DiscardMounted
    BY SMTT(20), <1>33, <1>0, DiscardFields, DueBounds DEF Journal, Stages, Custody, Underneath, Space,
       Kept, Captured, HasLayers
  <1>34. CASE Discarded
    BY <1>34, IdleFields, SyncFields, <1>0 DEF Discarded, Return, Holds, runtime,
       claims, Journal, Stages, Custody, Underneath, Space, Kept, Captured, HasLayers
  <1>35. CASE SyncDiscarded
    BY SMTT(20), <1>35, GotoFields, IdleFields, SyncedFields, DueTyped, ReleasedFields, <1>0 DEF
       SyncDiscarded, Return, Holds, runtime, Journal, Stages, Custody, Underneath,
       Space, Kept, Captured, HasLayers
  <1>36. CASE RollbackRestore
    BY SMTT(20), <1>36, IdleFields, <1>0 DEF RollbackRestore, Return, Holds, runtime, claims,
       Journal, Stages, Custody, Underneath, Space, Kept, Captured, HasLayers
  <1>37. CASE GrowVolume
    <2>1. /\ UNCHANGED <<life, sentry, cand, died, art, mem>> /\ w.pc = "grow"
          /\ w'.pc \in {"idle", "grown"}
          /\ vol'.st = vol.st /\ vol'.cap = vol.cap /\ vol'.sealed = vol.sealed /\ vol'.pub = vol.pub
      BY <1>37, GrowFields, IdleFields, Zenon
    <2>2. QED
      BY <2>1 DEF Journal, Stages, Custody, Underneath, Space, Kept, Captured, HasLayers
  <1>38. CASE SyncGrown
    BY SMTT(20), <1>38, IdleFields, SyncedFields, DueTyped, <1>0 DEF SyncGrown, Return, Holds,
       runtime, Journal, Stages, Custody, Underneath, Space, Kept, Captured, HasLayers
  <1>39. CASE ReconcileStorageError
    BY SMTT(20), <1>39, IdleFields, <1>0 DEF ReconcileStorageError, Failed, claims, Journal,
       Stages, Custody, Underneath, Space, Kept, Captured, HasLayers
  <1>40. CASE ReconcileRestoring
    BY SMTT(20), <1>40, AtFields, IdleFields, <1>0 DEF ReconcileRestoring, Reconciling, Failed,
       runtime, claims, Journal, Stages, Custody, Underneath, Space, Kept, Captured,
       HasLayers
  <1>41. CASE ReconcileRunning
    BY SMTT(20), <1>41, IdleFields, <1>0 DEF ReconcileRunning, Reconciling, Failed, runtime,
       claims, Journal, Stages, Custody, Underneath, Space, Kept, Captured, HasLayers
  <1>42. CASE ReconcileHibernating
    BY SMTT(20), <1>42, AtFields, IdleFields, <1>0 DEF ReconcileHibernating, Reconciling, Failed,
       runtime, claims, Journal, Stages, Custody, Underneath, Space, Kept, Captured,
       HasLayers
  <1>43. CASE ReconcileReaped
    BY SMTT(20), <1>43, AtFields, IdleFields, <1>0 DEF ReconcileReaped, Reconciling, Failed,
       runtime, claims, Journal, Stages, Custody, Underneath, Space, Kept, Captured,
       HasLayers
  <1>44. CASE ReconcileParked
    BY SMTT(20), <1>44, AtFields, IdleFields, <1>0 DEF ReconcileParked, Reconciling, Failed,
       runtime, claims, Journal, Stages, Custody, Underneath, Space, Kept, Captured,
       HasLayers
  <1>45. CASE Park
    BY SMTT(20), <1>45, IdleFields, AtFields, <1>0 DEF Park, runtime, Journal, Stages, Custody,
       Underneath, Space, Kept, Captured, HasLayers
  <1>46. CASE Resume
    BY SMTT(20), <1>46, IdleFields, AtFields, ReservedFields, <1>0 DEF Resume, Fault, runtime,
       Journal, Stages, Custody, Underneath, Space, Kept, Captured, HasLayers
  <1>47. CASE SettleIdle
    BY SMTT(20), <1>47, IdleFields, AtFields, <1>0 DEF SettleIdle, runtime, claims, Journal,
       Stages, Custody, Underneath, Space, Kept, Captured, HasLayers
  <1>48. CASE GrowClaim
    BY SMTT(20), <1>48, IdleFields, AtFields, DueBounds, ClaimFields, <1>0 DEF GrowClaim, Seeded,
       runtime, Journal, Stages, Custody, Underneath, Space, Kept, Captured, HasLayers
  <1>49. CASE TrackList
    <2>1. UNCHANGED <<life, sentry, cand, died, art, vol, mem, w>>
      BY <1>49, ZenonT(30) DEF TrackList, runtime, claims
    <2>2. QED
      BY <2>1 DEF Journal, Stages, Custody, Underneath, Space, Kept, Captured, HasLayers
  <1>50. CASE TrackSync
    BY SMTT(20), <1>50, SyncedFields, DueTyped, <1>0 DEF TrackSync, Seeded, runtime, Journal,
       Stages, Custody, Underneath, Space, Kept, Captured, HasLayers
  <1>51. CASE SentryDies
    BY SMTT(20), <1>51, <1>0 DEF SentryDies, Fault, claims, Journal, Stages, Custody, Underneath,
       Space, Kept, Captured, HasLayers
  <1>52. CASE CandidateDies
    BY SMTT(20), <1>52, <1>0 DEF CandidateDies, Fault, claims, Journal, Stages, Custody,
       Underneath, Space, Kept, Captured, HasLayers
  <1>53. CASE AgentCrash
    BY SMTT(20), <1>53, IdleFields, RestingFields, <1>0 DEF AgentCrash, Unseeded, Fault, runtime,
       claims, Journal, Stages, Custody, Underneath, Space, Kept, Captured, HasLayers
  <1>54. CASE DaemonRestart
    BY SMTT(20), <1>54, IdleFields, RestingFields, ReopenedFields, <1>0 DEF DaemonRestart, Fault,
       runtime, claims, Journal, Stages, Custody, Underneath, Space, Kept, Captured,
       HasLayers
  <1>55. ASSUME NEW p \in Publishers, PublishRead(p) PROVE Journal'
    BY SMTT(20), <1>55, IdleFields, AtFields, ReleasedFields, <1>0 DEF PublishRead, Uncharged,
       runtime, Journal, Stages, Custody, Underneath, Space, Kept, Captured, HasLayers
  <1>56. ASSUME NEW p \in Publishers, PublishBegin(p) PROVE Journal'
    BY SMTT(20), <1>56, RestingFields, MovedFields, <1>0 DEF PublishBegin, PublishFence, runtime,
       claims, Journal, Stages, Custody, Underneath, Space, Kept, Captured, HasLayers
  <1>57. ASSUME NEW p \in Publishers, PublishRelease(p) PROVE Journal'
    BY <1>57, RestingFields, ReleasedFields, <1>0 DEF PublishRelease, Uncharged,
       runtime, Journal, Stages, Custody, Underneath, Space, Kept, Captured, HasLayers
  <1>58. ASSUME NEW rev \in uploads, FinishPublish(rev) PROVE Journal'
    <2>1. HasLayers => HasLayers'
      BY <1>58, UploadFields, Zenon DEF HasLayers
    <2>2. /\ UNCHANGED <<life, sentry, cand, died, art, mem, w>> /\ vol'.cap = vol.cap
          /\ vol'.st \in {vol.st, "published", "released"}
          /\ vol'.sealed = vol.sealed \/ vol.st = "publishing"
          /\ vol.st # "publishing" => vol' = vol
      BY <1>58, UploadFields, Zenon
    <2>3. Stages' /\ Custody' /\ Space'
      BY <2>2, Zenon DEF Journal, Stages, Custody, Space
    <2>4. Underneath'
      BY <2>2, Zenon DEF Journal, Underneath
    <2>5. Kept'
      BY SMTT(20), <2>1, <2>2 DEF Journal, Kept, Captured
    <2>6. QED
      BY <2>3, <2>4, <2>5, Zenon DEF Journal
  <1>59. CASE UNCHANGED vars
    BY <1>59 DEF vars, Journal, Stages, Custody, Underneath, Space, Kept, Captured,
       HasLayers
  <1>60. QED
    BY <1>1, <1>2, <1>3, <1>4, <1>5, <1>6, <1>7, <1>8, <1>9, <1>10, <1>11, <1>12, <1>13,
       <1>14, <1>15, <1>16, <1>17, <1>18, <1>19, <1>20, <1>21, <1>22, <1>23, <1>24,
       <1>25, <1>26, <1>27, <1>28, <1>29, <1>30, <1>31, <1>32, <1>33, <1>34, <1>35,
       <1>36, <1>37, <1>38, <1>39, <1>40, <1>41, <1>42, <1>43, <1>44, <1>45, <1>46,
       <1>47, <1>48, <1>49, <1>50, <1>51, <1>52, <1>53, <1>54, <1>55, <1>56, <1>57,
       <1>58, <1>59, ZenonT(30) DEF Next, DaemonStep, LockedStep, ParkStep, WakeStep,
       Reconcile, Publish

-----------------------------------------------------------------------------
(* The charge and the publishers.                                            *)

\* Nothing is released at the start.
LEMMA OffNodeInit == Init => OffNode
  BY ParkingAssumption DEF Init, Idle, Resting, Unseeded, OffNode

\* Every step keeps the agreement of charge, epoch and publishers.
LEMMA OffNodeStep == Typed /\ OffNode /\ [Next]_vars => OffNode'
  <1> SUFFICES ASSUME Typed, OffNode, [Next]_vars PROVE OffNode'
    OBVIOUS
  <1>0. w \in Operation /\ vol \in Volume /\ led \in Ledger /\ pub \in [Publishers -> Publication]
    BY Zenon DEF Typed, TypeOK
  <1>1. CASE FinishPrepare
    BY <1>1, PrepareFields DEF OffNode
  <1>2. CASE FinishRelease
    BY <1>2, FinishFields DEF OffNode
  <1>3. CASE FinishMount
    BY <1>3, FinishFields DEF OffNode
  <1>4. CASE FinishDiscard
    BY <1>4, FinishFields DEF OffNode
  <1>5. CASE RaiseLimit
    BY <1>5, GotoFields, <1>0 DEF RaiseLimit, Holds, runtime, OffNode
  <1>6. CASE BeginHibernate
    BY <1>6, GotoFields, <1>0 DEF BeginHibernate, Holds, runtime, claims, OffNode
  <1>7. CASE Capture
    BY <1>7, GotoFields, <1>0 DEF Capture, Fault, Holds, claims, OffNode
  <1>8. CASE PrepareCapture
    BY <1>8, GotoFields, MovedFields, <1>0 DEF PrepareCapture, Holds, runtime, claims,
       OffNode
  <1>9. CASE CapturePrepared
    BY <1>9, GotoFields, <1>0 DEF CapturePrepared, Holds, runtime, claims, OffNode
  <1>10. CASE PublishComplete
    BY <1>10, GotoFields, IdleFields, <1>0 DEF PublishComplete, Fault, Return, Holds,
       runtime, claims, OffNode
  <1>11. CASE Terminate
    BY <1>11, GotoFields, <1>0 DEF Terminate, Holds, claims, OffNode
  <1>12. CASE MarkSentryReaped
    BY <1>12, GotoFields, <1>0 DEF MarkSentryReaped, Holds, runtime, claims, OffNode
  <1>13. CASE CommitParked
    BY <1>13, GotoFields, <1>0 DEF CommitParked, Holds, runtime, claims, OffNode
  <1>14. CASE SettleLimit
    BY <1>14, GotoFields, <1>0 DEF SettleLimit, Holds, runtime, OffNode
  <1>15. CASE SettleClaim
    BY <1>15, IdleFields, <1>0 DEF SettleClaim, Return, Holds, runtime, OffNode
  <1>16. CASE AbortCapture
    BY <1>16, GotoFields, IdleFields, MovedFields, <1>0 DEF AbortCapture, Return, Holds,
       runtime, claims, OffNode
  <1>17. CASE ResumeOriginal
    BY <1>17, GotoFields, IdleFields, <1>0 DEF ResumeOriginal, Return, Holds, claims,
       OffNode
  <1>18. CASE AbortHibernate
    BY <1>18, IdleFields, <1>0 DEF AbortHibernate, Return, Holds, runtime, claims,
       OffNode
  <1>19. CASE CommitCapture
    BY <1>19, GotoFields, MovedFields, <1>0 DEF CommitCapture, Loadable, Holds, runtime,
       claims, OffNode
  <1>20. CASE ReleaseRuntime
    BY <1>20, GotoFields, IdleFields, MovedFields, SyncFields, <1>0 DEF ReleaseRuntime,
       Return, Holds, runtime, claims, OffNode
  <1>21. CASE RuntimeReleased
    BY <1>21, IdleFields, SyncFields, <1>0 DEF RuntimeReleased, Return, Holds, runtime,
       claims, OffNode
  <1>22. CASE SyncReleased
    BY <1>22, GotoFields, IdleFields, SyncedFields, DueTyped, <1>0 DEF SyncReleased,
       Return, Holds, runtime, OffNode
  <1>23. CASE MountSnapshot
    <2>1. /\ w.pc = "mount" /\ w'.pc \in {"mounting", "claim", "discard"}
          /\ UNCHANGED <<led, pub>>
      BY <1>23, MountFields, Zenon
    <2>2. \A p \in Publishers : pub[p].pc # "idle" => pub[p].epoch < led.epoch
      BY <2>1, Zenon DEF OffNode
    <2>3. led.released = FALSE
      BY <1>0, <2>1 DEF OffNode, Ledger
    <2>4. QED
      BY <2>1, <2>2, <2>3, NumbersTyped DEF OffNode
  <1>24. CASE Mounted
    BY <1>24, GotoFields, SyncFields, <1>0 DEF Mounted, Holds, runtime, claims, OffNode
  <1>25. CASE SyncMounted
    BY <1>25, GotoFields, SyncedFields, DueTyped, <1>0 DEF SyncMounted, Holds, runtime,
       OffNode
  <1>26. CASE BeginRestore
    BY <1>26, GotoFields, <1>0 DEF BeginRestore, Fault, Loadable, Holds, runtime,
       claims, OffNode
  <1>27. CASE RunscRestore
    BY <1>27, GotoFields, <1>0 DEF RunscRestore, Fault, Holds, claims, OffNode
  <1>28. CASE MarkCandidate
    BY <1>28, GotoFields, <1>0 DEF MarkCandidate, Holds, runtime, claims, OffNode
  <1>29. CASE ThawCandidate
    BY <1>29, GotoFields, <1>0 DEF ThawCandidate, Fault, Holds, claims, OffNode
  <1>30. CASE CommitRunning
    BY <1>30, GotoFields, <1>0 DEF CommitRunning, Holds, claims, OffNode
  <1>31. CASE FinalizeRestore
    BY <1>31, IdleFields, <1>0 DEF FinalizeRestore, Return, Holds, runtime, claims,
       OffNode
  <1>32. CASE FenceCandidate
    BY <1>32, GotoFields, <1>0 DEF FenceCandidate, Holds, claims, OffNode
  <1>33. CASE DiscardMounted
    BY <1>33, <1>0, DiscardFields, DueBounds DEF OffNode
  <1>34. CASE Discarded
    <2>1. /\ UNCHANGED <<led, pub, vol>>
          /\ w'.pc = "uncharge" => w'.due = Due(vol)
          /\ w'.pc \in {"uncharge", "idle"}
      BY <1>34, <1>0, SyncFields, IdleFields DEF Discarded, Return, claims
    <2>2. QED
      BY <1>0, <2>1, DueBounds DEF OffNode
  <1>35. CASE SyncDiscarded
    BY SMTT(20), <1>35, GotoFields, IdleFields, SyncedFields, DueTyped, ReleasedFields, <1>0 DEF
       SyncDiscarded, Return, Holds, runtime, OffNode
  <1>36. CASE RollbackRestore
    BY <1>36, IdleFields, <1>0 DEF RollbackRestore, Return, Holds, runtime, claims,
       OffNode
  <1>37. CASE GrowVolume
    BY <1>37, GrowFields, IdleFields, DueBounds DEF OffNode
  <1>38. CASE SyncGrown
    BY <1>38, IdleFields, SyncedFields, DueTyped, <1>0 DEF SyncGrown, Return, Holds,
       runtime, OffNode
  <1>39. CASE ReconcileStorageError
    BY <1>39, IdleFields, <1>0 DEF ReconcileStorageError, Failed, claims, OffNode
  <1>40. CASE ReconcileRestoring
    BY <1>40, AtFields, IdleFields, <1>0 DEF ReconcileRestoring, Reconciling, Failed,
       runtime, claims, OffNode
  <1>41. CASE ReconcileRunning
    BY <1>41, IdleFields, <1>0 DEF ReconcileRunning, Reconciling, Failed, runtime,
       claims, OffNode
  <1>42. CASE ReconcileHibernating
    BY <1>42, AtFields, IdleFields, <1>0 DEF ReconcileHibernating, Reconciling, Failed,
       runtime, claims, OffNode
  <1>43. CASE ReconcileReaped
    BY <1>43, AtFields, IdleFields, <1>0 DEF ReconcileReaped, Reconciling, Failed,
       runtime, claims, OffNode
  <1>44. CASE ReconcileParked
    BY <1>44, AtFields, IdleFields, <1>0 DEF ReconcileParked, Reconciling, Failed,
       runtime, claims, OffNode
  <1>45. CASE Park
    BY <1>45, IdleFields, AtFields, <1>0 DEF Park, runtime, OffNode
  <1>46. CASE Resume
    <2>1. w'.pc \in {"mount", "discard"} /\ UNCHANGED <<pub, vol>>
      BY <1>46, AtFields DEF Resume
    <2>2. CASE led' = Reserved
      <3>1. led'.released = FALSE /\ led'.epoch = led.epoch + 1
        BY <1>0, <2>2, ReservedFields, Zenon
      <3>2. QED
        BY <2>1, <3>1, NumbersTyped DEF OffNode
    <2>3. CASE led' = led /\ w'.pc = "discard"
      BY <2>1, <2>3 DEF OffNode
    <2>4. QED
      BY <1>46, <2>2, <2>3, AtFields DEF Resume
  <1>47. CASE SettleIdle
    BY <1>47, IdleFields, AtFields, <1>0 DEF SettleIdle, runtime, claims, OffNode
  <1>48. CASE GrowClaim
    BY SMTT(20), <1>48, IdleFields, AtFields, DueBounds, ClaimFields, <1>0 DEF GrowClaim, Seeded,
       runtime, OffNode
  <1>49. CASE TrackList
    BY <1>49, DueBounds, <1>0 DEF TrackList, Unseeded, Seeded, runtime, claims, OffNode
  <1>50. CASE TrackSync
    BY <1>50, <1>0, SyncedFields, NumbersTyped DEF TrackSync, OffNode
  <1>51. CASE SentryDies
    BY <1>51, <1>0 DEF SentryDies, Fault, claims, OffNode
  <1>52. CASE CandidateDies
    BY <1>52, <1>0 DEF CandidateDies, Fault, claims, OffNode
  <1>53. CASE AgentCrash
    BY <1>53, IdleFields, RestingFields, <1>0 DEF AgentCrash, Unseeded, Fault, runtime,
       claims, OffNode
  <1>54. CASE DaemonRestart
    BY <1>54, IdleFields, RestingFields, ReopenedFields, <1>0 DEF DaemonRestart, Fault,
       runtime, claims, OffNode
  <1>55. ASSUME NEW p \in Publishers, PublishRead(p) PROVE OffNode'
    <2>1. w'.pc \in {w.pc, "seal"} /\ vol' = vol /\ w'.due = 0
      BY <1>55, AtFields DEF PublishRead, Idle
    <2>2. CASE vol.st = "published" /\ led' = Uncharged(led.epoch) /\ pub' = pub
      BY SMTT(20), <1>0, <2>1, <2>2, <1>55, ReleasedFields DEF Uncharged, OffNode, PublishRead, Idle
    <2>3. CASE led' = led /\ pub' = pub
      BY <2>1, <2>3, <1>55 DEF OffNode, PublishRead, Idle
    <2>4. CASE led' = led /\ pub' = [pub EXCEPT ![p] = [pc |-> "read", rev |-> vol.rev, epoch |-> led.epoch]]
      <3>1. \A q \in Publishers : pub'[q].pc # "idle" =>
              pub'[q] = pub[q] \/ (pub'[q].pc = "read" /\ pub'[q].epoch = led.epoch)
        BY <1>0, <2>4
      <3>2. w'.pc \in {"idle", "seal"}
        BY <1>55, <2>1 DEF PublishRead, Idle
      <3>3. QED
        BY <2>1, <2>4, <3>1, <3>2, NumbersTyped DEF OffNode
    <2>5. QED
      BY <1>55, <2>2, <2>3, <2>4, Zenon DEF PublishRead
  <1>56. ASSUME NEW p \in Publishers, PublishBegin(p) PROVE OffNode'
    <2>1. UNCHANGED <<led, w>> /\ pub[p].pc = "read"
      BY <1>56, Zenon DEF PublishBegin, claims
    <2>2. vol.st = "published" => vol' = vol
      BY <1>56, Zenon DEF PublishBegin
    <2>3. \A q \in Publishers : pub'[q].pc # "idle" =>
            /\ pub[q].pc # "idle" /\ pub'[q].epoch = pub[q].epoch
            /\ pub'[q].pc = "done" => pub[q].pc = "done" \/ vol.st = "published"
      BY SMTT(20), <1>0, <1>56, RestingFields DEF PublishBegin, Publication
    <2>4. QED
      BY <2>1, <2>2, <2>3 DEF OffNode
  <1>57. ASSUME NEW p \in Publishers, PublishRelease(p) PROVE OffNode'
    <2>1. UNCHANGED <<vol, w>> /\ pub[p].pc = "done" /\ led' = Uncharged(pub[p].epoch)
      BY <1>57, Zenon DEF PublishRelease
    <2>2. \A q \in Publishers : pub'[q].pc # "idle" => pub'[q] = pub[q]
      BY <1>0, <1>57, RestingFields DEF PublishRelease
    <2>3. led'.epoch = led.epoch /\ (led'.released = led.released \/ pub[p].epoch = led.epoch)
      BY <1>0, <2>1, ReleasedFields, ZenonT(30) DEF Uncharged
    <2>4. QED
      BY <2>1, <2>2, <2>3, NumbersTyped DEF OffNode
  <1>58. ASSUME NEW rev \in uploads, FinishPublish(rev) PROVE OffNode'
    <2>1. /\ UNCHANGED <<led, w>> /\ (vol.st = "published" => vol'.st = "published")
          /\ \A p \in Publishers :
               pub'[p].pc # "idle" => /\ pub[p].pc # "idle" /\ pub'[p].epoch = pub[p].epoch
                                      /\ pub'[p] = pub[p] \/ vol'.st = "published"
      BY <1>58, UploadFields, Zenon
    <2>2. QED
      BY <2>1 DEF OffNode
  <1>59. CASE UNCHANGED vars
    BY <1>59, ZenonT(30) DEF vars, OffNode
  <1>60. QED
    BY <1>1, <1>2, <1>3, <1>4, <1>5, <1>6, <1>7, <1>8, <1>9, <1>10, <1>11, <1>12, <1>13,
       <1>14, <1>15, <1>16, <1>17, <1>18, <1>19, <1>20, <1>21, <1>22, <1>23, <1>24,
       <1>25, <1>26, <1>27, <1>28, <1>29, <1>30, <1>31, <1>32, <1>33, <1>34, <1>35,
       <1>36, <1>37, <1>38, <1>39, <1>40, <1>41, <1>42, <1>43, <1>44, <1>45, <1>46,
       <1>47, <1>48, <1>49, <1>50, <1>51, <1>52, <1>53, <1>54, <1>55, <1>56, <1>57,
       <1>58, <1>59, ZenonT(30) DEF Next, DaemonStep, LockedStep, ParkStep, WakeStep,
       Reconcile, Publish

\* The first charge covers the first grant.
LEMMA CoveredInit == Init => Covered
  BY SMTT(20) DEF Init, Idle, Resting, Unseeded, Covered

\* Every step keeps the grant covered, a stale charge included.
LEMMA CoveredStep == Typed /\ Covered /\ [Next]_vars => Covered'
  <1> SUFFICES ASSUME Typed, Covered, [Next]_vars PROVE Covered'
    OBVIOUS
  <1>0. w \in Operation /\ vol \in Volume /\ led \in Ledger /\ track \in [pc : {"unseeded", "listed", "seeded"}, due : Nat]
    BY ZenonT(30) DEF Typed, TypeOK
  <1>1. CASE FinishPrepare
    BY <1>1, PrepareFields DEF Covered
  <1>2. CASE FinishRelease
    BY <1>2, FinishFields, NumbersTyped DEF Covered
  <1>3. CASE FinishMount
    BY <1>3, FinishFields, NumbersTyped DEF Covered
  <1>4. CASE FinishDiscard
    BY <1>4, FinishFields, NumbersTyped DEF Covered
  <1>5. CASE RaiseLimit
    BY <1>5, GotoFields, <1>0 DEF RaiseLimit, Holds, runtime, Covered
  <1>6. CASE BeginHibernate
    BY <1>6, GotoFields, <1>0 DEF BeginHibernate, Holds, runtime, claims, Covered
  <1>7. CASE Capture
    BY <1>7, GotoFields, <1>0 DEF Capture, Fault, Holds, claims, Covered
  <1>8. CASE PrepareCapture
    BY <1>8, GotoFields, MovedFields, <1>0 DEF PrepareCapture, Holds, runtime, claims,
       Covered
  <1>9. CASE CapturePrepared
    BY <1>9, GotoFields, <1>0 DEF CapturePrepared, Holds, runtime, claims, Covered
  <1>10. CASE PublishComplete
    BY <1>10, GotoFields, IdleFields, <1>0 DEF PublishComplete, Fault, Return, Holds,
       runtime, claims, Covered
  <1>11. CASE Terminate
    BY <1>11, GotoFields, <1>0 DEF Terminate, Holds, claims, Covered
  <1>12. CASE MarkSentryReaped
    BY <1>12, GotoFields, <1>0 DEF MarkSentryReaped, Holds, runtime, claims, Covered
  <1>13. CASE CommitParked
    BY <1>13, GotoFields, <1>0 DEF CommitParked, Holds, runtime, claims, Covered
  <1>14. CASE SettleLimit
    BY <1>14, GotoFields, <1>0 DEF SettleLimit, Holds, runtime, Covered
  <1>15. CASE SettleClaim
    BY <1>15, IdleFields, <1>0 DEF SettleClaim, Return, Holds, runtime, Covered
  <1>16. CASE AbortCapture
    BY <1>16, GotoFields, IdleFields, MovedFields, <1>0 DEF AbortCapture, Return, Holds,
       runtime, claims, Covered
  <1>17. CASE ResumeOriginal
    BY <1>17, GotoFields, IdleFields, <1>0 DEF ResumeOriginal, Return, Holds, claims,
       Covered
  <1>18. CASE AbortHibernate
    BY <1>18, IdleFields, <1>0 DEF AbortHibernate, Return, Holds, runtime, claims,
       Covered
  <1>19. CASE CommitCapture
    BY <1>19, GotoFields, MovedFields, <1>0 DEF CommitCapture, Loadable, Holds, runtime,
       claims, Covered
  <1>20. CASE ReleaseRuntime
    <2>1. /\ UNCHANGED <<led, track>> /\ vol'.granted = vol.granted
          /\ w'.pc \in {"releasing", "idle"} \/ (w'.pc = "charge" /\ w'.due = Due(vol))
      BY <1>20, <1>0, SyncFields, GotoFields, IdleFields, MovedFields DEF ReleaseRuntime,
         Return, claims
    <2>2. QED
      BY <1>0, <2>1, DueBounds, Zenon DEF Covered
  <1>21. CASE RuntimeReleased
    <2>1. /\ UNCHANGED <<led, track>> /\ vol'.granted = vol.granted
          /\ w'.pc \in {"idle"} \/ (w'.pc = "charge" /\ w'.due = Due(vol))
      BY <1>21, <1>0, SyncFields, GotoFields, IdleFields, MovedFields DEF RuntimeReleased,
         Return, claims
    <2>2. QED
      BY <1>0, <2>1, DueBounds, Zenon DEF Covered
  <1>22. CASE SyncReleased
    BY <1>22, GotoFields, IdleFields, SyncedFields, DueTyped, <1>0 DEF SyncReleased,
       Return, Holds, runtime, Covered
  <1>23. CASE MountSnapshot
    BY <1>23, <1>0, MountFields, DueBounds DEF Covered
  <1>24. CASE Mounted
    <2>1. /\ UNCHANGED <<led, track>> /\ vol'.granted = vol.granted
          /\ w'.pc \in {"discard"} \/ (w'.pc = "claim" /\ w'.due = Due(vol))
      BY <1>24, <1>0, SyncFields, GotoFields, IdleFields, MovedFields DEF Mounted, Return, claims
    <2>2. QED
      BY <1>0, <2>1, DueBounds, Zenon DEF Covered
  <1>25. CASE SyncMounted
    BY <1>25, GotoFields, SyncedFields, DueTyped, <1>0 DEF SyncMounted, Holds, runtime,
       Covered
  <1>26. CASE BeginRestore
    BY <1>26, GotoFields, <1>0 DEF BeginRestore, Fault, Loadable, Holds, runtime,
       claims, Covered
  <1>27. CASE RunscRestore
    BY <1>27, GotoFields, <1>0 DEF RunscRestore, Fault, Holds, claims, Covered
  <1>28. CASE MarkCandidate
    BY <1>28, GotoFields, <1>0 DEF MarkCandidate, Holds, runtime, claims, Covered
  <1>29. CASE ThawCandidate
    BY <1>29, GotoFields, <1>0 DEF ThawCandidate, Fault, Holds, claims, Covered
  <1>30. CASE CommitRunning
    BY <1>30, GotoFields, <1>0 DEF CommitRunning, Holds, claims, Covered
  <1>31. CASE FinalizeRestore
    BY <1>31, IdleFields, <1>0 DEF FinalizeRestore, Return, Holds, runtime, claims,
       Covered
  <1>32. CASE FenceCandidate
    BY <1>32, GotoFields, <1>0 DEF FenceCandidate, Holds, claims, Covered
  <1>33. CASE DiscardMounted
    BY <1>33, <1>0, DiscardFields, DueBounds DEF Covered
  <1>34. CASE Discarded
    <2>1. /\ UNCHANGED <<led, track>> /\ vol'.granted = vol.granted
          /\ w'.pc \in {"idle"} \/ (w'.pc = "uncharge" /\ w'.due = Due(vol))
      BY <1>34, <1>0, SyncFields, GotoFields, IdleFields, MovedFields DEF Discarded, Return, claims
    <2>2. QED
      BY <1>0, <2>1, DueBounds, Zenon DEF Covered
  <1>35. CASE SyncDiscarded
    BY <1>35, GotoFields, IdleFields, SyncedFields, DueTyped, ReleasedFields, <1>0 DEF
       SyncDiscarded, Return, Holds, runtime, Covered
  <1>36. CASE RollbackRestore
    BY <1>36, IdleFields, <1>0 DEF RollbackRestore, Return, Holds, runtime, claims,
       Covered
  <1>37. CASE GrowVolume
    <2>1. Due(vol') = 0 \/ Due(vol') >= vol'.granted
      BY <1>37, GrowFields, DueBounds, Zenon
    <2>2. /\ w.pc = "grow" /\ UNCHANGED <<led, track>>
          /\ vol.granted \in Nat /\ vol'.granted \in {vol.granted, vol.granted + 1}
          /\ w'.pc = "idle" \/ (w'.pc = "grown" /\ w'.due = Due(vol'))
      BY <1>37, GrowFields, IdleFields, Zenon
    <2>3. led.ws \in Nat /\ led.ws > vol.granted /\ track = Seeded
      BY <2>2, NumbersTyped, Zenon DEF Covered
    <2>4. led'.ws >= vol'.granted /\ track.pc = "seeded"
      BY <2>2, <2>3 DEF Seeded
    <2>5. QED
      BY <2>1, <2>2, <2>4, Zenon DEF Covered
  <1>38. CASE SyncGrown
    BY <1>38, IdleFields, SyncedFields, DueTyped, <1>0 DEF SyncGrown, Return, Holds,
       runtime, Covered
  <1>39. CASE ReconcileStorageError
    BY <1>39, IdleFields, <1>0 DEF ReconcileStorageError, Failed, claims, Covered
  <1>40. CASE ReconcileRestoring
    BY <1>40, AtFields, IdleFields, <1>0 DEF ReconcileRestoring, Reconciling, Failed,
       runtime, claims, Covered
  <1>41. CASE ReconcileRunning
    BY <1>41, IdleFields, <1>0 DEF ReconcileRunning, Reconciling, Failed, runtime,
       claims, Covered
  <1>42. CASE ReconcileHibernating
    BY <1>42, AtFields, IdleFields, <1>0 DEF ReconcileHibernating, Reconciling, Failed,
       runtime, claims, Covered
  <1>43. CASE ReconcileReaped
    BY <1>43, AtFields, IdleFields, <1>0 DEF ReconcileReaped, Reconciling, Failed,
       runtime, claims, Covered
  <1>44. CASE ReconcileParked
    BY <1>44, AtFields, IdleFields, <1>0 DEF ReconcileParked, Reconciling, Failed,
       runtime, claims, Covered
  <1>45. CASE Park
    BY SMTT(20), <1>45, IdleFields, AtFields, <1>0 DEF Park, runtime, Covered
  <1>46. CASE Resume
    BY SMTT(20), <1>46, IdleFields, AtFields, ReservedFields, <1>0 DEF Resume, Fault, runtime,
       Covered
  <1>47. CASE SettleIdle
    BY <1>47, IdleFields, AtFields, <1>0 DEF SettleIdle, runtime, claims, Covered
  <1>48. CASE GrowClaim
    <2>1. led'.ws = Charge(vol) + 1 /\ w'.pc = "grow" /\ track = Seeded /\ UNCHANGED <<vol, track>>
      BY <1>48, <1>0, ClaimFields, AtFields, DueBounds DEF GrowClaim
    <2>2. Charge(vol) \in Nat /\ Charge(vol) >= vol.granted /\ vol.granted \in Nat
      BY <1>0, DueBounds, NumbersTyped, Zenon
    <2>3. led'.ws > vol.granted /\ led'.ws >= vol.granted
      BY <2>1, <2>2
    <2>4. QED
      BY <2>1, <2>3 DEF Covered, Seeded
  <1>49. CASE TrackList
    BY <1>49, DueBounds, <1>0 DEF TrackList, Unseeded, Seeded, runtime, claims, Covered
  <1>50. CASE TrackSync
    BY <1>50, SyncedFields, DueTyped, <1>0 DEF TrackSync, Seeded, runtime, Covered
  <1>51. CASE SentryDies
    BY <1>51, <1>0 DEF SentryDies, Fault, claims, Covered
  <1>52. CASE CandidateDies
    BY <1>52, <1>0 DEF CandidateDies, Fault, claims, Covered
  <1>53. CASE AgentCrash
    BY <1>53, IdleFields, RestingFields, <1>0 DEF AgentCrash, Unseeded, Fault, runtime,
       claims, Covered
  <1>54. CASE DaemonRestart
    BY <1>54, IdleFields, RestingFields, ReopenedFields, <1>0 DEF DaemonRestart, Fault,
       runtime, claims, Covered
  <1>55. ASSUME NEW p \in Publishers, PublishRead(p) PROVE Covered'
    <2>1. w'.pc \in {w.pc, "seal"} /\ w.pc = "idle" /\ UNCHANGED <<vol, track>>
      BY <1>55, AtFields DEF PublishRead, Idle
    <2>2. led'.ws = led.ws
      BY <1>55, <1>0, ReleasedFields, Zenon DEF PublishRead, Uncharged
    <2>3. QED
      BY SMTT(20), <2>1, <2>2 DEF Covered
  <1>56. ASSUME NEW p \in Publishers, PublishBegin(p) PROVE Covered'
    BY <1>56, RestingFields, MovedFields, <1>0 DEF PublishBegin, PublishFence, runtime,
       claims, Covered
  <1>57. ASSUME NEW p \in Publishers, PublishRelease(p) PROVE Covered'
    BY <1>57, RestingFields, ReleasedFields, <1>0 DEF PublishRelease, Uncharged,
       runtime, Covered
  <1>58. ASSUME NEW rev \in uploads, FinishPublish(rev) PROVE Covered'
    BY <1>58, UploadFields, Zenon DEF Covered
  <1>59. CASE UNCHANGED vars
    BY <1>59 DEF vars, Covered
  <1>60. QED
    BY <1>1, <1>2, <1>3, <1>4, <1>5, <1>6, <1>7, <1>8, <1>9, <1>10, <1>11, <1>12, <1>13,
       <1>14, <1>15, <1>16, <1>17, <1>18, <1>19, <1>20, <1>21, <1>22, <1>23, <1>24,
       <1>25, <1>26, <1>27, <1>28, <1>29, <1>30, <1>31, <1>32, <1>33, <1>34, <1>35,
       <1>36, <1>37, <1>38, <1>39, <1>40, <1>41, <1>42, <1>43, <1>44, <1>45, <1>46,
       <1>47, <1>48, <1>49, <1>50, <1>51, <1>52, <1>53, <1>54, <1>55, <1>56, <1>57,
       <1>58, <1>59, Zenon DEF Next, DaemonStep, LockedStep, ParkStep, WakeStep,
       Reconcile, Publish

-----------------------------------------------------------------------------
(* The theorems.                                                             *)

\* The inductive invariant.
IInv == Typed /\ Journal /\ OffNode /\ Covered

\* The inductive invariant holds of every reachable state.
THEOREM Invariance == Spec => []IInv
  <1>1. Init => IInv
    BY TypedInit, JournalInit, OffNodeInit, CoveredInit, Zenon DEF IInv
  <1>2. IInv /\ [Next]_vars => IInv'
    BY TypedStep, JournalStep, OffNodeStep, CoveredStep, Zenon DEF IInv
  <1>3. QED
    BY <1>1, <1>2, PTL DEF Spec

\* Every reachable state has the types the model gives its journals.
THEOREM TypeCorrect == Spec => []TypeOK
  <1>1. IInv => TypeOK
    BY Zenon DEF IInv, Typed
  <1>2. QED
    BY <1>1, Invariance, PTL

\* release_parked_workspace_disk never uncharges a volume that is on the node,
\* however late its publisher is.
THEOREM UnchargedSafety == Spec => []ReleasedIsOffNode
  <1>1. IInv => ReleasedIsOffNode
    BY Zenon DEF IInv, OffNode, ReleasedIsOffNode
  <1>2. QED
    BY <1>1, Invariance, PTL

\* The registry's claim covers the grant of a volume a runtime may write.
THEOREM ClaimSafety == Spec => []GrantIsClaimed
  <1>1. IInv => GrantIsClaimed
    BY Zenon DEF IInv, Covered, GrantIsClaimed
  <1>2. QED
    BY <1>1, Invariance, PTL

\* The original sentry and a restore candidate are never alive together.
THEOREM RuntimeSafety == Spec => []OneRuntime
  <1>1. IInv => OneRuntime
    BY Zenon DEF IInv, Journal, Custody, OneRuntime
  <1>2. QED
    BY <1>1, Invariance, PTL

\* A running sandbox has its filesystem mounted, or failed, under it.
THEOREM MountSafety == Spec => []RunningIsMounted
  <1>1. IInv => RunningIsMounted
    BY Zenon DEF IInv, Journal, Underneath, RunningIsMounted
  <1>2. QED
    BY <1>1, Invariance, PTL

\* The memory backing's limit stays within the registry's claim.
THEOREM LimitSafety == Spec => []LimitWithinClaim
  <1>1. IInv => LimitWithinClaim
    BY Zenon DEF IInv, Journal, Space, LimitWithinClaim
  <1>2. QED
    BY <1>1, Invariance, PTL

\* Unless a process died or the sandbox is quarantined, its work is in a
\* process or in a checkpoint with its layers.
THEOREM WorkSafety == Spec => []WorkSurvives
  <1>1. IInv => WorkSurvives
    <2> SUFFICES ASSUME IInv, ~died, life # "recovery", sentry = "dead" PROVE Captured
      BY Zenon DEF Captured, WorkSurvives, HasLayers, IInv, Typed, TypeOK
    <2>1. life # "running"
      BY Zenon DEF IInv, Journal, Kept
    <2>2. CASE life = "hibernating"
      BY <2>2, Zenon DEF IInv, Journal, Kept
    <2>3. CASE life \in {"reaped", "parked", "restoring", "candidate"}
      BY <2>3, Zenon DEF IInv, Journal, Kept
    <2>4. QED
      BY <2>1, <2>2, <2>3, Zenon DEF IInv, Typed, TypeOK, Lives
  <1>2. QED
    BY <1>1, Invariance, PTL

\* Only undoing a capture and committing a wake make a sentry run: both happen
\* without a complete checkpoint of the generation being hibernated.
LEMMA ResumedBy == [Next]_vars =>
                     \/ sentry' \in {sentry, "paused", "dead"}
                     \/ ResumeOriginal
                     \/ CommitRunning
  <1> DEFINE Goal == sentry' \in {sentry, "paused", "dead"} \/ ResumeOriginal \/ CommitRunning
  <1> SUFFICES ASSUME [Next]_vars PROVE Goal
    OBVIOUS
  <1>1. CASE DaemonStep
    BY <1>1, Zenon DEF DaemonStep, FinishPrepare, FinishRelease, FinishMount,
       FinishDiscard, runtime
  <1>2. CASE ParkStep
    BY <1>2, Zenon DEF ParkStep, RaiseLimit, BeginHibernate, Capture, PrepareCapture,
       CapturePrepared, PublishComplete, Terminate, MarkSentryReaped, CommitParked,
       SettleLimit, SettleClaim, AbortCapture, ResumeOriginal, AbortHibernate,
       CommitCapture, ReleaseRuntime, RuntimeReleased, SyncReleased, runtime
  <1>3. CASE WakeStep
    BY <1>3, Zenon DEF WakeStep, MountSnapshot, Mounted, SyncMounted, BeginRestore,
       RunscRestore, MarkCandidate, ThawCandidate, CommitRunning, FinalizeRestore,
       FenceCandidate, DiscardMounted, Discarded, SyncDiscarded, RollbackRestore,
       runtime
  <1>4. CASE GrowVolume \/ SyncGrown \/ Park \/ Resume \/ SettleIdle \/ GrowClaim
    BY <1>4, Zenon DEF GrowVolume, SyncGrown, Park, Resume, SettleIdle, GrowClaim,
       runtime
  <1>5. CASE Reconcile
    BY <1>5, Zenon DEF Reconcile, ReconcileStorageError, ReconcileRestoring,
       ReconcileRunning, ReconcileHibernating, ReconcileReaped, ReconcileParked, runtime
  <1>6. CASE (\E p \in Publishers : Publish(p)) \/ (\E rev \in uploads : FinishPublish(rev))
    BY <1>6, Zenon DEF Publish, PublishRead, PublishBegin, PublishRelease,
       FinishPublish, runtime
  <1>7. CASE TrackList \/ TrackSync \/ SentryDies \/ CandidateDies \/ AgentCrash \/ DaemonRestart
    BY <1>7, Zenon DEF TrackList, TrackSync, SentryDies, CandidateDies, AgentCrash,
       DaemonRestart, runtime
  <1>8. QED
    BY <1>1, <1>2, <1>3, <1>4, <1>5, <1>6, <1>7, Zenon DEF Next, LockedStep, vars

\* COMPLETE is authoritative: no sentry paused for a capture that completed
\* ever runs again.
THEOREM CompleteIsFinal == Spec => NeverResumed
  <1>1. IInv /\ [Next]_vars =>
          [art.st = "complete" /\ life = "hibernating" => ~(sentry = "paused" /\ sentry' = "running")]_vars
    <2> SUFFICES ASSUME IInv, [Next]_vars, art.st = "complete", life = "hibernating",
                        sentry = "paused", sentry' = "running"
                 PROVE  FALSE
      OBVIOUS
    <2>1. CASE ResumeOriginal
      BY <2>1, Zenon DEF ResumeOriginal, Holds, IInv, Journal, Custody
    <2>2. CASE CommitRunning
      BY <2>2, Zenon DEF CommitRunning, Holds, IInv, Journal, Stages
    <2>3. QED
      BY <2>1, <2>2, ResumedBy
  <1>2. QED
    BY <1>1, Invariance, PTL DEF Spec, NeverResumed
=============================================================================
