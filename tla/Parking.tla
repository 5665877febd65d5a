------------------------------ MODULE Parking ------------------------------
(***************************************************************************)
(* Parking and waking one sandbox on one worker: the warden's lifecycle    *)
(* journal (hibernation.py, direct_warden.py), the storage daemon's volume *)
(* journal (storage_native_daemon.py) and the registry's disk ledger       *)
(* (direct_registry.py).                                                   *)
(*                                                                         *)
(* A park captures a running sentry into a checkpoint (the COMPLETE        *)
(* marker) and seals its workspace volume; a wake mounts the volume,       *)
(* restores a candidate from the checkpoint and makes it the sentry.       *)
(* Three journals change one after the other, the agent and the daemon may *)
(* die between any two writes, and publishers upload the sealed volume     *)
(* without the warden's lock.  The lock itself is the variable w: one      *)
(* operation at a time.  Split memory with the default, consuming restore  *)
(* is modelled.                                                            *)
(***************************************************************************)
EXTENDS Integers, FiniteSets

CONSTANTS Publishers,  \* threads that publish the parked volume
          MaxParks,    \* hibernation generations of the sandbox
          MaxMounts,   \* mount epochs of the sandbox
          MaxRevision, \* volume revision past which no publisher starts
          MaxGrant,    \* largest workspace grant, in growth steps
          MaxFaults    \* crashes, deaths, refusals and failed calls

ASSUME ParkingAssumption ==
    /\ IsFiniteSet(Publishers)
    /\ MaxParks \in Nat \ {0}
    /\ MaxMounts \in Nat \ {0}
    /\ MaxRevision \in Nat
    /\ MaxGrant \in Nat \ {0}
    /\ MaxFaults \in Nat

VARIABLES life,    \* the lifecycle journal
          parks,   \* its hibernation generation
          sentry,  \* the process the journal names, or its original
          cand,    \* a restore candidate
          art,     \* the checkpoint of the generation: marker, capture named
          vol,     \* the daemon's record of the workspace volume
          led,     \* the registry's workspace charge and mount epoch
          mem,     \* the memory claim and the project limit of the backing
          w,       \* the operation holding the warden's lock
          pub,     \* the publishers
          uploads, \* revisions whose layers the daemon is uploading
          track,   \* the growth monitor's restart resync
          faults,  \* faults so far
          died     \* a runtime process died on its own

vars == <<life, parks, sentry, cand, art, vol, led, mem, w, pub, uploads, track, faults, died>>

runtime == <<sentry, cand, died>>
claims == <<led, mem>>

\* HIBERNATING is "hibernating" under LIVE authority and "reaped" under PENDING;
\* RESTORING is "restoring" under PARKED and "candidate" under CANDIDATE.
Lives == {"running", "hibernating", "reaped", "parked", "restoring", "candidate", "recovery"}

\* ERROR is "mountfail" while the failed operation is a MountSnapshotCow.
VolumeStates == {"mounted", "preparing", "prepared", "sealed", "releasing", "discarding",
                 "released", "publishing", "published", "acquiring", "mountfail", "error"}

Steps == {"idle", "limit", "begin", "capture", "prepare", "preparing", "complete", "stop",
          "reap", "seal", "release", "releasing", "charge", "commit", "settle", "unclaim",
          "undo", "unpause", "abort", "mount", "mounting", "claim", "verify", "restore",
          "mark", "thaw", "run", "finalize", "fence", "discard", "discarding", "uncharge",
          "unrestore", "grow", "grown"}

\* The daemon's record, the registry's row, the lock's holder and a publisher.
Volume == [st : VolumeStates, rev : Nat, cap : Nat, sealed : BOOLEAN, pub : BOOLEAN,
           granted : 1 .. MaxGrant]
Ledger == [ws : Nat, epoch : Nat, released : BOOLEAN]
Operation == [pc : Steps, due : Nat,
              by : {"none", "park", "wake", "reconcile", "publish", "maintenance", "growth"}]
Publication == [pc : {"idle", "read", "upload", "done"}, rev : Nat, epoch : Nat]

Idle == [pc |-> "idle", by |-> "none", due |-> 0]
At(step, by) == [pc |-> step, by |-> by, due |-> 0]
Resting == [pc |-> "idle", rev |-> 0, epoch |-> 0]
Unseeded == [pc |-> "unseeded", due |-> 0]
Seeded == [pc |-> "seeded", due |-> 0]

Fault == faults < MaxFaults /\ faults' = faults + 1
Goto(step) == w' = [w EXCEPT !.pc = step]
Return == w' = Idle

\* The daemon's record after a journaled transition.
Moved(st) == [vol EXCEPT !.st = st, !.rev = @ + 1]

\* What the daemon says a volume may occupy: its grant and its local layers.
Charge(v) == v.granted + IF v.sealed THEN 1 ELSE 0

\* A sync charges the record its caller was given; a published one it leaves alone.
Due(v) == IF v.st = "published" THEN 0 ELSE Charge(v)
GotoSync(step, v) == w' = [w EXCEPT !.pc = step, !.due = Due(v)]
Synced(due) == IF due = 0 THEN led ELSE [led EXCEPT !.ws = due]

HasLayers == vol.sealed \/ vol.pub
Loadable == art.st = "complete" /\ art.cap = vol.cap

Init ==
    /\ life = "running"
    /\ parks = 0
    /\ sentry = "running"
    /\ cand = "none"
    /\ art = [st |-> "none", cap |-> 0]
    /\ vol = [st |-> "mounted", rev |-> 1, cap |-> 0, sealed |-> FALSE, pub |-> FALSE, granted |-> 1]
    /\ led = [ws |-> 1, epoch |-> 1, released |-> FALSE]
    /\ mem = [claim |-> 1, limit |-> 1]
    /\ w = Idle
    /\ pub = [p \in Publishers |-> Resting]
    /\ uploads = {}
    /\ track = Unseeded
    /\ faults = 0
    /\ died = FALSE

-----------------------------------------------------------------------------
(* The storage daemon: the second half of an operation it has journaled as   *)
(* pending.  It runs whether or not its caller is still there.               *)

\* PREPARING_CAPTURE -> CAPTURE_PREPARED: the upper is sealed under a live device.
FinishPrepare ==
    /\ vol.st = "preparing"
    /\ \/ vol' = [vol EXCEPT !.st = "prepared", !.cap = parks, !.sealed = TRUE] /\ UNCHANGED faults
       \/ vol' = [vol EXCEPT !.st = "error"] /\ Fault
    /\ UNCHANGED <<life, parks, runtime, art, claims, w, pub, uploads, track>>

\* RELEASING -> RELEASED of a sealed volume.
FinishRelease ==
    /\ vol.st = "releasing"
    /\ \/ vol' = [vol EXCEPT !.st = "released"] /\ UNCHANGED faults
       \/ vol' = [vol EXCEPT !.st = "error"] /\ Fault
    /\ UNCHANGED <<life, parks, runtime, art, claims, w, pub, uploads, track>>

\* ACQUIRING -> MOUNTED, with the grant read back from the superblock.
FinishMount ==
    /\ vol.st = "acquiring"
    /\ \/ /\ \E g \in 1 .. vol.granted : vol' = [vol EXCEPT !.st = "mounted", !.granted = g]
          /\ UNCHANGED faults
       \/ vol' = [vol EXCEPT !.st = "mountfail"] /\ Fault
    /\ UNCHANGED <<life, parks, runtime, art, claims, w, pub, uploads, track>>

\* RELEASING -> the parent's authority, of a discarded writable upper.
FinishDiscard ==
    /\ vol.st = "discarding"
    /\ \/ /\ vol' = [vol EXCEPT !.st = IF vol.pub THEN "published" ELSE "released"]
          /\ UNCHANGED faults
       \/ vol' = [vol EXCEPT !.st = "error"] /\ Fault
    /\ UNCHANGED <<life, parks, runtime, art, claims, w, pub, uploads, track>>

-----------------------------------------------------------------------------
(* Park, under the lock.                                                     *)

Holds(step) == w.pc = step

\* The claim is raised to the capture's bound, or the park is refused.
Park ==
    /\ w = Idle
    /\ life = "running"
    /\ sentry = "running"
    /\ parks < MaxParks
    /\ mem' = [mem EXCEPT !.claim = 2]
    /\ w' = At("limit", "park")
    /\ UNCHANGED <<life, parks, runtime, art, vol, led, pub, uploads, track, faults>>

RaiseLimit ==
    /\ Holds("limit")
    /\ mem' = [mem EXCEPT !.limit = 2]
    /\ Goto("begin")
    /\ UNCHANGED <<life, parks, runtime, art, vol, led, pub, uploads, track, faults>>

BeginHibernate ==
    /\ Holds("begin")
    /\ life' = "hibernating"
    /\ parks' = parks + 1
    /\ art' = [st |-> "none", cap |-> 0]
    /\ Goto("capture")
    /\ UNCHANGED <<runtime, vol, claims, pub, uploads, track, faults>>

\* runsc checkpoint --hibernate leaves the original paused; it may pause and fail.
Capture ==
    /\ Holds("capture")
    /\ \/ /\ sentry = "running"
          /\ sentry' = "paused"
          /\ Goto("prepare")
          /\ UNCHANGED faults
       \/ /\ sentry # "dead"
          /\ sentry' \in {sentry, "paused"}
          /\ Goto("undo")
          /\ Fault
       \/ /\ sentry = "dead"
          /\ Goto("undo")
          /\ UNCHANGED <<sentry, faults>>
    /\ UNCHANGED <<life, parks, cand, died, art, vol, claims, pub, uploads, track>>

PrepareCapture ==
    /\ Holds("prepare")
    /\ \/ sentry = "paused" /\ vol.st = "mounted" /\ vol' = Moved("preparing") /\ Goto("preparing")
       \/ ~(sentry = "paused" /\ vol.st = "mounted") /\ Goto("undo") /\ UNCHANGED vol
    /\ UNCHANGED <<life, parks, runtime, art, claims, pub, uploads, track, faults>>

CapturePrepared ==
    /\ Holds("preparing")
    /\ \/ vol.st = "prepared" /\ Goto("complete")
       \/ vol.st = "error" /\ Goto("undo")
    /\ UNCHANGED <<life, parks, runtime, art, vol, claims, pub, uploads, track, faults>>

\* Mutant: a failed publication of the marker does not stop the park.
PublishCompleteAnyway ==
    /\ Holds("complete")
    /\ \/ art' = [st |-> "complete", cap |-> vol.cap] /\ Goto("stop") /\ UNCHANGED faults
       \/ Goto("stop") /\ Fault /\ UNCHANGED art
    /\ UNCHANGED <<life, parks, runtime, vol, claims, pub, uploads, track>>

\* The manifest names the capture; a failure after the marker is durable only raises.
PublishComplete ==
    /\ Holds("complete")
    /\ \/ art' = [st |-> "complete", cap |-> vol.cap] /\ Goto("stop") /\ UNCHANGED faults
       \/ art' = [st |-> "complete", cap |-> vol.cap] /\ Return /\ Fault
       \/ Goto("undo") /\ Fault /\ UNCHANGED art
    /\ UNCHANGED <<life, parks, runtime, vol, claims, pub, uploads, track>>

Terminate ==
    /\ Holds("stop")
    /\ sentry' = "dead"
    /\ Goto("reap")
    /\ UNCHANGED <<life, parks, cand, died, art, vol, claims, pub, uploads, track, faults>>

\* Park releases the storage before the journal says PARKED, reconcile after.
MarkSentryReaped ==
    /\ Holds("reap")
    /\ life' = "reaped"
    /\ Goto(IF w.by = "park" THEN "seal" ELSE "commit")
    /\ UNCHANGED <<parks, runtime, art, vol, claims, pub, uploads, track, faults>>

CommitParked ==
    /\ Holds("commit")
    /\ life' = "parked"
    /\ Goto(IF w.by = "park" THEN "settle" ELSE "seal")
    /\ UNCHANGED <<parks, runtime, art, vol, claims, pub, uploads, track, faults>>

\* Mutant: the claim is lowered first.
SettleClaimFirst ==
    /\ Holds("settle")
    /\ mem' = [mem EXCEPT !.claim = 1]
    /\ Goto("unclaim")
    /\ UNCHANGED <<life, parks, runtime, art, vol, led, pub, uploads, track, faults>>

\* The limit comes down before the claim that covers it.
SettleLimit ==
    /\ Holds("settle")
    /\ mem' = [mem EXCEPT !.limit = 1]
    /\ Goto("unclaim")
    /\ UNCHANGED <<life, parks, runtime, art, vol, led, pub, uploads, track, faults>>

SettleClaim ==
    /\ Holds("unclaim")
    /\ mem' = [mem EXCEPT !.claim = 1]
    /\ Return
    /\ UNCHANGED <<life, parks, runtime, art, vol, led, pub, uploads, track, faults>>

\* Maintenance returns a running owner's claim to idle, by the same two steps.
SettleIdle ==
    /\ w = Idle
    /\ life = "running"
    /\ mem.claim = 2
    /\ w' = At("settle", "maintenance")
    /\ UNCHANGED <<life, parks, runtime, art, vol, claims, pub, uploads, track, faults>>

(* A capture that fails before COMPLETE is undone: the volume is thawed, then  *)
(* the original, then the journal.                                             *)

AbortCapture ==
    /\ Holds("undo")
    /\ \/ /\ sentry = "dead" /\ w.by = "park"
          /\ life' = "recovery" /\ Return /\ UNCHANGED vol
       \/ /\ ~(sentry = "dead" /\ w.by = "park")
          /\ \/ vol.st = "prepared" /\ vol' = Moved("mounted") /\ Goto("unpause")
             \/ vol.st = "mounted" /\ Goto("unpause") /\ UNCHANGED vol
             \/ vol.st \notin {"prepared", "mounted"} /\ Return /\ UNCHANGED vol
          /\ UNCHANGED life
    /\ UNCHANGED <<parks, runtime, art, claims, pub, uploads, track, faults>>

ResumeOriginal ==
    /\ Holds("unpause")
    /\ \/ sentry # "dead" /\ sentry' = "running" /\ Goto("abort")
       \/ sentry = "dead" /\ Return /\ UNCHANGED sentry
    /\ UNCHANGED <<life, parks, cand, died, art, vol, claims, pub, uploads, track, faults>>

AbortHibernate ==
    /\ Holds("abort")
    /\ life' = "running"
    /\ Return
    /\ UNCHANGED <<parks, runtime, art, vol, claims, pub, uploads, track, faults>>

-----------------------------------------------------------------------------
(* Releasing the storage of a parked sandbox.                                *)

\* Only a checkpoint naming this capture commits it; a writable upper of a
\* failed wake is discarded instead.
CommitCapture ==
    /\ Holds("seal")
    /\ Loadable
    /\ \/ vol.st = "prepared" /\ vol' = Moved("sealed") /\ Goto("release")
       \/ vol.st = "mounted" /\ Goto("discard") /\ UNCHANGED vol
       \/ vol.st \notin {"prepared", "mounted"} /\ Goto("release") /\ UNCHANGED vol
    /\ UNCHANGED <<life, parks, runtime, art, claims, pub, uploads, track, faults>>

ReleaseRuntime ==
    /\ Holds("release")
    /\ \/ vol.st = "sealed" /\ vol' = Moved("releasing") /\ Goto("releasing")
       \/ vol.st \in {"released", "published"} /\ GotoSync("charge", vol) /\ UNCHANGED vol
       \/ vol.st \notin {"sealed", "released", "published"} /\ Return /\ UNCHANGED vol
    /\ UNCHANGED <<life, parks, runtime, art, claims, pub, uploads, track, faults>>

RuntimeReleased ==
    /\ Holds("releasing")
    /\ \/ vol.st = "released" /\ GotoSync("charge", vol)
       \/ vol.st = "error" /\ Return
    /\ UNCHANGED <<life, parks, runtime, art, vol, claims, pub, uploads, track, faults>>

SyncReleased ==
    /\ Holds("charge")
    /\ led' = Synced(w.due)
    /\ IF w.by = "park" THEN Goto("commit") ELSE Return
    /\ UNCHANGED <<life, parks, runtime, art, vol, mem, pub, uploads, track, faults>>

-----------------------------------------------------------------------------
(* Wake, under the lock.                                                     *)

\* Mutant: only the mount of a released workspace advances the epoch.
ReservedOnce == IF led.released THEN [led EXCEPT !.epoch = @ + 1, !.released = FALSE] ELSE led

\* The released workspace is charged again, and every mount fences publishers.
Reserved == [led EXCEPT !.epoch = @ + 1, !.released = FALSE]

Resume ==
    /\ w = Idle
    /\ life = "parked"
    /\ led.epoch < MaxMounts
    /\ \/ led' = Reserved /\ w' = At("mount", "wake") /\ UNCHANGED faults
       \/ led.released /\ w' = At("discard", "wake") /\ Fault /\ UNCHANGED led
    /\ UNCHANGED <<life, parks, runtime, art, vol, mem, pub, uploads, track>>

\* A publication under way is superseded: one more revision, back to RELEASED.
Superseded == IF vol.st = "publishing" THEN Moved("released") ELSE vol

MountSnapshot ==
    /\ Holds("mount")
    /\ \/ /\ Superseded.st \in {"released", "published"}
          /\ vol' = [Superseded EXCEPT !.st = "acquiring", !.rev = @ + 1]
          /\ Goto("mounting")
          /\ UNCHANGED faults
       \/ vol.st = "mounted" /\ GotoSync("claim", vol) /\ UNCHANGED <<vol, faults>>
       \/ /\ Superseded.st \notin {"released", "published", "mounted"}
          /\ Goto("discard") /\ UNCHANGED <<vol, faults>>
       \/ vol' = Superseded /\ Goto("discard") /\ Fault
    /\ UNCHANGED <<life, parks, runtime, art, claims, pub, uploads, track>>

Mounted ==
    /\ Holds("mounting")
    /\ \/ vol.st = "mounted" /\ GotoSync("claim", vol)
       \/ vol.st \in {"mountfail", "error"} /\ Goto("discard")
    /\ UNCHANGED <<life, parks, runtime, art, vol, claims, pub, uploads, track, faults>>

SyncMounted ==
    /\ Holds("claim")
    /\ led' = Synced(w.due)
    /\ Goto("verify")
    /\ UNCHANGED <<life, parks, runtime, art, vol, mem, pub, uploads, track, faults>>

\* load_complete, the component check, the network: then RESTORING.
BeginRestore ==
    /\ Holds("verify")
    /\ \/ Loadable /\ life' = "restoring" /\ Goto("restore") /\ UNCHANGED faults
       \/ ~Loadable /\ Goto("discard") /\ UNCHANGED <<life, faults>>
       \/ Goto("discard") /\ Fault /\ UNCHANGED life
    /\ UNCHANGED <<parks, runtime, art, vol, claims, pub, uploads, track>>

\* runsc restore --start-paused consumes the memory file of the checkpoint; a
\* failed restore may leave a candidate, a consumed file, or neither.
RunscRestore ==
    /\ Holds("restore")
    /\ \/ cand' = "paused" /\ art' = [art EXCEPT !.st = "consumed"] /\ Goto("mark") /\ UNCHANGED faults
       \/ /\ \E c \in {"none", "paused"}, a \in {art.st, "consumed"} :
                cand' = c /\ art' = [art EXCEPT !.st = a]
          /\ Goto("fence")
          /\ Fault
    /\ UNCHANGED <<life, parks, sentry, died, vol, claims, pub, uploads, track>>

MarkCandidate ==
    /\ Holds("mark")
    /\ \/ cand # "none" /\ life' = "candidate" /\ Goto("thaw")
       \/ cand = "none" /\ Goto("fence") /\ UNCHANGED life
    /\ UNCHANGED <<parks, runtime, art, vol, claims, pub, uploads, track, faults>>

\* The candidate is resumed and answers the readiness command.
ThawCandidate ==
    /\ Holds("thaw")
    /\ \/ cand # "none" /\ cand' = "running" /\ Goto("run") /\ UNCHANGED faults
       \/ cand = "none" /\ Goto("fence") /\ UNCHANGED <<cand, faults>>
       \/ cand # "none" /\ cand' \in {cand, "running"} /\ Goto("fence") /\ Fault
    /\ UNCHANGED <<life, parks, sentry, died, art, vol, claims, pub, uploads, track>>

CommitRunning ==
    /\ Holds("run")
    /\ life' = "running"
    /\ sentry' = IF cand = "none" THEN "dead" ELSE "running"
    /\ cand' = "none"
    /\ Goto("finalize")
    /\ UNCHANGED <<parks, died, art, vol, claims, pub, uploads, track, faults>>

FinalizeRestore ==
    /\ Holds("finalize")
    /\ art' = [st |-> "none", cap |-> 0]
    /\ Return
    /\ UNCHANGED <<life, parks, runtime, vol, claims, pub, uploads, track, faults>>

(* A wake that fails: the candidate is fenced, the writable upper discarded,   *)
(* and only then does the journal return to PARKED.                            *)

FenceCandidate ==
    /\ Holds("fence")
    /\ cand' = "none"
    /\ Goto("discard")
    /\ UNCHANGED <<life, parks, sentry, died, art, vol, claims, pub, uploads, track, faults>>

DiscardMounted ==
    /\ Holds("discard")
    /\ \/ /\ vol.st \in {"mounted", "mountfail"} /\ HasLayers
          /\ vol' = Moved("discarding") /\ Goto("discarding")
       \/ /\ Superseded.st \in {"released", "published"}
          /\ vol' = Superseded /\ GotoSync("uncharge", Superseded)
       \/ /\ Superseded.st \notin {"mounted", "mountfail", "released", "published"}
          /\ Return /\ UNCHANGED vol
    /\ UNCHANGED <<life, parks, runtime, art, claims, pub, uploads, track, faults>>

Discarded ==
    /\ Holds("discarding")
    /\ \/ vol.st \in {"released", "published"} /\ GotoSync("uncharge", vol)
       \/ vol.st = "error" /\ Return
    /\ UNCHANGED <<life, parks, runtime, art, vol, claims, pub, uploads, track, faults>>

\* The attempted mount re-reserved the workspace; off-node again, it is released.
SyncDiscarded ==
    /\ Holds("uncharge")
    /\ led' = IF w.due = 0 THEN [led EXCEPT !.released = TRUE] ELSE Synced(w.due)
    /\ IF life \in {"restoring", "candidate"} THEN Goto("unrestore") ELSE Return
    /\ UNCHANGED <<life, parks, runtime, art, vol, mem, pub, uploads, track, faults>>

RollbackRestore ==
    /\ Holds("unrestore")
    /\ life' = "parked"
    /\ Return
    /\ UNCHANGED <<parks, runtime, art, vol, claims, pub, uploads, track, faults>>

-----------------------------------------------------------------------------
(* Reconcile: at agent start, and before a request on an unsettled sandbox.  *)

Failed == vol.st \in {"error", "mountfail"}
Reconciling == w = Idle /\ life # "recovery" /\ ~Failed

\* The volume is unusable: fence what runs, and quarantine.
ReconcileStorageError ==
    /\ w = Idle
    /\ life # "recovery"
    /\ Failed
    /\ sentry' = "dead"
    /\ cand' = "none"
    /\ life' = "recovery"
    /\ UNCHANGED <<parks, died, art, vol, claims, w, pub, uploads, track, faults>>

\* A started candidate is adopted, whether or not it was recorded.
ReconcileRestoring ==
    /\ Reconciling
    /\ life \in {"restoring", "candidate"}
    /\ art.st # "none"
    /\ \/ cand # "none" /\ life' = "candidate" /\ w' = At("thaw", "reconcile")
       \/ cand = "none" /\ w' = At("fence", "reconcile") /\ UNCHANGED life
    /\ UNCHANGED <<parks, runtime, art, vol, claims, pub, uploads, track, faults>>

ReconcileRunning ==
    /\ Reconciling
    /\ life = "running"
    /\ \/ /\ sentry # "dead" /\ art.st # "none"
          /\ art' = [st |-> "none", cap |-> 0] /\ UNCHANGED life
       \/ sentry = "dead" /\ life' = "recovery" /\ UNCHANGED art
    /\ UNCHANGED <<parks, runtime, vol, claims, w, pub, uploads, track, faults>>

\* Mutant: a complete capture is recorded as reaped without ending its sentry.
ReconcileUnterminated ==
    /\ Reconciling
    /\ life = "hibernating"
    /\ \/ sentry # "dead" /\ art.st = "complete" /\ w' = At("reap", "reconcile") /\ UNCHANGED life
       \/ sentry # "dead" /\ art.st # "complete" /\ w' = At("undo", "reconcile") /\ UNCHANGED life
       \/ sentry = "dead" /\ life' = "reaped" /\ UNCHANGED w
    /\ UNCHANGED <<parks, runtime, art, vol, claims, pub, uploads, track, faults>>

\* Mutant: an interrupted capture is undone although COMPLETE exists.
ReconcileUndoes ==
    /\ Reconciling
    /\ life = "hibernating"
    /\ \/ sentry # "dead" /\ w' = At("undo", "reconcile") /\ UNCHANGED life
       \/ sentry = "dead" /\ life' = "reaped" /\ UNCHANGED w
    /\ UNCHANGED <<parks, runtime, art, vol, claims, pub, uploads, track, faults>>

\* COMPLETE decides: with it the capture is finished, without it undone.
ReconcileHibernating ==
    /\ Reconciling
    /\ life = "hibernating"
    /\ \/ sentry # "dead" /\ art.st = "complete" /\ w' = At("stop", "reconcile") /\ UNCHANGED life
       \/ sentry # "dead" /\ art.st # "complete" /\ w' = At("undo", "reconcile") /\ UNCHANGED life
       \/ sentry = "dead" /\ life' = "reaped" /\ UNCHANGED w
    /\ UNCHANGED <<parks, runtime, art, vol, claims, pub, uploads, track, faults>>

\* Mutant: a reaped capture without COMPLETE is left for later.
ReconcileReapedOnly ==
    /\ Reconciling
    /\ life = "reaped"
    /\ art.st = "complete"
    /\ w' = At("commit", "reconcile")
    /\ UNCHANGED <<life, parks, runtime, art, vol, claims, pub, uploads, track, faults>>

ReconcileReaped ==
    /\ Reconciling
    /\ life = "reaped"
    /\ \/ art.st = "complete" /\ w' = At("commit", "reconcile") /\ UNCHANGED life
       \/ art.st # "complete" /\ life' = "recovery" /\ UNCHANGED w
    /\ UNCHANGED <<parks, runtime, art, vol, claims, pub, uploads, track, faults>>

ReconcileParked ==
    /\ Reconciling
    /\ life = "parked"
    /\ \/ art.st = "complete" /\ w' = At("seal", "reconcile") /\ UNCHANGED life
       \/ art.st # "complete" /\ life' = "recovery" /\ UNCHANGED w
    /\ UNCHANGED <<parks, runtime, art, vol, claims, pub, uploads, track, faults>>

Reconcile ==
    \/ ReconcileStorageError \/ ReconcileRestoring \/ ReconcileRunning
    \/ ReconcileHibernating \/ ReconcileReaped \/ ReconcileParked

-----------------------------------------------------------------------------
(* Publishers: revision and mount epoch are read under the lock, the upload  *)
(* and the release of the charge happen without it.                          *)

\* The charge is released only if nothing was mounted since the epoch was read.
Uncharged(epoch) == IF led.epoch = epoch THEN [led EXCEPT !.released = TRUE] ELSE led

\* A volume still mounted or sealed is released first; the publisher reads again.
PublishRead(p) ==
    /\ w = Idle
    /\ life = "parked"
    /\ pub[p].pc = "idle"
    /\ vol.rev < MaxRevision
    /\ \/ vol.st = "published" /\ led' = Uncharged(led.epoch) /\ UNCHANGED <<pub, w>>
       \/ /\ vol.st \in {"mounted", "sealed"}
          /\ w' = At("seal", "publish")
          /\ UNCHANGED <<led, pub>>
       \/ /\ vol.st \notin {"published", "mounted", "sealed"}
          /\ pub' = [pub EXCEPT ![p] = [pc |-> "read", rev |-> vol.rev, epoch |-> led.epoch]]
          /\ UNCHANGED <<led, w>>
    /\ UNCHANGED <<life, parks, runtime, art, vol, mem, uploads, track, faults>>

\* The daemon's fence on a publication: the revision the publisher read.
PublishFence(p) == vol.rev = pub[p].rev /\ vol.st \in {"released", "published"}

PublishBegin(p) ==
    /\ pub[p].pc = "read"
    /\ \/ /\ PublishFence(p) /\ vol.st = "released" /\ vol.sealed
          /\ vol' = Moved("publishing")
          /\ uploads' = uploads \cup {vol.rev + 1}
          /\ pub' = [pub EXCEPT ![p].pc = "upload", ![p].rev = vol.rev + 1]
       \/ /\ PublishFence(p) /\ vol.st = "released" /\ ~vol.sealed
          /\ vol' = Moved("released")
          /\ pub' = [pub EXCEPT ![p] = Resting]
          /\ UNCHANGED uploads
       \/ /\ PublishFence(p) /\ vol.st = "published"
          /\ pub' = [pub EXCEPT ![p].pc = "done"]
          /\ UNCHANGED <<vol, uploads>>
       \/ /\ ~PublishFence(p)
          /\ pub' = [pub EXCEPT ![p] = Resting]
          /\ UNCHANGED <<vol, uploads>>
    /\ UNCHANGED <<life, parks, runtime, art, claims, w, track, faults>>

\* Mutant: an upload completes whatever the record has become.
UploadAnyway(rev) == rev \in uploads

\* Completion is fenced on the record the upload began from.
UploadCurrent(rev) == vol.st = "publishing" /\ vol.rev = rev

\* The publisher that asked for an upload, if its agent still runs, learns the outcome.
Answered(rev, pc) ==
    [p \in Publishers |->
        IF pub[p].pc = "upload" /\ pub[p].rev = rev
        THEN IF pc = "idle" THEN Resting ELSE [pub[p] EXCEPT !.pc = pc]
        ELSE pub[p]]

FinishPublish(rev) ==
    /\ rev \in uploads
    /\ uploads' = uploads \ {rev}
    /\ \/ /\ UploadCurrent(rev)
          /\ vol' = [vol EXCEPT !.st = "published", !.sealed = FALSE, !.pub = TRUE]
          /\ pub' = Answered(rev, "done")
          /\ UNCHANGED faults
       \/ /\ UploadCurrent(rev)
          /\ vol' = [vol EXCEPT !.st = "released"]
          /\ pub' = Answered(rev, "idle")
          /\ Fault
       \/ ~UploadCurrent(rev) /\ pub' = Answered(rev, "idle") /\ UNCHANGED <<vol, faults>>
    /\ UNCHANGED <<life, parks, runtime, art, claims, w, track>>

PublishRelease(p) ==
    /\ pub[p].pc = "done"
    /\ led' = Uncharged(pub[p].epoch)
    /\ pub' = [pub EXCEPT ![p] = Resting]
    /\ UNCHANGED <<life, parks, runtime, art, vol, mem, w, uploads, track, faults>>

Publish(p) == PublishRead(p) \/ PublishBegin(p) \/ PublishRelease(p)

-----------------------------------------------------------------------------
(* The growth monitor: one thread, which resyncs the claims once per agent   *)
(* life without the lock, then grows a mounted volume under it.              *)

TrackList ==
    /\ track = Unseeded
    /\ track' = IF vol.st = "published" THEN Seeded ELSE [pc |-> "listed", due |-> Charge(vol)]
    /\ UNCHANGED <<life, parks, runtime, art, vol, claims, w, pub, uploads, faults>>

TrackSync ==
    /\ track.pc = "listed"
    /\ led' = Synced(track.due)
    /\ track' = Seeded
    /\ UNCHANGED <<life, parks, runtime, art, vol, mem, w, pub, uploads, faults>>

\* Mutant: the filesystem grows before its claim is admitted.
GrowUnclaimed ==
    /\ w = Idle
    /\ track = Seeded
    /\ vol.st = "mounted"
    /\ vol.granted < MaxGrant
    /\ w' = At("grow", "growth")
    /\ UNCHANGED <<life, parks, runtime, art, vol, claims, pub, uploads, track, faults>>

\* The registry admits the larger claim before the filesystem grows.
GrowClaim ==
    /\ w = Idle
    /\ track = Seeded
    /\ vol.st = "mounted"
    /\ vol.granted < MaxGrant
    /\ led' = [led EXCEPT !.ws = Charge(vol) + 1]
    /\ w' = At("grow", "growth")
    /\ UNCHANGED <<life, parks, runtime, art, vol, mem, pub, uploads, track, faults>>

\* A capacity refusal resyncs the claim; any other failure leaves it raised.
GrowVolume ==
    /\ Holds("grow")
    /\ LET grown == [vol EXCEPT !.granted = @ + 1] IN
       \/ vol.st = "mounted" /\ vol' = grown /\ GotoSync("grown", grown) /\ UNCHANGED faults
       \/ GotoSync("grown", vol) /\ Fault /\ UNCHANGED vol
       \/ vol' \in {vol, grown} /\ vol.st = "mounted" /\ Return /\ Fault
       \/ vol.st # "mounted" /\ Return /\ UNCHANGED <<vol, faults>>
    /\ UNCHANGED <<life, parks, runtime, art, claims, pub, uploads, track>>

SyncGrown ==
    /\ Holds("grown")
    /\ led' = Synced(w.due)
    /\ Return
    /\ UNCHANGED <<life, parks, runtime, art, vol, mem, pub, uploads, track, faults>>

-----------------------------------------------------------------------------
(* Faults.                                                                   *)

SentryDies ==
    /\ sentry # "dead"
    /\ sentry' = "dead"
    /\ died' = TRUE
    /\ Fault
    /\ UNCHANGED <<life, parks, cand, art, vol, claims, w, pub, uploads, track>>

CandidateDies ==
    /\ cand # "none"
    /\ cand' = "none"
    /\ died' = TRUE
    /\ Fault
    /\ UNCHANGED <<life, parks, sentry, art, vol, claims, w, pub, uploads, track>>

\* The agent restarts: its threads are gone, runtimes and daemon go on.
AgentCrash ==
    /\ w' = Idle
    /\ pub' = [p \in Publishers |-> Resting]
    /\ track' = Unseeded
    /\ Fault
    /\ UNCHANGED <<life, parks, runtime, art, vol, claims, uploads>>

\* _reconcile_exclusive on the one record, with its block device kept or lost.
Reopened(lost) ==
    CASE vol.st \in {"acquiring", "preparing"} -> Moved("error")
      [] lost /\ vol.st \in {"mounted", "prepared", "sealed"} -> Moved("error")
      [] vol.st \in {"releasing", "discarding", "publishing"} -> [vol EXCEPT !.st = "released"]
      [] OTHER -> vol

\* The daemon restarts; a call in progress fails in its caller.
DaemonRestart ==
    /\ \E lost \in BOOLEAN : vol' = Reopened(lost)
    /\ uploads' = {}
    /\ pub' = [p \in Publishers |-> IF pub[p].pc = "upload" THEN Resting ELSE pub[p]]
    /\ w' = CASE w.pc = "preparing" -> [w EXCEPT !.pc = "undo"]
              [] w.pc = "mounting" -> [w EXCEPT !.pc = "discard"]
              [] w.pc \in {"releasing", "discarding"} -> Idle
              [] OTHER -> w
    /\ Fault
    /\ UNCHANGED <<life, parks, runtime, art, claims, track>>

-----------------------------------------------------------------------------
DaemonStep == FinishPrepare \/ FinishRelease \/ FinishMount \/ FinishDiscard

ParkStep ==
    \/ RaiseLimit \/ BeginHibernate \/ Capture \/ PrepareCapture \/ CapturePrepared
    \/ PublishComplete \/ Terminate \/ MarkSentryReaped \/ CommitParked
    \/ SettleLimit \/ SettleClaim \/ AbortCapture \/ ResumeOriginal \/ AbortHibernate
    \/ CommitCapture \/ ReleaseRuntime \/ RuntimeReleased \/ SyncReleased

WakeStep ==
    \/ MountSnapshot \/ Mounted \/ SyncMounted \/ BeginRestore \/ RunscRestore
    \/ MarkCandidate \/ ThawCandidate \/ CommitRunning \/ FinalizeRestore
    \/ FenceCandidate \/ DiscardMounted \/ Discarded \/ SyncDiscarded \/ RollbackRestore

LockedStep == ParkStep \/ WakeStep \/ GrowVolume \/ SyncGrown

Next ==
    \/ DaemonStep
    \/ Park \/ Resume \/ SettleIdle \/ GrowClaim \/ LockedStep
    \/ Reconcile
    \/ \E p \in Publishers : Publish(p)
    \/ \E rev \in uploads : FinishPublish(rev)
    \/ TrackList \/ TrackSync
    \/ SentryDies \/ CandidateDies \/ AgentCrash \/ DaemonRestart

Spec == Init /\ [][Next]_vars

\* The daemon finishes what it journaled, an operation runs while its agent
\* does, and requests and restarts keep reconciling an unsettled sandbox.
FairSpec == Spec /\ WF_vars(DaemonStep) /\ WF_vars(LockedStep) /\ WF_vars(Reconcile)

-----------------------------------------------------------------------------
(* What parking promises.                                                    *)

\* Every variable keeps its shape: journal states, process states, records.
TypeOK ==
    /\ life \in Lives
    /\ parks \in 0 .. MaxParks
    /\ sentry \in {"running", "paused", "dead"}
    /\ cand \in {"none", "paused", "running"}
    /\ art \in [st : {"none", "complete", "consumed"}, cap : Nat]
    /\ vol \in Volume
    /\ led \in Ledger
    /\ mem \in [claim : {1, 2}, limit : {1, 2}]
    /\ w \in Operation
    /\ pub \in [Publishers -> Publication]
    /\ uploads \subseteq Nat
    /\ track \in [pc : {"unseeded", "listed", "seeded"}, due : Nat]
    /\ faults \in 0 .. MaxFaults
    /\ died \in BOOLEAN

\* The registry stops charging a workspace only while its volume is off-node:
\* a publisher that finishes after the sandbox was woken (or woken and parked
\* again) never uncharges the mounted volume.
ReleasedIsOffNode == led.released => vol.st = "published"

\* Once its filesystem can be written by a runtime, the volume's grant is
\* covered by the registry's claim, through growth, refusals and restarts.
GrantIsClaimed ==
    vol.st = "mounted" /\ (sentry # "dead" \/ cand # "none") => led.ws >= vol.granted

\* The original sentry and a restore candidate are never alive together.
OneRuntime == sentry = "dead" \/ cand = "none"

\* A running sandbox has its filesystem mounted under it, unless the volume
\* failed: no late publisher seals or releases what a wake has mounted.
RunningIsMounted ==
    life = "running" /\ sentry = "running" => vol.st \in {"mounted", "error"}

\* The memory backing may never grow past what the registry has claimed for it,
\* whichever step of raising or settling the two a crash interrupts.
LimitWithinClaim == mem.limit <= mem.claim

\* Unless a runtime process died or the sandbox is quarantined, there is always
\* a process, or a checkpoint with the volume layers it was captured with.
WorkSurvives ==
    \/ died
    \/ life = "recovery"
    \/ sentry # "dead"
    \/ cand # "none"
    \/ art.st # "none" /\ HasLayers /\ art.cap = vol.cap

\* COMPLETE is authoritative: a sentry paused for a capture whose checkpoint is
\* complete never runs again, whoever finishes the park.
NeverResumed ==
    [][art.st = "complete" /\ life = "hibernating" => ~(sentry = "paused" /\ sentry' = "running")]_vars

\* An interrupted park or wake is finished, undone or quarantined.
Settles == life \notin {"running", "parked", "recovery"} ~> life \in {"running", "parked", "recovery"}

\* What the daemon calls PUBLISHED holds every layer of the volume: no sealed
\* layer is only on this node.  Discarding the upper of a failed wake breaks it.
PublishedIsWhole == vol.st = "published" => ~vol.sealed

\* A released volume has a layer left to publish, so that publishing it can
\* succeed.  A daemon restart during a discard breaks it.
ReleasedIsPublishable == vol.st = "released" => vol.sealed
=============================================================================
