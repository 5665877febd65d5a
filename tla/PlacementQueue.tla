--------------------------- MODULE PlacementQueue ---------------------------
(* The durable queue of create commands and the handlers that replay them. *)
(*                                                                         *)
(* A public create is stored as a command (gateway_commands).  A placement *)
(* worker claims it under a lease and replays it through the ordinary      *)
(* create handler, whose route transactions re-check the claim.  A worker  *)
(* that dies, stalls past its lease or loses its connection leaves the     *)
(* handler it started running: a claim made later executes beside it.      *)
(* DELETE cancels the outstanding creates and removes the route, in        *)
(* separate transactions.                                                  *)
(*                                                                         *)
(* One sandbox: rows of different sandboxes share nothing but the table.   *)
(* A command key stands for the request's payload, hence for its spec.  An *)
(* execution is the slot of one claim and its claim_token; a slot is taken *)
(* again only when nothing holds its token, so a token is always fresh.    *)
(* The worker's answer to a dispatch is any the gateway tells apart.       *)
EXTENDS Integers, FiniteSets

CONSTANTS Keys,            \* command_key: kind, sandbox, payload
          Slots,           \* executions at a time, orphaned handlers included
          NoSlot,
          Deleters,        \* concurrent DELETE requests
          MaxCommands, MaxGeneration,
          MaxFaults        \* worker crashes and leases run out on a live holder

ASSUME QueueAssumption ==
  /\ Keys # {}
  /\ NoSlot \notin Slots
  /\ {MaxCommands, MaxGeneration} \subseteq Nat \ {0}
  /\ MaxFaults \in Nat

Commands == 1..MaxCommands

VARIABLES
  cmd,          \* gateway_commands
  issued,       \* command ids used
  route, hwm,   \* the sandbox's row of sandboxes and of sandbox_generation_hwm
  pending,      \* its row of pending: the command it is queued for, Other or None
  exec,         \* the executions of claimed commands
  del,          \* the DELETE handlers
  faults,
  gone, erased  \* history: see ReplayNeverRecreates, DeletedStaysDeleted

vars == <<cmd, issued, route, hwm, pending, exec, del, faults, gone, erased>>

-----------------------------------------------------------------------------
(* Records                                                                 *)

\* gen is 0 for NULL; live says claim_until > now, late that deadline <= now.
NoKey == "none"
Results == {"none", "ok", "refused", "retry", "cancelled"}
Command == [st: {"absent", "queued", "running", "done", "pruned"},
            key: Keys \cup {NoKey}, tok: Slots \cup {NoSlot}, live: BOOLEAN,
            gen: 0..MaxGeneration, late: BOOLEAN, res: Results]
Absent == [st |-> "absent", key |-> NoKey, tok |-> NoSlot, live |-> FALSE,
           gen |-> 0, late |-> FALSE, res |-> "none"]

\* by is the command whose execution wrote the incarnation: part of
\* create_operation_id, which is fresh with every generation.
Route == [gen: 0..MaxGeneration, by: 0..MaxCommands, key: Keys \cup {NoKey},
          st: {"none", "creating", "running"}, del: BOOLEAN]
NoRoute == [gen |-> 0, by |-> 0, key |-> NoKey, st |-> "none", del |-> FALSE]
Exists == route.st # "none"

\* A pending row names the command of a 'queued_create', or is Other: written
\* by a handler with another failure_reason.
None == 0
Other == MaxCommands + 1

\* c: the claimed command; gen: the incarnation the handler works on; held:
\* the worker task still waits for the answer.
Execution == [pc: {"free", "check", "read", "place", "observe", "dispatch",
                   "replay", "demand", "redemand", "answer"},
              c: 0..MaxCommands, gen: 0..MaxGeneration, ans: Results,
              held: BOOLEAN]
Free == [pc |-> "free", c |-> 0, gen |-> 0, ans |-> "none", held |-> FALSE]

Deletion == [pc: {"idle", "read", "absent", "present", "proxy"},
             gen: 0..MaxGeneration, cut: SUBSET Commands]
Idle == [pc |-> "idle", gen |-> 0, cut |-> {}]

Outstanding(c) == cmd[c].st \in {"queued", "running"}
Ended(c) == cmd[c].st \in {"done", "pruned"}

TypeOK ==
  /\ cmd \in [Commands -> Command]
  /\ issued \in 0..MaxCommands
  /\ route \in Route
  /\ hwm \in 0..MaxGeneration
  /\ pending \in 0..(MaxCommands + 1)
  /\ exec \in [Slots -> Execution]
  /\ del \in [Deleters -> Deletion]
  /\ faults \in 0..MaxFaults
  /\ gone \subseteq Commands
  /\ erased \subseteq Commands

Init ==
  /\ cmd = [c \in Commands |-> Absent]
  /\ issued = 0
  /\ route = NoRoute
  /\ hwm = 0
  /\ pending = None
  /\ exec = [t \in Slots |-> Free]
  /\ del = [d \in Deleters |-> Idle]
  /\ faults = 0
  /\ gone = {}
  /\ erased = {}

-----------------------------------------------------------------------------
(* The queue                                                               *)

\* The demand half of submit's statement: a create without a route is queued
\* demand, unless a demand row is there.
Demanded(c) == IF ~Exists /\ pending = None THEN c ELSE pending

Joins(k, c) == Outstanding(c) /\ cmd[c].key = k

\* PlacementQueue.submit: the outstanding command of this key, or a new one.
Submit(k) ==
  /\ \/ \E c \in Commands : Joins(k, c) /\ pending' = Demanded(c) /\ UNCHANGED <<cmd, issued>>
     \/ /\ \A c \in Commands : ~Joins(k, c)
        /\ issued < MaxCommands
        /\ issued' = issued + 1
        /\ cmd' = [cmd EXCEPT ![issued + 1] = [Absent EXCEPT !.st = "queued", !.key = k]]
        /\ pending' = Demanded(issued + 1)
  /\ UNCHANGED <<route, hwm, exec, del, faults, gone, erased>>

\* No row and no handler holds t as its claim_token.
Unheld(t, c) == exec[t].pc = "free" /\ \A b \in Commands \ {c} : cmd[b].tok # t

\* The execution of c starts: its handler enters under the command's fence.
Begin(t, c) ==
  /\ cmd' = [cmd EXCEPT ![c].st = "running", ![c].tok = t, ![c].live = TRUE]
  /\ exec' = [exec EXCEPT ![t] = [Free EXCEPT !.pc = "check", !.c = c, !.held = TRUE]]
  /\ UNCHANGED pending

\* execute's first test: an unallocated command past its deadline is answered.
Overdue(c) == cmd[c].late /\ cmd[c].gen = 0

Answered(c, r) ==
  [cmd EXCEPT ![c].st = "done", ![c].tok = NoSlot, ![c].live = FALSE, ![c].res = r]

\* Mutant: only a command that is back in the queue is claimed.
ClaimQueued(t, c) ==
  /\ cmd[c].st = "queued"
  /\ Unheld(t, c)
  /\ IF Overdue(c)
     THEN cmd' = Answered(c, "retry") /\ UNCHANGED <<exec, pending>>
     ELSE Begin(t, c)
  /\ UNCHANGED <<issued, route, hwm, del, faults, gone, erased>>

\* PlacementQueue.claim of a due command nobody holds a lease on, and the
\* start of PlacementQueueWorker.execute.
Claim(t, c) ==
  /\ Outstanding(c)
  /\ ~cmd[c].live
  /\ Unheld(t, c)
  /\ IF Overdue(c)
     THEN /\ cmd' = Answered(c, "retry")
          /\ pending' = IF pending = c THEN None ELSE pending
          /\ UNCHANGED exec
     ELSE Begin(t, c)
  /\ UNCHANGED <<issued, route, hwm, del, faults, gone, erased>>

\* The fence of renew, defer and complete.
Claims(t) == cmd[exec[t].c].tok = t /\ cmd[exec[t].c].st = "running"

\* PlacementQueue.defer
Deferred(t) ==
  IF Claims(t)
  THEN [cmd EXCEPT ![exec[t].c].st = "queued", ![exec[t].c].tok = NoSlot,
                   ![exec[t].c].live = FALSE]
  ELSE cmd

\* Mutant: complete is not fenced by the claim token.
CompletedByAnyone(t, r) == Answered(exec[t].c, r)

\* PlacementQueue.complete
Completed(t, r) == IF Claims(t) THEN Answered(exec[t].c, r) ELSE cmd

\* Mutant: the demand of a finished command stays.
DemandKept(t) == pending

\* complete's second statement: only this command's queued demand.
DemandDropped(t) ==
  IF Claims(t) /\ pending = exec[t].c THEN None ELSE pending

\* PlacementQueueWorker.execute after an answer or a lost connection: a
\* retryable outcome goes back to the queue until the deadline.
Settle(t, r) ==
  IF r = "retry" /\ ~cmd[exec[t].c].late
  THEN cmd' = Deferred(t) /\ UNCHANGED pending
  ELSE cmd' = Completed(t, r) /\ pending' = DemandDropped(t)

\* The worker receives the handler's answer.
Answer(t) ==
  /\ exec[t].pc = "answer"
  /\ Settle(t, exec[t].ans)
  /\ exec' = [exec EXCEPT ![t] = Free]
  /\ UNCHANGED <<issued, route, hwm, del, faults, gone, erased>>

\* The worker task is over; a handler that has not answered goes on without it.
Orphan(t) ==
  exec' = [exec EXCEPT ![t] = IF @.pc = "answer" THEN Free ELSE [@ EXCEPT !.held = FALSE]]

\* The connection to the handler is lost or times out.
LoseConnection(t) ==
  /\ exec[t].held
  /\ Settle(t, "retry")
  /\ Orphan(t)
  /\ UNCHANGED <<issued, route, hwm, del, faults, gone, erased>>

\* renew while the claim is this one's; otherwise the task gives up.
Renew(t) ==
  /\ exec[t].held
  /\ IF Claims(t)
     THEN /\ ~cmd[exec[t].c].live
          /\ cmd' = [cmd EXCEPT ![exec[t].c].live = TRUE]
          /\ UNCHANGED exec
     ELSE Orphan(t) /\ UNCHANGED cmd
  /\ UNCHANGED <<issued, route, hwm, pending, del, faults, gone, erased>>

\* PlacementQueue.prune, an hour after completion.
Prune(c) ==
  /\ cmd[c].st = "done"
  /\ cmd' = [cmd EXCEPT ![c] = [Absent EXCEPT !.st = "pruned"]]
  /\ UNCHANGED <<issued, route, hwm, pending, exec, del, faults, gone, erased>>

-----------------------------------------------------------------------------
(* The create handler under a command                                      *)

\* Mutant: the fence does not look at the bound generation.
AuthorizedUnbound(t) == Claims(t) /\ cmd[exec[t].c].live

\* PostgresRoutingStore._command_row
Authorized(t) ==
  LET row == cmd[exec[t].c]
  IN /\ Claims(t)
     /\ row.live
     /\ IF row.gen # 0 THEN Exists /\ route.gen = row.gen ELSE ~row.late

Goto(t, p) == exec' = [exec EXCEPT ![t].pc = p]
WorkOn(t, p, g) == exec' = [exec EXCEPT ![t].pc = p, ![t].gen = g]

\* The handler answers; nobody hears an orphaned one.
Reply(t, r) ==
  exec' = [exec EXCEPT ![t] =
    IF @.held THEN [@ EXCEPT !.pc = "answer", !.ans = r, !.gen = 0] ELSE Free]

\* Mutant: the allocation commits without the command's generation.
BindForgotten(t, g) == UNCHANGED cmd

Bind(t, g) == cmd' = [cmd EXCEPT ![exec[t].c].gen = g]

\* PlacementCommandRejected: 409, not retryable.
Rejected(t) ==
  ~Authorized(t) /\ Reply(t, "refused") /\ UNCHANGED <<cmd, route, hwm, pending, gone>>

\* command_execution and _check_command_request: bind a route that exists.
Check(t) ==
  /\ exec[t].pc = "check"
  /\ \/ Rejected(t)
     \/ /\ Authorized(t)
        /\ IF Exists /\ cmd[exec[t].c].gen = 0 THEN Bind(t, route.gen) ELSE UNCHANGED cmd
        /\ Goto(t, "read")
        /\ UNCHANGED <<route, hwm, pending, gone>>
  /\ UNCHANGED <<issued, del, faults, erased>>

\* _create_sandbox_on_node_locked: a route with this spec is confirmed from
\* its worker's record, replayed on its worker while it is unconfirmed, or
\* reported in progress.
Read(t) ==
  /\ exec[t].pc = "read"
  /\ \/ ~Exists /\ Goto(t, "place")
     \/ Exists /\ route.key # cmd[exec[t].c].key /\ Reply(t, "refused")
     \/ /\ Exists
        /\ route.key = cmd[exec[t].c].key
        /\ \/ WorkOn(t, "observe", route.gen)
           \/ route.st = "creating" /\ WorkOn(t, "replay", route.gen)
           \/ route.st # "creating" /\ Reply(t, "retry")
  /\ UNCHANGED <<cmd, issued, route, hwm, pending, del, faults, gone, erased>>

Placed(t, g) ==
  [gen |-> g, by |-> exec[t].c, key |-> cmd[exec[t].c].key, st |-> "creating", del |-> FALSE]

\* CreatePlacement.create and reserve_create_intent: no candidate, the route
\* another create holds, or a fresh incarnation bound to the command.
Place(t) ==
  /\ exec[t].pc = "place"
  /\ \/ /\ Goto(t, "demand")
        /\ UNCHANGED <<cmd, route, hwm, pending, gone>>
     \/ Rejected(t)
     \/ /\ Authorized(t)
        /\ Exists
        /\ IF route.key = cmd[exec[t].c].key
           THEN /\ Bind(t, route.gen)
                /\ WorkOn(t, "replay", route.gen)
           ELSE Reply(t, "refused") /\ UNCHANGED cmd
        /\ UNCHANGED <<route, hwm, pending, gone>>
     \/ /\ Authorized(t)
        /\ ~Exists
        /\ hwm < MaxGeneration
        /\ hwm' = hwm + 1
        /\ route' = Placed(t, hwm + 1)
        /\ Bind(t, hwm + 1)
        /\ pending' = None
        /\ WorkOn(t, "dispatch", hwm + 1)
        /\ UNCHANGED gone
  /\ UNCHANGED <<issued, del, faults, erased>>

\* The worker's answer says the create may still be running, or is a failure
\* relayed as it is: _attempt and _retry_sandbox_create_on_assigned_node keep
\* the route.
Ambiguous(t) ==
  /\ \/ exec[t].pc \in {"dispatch", "replay"} /\ Reply(t, "retry")
     \/ exec[t].pc = "replay" /\ Reply(t, "refused")
  /\ UNCHANGED <<cmd, issued, route, hwm, pending, del, faults, gone, erased>>

Mine(t) == Exists /\ route.gen = exec[t].gen

\* The worker created the sandbox or has it: confirm_create and
\* confirm_sandbox_observation, under the incarnation's fence only.
Confirm(t) ==
  /\ exec[t].pc \in {"dispatch", "replay", "observe"}
  /\ IF Mine(t) /\ ~route.del
     THEN /\ route' = [route EXCEPT !.st = "running"]
          /\ pending' = None
          /\ Reply(t, "ok")
     ELSE Reply(t, "refused") /\ UNCHANGED <<route, pending>>
  /\ UNCHANGED <<cmd, issued, hwm, del, faults, gone, erased>>

\* The worker definitively rejected it and there is another candidate:
\* retarget_create_intent moves the route as a fresh incarnation.
Retarget(t) ==
  /\ exec[t].pc = "dispatch"
  /\ \/ Rejected(t)
     \/ /\ Authorized(t)
        /\ IF Mine(t) /\ ~route.del /\ route.st = "creating"
           THEN /\ hwm < MaxGeneration
                /\ hwm' = hwm + 1
                /\ route' = Placed(t, hwm + 1)
                /\ Bind(t, hwm + 1)
                /\ WorkOn(t, "dispatch", hwm + 1)
           ELSE Reply(t, "retry") /\ UNCHANGED <<cmd, route, hwm>>
        /\ UNCHANGED <<pending, gone>>
  /\ UNCHANGED <<issued, del, faults, erased>>

\* The commands bound to the route that leaves, other than those in cs.
Orphaned(cs) == {c \in Commands \ cs : cmd[c].gen = route.gen}

\* The worker rejected or failed it and the route is given up:
\* delete_sandbox_if_current under the command, which may then place again.
\* A rejection is recorded as demand; a rejected replay then starts over.
Release(t) ==
  /\ exec[t].pc \in {"dispatch", "replay"}
  /\ \/ Rejected(t)
     \/ /\ Authorized(t)
        /\ Mine(t)
        /\ route' = NoRoute
        /\ pending' = None
        /\ Bind(t, 0)
        /\ gone' = gone \cup Orphaned({exec[t].c})
        /\ \/ WorkOn(t, "demand", 0)
           \/ exec[t].pc = "replay" /\ WorkOn(t, "redemand", 0)
           \/ exec[t].pc = "dispatch" /\ \E r \in {"refused", "retry"} : Reply(t, r)
        /\ UNCHANGED hwm
     \/ /\ Authorized(t)
        /\ ~Mine(t)
        /\ \E r \in {"refused", "retry"} : Reply(t, r)
        /\ UNCHANGED <<cmd, route, hwm, pending, gone>>
  /\ UNCHANGED <<issued, del, faults, erased>>

\* upsert_pending, upsert_pending_with_demand: not under the command's fence.
\* The replay of a rejected create then starts over on another worker.
Demand(t) ==
  /\ exec[t].pc \in {"demand", "redemand"}
  /\ pending' = Other
  /\ IF exec[t].pc = "demand" THEN Reply(t, "retry") ELSE Goto(t, "read")
  /\ UNCHANGED <<cmd, issued, route, hwm, del, faults, gone, erased>>

-----------------------------------------------------------------------------
(* DELETE                                                                  *)

\* Mutant: a result that waiting clients do not know.
CancelledAsDeleted(c) ==
  [cmd[c] EXCEPT !.st = "done", !.tok = NoSlot, !.live = FALSE, !.res = "deleted"]

Cancelled(c) ==
  [cmd[c] EXCEPT !.st = "done", !.tok = NoSlot, !.live = FALSE, !.res = "cancelled"]

\* Mutant: a command a worker is executing is not cancelled.
CancelQueuedOnly(d) ==
  /\ del[d].pc = "idle"
  /\ cmd' = [c \in Commands |-> IF cmd[c].st = "queued" THEN Cancelled(c) ELSE cmd[c]]
  /\ pending' = IF pending \in Commands /\ Outstanding(pending) THEN None ELSE pending
  /\ del' = [del EXCEPT ![d] = [Idle EXCEPT !.pc = "read", !.cut = 1..issued]]
  /\ UNCHANGED <<issued, route, hwm, exec, faults, gone, erased>>

\* cancel_create_commands, the first thing a DELETE does.
Cancel(d) ==
  /\ del[d].pc = "idle"
  /\ cmd' = [c \in Commands |-> IF Outstanding(c) THEN Cancelled(c) ELSE cmd[c]]
  /\ pending' = IF pending \in Commands /\ Outstanding(pending) THEN None ELSE pending
  /\ del' = [del EXCEPT ![d] = [Idle EXCEPT !.pc = "read", !.cut = 1..issued]]
  /\ UNCHANGED <<issued, route, hwm, exec, faults, gone, erased>>

DeleteRead(d) ==
  /\ del[d].pc = "read"
  /\ del' = [del EXCEPT ![d].pc = IF Exists THEN "present" ELSE "absent"]
  /\ UNCHANGED <<cmd, issued, route, hwm, pending, exec, faults, gone, erased>>

\* The route and its demand go, whatever incarnation they are of.
Removed ==
  /\ route' = NoRoute
  /\ pending' = None
  /\ gone' = IF Exists THEN gone \cup Orphaned({}) ELSE gone

\* The DELETE is answered: what was asked for before it is over.
Acknowledge(d) ==
  /\ del' = [del EXCEPT ![d] = Idle]
  /\ erased' = erased \cup del[d].cut

\* _write_absent_route
DeleteAbsent(d) ==
  /\ del[d].pc = "absent"
  /\ Removed
  /\ Acknowledge(d)
  /\ UNCHANGED <<cmd, issued, hwm, exec, faults>>

\* prepare_sandbox_delete on the route there is now.
DeletePrepare(d) ==
  /\ del[d].pc = "present"
  /\ IF Exists
     THEN /\ route' = [route EXCEPT !.del = TRUE]
          /\ del' = [del EXCEPT ![d].pc = "proxy", ![d].gen = route.gen]
          /\ UNCHANGED erased
     ELSE UNCHANGED route /\ Acknowledge(d)
  /\ UNCHANGED <<cmd, issued, hwm, pending, exec, faults, gone>>

\* The worker deleted the sandbox: delete_sandbox_if_current; or it could
\* not be reached, and the client is told to retry.
DeleteCommit(d) ==
  /\ del[d].pc = "proxy"
  /\ \/ /\ IF Exists /\ route.gen = del[d].gen THEN Removed
           ELSE UNCHANGED <<route, pending, gone>>
        /\ Acknowledge(d)
     \/ del' = [del EXCEPT ![d] = Idle] /\ UNCHANGED <<route, pending, gone, erased>>
  /\ UNCHANGED <<cmd, issued, hwm, exec, faults>>

-----------------------------------------------------------------------------
(* Time, faults and the rest of the control plane                          *)

\* The submission's deadline passes.
Deadline(c) ==
  /\ Outstanding(c)
  /\ ~cmd[c].late
  /\ cmd' = [cmd EXCEPT ![c].late = TRUE]
  /\ UNCHANGED <<issued, route, hwm, pending, exec, del, faults, gone, erased>>

Abandoned(c) == \A t \in Slots : cmd[c].tok = t => exec[t].c # c \/ ~exec[t].held

\* claim_until passes: the holder is dead, or too slow to renew.
Expire(c) ==
  /\ cmd[c].live
  /\ \/ Abandoned(c) /\ UNCHANGED faults
     \/ faults < MaxFaults /\ faults' = faults + 1
  /\ cmd' = [cmd EXCEPT ![c].live = FALSE]
  /\ UNCHANGED <<issued, route, hwm, pending, exec, del, gone, erased>>

\* The process that runs t dies, its handler with it.
Crash(t) ==
  /\ exec[t].pc # "free"
  /\ faults < MaxFaults
  /\ faults' = faults + 1
  /\ exec' = [exec EXCEPT ![t] = Free]
  /\ UNCHANGED <<cmd, issued, route, hwm, pending, del, gone, erased>>

\* The route's worker is lost, or reports the sandbox gone.
Lose ==
  /\ Exists
  /\ Removed
  /\ UNCHANGED <<cmd, issued, hwm, exec, del, faults, erased>>

\* PENDING_DEMAND_TTL_SECONDS pass without a refresh.
ExpireDemand ==
  /\ pending # None
  /\ pending' = None
  /\ UNCHANGED <<cmd, issued, route, hwm, exec, del, faults, gone, erased>>

-----------------------------------------------------------------------------

Handler(t) ==
  \/ Check(t) \/ Read(t) \/ Place(t) \/ Ambiguous(t) \/ Confirm(t)
  \/ Retarget(t) \/ Release(t) \/ Demand(t) \/ Answer(t)

Delete(d) ==
  Cancel(d) \/ DeleteRead(d) \/ DeleteAbsent(d) \/ DeletePrepare(d) \/ DeleteCommit(d)

Next ==
  \/ \E k \in Keys : Submit(k)
  \/ \E t \in Slots, c \in Commands : Claim(t, c)
  \/ \E t \in Slots : Handler(t) \/ Renew(t) \/ LoseConnection(t) \/ Crash(t)
  \/ \E d \in Deleters : Delete(d)
  \/ \E c \in Commands : Prune(c) \/ Deadline(c) \/ Expire(c)
  \/ Lose
  \/ ExpireDemand

\* The worker loop claims what is due, handlers and tasks run to their end,
\* and time passes: deadlines and the leases of dead holders run out.
Fairness ==
  /\ \A t \in Slots : WF_vars(Handler(t)) /\ WF_vars(Renew(t))
  /\ \A c \in Commands :
       /\ WF_vars(\E t \in Slots : Claim(t, c))
       /\ WF_vars(Deadline(c))
       /\ WF_vars(Expire(c) /\ UNCHANGED faults)

Spec == Init /\ [][Next]_vars
FairSpec == Spec /\ Fairness

-----------------------------------------------------------------------------
(* Properties                                                              *)

\* Once a DELETE is acknowledged, no incarnation of a create submitted before
\* it is there, whatever that create's executions, replays and retries were
\* doing when it came (cancel_create_commands, _command_row).
DeletedStaysDeleted == Exists => route.by \notin erased

\* "Replaying a command cannot recreate an explicitly deleted incarnation":
\* a command whose bound incarnation somebody else removed never allocates
\* another one; only its own release lets it place again.
ReplayNeverRecreates == [][hwm' > hwm => route'.by \notin gone]_vars

\* The command that wrote the present route is bound to it as long as it can
\* be replayed, so that a replay continues that incarnation
\* (_bind_command commits with the route).
BoundToItsRoute ==
  Exists /\ Outstanding(route.by) => cmd[route.by].gen = route.gen

\* Queued demand belongs to a create that is still outstanding: nothing
\* scales up for a command that was answered, cancelled or pruned.
NoOrphanDemand == pending \in Commands => Outstanding(pending)

\* A command has one answer: neither a late execution nor a DELETE replaces
\* the result that waiting clients read.
AnsweredOnce ==
  [][\A c \in Commands :
       Ended(c) => \/ cmd'[c].st = "pruned"
                   \/ cmd'[c].st = "done" /\ cmd'[c].res = cmd[c].res]_vars

\* Every accepted create is answered, although workers die, stall and lose
\* their connections.
EveryCreateAnswered == \A c \in Commands : Outstanding(c) ~> Ended(c)

\* "Queued creates remain visible to the autoscaler."
QueuedCreatesVisible ==
  \A c \in Commands : cmd[c].st = "queued" /\ cmd[c].gen = 0 /\ ~Exists => pending # None

=============================================================================
