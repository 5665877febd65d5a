---------------------------- MODULE Incarnations ----------------------------
(* What the routing authority promises about the incarnations of a sandbox, *)
(* without workers, handlers or heartbeats: a generation is issued once,    *)
(* owns the sandbox until it is released or lost, and a delete intent ends   *)
(* only with the incarnation it was recorded for.                           *)
EXTENDS Integers

CONSTANT Sandboxes

VARIABLES own,      \* the generation that owns the sandbox, 0 for none
          high,     \* the highest generation ever issued
          intent,   \* the delete intent of the owner, 0 for none
          lost      \* the highest generation recorded as lost

vars == <<own, high, intent, lost>>

Init == /\ own = [s \in Sandboxes |-> 0]
        /\ high = [s \in Sandboxes |-> 0]
        /\ intent = [s \in Sandboxes |-> 0]
        /\ lost = [s \in Sandboxes |-> 0]

\* A new incarnation, in place of none or of one nobody asked to delete.
Issue(s) == /\ own[s] = 0 \/ intent[s] = 0
            /\ own'[s] > high[s] /\ high'[s] = own'[s]
            /\ intent'[s] = 0 /\ lost'[s] = lost[s]

Intend(s) == /\ own[s] # 0 /\ intent[s] = 0 /\ intent'[s] # 0
             /\ own'[s] = own[s] /\ high'[s] = high[s] /\ lost'[s] = lost[s]

Release(s) == /\ own[s] # 0 /\ own'[s] = 0 /\ intent'[s] = 0
              /\ high'[s] = high[s] /\ lost'[s] = lost[s]

\* The owner's node rebooted; an incarnation with a delete intent is not lost,
\* its intent is still to be delivered.
Lose(s) == /\ own[s] # 0 /\ intent[s] = 0
           /\ own'[s] = 0 /\ intent'[s] = 0
           /\ lost'[s] = own[s] /\ high'[s] = high[s]

Hold(s) == /\ own'[s] = own[s] /\ high'[s] = high[s]
           /\ intent'[s] = intent[s] /\ lost'[s] = lost[s]

\* One heartbeat may end several incarnations at once.
Next == /\ {own', high', intent', lost'} \subseteq [Sandboxes -> Nat]
        /\ \A s \in Sandboxes : Issue(s) \/ Intend(s) \/ Release(s) \/ Lose(s) \/ Hold(s)

Spec == Init /\ [][Next]_vars
=============================================================================
