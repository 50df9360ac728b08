---------------------------- MODULE AppLifecycle ----------------------------
(* What the LifecycleManager promises of the state changes it submits, for  *)
(* one context object each: in the order of their submission they follow    *)
(* the transition table one edge at a time, and the context is deleted only *)
(* after UNLOADED was submitted.  (The worker pool may deliver them in any  *)
(* order, and the deletion comes before the observers are called.)          *)
EXTENDS LifecycleStates

CONSTANT Object   \* context objects

VARIABLE phase    \* per object: the last state submitted, "absent" before
                  \* it is created, "forgotten" after it is deleted

Phase == LifecycleState \cup {"absent", "forgotten"}

AbstractInit == phase = [x \in Object |-> "absent"]

Create(x) ==
  /\ phase[x] = "absent"
  /\ phase' = [phase EXCEPT ![x] = "UNLOADED"]

Announce(x, new) ==
  /\ phase[x] \in LifecycleState /\ Edge(phase[x], new)
  /\ phase' = [phase EXCEPT ![x] = new]

Forget(x) ==
  /\ phase[x] = "UNLOADED"
  /\ phase' = [phase EXCEPT ![x] = "forgotten"]

AbstractNext ==
  \E x \in Object :
    Create(x) \/ Forget(x) \/ \E new \in LifecycleState : Announce(x, new)

AbstractSpec == AbstractInit /\ [][AbstractNext]_phase
=============================================================================
