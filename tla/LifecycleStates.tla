-------------------------- MODULE LifecycleStates --------------------------
(* The lifecycle states of an application and the transition table that    *)
(* StateHandler::initialize fills: for each state, the ordered list of the *)
(* states it may be entered from.                                          *)
EXTENDS Naturals, Sequences

LifecycleState == {"UNLOADED", "LOADING", "INITIALIZING", "PAUSED", "ACTIVE",
                   "SUSPENDED", "HIBERNATED", "TERMINATING"}

(* Slip: ACTIVE is listed as the first way into TERMINATING.               *)
TransitionsActiveFirst ==
  [UNLOADED     |-> <<>>,
   LOADING      |-> <<"UNLOADED">>,
   INITIALIZING |-> <<"LOADING">>,
   PAUSED       |-> <<"INITIALIZING", "ACTIVE", "SUSPENDED">>,
   ACTIVE       |-> <<"PAUSED">>,
   SUSPENDED    |-> <<"INITIALIZING", "PAUSED", "HIBERNATED">>,
   HIBERNATED   |-> <<"SUSPENDED">>,
   TERMINATING  |-> <<"ACTIVE", "PAUSED", "SUSPENDED">>]

mPossibleStateTransitions ==
  [UNLOADED     |-> <<>>,
   LOADING      |-> <<"UNLOADED">>,
   INITIALIZING |-> <<"LOADING">>,
   PAUSED       |-> <<"INITIALIZING", "ACTIVE", "SUSPENDED">>,
   ACTIVE       |-> <<"PAUSED">>,
   SUSPENDED    |-> <<"INITIALIZING", "PAUSED", "HIBERNATED">>,
   HIBERNATED   |-> <<"SUSPENDED">>,
   TERMINATING  |-> <<"PAUSED", "SUSPENDED">>]

(* A step of a path: an entry of the table, or the TERMINATING -> UNLOADED *)
(* step that getStatePath appends by hand.                                 *)
Edge(s, t) ==
  \/ \E k \in 1..Len(mPossibleStateTransitions[t]) :
        mPossibleStateTransitions[t][k] = s
  \/ s = "TERMINATING" /\ t = "UNLOADED"

(* A sequence of states each of which may follow the one before it.        *)
Walk(p) == \A k \in 1..(Len(p) - 1) : Edge(p[k], p[k + 1])
=============================================================================
