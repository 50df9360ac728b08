--------------------------- MODULE StatePathWalk ---------------------------
(* The path search put to use: for every pair of states, the walk that      *)
(* changeState makes along the path when no handler fails or waits.         *)
EXTENDS StatePath, FiniteSets

VARIABLES
  from, to,  \* the state the context was in and the target asked for
  left       \* statePath, from the current state

vars == <<from, to, left>>

Init ==
  /\ from \in LifecycleState /\ to \in LifecycleState
  /\ left = StatePathOf(from, to)

Advance ==
  /\ Len(left) > 1
  /\ left' = Tail(left)
  /\ UNCHANGED <<from, to>>

Spec == Init /\ [][Advance]_vars

-----------------------------------------------------------------------------
(* What the table allows, defined without a search: the states that reach t *)
(* are the least set that holds t and the table's predecessors of its own   *)
(* members.                                                                 *)
Reaching(t) ==
  LET ClosedUnder(S) == \A s \in LifecycleState, u \in S :
        (\E k \in 1..Len(mPossibleStateTransitions[u]) :
            mPossibleStateTransitions[u][k] = s) => s \in S
  IN {s \in LifecycleState :
        \A S \in SUBSET LifecycleState : t \in S /\ ClosedUnder(S) => s \in S}

(* The search finds a path exactly when the table has one: a dead branch    *)
(* does not hide another one, and the states it marked as visited are not   *)
(* needed any more (isValidTransition marks but never unmarks).             *)
FoundIffReachable == (StatePathOf(from, to) # <<>>) <=> (from \in Reaching(to))

(* On its way to TERMINATING an app is never brought to the screen: the     *)
(* order of the table's entries makes the search find the way that avoids   *)
(* ACTIVE.                                                                  *)
NotActivatedToTerminate ==
  [][to = "TERMINATING" => left'[1] # "ACTIVE"]_vars

=============================================================================
