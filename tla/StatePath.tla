----------------------------- MODULE StatePath -----------------------------
(* StateHandler::isValidTransition and getStatePath: the depth-first search *)
(* that turns a target state into the list of states to go through.         *)
EXTENDS LifecycleStates

(* The loop of isValidTransition over the predecessors `preds` of a state,  *)
(* walking backwards from the target to `start`.  `seen` is pathSequence,   *)
(* the states already visited in the whole search, kept when a branch       *)
(* fails; the result holds foundPath (empty when the search failed).        *)
Search[start \in LifecycleState, preds \in Seq(LifecycleState), seen \in SUBSET LifecycleState] ==
  IF preds = <<>> THEN [path |-> <<>>, seen |-> seen]
  ELSE LET p == Head(preds) IN
    IF p \in seen THEN Search[start, Tail(preds), seen]
    ELSE IF p = start THEN [path |-> <<p>>, seen |-> seen]
    ELSE LET sub == Search[start, mPossibleStateTransitions[p], seen \cup {p}] IN
      IF sub.path # <<>> THEN [sub EXCEPT !.path = Append(@, p)]
      ELSE Search[start, Tail(preds), sub.seen]

(* Slip: only the first predecessor is tried.                               *)
FirstBranchOnly(start, target) ==
  LET preds == mPossibleStateTransitions[target] IN
  Search[start, IF preds = <<>> THEN <<>> ELSE <<Head(preds)>>, {target}].path

(* isValidTransition: the states from `start` up to, but without, `target`. *)
FoundPath(start, target) ==
  Search[start, mPossibleStateTransitions[target], {target}].path

(* getStatePath when no transition is pending.  <<>> stands for its failure *)
(* ("Invalid launch request in current state"); the target is pushed at the *)
(* end, and UNLOADED after TERMINATING.                                     *)
StatePathOf(start, target) ==
  IF start # target /\ FoundPath(start, target) = <<>> THEN <<>>
  ELSE (IF start = target THEN <<target>> ELSE Append(FoundPath(start, target), target))
       \o (IF target = "TERMINATING" THEN <<"UNLOADED">> ELSE <<>>)

StatePathTable ==
  [s \in LifecycleState |-> [t \in LifecycleState |-> StatePathOf(s, t)]]
=============================================================================
