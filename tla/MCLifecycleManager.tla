------------------------- MODULE MCLifecycleManager -------------------------
(* Properties of LifecycleManager and its instances for TLC.               *)
EXTENDS LifecycleManagerProps, TLC

LOCAL P == INSTANCE StatePath

(* The path search of the code, as the value of PathOf.                    *)
SearchedPaths == P!StatePathTable

ClientSymmetry == Permutations(Client)
=============================================================================
