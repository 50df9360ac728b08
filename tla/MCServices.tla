----------------------------- MODULE MCServices -----------------------------
(* Values for the constants of Services that a configuration cannot write.  *)
EXTENDS Services

TheApp == [a1 |-> "a", b1 |-> "b"]

TenOrTwo == <<<<10, 0, 0, 0>>, <<2, 1, 0, 0>>>>

(* One application is launched, destroyed, suspended and, by another client,*)
(* deactivated, while a second one is destroyed.                            *)
CalledFor == <<"a", "a", "a", "a", "b">>
CalledTo  == <<"launch", "destroy", "suspend", "deactivate", "destroy">>

(* Two devices of one partition, which boot-up, a client and a job mount.   *)
OneEach == [d |-> {"d1"}, e |-> {"e1"}]
=============================================================================
