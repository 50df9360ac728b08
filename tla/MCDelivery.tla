----------------------------- MODULE MCDelivery -----------------------------
(* Values for the constants of Delivery that a configuration cannot write.  *)
EXTENDS Delivery

TheApp == [a1 |-> "a"]

(* One client listens and stops again, the other listens or calls a method. *)
AskedFor == <<{{"listen"}, {"listen", "stop"}}, {{"listen"}, {"call"}}>>

SameClient == <<"x", "x">>

(* Four calls over JSON-RPC, one of them for another application, on a pool *)
(* of three workers: they can exhaust it.                                   *)
CalledFor == <<"a", "a", "a", "b">>
CalledTo  == <<"launch", "destroy", "suspend", "destroy">>
=============================================================================
