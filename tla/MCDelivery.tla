------------------------------ MODULE MCDelivery ----------------------------
(***************************************************************************)
(* An instance of Delivery for TLC.                                        *)
(***************************************************************************)
EXTENDS Delivery

CONSTANTS l1, l2, a, b, n1, n2

OwnName == (l1 :> "x") @@ (l2 :> "y")
OneEach == (n1 :> a) @@ (n2 :> b)

\* A browser that both use, and a device of one whose token is rotated.
Machines == {<<"webpush", 1>>, <<"device", 1>>, <<"device", 2>>}
Users == [e \in Machines |-> IF e[1] = "webpush" THEN {a, b} ELSE {a}]

=============================================================================
