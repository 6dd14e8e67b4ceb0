----------------------------- MODULE MCBoarding -----------------------------
(* An FB train between platforms A and B and a regional train between B and C.  A
   traveller goes from A to C and changes trains at B; another goes from B to A. *)
EXTENDS Boarding, TLC

CONSTANTS A, B, C, fb, reg, v1, v2

MCRoute == (fb :> <<A, B>>) @@ (reg :> <<B, C>>)
MCEntries == [f \in FB |-> 2]
MCHome == (v1 :> <<A, C>>) @@ (v2 :> <<B, A>>)

Hop(t, p, q) == [train |-> t, from |-> p, to |-> q]
MCOffers == {<<Hop(fb, A, B), Hop(reg, B, C)>>, <<Hop(reg, C, B), Hop(fb, B, A)>>,
             <<Hop(reg, B, C)>>, <<Hop(fb, B, A)>>, <<Hop(fb, A, B)>>}
=============================================================================
