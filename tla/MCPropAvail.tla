---------------------------- MODULE MCPropAvail ----------------------------
(* Instances of PropAvail for TLC.                                         *)
EXTENDS PropAvail, TLC

CONSTANTS c1, c2

\* Lists of changing length.
Changing == c1 :> {1, 2, 3} @@ c2 :> {2}

\* Members of 16 and 32 bits, and, as in lists of image formats, of other sizes.
Growing == c1 :> {2, 4} @@ c2 :> {4, 5}
=============================================================================
