------------------------------ MODULE MCRxRing ------------------------------
(***************************************************************************)
(* Constants of the small instances TLC checks RxRing on.                  *)
(***************************************************************************)
EXTENDS RxRing

AllCalls    == AllOps
Snapshots   == {"get"}
Second      == {2}
None        == {}
=============================================================================
