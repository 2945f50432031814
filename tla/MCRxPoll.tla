------------------------------ MODULE MCRxPoll ------------------------------
(***************************************************************************)
(* Constants of the small instances TLC checks RxPoll on.                  *)
(***************************************************************************)
EXTENDS RxPoll

DirectOnly == {"direct"}
Second     == {2}
Third      == {3}
=============================================================================
