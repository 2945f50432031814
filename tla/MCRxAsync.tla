----------------------------- MODULE MCRxAsync ------------------------------
(***************************************************************************)
(* Constants of the small instances TLC checks RxAsync on.                 *)
(***************************************************************************)
EXTENDS RxAsync

Reading     == {"read"}
Polling     == {"ready"}
Two         == {2}
One         == {1}
AnyCallback == AllCallbackOps
InHandler   == {"isr"}
InEither    == Ctx
None        == {}
=============================================================================
