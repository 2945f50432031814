----------------------------- MODULE MCTxAsync ------------------------------
(***************************************************************************)
(* Constants of the small instance TLC checks TxAsync on.                  *)
(***************************************************************************)
EXTENDS TxAsync

\* Longer than the FIFO, a single byte, and exactly the FIFO.
Lengths       == <<3, 1, 2>>
Everyone      == Ctx
TaskAndChain  == {"task", "tx"}
SomeCallbacks == {0, 1, 2}
=============================================================================
