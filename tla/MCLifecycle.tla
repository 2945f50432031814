---------------------------- MODULE MCLifecycle -----------------------------
(***************************************************************************)
(* Constants of the small instances TLC checks Lifecycle on.               *)
(***************************************************************************)
EXTENDS Lifecycle

TwoRates == {9600, 115200}

Build(ring, rx, tx) == [ring |-> ring, rx_priority |-> rx, tx_priority |-> tx]

\* Complete, and each way in which init() can fail half-way.
Builds == {Build(TRUE, TRUE, TRUE), Build(FALSE, TRUE, TRUE),
           Build(TRUE, FALSE, TRUE), Build(TRUE, TRUE, FALSE)}
=============================================================================
