--------------------------- MODULE MCReconfigure ----------------------------
(***************************************************************************)
(* Constants of the small instances TLC checks Reconfigure on.             *)
(***************************************************************************)
EXTENDS Reconfigure

\* 4 MHz: a usual rate, one whose divisor needs BRGH in high-speed mode, and
\* one that is out of reach.
SomeRates    == {<<4000000, 2400>>, <<4000000, 10>>, <<4000000, 4000000>>}
UsualRates   == {<<4000000, 2400>>, <<4000000, 9600>>}
SomeTimeouts == {0, 1, 3}
NoTimeout    == {0}
SomeLengths  == {1, 2}
AnyCall      == AllCallbackOps
StartsTx     == {"tx_start"}
None         == {}
=============================================================================
