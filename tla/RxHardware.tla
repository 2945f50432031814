----------------------------- MODULE RxHardware -----------------------------
(***************************************************************************)
(* The receive side of one dsPIC33CK UART, as the HAL sees it through      *)
(* UxRXREG and the bits URXBE, OERR, FERR and PERR.  None of this is code  *)
(* of the repository: it is the environment, described from how the HAL    *)
(* uses it (RXREG pops the FIFO, FERR and PERR belong to the byte at its   *)
(* head, OERR stops reception until software clears it).                   *)
(*                                                                         *)
(* A byte is the number of its arrival, so order, loss and duplication     *)
(* can be told apart; 0 is "no byte".                                      *)
(***************************************************************************)
EXTENDS Naturals, Sequences

CONSTANTS
    FifoDepth,       \* depth of the hardware receive FIFO
    MaxArrivals,     \* bound: how many bytes the line delivers in a behaviour
    Framing,         \* arrivals that carry a framing error
    Parity,          \* arrivals that carry a parity error
    ClearResetsFifo  \* does clearing OERR empty the FIFO (the classic family)

ASSUME FifoAssumption   == FifoDepth \in Nat \ {0}
ASSUME ArrivalAssumption == MaxArrivals \in Nat
ASSUME ErrorAssumption  == Framing \cup Parity \subseteq Nat \ {0}
ASSUME ClearAssumption  == ClearResetsFifo \in BOOLEAN

VARIABLES
    fifo,     \* the receive FIFO, oldest byte first
    oerr,     \* the overrun flag: nothing is received while it is set
    arrived   \* number of bytes the line has delivered so far

hwVars == <<fifo, oerr, arrived>>

Bytes == 1 .. MaxArrivals

HwTypeOK ==
    /\ fifo \in Seq(Bytes)
    /\ Len(fifo) <= FifoDepth
    /\ oerr \in BOOLEAN
    /\ arrived \in 0 .. MaxArrivals

HwInit ==
    /\ fifo = <<>>
    /\ oerr = FALSE
    /\ arrived = 0

-----------------------------------------------------------------------------
(* What the status bits read as.                                           *)

URXBE == fifo = <<>>
FERR  == ~URXBE /\ Head(fifo) \in Framing
PERR  == ~URXBE /\ Head(fifo) \in Parity

(* A character completes while there is room for it.                       *)
Accept ==
    /\ arrived < MaxArrivals
    /\ ~oerr
    /\ Len(fifo) < FifoDepth
    /\ arrived' = arrived + 1
    /\ fifo' = Append(fifo, arrived + 1)
    /\ UNCHANGED oerr

(* A character completes with the FIFO full, or with reception stopped by  *)
(* an earlier overrun: it is lost.                                         *)
Overrun ==
    /\ arrived < MaxArrivals
    /\ oerr \/ Len(fifo) = FifoDepth
    /\ arrived' = arrived + 1
    /\ oerr' = TRUE
    /\ UNCHANGED fifo

(* Reading UxRXREG returns Head(fifo) and advances the FIFO.               *)
ReadRXREG == fifo' = Tail(fifo)

(* Writing 0 to OERR.                                                      *)
ClearOERR ==
    /\ oerr' = FALSE
    /\ fifo' = IF ClearResetsFifo THEN <<>> ELSE fifo
=============================================================================
