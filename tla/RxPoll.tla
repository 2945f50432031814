------------------------------- MODULE RxPoll -------------------------------
(***************************************************************************)
(* The polled receive path of nora_uart_dspic33ck.c, for an instance whose *)
(* RX ISR ring is not configured: rx_ready(), read_byte() (and read(),     *)
(* which repeats it), rx_flush(), rx_status_get() and rx_status_clear().   *)
(*                                                                         *)
(* One foreground caller works against the line.  Every status bit is read *)
(* in a step of its own, so bytes arrive and overruns latch between two    *)
(* reads.  A test and the write or RXREG read it leads to are one step:    *)
(* the line can only append to a FIFO and can only set OERR, which changes *)
(* neither the outcome of the test nor the byte at the head.               *)
(***************************************************************************)
EXTENDS RxHardware

CONSTANT Callers  \* how the foreground uses the API

\* "gated": read_byte() only when rx_ready() says true, as the README shows.
\* "direct": read_byte() at any time, as nora_uart_read() does.
AllCallers == {"gated", "direct", "flush", "clear"}

ASSUME CallersAssumption == Callers \subseteq AllCallers

VARIABLES
    rx_overrun_recovered,  \* the polled counters of the instance
    rx_byte_polled,
    rx_framing_polled,
    rx_parity_polled,
    pc,                    \* where the foreground is
    lastRead,              \* history: the byte handed out last
    accepted,              \* history: bytes that entered the FIFO
    dropped,               \* history: bytes flushed, emptied out with OERR, or
                           \* counted before an rx_status_clear()
    asked                  \* history: rx_ready() said true before this read

counters == <<rx_overrun_recovered, rx_byte_polled, rx_framing_polled,
              rx_parity_polled>>
account == <<lastRead, accepted, dropped>>
history == <<account, asked>>
vars == <<hwVars, counters, pc, history>>

Labels == {"idle", "rdy_be", "rdy_oerr", "rd_oerr", "rd_ferr", "rd_perr",
           "rd_data", "fl_fifo", "fl_oerr"}

Init ==
    /\ HwInit
    /\ rx_overrun_recovered = 0
    /\ rx_byte_polled = 0
    /\ rx_framing_polled = 0
    /\ rx_parity_polled = 0
    /\ pc = "idle"
    /\ lastRead = 0
    /\ accepted = 0
    /\ dropped = 0
    /\ asked = FALSE

-----------------------------------------------------------------------------
(* The line.                                                               *)

Receive ==
    /\ Accept
    /\ accepted' = accepted + 1
    /\ UNCHANGED <<counters, pc, lastRead, dropped, asked>>

Lose == Overrun /\ UNCHANGED <<counters, pc, history>>

-----------------------------------------------------------------------------
(* nora_uart_rx_ready().                                                   *)

Call(by, l) ==
    /\ by \in Callers
    /\ pc = "idle"
    /\ pc' = l
    /\ UNCHANGED <<hwVars, counters, history>>

CallReady == Call("gated", "rdy_be")

\* With a byte in the FIFO the answer is true and the caller reads it.
ReadyTest ==
    /\ pc = "rdy_be"
    /\ pc' = IF URXBE THEN "rdy_oerr" ELSE "rd_oerr"
    /\ asked' = ~URXBE
    /\ UNCHANGED <<hwVars, counters, account>>

EndOverrun ==
    /\ ClearOERR
    /\ dropped' = dropped + (Len(fifo) - Len(fifo'))

Recover ==
    /\ EndOverrun
    /\ rx_overrun_recovered' = rx_overrun_recovered + 1

\* MUTANT: an empty FIFO is reported and a latched overrun left standing.
ReadyOverrun_Ignored ==
    /\ pc = "rdy_oerr"
    /\ pc' = "idle"
    /\ UNCHANGED <<hwVars, counters, history>>

\* MUTANT: having ended an overrun, the answer is true.
ReadyOverrun_SaysReady ==
    /\ pc = "rdy_oerr"
    /\ IF oerr THEN Recover
               ELSE UNCHANGED <<oerr, fifo, dropped, rx_overrun_recovered>>
    /\ pc' = IF oerr THEN "rd_oerr" ELSE "idle"
    /\ asked' = oerr
    /\ UNCHANGED <<arrived, rx_byte_polled, rx_framing_polled,
                   rx_parity_polled, lastRead, accepted>>

ReadyOverrun ==
    /\ pc = "rdy_oerr"
    /\ IF oerr THEN Recover
               ELSE UNCHANGED <<oerr, fifo, dropped, rx_overrun_recovered>>
    /\ pc' = "idle"
    /\ UNCHANGED <<arrived, rx_byte_polled, rx_framing_polled,
                   rx_parity_polled, lastRead, accepted, asked>>

-----------------------------------------------------------------------------
(* nora_uart_read_byte(): the first condition found is reported, and ended.*)

CallRead ==
    /\ "direct" \in Callers
    /\ pc = "idle"
    /\ pc' = "rd_oerr"
    /\ asked' = FALSE
    /\ UNCHANGED <<hwVars, counters, account>>

\* MUTANT: the overrun is cleared without being counted.
ReadOverrun_Uncounted ==
    /\ pc = "rd_oerr"
    /\ IF oerr THEN EndOverrun /\ pc' = "idle"
               ELSE UNCHANGED <<oerr, fifo, dropped>> /\ pc' = "rd_ferr"
    /\ UNCHANGED <<arrived, counters, lastRead, accepted, asked>>

ReadOverrun ==
    /\ pc = "rd_oerr"
    /\ IF oerr THEN Recover /\ pc' = "idle"
               ELSE /\ UNCHANGED <<oerr, fifo, dropped, rx_overrun_recovered>>
                    /\ pc' = "rd_ferr"
    /\ UNCHANGED <<arrived, rx_byte_polled, rx_framing_polled,
                   rx_parity_polled, lastRead, accepted, asked>>

\* MUTANT: the error is reported and the byte left at the head.
ReadFraming_KeepsByte ==
    /\ pc = "rd_ferr"
    /\ pc' = IF FERR THEN "idle" ELSE "rd_perr"
    /\ UNCHANGED <<hwVars, counters, history>>

\* MUTANT: the error is counted and the byte left at the head.
ReadFraming_CountsOnly ==
    /\ pc = "rd_ferr"
    /\ rx_framing_polled' = rx_framing_polled + (IF FERR THEN 1 ELSE 0)
    /\ pc' = IF FERR THEN "idle" ELSE "rd_perr"
    /\ UNCHANGED <<hwVars, rx_overrun_recovered, rx_byte_polled,
                   rx_parity_polled, history>>

ReadFraming ==
    /\ pc = "rd_ferr"
    /\ IF FERR
       THEN /\ ReadRXREG
            /\ rx_framing_polled' = rx_framing_polled + 1
            /\ pc' = "idle"
       ELSE UNCHANGED <<fifo, rx_framing_polled>> /\ pc' = "rd_perr"
    /\ UNCHANGED <<oerr, arrived, rx_overrun_recovered, rx_byte_polled,
                   rx_parity_polled, history>>

ReadParity ==
    /\ pc = "rd_perr"
    /\ IF PERR
       THEN /\ ReadRXREG
            /\ rx_parity_polled' = rx_parity_polled + 1
            /\ pc' = "idle"
       ELSE UNCHANGED <<fifo, rx_parity_polled>> /\ pc' = "rd_data"
    /\ UNCHANGED <<oerr, arrived, rx_overrun_recovered, rx_byte_polled,
                   rx_framing_polled, history>>

ReadData ==
    /\ pc = "rd_data"
    /\ IF URXBE
       THEN UNCHANGED <<fifo, rx_byte_polled, lastRead>>
       ELSE /\ ReadRXREG
            /\ lastRead' = Head(fifo)
            /\ rx_byte_polled' = rx_byte_polled + 1
    /\ pc' = "idle"
    /\ UNCHANGED <<oerr, arrived, rx_overrun_recovered, rx_framing_polled,
                   rx_parity_polled, accepted, dropped, asked>>

-----------------------------------------------------------------------------
(* nora_uart_rx_flush(), nora_uart_rx_status_get() and _clear().           *)

\* The byte and error counts nora_uart_rx_status_get() reports.
RxStatusBytes == rx_byte_polled + rx_framing_polled + rx_parity_polled

CallFlush == Call("flush", "fl_fifo")

FlushFifo ==
    /\ pc = "fl_fifo"
    /\ IF URXBE
       THEN pc' = "fl_oerr" /\ UNCHANGED <<fifo, dropped>>
       ELSE ReadRXREG /\ dropped' = dropped + 1 /\ UNCHANGED pc
    /\ UNCHANGED <<oerr, arrived, counters, lastRead, accepted, asked>>

\* The overrun a flush ends is not counted as a recovery.
FlushOverrun ==
    /\ pc = "fl_oerr"
    /\ IF oerr THEN EndOverrun ELSE UNCHANGED <<oerr, fifo, dropped>>
    /\ pc' = "idle"
    /\ UNCHANGED <<arrived, counters, lastRead, accepted, asked>>

StatusClear ==
    /\ "clear" \in Callers
    /\ pc = "idle"
    /\ rx_overrun_recovered' = 0
    /\ rx_byte_polled' = 0
    /\ rx_framing_polled' = 0
    /\ rx_parity_polled' = 0
    /\ dropped' = dropped + RxStatusBytes
    /\ UNCHANGED <<hwVars, pc, lastRead, accepted, asked>>

-----------------------------------------------------------------------------
Line == Receive \/ Lose

Step ==
    \/ ReadyTest \/ ReadyOverrun
    \/ ReadOverrun \/ ReadFraming \/ ReadParity \/ ReadData
    \/ FlushFifo \/ FlushOverrun

Next == Line \/ Step \/ CallReady \/ CallRead \/ CallFlush \/ StatusClear

Spec == Init /\ [][Next]_vars

-----------------------------------------------------------------------------
(* What makes it correct.                                                  *)

TypeOK ==
    /\ HwTypeOK
    /\ rx_overrun_recovered \in 0 .. MaxArrivals
    /\ rx_byte_polled \in 0 .. MaxArrivals
    /\ rx_framing_polled \in 0 .. MaxArrivals
    /\ rx_parity_polled \in 0 .. MaxArrivals
    /\ pc \in Labels
    /\ lastRead \in 0 .. MaxArrivals
    /\ accepted \in 0 .. MaxArrivals
    /\ dropped \in 0 .. MaxArrivals
    /\ asked \in BOOLEAN

(* Of all bytes the FIFO accepted, those no longer in it were handed out   *)
(* or discarded with an error, and the status a caller reads counts each   *)
(* once, unless they were flushed, emptied out with an overrun or cleared  *)
(* from the status (README: "the bytes handed to the reader, framing and   *)
(* parity errors discarded").                                              *)
StatusAccountsForBytes == RxStatusBytes + dropped + Len(fifo) = accepted

(* Outside a flush no byte leaves the FIFO uncounted, also on a part that  *)
(* empties it when OERR is cleared: that loss shows as a recovery.         *)
LossCounted ==
    [][Len(fifo') < Len(fifo) /\ pc \notin {"fl_fifo", "fl_oerr"}
         => counters' # counters]_vars

(* No caller is handed a byte that arrived with an error (uart.c: "a       *)
(* framing or parity error means that byte was never a valid character").  *)
(* A caller that reads without asking may be: FERR is tested while the     *)
(* FIFO is still empty, and the byte that arrives next is taken.           *)
OnlyCleanBytes == lastRead \notin Framing \cup Parity

(* A read for which rx_ready() said true first never hands out a byte that *)
(* arrived with an error, whatever arrives and overruns meanwhile.         *)
CleanWhenAsked ==
    [][asked /\ lastRead' # lastRead => lastRead' \notin Framing \cup Parity]_vars

-----------------------------------------------------------------------------
(* The caller polls again and again and a call that has started returns.   *)
Fairness == WF_vars(Step) /\ SF_vars(CallReady)

FairSpec == Spec /\ Fairness

(* A latched overrun never ends reception for good (uart.c: "ending a      *)
(* latched overrun is this function's job").                               *)
ReceptionResumes == oerr ~> ~oerr

(* No byte stays at the head of the FIFO for ever, with or without an      *)
(* error ("every error exit here must also end the condition it reports"). *)
ByteLeaves == \A n \in Bytes : (~URXBE /\ Head(fifo) = n) ~> (URXBE \/ Head(fifo) # n)

=============================================================================
