---------------------------- MODULE Reconfigure -----------------------------
(***************************************************************************)
(* Changing the rate and the directions of an instance that is in use:     *)
(* nora_uart_set_baudrate(), nora_uart_tx_enable() and rx_enable() of the  *)
(* foreground task, against blocking writes, transfers in the background   *)
(* and an interrupt callback that calls the API between any two steps.     *)
(*                                                                         *)
(* A callback runs to its end before the task goes on, so a call it makes  *)
(* is one step.  TxAsync has the steps of the transmit interrupt.          *)
(***************************************************************************)
EXTENDS TxBlocking, Baud

CONSTANTS
    Rates,        \* pairs of uart_clk_hz and baudrate set_baudrate() is given
    TxLength,     \* length of the transfers in the background
    CallbackOps   \* what the callback calls

AllCallbackOps == {"tx_start", "rx_start", "abort", "tx_enable", "rx_enable"}

ASSUME RatesAssumption    == Rates \subseteq Hertz \X Hertz
ASSUME TransferAssumption == TxLength \in Nat \ {0}
ASSUME CallbackAssumption == CallbackOps \subseteq AllCallbackOps

VARIABLES
    URXEN,                \* MODE.URXEN
    high_speed,           \* MODE.BRGH, written by init() only
    BRG, BRGH,            \* the divisor registers
    uart_clk_hz_applied, baudrate_applied,
    tx_async_busy, tx_left, rx_async_busy,
    pc,                   \* where the task is in a call other than write()
    bit,                  \* the bit of MODE it sets or clears, and to what
    mode,                 \* MODE as it has read it
    rate                  \* the parameters of set_baudrate()

rateVars  == <<high_speed, BRG, BRGH, uart_clk_hz_applied, baudrate_applied>>
asyncVars == <<tx_async_busy, tx_left, rx_async_busy>>
taskVars  == <<pc, bit, mode, rate>>
vars      == <<txVars, URXEN, rateVars, asyncVars, taskVars>>

Labels == {"idle", "en_read", "en_write",
           "br_full", "br_busy", "br_low", "br_high"}
Bits   == {"UTXEN", "URXEN"}
NoBit  == <<"none", FALSE>>
NoMode == [b \in Bits |-> FALSE]
NoRate == <<1, 1>>

Init ==
    /\ TxInit
    /\ URXEN \in BOOLEAN
    /\ high_speed \in BOOLEAN
    /\ \E r \in Rates :
           /\ Divisible(r[1], r[2], high_speed)
           /\ BRG  = BrgLow(Brg(r[1], r[2], high_speed))
           /\ BRGH = BrgHigh(Brg(r[1], r[2], high_speed))
           /\ uart_clk_hz_applied = r[1]
           /\ baudrate_applied = r[2]
    /\ tx_async_busy = FALSE /\ tx_left = 0 /\ rx_async_busy = FALSE
    /\ pc = "idle" /\ bit = NoBit /\ mode = NoMode /\ rate = NoRate

Quiet == pc = "idle" /\ write_pc = "idle"

-----------------------------------------------------------------------------
(* Transfers in the background.                                            *)

(* Started by the callback, or by the task between two calls.  "Do not mix *)
(* a blocking write with an active async TX transfer" (nora_uart.h).       *)
TxStart ==
    /\ "tx_start" \in CallbackOps \/ Quiet
    /\ write_pc = "idle"
    /\ ~tx_async_busy
    /\ UTXEN
    /\ tx_async_busy' = TRUE
    /\ tx_left' = TxLength
    /\ UNCHANGED <<txVars, URXEN, rateVars, rx_async_busy, taskVars>>

RxStart ==
    /\ "rx_start" \in CallbackOps \/ Quiet
    /\ ~rx_async_busy
    /\ URXEN
    /\ rx_async_busy' = TRUE
    /\ UNCHANGED <<txVars, URXEN, rateVars, tx_async_busy, tx_left, taskVars>>

\* The TX interrupt fills the FIFO and ends the transfer with its last byte.
TxInterrupt ==
    LET room == TxDepth - level
        n    == IF tx_left < room THEN tx_left ELSE room
    IN  /\ tx_async_busy
        /\ n > 0
        /\ level' = level + n
        /\ tx_left' = tx_left - n
        /\ tx_async_busy' = (tx_left > n)
        /\ UNCHANGED <<timeout_ms, shifting, UTXEN, clock, writer, URXEN,
                       rateVars, rx_async_busy, taskVars>>

RxComplete ==
    /\ rx_async_busy
    /\ URXEN
    /\ rx_async_busy' = FALSE
    /\ UNCHANGED <<txVars, URXEN, rateVars, tx_async_busy, tx_left, taskVars>>

Abort ==
    /\ "abort" \in CallbackOps \/ Quiet
    /\ \/ tx_async_busy' = FALSE /\ tx_left' = 0 /\ UNCHANGED rx_async_busy
       \/ rx_async_busy' = FALSE /\ UNCHANGED <<tx_async_busy, tx_left>>
    /\ UNCHANGED <<txVars, URXEN, rateVars, taskVars>>

-----------------------------------------------------------------------------
(* nora_uart_tx_enable() and nora_uart_rx_enable(): a busy test, then a    *)
(* read, a change and a write of MODE.                                     *)

Busy(b) == IF b = "UTXEN" THEN tx_async_busy ELSE rx_async_busy

\* What the FIFO holds when the transmitter is switched off may be lost.
SetMode(tx, rx) ==
    /\ UTXEN' = tx
    /\ URXEN' = rx
    /\ \/ level' = level
       \/ UTXEN /\ ~tx /\ level' = 0

CallEnable ==
    /\ Quiet
    /\ \E b \in Bits, on \in BOOLEAN :
           /\ on \/ ~Busy(b)
           /\ bit' = <<b, on>>
    /\ pc' = "en_read"
    /\ UNCHANGED <<txVars, URXEN, rateVars, asyncVars, mode, rate>>

ReadMode ==
    /\ pc = "en_read"
    /\ mode' = [b \in Bits |-> IF b = "UTXEN" THEN UTXEN ELSE URXEN]
    /\ pc' = "en_write"
    /\ UNCHANGED <<txVars, URXEN, rateVars, asyncVars, bit, rate>>

WriteMode ==
    /\ pc = "en_write"
    /\ LET m == [mode EXCEPT ![bit[1]] = bit[2]]
       IN  SetMode(m["UTXEN"], m["URXEN"])
    /\ pc' = "idle" /\ bit' = NoBit /\ mode' = NoMode
    /\ UNCHANGED <<timeout_ms, shifting, clock, writer, rateVars, asyncVars, rate>>

\* The same call, made by the callback.
CallbackEnable ==
    /\ \E on \in BOOLEAN :
           \/ /\ "tx_enable" \in CallbackOps
              /\ on \/ ~tx_async_busy
              /\ SetMode(on, URXEN)
           \/ /\ "rx_enable" \in CallbackOps
              /\ on \/ ~rx_async_busy
              /\ SetMode(UTXEN, on)
    /\ UNCHANGED <<timeout_ms, shifting, clock, writer, rateVars, asyncVars, taskVars>>

-----------------------------------------------------------------------------
(* nora_uart_set_baudrate().                                               *)

Refuse == pc' = "idle" /\ rate' = NoRate

CallSetBaudrate ==
    /\ Quiet
    /\ TRMT
    /\ rate' \in Rates
    /\ pc' = "br_full"
    /\ UNCHANGED <<txVars, URXEN, rateVars, asyncVars, bit, mode>>

BaudFull ==
    /\ pc = "br_full"
    /\ IF UTXBF THEN Refuse ELSE pc' = "br_busy" /\ UNCHANGED rate
    /\ UNCHANGED <<txVars, URXEN, rateVars, asyncVars, bit, mode>>

BaudBusy ==
    /\ pc = "br_busy"
    /\ IF tx_async_busy \/ rx_async_busy \/ ~Divisible(rate[1], rate[2], high_speed)
       THEN Refuse
       ELSE pc' = "br_low" /\ UNCHANGED rate
    /\ UNCHANGED <<txVars, URXEN, rateVars, asyncVars, bit, mode>>

BaudLow ==
    /\ pc = "br_low"
    /\ BRG' = BrgLow(Brg(rate[1], rate[2], high_speed))
    /\ pc' = "br_high"
    /\ UNCHANGED <<txVars, URXEN, high_speed, BRGH, uart_clk_hz_applied,
                   baudrate_applied, asyncVars, bit, mode, rate>>

\* MUTANT: the upper four bits stay those of the rate before.
BaudHigh_NotWritten ==
    /\ pc = "br_high"
    /\ uart_clk_hz_applied' = rate[1]
    /\ baudrate_applied' = rate[2]
    /\ Refuse
    /\ UNCHANGED <<txVars, URXEN, high_speed, BRG, BRGH, asyncVars, bit, mode>>

\* The applied rate is stored with the second register: only the task reads it.
BaudHigh ==
    /\ pc = "br_high"
    /\ BRGH' = BrgHigh(Brg(rate[1], rate[2], high_speed))
    /\ uart_clk_hz_applied' = rate[1]
    /\ baudrate_applied' = rate[2]
    /\ pc' = "idle" /\ rate' = NoRate
    /\ UNCHANGED <<txVars, URXEN, high_speed, BRG, asyncVars, bit, mode>>

-----------------------------------------------------------------------------
other == <<URXEN, rateVars, asyncVars, taskVars>>

Hardware == (Load \/ Finish) /\ UNCHANGED other

Time == Tick /\ UNCHANGED other

Write == Quiet /\ ~tx_async_busy /\ CallWrite /\ UNCHANGED other

Writing == WriteStep /\ UNCHANGED other

Enabling == ReadMode \/ WriteMode

Rating == BaudFull \/ BaudBusy \/ BaudLow \/ BaudHigh

Background == TxInterrupt \/ RxComplete

Next ==
    \/ Hardware \/ Time \/ Background
    \/ TxStart \/ RxStart \/ Abort \/ CallbackEnable
    \/ Write \/ Writing
    \/ CallEnable \/ Enabling
    \/ CallSetBaudrate \/ Rating

Spec == Init /\ [][Next]_vars

-----------------------------------------------------------------------------
(* What makes it correct.                                                  *)

TypeOK ==
    /\ TxTypeOK
    /\ URXEN \in BOOLEAN
    /\ high_speed \in BOOLEAN
    /\ BRG \in 0 .. 2 ^ 16 - 1
    /\ BRGH \in 0 .. 2 ^ 4 - 1
    /\ <<uart_clk_hz_applied, baudrate_applied>> \in Rates
    /\ tx_async_busy \in BOOLEAN
    /\ tx_left \in 0 .. TxLength
    /\ rx_async_busy \in BOOLEAN
    /\ pc \in Labels
    /\ bit \in (Bits \X BOOLEAN) \cup {NoBit}
    /\ mode \in [Bits -> BOOLEAN]
    /\ rate \in Rates \cup {NoRate}

(* Between two calls the hardware divides by the divisor nearest to the    *)
(* rate get_baudrate() reports, in the mode the hardware is in, whatever   *)
(* divisor was in the two registers before.                                *)
RateNearest ==
    pc # "br_high" =>
        Nearest(Divisor(BRG, BRGH), uart_clk_hz_applied, baudrate_applied, high_speed)

-----------------------------------------------------------------------------
(* The hardware and the clock go on, and a write that has started gets to  *)
(* run.  Nothing is assumed of the other calls or of the callback.         *)
Fairness ==
    /\ WF_vars(Load /\ UNCHANGED other)
    /\ WF_vars(Finish /\ UNCHANGED other)
    /\ WF_vars(Time)
    /\ WF_vars(Writing)

FairSpec == Spec /\ Fairness

(* A blocking write returns.  Only one without a timeout, on a transmitter *)
(* that is switched off, may wait for ever.                                *)
WriteReturns ==
    write_pc # "idle" ~> write_pc = "idle" \/ (timeout_ms = 0 /\ ~UTXEN)

-----------------------------------------------------------------------------
(* What the documentation says and the code does not do.                   *)

(* The divisor is never changed while a character is in the shifter or in  *)
(* the FIFO (uart.c: "never reconfigure the divisor while the shifter      *)
(* still holds a character or the write buffer is loaded").  The code asks *)
(* whether the FIFO is full.                                               *)
NotLoaded ==
    [][<<BRG, BRGH>>' # <<BRG, BRGH>> => level = 0 /\ ~shifting]_vars

(* An active transfer keeps its direction enabled (nora_uart.h: "so a      *)
(* transfer is never stranded by disabling its line mid-flight").  Busy is *)
(* tested before MODE is written, and a callback may start one in between. *)
NeverStranded ==
    (tx_async_busy => UTXEN) /\ (rx_async_busy => URXEN)
=============================================================================
