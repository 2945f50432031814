----------------------------- MODULE TxBlocking -----------------------------
(***************************************************************************)
(* The blocking transmit path of nora_uart_dspic33ck.c, nora_uart_write()  *)
(* and nora_uart_write_byte(), with its per-byte timeout, and the transmit *)
(* side of the hardware it polls: a FIFO and a shifter.                    *)
(*                                                                         *)
(* Time is what get_ms() returns, a counter that wraps (2^32 in the code,  *)
(* ClockPeriod here).  It advances between any two steps of the caller.    *)
(***************************************************************************)
EXTENDS Integers

CONSTANTS
    TxDepth,      \* depth of the hardware transmit FIFO
    ClockPeriod,  \* the clock returns to 0 after ClockPeriod - 1
    PollWithin,   \* a waiting caller looks at the clock again within that time
    Timeouts,     \* timeout_ms; 0 stands for no timeout, or no get_ms
    Lengths       \* what write() is called with; write_byte() is length 1

ASSUME DepthAssumption  == TxDepth \in Nat \ {0}
ASSUME ClockAssumption  == ClockPeriod \in Nat \ {0} /\ PollWithin \in Nat \ {0}
ASSUME TimeoutAssumption == Timeouts \subseteq Nat
ASSUME LengthAssumption == Lengths \subseteq Nat \ {0}

(* The timeout and the time between two looks fit in one turn of the       *)
(* clock: with 32 bits of milliseconds, 49 days.                           *)
ASSUME PeriodAssumption == \A t \in Timeouts : t + PollWithin <= ClockPeriod

VARIABLES
    timeout_ms,  \* fixed by init()
    level,       \* characters in the transmit FIFO
    shifting,    \* a character is in the shifter
    UTXEN,       \* MODE.UTXEN
    now,         \* what get_ms() returns
    write_pc,    \* where write() is
    rest,        \* len - i: bytes still to be written
    start_ms,    \* write_byte()'s local
    waited,      \* history: the time since start_ms was taken
    unpolled     \* history: the time since the clock was last looked at

txHw   == <<level, shifting>>
clock  == <<now, waited, unpolled>>
writer == <<write_pc, rest, start_ms>>
txVars == <<timeout_ms, txHw, UTXEN, clock, writer>>

\* No call, about to take the start time, testing UTXBF, looking at the clock.
WriteLabels == {"idle", "start", "full", "clock"}

TxInit ==
    /\ timeout_ms \in Timeouts
    /\ level = 0
    /\ shifting = FALSE
    /\ UTXEN \in BOOLEAN
    /\ now \in 0 .. ClockPeriod - 1
    /\ write_pc = "idle"
    /\ rest = 0
    /\ start_ms = 0
    /\ waited = 0
    /\ unpolled = 0

-----------------------------------------------------------------------------
(* The hardware and the clock.                                             *)

UTXBF == level = TxDepth
TRMT  == ~shifting

Load ==
    /\ UTXEN /\ level > 0 /\ ~shifting
    /\ level' = level - 1
    /\ shifting' = TRUE
    /\ UNCHANGED <<timeout_ms, UTXEN, clock, writer>>

Finish ==
    /\ shifting
    /\ shifting' = FALSE
    /\ UNCHANGED <<timeout_ms, level, UTXEN, clock, writer>>

Waiting == write_pc \in {"full", "clock"} /\ timeout_ms # 0

\* Only a caller that waits needs the time since it began.
Tick ==
    /\ now' = (now + 1) % ClockPeriod
    /\ IF Waiting
       THEN /\ unpolled < PollWithin
            /\ waited' = waited + 1
            /\ unpolled' = unpolled + 1
       ELSE UNCHANGED <<waited, unpolled>>
    /\ UNCHANGED <<timeout_ms, txHw, UTXEN, writer>>

-----------------------------------------------------------------------------
(* nora_uart_write() and nora_uart_write_byte().                           *)

CallWrite ==
    /\ write_pc = "idle"
    /\ write_pc' = "start"
    /\ rest' \in Lengths
    /\ UNCHANGED <<timeout_ms, txHw, UTXEN, clock, start_ms>>

\* uart_timeout_start_ms()
StartClock ==
    /\ write_pc = "start"
    /\ write_pc' = "full"
    /\ start_ms' = IF timeout_ms = 0 THEN 0 ELSE now
    /\ waited' = 0
    /\ unpolled' = 0
    /\ UNCHANGED <<timeout_ms, txHw, UTXEN, now, rest>>

\* write_byte() returns, and its local is gone.
EndWait == start_ms' = 0 /\ waited' = 0 /\ unpolled' = 0

\* There is room: the byte is written, and the next one begins.
WriteByte ==
    /\ write_pc = "full"
    /\ ~UTXBF
    /\ level' = level + 1
    /\ rest' = rest - 1
    /\ write_pc' = IF rest = 1 THEN "idle" ELSE "start"
    /\ EndWait
    /\ UNCHANGED <<timeout_ms, shifting, UTXEN, now>>

\* There is none.  Without a timeout the test is all the loop does.
TestFull ==
    /\ write_pc = "full"
    /\ UTXBF
    /\ timeout_ms # 0
    /\ write_pc' = "clock"
    /\ UNCHANGED <<timeout_ms, txHw, UTXEN, clock, rest, start_ms>>

\* MUTANT: compares with a deadline, which may have wrapped.
Expired_Deadline == now >= (start_ms + timeout_ms) % ClockPeriod

\* MUTANT: the difference is taken as a signed one.
Expired_Signed == now - start_ms >= timeout_ms

\* uart_timeout_expired()
Expired == (now - start_ms) % ClockPeriod >= timeout_ms

\* MUTANT: having given up, it writes the byte all the same.
CheckClock_WritesAnyway ==
    /\ write_pc = "clock"
    /\ IF Expired
       THEN write_pc' = "idle" /\ rest' = 0 /\ level' = level + 1 /\ EndWait
       ELSE /\ write_pc' = "full" /\ unpolled' = 0
            /\ UNCHANGED <<level, rest, waited, start_ms>>
    /\ UNCHANGED <<timeout_ms, shifting, UTXEN, now>>

\* MUTANT: the wait begins anew with every look at the clock.
CheckClock_Restarts ==
    /\ write_pc = "clock"
    /\ write_pc' = IF Expired THEN "idle" ELSE "full"
    /\ rest' = IF Expired THEN 0 ELSE rest
    /\ start_ms' = now
    /\ unpolled' = 0
    /\ waited' = 0
    /\ UNCHANGED <<timeout_ms, txHw, UTXEN, now>>

\* ERR_TIMEOUT ends write() too, which returns what it has written.
CheckClock ==
    /\ write_pc = "clock"
    /\ IF Expired
       THEN write_pc' = "idle" /\ rest' = 0 /\ EndWait
       ELSE write_pc' = "full" /\ unpolled' = 0 /\ UNCHANGED <<rest, waited, start_ms>>
    /\ UNCHANGED <<timeout_ms, txHw, UTXEN, now>>

WriteStep == StartClock \/ WriteByte \/ TestFull \/ CheckClock

-----------------------------------------------------------------------------
(* What makes it correct.                                                  *)

TxTypeOK ==
    /\ timeout_ms \in Timeouts
    /\ level \in 0 .. TxDepth
    /\ shifting \in BOOLEAN
    /\ UTXEN \in BOOLEAN
    /\ now \in 0 .. ClockPeriod - 1
    /\ write_pc \in WriteLabels
    /\ rest \in Nat
    /\ start_ms \in 0 .. ClockPeriod - 1
    /\ waited \in 0 .. ClockPeriod
    /\ unpolled \in 0 .. PollWithin

(* A wait is never cut short: ERR_TIMEOUT comes only after timeout_ms have *)
(* passed, wherever in its turn the clock was when the wait began.         *)
TimeoutHonest ==
    [][write_pc = "clock" /\ write_pc' = "idle" => waited >= timeout_ms]_txVars

(* Nor is it drawn out: a caller that still waits has waited no longer     *)
(* than the timeout and the time between two of its looks at the clock.    *)
TimeoutPrompt == Waiting => waited < timeout_ms + PollWithin

(* What the 32-bit difference is worth: the time really waited.            *)
ElapsedInv ==
    Waiting => /\ (now - start_ms) % ClockPeriod = waited
               /\ waited - unpolled < timeout_ms
               /\ waited < ClockPeriod
               /\ unpolled <= waited
=============================================================================
