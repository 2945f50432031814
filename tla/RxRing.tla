------------------------------- MODULE RxRing -------------------------------
(***************************************************************************)
(* The interrupt-driven receive backend of one UART instance:              *)
(* nora_uart_dspic33ck_rx_isr_ring.c, from the moment nora_uart_init() has *)
(* configured the ring and enabled the RX interrupt, with no asynchronous  *)
(* transfer active (async_rx_feed() returns false, as in the weak          *)
(* definition) and no callback registered.                                 *)
(*                                                                         *)
(* Three actors share the FIFO, the ring and the counters.  The hardware   *)
(* receives at any time.  The RX interrupt handler starts whenever its     *)
(* flag and its enable bit are both set, between any two steps of the      *)
(* foreground.  The foreground task takes a step only while the handler is *)
(* not running.                                                            *)
(***************************************************************************)
EXTENDS RxHardware

CONSTANTS
    RingSize,   \* config->buffer_size
    Ops,        \* the entry points the foreground calls
    IeLoss      \* may the enable bit be lost to a stale write-back

U16 == 2 ^ 16  \* the indices and buffer_size are uint16_t

AllOps == {"ready", "read", "service", "flush", "get", "clear",
           "enable", "disable"}

ASSUME RingAssumption == RingSize \in 2 .. U16 - 1
ASSUME OpsAssumption  == Ops \subseteq AllOps
ASSUME LossAssumption == IeLoss \in BOOLEAN

VARIABLES
    rx_ring,         \* g_rx_ring[inst], the caller's buffer
    rx_read_idx,     \* g_rx_read_idx[inst]
    rx_write_idx,    \* g_rx_write_idx[inst]
    rx_status,       \* g_rx_status[inst]
    rxif,            \* the RX interrupt flag, latched by an arrival
    rxie,            \* the RX interrupt enable bit
    pc,              \* where each context is
    held,            \* the byte a context took from RXREG and has not pushed
    drain_count,     \* the handler's local
    ie,              \* the foreground's local: the saved enable bit
    in_read,         \* _service() was called by _read_byte()
    read_idx,        \* _read_byte()'s local
    data,            \* *data of _read_byte()
    lastRead         \* history: the byte _read_byte() returned last

intVars   == <<rxif, rxie>>
ringVars  == <<rx_ring, rx_read_idx, rx_write_idx>>
taskLocal == <<ie, in_read, read_idx, data, lastRead>>
vars == <<hwVars, ringVars, rx_status, intVars, pc, held, drain_count,
          taskLocal>>

Ctx       == {"isr", "task"}
IsrLabels == {"idle", "drain", "put", "account"}
Masked    == {"drain", "put", "account", "rearm",
              "flush_ring", "flush_fifo", "flush_oerr", "get", "clear",
              "restore"}
TaskLabels == Masked \cup {"idle", "svc_test", "svc_mask", "flush_mask",
                           "get_mask", "clear_mask", "rd_test", "rd_load", "rd_store"}

Counters == {"rx_isr_count", "rx_byte_count", "rx_fifo_overflow_count",
             "framing_error_count", "parity_error_count",
             "rx_ring_overflow_count", "rx_max_drain_count",
             "rx_stall_recovery_count", "rx_ie_lost_count"}

Zero == [f \in Counters |-> 0]

Init ==
    /\ HwInit
    /\ rx_ring = [i \in 0 .. RingSize - 1 |-> 0]
    /\ rx_read_idx = 0
    /\ rx_write_idx = 0
    /\ rx_status = Zero
    /\ rxif = FALSE
    /\ rxie = TRUE
    /\ pc = [c \in Ctx |-> "idle"]
    /\ held = [c \in Ctx |-> 0]
    /\ drain_count = 0
    /\ ie = FALSE
    /\ in_read = FALSE
    /\ read_idx = 0
    /\ data = 0
    /\ lastRead = 0

-----------------------------------------------------------------------------
(* Helpers of the source.                                                  *)

Add(s, f, n) == [s EXCEPT ![f] = @ + n]

Plus1(s, f) == Add(s, f, 1)

RaiseTo(s, f, n) == IF n > s[f] THEN [s EXCEPT ![f] = n] ELSE s

\* MUTANT: wraps one slot too late.
NextIdx_Late(i) == IF i + 1 > RingSize THEN 0 ELSE i + 1

\* (uint16_t)(idx + 1u), wrapped at the ring's size.
NextIdx(i) ==
    LET next == IF i + 1 = U16 THEN 0 ELSE i + 1
    IN  IF next >= RingSize THEN 0 ELSE next

RingEmpty == rx_read_idx = rx_write_idx

\* MUTANT: looks for an overrun only.
Stalled_OerrOnly == oerr

Stalled == oerr \/ (~URXBE /\ RingEmpty)

\* MUTANT: the enable bit is saved and left alone.
MaskRx_SavedOnly == ie' = rxie /\ UNCHANGED rxie

\* irq_get_enable() and irq_enable(false): how a masked section starts.
MaskRx == ie' = rxie /\ rxie' = FALSE

Goto(c, l) == pc' = [pc EXCEPT ![c] = l]

-----------------------------------------------------------------------------
(* The line, and the fault _service() is there for.                        *)

Receive == Accept /\ rxif' = TRUE
           /\ UNCHANGED <<ringVars, rx_status, rxie, pc, held, drain_count,
                          taskLocal>>

Lose == Overrun
        /\ UNCHANGED <<ringVars, rx_status, intVars, pc, held, drain_count,
                       taskLocal>>

LoseEnable ==
    /\ IeLoss
    /\ rxie
    /\ rxie' = FALSE
    /\ UNCHANGED <<hwVars, ringVars, rx_status, rxif, pc, held, drain_count,
                   taskLocal>>

-----------------------------------------------------------------------------
(* uart_rx_drain_fifo(), run by the handler and by _service().             *)

Take(c) ==
    /\ pc[c] = "drain"
    /\ ~URXBE
    /\ held' = [held EXCEPT ![c] = Head(fifo)]
    /\ ReadRXREG
    /\ Goto(c, "put")
    /\ UNCHANGED <<oerr, arrived, ringVars, rx_status, intVars, drain_count,
                   taskLocal>>

\* MUTANT: a byte dropped for want of room is not counted.
RingPush_Uncounted(b) ==
    /\ NextIdx(rx_write_idx) # rx_read_idx
       => /\ rx_ring' = [rx_ring EXCEPT ![rx_write_idx] = b]
          /\ rx_write_idx' = NextIdx(rx_write_idx)
    /\ NextIdx(rx_write_idx) = rx_read_idx => UNCHANGED <<rx_ring, rx_write_idx>>
    /\ UNCHANGED rx_status

RingPush(b) ==
    LET next == NextIdx(rx_write_idx)
    IN  IF next = rx_read_idx
        THEN /\ rx_status' = Plus1(rx_status, "rx_ring_overflow_count")
             /\ UNCHANGED <<rx_ring, rx_write_idx>>
        ELSE /\ rx_ring' = [rx_ring EXCEPT ![rx_write_idx] = b]
             /\ rx_write_idx' = next
             /\ UNCHANGED rx_status

\* _service() ignores the count the drain returns.
Put(c) ==
    /\ pc[c] = "put"
    /\ RingPush(held[c])
    /\ held' = [held EXCEPT ![c] = 0]
    /\ drain_count' = IF c = "isr" THEN drain_count + 1 ELSE drain_count
    /\ Goto(c, "drain")
    /\ UNCHANGED <<hwVars, rx_read_idx, intVars, taskLocal>>

Drained(c) ==
    /\ pc[c] = "drain"
    /\ URXBE
    /\ Goto(c, "account")
    /\ UNCHANGED <<hwVars, ringVars, rx_status, intVars, held, drain_count,
                   taskLocal>>

-----------------------------------------------------------------------------
(* nora_uart_rx_irq_handler().                                             *)

IsrEnter ==
    /\ pc["isr"] = "idle"
    /\ rxif /\ rxie
    /\ rxif' = FALSE
    /\ rx_status' = Plus1(rx_status, "rx_isr_count")
    /\ Goto("isr", "drain")
    /\ UNCHANGED <<hwVars, ringVars, rxie, held, drain_count, taskLocal>>

Count(s, f, flag) == IF flag THEN Plus1(s, f) ELSE s

IsrAccounted ==
    LET s1 == Add(rx_status, "rx_byte_count", drain_count)
        s2 == RaiseTo(s1, "rx_max_drain_count", drain_count)
        s3 == Count(s2, "rx_fifo_overflow_count", oerr)
        s4 == Count(s3, "framing_error_count", FERR)
    IN  Count(s4, "parity_error_count", PERR)

\* MUTANT: the handler counts an overrun and leaves it latched.
IsrAccount_KeepsOerr ==
    /\ pc["isr"] = "account"
    /\ rx_status' = IsrAccounted
    /\ drain_count' = 0
    /\ Goto("isr", "idle")
    /\ UNCHANGED <<hwVars, ringVars, intVars, held, taskLocal>>

IsrAccount ==
    /\ pc["isr"] = "account"
    /\ rx_status' = IsrAccounted
    /\ IF oerr THEN ClearOERR ELSE UNCHANGED <<oerr, fifo>>
    /\ drain_count' = 0
    /\ Goto("isr", "idle")
    /\ UNCHANGED <<arrived, ringVars, intVars, held, taskLocal>>

-----------------------------------------------------------------------------
(* The foreground.  A call starts when the task is between two calls; every*)
(* later step of it also waits for the handler to return.                  *)

TaskAt(l) == pc["isr"] = "idle" /\ pc["task"] = l

taskRest == <<arrived, ringVars, held, drain_count, read_idx, data, lastRead>>

Begin(op, l) ==
    /\ op \in Ops
    /\ TaskAt("idle")
    /\ Goto("task", l)
    /\ UNCHANGED <<fifo, oerr, rx_status, intVars, ie, taskRest>>

\* MUTANT: an empty ring is reported without looking at the receiver.
CallRead_NoService == Begin("read", "rd_test") /\ UNCHANGED in_read

\* _rx_isr_ready() and _rx_isr_read_byte() look at the ring first.  With
\* bytes in it _ready() returns at once, and changes nothing.
CallReady   == RingEmpty /\ Begin("ready", "svc_test") /\ UNCHANGED in_read
CallRead    == /\ Begin("read", IF RingEmpty THEN "svc_test" ELSE "rd_test")
               /\ in_read' = RingEmpty
CallService == Begin("service", "svc_test") /\ UNCHANGED in_read
CallFlush   == Begin("flush", "flush_mask") /\ UNCHANGED in_read
CallGet     == Begin("get", "get_mask") /\ UNCHANGED in_read
CallClear   == Begin("clear", "clear_mask") /\ UNCHANGED in_read

SetEnable(on) ==
    /\ TaskAt("idle")
    /\ rxif' = FALSE
    /\ rxie' = on
    /\ UNCHANGED <<fifo, oerr, rx_status, pc, ie, in_read, taskRest>>

\* _rx_isr_enable() clears the flag first, _rx_isr_disable() afterwards: an
\* arrival in between is the same as one before or after the step.
CallEnable  == "enable" \in Ops /\ SetEnable(TRUE)
CallDisable == "disable" \in Ops /\ SetEnable(FALSE)

\* What follows _service() in the entry point that called it.
AfterService ==
    /\ Goto("task", IF in_read THEN "rd_test" ELSE "idle")
    /\ in_read' = FALSE

ServiceTest ==
    /\ TaskAt("svc_test")
    /\ IF Stalled THEN Goto("task", "svc_mask") /\ UNCHANGED in_read
                  ELSE AfterService
    /\ UNCHANGED <<fifo, oerr, rx_status, intVars, ie, taskRest>>

Mask(at, next) ==
    /\ TaskAt(at)
    /\ MaskRx
    /\ Goto("task", next)
    /\ UNCHANGED <<fifo, oerr, rx_status, rxif, in_read, taskRest>>

\* MUTANT: the stall is drained with the interrupt enabled.
ServiceMask_None ==
    /\ TaskAt("svc_mask")
    /\ ie' = rxie
    /\ Goto("task", "drain")
    /\ UNCHANGED <<fifo, oerr, rx_status, intVars, in_read, taskRest>>

ServiceMask == Mask("svc_mask", "drain")

ServiceAccount ==
    /\ TaskAt("account")
    /\ IF oerr THEN ClearOERR ELSE UNCHANGED <<oerr, fifo>>
    /\ LET s1 == Count(rx_status, "rx_fifo_overflow_count", oerr)
           s2 == Plus1(s1, "rx_stall_recovery_count")
       IN  rx_status' = Count(s2, "rx_ie_lost_count", ~ie)
    /\ Goto("task", "rearm")
    /\ UNCHANGED <<intVars, ie, in_read, taskRest>>

\* The flag is cleared and the interrupt enabled, whatever it was before.
ServiceRearm ==
    /\ TaskAt("rearm")
    /\ rxif' = FALSE
    /\ rxie' = TRUE
    /\ ie' = FALSE
    /\ AfterService
    /\ UNCHANGED <<fifo, oerr, rx_status, taskRest>>

ReadTest ==
    /\ TaskAt("rd_test")
    /\ Goto("task", IF RingEmpty THEN "idle" ELSE "rd_load")
    /\ UNCHANGED <<fifo, oerr, rx_status, intVars, ie, in_read, taskRest>>

ReadLoad ==
    /\ TaskAt("rd_load")
    /\ read_idx' = rx_read_idx
    /\ data' = rx_ring[rx_read_idx]
    /\ Goto("task", "rd_store")
    /\ UNCHANGED <<hwVars, ringVars, rx_status, intVars, held, drain_count,
                   ie, in_read, lastRead>>

ReadStore ==
    /\ TaskAt("rd_store")
    /\ rx_read_idx' = NextIdx(read_idx)
    /\ lastRead' = data
    /\ read_idx' = 0
    /\ data' = 0
    /\ Goto("task", "idle")
    /\ UNCHANGED <<hwVars, rx_ring, rx_write_idx, rx_status, intVars, held,
                   drain_count, ie, in_read>>

FlushMask == Mask("flush_mask", "flush_ring")

FlushRing ==
    /\ TaskAt("flush_ring")
    /\ rx_read_idx' = rx_write_idx
    /\ Goto("task", "flush_fifo")
    /\ UNCHANGED <<hwVars, rx_ring, rx_write_idx, rx_status, intVars, held,
                   drain_count, taskLocal>>

FlushFifo ==
    /\ TaskAt("flush_fifo")
    /\ IF URXBE THEN Goto("task", "flush_oerr") /\ UNCHANGED fifo
                ELSE ReadRXREG /\ UNCHANGED pc
    /\ UNCHANGED <<oerr, rx_status, intVars, ie, in_read, taskRest>>

FlushOerr ==
    /\ TaskAt("flush_oerr")
    /\ IF oerr THEN ClearOERR ELSE UNCHANGED <<oerr, fifo>>
    /\ Goto("task", "restore")
    /\ UNCHANGED <<rx_status, intVars, ie, in_read, taskRest>>

GetMask == Mask("get_mask", "get")

\* MUTANT: the counters are cleared with the interrupt enabled.
ClearMask_Skipped ==
    /\ TaskAt("clear_mask")
    /\ ie' = rxie
    /\ Goto("task", "clear")
    /\ UNCHANGED <<fifo, oerr, rx_status, intVars, in_read, taskRest>>

ClearMask == Mask("clear_mask", "clear")

\* The nine counters have been copied, or zeroed.
GetDone ==
    /\ TaskAt("get")
    /\ Goto("task", "restore")
    /\ UNCHANGED <<fifo, oerr, rx_status, intVars, ie, in_read, taskRest>>

ClearDone ==
    /\ TaskAt("clear")
    /\ rx_status' = Zero
    /\ Goto("task", "restore")
    /\ UNCHANGED <<fifo, oerr, intVars, ie, in_read, taskRest>>

Restore ==
    /\ TaskAt("restore")
    /\ rxie' = ie
    /\ ie' = FALSE
    /\ Goto("task", "idle")
    /\ UNCHANGED <<fifo, oerr, rx_status, rxif, in_read, taskRest>>

-----------------------------------------------------------------------------
Isr ==
    \/ IsrEnter
    \/ Take("isr") \/ Put("isr") \/ Drained("isr")
    \/ IsrAccount

Service ==
    \/ ServiceTest \/ ServiceMask
    \/ pc["isr"] = "idle" /\ (Take("task") \/ Put("task") \/ Drained("task"))
    \/ ServiceAccount \/ ServiceRearm

Read == ReadTest \/ ReadLoad \/ ReadStore

Flush == FlushMask \/ FlushRing \/ FlushFifo \/ FlushOerr

Status == GetMask \/ GetDone \/ ClearMask \/ ClearDone

\* The steps of a call that has started.
TaskStep == Service \/ Read \/ Flush \/ Status \/ Restore

Environment == Receive \/ Lose \/ LoseEnable

Call ==
    \/ CallReady \/ CallRead \/ CallService \/ CallFlush
    \/ CallGet \/ CallClear \/ CallEnable \/ CallDisable

Next == Environment \/ Isr \/ TaskStep \/ Call

Spec == Init /\ [][Next]_vars

-----------------------------------------------------------------------------
(* What makes it correct.                                                  *)

TypeOK ==
    /\ HwTypeOK
    /\ rx_ring \in [0 .. RingSize - 1 -> 0 .. MaxArrivals]
    /\ rx_read_idx \in 0 .. RingSize - 1
    /\ rx_write_idx \in 0 .. RingSize - 1
    /\ rx_status \in [Counters -> Nat]
    /\ rxif \in BOOLEAN
    /\ rxie \in BOOLEAN
    /\ pc \in [Ctx -> TaskLabels]
    /\ pc["isr"] \in IsrLabels
    /\ held \in [Ctx -> 0 .. MaxArrivals]
    /\ drain_count \in Nat
    /\ ie \in BOOLEAN
    /\ in_read \in BOOLEAN
    /\ read_idx \in 0 .. RingSize - 1
    /\ data \in 0 .. MaxArrivals
    /\ lastRead \in 0 .. MaxArrivals

(* The handler is never inside the critical section the foreground opens   *)
(* by disabling the RX interrupt, so the FIFO is drained, the ring pushed  *)
(* and the counters updated by one context at a time (the promise of       *)
(* uart_rx_drain_fifo(): "the caller owns the critical section").          *)
DrainExclusive == pc["task"] \in Masked => pc["isr"] = "idle"

(* The ring's contents, oldest first.                                      *)
Used == IF rx_write_idx >= rx_read_idx
        THEN rx_write_idx - rx_read_idx
        ELSE rx_write_idx - rx_read_idx + RingSize

Slot(i) == IF rx_read_idx + i < RingSize
           THEN rx_read_idx + i
           ELSE rx_read_idx + i - RingSize

Held(c) == IF held[c] = 0 THEN <<>> ELSE <<held[c]>>

Buffered == [i \in 1 .. Used |-> rx_ring[Slot(i - 1)]]

(* Every byte accepted and not yet handed out, wherever it is: in the      *)
(* ring, between RXREG and the ring, or in the FIFO.                       *)
InTransit == Buffered \o Held("isr") \o Held("task") \o fifo

Increasing(s) == \A i, j \in 1 .. Len(s) : i < j => s[i] < s[j]

(* Bytes stay in arrival order on their whole way to the reader, whoever   *)
(* drained them, and what was handed out is older than anything left: no   *)
(* byte is delivered twice, reordered, or overwritten before it is read.   *)
InOrder == Increasing(<<lastRead>> \o InTransit)

(* Reception is never stopped with an empty FIFO once the context that     *)
(* emptied it has returned: an overrun is cleared by whoever drains the    *)
(* bytes behind it, or is still signalled by them.                         *)
OverrunVisible ==
    oerr /\ fifo = <<>> =>
        \/ pc["isr"] # "idle"
        \/ pc["task"] \in {"drain", "put", "account", "flush_fifo", "flush_oerr"}

(* The inductive form of the two invariants above, by index instead of by  *)
(* concatenation: what a masked section and a byte in hand mean, what      *)
(* _read_byte() knows between its steps, and the order of all bytes.       *)
MaskedInv == pc["task"] \in Masked => pc["isr"] = "idle" /\ ~rxie

HeldInv == \A c \in Ctx : held[c] # 0 <=> pc[c] = "put"

ReadInv ==
    /\ pc["task"] \in {"rd_load", "rd_store"} => ~RingEmpty
    /\ pc["task"] = "rd_store" =>
           read_idx = rx_read_idx /\ data = rx_ring[rx_read_idx]

Entry(i) == rx_ring[Slot(i)]

RingOrder ==
    /\ \A i, j \in 0 .. Used - 1 : i < j => Entry(i) < Entry(j)
    /\ \A i \in 0 .. Used - 1 : lastRead < Entry(i) /\ Entry(i) <= arrived

HeldOrder ==
    \A c \in Ctx : held[c] # 0 =>
        /\ lastRead < held[c] /\ held[c] <= arrived
        /\ \A i \in 0 .. Used - 1 : Entry(i) < held[c]
        /\ \A k \in 1 .. Len(fifo) : held[c] < fifo[k]

FifoOrder ==
    /\ \A k, l \in 1 .. Len(fifo) : k < l => fifo[k] < fifo[l]
    /\ \A k \in 1 .. Len(fifo) :
           /\ lastRead < fifo[k] /\ fifo[k] <= arrived
           /\ \A i \in 0 .. Used - 1 : Entry(i) < fifo[k]

OrderInv ==
    /\ HeldInv /\ ReadInv /\ RingOrder /\ HeldOrder /\ FifoOrder
    /\ lastRead <= arrived

(* Neither the handler nor anything else touches a counter while           *)
(* status_get() copies them or status_clear() zeroes them ("atomic         *)
(* snapshot vs the ISR").                                                  *)
SnapshotAtomic ==
    [][pc["task"] \in {"get", "clear"} /\ pc'["task"] = pc["task"]
         => rx_status' = rx_status]_vars

(* The ring implements the abstract channel.                               *)
Channel == INSTANCE RxChannel WITH
    transit  <- InTransit,
    out      <- lastRead,
    dropped  <- rx_status.rx_ring_overflow_count,
    flushing <- pc["task"] \in {"flush_ring", "flush_fifo", "flush_oerr"},
    Values   <- Bytes

(* Every accepted byte is handed out in order, dropped and counted, or     *)
(* discarded by a flush: nothing is lost silently between the FIFO and the *)
(* reader.                                                                 *)
ImplementsChannel == Channel!Spec

-----------------------------------------------------------------------------
(* The handler and a call that has started keep running, and the reader    *)
(* calls _read_byte() again and again (ring.h: "the READER, which is       *)
(* always running").  Nothing is assumed of the other entry points.        *)
Fairness ==
    /\ WF_vars(Isr)
    /\ WF_vars(TaskStep)
    /\ SF_vars(CallRead)

FairSpec == Spec /\ Fairness

(* A latched overrun stops reception only for a while, even if the enable  *)
(* bit was lost or the interrupt was disabled.                             *)
ReceptionResumes == oerr ~> ~oerr

(* No accepted byte stays in the FIFO or the ring forever.                 *)
Waiting(n) == \E i \in 1 .. Len(InTransit) : InTransit[i] = n

NoByteStranded == \A n \in Bytes : Waiting(n) ~> ~Waiting(n)

-----------------------------------------------------------------------------
(* What the documentation says and the code does not do.                   *)

(* A byte with a framing error that reached the ring was counted once the  *)
(* handler returned (uart.c: "in ring mode the ISR is what clears them and *)
(* counts them").  FERR is read after the drain, when the FIFO is empty.   *)
FramingErrorsCounted ==
    /\ "clear" \notin Ops
    /\ pc["isr"] = "idle"
    /\ \E i \in 1 .. Used : Buffered[i] \in Framing
    => rx_status.framing_error_count # 0
=============================================================================
