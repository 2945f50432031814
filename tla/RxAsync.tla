------------------------------ MODULE RxAsync -------------------------------
(***************************************************************************)
(* Asynchronous reception on top of the interrupt ring: rx_start(),        *)
(* rx_start_clean(), rx_abort(), the feed hook inside the FIFO drain and   *)
(* the event callback, composed with every step of RxRing.                 *)
(*                                                                         *)
(* The drain offers a byte to the transfer first.  The byte that completes *)
(* it runs the callback in the middle of the drain, in whichever context   *)
(* drains: the handler, or the task inside _service().  The handler runs   *)
(* it once more at its end, for the events it has collected.  A callback   *)
(* of the TX interrupt, above both, may abort at any time.                 *)
(***************************************************************************)
EXTENDS RxRing

CONSTANTS
    Requests,     \* lengths rx_start() and rx_start_clean() are called with
    CallbackOps,  \* what the callback calls
    ReadyFrom     \* contexts in which the callback calls rx_ready()

AllCallbackOps == {"chain", "abort", "tx_abort"}

ASSUME RequestsAssumption == Requests \subseteq Nat \ {0}
ASSUME CallbackAssumption == CallbackOps \subseteq AllCallbackOps
ASSUME ReadyAssumption    == ReadyFrom \subseteq Ctx

VARIABLES
    rx_async_busy,
    rx_async_len,
    stored,         \* the first rx_async_count bytes of the caller's buffer
    ring_got_data,  \* the handler's local: its events include RX_READY, or
                    \* RX_OVERFLOW for bytes that its callback's poll dropped
    request,        \* the task's parameter: the length it asks for
    clean,          \* the task is inside rx_start_clean()
    boundary        \* history: the first arrival after the flush that the
                    \* last transfer began with, 0 if it began with none

asyncVars == <<rx_async_busy, rx_async_len, stored, ring_got_data, request,
               clean, boundary>>
avars     == <<vars, asyncVars>>
ringSide  == <<ringVars, rx_status, taskLocal>>

\* The drain goes on inside these, with the interrupt masked.
Feeding     == {"store", "done", "complete_cb"}
AsyncMasked == Masked \cup Feeding

AsyncInit ==
    /\ Init
    /\ rx_async_busy = FALSE /\ rx_async_len = 0 /\ stored = <<>>
    /\ ring_got_data = FALSE
    /\ request = 0 /\ clean = FALSE /\ boundary = 0

\* A context may take a step: the task only while the handler is not running.
Runs(c) == c = "isr" \/ pc["isr"] = "idle"

At(c, l) == Runs(c) /\ pc[c] = l

-----------------------------------------------------------------------------
(* nora_uart_dspic33ck_async_rx_feed(), called for each byte drained.      *)

FeedTest(c) ==
    /\ At(c, "put")
    /\ rx_async_busy
    /\ Goto(c, "store")
    /\ UNCHANGED <<hwVars, ringSide, intVars, held, drain_count, asyncVars>>

\* The hook returned false: the byte goes to the ring.
FeedRing(c) ==
    /\ Runs(c)
    /\ ~rx_async_busy
    /\ Put(c)
    /\ ring_got_data' = (ring_got_data \/ c = "isr")
    /\ UNCHANGED <<rx_async_busy, rx_async_len, stored, request, clean, boundary>>

\* MUTANT: the byte the hook took is pushed as well.
FeedStore_AlsoPushed(c) ==
    /\ At(c, "store")
    /\ stored' = Append(stored, held[c])
    /\ RingPush(held[c])
    /\ held' = [held EXCEPT ![c] = 0]
    /\ drain_count' = IF c = "isr" THEN drain_count + 1 ELSE drain_count
    /\ Goto(c, "done")
    /\ UNCHANGED <<hwVars, rx_read_idx, taskLocal, intVars, rx_async_busy,
                   rx_async_len, ring_got_data, request, clean, boundary>>

FeedStore(c) ==
    /\ At(c, "store")
    /\ stored' = Append(stored, held[c])
    /\ held' = [held EXCEPT ![c] = 0]
    /\ drain_count' = IF c = "isr" THEN drain_count + 1 ELSE drain_count
    /\ Goto(c, "done")
    /\ UNCHANGED <<hwVars, ringSide, intVars, rx_async_busy, rx_async_len,
                   ring_got_data, request, clean, boundary>>

Complete == Len(stored) >= rx_async_len

\* MUTANT: one byte more than was asked for.
FeedDone_OffByOne(c) ==
    /\ At(c, "done")
    /\ Goto(c, IF Len(stored) > rx_async_len THEN "complete_cb" ELSE "drain")
    /\ rx_async_busy' = (rx_async_busy /\ ~(Len(stored) > rx_async_len))
    /\ UNCHANGED <<hwVars, ringSide, intVars, held, drain_count, rx_async_len,
                   stored, ring_got_data, request, clean, boundary>>

\* Busy is given up before RX_COMPLETE is reported.
FeedDone(c) ==
    /\ At(c, "done")
    /\ Goto(c, IF Complete THEN "complete_cb" ELSE "drain")
    /\ rx_async_busy' = (rx_async_busy /\ ~Complete)
    /\ UNCHANGED <<hwVars, ringSide, intVars, held, drain_count, rx_async_len,
                   stored, ring_got_data, request, clean, boundary>>

-----------------------------------------------------------------------------
(* The handler, around the drain.                                          *)

HandlerEnter ==
    /\ IsrEnter
    /\ ring_got_data' = FALSE
    /\ UNCHANGED <<rx_async_busy, rx_async_len, stored, request, clean, boundary>>

\* What IsrAccount does, followed by the callback when there are events: a
\* byte in the ring, dropped ones included, an overrun or an error flag.
Events == ring_got_data \/ oerr \/ FERR \/ PERR

\* MUTANT: the overrun is counted and reported, and left to the callback.
HandlerAccount_KeepsOerr ==
    /\ pc["isr"] = "account"
    /\ rx_status' = IsrAccounted
    /\ drain_count' = 0
    /\ Goto("isr", IF Events THEN "events_cb" ELSE "idle")
    /\ UNCHANGED <<hwVars, ringVars, intVars, held, taskLocal, asyncVars>>

HandlerAccount ==
    /\ pc["isr"] = "account"
    /\ rx_status' = IsrAccounted
    /\ IF oerr THEN ClearOERR ELSE UNCHANGED <<oerr, fifo>>
    /\ drain_count' = 0
    /\ Goto("isr", IF Events THEN "events_cb" ELSE "idle")
    /\ UNCHANGED <<arrived, ringVars, intVars, held, taskLocal, asyncVars>>

-----------------------------------------------------------------------------
(* The callback.  Each call it makes is one step: only the line goes on    *)
(* meanwhile.                                                              *)

InCallback(c) == At(c, "complete_cb") \/ At(c, "events_cb")

CallbackReturn(c) ==
    /\ InCallback(c)
    /\ Goto(c, IF pc[c] = "complete_cb" THEN "drain" ELSE "idle")
    /\ UNCHANGED <<hwVars, ringSide, intVars, held, drain_count, asyncVars>>

\* MUTANT: the count goes on from the transfer before.
Arm_KeepsCount(n) ==
    /\ rx_async_len' = n
    /\ rx_async_busy' = TRUE
    /\ UNCHANGED stored

\* uart_async_rx_arm(); busy is written last, and until then nobody looks.
Arm(n) ==
    /\ rx_async_len' = n
    /\ stored' = <<>>
    /\ rx_async_busy' = TRUE

\* The next transfer is started when one has been reported complete.
CallbackStart(c) ==
    /\ "chain" \in CallbackOps
    /\ At(c, "complete_cb")
    /\ ~rx_async_busy
    /\ \E n \in Requests : Arm(n)
    /\ boundary' = 0
    /\ UNCHANGED <<vars, ring_got_data, request, clean>>

AbortBy(op) ==
    /\ op \in CallbackOps
    /\ rx_async_busy' = FALSE
    /\ UNCHANGED <<vars, rx_async_len, stored, ring_got_data, request, clean,
                   boundary>>

CallbackAbort(c) == InCallback(c) /\ AbortBy("abort")

TxCallbackAbort == AbortBy("tx_abort")

\* nora_uart_rx_ready() with an empty ring and a stall: _service(), whole.
CallbackReady(c) ==
    LET room == RingSize - 1
        n    == IF Len(fifo) < room THEN Len(fifo) ELSE room
        slot(i) == (rx_write_idx + i) % RingSize
        s1   == Add(rx_status, "rx_ring_overflow_count", Len(fifo) - n)
        s2   == Count(s1, "rx_fifo_overflow_count", oerr)
        s3   == Plus1(s2, "rx_stall_recovery_count")
    IN  /\ c \in ReadyFrom
        /\ InCallback(c)
        /\ ~rx_async_busy
        /\ RingEmpty /\ Stalled
        /\ rx_ring' = [i \in DOMAIN rx_ring |->
                         LET k == {j \in 1 .. n : slot(j - 1) = i}
                         IN  IF k = {} THEN rx_ring[i] ELSE fifo[CHOOSE j \in k : TRUE]]
        /\ rx_write_idx' = slot(n)
        /\ rx_status' = Count(s3, "rx_ie_lost_count", ~rxie)
        /\ fifo' = <<>> /\ oerr' = FALSE
        /\ rxif' = FALSE /\ rxie' = TRUE
        /\ ring_got_data' = (ring_got_data \/ (At("isr", "complete_cb") /\ n < Len(fifo)))
        /\ UNCHANGED <<arrived, rx_read_idx, pc, held, drain_count, taskLocal,
                       rx_async_busy, rx_async_len, stored, request, clean, boundary>>

-----------------------------------------------------------------------------
(* The calls of the task.                                                  *)

Free == TaskAt("idle") /\ ~clean

taskOnly == <<hwVars, ringSide, intVars, held, drain_count>>

CallStart ==
    /\ Free
    /\ ~rx_async_busy
    /\ request' \in Requests
    /\ \/ Goto("task", "start_arm")
       \/ Goto("task", "clean_mask")
    /\ UNCHANGED <<taskOnly, rx_async_busy, rx_async_len, stored, ring_got_data,
                   clean, boundary>>

StartArm ==
    /\ TaskAt("start_arm")
    /\ Arm(request)
    /\ Goto("task", "idle")
    /\ request' = 0
    /\ boundary' = 0
    /\ UNCHANGED <<taskOnly, ring_got_data, clean>>

\* MUTANT: the flush is left to mask the interrupt for itself.
CleanMask_None ==
    /\ TaskAt("clean_mask")
    /\ rxie
    /\ Goto("task", "flush_mask")
    /\ clean' = TRUE
    /\ UNCHANGED <<taskOnly, rx_async_busy, rx_async_len, stored, ring_got_data,
                   request, boundary>>

\* Refused with the interrupt off already; otherwise masked for the whole call.
CleanMask ==
    /\ TaskAt("clean_mask")
    /\ IF rxie
       THEN Goto("task", "flush_mask") /\ clean' = TRUE /\ UNCHANGED request
       ELSE Goto("task", "idle") /\ request' = 0 /\ UNCHANGED clean
    /\ rxie' = FALSE
    /\ UNCHANGED <<hwVars, ringSide, rxif, held, drain_count, rx_async_busy,
                   rx_async_len, stored, ring_got_data, boundary>>

\* The flush has returned, and found the bit cleared.
CleanArm ==
    /\ TaskAt("idle") /\ clean
    /\ Arm(request)
    /\ rxie' = TRUE
    /\ request' = 0 /\ clean' = FALSE
    /\ UNCHANGED <<hwVars, ringSide, rxif, pc, held, drain_count, ring_got_data,
                   boundary>>

CallAbort ==
    /\ Free
    /\ rx_async_busy' = FALSE
    /\ UNCHANGED <<vars, rx_async_len, stored, ring_got_data, request, clean,
                   boundary>>

\* The FIFO has been emptied: where a clean transfer begins.
CleanFlush ==
    /\ FlushFifo
    /\ boundary' = IF clean /\ URXBE THEN arrived + 1 ELSE boundary
    /\ UNCHANGED <<rx_async_busy, rx_async_len, stored, ring_got_data, request,
                   clean>>

-----------------------------------------------------------------------------
Line == Environment /\ UNCHANGED asyncVars

Drain(c) ==
    \/ Runs(c) /\ (Take(c) \/ Drained(c)) /\ UNCHANGED asyncVars
    \/ FeedTest(c) \/ FeedRing(c) \/ FeedStore(c) \/ FeedDone(c)

Handler == HandlerEnter \/ HandlerAccount

Callback(c) ==
    CallbackReturn(c) \/ CallbackStart(c) \/ CallbackAbort(c) \/ CallbackReady(c)

RingCall == ~clean /\ Call /\ UNCHANGED asyncVars

\* What is left of RxRing: the steps of a call other than those of a drain.
RingStep ==
    \/ /\ \/ ServiceTest \/ ServiceMask \/ ServiceAccount \/ ServiceRearm
          \/ Read \/ Status \/ Restore \/ FlushMask \/ FlushRing \/ FlushOerr
       /\ UNCHANGED asyncVars
    \/ CleanFlush

AsyncCall == CallStart \/ CallAbort

AsyncStep == StartArm \/ CleanMask \/ CleanArm

AsyncNext ==
    \/ Line \/ Handler \/ TxCallbackAbort
    \/ \E c \in Ctx : Drain(c) \/ Callback(c)
    \/ RingCall \/ RingStep
    \/ AsyncCall \/ AsyncStep

AsyncSpec == AsyncInit /\ [][AsyncNext]_avars

-----------------------------------------------------------------------------
(* What makes it correct.                                                  *)

AsyncLabels == TaskLabels \cup Feeding \cup {"events_cb", "start_arm", "clean_mask"}

(* No transfer gets more bytes than its buffer holds.                      *)
AsyncTypeOK ==
    /\ HwTypeOK
    /\ rx_read_idx \in 0 .. RingSize - 1
    /\ rx_write_idx \in 0 .. RingSize - 1
    /\ pc \in [Ctx -> AsyncLabels]
    /\ held \in [Ctx -> 0 .. MaxArrivals]
    /\ rx_async_busy \in BOOLEAN
    /\ rx_async_len \in Requests \cup {0}
    /\ stored \in Seq(Bytes)
    /\ Len(stored) <= rx_async_len
    /\ ring_got_data \in BOOLEAN
    /\ request \in Requests \cup {0}
    /\ clean \in BOOLEAN
    /\ boundary \in 0 .. MaxArrivals + 1

(* One context drains at a time, although the drain now runs callbacks     *)
(* ("the caller owns the critical section").                               *)
DrainStaysExclusive == pc["task"] \in AsyncMasked => pc["isr"] = "idle"

(* A transfer started clean gets what arrives after the flush and misses   *)
(* none of it: while it is active nothing is in the ring (nora_uart.h:     *)
(* "bytes that arrive after the clean arm are captured by the new async    *)
(* transfer").                                                             *)
CleanCapture ==
    rx_async_busy /\ boundary # 0 =>
        RingEmpty /\ \A i \in 1 .. Len(stored) : stored[i] >= boundary

Draining == {"drain", "put", "account"} \cup Feeding

(* An overrun behind the last byte is ended by whoever drains it, before   *)
(* the events are reported: the byte may complete a transfer, the callback *)
(* may chain, abort or poll in the middle of the drain, and still nobody   *)
(* leaves the receiver stopped with an empty FIFO, where no interrupt      *)
(* would ever come.                                                        *)
OverrunEnds ==
    oerr /\ fifo = <<>> =>
        \/ pc["isr"] \in Draining
        \/ pc["task"] \in Draining \cup {"flush_fifo", "flush_oerr"}

(* Stream and transfers share the bytes as the abstract router does.       *)
InHand(c) == IF pc[c] = "put" THEN <<held[c]>> ELSE <<>>
Passing(c) == IF pc[c] = "store" THEN <<held[c]>> ELSE <<>>

TakenBytes == stored \o Passing("isr") \o Passing("task")

Router == INSTANCE RxRouter WITH
    Values   <- Bytes,
    pending  <- InHand("isr") \o InHand("task") \o fifo,
    stream   <- Buffered,
    out      <- lastRead,
    stored   <- TakenBytes,
    need     <- IF rx_async_busy THEN rx_async_len - Len(TakenBytes) ELSE 0,
    dropped  <- rx_status.rx_ring_overflow_count,
    flushing <- pc["task"] \in {"flush_ring", "flush_fifo", "flush_oerr"}

ImplementsRouter == Router!Spec

(* The stream and the transfer each get their bytes in the order of        *)
(* arrival, and no byte goes to both: neither handler and reader, nor      *)
(* transfers begun, aborted and chained between any two steps of a drain,  *)
(* make one byte two or put a later one first, on a part whose FIFO is     *)
(* lost with OERR as well.                                                 *)
OnceInOrder == Router!OnceInOrder

-----------------------------------------------------------------------------
(* As in RxRing, the handler and a call that has started keep running, a   *)
(* callback returns, and the reader calls _read_byte() again and again.    *)
AsyncFairness ==
    /\ WF_avars(Handler \/ Drain("isr") \/ CallbackReturn("isr"))
    /\ WF_avars(RingStep \/ AsyncStep \/ Drain("task") \/ CallbackReturn("task"))
    /\ SF_avars(~clean /\ CallRead /\ UNCHANGED asyncVars)

AsyncFairSpec == AsyncSpec /\ AsyncFairness

(* No byte stays in the FIFO for ever while somebody polls, whether a      *)
(* transfer waits for it or not, and although rx_start() does not look at  *)
(* the interrupt it depends on.                                            *)
InFifo(n) == \E i \in 1 .. Len(fifo) : fifo[i] = n

BytesRouted == \A n \in Bytes : InFifo(n) ~> ~InFifo(n)
=============================================================================
