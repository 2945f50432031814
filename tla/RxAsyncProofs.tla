--------------------------- MODULE RxAsyncProofs ---------------------------
(***************************************************************************)
(* Proofs about RxAsync for every ring, FIFO and transfer length, with the *)
(* RX enable bit lost at any time: an overrun is ended by whoever drains;  *)
(* and, as long as the callback does not call rx_ready() while the task    *)
(* drains, one context drains at a time, no transfer gets more bytes than  *)
(* its buffer holds, and a clean start takes what arrives after it.        *)
(***************************************************************************)
EXTENDS RxAsync, TLAPS

USE FifoAssumption, ArrivalAssumption, RingAssumption, RequestsAssumption
    DEF FifoAssumption, ArrivalAssumption, RingAssumption, RequestsAssumption

(* The callback enables the interrupt under nobody's drain but its own     *)
(* handler's.                                                              *)
ReadyInHandler == ReadyFrom \subseteq {"isr"}

(* The inductive invariant, in the parts that are proved one by one.  A    *)
(* context about to store has room for the byte, and an active transfer is *)
(* short of bytes except between the last store and the test behind it.    *)
IndexSafe ==
    /\ rx_read_idx \in 0 .. RingSize - 1
    /\ rx_write_idx \in 0 .. RingSize - 1
    /\ read_idx \in 0 .. RingSize - 1

PcSafe == pc \in [Ctx -> AsyncLabels]

HandSafe ==
    /\ held \in [Ctx -> 0 .. MaxArrivals]
    /\ \A c \in Ctx : pc[c] \in {"put", "store"} => held[c] \in Bytes

MaskedSafe == pc["task"] \in AsyncMasked => pc["isr"] = "idle" /\ ~rxie

RequestSafe ==
    /\ request \in Requests \cup {0}
    /\ clean \in BOOLEAN
    /\ pc["task"] \in {"start_arm", "clean_mask"} => ~clean
    /\ clean \/ pc["task"] \in {"start_arm", "clean_mask"} => request \in Requests

TransferSafe ==
    /\ rx_async_busy \in BOOLEAN
    /\ rx_async_len \in Requests \cup {0}
    /\ stored \in Seq(Bytes)
    /\ Len(stored) <= rx_async_len
    /\ \A c \in Ctx : pc[c] = "store" => Len(stored) < rx_async_len
    /\ rx_async_busy /\ (\A c \in Ctx : pc[c] # "done")
         => Len(stored) < rx_async_len

RestSafe ==
    /\ ring_got_data \in BOOLEAN
    /\ boundary \in 0 .. MaxArrivals + 1

AsyncInv ==
    /\ HwTypeOK /\ IndexSafe /\ PcSafe /\ HandSafe
    /\ MaskedSafe /\ RequestSafe /\ TransferSafe /\ RestSafe

LEMMA Contexts == "isr" \in Ctx /\ "task" \in Ctx /\ Ctx = {"isr", "task"}
  BY DEF Ctx

-----------------------------------------------------------------------------
(* Indices.                                                                *)

LEMMA Wrapped ==
    ASSUME NEW n \in Nat
    PROVE  n % RingSize \in 0 .. RingSize - 1
  OBVIOUS

LEMMA NextInRing ==
    ASSUME NEW i \in 0 .. RingSize - 1
    PROVE  NextIdx(i) \in 0 .. RingSize - 1
  <1>1. U16 \in Nat
    BY DEF U16
  <1> QED
    BY <1>1 DEF NextIdx

LEMMA IndexStep == HwTypeOK /\ IndexSafe /\ [AsyncNext]_avars => IndexSafe'
  <1> SUFFICES ASSUME HwTypeOK, IndexSafe, [AsyncNext]_avars PROVE IndexSafe'
    OBVIOUS
  <1> USE DEF IndexSafe
  <1>1. CASE UNCHANGED <<rx_read_idx, rx_write_idx, read_idx>>
    BY <1>1
  <1>2. CASE ReadLoad
    BY <1>2 DEF ReadLoad, ringVars
  <1>3. CASE ReadStore
    BY <1>3, NextInRing DEF ReadStore
  <1>4. CASE FlushRing
    BY <1>4 DEF FlushRing, taskLocal
  <1>5. ASSUME NEW c \in Ctx, Put(c) PROVE IndexSafe'
    <2>1. rx_write_idx' = rx_write_idx \/ rx_write_idx' = NextIdx(rx_write_idx)
      BY <1>5 DEF Put, RingPush
    <2> QED
      BY <1>5, <2>1, NextInRing DEF Put, taskLocal
  <1>6. ASSUME NEW c \in Ctx, CallbackReady(c) PROVE IndexSafe'
    <2>1. Len(fifo) \in Nat /\ RingSize - 1 \in Nat /\ rx_write_idx \in Nat
      BY DEF HwTypeOK
    <2>2. PICK n \in Nat : rx_write_idx' = (rx_write_idx + n) % RingSize
      BY <1>6, <2>1 DEF CallbackReady
    <2>3. rx_write_idx' \in 0 .. RingSize - 1
      BY SMTT(30), <2>1, <2>2, Wrapped
    <2> QED
      BY <1>6, <2>3 DEF CallbackReady, taskLocal
  <1>7. ASSUME NEW c \in Ctx, Drain(c) PROVE IndexSafe'
    BY <1>5, <1>7 DEF Drain, Take, Drained, FeedTest, FeedRing, FeedStore, FeedDone,
                      ringSide, ringVars, taskLocal
  <1>8. ASSUME NEW c \in Ctx, Callback(c) PROVE IndexSafe'
    BY <1>6, <1>8 DEF Callback, CallbackReturn, CallbackStart, CallbackAbort,
                      AbortBy, ringSide, vars, ringVars, taskLocal
  <1>9. CASE Line \/ Handler \/ TxCallbackAbort
    BY <1>1, <1>9 DEF Line, Environment, Receive, Lose, LoseEnable, Handler,
                      HandlerEnter, IsrEnter, HandlerAccount, TxCallbackAbort,
                      AbortBy, vars, ringVars, taskLocal
  <1>10. CASE RingCall
    BY <1>1, <1>10 DEF RingCall, Call, CallReady, CallRead, CallService,
                       CallFlush, CallGet, CallClear, CallEnable, CallDisable,
                       Begin, SetEnable, taskRest, ringVars
  <1>11. CASE AsyncCall \/ AsyncStep
    BY <1>1, <1>11 DEF AsyncCall, CallStart, CallAbort, AsyncStep, StartArm,
                       CleanMask, CleanArm, taskOnly, ringSide, vars, ringVars,
                       taskLocal
  <1>12. CASE RingStep
    <2>1. CASE \/ ServiceTest \/ ServiceMask \/ ServiceAccount \/ ServiceRearm
               \/ ReadTest \/ Status \/ Restore \/ FlushMask \/ FlushOerr
               \/ CleanFlush
      BY <1>1, <2>1
         DEF ServiceTest, ServiceMask, ServiceAccount, ServiceRearm, ReadTest,
             Status, GetMask, GetDone, ClearMask, ClearDone, Restore, FlushMask,
             FlushOerr, CleanFlush, FlushFifo, Mask, taskRest, ringVars
    <2> QED
      BY Zenon, <1>2, <1>3, <1>4, <1>12, <2>1 DEF RingStep, Read
  <1>13. CASE UNCHANGED avars
    BY <1>1, <1>13 DEF avars, vars, ringVars, taskLocal
  <1> QED
    BY Zenon, <1>7, <1>8, <1>9, <1>10, <1>11, <1>12, <1>13 DEF AsyncNext
-----------------------------------------------------------------------------
(* The hardware.                                                           *)

LEMMA Pop ==
    ASSUME HwTypeOK, ~URXBE
    PROVE  /\ Head(fifo) \in Bytes
           /\ Tail(fifo) \in Seq(Bytes)
           /\ Len(Tail(fifo)) <= FifoDepth
  BY DEF HwTypeOK, URXBE

LEMMA Emptied ==
    ASSUME HwTypeOK, fifo' = <<>>, oerr' \in BOOLEAN, UNCHANGED arrived
    PROVE  HwTypeOK'
  <1>1. fifo' \in Seq(Bytes) /\ Len(fifo') <= FifoDepth
    OBVIOUS
  <1> QED
    BY <1>1 DEF HwTypeOK

LEMMA OerrTest ==
    ASSUME HwTypeOK, IF oerr THEN ClearOERR ELSE UNCHANGED <<oerr, fifo>>,
           UNCHANGED arrived
    PROVE  HwTypeOK'
  <1>1. fifo' = <<>> \/ fifo' = fifo
    BY Zenon DEF ClearOERR
  <1>2. oerr' \in BOOLEAN
    BY Zenon DEF ClearOERR, HwTypeOK
  <1>3. CASE fifo' = fifo
    BY <1>2, <1>3 DEF HwTypeOK
  <1> QED
    BY <1>1, <1>2, <1>3, Emptied

LEMMA HwStep == HwTypeOK /\ [AsyncNext]_avars => HwTypeOK'
  <1> SUFFICES ASSUME HwTypeOK, [AsyncNext]_avars PROVE HwTypeOK'
    OBVIOUS
  <1>1. CASE UNCHANGED hwVars
    BY <1>1 DEF HwTypeOK, hwVars
  <1>2. CASE Receive
    BY <1>2 DEF Receive, Accept, HwTypeOK, Bytes
  <1>3. CASE Lose
    BY <1>3 DEF Lose, Overrun, HwTypeOK
  <1>4. ASSUME NEW c \in Ctx, Take(c) PROVE HwTypeOK'
    BY <1>4, Pop DEF Take, ReadRXREG, HwTypeOK
  <1>5. CASE HandlerAccount
    BY <1>5, OerrTest DEF HandlerAccount
  <1>6. CASE ServiceAccount \/ FlushOerr
    BY <1>6, OerrTest DEF ServiceAccount, FlushOerr, taskRest
  <1>7. CASE FlushFifo
    <2>1. CASE URXBE
      BY <1>7, <2>1 DEF FlushFifo, HwTypeOK, taskRest
    <2>2. CASE ~URXBE
      BY <1>7, <2>2, Pop DEF FlushFifo, ReadRXREG, HwTypeOK, taskRest
    <2> QED
      BY <2>1, <2>2
  <1>8. ASSUME NEW c \in Ctx, CallbackReady(c) PROVE HwTypeOK'
    <2>1. fifo' = <<>> /\ UNCHANGED arrived
      BY <1>8 DEF CallbackReady
    <2>2. oerr' \in BOOLEAN
      BY Zenon, <1>8 DEF CallbackReady
    <2> QED
      BY <2>1, <2>2, Emptied
  <1>9. ASSUME NEW c \in Ctx, Drain(c) PROVE HwTypeOK'
    BY <1>1, <1>4, <1>9 DEF Drain, Drained, FeedTest, FeedRing, Put, FeedStore,
                            FeedDone
  <1>10. ASSUME NEW c \in Ctx, Callback(c) PROVE HwTypeOK'
    BY <1>1, <1>8, <1>10 DEF Callback, CallbackReturn, CallbackStart,
                             CallbackAbort, AbortBy, vars
  <1>11. CASE LoseEnable \/ HandlerEnter \/ TxCallbackAbort
    BY <1>1, <1>11 DEF LoseEnable, HandlerEnter, IsrEnter, TxCallbackAbort,
                       AbortBy, vars
  <1>12. CASE RingCall \/ AsyncCall \/ AsyncStep
    BY <1>1, <1>12
       DEF RingCall, Call, CallReady, CallRead, CallService, CallFlush, CallGet,
           CallClear, CallEnable, CallDisable, Begin, SetEnable, AsyncCall,
           CallStart, CallAbort, AsyncStep, StartArm, CleanMask, CleanArm,
           taskOnly, taskRest, hwVars, vars
  <1>13. CASE RingStep
    <2>1. CASE \/ ServiceTest \/ ServiceMask \/ ServiceRearm
               \/ Read \/ Status \/ Restore \/ FlushMask \/ FlushRing
      BY <1>1, <2>1
         DEF ServiceTest, ServiceMask, ServiceRearm, Read, ReadTest, ReadLoad,
             ReadStore, Status, GetMask, GetDone, ClearMask, ClearDone, Restore,
             FlushMask, FlushRing, Mask, taskRest, hwVars
    <2> QED
      BY Zenon, <1>6, <1>7, <1>13, <2>1 DEF RingStep, CleanFlush
  <1>14. CASE UNCHANGED avars
    BY <1>1, <1>14 DEF avars, vars
  <1> QED
    BY Zenon, <1>2, <1>3, <1>5, <1>9, <1>10, <1>11, <1>12, <1>13, <1>14
       DEF AsyncNext, Line, Environment, Handler
-----------------------------------------------------------------------------
(* Places.  Only the drain and its feed hook go through the labels at      *)
(* which a byte is in hand; every other step keeps out of them, and leaves *)
(* the byte in hand alone.                                                 *)
HandLabels == {"put", "store", "done"}

SameHands ==
    /\ UNCHANGED held
    /\ \A c \in Ctx : \A l \in HandLabels : pc'[c] = l <=> pc[c] = l

LEMMA RingPlaces ==
    ASSUME PcSafe, RingCall \/ RingStep \/ UNCHANGED avars
    PROVE  PcSafe' /\ SameHands
  <1> USE Contexts DEF PcSafe, SameHands, HandLabels, Goto, TaskAt, AsyncLabels, TaskLabels,
                       Masked
  <1>1. CASE RingCall
    BY <1>1 DEF RingCall, Call, CallReady, CallRead, CallService, CallFlush,
                CallGet, CallClear, CallEnable, CallDisable, Begin, SetEnable,
                taskRest
  <1>2. CASE ServiceTest \/ ServiceMask \/ ServiceAccount \/ ServiceRearm
    BY <1>2 DEF ServiceTest, ServiceMask, ServiceAccount, ServiceRearm,
                AfterService, Mask, taskRest
  <1>3. CASE Read
    BY <1>3 DEF Read, ReadTest, ReadLoad, ReadStore, taskRest
  <1>4. CASE Status \/ Restore
    BY <1>4 DEF Status, GetMask, GetDone, ClearMask, ClearDone, Restore, Mask,
                taskRest
  <1>5. CASE FlushMask \/ FlushRing \/ FlushFifo \/ FlushOerr
    BY <1>5 DEF FlushMask, FlushRing, FlushFifo, FlushOerr, Mask, taskRest
  <1>6. CASE UNCHANGED avars
    BY <1>6 DEF avars, vars
  <1> QED
    BY Zenon, <1>1, <1>2, <1>3, <1>4, <1>5, <1>6 DEF RingStep, CleanFlush

LEMMA OtherPlaces ==
    ASSUME PcSafe, Line \/ Handler \/ TxCallbackAbort \/ AsyncCall \/ AsyncStep
    PROVE  PcSafe' /\ SameHands
  <1> USE Contexts DEF PcSafe, SameHands, HandLabels, Goto, TaskAt, AsyncLabels, TaskLabels,
                       Masked
  <1>1. CASE Line
    BY <1>1 DEF Line, Environment, Receive, Lose, LoseEnable
  <1>2. CASE Handler
    BY <1>2 DEF Handler, HandlerEnter, IsrEnter, HandlerAccount
  <1>3. CASE TxCallbackAbort \/ CallAbort
    BY <1>3 DEF TxCallbackAbort, CallAbort, AbortBy, vars
  <1>4. CASE CallStart
    BY <1>4 DEF CallStart, Free, taskOnly
  <1>5. CASE AsyncStep
    BY <1>5 DEF AsyncStep, StartArm, CleanMask, CleanArm, taskOnly
  <1> QED
    BY Zenon, <1>1, <1>2, <1>3, <1>4, <1>5 DEF AsyncCall

LEMMA CallbackPlaces ==
    ASSUME PcSafe, NEW c \in Ctx, Callback(c)
    PROVE  PcSafe' /\ SameHands
  <1> USE Contexts DEF PcSafe, SameHands, HandLabels, Goto, AsyncLabels, TaskLabels, Masked,
                       InCallback, At, Feeding
  <1>1. CASE CallbackReturn(c)
    BY <1>1 DEF CallbackReturn
  <1>2. CASE CallbackStart(c) \/ CallbackAbort(c) \/ CallbackReady(c)
    BY <1>2 DEF CallbackStart, CallbackAbort, AbortBy, CallbackReady, vars
  <1> QED
    BY <1>1, <1>2 DEF Callback

LEMMA DrainPlaces ==
    ASSUME PcSafe, NEW c \in Ctx, Drain(c)
    PROVE  PcSafe'
  BY DEF PcSafe, Drain, Take, Drained, FeedTest, FeedRing, Put, FeedStore, FeedDone,
         Goto, AsyncLabels, TaskLabels, Masked, Feeding

LEMMA Places ==
    ASSUME PcSafe, [AsyncNext]_avars
    PROVE  PcSafe' /\ (SameHands \/ \E c \in Ctx : Drain(c))
  BY Zenon, RingPlaces, OtherPlaces, CallbackPlaces, DrainPlaces DEF AsyncNext

(* The byte in hand is one the line delivered.                             *)
LEMMA HandStep ==
    ASSUME HwTypeOK, PcSafe, HandSafe, [AsyncNext]_avars
    PROVE  HandSafe'
  <1>1. CASE SameHands
    BY <1>1 DEF HandSafe, SameHands, HandLabels
  <1>2. ASSUME NEW c \in Ctx, Drain(c) PROVE HandSafe'
    <2> USE DEF PcSafe, HandSafe, Goto
    <2>1. CASE Take(c)
      <3>1. Head(fifo) \in Bytes
        BY <2>1, Pop DEF Take
      <3> QED
        BY <2>1, <3>1 DEF Take, Bytes
    <2>2. CASE Drained(c) \/ FeedTest(c) \/ FeedDone(c)
      BY <2>2 DEF Drained, FeedTest, FeedDone, At
    <2>3. CASE FeedRing(c) \/ FeedStore(c)
      BY <2>3 DEF FeedRing, Put, FeedStore, At
    <2> QED
      BY Zenon, <1>2, <2>1, <2>2, <2>3 DEF Drain
  <1> QED
    BY <1>1, <1>2, Places
-----------------------------------------------------------------------------
(* Exclusion.  A masked section of the task starts with the enable bit     *)
(* cleared; the bit is set again only by the step that ends the section,   *)
(* or by a callback inside the handler, which is running then.             *)
LEMMA MaskedAsyncStep ==
    ASSUME ReadyInHandler, PcSafe, MaskedSafe, [AsyncNext]_avars
    PROVE  MaskedSafe'
  <1> USE Contexts DEF PcSafe, MaskedSafe, Goto, TaskAt, AsyncMasked, Masked, Feeding
  <1>1. CASE Line \/ TxCallbackAbort \/ UNCHANGED avars
    BY <1>1 DEF Line, Environment, Receive, Lose, LoseEnable, TxCallbackAbort,
                AbortBy, avars, vars, intVars
  <1>2. CASE Handler
    BY <1>2 DEF Handler, HandlerEnter, IsrEnter, HandlerAccount, intVars
  <1>3. ASSUME NEW c \in Ctx, Drain(c) PROVE MaskedSafe'
    BY <1>3 DEF Drain, Take, Drained, FeedTest, FeedRing, Put, FeedStore,
                FeedDone, Runs, At, intVars
  <1>4. ASSUME NEW c \in Ctx, Callback(c) PROVE MaskedSafe'
    <2>1. CASE CallbackReturn(c)
      BY <1>4, <2>1 DEF CallbackReturn, InCallback, At, Runs, intVars
    <2>2. CASE CallbackStart(c) \/ CallbackAbort(c)
      BY <2>2 DEF CallbackStart, CallbackAbort, AbortBy, vars, intVars
    <2>3. CASE CallbackReady(c)
      BY <2>3 DEF CallbackReady, ReadyInHandler, InCallback, At
    <2> QED
      BY <1>4, <2>1, <2>2, <2>3 DEF Callback
  <1>5. CASE RingCall
    BY <1>5 DEF RingCall, Call, CallReady, CallRead, CallService, CallFlush,
                CallGet, CallClear, CallEnable, CallDisable, Begin, SetEnable,
                intVars
  <1>6. CASE ServiceTest \/ ServiceMask \/ ServiceAccount \/ ServiceRearm
    BY <1>6 DEF ServiceTest, ServiceMask, ServiceAccount, ServiceRearm,
                AfterService, Mask, MaskRx, intVars
  <1>7. CASE Read
    BY <1>7 DEF Read, ReadTest, ReadLoad, ReadStore, intVars
  <1>8. CASE Status \/ Restore
    BY <1>8 DEF Status, GetMask, GetDone, ClearMask, ClearDone, Restore, Mask,
                MaskRx, intVars
  <1>9. CASE FlushMask \/ FlushRing \/ FlushFifo \/ FlushOerr
    BY <1>9 DEF FlushMask, FlushRing, FlushFifo, FlushOerr, Mask, MaskRx, intVars
  <1>10. CASE AsyncCall \/ AsyncStep
    BY <1>10 DEF AsyncCall, CallStart, CallAbort, Free, AsyncStep, StartArm,
                 CleanMask, CleanArm, taskOnly, vars, intVars
  <1> QED
    BY Zenon, <1>1, <1>2, <1>3, <1>4, <1>5, <1>6, <1>7, <1>8, <1>9, <1>10
       DEF AsyncNext, RingStep, CleanFlush
-----------------------------------------------------------------------------
(* The parameter of the task's call lives until the transfer is armed.     *)
LEMMA RequestFrame ==
    ASSUME RequestSafe, UNCHANGED <<request, clean>>,
           pc'["task"] \in {"start_arm", "clean_mask"} => pc["task"] = pc'["task"]
    PROVE  RequestSafe'
  BY DEF RequestSafe

LEMMA RequestStep ==
    ASSUME PcSafe, RequestSafe, [AsyncNext]_avars
    PROVE  RequestSafe'
  <1> USE Contexts DEF PcSafe, Goto, TaskAt
  <1>1. CASE Line \/ TxCallbackAbort \/ CallAbort \/ UNCHANGED avars
    BY <1>1, RequestFrame
       DEF Line, Environment, Receive, Lose, LoseEnable, TxCallbackAbort,
           CallAbort, AbortBy, avars, vars, asyncVars
  <1>2. CASE Handler
    BY <1>2, RequestFrame
       DEF Handler, HandlerEnter, IsrEnter, HandlerAccount, asyncVars
  <1>3. ASSUME NEW c \in Ctx, Drain(c) PROVE RequestSafe'
    BY <1>3, RequestFrame
       DEF Drain, Take, Drained, FeedTest, FeedRing, Put, FeedStore, FeedDone,
           asyncVars
  <1>4. ASSUME NEW c \in Ctx, Callback(c) PROVE RequestSafe'
    BY <1>4, RequestFrame
       DEF Callback, CallbackReturn, CallbackStart, CallbackAbort, AbortBy,
           CallbackReady, asyncVars, vars
  <1>5. CASE RingCall
    BY <1>5, RequestFrame
       DEF RingCall, Call, CallReady, CallRead, CallService, CallFlush, CallGet,
           CallClear, CallEnable, CallDisable, Begin, SetEnable, asyncVars
  <1>6. CASE RingStep
    <2>1. UNCHANGED <<request, clean>>
      BY <1>6 DEF RingStep, CleanFlush, asyncVars
    <2>2. pc'["task"] \in {"start_arm", "clean_mask"} => pc["task"] = pc'["task"]
      BY <1>6
         DEF RingStep, CleanFlush, ServiceTest, ServiceMask, ServiceAccount,
             ServiceRearm, AfterService, Read, ReadTest, ReadLoad, ReadStore,
             Status, GetMask, GetDone, ClearMask, ClearDone, Restore, FlushMask,
             FlushRing, FlushFifo, FlushOerr, Mask
    <2> QED
      BY <2>1, <2>2, RequestFrame
  <1>7. CASE CallStart
    BY <1>7 DEF CallStart, Free, RequestSafe
  <1>8. CASE StartArm
    BY <1>8 DEF StartArm, RequestSafe
  <1>9. CASE CleanMask
    <2>1. CASE rxie
      BY <1>9, <2>1 DEF CleanMask, RequestSafe
    <2>2. CASE ~rxie
      BY <1>9, <2>2 DEF CleanMask, RequestSafe
    <2> QED
      BY <2>1, <2>2
  <1>10. CASE CleanArm
    BY <1>10 DEF CleanArm, RequestSafe
  <1> QED
    BY Zenon, <1>1, <1>2, <1>3, <1>4, <1>5, <1>6, <1>7, <1>8, <1>9, <1>10
       DEF AsyncNext, AsyncCall, AsyncStep

LEMMA RestStep ==
    ASSUME HwTypeOK, RestSafe, [AsyncNext]_avars
    PROVE  RestSafe'
  <1>1. ring_got_data' \in BOOLEAN
    BY Zenon
       DEF RestSafe, AsyncNext, Line, Handler, HandlerEnter, HandlerAccount,
           TxCallbackAbort, AbortBy, Drain, FeedTest, FeedRing, FeedStore,
           FeedDone, Callback, CallbackReturn, CallbackStart, CallbackAbort,
           CallbackReady, RingCall, RingStep, CleanFlush, AsyncCall, CallStart,
           CallAbort, AsyncStep, StartArm, CleanMask, CleanArm, asyncVars, avars
  <1>2. boundary' \in {boundary, 0, arrived + 1}
    BY DEF AsyncNext, Line, Handler, HandlerEnter, HandlerAccount,
           TxCallbackAbort, AbortBy, Drain, FeedTest, FeedRing, FeedStore,
           FeedDone, Callback, CallbackReturn, CallbackStart, CallbackAbort,
           CallbackReady, RingCall, RingStep, CleanFlush, AsyncCall, CallStart,
           CallAbort, AsyncStep, StartArm, CleanMask, CleanArm, asyncVars, avars
  <1> QED
    BY <1>1, <1>2 DEF RestSafe, HwTypeOK
-----------------------------------------------------------------------------
(* The transfer.                                                           *)
LEMMA TransferFrame ==
    ASSUME TransferSafe, SameHands,
           UNCHANGED <<rx_async_len, stored>>,
           rx_async_busy' = rx_async_busy \/ rx_async_busy' = FALSE
    PROVE  TransferSafe'
  <1>1. rx_async_busy' \in BOOLEAN
    BY Zenon DEF TransferSafe
  <1>2. \A c \in Ctx : (pc'[c] = "store" <=> pc[c] = "store")
                      /\ (pc'[c] = "done" <=> pc[c] = "done")
    BY DEF SameHands, HandLabels
  <1> QED
    BY <1>1, <1>2 DEF TransferSafe

(* A transfer is armed with an empty buffer while no byte is on its way    *)
(* into one.                                                               *)
LEMMA TransferArm ==
    ASSUME TransferSafe, NEW n \in Requests, Arm(n),
           \A c \in Ctx : pc'[c] # "store"
    PROVE  TransferSafe'
  <1>1. rx_async_len' = n /\ stored' = <<>> /\ n \in Nat /\ n > 0
    BY DEF Arm
  <1>2. rx_async_busy' \in BOOLEAN
    BY Zenon DEF Arm
  <1>3. stored' \in Seq(Bytes) /\ Len(stored') = 0
    BY <1>1
  <1> QED
    BY <1>1, <1>2, <1>3 DEF TransferSafe

LEMMA TransferDrain ==
    ASSUME PcSafe, HandSafe, MaskedSafe, TransferSafe, NEW c \in Ctx, Drain(c)
    PROVE  TransferSafe'
  <1> USE DEF PcSafe, Goto
  <1>1. CASE Take(c) \/ Drained(c) \/ FeedRing(c)
    <2>1. UNCHANGED <<rx_async_busy, rx_async_len, stored>>
      BY <1>1 DEF Drain, Take, Drained, FeedRing, FeedTest, FeedStore, FeedDone, At, Put, asyncVars
    <2>2. \A d \in Ctx : (pc'[d] = "store" <=> pc[d] = "store")
                        /\ (pc'[d] = "done" <=> pc[d] = "done")
      BY <1>1 DEF Take, Drained, FeedRing, Put
    <2> QED
      BY <2>1, <2>2 DEF TransferSafe
  <1>2. CASE FeedTest(c)
    <2>1. rx_async_busy /\ UNCHANGED <<rx_async_busy, rx_async_len, stored>>
      BY <1>2 DEF FeedTest, asyncVars
    <2>2. pc[c] = "put" /\ pc' = [pc EXCEPT ![c] = "store"]
      BY <1>2 DEF FeedTest, At
    <2>3. \A d \in Ctx : pc[d] # "done"
      BY <1>2, <2>2, Contexts
         DEF FeedTest, At, Runs, MaskedSafe, AsyncMasked, Masked, Feeding
    <2> QED
      BY <2>1, <2>2, <2>3 DEF TransferSafe
  <1>3. CASE FeedStore(c)
    <2>1. /\ pc[c] = "store" /\ pc' = [pc EXCEPT ![c] = "done"]
          /\ stored' = Append(stored, held[c])
          /\ UNCHANGED <<rx_async_busy, rx_async_len>>
      BY <1>3 DEF FeedStore, At
    <2>2. held[c] \in Bytes /\ Len(stored) < rx_async_len
      BY <2>1 DEF HandSafe, TransferSafe
    <2>3. stored' \in Seq(Bytes) /\ Len(stored') = Len(stored) + 1
      BY <2>1, <2>2 DEF TransferSafe
    <2>4. \A d \in Ctx : pc'[d] # "store"
      BY <1>3, <2>1, Contexts
         DEF FeedStore, At, Runs, MaskedSafe, AsyncMasked, Masked, Feeding
    <2>5. pc'[c] = "done"
      BY <2>1
    <2> QED
      BY <2>1, <2>2, <2>3, <2>4, <2>5 DEF TransferSafe
  <1>4. CASE FeedDone(c)
    <2>1. /\ pc[c] = "done" /\ UNCHANGED <<rx_async_len, stored>>
          /\ pc' = [pc EXCEPT ![c] = IF Complete THEN "complete_cb" ELSE "drain"]
      BY <1>4 DEF FeedDone, At
    <2>2. rx_async_busy' \in BOOLEAN
      BY Zenon, <1>4 DEF FeedDone, TransferSafe
    <2>3. rx_async_busy' => ~Complete
      BY <1>4 DEF FeedDone
    <2>4. Len(stored) \in Nat /\ rx_async_len \in Nat
      BY DEF TransferSafe
    <2>5. \A d \in Ctx : pc'[d] = "store" => pc[d] = "store"
      BY <2>1
    <2> QED
      BY <2>1, <2>2, <2>3, <2>4, <2>5 DEF TransferSafe, Complete
  <1> QED
    BY Zenon, <1>1, <1>2, <1>3, <1>4 DEF Drain

LEMMA TransferCallback ==
    ASSUME PcSafe, MaskedSafe, TransferSafe, NEW c \in Ctx, Callback(c)
    PROVE  TransferSafe'
  <1>1. CASE CallbackStart(c)
    <2>1. pc' = pc /\ At(c, "complete_cb")
      BY <1>1 DEF CallbackStart, vars
    <2>2. \A d \in Ctx : pc'[d] # "store"
      BY <2>1, Contexts
         DEF At, Runs, MaskedSafe, AsyncMasked, Masked, Feeding
    <2>3. PICK n \in Requests : Arm(n)
      BY <1>1 DEF CallbackStart
    <2> QED
      BY <2>2, <2>3, TransferArm
  <1>2. CASE CallbackReturn(c) \/ CallbackAbort(c) \/ CallbackReady(c)
    <2>1. /\ UNCHANGED <<rx_async_len, stored>>
          /\ rx_async_busy' = rx_async_busy \/ rx_async_busy' = FALSE
      BY Zenon, <1>2 DEF CallbackReturn, CallbackAbort, AbortBy, CallbackReady,
                         asyncVars
    <2>2. SameHands
      BY CallbackPlaces
    <2> QED
      BY <2>1, <2>2, TransferFrame
  <1> QED
    BY Zenon, <1>1, <1>2 DEF Callback

LEMMA TransferStep ==
    ASSUME PcSafe, HandSafe, MaskedSafe, RequestSafe, TransferSafe,
           [AsyncNext]_avars
    PROVE  TransferSafe'
  <1>1. CASE StartArm \/ CleanArm
    <2>1. request \in Requests /\ Arm(request)
      BY <1>1 DEF StartArm, CleanArm, TaskAt, RequestSafe
    <2>2. \A d \in Ctx : pc'[d] # "store"
      BY <1>1, Contexts DEF StartArm, CleanArm, TaskAt, PcSafe, Goto
    <2> QED
      BY <2>1, <2>2, TransferArm
  <1>2. CASE CallStart \/ CleanMask \/ CallAbort
    <2>1. /\ UNCHANGED <<rx_async_len, stored>>
          /\ rx_async_busy' = rx_async_busy \/ rx_async_busy' = FALSE
      BY Zenon, <1>2 DEF CallStart, CleanMask, CallAbort
    <2>2. SameHands
      BY <1>2, OtherPlaces DEF AsyncCall, AsyncStep
    <2> QED
      BY <2>1, <2>2, TransferFrame
  <1>3. CASE Line \/ Handler \/ TxCallbackAbort
    <2>1. /\ UNCHANGED <<rx_async_len, stored>>
          /\ rx_async_busy' = rx_async_busy \/ rx_async_busy' = FALSE
      BY Zenon, <1>3 DEF Line, Handler, HandlerEnter, HandlerAccount,
                         TxCallbackAbort, AbortBy, asyncVars
    <2>2. SameHands
      BY <1>3, OtherPlaces
    <2> QED
      BY <2>1, <2>2, TransferFrame
  <1>4. CASE RingCall \/ RingStep \/ UNCHANGED avars
    <2>1. UNCHANGED <<rx_async_len, stored, rx_async_busy>>
      BY <1>4 DEF RingCall, RingStep, CleanFlush, asyncVars, avars
    <2>2. SameHands
      BY <1>4, RingPlaces
    <2> QED
      BY <2>1, <2>2, TransferFrame
  <1> QED
    BY Zenon, <1>1, <1>2, <1>3, <1>4, TransferDrain, TransferCallback
       DEF AsyncNext, AsyncCall, AsyncStep
-----------------------------------------------------------------------------
LEMMA AsyncInitInv == AsyncInit => AsyncInv
  <1> SUFFICES ASSUME AsyncInit PROVE AsyncInv
    OBVIOUS
  <1> USE DEF AsyncInit, Init, HwInit
  <1>1. HwTypeOK
    <2>1. fifo \in Seq(Bytes) /\ Len(fifo) <= FifoDepth
      OBVIOUS
    <2>2. oerr \in BOOLEAN
      BY Zenon
    <2> QED
      BY <2>1, <2>2 DEF HwTypeOK
  <1>2. IndexSafe /\ PcSafe /\ HandSafe /\ MaskedSafe
    BY DEF IndexSafe, PcSafe, HandSafe, MaskedSafe, AsyncLabels, TaskLabels,
           AsyncMasked, Masked, Feeding, Ctx, U16
  <1>3. clean \in BOOLEAN /\ rx_async_busy \in BOOLEAN /\ ring_got_data \in BOOLEAN
    BY Zenon
  <1>4. RequestSafe /\ RestSafe
    BY <1>3, Contexts DEF RequestSafe, RestSafe
  <1>5. TransferSafe
    <2>1. stored \in Seq(Bytes) /\ Len(stored) = 0 /\ rx_async_len = 0
      OBVIOUS
    <2>2. ~rx_async_busy /\ \A c \in Ctx : pc[c] = "idle"
      OBVIOUS
    <2> QED
      BY <1>3, <2>1, <2>2 DEF TransferSafe
  <1> QED
    BY <1>1, <1>2, <1>4, <1>5 DEF AsyncInv

LEMMA AsyncInvStep ==
    ASSUME ReadyInHandler
    PROVE  AsyncInv /\ [AsyncNext]_avars => AsyncInv'
  <1> SUFFICES ASSUME AsyncInv, [AsyncNext]_avars PROVE AsyncInv'
    OBVIOUS
  <1>1. HwTypeOK' /\ IndexSafe' /\ PcSafe' /\ HandSafe'
    BY HwStep, IndexStep, Places, HandStep DEF AsyncInv
  <1>2. MaskedSafe' /\ RequestSafe' /\ RestSafe' /\ TransferSafe'
    BY MaskedAsyncStep, RequestStep, RestStep, TransferStep DEF AsyncInv
  <1> QED
    BY <1>1, <1>2 DEF AsyncInv

LEMMA AsyncInvariance ==
    ASSUME ReadyInHandler
    PROVE  AsyncSpec => []AsyncInv
  <1>1. AsyncInit => AsyncInv
    BY AsyncInitInv
  <1>2. AsyncInv /\ [AsyncNext]_avars => AsyncInv'
    BY AsyncInvStep
  <1> QED
    BY <1>1, <1>2, PTL DEF AsyncSpec

(* No transfer is given more bytes than its buffer holds, in whatever      *)
(* order the feed hook, aborts and restarts come.                          *)
THEOREM BufferHolds ==
    ASSUME ReadyInHandler
    PROVE  AsyncSpec => []AsyncTypeOK
  <1>1. AsyncInv => AsyncTypeOK
    BY DEF AsyncInv, AsyncTypeOK, IndexSafe, PcSafe, HandSafe, RequestSafe,
           TransferSafe, RestSafe
  <1> QED
    BY <1>1, AsyncInvariance, PTL

(* One context drains at a time, although the drain runs callbacks that    *)
(* start, abort and, in the handler, poll.                                 *)
THEOREM OneDrain ==
    ASSUME ReadyInHandler
    PROVE  AsyncSpec => []DrainStaysExclusive
  <1>1. AsyncInv => DrainStaysExclusive
    BY DEF AsyncInv, MaskedSafe, DrainStaysExclusive
  <1> QED
    BY <1>1, AsyncInvariance, PTL
-----------------------------------------------------------------------------
(* An overrun.  Whatever the callback does, and wherever it polls.         *)
LEMMA OverrunFrame ==
    ASSUME OverrunEnds, UNCHANGED <<oerr, fifo>>,
           \A c \in Ctx : pc[c] \in Draining \cup {"flush_fifo", "flush_oerr"}
                             => pc'[c] = pc[c]
    PROVE  OverrunEnds'
  BY Contexts DEF OverrunEnds, Draining

LEMMA OverrunDrain ==
    ASSUME PcSafe, NEW c \in Ctx, Drain(c)
    PROVE  pc'[c] \in Draining
  BY DEF PcSafe, Drain, Take, Drained, FeedTest, FeedRing, Put, FeedStore,
         FeedDone, At, Goto, Draining, Feeding

LEMMA OverrunLine ==
    ASSUME HwTypeOK, OverrunEnds, Line
    PROVE  OverrunEnds'
  <1>1. CASE Receive
    <2>1. fifo' # <<>>
      BY <1>1 DEF Receive, Accept, HwTypeOK
    <2> QED
      BY <2>1 DEF OverrunEnds
  <1>2. CASE Lose
    <2>1. fifo' = fifo /\ pc' = pc /\ (oerr \/ Len(fifo) = FifoDepth)
      BY <1>2 DEF Lose, Overrun
    <2>2. fifo = <<>> => oerr
      <3>1. Len(<<>>) = 0 /\ FifoDepth # 0
        OBVIOUS
      <3> QED
        BY <2>1, <3>1
    <2> QED
      BY <2>1, <2>2 DEF OverrunEnds
  <1>3. CASE LoseEnable
    BY <1>3, OverrunFrame DEF LoseEnable, hwVars
  <1> QED
    BY <1>1, <1>2, <1>3 DEF Line, Environment

LEMMA OverrunCallback ==
    ASSUME PcSafe, OverrunEnds, NEW c \in Ctx, Callback(c)
    PROVE  OverrunEnds'
  <1> USE Contexts DEF PcSafe
  <1>1. CASE CallbackReturn(c)
    BY <1>1 DEF CallbackReturn, InCallback, At, Goto, hwVars, OverrunEnds,
                Draining, Feeding
  <1>2. CASE CallbackStart(c) \/ CallbackAbort(c)
    BY <1>2, OverrunFrame DEF CallbackStart, CallbackAbort, AbortBy, vars, hwVars
  <1>3. CASE CallbackReady(c)
    BY <1>3 DEF CallbackReady, OverrunEnds
  <1> QED
    BY Zenon, <1>1, <1>2, <1>3 DEF Callback

LEMMA OverrunTask ==
    ASSUME PcSafe, OverrunEnds, RingStep
    PROVE  OverrunEnds'
  <1> USE Contexts DEF PcSafe, TaskAt, Goto
  <1>1. CASE ServiceAccount \/ FlushOerr
    BY <1>1 DEF ServiceAccount, FlushOerr, ClearOERR, OverrunEnds
  <1>2. CASE FlushRing \/ FlushFifo
    BY <1>2 DEF FlushRing, FlushFifo, OverrunEnds
  <1>3. CASE \/ ServiceTest \/ ServiceMask \/ ServiceRearm \/ Read \/ Status
             \/ Restore \/ FlushMask
    BY <1>3 DEF ServiceTest, ServiceMask, ServiceRearm, AfterService, Read,
                ReadTest, ReadLoad, ReadStore, Status, GetMask, GetDone,
                ClearMask, ClearDone, Restore, FlushMask, Mask, hwVars,
                OverrunEnds, Draining, Feeding
  <1> QED
    BY Zenon, <1>1, <1>2, <1>3 DEF RingStep, CleanFlush

LEMMA OverrunAsyncStep ==
    ASSUME HwTypeOK, PcSafe, OverrunEnds, [AsyncNext]_avars
    PROVE  OverrunEnds'
  <1> USE Contexts DEF PcSafe, TaskAt, Goto
  <1>1. ASSUME NEW c \in Ctx, Drain(c) PROVE OverrunEnds'
    BY <1>1, OverrunDrain DEF OverrunEnds
  <1>2. CASE HandlerEnter
    BY <1>2 DEF HandlerEnter, IsrEnter, OverrunEnds, Draining
  <1>3. CASE HandlerAccount
    BY <1>3 DEF HandlerAccount, ClearOERR, OverrunEnds
  <1>4. CASE RingCall
    BY <1>4 DEF RingCall, Call, CallReady, CallRead, CallService, CallFlush,
                CallGet, CallClear, CallEnable, CallDisable, Begin, SetEnable,
                OverrunEnds, Draining, Feeding, hwVars
  <1>5. CASE AsyncCall \/ AsyncStep
    BY <1>5 DEF AsyncCall, CallStart, CallAbort, AsyncStep, StartArm, CleanMask,
                CleanArm, Free, taskOnly, vars, hwVars, OverrunEnds, Draining,
                Feeding
  <1>6. CASE TxCallbackAbort \/ UNCHANGED avars
    BY <1>6 DEF TxCallbackAbort, AbortBy, avars, vars, hwVars, OverrunEnds
  <1> QED
    BY Zenon, <1>1, <1>2, <1>3, <1>4, <1>5, <1>6, OverrunLine, OverrunCallback,
       OverrunTask DEF AsyncNext, Handler

(* Reception is never left stopped with an empty FIFO, whatever starts,    *)
(* ends or polls in the middle of the drain.  Unlike the exclusion of the  *)
(* drains, this needs no condition on where the callback polls.            *)
THEOREM OverrunNeverLeft == AsyncSpec => []OverrunEnds
  <1>1. AsyncInit => HwTypeOK /\ PcSafe /\ OverrunEnds
    <2>1. AsyncInit => AsyncInv
      BY AsyncInitInv
    <2> QED
      BY <2>1 DEF AsyncInv, AsyncInit, Init, HwInit, OverrunEnds
  <1>2. HwTypeOK /\ PcSafe /\ OverrunEnds /\ [AsyncNext]_avars
          => (HwTypeOK /\ PcSafe /\ OverrunEnds)'
    BY HwStep, Places, OverrunAsyncStep
  <1> QED
    BY <1>1, <1>2, PTL DEF AsyncSpec
-----------------------------------------------------------------------------
(* A clean start.  Its flush runs with the handler out and the bit off, on *)
(* behalf of an idle engine; whatever is in the FIFO, in hand or stored    *)
(* after it arrived behind the flush, and the ring stays empty because an  *)
(* active transfer takes every byte first.                                 *)
CleanPlaces == {"flush_mask", "flush_ring", "flush_fifo", "flush_oerr",
                "restore", "idle"}

ReadSafe == pc["task"] \in {"rd_load", "rd_store"} => ~RingEmpty

QuietSafe ==
    clean \/ pc["task"] \in {"start_arm", "clean_mask"} =>
        ~rx_async_busy /\ pc["isr"] \notin Feeding

CleanSafe ==
    clean =>
        /\ pc["task"] \in CleanPlaces
        /\ pc["isr"] = "idle"
        /\ ~rxie
        /\ pc["task"] # "flush_mask" => ~ie
        /\ pc["task"] \in {"flush_fifo", "flush_oerr", "restore", "idle"} => RingEmpty

Bounded ==
    \/ clean /\ pc["task"] \in {"flush_oerr", "restore", "idle"}
    \/ rx_async_busy /\ boundary # 0

BoundarySafe ==
    Bounded =>
        /\ RingEmpty
        /\ boundary <= arrived + 1
        /\ \A k \in 1 .. Len(fifo) : boundary <= fifo[k]
        /\ \A c \in Ctx : pc[c] \in {"put", "store"} => boundary <= held[c]
        /\ rx_async_busy => \A i \in 1 .. Len(stored) : boundary <= stored[i]

(* A reader past its test finds the ring as it left it, or fuller.         *)
LEMMA ReadSafeStep ==
    ASSUME PcSafe, ReadSafe, [AsyncNext]_avars
    PROVE  ReadSafe'
  <1> USE Contexts DEF PcSafe, ReadSafe, RingEmpty, Goto, TaskAt
  <1>1. CASE Line \/ TxCallbackAbort \/ UNCHANGED avars
    BY <1>1 DEF Line, Environment, Receive, Lose, LoseEnable, TxCallbackAbort,
                AbortBy, avars, vars, ringVars
  <1>2. CASE Handler
    BY <1>2 DEF Handler, HandlerEnter, IsrEnter, HandlerAccount, ringVars
  <1>3. ASSUME NEW c \in Ctx, Put(c) PROVE ReadSafe'
    <2>1. \/ rx_write_idx' = rx_write_idx /\ NextIdx(rx_write_idx) = rx_read_idx
          \/ rx_write_idx' # rx_read_idx
      BY <1>3 DEF Put, RingPush
    <2>2. rx_read_idx' = rx_read_idx
      BY <1>3 DEF Put
    <2>3. pc'["task"] \in {"rd_load", "rd_store"} => pc["task"] = pc'["task"]
      BY <1>3 DEF Put
    <2> QED
      BY <2>1, <2>2, <2>3
  <1>4. ASSUME NEW c \in Ctx, Drain(c) PROVE ReadSafe'
    BY <1>3, <1>4 DEF Drain, Take, Drained, FeedTest, FeedRing, FeedStore,
                      FeedDone, ringSide, ringVars
  <1>5. ASSUME NEW c \in Ctx, Callback(c) PROVE ReadSafe'
    BY <1>5 DEF Callback, CallbackReturn, CallbackStart, CallbackAbort, AbortBy,
                CallbackReady, ringSide, ringVars, vars
  <1>6. CASE RingCall \/ AsyncCall \/ AsyncStep
    BY <1>6 DEF RingCall, Call, CallReady, CallRead, CallService, CallFlush,
                CallGet, CallClear, CallEnable, CallDisable, Begin, SetEnable,
                AsyncCall, CallStart, CallAbort, AsyncStep, StartArm, CleanMask,
                CleanArm, Free, taskOnly, ringSide, vars, taskRest, ringVars
  <1>7. CASE Read
    BY <1>7 DEF Read, ReadTest, ReadLoad, ReadStore, ringVars, taskRest
  <1>8. CASE RingStep /\ ~Read
    BY <1>8 DEF RingStep, CleanFlush, ServiceTest, ServiceMask, ServiceAccount,
                ServiceRearm, AfterService, Status, GetMask, GetDone, ClearMask,
                ClearDone, Restore, FlushMask, FlushRing, FlushFifo, FlushOerr,
                Mask, taskRest, ringVars
  <1> QED
    BY Zenon, <1>1, <1>2, <1>4, <1>5, <1>6, <1>7, <1>8 DEF AsyncNext, RingStep

(* Nothing can start a transfer between the busy test of the task's call   *)
(* and its arm: a chain starts only from a transfer that completed.        *)
LEMMA QuietStep ==
    ASSUME PcSafe, RequestSafe, QuietSafe, CleanSafe, [AsyncNext]_avars
    PROVE  QuietSafe'
  <1> USE Contexts DEF PcSafe, QuietSafe, Feeding, Goto, TaskAt
  <1>1. CASE Line \/ TxCallbackAbort \/ UNCHANGED avars
    BY <1>1 DEF Line, Environment, Receive, Lose, LoseEnable, TxCallbackAbort,
                AbortBy, avars, vars, asyncVars
  <1>2. CASE Handler
    BY <1>2 DEF Handler, HandlerEnter, IsrEnter, HandlerAccount, asyncVars
  <1>3. ASSUME NEW c \in Ctx, Drain(c) PROVE QuietSafe'
    BY <1>3 DEF Drain, Take, Drained, FeedTest, FeedRing, Put, FeedStore,
                FeedDone, Runs, At, asyncVars
  <1>4. ASSUME NEW c \in Ctx, Callback(c) PROVE QuietSafe'
    BY <1>4 DEF Callback, CallbackReturn, CallbackStart, CallbackAbort, AbortBy,
                CallbackReady, InCallback, At, Runs, asyncVars, vars, CleanSafe,
                CleanPlaces
  <1>5. CASE RingCall
    BY <1>5 DEF RingCall, Call, CallReady, CallRead, CallService, CallFlush,
                CallGet, CallClear, CallEnable, CallDisable, Begin, SetEnable,
                asyncVars
  <1>6. CASE RingStep
    BY <1>6 DEF RingStep, CleanFlush, ServiceTest, ServiceMask, ServiceAccount,
                ServiceRearm, AfterService, Read, ReadTest, ReadLoad, ReadStore,
                Status, GetMask, GetDone, ClearMask, ClearDone, Restore,
                FlushMask, FlushRing, FlushFifo, FlushOerr, Mask, asyncVars
  <1>7. CASE AsyncCall
    BY <1>7 DEF AsyncCall, CallStart, CallAbort, Free, vars
  <1>8. CASE AsyncStep
    BY <1>8 DEF AsyncStep, StartArm, CleanMask, CleanArm, RequestSafe, taskOnly
  <1> QED
    BY Zenon, <1>1, <1>2, <1>3, <1>4, <1>5, <1>6, <1>7, <1>8 DEF AsyncNext

LEMMA CleanStep ==
    ASSUME PcSafe, RequestSafe, QuietSafe, CleanSafe, [AsyncNext]_avars
    PROVE  CleanSafe'
  <1> USE Contexts DEF PcSafe, CleanSafe, CleanPlaces, RingEmpty, Goto, TaskAt
  <1>1. CASE Line \/ TxCallbackAbort \/ UNCHANGED avars
    BY <1>1 DEF Line, Environment, Receive, Lose, LoseEnable, TxCallbackAbort,
                AbortBy, avars, vars, asyncVars, ringVars, intVars, taskLocal
  <1>2. CASE Handler
    BY <1>2 DEF Handler, HandlerEnter, IsrEnter, HandlerAccount, asyncVars
  <1>3. ASSUME NEW c \in Ctx, Drain(c) PROVE CleanSafe'
    BY <1>3 DEF Drain, Take, Drained, FeedTest, FeedRing, Put, FeedStore,
                FeedDone, Runs, At, asyncVars
  <1>4. ASSUME NEW c \in Ctx, Callback(c) PROVE CleanSafe'
    BY <1>4 DEF Callback, CallbackReturn, CallbackStart, CallbackAbort, AbortBy,
                CallbackReady, InCallback, At, Runs, asyncVars, vars
  <1>5. CASE RingCall
    BY <1>5 DEF RingCall, asyncVars
  <1>6. CASE RingStep
    <2>1. clean' = clean
      BY <1>6 DEF RingStep, CleanFlush, asyncVars
    <2>2. CASE \/ ServiceTest \/ ServiceMask \/ ServiceAccount \/ ServiceRearm
               \/ Read \/ Status
      BY <2>1, <2>2
         DEF ServiceTest, ServiceMask, ServiceAccount, ServiceRearm, Read,
             ReadTest, ReadLoad, ReadStore, Status, GetMask, GetDone, ClearMask,
             ClearDone, Mask
    <2>3. CASE FlushMask \/ Restore
      BY <2>1, <2>3
         DEF FlushMask, Restore, Mask, MaskRx, taskRest, ringVars
    <2>4. CASE FlushRing
      BY <2>1, <2>4 DEF FlushRing, taskLocal, intVars
    <2>5. CASE FlushFifo \/ FlushOerr
      BY <2>1, <2>5 DEF FlushFifo, FlushOerr, taskRest, ringVars, intVars
    <2> QED
      BY Zenon, <1>6, <2>2, <2>3, <2>4, <2>5 DEF RingStep, CleanFlush
  <1>7. CASE AsyncCall
    BY <1>7 DEF AsyncCall, CallStart, CallAbort, Free, vars, ringVars, intVars,
                taskLocal
  <1>8. CASE StartArm \/ CleanArm
    BY <1>8 DEF StartArm, CleanArm, RequestSafe
  <1>9. CASE CleanMask
    BY <1>9 DEF CleanMask, RequestSafe
  <1> QED
    BY Zenon, <1>1, <1>2, <1>3, <1>4, <1>5, <1>6, <1>7, <1>8, <1>9
       DEF AsyncNext, AsyncStep

(* What is in the FIFO after the step was in it before.                    *)
Shorter == \A k \in 1 .. Len(fifo') : \E j \in 1 .. Len(fifo) : fifo'[k] = fifo[j]

LEMMA ShorterCases ==
    ASSUME HwTypeOK,
           fifo' = fifo \/ fifo' = <<>> \/ (fifo # <<>> /\ fifo' = Tail(fifo))
    PROVE  Shorter
  <1>1. CASE fifo' = fifo
    BY <1>1 DEF Shorter, HwTypeOK
  <1>2. CASE fifo' = <<>>
    BY <1>2 DEF Shorter
  <1>3. CASE fifo # <<>> /\ fifo' = Tail(fifo)
    BY <1>3 DEF Shorter, HwTypeOK
  <1> QED
    BY <1>1, <1>2, <1>3

LEMMA BoundaryFrame ==
    ASSUME BoundarySafe, Bounded' => Bounded, Bounded => RingEmpty', Shorter,
           UNCHANGED <<boundary, stored, held, arrived>>,
           rx_async_busy' => rx_async_busy,
           \A c \in Ctx : pc'[c] \in {"put", "store"} => pc[c] \in {"put", "store"}
    PROVE  BoundarySafe'
  BY DEF BoundarySafe, Shorter

LEMMA BoundaryDrain ==
    ASSUME HwTypeOK, PcSafe, HandSafe, TransferSafe, CleanSafe, BoundarySafe,
           NEW c \in Ctx, Drain(c)
    PROVE  BoundarySafe'
  <1> USE DEF PcSafe, Goto
  <1>1. boundary' = boundary /\ clean' = clean /\ arrived' = arrived
    BY DEF Drain, Take, Drained, FeedTest, FeedRing, FeedStore, FeedDone, Put, hwVars, asyncVars
  <1>2. rx_async_busy' => rx_async_busy
    BY DEF Drain, FeedTest, FeedRing, FeedStore, FeedDone, asyncVars
  <1>3. ~clean
    BY Contexts
       DEF Drain, Take, Drained, FeedTest, FeedRing, FeedStore, FeedDone, Put, At,
           Runs, CleanSafe, CleanPlaces
  <1>4. Bounded' => Bounded
    BY <1>1, <1>2, <1>3 DEF Bounded
  <1>5. CASE Take(c)
    <2>1. Shorter
      BY <1>5, ShorterCases DEF Take, URXBE, ReadRXREG
    <2>2. fifo # <<>> /\ Head(fifo) = fifo[1] /\ 1 \in 1 .. Len(fifo)
      BY <1>5 DEF Take, URXBE, HwTypeOK
    <2>3. RingEmpty' <=> RingEmpty
      BY <1>5 DEF Take, RingEmpty, ringVars
    <2>4. stored' = stored
      BY <1>5 DEF Drain, Take, FeedTest, FeedRing, FeedStore, FeedDone, Put, At, asyncVars
    <2>5. held' = [held EXCEPT ![c] = Head(fifo)]
      BY <1>5 DEF Take
    <2>6. \A d \in Ctx : d # c => pc'[d] = pc[d]
      BY <1>5 DEF Take
    <2>7. \A d \in Ctx : Bounded /\ pc'[d] \in {"put", "store"} => boundary <= held'[d]
      BY <2>2, <2>5, <2>6 DEF BoundarySafe, HandSafe
    <2> QED
      BY <1>1, <1>2, <1>4, <2>1, <2>3, <2>4, <2>7 DEF BoundarySafe, Shorter
  <1>6. CASE Drained(c) \/ FeedTest(c) \/ FeedDone(c)
    <2>1. UNCHANGED <<fifo, held, rx_read_idx, rx_write_idx, stored>>
      BY <1>6 DEF Drain, Take, Drained, FeedTest, FeedRing, FeedStore, FeedDone,
                  Put, At, asyncVars, hwVars, ringVars, ringSide
    <2>2. \A d \in Ctx : pc'[d] \in {"put", "store"} => pc[d] \in {"put", "store"}
      BY <1>6 DEF Drained, FeedTest, FeedDone, At
    <2>3. Shorter
      BY <2>1, ShorterCases
    <2>4. Bounded => RingEmpty'
      BY <2>1 DEF BoundarySafe, RingEmpty
    <2> QED
      BY <1>1, <1>2, <1>4, <2>1, <2>2, <2>3, <2>4, BoundaryFrame
  <1>7. CASE FeedRing(c)
    BY <1>2, <1>3, <1>4, <1>7 DEF FeedRing, BoundarySafe, Bounded
  <1>8. CASE FeedStore(c)
    <2>1. /\ UNCHANGED <<fifo, rx_read_idx, rx_write_idx>>
          /\ stored' = Append(stored, held[c])
          /\ held' = [held EXCEPT ![c] = 0]
          /\ pc[c] = "store" /\ pc' = [pc EXCEPT ![c] = "done"]
      BY <1>8 DEF FeedStore, At, hwVars, ringVars, ringSide
    <2>2. held[c] \in Bytes /\ stored \in Seq(Bytes)
      BY <2>1 DEF HandSafe, TransferSafe
    <2>3. \A i \in 1 .. Len(stored') :
             \/ stored'[i] = held[c]
             \/ i \in 1 .. Len(stored) /\ stored'[i] = stored[i]
      BY <2>1, <2>2
    <2>4. \A d \in Ctx : pc'[d] \in {"put", "store"} =>
                           pc[d] \in {"put", "store"} /\ held'[d] = held[d]
      BY <2>1 DEF HandSafe
    <2>5. Bounded => RingEmpty'
      BY <2>1 DEF BoundarySafe, RingEmpty
    <2> QED
      BY <1>1, <1>2, <1>4, <2>1, <2>3, <2>4, <2>5 DEF BoundarySafe
  <1> QED
    BY Zenon, <1>5, <1>6, <1>7, <1>8 DEF Drain

LEMMA BoundaryStep ==
    ASSUME HwTypeOK, PcSafe, HandSafe, RequestSafe, TransferSafe, RestSafe,
           ReadSafe, QuietSafe, CleanSafe, BoundarySafe, [AsyncNext]_avars
    PROVE  BoundarySafe'
  <1> USE Contexts DEF PcSafe, Goto, TaskAt
  <1>1. CASE Receive /\ UNCHANGED asyncVars
    <2>1. /\ arrived' = arrived + 1 /\ fifo' = Append(fifo, arrived + 1)
          /\ UNCHANGED <<pc, held, rx_read_idx, rx_write_idx>>
      BY <1>1 DEF Receive, Accept, ringVars
    <2>2. UNCHANGED <<boundary, stored, rx_async_busy, clean>>
      BY <1>1 DEF asyncVars
    <2>3. \A k \in 1 .. Len(fifo') :
             \/ fifo'[k] = arrived + 1
             \/ k \in 1 .. Len(fifo) /\ fifo'[k] = fifo[k]
      BY <2>1 DEF HwTypeOK
    <2>4. boundary \in Nat /\ arrived \in Nat
      BY DEF HwTypeOK, RestSafe
    <2> QED
      BY <2>1, <2>2, <2>3, <2>4 DEF BoundarySafe, Bounded, RingEmpty
  <1>2. CASE Lose /\ UNCHANGED asyncVars
    <2>1. /\ arrived' = arrived + 1 /\ fifo' = fifo
          /\ UNCHANGED <<pc, held, rx_read_idx, rx_write_idx>>
      BY <1>2 DEF Lose, Overrun, ringVars
    <2>2. UNCHANGED <<boundary, stored, rx_async_busy, clean>>
      BY <1>2 DEF asyncVars
    <2>3. boundary \in Nat /\ arrived \in Nat
      BY DEF HwTypeOK, RestSafe
    <2> QED
      BY <2>1, <2>2, <2>3 DEF BoundarySafe, Bounded, RingEmpty
  <1>3. CASE \/ LoseEnable /\ UNCHANGED asyncVars
             \/ TxCallbackAbort \/ CallAbort \/ UNCHANGED avars
    <2>1. /\ UNCHANGED <<fifo, arrived, pc, held, rx_read_idx, rx_write_idx,
                         boundary, stored, clean>>
          /\ rx_async_busy' = rx_async_busy \/ rx_async_busy' = FALSE
      BY Zenon, <1>3 DEF LoseEnable, TxCallbackAbort, CallAbort, AbortBy, avars, vars,
                  hwVars, ringVars, asyncVars
    <2>2. Shorter
      BY <2>1, ShorterCases
    <2>3. (Bounded' => Bounded) /\ (Bounded => RingEmpty')
      BY <2>1 DEF Bounded, BoundarySafe, RingEmpty
    <2> QED
      BY <2>1, <2>2, <2>3, BoundaryFrame
  <1>4. CASE Handler
    <2>1. /\ UNCHANGED <<arrived, held, rx_read_idx, rx_write_idx, boundary,
                         stored, clean, rx_async_busy>>
          /\ pc'["task"] = pc["task"] /\ pc'["isr"] \notin {"put", "store"}
      BY <1>4 DEF Handler, HandlerEnter, IsrEnter, HandlerAccount, hwVars,
                  ringVars, asyncVars
    <2>2. fifo' = fifo \/ fifo' = <<>>
      BY Zenon, <1>4 DEF Handler, HandlerEnter, IsrEnter, HandlerAccount,
                         ClearOERR, hwVars
    <2>3. Shorter
      BY <2>2, ShorterCases
    <2>4. (Bounded' => Bounded) /\ (Bounded => RingEmpty')
      BY <2>1 DEF Bounded, BoundarySafe, RingEmpty
    <2> QED
      BY <2>1, <2>3, <2>4, BoundaryFrame
  <1>5. ASSUME NEW c \in Ctx, Callback(c) PROVE BoundarySafe'
    <2>1. ~clean /\ clean' = clean
      BY <1>5 DEF Callback, CallbackReturn, CallbackStart, CallbackAbort, AbortBy,
                  CallbackReady, InCallback, At, Runs, asyncVars, CleanSafe,
                  CleanPlaces
    <2>2. CASE CallbackStart(c) \/ CallbackReady(c)
      BY <2>1, <2>2 DEF CallbackStart, CallbackReady, BoundarySafe, Bounded,
                        asyncVars
    <2>3. CASE CallbackReturn(c) \/ CallbackAbort(c)
      <3>1. /\ UNCHANGED <<fifo, arrived, held, rx_read_idx, rx_write_idx, boundary,
                           stored>>
            /\ rx_async_busy' = rx_async_busy \/ rx_async_busy' = FALSE
        BY Zenon, <2>3 DEF CallbackReturn, CallbackAbort, AbortBy, vars, hwVars,
                    ringVars, asyncVars, ringSide
      <3>2. \A d \in Ctx : pc'[d] \in {"put", "store"} => pc[d] \in {"put", "store"}
        BY <2>3 DEF CallbackReturn, CallbackAbort, AbortBy, vars
      <3>3. Shorter
        BY <3>1, ShorterCases
      <3>4. (Bounded' => Bounded) /\ (Bounded => RingEmpty')
        BY <2>1, <3>1 DEF Bounded, BoundarySafe, RingEmpty
      <3> QED
        BY <3>1, <3>2, <3>3, <3>4, BoundaryFrame
    <2> QED
      BY Zenon, <1>5, <2>2, <2>3 DEF Callback
  <1>6. CASE RingCall
    <2>1. /\ ~clean
          /\ UNCHANGED <<fifo, arrived, held, rx_read_idx, rx_write_idx, boundary,
                         stored, clean, rx_async_busy>>
          /\ pc'["isr"] = pc["isr"] /\ pc'["task"] \notin {"put", "store"}
      BY <1>6 DEF RingCall, Call, CallReady, CallRead, CallService, CallFlush,
                  CallGet, CallClear, CallEnable, CallDisable, Begin, SetEnable,
                  taskRest, ringVars, asyncVars
    <2>2. Shorter
      BY <2>1, ShorterCases
    <2>3. (Bounded' => Bounded) /\ (Bounded => RingEmpty')
      BY <2>1 DEF Bounded, BoundarySafe, RingEmpty
    <2> QED
      BY <2>1, <2>2, <2>3, BoundaryFrame
  <1>7. CASE RingStep
    <2>1. UNCHANGED <<stored, clean, rx_async_busy>>
      BY <1>7 DEF RingStep, CleanFlush, asyncVars
    <2>2. CASE ~CleanFlush /\ ~ReadStore
      <3>1. boundary' = boundary
        BY <1>7, <2>2 DEF RingStep, asyncVars
      <3>2. /\ UNCHANGED <<arrived, held>>
            /\ pc'["isr"] = pc["isr"] /\ pc'["task"] \notin {"put", "store"}
        BY <1>7, <2>2
           DEF RingStep, ServiceTest, ServiceMask, ServiceAccount, ServiceRearm,
               AfterService, Read, ReadTest, ReadLoad, Status, GetMask, GetDone,
               ClearMask, ClearDone, Restore, FlushMask, FlushRing, FlushOerr,
               Mask, taskRest, hwVars
      <3>3. fifo' = fifo \/ fifo' = <<>>
        BY Zenon, <1>7, <2>2
           DEF RingStep, ServiceTest, ServiceMask, ServiceAccount, ServiceRearm,
               Read, ReadTest, ReadLoad, Status, GetMask, GetDone,
               ClearMask, ClearDone, Restore, FlushMask, FlushRing, FlushOerr,
               Mask, ClearOERR, hwVars
      <3>4. RingEmpty => RingEmpty'
        BY <1>7, <2>2
           DEF RingStep, ServiceTest, ServiceMask, ServiceAccount, ServiceRearm,
               Read, ReadTest, ReadLoad, Status, GetMask, GetDone, ClearMask,
               ClearDone, Restore, FlushMask, FlushRing, FlushOerr, Mask,
               taskRest, ringVars, RingEmpty
      <3>5. Bounded' => Bounded
        BY <1>7, <2>1, <2>2, <3>1
           DEF RingStep, ServiceTest, ServiceMask, ServiceAccount, ServiceRearm,
               AfterService, Read, ReadTest, ReadLoad, Status, GetMask, GetDone,
               ClearMask, ClearDone, Restore, FlushMask, FlushRing, FlushOerr,
               Mask, Bounded, CleanSafe, CleanPlaces
      <3>6. Shorter
        BY <3>3, ShorterCases
      <3>7. Bounded => RingEmpty'
        BY <3>4 DEF BoundarySafe
      <3> QED
        BY <2>1, <3>1, <3>2, <3>5, <3>6, <3>7, BoundaryFrame
    <2>3. CASE ReadStore
      <3>1. ~clean /\ ~RingEmpty
        BY <2>3 DEF ReadStore, CleanSafe, CleanPlaces, ReadSafe
      <3>2. boundary' = boundary
        BY <1>7, <2>3 DEF RingStep, CleanFlush, FlushFifo, ReadStore, asyncVars
      <3> QED
        BY <2>1, <3>1, <3>2 DEF BoundarySafe, Bounded
    <2>4. CASE CleanFlush
      <3>1. /\ pc["isr"] = "idle" /\ pc["task"] = "flush_fifo"
            /\ UNCHANGED <<held, arrived, rx_read_idx, rx_write_idx>>
            /\ pc' = pc \/ pc' = [pc EXCEPT !["task"] = "flush_oerr"]
            /\ IF URXBE THEN pc' = [pc EXCEPT !["task"] = "flush_oerr"] /\ fifo' = fifo
                         ELSE pc' = pc /\ fifo' = Tail(fifo)
            /\ boundary' = IF clean /\ URXBE THEN arrived + 1 ELSE boundary
        BY <2>4 DEF CleanFlush, FlushFifo, ReadRXREG, taskRest, ringVars
      <3>2. Shorter
        BY <3>1, ShorterCases DEF URXBE
      <3>3. CASE clean /\ URXBE
        <4>1. Len(fifo') = 0 /\ boundary' = arrived' + 1 /\ arrived' \in Nat
          BY <3>1, <3>3 DEF URXBE, HwTypeOK
        <4>2. RingEmpty' /\ ~rx_async_busy'
          BY <2>1, <3>1, <3>3 DEF CleanSafe, QuietSafe, RingEmpty
        <4>3. \A d \in Ctx : pc'[d] \notin {"put", "store"}
          BY <3>1, <3>3
        <4>4. \A k \in 1 .. Len(fifo') : boundary' <= fifo'[k]
          BY <4>1
        <4>5. boundary' <= arrived' + 1
          <5>1. \A n \in Nat : n + 1 \in Nat /\ n + 1 <= n + 1
            OBVIOUS
          <5> QED
            BY Zenon, <4>1, <5>1
        <4> QED
          BY <4>2, <4>3, <4>4, <4>5 DEF BoundarySafe
      <3>4. CASE ~(clean /\ URXBE)
        <4>1. boundary' = boundary
          BY <3>1, <3>4
        <4>2. (Bounded' => Bounded) /\ (Bounded => RingEmpty')
          BY <2>1, <3>1, <3>4, <4>1 DEF Bounded, BoundarySafe, RingEmpty
        <4>3. \A d \in Ctx : pc'[d] \in {"put", "store"} => pc[d] \in {"put", "store"}
          BY <3>1
        <4> QED
          BY <2>1, <3>1, <3>2, <4>1, <4>2, <4>3, BoundaryFrame
      <3> QED
        BY <3>3, <3>4
    <2> QED
      BY <2>2, <2>3, <2>4
  <1>8. CASE CallStart \/ CleanMask
    BY <1>8 DEF CallStart, CleanMask, Free, QuietSafe, RequestSafe, BoundarySafe,
                Bounded
  <1>9. CASE StartArm
    BY <1>9 DEF StartArm, RequestSafe, BoundarySafe, Bounded
  <1>10. CASE CleanArm
    <2>1. /\ Bounded
          /\ UNCHANGED <<fifo, arrived, held, pc, rx_read_idx, rx_write_idx,
                         boundary>>
          /\ stored' = <<>>
      BY <1>10 DEF CleanArm, Arm, Bounded, hwVars, ringVars, ringSide
    <2>2. Len(stored') = 0
      BY <2>1
    <2> QED
      BY <2>1, <2>2 DEF BoundarySafe, RingEmpty
  <1> QED
    BY Zenon, <1>1, <1>2, <1>3, <1>4, <1>5, <1>6, <1>7, <1>8, <1>9, <1>10,
       BoundaryDrain
       DEF AsyncNext, Line, Environment, AsyncCall, AsyncStep

(* A transfer started by rx_start_clean() gets bytes that arrived behind   *)
(* its flush, all of them, whatever the handler, the callbacks and the     *)
(* loss of the enable bit do.                                              *)
THEOREM CleanTransfer ==
    ASSUME ReadyInHandler
    PROVE  AsyncSpec => []CleanCapture
  <1> DEFINE CInv == ReadSafe /\ QuietSafe /\ CleanSafe /\ BoundarySafe
  <1>1. AsyncInit => CInv
    BY DEF AsyncInit, Init, ReadSafe, QuietSafe, CleanSafe, BoundarySafe, Bounded, Ctx
  <1>2. AsyncInv /\ CInv /\ [AsyncNext]_avars => CInv'
    BY ReadSafeStep, QuietStep, CleanStep, BoundaryStep DEF AsyncInv
  <1>3. AsyncInv /\ CInv => CleanCapture
    <2> SUFFICES ASSUME AsyncInv, CInv, rx_async_busy, boundary # 0
                 PROVE  RingEmpty /\ \A i \in 1 .. Len(stored) : stored[i] >= boundary
      BY DEF CleanCapture
    <2>1. stored \in Seq(Bytes) /\ boundary \in Nat
      BY DEF AsyncInv, TransferSafe, RestSafe
    <2>2. RingEmpty /\ \A i \in 1 .. Len(stored) : boundary <= stored[i]
      BY DEF BoundarySafe, Bounded
    <2>3. \A i \in 1 .. Len(stored) : stored[i] \in Nat
      BY <2>1 DEF Bytes
    <2> QED
      BY <2>1, <2>2, <2>3
  <1> QED
    BY <1>1, <1>2, <1>3, AsyncInvariance, PTL DEF AsyncSpec
=============================================================================
