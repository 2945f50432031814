--------------------------- MODULE TxAsyncProofs ----------------------------
(***************************************************************************)
(* Proofs about TxAsync, for every depth of the FIFO and every number and  *)
(* length of transfers.  What an RX callback must not do is stated by      *)
(* three conditions on the constants, each named by the theorems that need *)
(* it: the descriptor and the order on the wire need ChainOnly, a served   *)
(* transfer NoStartAbove, a true completion ChainOnly and NotAbove.        *)
(***************************************************************************)
EXTENDS TxAsync, TLAPS

(* The task and the completion callback start transfers, no RX callback.   *)
ChainOnly == Starters \subseteq {"task", "tx"}

(* An RX callback that starts one does not preempt the TX handler.         *)
NoStartAbove == "rx" \in Starters => RxPrio <= TxPrio

(* The RX interrupt does not preempt the TX handler.                       *)
NotAbove == RxPrio <= TxPrio

(* Where tx_start() writes the descriptor, and where it has begun to.      *)
Publishing == {"pub_buf", "pub_len", "pub_count", "pub_busy"}
Begun      == {"pub_len", "pub_count", "pub_busy"}
Unsettled  == {"pub_len", "pub_count"}

(* The types alone, that a call has the length it is about to write, and   *)
(* that there is a buffer from the first transfer on.                      *)
Typed ==
    /\ InRange
    /\ \A c \in Ctx : pc[c] = "pub_len" => arg[c] \in Ids
    /\ \A c \in Ctx : pc[c] \in Begun => tx_async_buf # 0
    /\ tx_async_busy \/ pc["tx"] \in {"h_loop", "h_count"} => tx_async_buf # 0

(* The busy test still holds while the descriptor is written, and no other *)
(* context writes or reads it: the handler finds nothing active.           *)
Tested ==
    /\ pc["rx"] \notin Publishing
    /\ \A c \in Ctx : pc[c] \in Publishing => ~tx_async_busy
    /\ pc["task"] \in Publishing => pc["tx"] \in {"idle", "h_busy", "h_spurious"}

(* Buffer and length belong to one transfer as soon as both are written.   *)
Whole ==
    /\ tx_async_buf < next
    /\ \A c \in Ctx : pc[c] = "pub_len" => arg[c] = tx_async_buf
    /\ (\A c \in Ctx : pc[c] # "pub_len") /\ tx_async_buf # 0 =>
           tx_async_len = Length[tx_async_buf]

(* The history of TXREG against the descriptor: the transfer written last  *)
(* is the current one, up to its count, or an earlier one and nothing of   *)
(* the current one was sent yet.                                           *)
Order ==
    /\ last[1] <= tx_async_buf
    /\ \A c \in Ctx : pc[c] \in Begun => last[1] < tx_async_buf
    /\ (\A c \in Ctx : pc[c] \notin Unsettled) =>
           /\ last[1] = tx_async_buf => last[2] = Sent
           /\ last[1] # tx_async_buf => Sent = 0
           /\ Sent <= tx_async_len
    /\ last[1] # 0 => last[2] <= Length[last[1]]

IInv == Typed /\ Tested /\ Whole /\ Order

-----------------------------------------------------------------------------
(* A step of a context moves its own program counter.                      *)
LEMMA StepMoves ==
  ASSUME Typed, NEW c \in Ctx, NEW from, NEW to \in Labels, Step(c, from, to)
  PROVE  /\ pc' \in [Ctx -> Labels]
         /\ pc[c] = from /\ pc'[c] = to
         /\ \A d \in Ctx \ {c} : pc'[d] = pc[d]
  BY DEF Typed, InRange, Step

(* The task runs only while nothing else does.                             *)
LEMMA TaskAlone ==
  ASSUME NEW from, NEW to, Step("task", from, to)
  PROVE  pc["tx"] = "idle" /\ pc["rx"] = "idle"
  BY PrioAssumption DEF Step, Runs, Prio, Ctx

LEMMA HomeLabel ==
  ASSUME NEW c \in Ctx
  PROVE  Home(c) \in {"idle", "callback"} /\ Home(c) \in Labels
  BY DEF Home, Labels

-----------------------------------------------------------------------------
(* The types hold whoever starts and aborts.                               *)

(* The steps that leave the descriptor and the history of TXREG alone.     *)
LEMMA QuietTyped ==
  ASSUME Typed, UNCHANGED <<transfer, last, fin, aborted>>,
         pc' \in [Ctx -> Labels],
         \A c \in Ctx : pc'[c] \in Begun => pc'[c] = pc[c],
         pc'["tx"] \in {"h_loop", "h_count"} =>
             tx_async_busy \/ pc["tx"] \in {"h_loop", "h_count"},
         level' \in 0 .. TxDepth,
         event_callback' \in Nat, event_callback_user_data' \in Nat, cb' \in Nat,
         txif' \in BOOLEAN, txie' \in BOOLEAN, reported' \in 0 .. Transfers
  PROVE  Typed'
  BY DEF Typed, InRange, Begun, transfer, request

LEMMA InitTyped == Init => Typed
<1> SUFFICES ASSUME Init PROVE Typed
  OBVIOUS
<1>1. tx_async_busy \in BOOLEAN /\ txif \in BOOLEAN /\ txie \in BOOLEAN
  BY Zenon DEF Init
<1> QED
  BY <1>1, DepthAssumption, LengthAssumption
     DEF Init, Typed, InRange, Labels, Ctx, Begun

(* tx_start() writes the descriptor.                                       *)
LEMMA PublishTyped ==
  ASSUME Typed, NEW c \in Ctx,
         PublishBuf(c) \/ PublishLen(c) \/ PublishCount(c) \/ PublishBusy(c)
  PROVE  Typed'
<1>1. CASE PublishBuf(c)
  <2>1. /\ pc' \in [Ctx -> Labels]
        /\ pc'[c] = "pub_len" /\ \A d \in Ctx \ {c} : pc'[d] = pc[d]
    BY <1>1, StepMoves DEF PublishBuf, Labels
  <2>2. /\ next \in Ids /\ tx_async_buf' = next /\ next' = next + 1
        /\ arg' = [arg EXCEPT ![c] = next]
        /\ UNCHANGED <<tx_async_len, tx_async_count, tx_async_busy, callback, hw,
                       history>>
    BY <1>1 DEF PublishBuf
  <2> QED
    BY <2>1, <2>2, LengthAssumption
       DEF Typed, InRange, Ids, Ctx, Begun, callback, hw, history
<1>2. CASE PublishLen(c)
  <2>1. /\ pc' \in [Ctx -> Labels]
        /\ pc[c] = "pub_len" /\ pc'[c] = "pub_count"
        /\ \A d \in Ctx \ {c} : pc'[d] = pc[d]
    BY <1>2, StepMoves DEF PublishLen, Labels
  <2>2. tx_async_len' = Length[arg[c]] /\ arg' = [arg EXCEPT ![c] = 0]
    BY <1>2 DEF PublishLen
  <2>3. tx_async_len' \in Nat
    BY <2>1, <2>2, LengthAssumption DEF Typed
  <2> QED
    BY <1>2, <2>1, <2>2, <2>3, LengthAssumption
       DEF PublishLen, Typed, InRange, Ctx, Begun, callback, hw, history
<1>3. CASE PublishCount(c)
  <2>1. /\ pc' \in [Ctx -> Labels] /\ pc[c] = "pub_count" /\ pc'[c] = "pub_busy"
        /\ \A d \in Ctx \ {c} : pc'[d] = pc[d]
    BY <1>3, StepMoves DEF PublishCount, Labels
  <2> QED
    BY <1>3, <2>1 DEF PublishCount, Typed, InRange, Ctx, Begun, request,
       callback, hw, history
<1>4. CASE PublishBusy(c)
  <2>1. /\ pc' \in [Ctx -> Labels] /\ pc[c] = "pub_busy" /\ pc'[c] = "st_flag"
        /\ \A d \in Ctx \ {c} : pc'[d] = pc[d]
    BY <1>4, StepMoves DEF PublishBusy, Labels
  <2>2. tx_async_busy' \in BOOLEAN
    BY <1>4, Zenon DEF PublishBusy
  <2> QED
    BY <1>4, <2>1, <2>2 DEF PublishBusy, Typed, InRange, Ctx, Begun, request,
       callback, hw, history
<1> QED
  BY <1>1, <1>2, <1>3, <1>4

(* The rest of tx_start(), tx_abort() and the return from a callback.      *)
LEMMA CallTyped ==
  ASSUME Typed, NEW c \in Ctx, StartCall(c) \/ AbortCall(c) \/ Run(c) \/ Return(c)
  PROVE  Typed'
<1>1. CASE StartCall(c) \/ AbortCall(c) \/ Return(c)
  <2>1. /\ pc' \in [Ctx -> Labels]
        /\ \A d \in Ctx : pc'[d] \in Begun => pc'[d] = pc[d]
        /\ pc'["tx"] \in {"h_loop", "h_count"} => pc["tx"] \in {"h_loop", "h_count"}
    BY <1>1, StepMoves DEF StartCall, AbortCall, Return, Labels, Ctx, Begun
  <2> QED
    BY <1>1, <2>1, QuietTyped
       DEF StartCall, AbortCall, Return, Typed, InRange, transfer, callback, hw,
           history
<1>2. CASE StartFlag(c) \/ AbortFlag(c) \/ StartRaise(c)
  <2>1. /\ pc' \in [Ctx -> Labels]
        /\ \A d \in Ctx : pc'[d] \in Begun => pc'[d] = pc[d]
        /\ pc'["tx"] \in {"h_loop", "h_count"} => pc["tx"] \in {"h_loop", "h_count"}
    BY <1>2, StepMoves, HomeLabel
       DEF StartFlag, AbortFlag, StartRaise, Labels, Ctx, Begun
  <2>2. txif' \in BOOLEAN
    BY <1>2, Zenon DEF StartFlag, AbortFlag, StartRaise
  <2> QED
    BY <1>2, <2>1, <2>2, QuietTyped
       DEF StartFlag, AbortFlag, StartRaise, Typed, InRange, transfer, callback,
           history
<1>3. CASE StartEnable(c) \/ AbortEnable(c)
  <2>1. /\ pc' \in [Ctx -> Labels]
        /\ \A d \in Ctx : pc'[d] \in Begun => pc'[d] = pc[d]
        /\ pc'["tx"] \in {"h_loop", "h_count"} => pc["tx"] \in {"h_loop", "h_count"}
    BY <1>3, StepMoves DEF StartEnable, AbortEnable, Labels, Ctx, Begun
  <2>2. txie' \in BOOLEAN
    BY <1>3, Zenon DEF StartEnable, AbortEnable
  <2> QED
    BY <1>3, <2>1, <2>2, QuietTyped
       DEF StartEnable, AbortEnable, Typed, InRange, transfer, callback, history
<1>4. CASE AbortBusy(c)
  <2>1. /\ pc' \in [Ctx -> Labels]
        /\ \A d \in Ctx : pc'[d] \in Begun => pc'[d] = pc[d]
        /\ pc'["tx"] \in {"h_loop", "h_count"} => pc["tx"] \in {"h_loop", "h_count"}
    BY <1>4, StepMoves, HomeLabel DEF AbortBusy, Ctx, Begun
  <2>2. tx_async_busy' \in BOOLEAN
    BY <1>4, Zenon DEF AbortBusy
  <2>3. aborted' \subseteq Ids
    BY <1>4 DEF AbortBusy, Ended, Typed, InRange, Ids
  <2> QED
    BY <1>4, <2>1, <2>2, <2>3 
    DEF AbortBusy, Typed, InRange, Begun, request, callback, hw
<1> QED
  BY <1>1, <1>2, <1>3, <1>4, PublishTyped DEF Run

(* The transmitter, the RX interrupt and set_callback().                   *)
LEMMA OtherTyped ==
  ASSUME Typed, Shift \/ RxEnter \/ SetCallback \/ SetUserData
  PROVE  Typed'
<1> USE DEF Ctx, Begun
<1>1. CASE Shift
  <2>1. txif' \in BOOLEAN
    <3>1. txif' = TRUE \/ txif' = txif
      BY <1>1, Zenon DEF Shift
    <3> QED
      BY <3>1, Zenon DEF Typed, InRange
  <2> QED
    BY <1>1, <2>1, QuietTyped, DepthAssumption
       DEF Shift, Typed, InRange, transfer, callback, history
<1>2. CASE RxEnter
  <2>1. /\ pc' \in [Ctx -> Labels]
        /\ \A d \in Ctx \ {"rx"} : pc'[d] = pc[d]
        /\ pc'["rx"] = "callback"
    BY <1>2, StepMoves DEF RxEnter, Labels
  <2> QED
    BY <1>2, <2>1, QuietTyped
       DEF RxEnter, Typed, InRange, transfer, callback, hw, history
<1>3. CASE SetCallback
  <2>1. /\ pc' \in [Ctx -> Labels]
        /\ \A d \in Ctx \ {"task"} : pc'[d] = pc[d]
        /\ pc'["task"] = "set_data"
    BY <1>3, StepMoves DEF SetCallback, Labels
  <2> QED
    BY <1>3, <2>1, QuietTyped, CallbackAssumption
       DEF SetCallback, Typed, InRange, transfer, hw, history
<1>4. CASE SetUserData
  <2>1. /\ pc' \in [Ctx -> Labels]
        /\ \A d \in Ctx \ {"task"} : pc'[d] = pc[d]
        /\ pc'["task"] = "idle"
    BY <1>4, StepMoves DEF SetUserData, Labels
  <2> QED
    BY <1>4, <2>1, QuietTyped
       DEF SetUserData, Typed, InRange, transfer, hw, history
<1> QED
  BY <1>1, <1>2, <1>3, <1>4

(* tx_irq_handler().                                                       *)
LEMMA HandlerTyped ==
  ASSUME Typed, Handler
  PROVE  Typed'
<1> USE DEF Ctx, Begun
<1>1. CASE TxEnter
  <2>1. /\ pc' \in [Ctx -> Labels] /\ pc'["tx"] = "h_busy"
        /\ \A d \in Ctx \ {"tx"} : pc'[d] = pc[d]
    BY <1>1, StepMoves DEF TxEnter, Labels
  <2>2. txif' \in BOOLEAN
    BY <1>1, Zenon DEF TxEnter
  <2> QED
    BY <1>1, <2>1, <2>2, QuietTyped
       DEF TxEnter, Typed, InRange, transfer, callback, history
<1>2. CASE TxBusy
  <2>1. /\ pc' \in [Ctx -> Labels]
        /\ pc'["tx"] = IF tx_async_busy THEN "h_loop" ELSE "h_spurious"
        /\ \A d \in Ctx \ {"tx"} : pc'[d] = pc[d]
    BY <1>2, StepMoves DEF TxBusy, Labels
  <2> QED
    BY <1>2, <2>1, QuietTyped
       DEF TxBusy, Typed, InRange, transfer, callback, hw, history
<1>3. CASE TxSpurious \/ TxDisable
  <2>1. /\ pc' \in [Ctx -> Labels] /\ pc'["tx"] \in {"idle", "h_clear"}
        /\ \A d \in Ctx \ {"tx"} : pc'[d] = pc[d]
    BY <1>3, StepMoves DEF TxSpurious, TxDisable, Labels
  <2>2. txie' \in BOOLEAN
    BY <1>3, Zenon DEF TxSpurious, TxDisable
  <2> QED
    BY <1>3, <2>1, <2>2, QuietTyped
       DEF TxSpurious, TxDisable, Typed, InRange, transfer, callback, history
<1>4. CASE TxSubmit
  <2>1. /\ pc' \in [Ctx -> Labels]
        /\ pc["tx"] = "h_loop" /\ pc'["tx"] = "h_count"
        /\ \A d \in Ctx \ {"tx"} : pc'[d] = pc[d]
    BY <1>4, StepMoves DEF TxSubmit, Labels
  <2>2. level # TxDepth /\ level' = level + 1
    BY <1>4 DEF TxSubmit, MoreToSend, UTXBF
  <2> QED
    BY <1>4, <2>1, <2>2, DepthAssumption
       DEF TxSubmit, Typed, InRange, transfer, request, callback
<1>5. CASE TxCount
  <2>1. /\ pc' \in [Ctx -> Labels]
        /\ pc["tx"] = "h_count" /\ pc'["tx"] = "h_loop"
        /\ \A d \in Ctx \ {"tx"} : pc'[d] = pc[d]
    BY <1>5, StepMoves DEF TxCount, Labels
  <2> QED
    BY <1>5, <2>1 DEF TxCount, Typed, InRange, request, callback, hw, history
<1>6. CASE TxDone
  <2>1. /\ pc' \in [Ctx -> Labels] /\ pc'["tx"] \in {"h_enable", "idle"}
        /\ \A d \in Ctx \ {"tx"} : pc'[d] = pc[d]
    BY <1>6, StepMoves DEF TxDone, Labels
  <2> QED
    BY <1>6, <2>1, QuietTyped
       DEF TxDone, Typed, InRange, transfer, callback, hw, history
<1>7. CASE TxClear
  <2>1. /\ pc' \in [Ctx -> Labels] /\ pc'["tx"] = "h_notify"
        /\ \A d \in Ctx \ {"tx"} : pc'[d] = pc[d]
    BY <1>7, StepMoves DEF TxClear, Labels
  <2>2. tx_async_busy' \in BOOLEAN /\ ~tx_async_busy'
    BY <1>7, Zenon DEF TxClear
  <2> QED
    BY <1>7, <2>1, <2>2 DEF TxClear, Typed, InRange, request, callback, hw
<1>8. CASE TxNotify
  <2>1. /\ pc' \in [Ctx -> Labels] /\ pc'["tx"] \in {"idle", "h_call"}
        /\ \A d \in Ctx \ {"tx"} : pc'[d] = pc[d]
    BY <1>8, StepMoves DEF TxNotify, Labels
  <2> QED
    BY <1>8, <2>1, QuietTyped DEF TxNotify, Typed, InRange, transfer, hw, history
<1>9. CASE TxReport
  <2>1. /\ pc' \in [Ctx -> Labels] /\ pc'["tx"] = "callback"
        /\ \A d \in Ctx \ {"tx"} : pc'[d] = pc[d]
    BY <1>9, StepMoves DEF TxReport, Labels
  <2> QED
    BY <1>9, <2>1, QuietTyped DEF TxReport, Typed, InRange, transfer, hw
<1> QED
  BY <1>1, <1>2, <1>3, <1>4, <1>5, <1>6, <1>7, <1>8, <1>9 DEF Handler

LEMMA TypedStep == Typed /\ [Next]_vars => Typed'
<1> SUFFICES ASSUME Typed, [Next]_vars PROVE Typed'
  OBVIOUS
<1>1. CASE Next
  BY <1>1, CallTyped, OtherTyped, HandlerTyped DEF Next
<1>2. CASE UNCHANGED vars
  BY <1>2 DEF vars, Typed, InRange, transfer, request, callback, hw, history
<1> QED
  BY <1>1, <1>2

-----------------------------------------------------------------------------
(* An active transfer is served, provided that an RX callback that may     *)
(* interrupt the TX handler starts none.  Without that, one started        *)
(* between the test and the disable of a spurious interrupt stays active   *)
(* with its interrupt off.                                                 *)

(* Where a context is when the enable bit may be off, or no flag may be    *)
(* due, although a transfer is active: a start will still raise them, and  *)
(* an abort or the handler will end the transfer.                          *)
Unabled ==
    \/ \E c \in Ctx : pc[c] \in {"st_flag", "st_enable", "ab_flag", "ab_busy"}
    \/ pc["tx"] = "h_clear"

Unflagged ==
    \/ \E c \in Ctx : pc[c] \in {"st_flag", "st_enable", "st_raise", "ab_busy"}
    \/ pc["tx"] \in {"h_busy", "h_loop", "h_count", "h_enable", "h_clear"}

Served ==
    /\ "rx" \notin Starters => pc["rx"] \notin Publishing
    /\ NoStartAbove /\ pc["tx"] = "h_spurious" => ~tx_async_busy
    /\ NoStartAbove /\ tx_async_busy => txie \/ Unabled
    /\ tx_async_busy => txif \/ level > 0 \/ Unflagged

(* No context that may run while the handler is about to switch the        *)
(* interrupt off makes a transfer active.                                  *)
LEMMA SpuriousAlone ==
  ASSUME Typed, Served, NoStartAbove, NEW c \in Ctx, PublishBusy(c)
  PROVE  pc["tx"] # "h_spurious"
<1> SUFFICES ASSUME pc["tx"] = "h_spurious" PROVE FALSE
  OBVIOUS
<1>1. c # "tx"
  BY DEF PublishBusy, Step
<1>2. TxPrio < Prio[c]
  BY <1>1 DEF PublishBusy, Step, Runs, Prio, Ctx
<1>3. c = "rx" /\ TxPrio < RxPrio
  BY <1>1, <1>2, PrioAssumption DEF Prio, Ctx
<1>4. "rx" \in Starters
  BY <1>3 DEF Served, Publishing, PublishBusy, Step
<1> QED
  BY <1>3, <1>4, PrioAssumption DEF NoStartAbove

(* A call keeps Served: a start leaves its excuses only once the interrupt *)
(* is enabled and flagged, an abort only when the transfer has ended.      *)
LEMMA CallServed ==
  ASSUME Typed, Served, NEW c \in Ctx,
         StartCall(c) \/ AbortCall(c) \/ Run(c) \/ Return(c)
  PROVE  Served'
<1>1. Typed /\ "tx" \in Ctx /\ "rx" \in Ctx
  BY DEF Ctx
<1>2. Home(c) \in {"idle", "callback"}
  BY DEF Home
<1>3. CASE StartCall(c)
  BY <1>1, <1>2, <1>3, StepMoves, SpuriousAlone
     DEF StartCall, Served, Unabled, Unflagged, NoStartAbove, Labels,
         Publishing, transfer, hw
<1>4. CASE AbortCall(c)
  BY <1>1, <1>2, <1>4, StepMoves, SpuriousAlone
     DEF AbortCall, Served, Unabled, Unflagged, NoStartAbove, Labels,
         Publishing, transfer, hw
<1>5. CASE PublishBuf(c)
  BY <1>1, <1>2, <1>5, StepMoves, SpuriousAlone
     DEF PublishBuf, Served, Unabled, Unflagged, NoStartAbove, Labels, Publishing,
         transfer, hw
<1>6. CASE PublishLen(c)
  BY <1>1, <1>2, <1>6, StepMoves, SpuriousAlone
     DEF PublishLen, Served, Unabled, Unflagged, NoStartAbove, Labels, Publishing,
         transfer, hw
<1>7. CASE PublishCount(c)
  BY <1>1, <1>2, <1>7, StepMoves, SpuriousAlone
     DEF PublishCount, Served, Unabled, Unflagged, NoStartAbove, Labels,
         Publishing,
         transfer, hw
<1>8. CASE PublishBusy(c)
  BY <1>1, <1>2, <1>8, StepMoves, SpuriousAlone
     DEF PublishBusy, Served, Unabled, Unflagged, NoStartAbove, Labels,
         Publishing,
         transfer, hw
<1>9. CASE StartFlag(c)
  BY <1>1, <1>2, <1>9, StepMoves, SpuriousAlone
     DEF StartFlag, Served, Unabled, Unflagged, NoStartAbove, Labels,
         Publishing, transfer, hw
<1>10. CASE StartEnable(c)
  BY <1>1, <1>2, <1>10, StepMoves, SpuriousAlone
     DEF StartEnable, Served, Unabled, Unflagged, NoStartAbove, Labels,
         Publishing, transfer, hw
<1>11. CASE StartRaise(c)
  BY <1>1, <1>2, <1>11, StepMoves, SpuriousAlone
     DEF StartRaise, Served, Unabled, Unflagged, NoStartAbove, Labels,
         Publishing, transfer, hw
<1>12. CASE AbortEnable(c)
  BY <1>1, <1>2, <1>12, StepMoves, SpuriousAlone
     DEF AbortEnable, Served, Unabled, Unflagged, NoStartAbove, Labels,
         Publishing, transfer, hw
<1>13. CASE AbortFlag(c)
  BY <1>1, <1>2, <1>13, StepMoves, SpuriousAlone
     DEF AbortFlag, Served, Unabled, Unflagged, NoStartAbove, Labels,
         Publishing, transfer, hw
<1>14. CASE AbortBusy(c)
  BY <1>1, <1>2, <1>14, StepMoves, SpuriousAlone
     DEF AbortBusy, Served, Unabled, Unflagged, NoStartAbove, Labels,
         Publishing, transfer, hw
<1>15. CASE Return(c)
  BY SMTT(30), <1>1, <1>2, <1>15, StepMoves, SpuriousAlone
     DEF Return, Served, Unabled, Unflagged, NoStartAbove, Labels, Publishing,
         transfer, hw
<1> QED
  BY <1>3, <1>4, <1>5, <1>6, <1>7, <1>8, <1>9, <1>10, <1>11, <1>12, <1>13, <1>14,
     <1>15 DEF Run

(* So do the transmitter, the RX interrupt and set_callback().             *)
LEMMA OtherServed ==
  ASSUME Typed, Served, Shift \/ RxEnter \/ SetCallback \/ SetUserData
  PROVE  Served'
<1>1. Typed /\ Ctx = {"task", "tx", "rx"}
  BY DEF Ctx
<1>2. CASE Shift
  BY SMTT(30), <1>1, <1>2, StepMoves
     DEF Shift, Served, Unabled, Unflagged, NoStartAbove, Labels, Publishing,
         transfer, hw, Typed, InRange
<1>3. CASE RxEnter
  BY SMTT(30), <1>1, <1>3, StepMoves
     DEF RxEnter, Served, Unabled, Unflagged, NoStartAbove, Labels, Publishing,
         transfer, hw, Typed, InRange
<1>4. CASE SetCallback
  BY SMTT(30), <1>1, <1>4, StepMoves
     DEF SetCallback, Served, Unabled, Unflagged, NoStartAbove, Labels,
         Publishing, transfer, hw, Typed, InRange
<1>5. CASE SetUserData
  BY <1>1, <1>5, StepMoves
     DEF SetUserData, Served, Unabled, Unflagged, NoStartAbove, Labels,
         Publishing, transfer, hw, Typed, InRange
<1> QED
  BY <1>2, <1>3, <1>4, <1>5

(* The handler leaves a transfer active only with the FIFO full.           *)
LEMMA HandlerServed ==
  ASSUME Typed, Served, Handler
  PROVE  Served'
<1>1. Typed /\ Ctx = {"task", "tx", "rx"}
  BY DEF Ctx
<1>2. CASE TxEnter
  BY <1>1, <1>2, StepMoves
     DEF TxEnter, Served, Unabled, Unflagged, NoStartAbove, Labels, Publishing,
         transfer, hw
<1>3. CASE TxBusy
  BY <1>1, <1>3, StepMoves
     DEF TxBusy, Served, Unabled, Unflagged, NoStartAbove, Labels, Publishing,
         transfer, hw
<1>4. CASE TxSpurious
  BY SMTT(30), <1>1, <1>4, StepMoves
     DEF TxSpurious, Served, Unabled, Unflagged, NoStartAbove, Labels,
         Publishing, transfer, hw
<1>5. CASE TxSubmit
  BY SMTT(30), <1>1, <1>5, StepMoves, DepthAssumption
     DEF TxSubmit, Served, Unabled, Unflagged, NoStartAbove, Labels, Publishing,
         transfer, hw, MoreToSend, UTXBF, Typed, InRange
<1>6. CASE TxDone
  BY <1>1, <1>6, StepMoves, DepthAssumption
     DEF TxDone, Served, Unabled, Unflagged, NoStartAbove, Labels, Publishing,
         transfer, hw, MoreToSend, UTXBF, Typed, InRange
<1>7. CASE TxDisable
  BY <1>1, <1>7, StepMoves
     DEF TxDisable, Served, Unabled, Unflagged, NoStartAbove, Labels,
         Publishing, transfer, hw
<1>8. CASE TxClear
  BY <1>1, <1>8, StepMoves
     DEF TxClear, Served, Unabled, Unflagged, NoStartAbove, Labels, Publishing,
         transfer, hw
<1>9. CASE TxNotify
  BY <1>1, <1>9, StepMoves
     DEF TxNotify, Served, Unabled, Unflagged, NoStartAbove, Labels, Publishing,
         transfer, hw
<1>10. CASE TxReport
  BY <1>1, <1>10, StepMoves
     DEF TxReport, Served, Unabled, Unflagged, NoStartAbove, Labels, Publishing,
         transfer, hw
<1>11. CASE TxCount
  BY <1>1, <1>11, StepMoves
     DEF TxCount, Served, Unabled, Unflagged, NoStartAbove, Labels, Publishing,
         transfer, hw
<1> QED
  BY <1>2, <1>3, <1>4, <1>5, <1>6, <1>7, <1>8, <1>9, <1>10, <1>11 DEF Handler

(* An active transfer is served in every reachable state.                  *)
THEOREM TransferServed ==
  ASSUME NoStartAbove
  PROVE  Spec => []Armed
<1>1. Init => Served
  BY DEF Init, Served, Publishing, Ctx
<1>2. Typed /\ Served /\ [Next]_vars => Served'
  <2> SUFFICES ASSUME Typed, Served, [Next]_vars PROVE Served'
    OBVIOUS
  <2>1. CASE Next
    BY <2>1, CallServed, OtherServed, HandlerServed DEF Next
  <2>2. CASE UNCHANGED vars
    BY <2>2 DEF vars, Served, Unabled, Unflagged, NoStartAbove, transfer, hw
  <2> QED
    BY <2>1, <2>2
<1>3. Served => Armed
  BY DEF Served, Armed, Unabled, Unflagged, Ctx
<1> QED
  BY <1>1, <1>2, <1>3, InitTyped, TypedStep, PTL DEF Spec

-----------------------------------------------------------------------------
(* With ChainOnly a descriptor has one writer, and no reader meanwhile.    *)
LEMMA TestedStep == ChainOnly /\ Typed /\ Tested /\ [Next]_vars => Tested'
<1> SUFFICES ASSUME ChainOnly, Typed, Tested, [Next]_vars PROVE Tested'
  OBVIOUS
<1> USE DEF Publishing
<1>0. Ctx = {"task", "tx", "rx"}
  BY DEF Ctx
<1>1. ASSUME NEW c \in Ctx, StartCall(c) PROVE Tested'
  BY <1>0, <1>1, StepMoves, TaskAlone
     DEF StartCall, Tested, ChainOnly, transfer, Labels, Home
<1>2. ASSUME NEW c \in Ctx, AbortCall(c) PROVE Tested'
  BY <1>0, <1>2, StepMoves DEF AbortCall, Tested, transfer, Labels, Home
<1>3. ASSUME NEW c \in Ctx, PublishBuf(c) PROVE Tested'
  BY <1>0, <1>3, StepMoves, TaskAlone DEF PublishBuf, Tested, Labels
<1>4. ASSUME NEW c \in Ctx, PublishLen(c) PROVE Tested'
  BY <1>0, <1>4, StepMoves, TaskAlone DEF PublishLen, Tested, Labels
<1>5. ASSUME NEW c \in Ctx, PublishCount(c) PROVE Tested'
  BY <1>0, <1>5, StepMoves, TaskAlone DEF PublishCount, Tested, Labels
<1>6. ASSUME NEW c \in Ctx, PublishBusy(c) PROVE Tested'
  BY <1>0, <1>6, StepMoves, TaskAlone DEF PublishBusy, Tested, Labels
<1>7. ASSUME NEW c \in Ctx, StartFlag(c) \/ StartEnable(c) \/ StartRaise(c)
      PROVE  Tested'
  BY <1>0, <1>7, StepMoves
     DEF StartFlag, StartEnable, StartRaise, Tested, transfer, Labels, Home
<1>8. ASSUME NEW c \in Ctx, AbortEnable(c) \/ AbortFlag(c) PROVE Tested'
  BY <1>0, <1>8, StepMoves DEF AbortEnable, AbortFlag, Tested, transfer, Labels
<1>9. ASSUME NEW c \in Ctx, AbortBusy(c) PROVE Tested'
  BY <1>0, <1>9, StepMoves DEF AbortBusy, Tested, Labels, Home
<1>10. ASSUME NEW c \in Ctx, Return(c) PROVE Tested'
  BY <1>0, <1>10, StepMoves DEF Return, Tested, transfer, Labels
<1>11. CASE Shift \/ RxEnter \/ SetCallback \/ SetUserData
  BY <1>0, <1>11, StepMoves
     DEF Shift, RxEnter, SetCallback, SetUserData, Tested, transfer, Labels
<1>12. CASE TxEnter \/ TxBusy \/ TxSpurious
  BY <1>0, <1>12, StepMoves
     DEF TxEnter, TxBusy, TxSpurious, Tested, transfer, Labels
<1>13. CASE TxSubmit \/ TxCount \/ TxDone \/ TxDisable
  BY <1>0, <1>13, StepMoves
     DEF TxSubmit, TxCount, TxDone, TxDisable, Tested, transfer, Labels
<1>14. CASE TxClear \/ TxNotify \/ TxReport
  BY <1>0, <1>14, StepMoves
     DEF TxClear, TxNotify, TxReport, Tested, transfer, Labels
<1>15. CASE UNCHANGED vars
  BY <1>15 DEF vars, Tested, transfer
<1> QED
  BY <1>1, <1>2, <1>3, <1>4, <1>5, <1>6, <1>7, <1>8, <1>9, <1>10, <1>11, <1>12,
     <1>13, <1>14, <1>15 DEF Next, Handler, Run

(* While one context publishes, no other does, and the handler is not in   *)
(* its loop.                                                               *)
LEMMA OnePublisher ==
  ASSUME Typed, Tested, NEW c \in Ctx, pc[c] \in Publishing,
         NEW from, NEW to, Step(c, from, to)
  PROVE  /\ \A d \in Ctx \ {c} : pc[d] \notin Publishing
         /\ pc["tx"] \notin {"h_loop", "h_count", "h_enable", "h_clear",
                             "h_notify", "h_call"}
<1>1. c \in {"task", "tx"}
  BY DEF Tested, Ctx
<1>2. CASE c = "task"
  BY <1>2, TaskAlone DEF Publishing, Ctx
<1>3. CASE c = "tx"
  BY <1>3 DEF Tested, Publishing, Ctx
<1> QED
  BY <1>1, <1>2, <1>3

(* In its loop the handler is the only one to touch the descriptor.        *)
LEMMA NoPublisher ==
  ASSUME Tested,
         pc["tx"] \in {"h_loop", "h_count", "h_enable", "h_clear", "h_notify", "h_call"}
  PROVE  \A c \in Ctx : pc[c] \notin Publishing
  BY DEF Tested, Publishing, Ctx

(* The four writes of tx_start() and the handler's two are the steps that  *)
(* concern Whole and Order; the others keep what both are about.           *)
Kept ==
    /\ UNCHANGED <<tx_async_buf, tx_async_len, tx_async_count, next, last>>
    /\ \A c \in Ctx : pc'[c] \in Begun <=> pc[c] \in Begun
    /\ \A c \in Ctx : pc'[c] \in Begun => pc'[c] = pc[c] /\ arg'[c] = arg[c]
    /\ pc'["tx"] = "h_count" <=> pc["tx"] = "h_count"

LEMMA OthersKeep ==
  ASSUME Typed, [Next]_vars
  PROVE  \/ \E c \in Ctx : \/ PublishBuf(c) \/ PublishLen(c)
                           \/ PublishCount(c) \/ PublishBusy(c)
         \/ TxSubmit \/ TxCount
         \/ Kept
<1> USE DEF Begun
<1>0. Ctx = {"task", "tx", "rx"}
  BY DEF Ctx
<1>1. ASSUME NEW c \in Ctx, StartCall(c) \/ AbortCall(c) \/ Return(c) PROVE Kept
  BY <1>0, <1>1, StepMoves, HomeLabel
     DEF StartCall, AbortCall, Return, Kept, Labels, transfer, request, history
<1>2. ASSUME NEW c \in Ctx,
             StartFlag(c) \/ StartEnable(c) \/ StartRaise(c)
      PROVE Kept
  BY <1>0, <1>2, StepMoves, HomeLabel
     DEF StartFlag, StartEnable, StartRaise, Kept, Labels, transfer, request,
         history
<1>3. ASSUME NEW c \in Ctx, AbortEnable(c) \/ AbortFlag(c) \/ AbortBusy(c) PROVE Kept
  BY <1>0, <1>3, StepMoves, HomeLabel
     DEF AbortEnable, AbortFlag, AbortBusy, Kept, Labels, transfer, request,
         history
<1>4. CASE Shift \/ RxEnter \/ SetCallback \/ SetUserData
  BY <1>0, <1>4, StepMoves
     DEF Shift, RxEnter, SetCallback, SetUserData, Kept, Labels, transfer,
         request,
         history
<1>5. CASE TxEnter \/ TxBusy \/ TxSpurious \/ TxDone \/ TxDisable
  BY <1>0, <1>5, StepMoves
     DEF TxEnter, TxBusy, TxSpurious, TxDone, TxDisable, Kept, Labels, transfer,
         request, history
<1>6. CASE TxClear \/ TxNotify \/ TxReport
  BY <1>0, <1>6, StepMoves
     DEF TxClear, TxNotify, TxReport, Kept, Labels, transfer, request, history
<1>7. CASE UNCHANGED vars
  BY <1>7 DEF vars, Kept, transfer, request, history
<1> QED
  BY <1>1, <1>2, <1>3, <1>4, <1>5, <1>6, <1>7 DEF Next, Handler, Run

LEMMA WholeStep == Typed /\ Tested /\ Whole /\ [Next]_vars => Whole'
<1> SUFFICES ASSUME Typed, Tested, Whole, [Next]_vars PROVE Whole'
  OBVIOUS
<1> USE DEF Typed, InRange, Publishing, Begun
<1>1. ASSUME NEW c \in Ctx, PublishBuf(c) PROVE Whole'
  <2>1. /\ pc[c] = "pub_buf" /\ pc'[c] = "pub_len"
        /\ \A d \in Ctx \ {c} : pc'[d] = pc[d]
        /\ \A d \in Ctx \ {c} : pc[d] \notin Publishing
    BY <1>1, StepMoves, OnePublisher DEF PublishBuf, Labels
  <2> QED
    BY <1>1, <2>1, LengthAssumption DEF PublishBuf, Whole, Ids
<1>2. ASSUME NEW c \in Ctx, PublishLen(c) PROVE Whole'
  <2>1. /\ pc[c] = "pub_len" /\ pc'[c] = "pub_count"
        /\ \A d \in Ctx \ {c} : pc'[d] = pc[d]
        /\ \A d \in Ctx \ {c} : pc[d] \notin Publishing
    BY <1>2, StepMoves, OnePublisher DEF PublishLen, Labels
  <2> QED
    BY <1>2, <2>1 DEF PublishLen, Whole
<1>3. ASSUME NEW c \in Ctx, PublishCount(c) \/ PublishBusy(c) PROVE Whole'
  <2>1. /\ pc[c] # "pub_len" /\ pc'[c] # "pub_len"
        /\ \A d \in Ctx \ {c} : pc'[d] = pc[d]
    BY <1>3, StepMoves DEF PublishCount, PublishBusy, Labels
  <2> QED
    BY <1>3, <2>1 DEF PublishCount, PublishBusy, Whole, request
<1>4. CASE TxSubmit \/ TxCount
  <2>1. \A c \in Ctx : pc'[c] \notin Publishing /\ pc[c] \notin Publishing
    BY <1>4, StepMoves, NoPublisher DEF TxSubmit, TxCount, Step, Labels, Ctx
  <2> QED
    BY SMTT(30), <1>4, <2>1 DEF TxSubmit, TxCount, Whole, transfer, request
<1>5. CASE Kept
  BY <1>5 DEF Kept, Whole
<1> QED
  BY <1>1, <1>2, <1>3, <1>4, <1>5, OthersKeep

LEMMA OrderStep == IInv /\ [Next]_vars => Order'
<1> SUFFICES ASSUME IInv, [Next]_vars PROVE Order'
  OBVIOUS
<1> USE DEF IInv, Typed, InRange, Unsettled, Begun
<1>1. ASSUME NEW c \in Ctx, PublishBuf(c) PROVE Order'
  <2>1. /\ pc[c] = "pub_buf" /\ pc'[c] = "pub_len"
        /\ \A d \in Ctx \ {c} : pc'[d] = pc[d]
    BY <1>1, StepMoves DEF PublishBuf, Labels
  <2>2. tx_async_buf' = next /\ last' = last
    BY <1>1 DEF PublishBuf, history
  <2> QED
    BY <2>1, <2>2 DEF Whole, Order
<1>2. ASSUME NEW c \in Ctx, PublishLen(c) PROVE Order'
  <2>1. /\ pc[c] = "pub_len" /\ pc'[c] = "pub_count"
        /\ \A d \in Ctx \ {c} : pc'[d] = pc[d]
    BY <1>2, StepMoves DEF PublishLen, Labels
  <2> QED
    BY <1>2, <2>1 DEF PublishLen, Order, history
<1>3. ASSUME NEW c \in Ctx, PublishCount(c) PROVE Order'
  <2>1. /\ pc[c] = "pub_count" /\ pc'[c] = "pub_busy"
        /\ \A d \in Ctx \ {c} : pc'[d] = pc[d]
        /\ pc["tx"] # "h_count"
    BY <1>3, StepMoves, OnePublisher DEF PublishCount, Labels, Publishing
  <2>2. pc'["tx"] # "h_count"
    BY <2>1 DEF Ctx
  <2>3. tx_async_count' = 0 /\ Sent' = 0
    BY <1>3, <2>2 DEF PublishCount, Sent
  <2>4. last[1] < tx_async_buf
    BY <2>1 DEF Order
  <2> QED
    BY <1>3, <2>1, <2>3, <2>4 DEF PublishCount, Order, history
<1>4. ASSUME NEW c \in Ctx, PublishBusy(c) PROVE Order'
  <2>1. /\ pc[c] = "pub_busy" /\ pc'[c] = "st_flag"
        /\ \A d \in Ctx \ {c} : pc'[d] = pc[d]
    BY <1>4, StepMoves DEF PublishBusy, Labels
  <2>2. Sent' = Sent
    BY <1>4, <2>1 DEF PublishBusy, Sent, Ctx
  <2> QED
    BY <1>4, <2>1, <2>2 DEF PublishBusy, Order, history
<1>5. CASE TxSubmit
  <2>1. /\ pc["tx"] = "h_loop" /\ pc'["tx"] = "h_count"
        /\ \A d \in Ctx \ {"tx"} : pc'[d] = pc[d]
    BY <1>5, StepMoves DEF TxSubmit, Labels, Ctx
  <2>2. \A c \in Ctx : pc[c] \notin Publishing
    BY <2>1, NoPublisher
  <2>3. tx_async_buf # 0 /\ tx_async_len = Length[tx_async_buf]
    BY <2>1, <2>2 DEF Whole, Publishing
  <2>4. /\ tx_async_count < tx_async_len
        /\ last' = <<tx_async_buf, tx_async_count + 1>>
        /\ UNCHANGED <<tx_async_buf, tx_async_len, tx_async_count>>
    BY <1>5 DEF TxSubmit, MoreToSend, transfer
  <2>5. Sent' = tx_async_count + 1
    BY <2>1, <2>4 DEF Sent
  <2>6. \A c \in Ctx : pc'[c] \notin Begun
    BY <2>1, <2>2 DEF Publishing, Ctx
  <2> QED
    BY SMTT(30), <2>3, <2>4, <2>5, <2>6 DEF Order
<1>6. CASE TxCount
  <2>1. /\ pc["tx"] = "h_count" /\ pc'["tx"] = "h_loop"
        /\ \A d \in Ctx \ {"tx"} : pc'[d] = pc[d]
    BY <1>6, StepMoves DEF TxCount, Labels, Ctx
  <2>2. Sent' = Sent
    BY <1>6, <2>1 DEF TxCount, Sent
  <2> QED
    BY SMTT(30), <1>6, <2>1, <2>2 DEF TxCount, Order, Ctx, request, history
<1>7. CASE Kept
  <2>1. Sent' = Sent
    BY <1>7 DEF Kept, Sent
  <2>2. \A c \in Ctx : pc'[c] \in Unsettled <=> pc[c] \in Unsettled
    BY <1>7 DEF Kept, Begun
  <2> QED
    BY <1>7, <2>1, <2>2 DEF Kept, Order
<1> QED
  BY <1>1, <1>2, <1>3, <1>4, <1>5, <1>6, <1>7, OthersKeep

LEMMA InitIInv == Init => IInv
<1> SUFFICES ASSUME Init PROVE IInv
  OBVIOUS
<1>1. Typed
  BY InitTyped
<1>2. Tested
  BY DEF Init, Tested, Publishing, Ctx
<1>3. Whole /\ Order
  BY DEF Init, Whole, Order, Sent, Begun, Unsettled, Ctx
<1> QED
  BY <1>1, <1>2, <1>3 DEF IInv

(* Every reachable state satisfies it.                                     *)
THEOREM Invariance ==
  ASSUME ChainOnly
  PROVE  Spec => []IInv
<1>1. IInv /\ [Next]_vars => IInv'
  BY TypedStep, TestedStep, WholeStep, OrderStep DEF IInv
<1> QED
  BY <1>1, InitIInv, PTL DEF Spec

(* The variables keep their types: the transmit FIFO is never written when *)
(* full and no byte beyond the end of the buffer is sent, if no RX         *)
(* callback starts a transfer.  One that does, between two writes of       *)
(* another context's tx_start(), pairs one transfer's buffer with the      *)
(* other's length.                                                         *)
THEOREM TypeInvariant ==
  ASSUME ChainOnly
  PROVE  Spec => []TypeOK
<1>1. IInv => TypeOK
  <2> SUFFICES ASSUME IInv PROVE TypeOK
    OBVIOUS
  <2>1. tx_async_busy => tx_async_count <= tx_async_len
    <3> SUFFICES ASSUME tx_async_busy PROVE tx_async_count <= tx_async_len
      OBVIOUS
    <3>1. \A c \in Ctx : pc[c] \notin Unsettled
      BY DEF IInv, Tested, Publishing, Unsettled
    <3> QED
      BY <3>1 DEF IInv, Order, Sent, Typed, InRange
  <2> QED
    BY <2>1 DEF IInv, Typed, Order, TypeOK
<1> QED
  BY <1>1, Invariance, PTL

(* On the wire every transfer is its bytes in order, and a later transfer  *)
(* follows an earlier one, whoever aborts and for all priorities, if no RX *)
(* callback starts a transfer.                                             *)
THEOREM WireOrdered ==
  ASSUME ChainOnly
  PROVE  Spec => WireOrder
<1>1. IInv /\ [Next]_vars => [last' # last => Follows(last, last')]_vars
  <2> SUFFICES ASSUME IInv, Next, last' # last PROVE Follows(last, last')
    OBVIOUS
  <2>1. TxSubmit
    <3>1. \A c \in Ctx : ~PublishBuf(c) /\ ~PublishLen(c) /\ ~PublishCount(c)
                           /\ ~PublishBusy(c)
      BY DEF PublishBuf, PublishLen, PublishCount, PublishBusy, history
    <3>2. ~TxCount /\ ~Kept
      BY DEF TxCount, Kept, history
    <3> QED
      BY <3>1, <3>2, OthersKeep DEF IInv
  <2>2. /\ pc["tx"] = "h_loop"
        /\ last' = <<tx_async_buf, tx_async_count + 1>>
    BY <2>1 DEF TxSubmit, Step
  <2>3. \A c \in Ctx : pc[c] \notin Unsettled
    BY <2>2, NoPublisher DEF IInv, Publishing, Unsettled
  <2>4. Sent = tx_async_count
    BY <2>2 DEF Sent, IInv, Typed, InRange
  <2> QED
    BY <2>2, <2>3, <2>4 DEF Follows, IInv, Typed, InRange, Order
<1> QED
  BY <1>1, Invariance, PTL DEF Spec, WireOrder

(* tx_start() never replaces an active transfer, if only the task and the  *)
(* completion callback start transfers.                                    *)
THEOREM NotReplaced ==
  ASSUME ChainOnly
  PROVE  Spec => ActiveNotReplaced
<1>1. IInv /\ [Next]_vars =>
        [tx_async_busy /\ tx_async_busy' =>
           UNCHANGED <<tx_async_buf, tx_async_len>>]_vars
  <2> SUFFICES ASSUME IInv, Next, tx_async_busy
               PROVE  UNCHANGED <<tx_async_buf, tx_async_len>>
    OBVIOUS
  <2>1. \A c \in Ctx : ~PublishBuf(c) /\ ~PublishLen(c)
    BY DEF PublishBuf, PublishLen, Step, IInv, Tested, Publishing
  <2> QED
    BY <2>1, OthersKeep
       DEF IInv, PublishCount, PublishBusy, TxSubmit, TxCount, Kept, transfer
<1> QED
  BY <1>1, Invariance, PTL DEF Spec, ActiveNotReplaced

-----------------------------------------------------------------------------
(* What is over and what was reported lies before what is active, or about *)
(* to be.                                                                  *)
Ends ==
    /\ reported <= fin /\ fin <= tx_async_buf
    /\ \A t \in aborted : t <= tx_async_buf
    /\ tx_async_busy \/ (\E c \in Ctx : pc[c] \in Begun) =>
           fin < tx_async_buf /\ tx_async_buf \notin aborted

LEMMA EndsStep == IInv /\ Ends /\ [Next]_vars => Ends'
<1> SUFFICES ASSUME IInv, Ends, [Next]_vars PROVE Ends'
  OBVIOUS
<1> USE DEF IInv, Typed, InRange, Begun
<1>0. Ctx = {"task", "tx", "rx"}
  BY DEF Ctx
<1>1. ASSUME NEW c \in Ctx, PublishBuf(c) PROVE Ends'
  <2>1. /\ tx_async_buf' = next /\ tx_async_buf < next
        /\ UNCHANGED <<fin, reported, aborted>>
    BY <1>1 DEF PublishBuf, Whole, history
  <2> QED
    BY <2>1 DEF Ends, Ids
<1>2. ASSUME NEW c \in Ctx, PublishLen(c) \/ PublishCount(c) \/ PublishBusy(c)
      PROVE  Ends'
  <2>1. pc[c] \in Begun
    BY <1>2 DEF PublishLen, PublishCount, PublishBusy, Step
  <2>2. UNCHANGED <<tx_async_buf, fin, reported, aborted>>
    BY <1>2 DEF PublishLen, PublishCount, PublishBusy, history
  <2> QED
    BY <2>1, <2>2 DEF Ends
<1>3. ASSUME NEW c \in Ctx, AbortBusy(c) PROVE Ends'
  <2>1. /\ \A d \in Ctx : pc'[d] \in Begun => pc[d] \in Begun
        /\ UNCHANGED <<tx_async_buf, fin, reported>>
    BY <1>3, StepMoves, HomeLabel DEF AbortBusy
  <2>2. ~tx_async_busy'
    BY <1>3, Zenon DEF AbortBusy
  <2>3. CASE tx_async_busy
    <3>1. \A d \in Ctx : pc[d] \notin Begun
      BY <2>3 DEF Tested, Publishing
    <3>2. aborted' = aborted \cup {tx_async_buf}
      BY <1>3, <2>3 DEF AbortBusy, Ended
    <3> QED
      BY <2>1, <2>2, <3>1, <3>2 DEF Ends
  <2>4. CASE ~tx_async_busy
    <3>1. aborted' = aborted
      BY <1>3, <2>4 DEF AbortBusy, Ended
    <3> QED
      BY <2>1, <2>2, <3>1 DEF Ends
  <2> QED
    BY <2>3, <2>4
<1>4. CASE TxClear
  <2>1. \A d \in Ctx : pc'[d] \notin Begun
    BY SMTT(30), <1>0, <1>4, StepMoves, NoPublisher DEF TxClear, Step, Labels, Publishing
  <2>2. ~tx_async_busy'
    BY <1>4, Zenon DEF TxClear
  <2> QED
    BY SMTT(30), <1>4, <2>1, <2>2 DEF TxClear, Ends
<1>5. CASE TxReport
  <2>1. \A d \in Ctx : pc'[d] \in Begun => pc[d] \in Begun
    BY <1>0, <1>5, StepMoves DEF TxReport, Labels
  <2> QED
    BY <1>5, <2>1 DEF TxReport, Ends, transfer
<1>6. CASE TxSubmit \/ TxCount
  <2>1. \A d \in Ctx : pc'[d] \in Begun => pc[d] \in Begun
    BY <1>0, <1>6, StepMoves DEF TxSubmit, TxCount, Labels
  <2> QED
    BY SMTT(30), <1>6, <2>1 DEF TxSubmit, TxCount, Ends, transfer, history
<1>7. CASE Kept /\ UNCHANGED <<tx_async_busy, fin, reported, aborted>>
  BY <1>7 DEF Kept, Ends
<1>8. \/ \E c \in Ctx : AbortBusy(c) \/ PublishBuf(c) \/ PublishLen(c)
                          \/ PublishCount(c) \/ PublishBusy(c)
      \/ TxClear \/ TxReport \/ TxSubmit \/ TxCount
      \/ UNCHANGED <<tx_async_busy, fin, reported, aborted>>
  BY DEF Next, Shift, Handler, RxEnter, StartCall, AbortCall, Run, Return,
     SetCallback, SetUserData, TxEnter, TxBusy, TxSpurious, TxDone, TxDisable,
     TxNotify, StartFlag, StartEnable, StartRaise, AbortEnable, AbortFlag, vars,
     history, transfer
<1> QED
  BY <1>1, <1>2, <1>3, <1>4, <1>5, <1>6, <1>7, <1>8, OthersKeep

(* Where the RX interrupt does not preempt the TX one, nothing disturbs    *)
(* the handler between its tests and what it does about them.              *)
Alone ==
    /\ pc["tx"] \in {"h_loop", "h_count", "h_enable", "h_clear"} => tx_async_busy
    /\ pc["tx"] \in {"h_enable", "h_clear"} => tx_async_count = tx_async_len
    /\ pc["tx"] \in {"h_notify", "h_call"} =>
          /\ last = <<fin, Length[fin]>>
          /\ fin # 0
          /\ reported < fin /\ fin \notin aborted
          /\ ~tx_async_busy

(* While the TX context is busy no other context runs.                     *)
LEMMA Undisturbed ==
  ASSUME NotAbove, pc["tx"] # "idle", NEW c \in Ctx, NEW from, NEW to,
         Step(c, from, to)
  PROVE  c = "tx"
  BY PrioAssumption DEF NotAbove, Step, Runs, Prio, Ctx

(* So a call takes place outside the handler's own steps.                  *)
LEMMA CallsOutside ==
  ASSUME NotAbove, Typed, NEW c \in Ctx,
         StartCall(c) \/ AbortCall(c) \/ Run(c) \/ Return(c)
  PROVE  /\ pc["tx"] \notin {"h_busy", "h_spurious", "h_loop", "h_count",
                             "h_enable", "h_clear", "h_notify", "h_call"}
         /\ pc'["tx"] \notin {"h_busy", "h_spurious", "h_loop", "h_count",
                              "h_enable", "h_clear", "h_notify", "h_call"}
<1> DEFINE HandlerAt == {"h_busy", "h_spurious", "h_loop", "h_count",
                         "h_enable", "h_clear", "h_notify", "h_call"}
<1>1. \E from, to \in Labels \ HandlerAt : Step(c, from, to)
  BY DEF StartCall, AbortCall, Run, Return, PublishBuf, PublishLen, PublishCount,
     PublishBusy, StartFlag, StartEnable, StartRaise, AbortEnable, AbortFlag,
     AbortBusy, Labels, Home
<1>2. PICK from \in Labels \ HandlerAt, to \in Labels \ HandlerAt : Step(c, from, to)
  BY <1>1
<1>3. /\ pc[c] = from /\ pc'[c] = to
      /\ \A d \in Ctx \ {c} : pc'[d] = pc[d]
  BY <1>2, StepMoves
<1>4. CASE pc["tx"] # "idle"
  <2>1. c = "tx"
    BY <1>2, <1>4, Undisturbed
  <2> QED
    BY <1>3, <2>1
<1>5. CASE pc["tx"] = "idle"
  BY <1>3, <1>5 DEF Ctx
<1> QED
  BY <1>4, <1>5

LEMMA AloneStep == NotAbove /\ IInv /\ Ends /\ Alone /\ [Next]_vars => Alone'
<1> SUFFICES ASSUME NotAbove, IInv, Ends, Alone, [Next]_vars PROVE Alone'
  OBVIOUS
<1>0. Typed /\ Ctx = {"task", "tx", "rx"}
  BY DEF IInv, Ctx
<1>1. ASSUME NEW c \in Ctx,
             StartCall(c) \/ AbortCall(c) \/ Run(c) \/ Return(c)
      PROVE  Alone'
  BY <1>0, <1>1, CallsOutside DEF Alone
<1>2. CASE Shift
  BY <1>2 DEF Shift, Alone, transfer, history
<1>3. CASE RxEnter
  BY <1>0, <1>3, StepMoves DEF RxEnter, Alone, transfer, history, Labels
<1>4. CASE SetCallback \/ SetUserData
  BY <1>0, <1>4, StepMoves
     DEF SetCallback, SetUserData, Alone, transfer, history, Labels
<1>5. CASE TxEnter \/ TxBusy \/ TxSpurious
  BY <1>0, <1>5, StepMoves
     DEF TxEnter, TxBusy, TxSpurious, Alone, transfer, history, Labels
<1>6. CASE TxSubmit \/ TxCount
  BY <1>0, <1>6, StepMoves DEF TxSubmit, TxCount, Alone, transfer, Labels
<1>7. CASE TxDone
  <2>1. pc["tx"] = "h_loop" /\ pc'["tx"] \in {"h_enable", "idle"}
    BY <1>0, <1>7, StepMoves DEF TxDone, Labels
  <2>2. pc'["tx"] = "h_enable" => tx_async_count >= tx_async_len
    BY <1>0, <1>7, <2>1, StepMoves DEF TxDone, Labels
  <2>3. tx_async_count <= tx_async_len
    BY <2>1, NoPublisher
       DEF IInv, Typed, InRange, Order, Sent, Publishing, Unsettled
  <2> QED
    BY <1>7, <2>1, <2>2, <2>3 DEF TxDone, Alone, transfer, IInv, Typed, InRange
<1>8. CASE TxDisable
  BY <1>0, <1>8, StepMoves DEF TxDisable, Alone, transfer, Labels
<1>9. CASE TxClear
  <2>1. pc["tx"] = "h_clear" /\ pc'["tx"] = "h_notify"
    BY <1>0, <1>9, StepMoves DEF TxClear, Labels
  <2>2. /\ tx_async_busy /\ tx_async_count = tx_async_len /\ tx_async_buf # 0
        /\ \A c \in Ctx : pc[c] \notin Publishing
    BY <2>1, NoPublisher DEF Alone, IInv, Typed
  <2>3. /\ tx_async_len = Length[tx_async_buf]
        /\ tx_async_buf \in Ids /\ tx_async_len \in Nat \ {0}
    BY <2>2, LengthAssumption DEF IInv, Typed, InRange, Whole, Publishing, Ids
  <2>4. Sent = tx_async_count
    BY <2>1 DEF Sent, IInv, Typed, InRange
  <2>5. last[1] = tx_async_buf /\ last[2] = Length[tx_async_buf]
    BY <2>2, <2>3, <2>4 DEF IInv, Order, Publishing, Unsettled
  <2>6. last = <<tx_async_buf, Length[tx_async_buf]>>
    BY <2>5 DEF IInv, Typed, InRange
  <2>7. /\ fin' = tx_async_buf
        /\ last' = last /\ reported' = reported /\ aborted' = aborted
    BY <1>9 DEF TxClear
  <2>8. ~tx_async_busy'
    BY <1>9, Zenon DEF TxClear
  <2>9. reported < tx_async_buf /\ tx_async_buf \notin aborted
    BY <2>2 DEF Ends, IInv, Typed, InRange
  <2> QED
    BY <2>1, <2>2, <2>6, <2>7, <2>8, <2>9 DEF Alone
<1>10. CASE TxNotify
  BY <1>0, <1>10, StepMoves DEF TxNotify, Alone, transfer, history, Labels
<1>11. CASE TxReport
  BY <1>0, <1>11, StepMoves DEF TxReport, Alone, Labels
<1>12. CASE UNCHANGED vars
  BY <1>12 DEF vars, Alone, transfer, history
<1> QED
  BY <1>1, <1>2, <1>3, <1>4, <1>5, <1>6, <1>7, <1>8, <1>9, <1>10, <1>11, <1>12
     DEF Next, Handler

(* SEND_COMPLETE is reported once and of a transfer that was wholly sent   *)
(* and never aborted, if the RX callback neither preempts the handler nor  *)
(* starts a transfer.                                                      *)
THEOREM CompletionIsTrue ==
  ASSUME NotAbove, ChainOnly
  PROVE  Spec => CompletionTrue
<1>1. Init => Ends /\ Alone
  BY DEF Init, Ends, Alone, Begun, Ctx
<1>2. IInv /\ Ends /\ [Next]_vars => Ends'
  BY EndsStep
<1>3. IInv /\ Ends /\ Alone /\ [Next]_vars => Alone'
  BY AloneStep
<1>4. Alone /\ [Next]_vars =>
        [pc["tx"] = "h_call" /\ pc'["tx"] = "callback" =>
           /\ last = <<fin, Length[fin]>>
           /\ reported < fin
           /\ fin \notin aborted]_vars
  BY DEF Alone
<1> QED
  BY <1>1, <1>2, <1>3, <1>4, Invariance, PTL DEF Spec, CompletionTrue

-----------------------------------------------------------------------------
(* The engine implements TxTransfer.  Every step of it is a step of the    *)
(* abstract transmitter or changes nothing there.                          *)
LEMMA Simulation ==
  ASSUME NotAbove, IInv, Ends, Alone, [Next]_vars
  PROVE  [Transmitter!Next]_(Transmitter!tvars)
<1> DEFINE
      current  == IF tx_async_busy THEN tx_async_buf ELSE 0
      sent     == IF tx_async_busy THEN Sent ELSE 0
      finished == IF pc["tx"] \in {"h_notify", "h_call"} THEN fin ELSE 0
      Stutter  == UNCHANGED <<current, sent, finished, reported>>
<1>0. Typed /\ Ctx = {"task", "tx", "rx"}
  BY DEF IInv, Ctx
<1>1. ASSUME NEW c \in Ctx,
             StartCall(c) \/ AbortCall(c) \/ StartFlag(c) \/ StartEnable(c)
               \/ StartRaise(c) \/ AbortEnable(c) \/ AbortFlag(c) \/ Return(c)
      PROVE  Stutter
  <2>1. UNCHANGED <<tx_async_busy, tx_async_buf, tx_async_count, fin, reported>>
    BY <1>1 DEF StartCall, AbortCall, StartFlag, StartEnable, StartRaise,
       AbortEnable, AbortFlag, Return, transfer, history
  <2>2. /\ pc["tx"] \notin {"h_count", "h_notify", "h_call"}
        /\ pc'["tx"] \notin {"h_count", "h_notify", "h_call"}
    BY <1>0, <1>1, CallsOutside DEF Run
  <2> QED
    BY <2>1, <2>2 DEF Sent
<1>2. ASSUME NEW c \in Ctx, PublishBuf(c) \/ PublishLen(c) \/ PublishCount(c)
      PROVE  Stutter
  <2>1. ~tx_async_busy /\ tx_async_busy' = tx_async_busy
    BY <1>2
       DEF PublishBuf, PublishLen, PublishCount, Step, IInv, Tested, Publishing
  <2>2. /\ pc["tx"] \notin {"h_count", "h_notify", "h_call"}
        /\ pc'["tx"] \notin {"h_count", "h_notify", "h_call"}
    BY <1>0, <1>2, CallsOutside DEF Run
  <2>3. reported' = reported
    BY <1>2 DEF PublishBuf, PublishLen, PublishCount, history
  <2> QED
    BY <2>1, <2>2, <2>3
<1>3. ASSUME NEW c \in Ctx, PublishBusy(c)
      PROVE  tx_async_buf \in Ids /\ Transmitter!Start(tx_async_buf)
  <2>1. pc[c] = "pub_busy" /\ ~tx_async_busy /\ tx_async_busy'
    BY <1>3 DEF PublishBusy, Step, IInv, Tested, Publishing
  <2>2. /\ pc["tx"] \notin {"h_count", "h_notify", "h_call"}
        /\ pc'["tx"] \notin {"h_count", "h_notify", "h_call"}
    BY <1>0, <1>3, CallsOutside DEF Run
  <2>3. tx_async_buf > reported /\ tx_async_buf \in Ids
    BY <2>1 DEF IInv, Typed, InRange, Ends, Begun, Ids
  <2>4. \A d \in Ctx : pc[d] \notin Unsettled
    <3>1. \A d \in Ctx \ {c} : pc[d] \notin Publishing
      BY <1>0, <1>3, <2>1, OnePublisher DEF IInv, PublishBusy, Publishing
    <3> QED
      BY <2>1, <3>1 DEF Publishing, Unsettled
  <2>5. tx_async_count = 0
    BY <1>0, <2>1, <2>2, <2>4 DEF IInv, Order, Sent, Typed, InRange, Begun
  <2>6. UNCHANGED <<tx_async_buf, tx_async_count, reported>>
    BY <1>3 DEF PublishBusy, history
  <2> QED
    BY <2>1, <2>2, <2>3, <2>5, <2>6 DEF Transmitter!Start, Sent
<1>4. ASSUME NEW c \in Ctx, AbortBusy(c) PROVE Transmitter!Abort \/ Stutter
  <2>1. ~tx_async_busy' /\ reported' = reported
    BY <1>4, Zenon DEF AbortBusy
  <2>2. /\ pc["tx"] \notin {"h_count", "h_notify", "h_call"}
        /\ pc'["tx"] \notin {"h_count", "h_notify", "h_call"}
    BY <1>0, <1>4, CallsOutside DEF Run
  <2>3. tx_async_busy => tx_async_buf # 0
    BY DEF IInv, Typed
  <2> QED
    BY <2>1, <2>2, <2>3 DEF Transmitter!Abort
<1>5. ASSUME Shift \/ RxEnter \/ SetCallback \/ SetUserData \/ TxEnter \/ TxBusy
               \/ TxSpurious \/ TxDone \/ TxDisable \/ UNCHANGED vars
      PROVE  Stutter
  <2>1. UNCHANGED <<tx_async_busy, tx_async_buf, tx_async_count, fin, reported>>
    BY <1>5 DEF Shift, RxEnter, SetCallback, SetUserData, TxEnter, TxBusy,
       TxSpurious, TxDone, TxDisable, vars, transfer, history
  <2>2. /\ (pc["tx"] \in {"h_notify", "h_call"}) <=> (pc'["tx"] \in {"h_notify", "h_call"})
        /\ (pc["tx"] = "h_count") <=> (pc'["tx"] = "h_count")
    BY <1>0, <1>5, StepMoves
       DEF Shift, RxEnter, SetCallback, SetUserData, TxEnter,
       TxBusy, TxSpurious, TxDone, TxDisable, vars, Labels
  <2> QED
    BY <2>1, <2>2 DEF Sent
<1>6. ASSUME TxSubmit PROVE Transmitter!Submit
  <2>1. pc["tx"] = "h_loop" /\ pc'["tx"] = "h_count"
    BY <1>0, <1>6, StepMoves DEF TxSubmit, Labels
  <2>2. /\ tx_async_busy /\ tx_async_buf # 0
        /\ tx_async_len = Length[tx_async_buf]
    BY <2>1, NoPublisher DEF Alone, IInv, Typed, Whole, Publishing
  <2>3. tx_async_count < Length[tx_async_buf]
    BY <1>6, <2>2 DEF TxSubmit, MoreToSend
  <2>4. UNCHANGED <<transfer, fin, reported>>
    BY <1>6 DEF TxSubmit
  <2>5. Sent = tx_async_count /\ Sent' = tx_async_count + 1
    BY <2>1, <2>4 DEF Sent, IInv, Typed, InRange, transfer
  <2> QED
    BY <2>1, <2>2, <2>3, <2>4, <2>5 DEF Transmitter!Submit, transfer
<1>7. ASSUME TxCount PROVE Stutter
  <2>1. pc["tx"] = "h_count" /\ pc'["tx"] = "h_loop"
    BY <1>0, <1>7, StepMoves DEF TxCount, Labels
  <2>2. Sent' = Sent
    BY <1>7, <2>1 DEF TxCount, Sent, IInv, Typed, InRange
  <2> QED
    BY <1>7, <2>1, <2>2 DEF TxCount, history
<1>8. ASSUME TxClear PROVE Transmitter!Finish
  <2>1. pc["tx"] = "h_clear" /\ pc'["tx"] = "h_notify"
    BY <1>0, <1>8, StepMoves DEF TxClear, Labels
  <2>2. /\ tx_async_busy /\ tx_async_buf # 0
        /\ tx_async_count = Length[tx_async_buf]
    BY <2>1, NoPublisher DEF Alone, IInv, Typed, Whole, Publishing
  <2>3. Sent = tx_async_count
    BY <2>1 DEF Sent, IInv, Typed, InRange
  <2>4. ~tx_async_busy'
    BY <1>8, Zenon DEF TxClear
  <2> QED
    BY <1>8, <2>1, <2>2, <2>3, <2>4 DEF TxClear, Transmitter!Finish
<1>9. ASSUME TxNotify PROVE Transmitter!Unreported \/ Stutter
  <2>1. pc["tx"] = "h_notify" /\ fin # 0 /\ ~tx_async_busy
    BY <1>9 DEF TxNotify, Step, Alone
  <2>2. pc'["tx"] \in {"idle", "h_call"}
    BY <1>0, <1>9, StepMoves DEF TxNotify, Labels
  <2>3. UNCHANGED <<tx_async_busy, tx_async_buf, tx_async_count, fin, reported>>
    BY <1>9 DEF TxNotify, transfer, history
  <2> QED
    BY <2>1, <2>2, <2>3 DEF Transmitter!Unreported
<1>10. ASSUME TxReport PROVE Transmitter!Report
  <2>1. /\ pc["tx"] = "h_call" /\ pc'["tx"] = "callback" /\ fin # 0
        /\ ~tx_async_busy
    BY <1>0, <1>10, StepMoves DEF TxReport, Labels, Alone
  <2> QED
    BY <1>10, <2>1 DEF TxReport, Transmitter!Report, transfer
<1> QED
  BY <1>1, <1>2, <1>3, <1>4, <1>5, <1>6, <1>7, <1>8, <1>9, <1>10
     DEF Next, Handler, Run, Transmitter!Next, Transmitter!tvars

(* The engine implements TxTransfer when the RX callback neither preempts  *)
(* the handler nor starts a transfer.                                      *)
THEOREM Implements ==
  ASSUME NotAbove, ChainOnly
  PROVE  Spec => ImplementsTransmitter
<1>1. Init => Ends /\ Alone /\ Transmitter!Init
  BY DEF Init, Ends, Alone, Begun, Ctx, Transmitter!Init
<1>2. IInv /\ Ends /\ [Next]_vars => Ends'
  BY EndsStep
<1>3. IInv /\ Ends /\ Alone /\ [Next]_vars => Alone'
  BY AloneStep
<1>4. IInv /\ Ends /\ Alone /\ [Next]_vars
        => [Transmitter!Next]_(Transmitter!tvars)
  BY Simulation
<1> QED
  BY <1>1, <1>2, <1>3, <1>4, Invariance, PTL
     DEF Spec, ImplementsTransmitter, Transmitter!Spec
=============================================================================
