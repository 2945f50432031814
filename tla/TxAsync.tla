------------------------------ MODULE TxAsync -------------------------------
(***************************************************************************)
(* The non-blocking transmit engine of nora_uart_dspic33ck.c: tx_start(),  *)
(* tx_abort(), set_callback() and tx_irq_handler(), on an initialised      *)
(* instance whose transmitter is enabled and whose TX interrupt has a      *)
(* priority (tx_start() refuses any other).                                *)
(*                                                                         *)
(* Three contexts run the code: the foreground task, the TX interrupt, and *)
(* the RX interrupt, whose callback may call the same functions.  Every    *)
(* write of a variable or an interrupt bit they share is a step of its own.*)
(***************************************************************************)
EXTENDS Naturals

CONSTANTS
    TxDepth,    \* depth of the hardware transmit FIFO
    Transfers,  \* bound: how many transfers are started in a behaviour
    Length,     \* Length[t]: the bytes of the t-th transfer
    TxPrio,     \* tx_irq_priority
    RxPrio,     \* rx_irq_priority, 0 when there is no RX callback
    Starters,   \* contexts that call tx_start()
    Aborters,   \* contexts that call tx_abort()
    Callbacks   \* what set_callback() is called with, 0 for NULL

Ids == 1 .. Transfers
Ctx == {"task", "tx", "rx"}

ASSUME DepthAssumption    == TxDepth \in Nat \ {0}
ASSUME LengthAssumption   == Transfers \in Nat /\ Length \in [Ids -> Nat \ {0}]
ASSUME PrioAssumption     == TxPrio \in 1 .. 7 /\ RxPrio \in 0 .. 7
ASSUME CallAssumption     == Starters \subseteq Ctx /\ Aborters \subseteq Ctx
ASSUME CallbackAssumption == Callbacks \subseteq Nat

VARIABLES
    tx_async_buf,    \* the transfer whose data it points to, 0 for none
    tx_async_len,
    tx_async_count,
    tx_async_busy,
    event_callback,            \* 0 is NULL
    event_callback_user_data,  \* the number of the callback it belongs to
    cb,              \* uart_notify()'s local
    level,           \* characters in the transmit FIFO
    txif,            \* the TX interrupt flag
    txie,            \* the TX interrupt enable bit
    pc,              \* where each context is
    arg,             \* tx_start()'s parameters: whose length is yet to be written
    next,            \* the next transfer to be started
    last,            \* history: <<transfer, position>> written to TXREG last
    fin,             \* history: the transfer the handler finished last
    reported,        \* history: the transfer reported complete last
    aborted          \* history: transfers ended by tx_abort()

request  == <<arg, next>>
transfer == <<tx_async_buf, tx_async_len, tx_async_count, tx_async_busy, request>>
callback == <<event_callback, event_callback_user_data, cb>>
hw       == <<level, txif, txie>>
history  == <<last, fin, reported, aborted>>
vars     == <<transfer, callback, hw, pc, history>>

Labels == {"idle", "callback", "set_data",
           "pub_buf", "pub_len", "pub_count", "pub_busy",
           "st_flag", "st_enable", "st_raise",
           "ab_enable", "ab_flag", "ab_busy",
           "h_busy", "h_spurious", "h_loop", "h_count",
           "h_enable", "h_clear", "h_notify", "h_call"}

Init ==
    /\ tx_async_buf = 0 /\ tx_async_len = 0 /\ tx_async_count = 0
    /\ tx_async_busy = FALSE
    /\ event_callback = 1 /\ event_callback_user_data = 1 /\ cb = 0
    /\ level = 0 /\ txif = FALSE /\ txie = FALSE
    /\ pc = [c \in Ctx |-> "idle"]
    /\ arg = [c \in Ctx |-> 0] /\ next = 1
    /\ last = <<0, 0>> /\ fin = 0 /\ reported = 0 /\ aborted = {}

-----------------------------------------------------------------------------
(* Contexts.  One steps only while all others that have started have a     *)
(* lower priority.  Home is where it may call the API: the task between    *)
(* calls, an interrupt inside the registered callback.                     *)

Prio == [task |-> 0, tx |-> TxPrio, rx |-> RxPrio]

Runs(c) == \A d \in Ctx \ {c} : pc[d] # "idle" => Prio[d] < Prio[c]

Step(c, from, to) == pc[c] = from /\ Runs(c) /\ pc' = [pc EXCEPT ![c] = to]

Home(c) == IF c = "task" THEN "idle" ELSE "callback"

RxEnter ==
    /\ RxPrio > 0
    /\ Step("rx", "idle", "callback")
    /\ UNCHANGED <<transfer, callback, hw, history>>

Return(c) ==
    /\ c # "task"
    /\ Step(c, "callback", "idle")
    /\ UNCHANGED <<transfer, callback, hw, history>>

-----------------------------------------------------------------------------
(* The hardware.  A character leaves the FIFO.  The flag is certainly      *)
(* latched when the FIFO runs empty, and may be at any other level: which  *)
(* one depends on the watermark.                                           *)

UTXBF == level = TxDepth

Shift ==
    /\ level > 0
    /\ level' = level - 1
    /\ txif' = TRUE \/ (level > 1 /\ UNCHANGED txif)
    /\ UNCHANGED <<transfer, callback, txie, pc, history>>

-----------------------------------------------------------------------------
(* nora_uart_tx_start().                                                   *)

\* MUTANT: an active transfer is not looked for.
StartCall_NoBusyCheck(c) ==
    /\ c \in Starters
    /\ Step(c, Home(c), "pub_buf")
    /\ UNCHANGED <<transfer, callback, hw, history>>

\* With a transfer active it returns ERR_BUSY and changes nothing.
StartCall(c) ==
    /\ c \in Starters /\ next \in Ids
    /\ ~tx_async_busy
    /\ Step(c, Home(c), "pub_buf")
    /\ UNCHANGED <<transfer, callback, hw, history>>

\* The descriptor, one field after the other.  Transfers are numbered in the
\* order in which their buffers are published.
PublishBuf(c) ==
    /\ next \in Ids
    /\ Step(c, "pub_buf", "pub_len")
    /\ tx_async_buf' = next
    /\ arg' = [arg EXCEPT ![c] = next]
    /\ next' = next + 1
    /\ UNCHANGED <<tx_async_len, tx_async_count, tx_async_busy, callback, hw, history>>

PublishLen(c) ==
    /\ Step(c, "pub_len", "pub_count")
    /\ tx_async_len' = Length[arg[c]]
    /\ arg' = [arg EXCEPT ![c] = 0]
    /\ UNCHANGED <<tx_async_buf, tx_async_count, tx_async_busy, next, callback, hw,
                   history>>

\* MUTANT: the count of the transfer before is left in place.
PublishCount_Kept(c) ==
    /\ Step(c, "pub_count", "pub_busy")
    /\ UNCHANGED <<transfer, callback, hw, history>>

PublishCount(c) ==
    /\ Step(c, "pub_count", "pub_busy")
    /\ tx_async_count' = 0
    /\ UNCHANGED <<tx_async_buf, tx_async_len, tx_async_busy, request, callback, hw,
                   history>>

PublishBusy(c) ==
    /\ Step(c, "pub_busy", "st_flag")
    /\ tx_async_busy' = TRUE
    /\ UNCHANGED <<tx_async_buf, tx_async_len, tx_async_count, request, callback, hw,
                   history>>

StartFlag(c) ==
    /\ Step(c, "st_flag", "st_enable")
    /\ txif' = FALSE
    /\ UNCHANGED <<transfer, callback, level, txie, history>>

StartEnable(c) ==
    /\ Step(c, "st_enable", "st_raise")
    /\ txie' = TRUE
    /\ UNCHANGED <<transfer, callback, level, txif, history>>

\* MUTANT: the flag is left to the hardware.
StartRaise_None(c) ==
    /\ Step(c, "st_raise", Home(c))
    /\ UNCHANGED <<transfer, callback, hw, history>>

StartRaise(c) ==
    /\ Step(c, "st_raise", Home(c))
    /\ txif' = TRUE
    /\ UNCHANGED <<transfer, callback, level, txie, history>>

-----------------------------------------------------------------------------
(* nora_uart_tx_abort().                                                   *)

AbortCall(c) ==
    /\ c \in Aborters
    /\ Step(c, Home(c), "ab_enable")
    /\ UNCHANGED <<transfer, callback, hw, history>>

AbortEnable(c) ==
    /\ Step(c, "ab_enable", "ab_flag")
    /\ txie' = FALSE
    /\ UNCHANGED <<transfer, callback, level, txif, history>>

AbortFlag(c) ==
    /\ Step(c, "ab_flag", "ab_busy")
    /\ txif' = FALSE
    /\ UNCHANGED <<transfer, callback, level, txie, history>>

Ended == IF tx_async_busy THEN {tx_async_buf} ELSE {}

AbortBusy(c) ==
    /\ Step(c, "ab_busy", Home(c))
    /\ tx_async_busy' = FALSE
    /\ aborted' = aborted \cup Ended
    /\ UNCHANGED <<tx_async_buf, tx_async_len, tx_async_count, request, callback, hw,
                   last, fin, reported>>

-----------------------------------------------------------------------------
(* nora_uart_set_callback(): the two halves of the registration.           *)

SetCallback ==
    /\ Step("task", "idle", "set_data")
    /\ event_callback' \in Callbacks
    /\ UNCHANGED <<transfer, event_callback_user_data, cb, hw, history>>

SetUserData ==
    /\ Step("task", "set_data", "idle")
    /\ event_callback_user_data' = event_callback
    /\ UNCHANGED <<transfer, event_callback, cb, hw, history>>

-----------------------------------------------------------------------------
(* nora_uart_tx_irq_handler().                                             *)

TxEnter ==
    /\ txif /\ txie
    /\ Step("tx", "idle", "h_busy")
    /\ txif' = FALSE
    /\ UNCHANGED <<transfer, callback, level, txie, history>>

TxBusy ==
    /\ Step("tx", "h_busy", IF tx_async_busy THEN "h_loop" ELSE "h_spurious")
    /\ UNCHANGED <<transfer, callback, hw, history>>

\* Spurious or aborted: the interrupt is switched off.
TxSpurious ==
    /\ Step("tx", "h_spurious", "idle")
    /\ txie' = FALSE
    /\ UNCHANGED <<transfer, callback, level, txif, history>>

\* MUTANT: goes on when the FIFO is full.
MoreToSend_IgnoresFull == tx_async_count < tx_async_len

MoreToSend == tx_async_count < tx_async_len /\ ~UTXBF

\* The byte is written first and counted afterwards.
TxSubmit ==
    /\ MoreToSend
    /\ Step("tx", "h_loop", "h_count")
    /\ level' = level + 1
    /\ last' = <<tx_async_buf, tx_async_count + 1>>
    /\ UNCHANGED <<transfer, callback, txif, txie, fin, reported, aborted>>

TxCount ==
    /\ Step("tx", "h_count", "h_loop")
    /\ tx_async_count' = tx_async_count + 1
    /\ UNCHANGED <<tx_async_buf, tx_async_len, tx_async_busy, request, callback, hw,
                   history>>

\* MUTANT: complete as soon as the FIFO is full.
TxDone_Early ==
    /\ ~MoreToSend
    /\ Step("tx", "h_loop", "h_enable")
    /\ UNCHANGED <<transfer, callback, hw, history>>

TxDone ==
    /\ ~MoreToSend
    /\ Step("tx", "h_loop",
            IF tx_async_count >= tx_async_len THEN "h_enable" ELSE "idle")
    /\ UNCHANGED <<transfer, callback, hw, history>>

TxDisable ==
    /\ Step("tx", "h_enable", "h_clear")
    /\ txie' = FALSE
    /\ UNCHANGED <<transfer, callback, level, txif, history>>

\* MUTANT: the transfer stays active when it is reported.
TxClear_Kept ==
    /\ Step("tx", "h_clear", "h_notify")
    /\ fin' = tx_async_buf
    /\ UNCHANGED <<transfer, callback, hw, last, reported, aborted>>

TxClear ==
    /\ Step("tx", "h_clear", "h_notify")
    /\ tx_async_busy' = FALSE
    /\ fin' = tx_async_buf
    /\ UNCHANGED <<tx_async_buf, tx_async_len, tx_async_count, request, callback, hw,
                   last, reported, aborted>>

\* uart_notify() reads the callback, and its user_data when it makes the call.
TxNotify ==
    /\ Step("tx", "h_notify", IF event_callback = 0 THEN "idle" ELSE "h_call")
    /\ cb' = event_callback
    /\ UNCHANGED <<transfer, event_callback, event_callback_user_data, hw, history>>

TxReport ==
    /\ Step("tx", "h_call", "callback")
    /\ reported' = fin
    /\ cb' = 0
    /\ UNCHANGED <<transfer, event_callback, event_callback_user_data, hw, last,
                   fin, aborted>>

-----------------------------------------------------------------------------
Handler ==
    \/ TxEnter \/ TxBusy \/ TxSpurious \/ TxSubmit \/ TxCount \/ TxDone
    \/ TxDisable \/ TxClear \/ TxNotify \/ TxReport

\* The steps of a call that has started.
Run(c) ==
    \/ PublishBuf(c) \/ PublishLen(c) \/ PublishCount(c) \/ PublishBusy(c)
    \/ StartFlag(c) \/ StartEnable(c) \/ StartRaise(c)
    \/ AbortEnable(c) \/ AbortFlag(c) \/ AbortBusy(c)

Next ==
    \/ Shift \/ Handler \/ RxEnter
    \/ \E c \in Ctx : StartCall(c) \/ AbortCall(c) \/ Run(c) \/ Return(c)
    \/ SetCallback \/ SetUserData

Spec == Init /\ [][Next]_vars

-----------------------------------------------------------------------------
(* What makes it correct.                                                  *)

InRange ==
    /\ tx_async_buf \in 0 .. Transfers
    /\ tx_async_len \in Nat
    /\ tx_async_count \in Nat
    /\ tx_async_busy \in BOOLEAN
    /\ event_callback \in Nat
    /\ event_callback_user_data \in Nat
    /\ cb \in Nat
    /\ level \in 0 .. TxDepth
    /\ txif \in BOOLEAN
    /\ txie \in BOOLEAN
    /\ pc \in [Ctx -> Labels]
    /\ arg \in [Ctx -> 0 .. Transfers]
    /\ next \in 1 .. Transfers + 1
    /\ last \in (0 .. Transfers) \X Nat
    /\ fin \in 0 .. Transfers
    /\ reported \in 0 .. Transfers
    /\ aborted \subseteq Ids

(* The FIFO is never written when full, an active transfer is within its   *)
(* buffer, and no byte beyond the end of the caller's buffer was sent.     *)
TypeOK ==
    /\ InRange
    /\ tx_async_busy => tx_async_count <= tx_async_len
    /\ last[1] # 0 => last[2] <= Length[last[1]]

(* On the wire every transfer is its bytes from the first, one after the   *)
(* other, and a later transfer begins after the earlier: nothing is sent   *)
(* twice, skipped or mixed, whoever aborts.                                *)
Follows(p, q) == IF q[1] = p[1] THEN q[2] = p[2] + 1 ELSE q[1] > p[1] /\ q[2] = 1

WireOrder == [][last' # last => Follows(last, last')]_vars

(* SEND_COMPLETE is reported when the last byte has been written to TXREG, *)
(* once for a transfer, and never for one that tx_abort() ended.           *)
CompletionTrue ==
    [][pc["tx"] = "h_call" /\ pc'["tx"] = "callback" =>
           /\ last = <<fin, Length[fin]>>
           /\ reported < fin
           /\ fin \notin aborted]_vars

(* A transfer that is active is never replaced by another (nora_uart.h:    *)
(* "_ERR_BUSY  a TX transfer is already active").  The busy test and the   *)
(* publication are steps of their own: this needs that no context that may *)
(* interrupt them starts a transfer of its own while none is active, which *)
(* the completion callback never does.                                     *)
ActiveNotReplaced ==
    [][tx_async_busy /\ tx_async_busy' =>
           UNCHANGED <<tx_async_buf, tx_async_len>>]_vars

(* A transfer that is active is served: unless a handler or call is under  *)
(* way, the TX interrupt is enabled (uart.c: "would wait for a condition   *)
(* that had already passed").                                              *)
Armed ==
    tx_async_busy /\ (\A c \in Ctx : pc[c] = "idle") =>
        txie /\ (txif \/ level > 0)

(* The engine implements the abstract transmitter.                         *)
Sent == tx_async_count + (IF pc["tx"] = "h_count" THEN 1 ELSE 0)

Transmitter == INSTANCE TxTransfer WITH
    current  <- IF tx_async_busy THEN tx_async_buf ELSE 0,
    sent     <- IF tx_async_busy THEN Sent ELSE 0,
    finished <- IF pc["tx"] \in {"h_notify", "h_call"} THEN fin ELSE 0

ImplementsTransmitter == Transmitter!Spec

-----------------------------------------------------------------------------
(* The hardware keeps shifting, and a context that has something to do     *)
(* gets to do it: a handler that is due, a call that has started, a        *)
(* callback.  Interrupts keep the processor from none of them for ever.    *)
GoOn(c) == Run(c) \/ Return(c) \/ (c = "tx" /\ Handler)

Fairness == WF_vars(Shift) /\ \A c \in Ctx : SF_vars(GoOn(c))

FairSpec == Spec /\ Fairness

(* Every transfer that was accepted ends, by completion or by an abort.    *)
Active(t) == tx_async_busy /\ tx_async_buf = t

TransferEnds == \A t \in Ids : Active(t) ~> ~Active(t)
=============================================================================
