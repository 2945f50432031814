----------------------------- MODULE Lifecycle ------------------------------
(***************************************************************************)
(* The life of one UART instance, call by call: nora_uart_init(),          *)
(* _deinit(), enabling and disabling either direction, the baud rate, the  *)
(* callback, the RX ISR ring's configuration and the two asynchronous      *)
(* transfers.  Which calls succeed in which state, and what each leaves    *)
(* behind.                                                                 *)
(*                                                                         *)
(* A call is one step: what happens inside is the subject of RxRing, RxPoll*)
(* and TxAsync.  Refusals change nothing and are shown for some calls only.*)
(* The interrupts take part with the steps that change this state: the end *)
(* of a transfer.  The instance is present (every call refuses an absent   *)
(* one before it does anything).                                           *)
(***************************************************************************)
EXTENDS Naturals

CONSTANTS
    Bauds,    \* baud rates
    Devices   \* the builds of the HAL to be considered

ASSUME BaudAssumption   == Bauds \subseteq Nat \ {0}
ASSUME DeviceAssumption ==
    Devices \subseteq [ring : BOOLEAN, rx_priority : BOOLEAN, tx_priority : BOOLEAN]

VARIABLES
    device,   \* the build: chosen once
    initialized,
    baudrate_applied,
    tx_irq_priority_applied,
    event_callback,       \* is one registered
    tx_async_busy,
    rx_async_busy,
    g_rx_isr_configured,
    utxen, urxen, uarten, \* the bits of UxMODE
    txie, rxie,           \* the interrupt enable bits
    rx_mode,              \* history: the backend asked for since init()
    result                \* history: the last call and what it returned

context == <<initialized, baudrate_applied, tx_irq_priority_applied>>
busy    == <<tx_async_busy, rx_async_busy>>
bits    == <<utxen, urxen, uarten>>
irqs    == <<txie, rxie>>
state   == <<context, event_callback, busy, g_rx_isr_configured, bits, irqs,
             rx_mode>>
vars    == <<state, result, device>>

(* Is the RX ISR ring's object linked, and does the device name the        *)
(* priority fields?                                                        *)
RingLinked   == device.ring
RxPrioMapped == device.rx_priority
TxPrioMapped == device.tx_priority

(* A configuration.  "args" stands for the arguments that are right or     *)
(* wrong by themselves: clock, frame format, clock source, a mode out of   *)
(* range, and a baud rate no divisor reaches.                              *)
Priorities == {0, 4, 8}

Configs == [args : BOOLEAN, baudrate : Bauds, rx_mode : {"polling", "ring"},
            enable_tx : BOOLEAN, enable_rx : BOOLEAN, ring_buffer : BOOLEAN,
            rx_irq_priority : Priorities, tx_irq_priority : Priorities]

Status == {"OK", "INVALID_ARG", "UNSUPPORTED", "BUSY", "NOT_INITIALIZED"}

Init ==
    /\ device \in Devices
    /\ initialized = FALSE
    /\ baudrate_applied = 0
    /\ tx_irq_priority_applied = 0
    /\ event_callback = FALSE
    /\ tx_async_busy = FALSE /\ rx_async_busy = FALSE
    /\ g_rx_isr_configured = FALSE
    /\ utxen = FALSE /\ urxen = FALSE /\ uarten = FALSE
    /\ txie = FALSE /\ rxie = FALSE
    /\ rx_mode = "none"
    /\ result = [call |-> "reset", status |-> "OK"]

Result(c, s) == result' = [call |-> c, status |-> s]

Refuse(c, s) == Result(c, s) /\ UNCHANGED state

-----------------------------------------------------------------------------
(* nora_uart_init() and nora_uart_deinit().                                *)

\* MUTANT: a priority beyond the 3-bit field is taken.
Accepts_PrioUnchecked(cfg) ==
    /\ cfg.args
    /\ cfg.rx_mode = "ring" =>
           cfg.ring_buffer /\ cfg.rx_irq_priority # 0 /\ cfg.enable_rx

Accepts(cfg) ==
    /\ cfg.args
    /\ cfg.rx_irq_priority <= 7 /\ cfg.tx_irq_priority <= 7
    /\ cfg.rx_mode = "ring" =>
           cfg.ring_buffer /\ cfg.rx_irq_priority # 0 /\ cfg.enable_rx

TxPrioFails(cfg) == cfg.tx_irq_priority # 0 /\ ~TxPrioMapped

RingFails(cfg) == cfg.rx_mode = "ring" /\ ~(RingLinked /\ RxPrioMapped)

AsyncReset == tx_async_busy' = FALSE /\ rx_async_busy' = FALSE

InterruptsDisable == txie' = FALSE /\ rxie' = FALSE

\* MUTANT: an active transfer outlives the UART.
TakeDown_KeepsTransfers ==
    /\ initialized' = FALSE /\ baudrate_applied' = 0
    /\ tx_irq_priority_applied' = 0
    /\ event_callback' = FALSE
    /\ InterruptsDisable
    /\ utxen' = FALSE /\ urxen' = FALSE /\ uarten' = FALSE
    /\ rx_mode' = "none"
    /\ UNCHANGED <<busy, g_rx_isr_configured>>

\* The ring stays marked as configured.
TakeDown ==
    /\ initialized' = FALSE /\ baudrate_applied' = 0
    /\ tx_irq_priority_applied' = 0
    /\ event_callback' = FALSE
    /\ AsyncReset
    /\ InterruptsDisable
    /\ utxen' = FALSE /\ urxen' = FALSE /\ uarten' = FALSE
    /\ rx_mode' = "none"
    /\ UNCHANGED g_rx_isr_configured

BringUp(cfg) ==
    /\ initialized' = TRUE /\ baudrate_applied' = cfg.baudrate
    /\ tx_irq_priority_applied' = cfg.tx_irq_priority
    /\ event_callback' = FALSE
    /\ AsyncReset
    /\ txie' = FALSE
    /\ utxen' = cfg.enable_tx /\ urxen' = cfg.enable_rx /\ uarten' = TRUE
    /\ rx_mode' = cfg.rx_mode
    /\ rxie' = (cfg.rx_mode = "ring")
    /\ g_rx_isr_configured' = (g_rx_isr_configured \/ cfg.rx_mode = "ring")

InitRefused(cfg) == ~Accepts(cfg) /\ Refuse("init", "INVALID_ARG")

\* MUTANT: the instance is left up when the ring cannot be had.
InitUndone_NotUndone(cfg) ==
    /\ Accepts(cfg)
    /\ TxPrioFails(cfg) \/ RingFails(cfg)
    /\ IF TxPrioFails(cfg) THEN TakeDown ELSE BringUp([cfg EXCEPT !.rx_mode = "polling"])
    /\ Result("init", "UNSUPPORTED")

\* Found out half-way: everything done so far is undone.
InitUndone(cfg) ==
    /\ Accepts(cfg)
    /\ TxPrioFails(cfg) \/ RingFails(cfg)
    /\ TakeDown
    /\ Result("init", "UNSUPPORTED")

InitDone(cfg) ==
    /\ Accepts(cfg)
    /\ ~TxPrioFails(cfg) /\ ~RingFails(cfg)
    /\ BringUp(cfg)
    /\ Result("init", "OK")

Deinit == TakeDown /\ Result("deinit", "OK")

-----------------------------------------------------------------------------
(* Calls on an instance that is up.                                        *)

Uninitialized(c) == ~initialized /\ Refuse(c, "NOT_INITIALIZED")

\* MUTANT: a direction is switched off under an active transfer.
TxEnable_Unchecked(on) ==
    /\ initialized
    /\ utxen' = on
    /\ Result("tx_enable", "OK")
    /\ UNCHANGED <<context, event_callback, busy, g_rx_isr_configured, urxen,
                   uarten, irqs, rx_mode>>

TxEnable(on) ==
    /\ initialized
    /\ on \/ ~tx_async_busy
    /\ utxen' = on
    /\ Result("tx_enable", "OK")
    /\ UNCHANGED <<context, event_callback, busy, g_rx_isr_configured, urxen,
                   uarten, irqs, rx_mode>>

\* MUTANT: the receiver is switched off under an active transfer.
RxEnable_Unchecked(on) ==
    /\ initialized
    /\ urxen' = on
    /\ Result("rx_enable", "OK")
    /\ UNCHANGED <<context, event_callback, busy, g_rx_isr_configured, utxen,
                   uarten, irqs, rx_mode>>

RxEnable(on) ==
    /\ initialized
    /\ on \/ ~rx_async_busy
    /\ urxen' = on
    /\ Result("rx_enable", "OK")
    /\ UNCHANGED <<context, event_callback, busy, g_rx_isr_configured, utxen,
                   uarten, irqs, rx_mode>>

EnableBusy ==
    /\ initialized
    /\ tx_async_busy \/ rx_async_busy
    /\ Refuse("enable", "BUSY")

\* MUTANT: an idle shifter is taken for an idle transmitter.
SetBaudrate_ShifterOnly(b) ==
    /\ initialized
    /\ baudrate_applied' = b
    /\ Result("set_baudrate", "OK")
    /\ UNCHANGED <<initialized, tx_irq_priority_applied, event_callback, busy,
                   g_rx_isr_configured, bits, irqs, rx_mode>>

\* Enabled when the shifter is idle; otherwise, and when a transfer is
\* active, it returns ERR_BUSY and changes nothing.
SetBaudrate(b) ==
    /\ initialized
    /\ ~tx_async_busy /\ ~rx_async_busy
    /\ baudrate_applied' = b
    /\ Result("set_baudrate", "OK")
    /\ UNCHANGED <<initialized, tx_irq_priority_applied, event_callback, busy,
                   g_rx_isr_configured, bits, irqs, rx_mode>>

\* set_callback() asks for a present instance only.
SetCallback(on) ==
    /\ event_callback' = on
    /\ Result("set_callback", "OK")
    /\ UNCHANGED <<context, busy, g_rx_isr_configured, bits, irqs, rx_mode>>

-----------------------------------------------------------------------------
(* The RX ISR ring.                                                        *)

\* The enable bit stays as it is.
RingConfig ==
    /\ initialized /\ RingLinked /\ RxPrioMapped
    /\ g_rx_isr_configured' = TRUE
    /\ rx_mode' = "ring"
    /\ Result("rx_isr_config", "OK")
    /\ UNCHANGED <<context, event_callback, busy, bits, irqs>>

RxInterrupt(c, on) ==
    /\ rxie' = on
    /\ Result(c, "OK")
    /\ UNCHANGED <<context, event_callback, busy, g_rx_isr_configured, bits,
                   txie, rx_mode>>

RingEnable  == initialized /\ g_rx_isr_configured /\ RxInterrupt("rx_isr_enable", TRUE)
RingDisable == RingLinked /\ RxInterrupt("rx_isr_disable", FALSE)

\* A reader that finds the receiver stalled enables the interrupt again.
\* With the UART off there is neither a byte nor an overrun to be found.
RingService == initialized /\ g_rx_isr_configured /\ RxInterrupt("read_byte", TRUE)

-----------------------------------------------------------------------------
(* The asynchronous transfers.                                             *)

TxStart ==
    /\ initialized /\ ~tx_async_busy
    /\ utxen /\ tx_irq_priority_applied # 0
    /\ tx_async_busy' = TRUE /\ txie' = TRUE
    /\ Result("tx_start", "OK")
    /\ UNCHANGED <<context, event_callback, rx_async_busy, g_rx_isr_configured,
                   bits, rxie, rx_mode>>

TxEnd(c) ==
    /\ tx_async_busy' = FALSE /\ txie' = FALSE
    /\ Result(c, "OK")
    /\ UNCHANGED <<context, event_callback, rx_async_busy, g_rx_isr_configured,
                   bits, rxie, rx_mode>>

TxAbort    == initialized /\ TxEnd("tx_abort")
TxComplete == txie /\ tx_async_busy /\ TxEnd("irq")

RxArm(c) ==
    /\ initialized /\ g_rx_isr_configured /\ urxen
    /\ ~rx_async_busy
    /\ rx_async_busy' = TRUE
    /\ Result(c, "OK")
    /\ UNCHANGED <<context, event_callback, tx_async_busy, g_rx_isr_configured,
                   bits, irqs, rx_mode>>

RxStart      == RxArm("rx_start")
RxStartClean == rxie /\ RxArm("rx_start_clean")

RxEnd(c) ==
    /\ rx_async_busy' = FALSE
    /\ Result(c, "OK")
    /\ UNCHANGED <<context, event_callback, tx_async_busy, g_rx_isr_configured,
                   bits, irqs, rx_mode>>

RxAbort    == initialized /\ RxEnd("rx_abort")
RxComplete == rxie /\ rx_async_busy /\ RxEnd("irq")

-----------------------------------------------------------------------------
Lives ==
    \/ \E cfg \in Configs : InitRefused(cfg) \/ InitUndone(cfg) \/ InitDone(cfg)
    \/ Deinit

Uses ==
    \/ Uninitialized("any")
    \/ \E on \in BOOLEAN : TxEnable(on) \/ RxEnable(on) \/ SetCallback(on)
    \/ EnableBusy
    \/ \E b \in Bauds : SetBaudrate(b)

Receives == RingConfig \/ RingEnable \/ RingDisable \/ RingService

Transfers ==
    \/ TxStart \/ TxAbort \/ TxComplete
    \/ RxStart \/ RxStartClean \/ RxAbort \/ RxComplete

Next == (Lives \/ Uses \/ Receives \/ Transfers) /\ UNCHANGED device

Spec == Init /\ [][Next]_vars

-----------------------------------------------------------------------------
(* What makes it correct.                                                  *)

FlagsOK ==
    /\ initialized \in BOOLEAN
    /\ event_callback \in BOOLEAN
    /\ tx_async_busy \in BOOLEAN /\ rx_async_busy \in BOOLEAN
    /\ g_rx_isr_configured \in BOOLEAN
    /\ utxen \in BOOLEAN /\ urxen \in BOOLEAN /\ uarten \in BOOLEAN
    /\ txie \in BOOLEAN /\ rxie \in BOOLEAN

StateOK ==
    /\ FlagsOK
    /\ baudrate_applied \in Bauds \cup {0}
    /\ tx_irq_priority_applied \in 0 .. 7
    /\ rx_mode \in {"none", "polling", "ring"}
    /\ result.status \in Status

TypeOK == StateOK /\ device \in Devices

(* An active TX transfer can finish: the UART is up, the transmitter on,   *)
(* the TX interrupt enabled at a priority that runs ("both of these would  *)
(* produce a transfer that never completes").                              *)
TxServed ==
    tx_async_busy =>
        /\ initialized /\ uarten /\ utxen
        /\ txie /\ tx_irq_priority_applied # 0

(* An active RX transfer has a receiver that is on and a ring whose        *)
(* handler feeds it.                                                       *)
RxServed ==
    rx_async_busy => initialized /\ uarten /\ urxen /\ g_rx_isr_configured

(* An instance that is down is quiet: no interrupt is enabled, no transfer *)
(* active, no bit of the peripheral set, whatever happened before.         *)
Down ==
    /\ ~initialized
    /\ ~utxen /\ ~urxen /\ ~uarten
    /\ ~txie /\ ~rxie
    /\ ~tx_async_busy /\ ~rx_async_busy
    /\ tx_irq_priority_applied = 0 /\ baudrate_applied = 0

DownIsQuiet == ~initialized => Down

(* An init() that does not succeed leaves the instance as it was or down,  *)
(* never half configured ("half a UART is worse than none").               *)
RefusedInit ==
    [][result'.call = "init" /\ result'.status # "OK"
         => UNCHANGED state \/ Down']_vars

(* The rate does not change under an active transfer.                      *)
RateStable ==
    [][baudrate_applied' # baudrate_applied =>
           ~tx_async_busy' /\ ~rx_async_busy']_vars

-----------------------------------------------------------------------------
(* What the documentation says and the code does not do.                   *)

(* The backend in use is the one the configuration selected (nora_uart.h:  *)
(* "Selected through nora_uart_config_t.rx_mode and reported back").       *)
(* deinit() leaves the ring configured, and init() does not reset it.      *)
BackendAsConfigured == initialized => (g_rx_isr_configured <=> rx_mode = "ring")
=============================================================================
