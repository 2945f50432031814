-------------------------- MODULE LifecycleProofs ---------------------------
(***************************************************************************)
(* Proofs about Lifecycle: its type invariant, and that a transfer that is *)
(* active can be served while an instance that is down is quiet, for every *)
(* device and every sequence of calls.                                     *)
(***************************************************************************)
EXTENDS Lifecycle, TLAPS

(* The peripheral is on while the instance is up.                          *)
UpIsOn == initialized => uarten

IInv == StateOK /\ TxServed /\ RxServed /\ DownIsQuiet /\ UpIsOn

(* The invariant holds before the first call.                              *)
LEMMA InitIInv == Init => IInv
<1> SUFFICES ASSUME Init PROVE IInv
  OBVIOUS
<1>0. FlagsOK
  BY Zenon DEF Init, FlagsOK
<1>1. StateOK
  BY <1>0 DEF Init, StateOK, Status
<1>2. TxServed /\ RxServed
  BY Zenon DEF Init, TxServed, RxServed
<1>3. DownIsQuiet /\ UpIsOn
  BY Zenon DEF Init, DownIsQuiet, Down, UpIsOn
<1> QED
  BY <1>1, <1>2, <1>3 DEF IInv

(* A UART that was taken down satisfies it.                                *)
LEMMA TakeDownIInv ==
  ASSUME IInv, TakeDown, result'.status \in Status
  PROVE  IInv'
<1>0. FlagsOK'
  BY Zenon DEF IInv, StateOK, FlagsOK, TakeDown, AsyncReset, InterruptsDisable
<1>1. StateOK'
  BY <1>0 DEF IInv, StateOK, TakeDown
<1>2. TxServed' /\ RxServed'
  BY Zenon DEF TakeDown, AsyncReset, TxServed, RxServed
<1>3. DownIsQuiet' /\ UpIsOn'
  BY Zenon DEF TakeDown, AsyncReset, InterruptsDisable, DownIsQuiet, Down, UpIsOn
<1> QED
  BY <1>1, <1>2, <1>3 DEF IInv

(* Bringing one up with an accepted configuration establishes it.          *)
LEMMA BringUpIInv ==
  ASSUME NEW cfg \in Configs, IInv, Accepts(cfg), BringUp(cfg),
         result'.status \in Status
  PROVE  IInv'
<1>0. FlagsOK'
  <2>1. cfg.enable_tx \in BOOLEAN /\ cfg.enable_rx \in BOOLEAN
    BY DEF Configs
  <2> QED
    BY <2>1, Zenon DEF IInv, StateOK, FlagsOK, BringUp, AsyncReset
<1>1. StateOK'
  <2>1. cfg.tx_irq_priority \in 0 .. 7
    BY DEF Accepts, Configs, Priorities
  <2>2. cfg.baudrate \in Bauds /\ cfg.rx_mode \in {"polling", "ring"}
    BY DEF Configs
  <2> QED
    BY <1>0, <2>1, <2>2 DEF IInv, StateOK, BringUp
<1>2. TxServed' /\ RxServed'
  BY Zenon DEF BringUp, AsyncReset, TxServed, RxServed
<1>3. DownIsQuiet' /\ UpIsOn'
  BY Zenon DEF BringUp, DownIsQuiet, UpIsOn
<1> QED
  BY <1>1, <1>2, <1>3 DEF IInv

(* A refused call changes nothing but its result.                          *)
LEMMA UnchangedIInv ==
  ASSUME IInv, UNCHANGED state, result'.status \in Status
  PROVE  IInv'
  BY DEF IInv, StateOK, FlagsOK, TxServed, RxServed, DownIsQuiet, Down, UpIsOn, state,
         context, busy, bits, irqs

(* init() and deinit() preserve it, also on an instance in use.            *)
LEMMA LivesIInv == IInv /\ Lives => IInv'
<1> SUFFICES ASSUME IInv, Lives PROVE IInv'
  OBVIOUS
<1>1. ASSUME NEW cfg \in Configs, InitRefused(cfg) PROVE IInv'
  BY <1>1, UnchangedIInv DEF InitRefused, Refuse, Result, Status
<1>2. ASSUME NEW cfg \in Configs, InitUndone(cfg) PROVE IInv'
  BY <1>2, TakeDownIInv DEF InitUndone, Result, Status
<1>3. ASSUME NEW cfg \in Configs, InitDone(cfg) PROVE IInv'
  BY <1>3, BringUpIInv DEF InitDone, Result, Status
<1>4. CASE Deinit
  BY <1>4, TakeDownIInv DEF Deinit, Result, Status
<1> QED
  BY <1>1, <1>2, <1>3, <1>4 DEF Lives

(* Enabling, disabling, the rate and the callback preserve it: a direction *)
(* in use is not switched off.                                             *)
LEMMA UsesIInv == IInv /\ Uses => IInv'
<1> SUFFICES ASSUME IInv, Uses PROVE IInv'
  OBVIOUS
<1> USE DEF IInv, StateOK, FlagsOK, TxServed, RxServed, DownIsQuiet, Down, UpIsOn, Result,
            Status, context, busy, bits, irqs
<1>1. CASE Uninitialized("any")
  BY <1>1, UnchangedIInv DEF Uninitialized, Refuse
<1>2. ASSUME NEW on \in BOOLEAN, TxEnable(on) PROVE IInv'
  BY <1>2 DEF TxEnable
<1>3. ASSUME NEW on \in BOOLEAN, RxEnable(on) PROVE IInv'
  BY <1>3 DEF RxEnable
<1>4. ASSUME NEW on \in BOOLEAN, SetCallback(on) PROVE IInv'
  BY <1>4 DEF SetCallback
<1>5. CASE EnableBusy
  BY <1>5, UnchangedIInv DEF EnableBusy, Refuse
<1>6. ASSUME NEW b \in Bauds, SetBaudrate(b) PROVE IInv'
  BY <1>6 DEF SetBaudrate
<1> QED
  BY <1>1, <1>2, <1>3, <1>4, <1>5, <1>6 DEF Uses

(* Configuring, enabling, disabling and servicing the ring preserve it.    *)
LEMMA ReceivesIInv == IInv /\ Receives => IInv'
<1> SUFFICES ASSUME IInv, Receives PROVE IInv'
  OBVIOUS
<1> USE DEF IInv, StateOK, FlagsOK, TxServed, RxServed, DownIsQuiet, Down, UpIsOn, Result,
            Status, context, busy, bits, irqs
<1>1. CASE RingConfig
  BY <1>1 DEF RingConfig
<1>2. CASE RingEnable
  BY <1>2 DEF RingEnable, RxInterrupt
<1>3. CASE RingDisable
  BY <1>3 DEF RingDisable, RxInterrupt
<1>4. CASE RingService
  BY <1>4 DEF RingService, RxInterrupt
<1> QED
  BY <1>1, <1>2, <1>3, <1>4 DEF Receives

(* A TX transfer is started only where it will be served.                  *)
LEMMA TxStartIInv == IInv /\ TxStart => IInv'
<1> SUFFICES ASSUME IInv, TxStart PROVE IInv'
  OBVIOUS
<1>1. /\ initialized' = initialized /\ utxen' = utxen /\ urxen' = urxen
      /\ uarten' = uarten /\ rxie' = rxie
      /\ event_callback' = event_callback
      /\ rx_async_busy' = rx_async_busy
      /\ g_rx_isr_configured' = g_rx_isr_configured
      /\ tx_irq_priority_applied' = tx_irq_priority_applied
      /\ baudrate_applied' = baudrate_applied /\ rx_mode' = rx_mode
      /\ result'.status \in Status
  BY DEF TxStart, context, bits, Result, Status
<1>2. FlagsOK'
  BY <1>1, Zenon DEF IInv, StateOK, FlagsOK, TxStart
<1>3. StateOK'
  BY <1>1, <1>2 DEF IInv, StateOK
<1>4. initialized /\ uarten
  BY Zenon DEF IInv, RxServed, TxStart, UpIsOn
<1>5. TxServed'
  BY <1>1, <1>4, Zenon DEF TxStart, TxServed
<1>6. RxServed'
  BY <1>1, Zenon DEF IInv, RxServed
<1>7. DownIsQuiet' /\ UpIsOn'
  BY <1>1, <1>4, Zenon DEF DownIsQuiet, UpIsOn
<1> QED
  BY <1>3, <1>5, <1>6, <1>7 DEF IInv

(* An RX transfer is armed only with the receiver on and the ring there.   *)
LEMMA RxArmIInv ==
  ASSUME NEW c, IInv, RxArm(c)
  PROVE  IInv'
<1>1. /\ initialized' = initialized /\ utxen' = utxen /\ urxen' = urxen
      /\ uarten' = uarten /\ rxie' = rxie /\ txie' = txie
      /\ event_callback' = event_callback
      /\ tx_async_busy' = tx_async_busy
      /\ g_rx_isr_configured' = g_rx_isr_configured
      /\ tx_irq_priority_applied' = tx_irq_priority_applied
      /\ baudrate_applied' = baudrate_applied /\ rx_mode' = rx_mode
      /\ result'.status \in Status
  BY DEF RxArm, context, bits, irqs, Result, Status
<1>2. FlagsOK'
  BY <1>1, Zenon DEF IInv, StateOK, FlagsOK, RxArm
<1>3. StateOK'
  BY <1>1, <1>2 DEF IInv, StateOK
<1>4. initialized /\ uarten /\ urxen /\ g_rx_isr_configured
  BY Zenon DEF IInv, RxArm, UpIsOn
<1>5. TxServed'
  BY <1>1, Zenon DEF IInv, TxServed
<1>6. RxServed'
  BY <1>1, <1>4, Zenon DEF RxServed
<1>7. DownIsQuiet' /\ UpIsOn'
  BY <1>1, <1>4, Zenon DEF DownIsQuiet, UpIsOn
<1> QED
  BY <1>3, <1>5, <1>6, <1>7 DEF IInv

(* Starting, finishing and aborting transfers preserves it.                *)
LEMMA TransfersIInv == IInv /\ Transfers => IInv'
<1> SUFFICES ASSUME IInv, Transfers PROVE IInv'
  OBVIOUS
<1>1. ASSUME NEW c, TxEnd(c) PROVE IInv'
  BY <1>1 DEF TxEnd, IInv, StateOK, FlagsOK, TxServed, RxServed, DownIsQuiet,
              Down, UpIsOn, Result, Status, context, bits
<1>2. ASSUME NEW c, RxEnd(c) PROVE IInv'
  BY <1>2 DEF RxEnd, IInv, StateOK, FlagsOK, TxServed, RxServed, DownIsQuiet,
              Down, UpIsOn, Result, Status, context, bits, irqs
<1> QED
  BY <1>1, <1>2, TxStartIInv, RxArmIInv
     DEF Transfers, TxAbort, TxComplete, RxStart, RxStartClean, RxAbort, RxComplete

(* IInv is inductive.                                                      *)
LEMMA Inductive == IInv /\ [Next]_vars => IInv'
<1> SUFFICES ASSUME IInv, [Next]_vars PROVE IInv'
  OBVIOUS
<1>1. CASE Next
  BY <1>1, LivesIInv, UsesIInv, ReceivesIInv, TransfersIInv DEF Next
<1>2. CASE UNCHANGED vars
  BY <1>2, UnchangedIInv DEF vars, IInv, StateOK
<1> QED
  BY <1>1, <1>2

(* Every reachable state satisfies it.                                     *)
THEOREM Invariance == Spec => []IInv
<1>1. Init => IInv
  BY InitIInv
<1>2. IInv /\ [Next]_vars => IInv'
  BY Inductive
<1> QED
  BY <1>1, <1>2, PTL DEF Spec

(* The variables keep their types; in particular tx_irq_priority_applied   *)
(* always fits the 3-bit priority field.                                   *)
THEOREM TypeInvariant == Spec => []TypeOK
<1>1. Init => device \in Devices
  BY DEF Init
<1>2. device \in Devices /\ [Next]_vars => (device \in Devices)'
  BY DEF Next, vars
<1>3. IInv /\ device \in Devices => TypeOK
  BY DEF IInv, TypeOK
<1> QED
  BY <1>1, <1>2, <1>3, Invariance, PTL DEF Spec

(* No active TX transfer is ever left without transmitter, interrupt or    *)
(* priority.                                                               *)
THEOREM TransferServed == Spec => []TxServed
  BY Invariance, PTL DEF IInv

(* No active RX transfer is ever left without receiver or ring.            *)
THEOREM ReceptionServed == Spec => []RxServed
  BY Invariance, PTL DEF IInv

(* An instance that is down is quiet, however it got there.                *)
THEOREM DownQuiet == Spec => []DownIsQuiet
  BY Invariance, PTL DEF IInv

(* The rate of an instance never changes under an active transfer.         *)
THEOREM RateIsStable == Spec => RateStable
<1>1. [Next]_vars => [baudrate_applied' # baudrate_applied =>
                        ~tx_async_busy' /\ ~rx_async_busy']_vars
  <2> SUFFICES ASSUME Next, baudrate_applied' # baudrate_applied
               PROVE  ~tx_async_busy' /\ ~rx_async_busy'
    OBVIOUS
  <2>1. CASE Lives
    <3>1. AsyncReset
      BY <2>1 DEF Lives, InitRefused, InitUndone, InitDone, Deinit, Refuse, state,
         context, TakeDown, BringUp
    <3> QED
      BY <3>1, Zenon DEF AsyncReset
  <2>2. CASE Uses
    <3>1. PICK b \in Bauds : SetBaudrate(b)
      BY <2>2 DEF Uses, Uninitialized, EnableBusy, TxEnable, RxEnable, SetCallback,
         Refuse, state, context
    <3> QED
      BY <3>1, Zenon DEF SetBaudrate, busy
  <2>3. ~Receives /\ ~Transfers
    BY DEF Receives, RingConfig, RingEnable, RingDisable, RingService, RxInterrupt,
       Transfers, TxStart, TxAbort, TxComplete, TxEnd, RxStart, RxStartClean,
       RxArm, RxAbort, RxComplete, RxEnd, context
  <2> QED
    BY <2>1, <2>2, <2>3 DEF Next
<1> QED
  BY <1>1, PTL DEF Spec, RateStable

(* An init() that is refused or fails half-way leaves the instance as it   *)
(* was or down.                                                            *)
THEOREM InitAllOrNothing == Spec => RefusedInit
<1>1. [Next]_vars => [result'.call = "init" /\ result'.status # "OK"
                        => UNCHANGED state \/ Down']_vars
  <2> SUFFICES ASSUME Next, result'.call = "init", result'.status # "OK"
               PROVE  UNCHANGED state \/ Down'
    OBVIOUS
  <2>1. CASE Lives
    <3>1. ~\E cfg \in Configs : InitDone(cfg)
      BY DEF InitDone, Result
    <3>2. ~Deinit
      BY DEF Deinit, Result
    <3>3. ASSUME TakeDown PROVE Down'
      BY <3>3, Zenon DEF TakeDown, AsyncReset, InterruptsDisable, Down
    <3> QED
      BY <2>1, <3>1, <3>2, <3>3 DEF Lives, InitRefused, Refuse, InitUndone
  <2>2. ~Uses
    BY DEF Uses, Uninitialized, EnableBusy, TxEnable, RxEnable, SetCallback,
       SetBaudrate, Refuse, Result
  <2>3. ~Receives /\ ~Transfers
    BY DEF Receives, RingConfig, RingEnable, RingDisable, RingService, RxInterrupt,
       Transfers, TxStart, TxAbort, TxComplete, TxEnd, RxStart, RxStartClean,
       RxArm, RxAbort, RxComplete, RxEnd, Result
  <2> QED
    BY <2>1, <2>2, <2>3 DEF Next
<1> QED
  BY <1>1, PTL DEF Spec, RefusedInit
=============================================================================
