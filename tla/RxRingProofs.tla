---------------------------- MODULE RxRingProofs ----------------------------
(***************************************************************************)
(* Proofs about RxRing for every FIFO depth, ring size, number of arrivals *)
(* and set of calls.                                                       *)
(***************************************************************************)
EXTENDS RxRing, TLAPS

USE FifoAssumption, ArrivalAssumption, RingAssumption
    DEF FifoAssumption, ArrivalAssumption, RingAssumption

(* All the proofs need to know of the index width.                         *)
LEMMA Width == U16 \in Nat
  BY DEF U16

LEMMA RingSizeType == RingSize \in Nat /\ RingSize > 1 /\ RingSize < U16
  BY Width

(* An index stepped by the code stays inside the ring, and uint16_t is     *)
(* wide enough for the step.                                               *)
LEMMA NextIdxType ==
    ASSUME NEW i \in 0 .. RingSize - 1
    PROVE  /\ NextIdx(i) \in 0 .. RingSize - 1
           /\ NextIdx(i) = IF i = RingSize - 1 THEN 0 ELSE i + 1
  BY Width DEF NextIdx

LEMMA InitType == Init => TypeOK
  <1> SUFFICES ASSUME Init PROVE TypeOK
    OBVIOUS
  <1>1. fifo \in Seq(Bytes) /\ Len(fifo) <= FifoDepth
    BY DEF Init, HwInit
  <1>2. arrived \in 0 .. MaxArrivals
    BY DEF Init, HwInit
  <1>3. oerr \in BOOLEAN /\ rxif \in BOOLEAN /\ rxie \in BOOLEAN
        /\ ie \in BOOLEAN /\ in_read \in BOOLEAN
    BY Zenon DEF Init, HwInit
  <1>4. rx_ring \in [0 .. RingSize - 1 -> 0 .. MaxArrivals]
    BY DEF Init
  <1>5. rx_read_idx \in 0 .. RingSize - 1 /\ rx_write_idx \in 0 .. RingSize - 1
        /\ read_idx \in 0 .. RingSize - 1
    BY RingSizeType DEF Init
  <1>6. rx_status \in [Counters -> Nat] /\ drain_count \in Nat
    BY DEF Init, Zero
  <1>7. pc \in [Ctx -> TaskLabels] /\ pc["isr"] \in IsrLabels
    BY DEF Init, Ctx, IsrLabels, TaskLabels
  <1>8. held \in [Ctx -> 0 .. MaxArrivals] /\ data \in 0 .. MaxArrivals
        /\ lastRead \in 0 .. MaxArrivals
    BY DEF Init
  <1>9. QED
    BY <1>1, <1>2, <1>3, <1>4, <1>5, <1>6, <1>7, <1>8 DEF TypeOK, HwTypeOK

(* What the counter helpers return.                                        *)
LEMMA AddType ==
    ASSUME NEW s \in [Counters -> Nat], NEW f \in Counters, NEW n \in Nat
    PROVE  Add(s, f, n) \in [Counters -> Nat]
  BY DEF Add

LEMMA Plus1Type ==
    ASSUME NEW s \in [Counters -> Nat], NEW f \in Counters
    PROVE  Plus1(s, f) \in [Counters -> Nat]
  BY AddType DEF Plus1

LEMMA RaiseToType ==
    ASSUME NEW s \in [Counters -> Nat], NEW f \in Counters, NEW n \in Nat
    PROVE  RaiseTo(s, f, n) \in [Counters -> Nat]
  BY DEF RaiseTo

LEMMA CountType ==
    ASSUME NEW s \in [Counters -> Nat], NEW f \in Counters, NEW flag
    PROVE  Count(s, f, flag) \in [Counters -> Nat]
  BY Plus1Type DEF Count

(* What reading RXREG does to a FIFO that holds something.                 *)
LEMMA PopType ==
    ASSUME TypeOK, ~URXBE
    PROVE  /\ Head(fifo) \in Bytes
           /\ Tail(fifo) \in Seq(Bytes)
           /\ Len(Tail(fifo)) <= FifoDepth
  BY DEF TypeOK, HwTypeOK, URXBE

LEMMA ClearOERRType ==
    ASSUME TypeOK, ClearOERR
    PROVE  fifo' \in Seq(Bytes) /\ Len(fifo') <= FifoDepth /\ oerr' \in BOOLEAN
  <1>1. oerr' \in BOOLEAN
    BY Zenon DEF ClearOERR
  <1>2. fifo' = <<>> \/ fifo' = fifo
    BY Zenon DEF ClearOERR
  <1>3. CASE fifo' = <<>>
    BY <1>1, <1>3
  <1>4. CASE fifo' = fifo
    BY <1>1, <1>4 DEF TypeOK, HwTypeOK
  <1>5. QED
    BY <1>2, <1>3, <1>4

(* An overrun is cleared, or the flag was not set.                         *)
LEMMA OerrTestType ==
    ASSUME TypeOK, IF oerr THEN ClearOERR ELSE UNCHANGED <<oerr, fifo>>
    PROVE  fifo' \in Seq(Bytes) /\ Len(fifo') <= FifoDepth /\ oerr' \in BOOLEAN
  <1>1. CASE ClearOERR
    BY <1>1, ClearOERRType
  <1>2. CASE UNCHANGED <<oerr, fifo>>
    BY <1>2 DEF TypeOK, HwTypeOK
  <1>3. QED
    BY Zenon, <1>1, <1>2

CountersTyped == rx_status \in [Counters -> Nat] /\ drain_count \in Nat

LEMMA TypedCounters == TypeOK => CountersTyped
  BY DEF TypeOK, CountersTyped

LEMMA IsrAccountedType == CountersTyped => IsrAccounted \in [Counters -> Nat]
  <1> SUFFICES ASSUME CountersTyped PROVE IsrAccounted \in [Counters -> Nat]
    OBVIOUS
  <1> DEFINE s1 == Add(rx_status, "rx_byte_count", drain_count)
             s2 == RaiseTo(s1, "rx_max_drain_count", drain_count)
             s3 == Count(s2, "rx_fifo_overflow_count", oerr)
             s4 == Count(s3, "framing_error_count", FERR)
  <1>1. s1 \in [Counters -> Nat]
    BY AddType DEF CountersTyped, Counters
  <1>2. s2 \in [Counters -> Nat]
    <2> HIDE DEF s1
    <2>1. drain_count \in Nat
      BY DEF CountersTyped
    <2>2. QED
      BY <1>1, <2>1, RaiseToType DEF Counters
  <1>3. s3 \in [Counters -> Nat]
    <2> HIDE DEF s2
    <2>1. QED
      BY <1>2, CountType DEF Counters
  <1>4. s4 \in [Counters -> Nat]
    <2> HIDE DEF s3
    <2>1. QED
      BY <1>3, CountType DEF Counters
  <1>5. Count(s4, "parity_error_count", PERR) \in [Counters -> Nat]
    <2> HIDE DEF s4
    <2>1. QED
      BY <1>4, CountType DEF Counters
  <1>6. QED
    BY <1>5 DEF IsrAccounted


(* Every step keeps the types.                                             *)
LEMMA TakeType == ASSUME NEW c \in Ctx, TypeOK, Take(c) PROVE TypeOK'
  <1>1. HwTypeOK'
    BY PopType DEF Take, ReadRXREG, TypeOK, HwTypeOK
  <1>2. held' \in [Ctx -> 0 .. MaxArrivals]
    BY PopType DEF Take, TypeOK, Bytes
  <1>3. pc' \in [Ctx -> TaskLabels] /\ pc'["isr"] \in IsrLabels
    BY DEF Take, Goto, TypeOK, Ctx, IsrLabels, TaskLabels, Masked
  <1>4. QED
    BY <1>1, <1>2, <1>3 DEF Take, TypeOK, ringVars, intVars, taskLocal

LEMMA PutType == ASSUME NEW c \in Ctx, TypeOK, Put(c) PROVE TypeOK'
  <1>1. rx_ring' \in [0 .. RingSize - 1 -> 0 .. MaxArrivals]
    BY RingSizeType DEF Put, RingPush, TypeOK, Ctx
  <1>2. rx_write_idx' \in 0 .. RingSize - 1
    BY NextIdxType DEF Put, RingPush, TypeOK
  <1>3. rx_status' \in [Counters -> Nat]
    BY Plus1Type, SMTT(60) DEF Put, RingPush, TypeOK, Counters
  <1>4. pc' \in [Ctx -> TaskLabels] /\ pc'["isr"] \in IsrLabels
    BY DEF Put, Goto, TypeOK, Ctx, IsrLabels, TaskLabels, Masked
  <1>5. held' \in [Ctx -> 0 .. MaxArrivals] /\ drain_count' \in Nat
    BY DEF Put, TypeOK
  <1>6. HwTypeOK'
    BY DEF Put, TypeOK, HwTypeOK, hwVars, Bytes
  <1>7. QED
    BY <1>1, <1>2, <1>3, <1>4, <1>5, <1>6 DEF Put, TypeOK, intVars, taskLocal

LEMMA DrainedType == ASSUME NEW c \in Ctx, TypeOK, Drained(c) PROVE TypeOK'
  BY DEF Drained, Goto, TypeOK, HwTypeOK, hwVars, Bytes, ringVars, intVars,
         taskLocal, Ctx, IsrLabels, TaskLabels, Masked

LEMMA ReceiveType == ASSUME TypeOK, Receive PROVE TypeOK'
  <1>1. fifo' \in Seq(Bytes)
    BY DEF Receive, Accept, TypeOK, HwTypeOK, Bytes
  <1>2. Len(fifo') <= FifoDepth /\ arrived' \in 0 .. MaxArrivals
    BY DEF Receive, Accept, TypeOK, HwTypeOK, Bytes
  <1>3. rxif' \in BOOLEAN
    BY Zenon DEF Receive
  <1>4. QED
    BY <1>1, <1>2, <1>3 DEF Receive, Accept, TypeOK, HwTypeOK, Bytes, ringVars, taskLocal

LEMMA LoseType == ASSUME TypeOK, Lose PROVE TypeOK'
  <1>1. oerr' \in BOOLEAN
    BY Zenon DEF Lose, Overrun
  <1>2. arrived' \in 0 .. MaxArrivals
    BY DEF Lose, Overrun, TypeOK, HwTypeOK
  <1>3. QED
    BY <1>1, <1>2 DEF Lose, Overrun, TypeOK, HwTypeOK, Bytes, ringVars, intVars,
                      taskLocal

LEMMA IsrEnterType == ASSUME TypeOK, IsrEnter PROVE TypeOK'
  <1>1. rxif' \in BOOLEAN
    BY Zenon DEF IsrEnter
  <1>2. rx_status' \in [Counters -> Nat]
    BY Plus1Type DEF IsrEnter, TypeOK, Counters
  <1>3. pc' \in [Ctx -> TaskLabels] /\ pc'["isr"] \in IsrLabels
    BY DEF IsrEnter, Goto, TypeOK, Ctx, IsrLabels, TaskLabels, Masked
  <1>4. QED
    BY <1>1, <1>2, <1>3 DEF IsrEnter, TypeOK, HwTypeOK, hwVars, Bytes, ringVars,
                            taskLocal

LEMMA IsrAccountType == ASSUME TypeOK, IsrAccount PROVE TypeOK'
  <1>1. fifo' \in Seq(Bytes) /\ Len(fifo') <= FifoDepth /\ oerr' \in BOOLEAN
    BY OerrTestType DEF IsrAccount
  <1>2. rx_status' \in [Counters -> Nat]
    BY TypedCounters, IsrAccountedType DEF IsrAccount
  <1>3. pc' \in [Ctx -> TaskLabels] /\ pc'["isr"] \in IsrLabels
    BY DEF IsrAccount, Goto, TypeOK, Ctx, IsrLabels, TaskLabels, Masked
  <1>4. drain_count' \in Nat
    BY DEF IsrAccount
  <1>5. QED
    BY <1>1, <1>2, <1>3, <1>4 DEF IsrAccount, TypeOK, HwTypeOK, Bytes, ringVars,
                                  intVars, taskLocal

LEMMA ServiceAccountType == ASSUME TypeOK, ServiceAccount PROVE TypeOK'
  <1>1. fifo' \in Seq(Bytes) /\ Len(fifo') <= FifoDepth /\ oerr' \in BOOLEAN
    BY OerrTestType DEF ServiceAccount
  <1> DEFINE s1 == Count(rx_status, "rx_fifo_overflow_count", oerr)
             s2 == Plus1(s1, "rx_stall_recovery_count")
  <1>2. s1 \in [Counters -> Nat]
    BY CountType DEF TypeOK, Counters
  <1>3. s2 \in [Counters -> Nat]
    <2> HIDE DEF s1
    <2>1. QED
      BY <1>2, Plus1Type DEF Counters
  <1>4. Count(s2, "rx_ie_lost_count", ~ie) \in [Counters -> Nat]
    <2> HIDE DEF s2
    <2>1. QED
      BY <1>3, CountType DEF Counters
  <1>5. rx_status' \in [Counters -> Nat]
    BY <1>4 DEF ServiceAccount
  <1>6. pc' \in [Ctx -> TaskLabels] /\ pc'["isr"] \in IsrLabels
    BY DEF ServiceAccount, TaskAt, Goto, TypeOK, Ctx, IsrLabels, TaskLabels, Masked
  <1> HIDE DEF s1, s2
  <1>7. QED
    BY <1>1, <1>5, <1>6 DEF ServiceAccount, TypeOK, HwTypeOK, Bytes, ringVars,
                            intVars, taskRest

LEMMA ReadStoreType == ASSUME TypeOK, ReadStore PROVE TypeOK'
  <1>1. rx_read_idx' \in 0 .. RingSize - 1
    BY NextIdxType DEF ReadStore, TypeOK
  <1>2. pc' \in [Ctx -> TaskLabels] /\ pc'["isr"] \in IsrLabels
    BY DEF ReadStore, TaskAt, Goto, TypeOK, Ctx, IsrLabels, TaskLabels, Masked
  <1>3. read_idx' \in 0 .. RingSize - 1 /\ data' \in 0 .. MaxArrivals
    BY RingSizeType DEF ReadStore
  <1>4. QED
    BY <1>1, <1>2, <1>3 DEF ReadStore, TypeOK, HwTypeOK, hwVars, Bytes, intVars

LEMMA FlushFifoType == ASSUME TypeOK, FlushFifo PROVE TypeOK'
  <1>1. fifo' \in Seq(Bytes) /\ Len(fifo') <= FifoDepth
    BY PopType DEF FlushFifo, ReadRXREG, TypeOK, HwTypeOK
  <1>2. pc' \in [Ctx -> TaskLabels] /\ pc'["isr"] \in IsrLabels
    BY DEF FlushFifo, TaskAt, Goto, TypeOK, Ctx, IsrLabels, TaskLabels, Masked
  <1>3. QED
    BY <1>1, <1>2 DEF FlushFifo, TypeOK, HwTypeOK, Bytes, ringVars, intVars,
                      taskRest

LEMMA FlushOerrType == ASSUME TypeOK, FlushOerr PROVE TypeOK'
  <1>1. fifo' \in Seq(Bytes) /\ Len(fifo') <= FifoDepth /\ oerr' \in BOOLEAN
    BY OerrTestType DEF FlushOerr
  <1>2. pc' \in [Ctx -> TaskLabels] /\ pc'["isr"] \in IsrLabels
    BY DEF FlushOerr, TaskAt, Goto, TypeOK, Ctx, IsrLabels, TaskLabels, Masked
  <1>3. QED
    BY <1>1, <1>2 DEF FlushOerr, TypeOK, HwTypeOK, Bytes, ringVars, intVars,
                      taskRest

LEMMA CallReadType == ASSUME TypeOK, CallRead PROVE TypeOK'
  <1>1. in_read' \in BOOLEAN
    BY Zenon DEF CallRead, RingEmpty
  <1>2. pc' \in [Ctx -> TaskLabels] /\ pc'["isr"] \in IsrLabels
    BY DEF CallRead, Begin, TaskAt, Goto, TypeOK, Ctx, IsrLabels, TaskLabels, Masked
  <1>3. QED
    BY <1>1, <1>2 DEF CallRead, Begin, TypeOK, HwTypeOK, Bytes, ringVars, intVars,
                      taskRest

LEMMA TypeStep == TypeOK /\ [Next]_vars => TypeOK'
  <1> SUFFICES ASSUME TypeOK, [Next]_vars PROVE TypeOK'
    OBVIOUS
  <1>1. ASSUME NEW c \in Ctx, Take(c) \/ Put(c) \/ Drained(c) PROVE TypeOK'
    BY <1>1, TakeType, PutType, DrainedType
  <1>2. ASSUME Receive \/ Lose \/ IsrEnter \/ IsrAccount \/ ServiceAccount
               \/ ReadStore \/ FlushFifo \/ FlushOerr \/ CallRead
        PROVE  TypeOK'
    BY <1>2, ReceiveType, LoseType, IsrEnterType, IsrAccountType,
       ServiceAccountType, ReadStoreType, FlushFifoType, FlushOerrType,
       CallReadType
  <1> USE DEF TypeOK, HwTypeOK, Bytes, hwVars, ringVars, intVars, taskLocal,
              taskRest, Goto, TaskAt, Ctx, IsrLabels, TaskLabels, Masked
  <1>3. ASSUME LoseEnable PROVE TypeOK'
    BY <1>3 DEF LoseEnable
  <1>4. ASSUME ServiceTest PROVE TypeOK'
    BY <1>4 DEF ServiceTest, AfterService
  <1>5. ASSUME ServiceRearm PROVE TypeOK'
    BY <1>5 DEF ServiceRearm, AfterService
  <1>6. ASSUME ReadTest PROVE TypeOK'
    BY <1>6 DEF ReadTest
  <1>7. ASSUME ReadLoad PROVE TypeOK'
    BY <1>7 DEF ReadLoad
  <1>8. ASSUME FlushRing PROVE TypeOK'
    BY <1>8 DEF FlushRing
  <1>9. ASSUME GetDone PROVE TypeOK'
    BY <1>9 DEF GetDone
  <1>10. ASSUME ClearDone PROVE TypeOK'
    BY <1>10 DEF ClearDone, Zero
  <1>11. ASSUME Restore PROVE TypeOK'
    BY <1>11 DEF Restore
  <1>12. ASSUME CallReady PROVE TypeOK'
    BY <1>12 DEF CallReady, Begin
  <1>13. ASSUME CallService PROVE TypeOK'
    BY <1>13 DEF CallService, Begin
  <1>14. ASSUME CallFlush PROVE TypeOK'
    BY <1>14 DEF CallFlush, Begin
  <1>15. ASSUME CallGet PROVE TypeOK'
    BY <1>15 DEF CallGet, Begin
  <1>16. ASSUME CallClear PROVE TypeOK'
    BY <1>16 DEF CallClear, Begin
  <1>17. ASSUME CallEnable PROVE TypeOK'
    BY <1>17 DEF CallEnable, SetEnable
  <1>18. ASSUME CallDisable PROVE TypeOK'
    BY <1>18 DEF CallDisable, SetEnable
  <1>19. ASSUME ServiceMask PROVE TypeOK'
    BY <1>19 DEF ServiceMask, Mask, MaskRx
  <1>20. ASSUME FlushMask PROVE TypeOK'
    BY <1>20 DEF FlushMask, Mask, MaskRx
  <1>21. ASSUME GetMask PROVE TypeOK'
    BY <1>21 DEF GetMask, Mask, MaskRx
  <1>22. ASSUME ClearMask PROVE TypeOK'
    BY <1>22 DEF ClearMask, Mask, MaskRx
  <1>23. CASE UNCHANGED vars
    BY <1>23 DEF vars
  <1> QED
    BY Zenon, <1>1, <1>2, <1>3, <1>4, <1>5, <1>6, <1>7, <1>8, <1>9, <1>10, <1>11,
       <1>12, <1>13, <1>14, <1>15, <1>16, <1>17, <1>18, <1>19, <1>20, <1>21, <1>22,
       <1>23
       DEF Next, Environment, Isr, TaskStep, Call, Service, Read, Flush, Status

THEOREM TypeInvariant == Spec => []TypeOK
  BY InitType, TypeStep, PTL DEF Spec
-----------------------------------------------------------------------------
(* Exclusion: a masked section starts with the enable bit cleared and the  *)
(* handler idle, and nothing sets the bit before the section ends.         *)

LEMMA MaskedInit == Init => MaskedInv
  BY DEF Init, MaskedInv, Masked, Ctx

LEMMA MaskedStep == TypeOK /\ MaskedInv /\ [Next]_vars => MaskedInv'
  <1> SUFFICES ASSUME TypeOK, MaskedInv, [Next]_vars PROVE MaskedInv'
    OBVIOUS
  <1> USE DEF MaskedInv, Goto, TaskAt
  <1>1. pc \in [Ctx -> TaskLabels] /\ "isr" \in Ctx /\ "task" \in Ctx
    BY DEF TypeOK, Ctx
  <1>2. ASSUME Take("isr") \/ Put("isr") \/ Drained("isr") PROVE MaskedInv'
    BY <1>1, <1>2 DEF Take, Put, Drained, intVars, Masked
  <1>3. ASSUME pc["isr"] = "idle", Take("task") \/ Put("task") \/ Drained("task")
       PROVE MaskedInv'
    BY <1>1, <1>3 DEF Take, Put, Drained, intVars, Masked
  <1>4. ASSUME Receive \/ Lose \/ LoseEnable
       PROVE  MaskedInv'
    BY <1>1, <1>4 DEF Receive, Lose, LoseEnable, intVars
  <1>5. ASSUME IsrEnter \/ IsrAccount
       PROVE  MaskedInv'
    BY <1>1, <1>5 DEF IsrEnter, IsrAccount, intVars, Masked
  <1>6. ASSUME ServiceTest \/ ServiceRearm \/ ReadTest \/ ReadLoad \/
               ReadStore
       PROVE  MaskedInv'
    BY <1>1, <1>6 DEF ServiceTest, ServiceRearm, ReadTest, ReadLoad,
                      ReadStore, AfterService, intVars, Masked
  <1>7. ASSUME ServiceMask \/ FlushMask \/ GetMask \/ ClearMask
       PROVE  MaskedInv'
    BY <1>1, <1>7 DEF ServiceMask, FlushMask, GetMask, ClearMask, Mask,
                      MaskRx, Masked
  <1>8. ASSUME ServiceAccount \/ FlushRing \/ FlushFifo \/ FlushOerr \/
               GetDone \/ ClearDone
       PROVE  MaskedInv'
    BY <1>1, <1>8 DEF ServiceAccount, FlushRing, FlushFifo, FlushOerr,
                      GetDone, ClearDone, intVars, Masked
  <1>9. ASSUME Restore \/ CallReady \/ CallRead \/ CallService \/ CallFlush \/
               CallGet \/ CallClear \/ CallEnable \/ CallDisable
       PROVE  MaskedInv'
    BY <1>1, <1>9 DEF Restore, CallReady, CallRead, CallService, CallFlush,
                      CallGet, CallClear, CallEnable, CallDisable, Begin,
                      SetEnable, intVars, Masked
  <1>10. CASE UNCHANGED vars
    BY <1>10 DEF vars, intVars
  <1> QED
    BY Zenon, <1>2, <1>3, <1>4, <1>5, <1>6, <1>7, <1>8, <1>9, <1>10
       DEF Next, Environment, Isr, TaskStep, Call, Service, Read, Flush, Status

(* The handler is never inside the section the foreground masked.          *)
THEOREM Exclusion == Spec => []DrainExclusive
  <1>1. Init => TypeOK /\ MaskedInv
    BY InitType, MaskedInit
  <1>2. TypeOK /\ MaskedInv /\ [Next]_vars => (TypeOK /\ MaskedInv)'
    BY TypeStep, MaskedStep
  <1>3. MaskedInv => DrainExclusive
    BY DEF MaskedInv, DrainExclusive
  <1>4. QED
    BY <1>1, <1>2, <1>3, PTL DEF Spec
-----------------------------------------------------------------------------
(* Order.  First what the code's index steps do to the ring's contents.    *)
(* Only the types of the ring matter for that, not who works on it.        *)
RingTyped ==
    /\ rx_ring \in [0 .. RingSize - 1 -> 0 .. MaxArrivals]
    /\ rx_read_idx \in 0 .. RingSize - 1
    /\ rx_write_idx \in 0 .. RingSize - 1

LEMMA TypedRing == TypeOK => RingTyped
  BY DEF TypeOK, RingTyped

LEMMA UsedSlot ==
    ASSUME RingTyped
    PROVE  /\ Used \in 0 .. RingSize - 1
           /\ RingEmpty <=> Used = 0
           /\ Slot(0) = rx_read_idx
           /\ \A i \in 0 .. Used - 1 : /\ Slot(i) \in 0 .. RingSize - 1
                                       /\ Slot(i) # rx_write_idx
  BY RingSizeType DEF RingTyped, Used, Slot, RingEmpty

LEMMA UsedPush ==
    ASSUME RingTyped, NextIdx(rx_write_idx) # rx_read_idx,
           rx_write_idx' = NextIdx(rx_write_idx), rx_read_idx' = rx_read_idx
    PROVE  /\ Used' = Used + 1
           /\ Slot(Used) = rx_write_idx
           /\ \A i \in 0 .. Used : Slot(i)' = Slot(i)
  <1> DEFINE w == rx_write_idx
             r == rx_read_idx
             n == NextIdx(w)
  <1>1. w \in 0 .. RingSize - 1 /\ r \in 0 .. RingSize - 1
    BY DEF RingTyped
  <1>2. n = IF w = RingSize - 1 THEN 0 ELSE w + 1
    BY <1>1, NextIdxType
  <1>3. Used' = IF n >= r THEN n - r ELSE n - r + RingSize
    BY DEF Used
  <1> HIDE DEF n
  <1>4. Used' = Used + 1 /\ Slot(Used) = rx_write_idx
    BY <1>1, <1>2, <1>3, RingSizeType DEF Used, Slot, n
  <1>5. \A i \in 0 .. Used : Slot(i)' = Slot(i)
    BY DEF Slot
  <1>6. QED
    BY <1>4, <1>5

LEMMA UsedPop ==
    ASSUME RingTyped, ~RingEmpty,
           rx_read_idx' = NextIdx(rx_read_idx), rx_write_idx' = rx_write_idx
    PROVE  /\ Used' = Used - 1
           /\ \A i \in 0 .. Used - 2 : Slot(i)' = Slot(i + 1)
  <1> DEFINE w == rx_write_idx
             r == rx_read_idx
             n == NextIdx(r)
  <1>1. w \in 0 .. RingSize - 1 /\ r \in 0 .. RingSize - 1 /\ w # r
    BY DEF RingTyped, RingEmpty
  <1>2. n = IF r = RingSize - 1 THEN 0 ELSE r + 1
    BY <1>1, NextIdxType
  <1>3. Used' = IF w >= n THEN w - n ELSE w - n + RingSize
    BY DEF Used
  <1>4. \A i \in 0 .. Used - 2 :
            Slot(i)' = IF n + i < RingSize THEN n + i ELSE n + i - RingSize
    BY DEF Slot
  <1> HIDE DEF n
  <1>5. Used' = Used - 1
    BY <1>1, <1>2, <1>3, RingSizeType DEF Used
  <1>6. \A i \in 0 .. Used - 2 : Slot(i)' = Slot(i + 1)
    BY <1>1, <1>2, <1>4, RingSizeType DEF Used, Slot
  <1>7. QED
    BY <1>5, <1>6

LEMMA EntryType ==
    ASSUME TypeOK
    PROVE  \A i \in 0 .. Used - 1 : Entry(i) \in Nat
  BY SMTT(30), TypedRing, UsedSlot DEF TypeOK, Entry

(* Every place a byte can be holds numbers.                                *)
LEMMA ByteTypes ==
    ASSUME TypeOK
    PROVE  /\ arrived \in Nat /\ lastRead \in Nat
           /\ Used \in Nat /\ Len(fifo) \in Nat
           /\ \A c \in Ctx : held[c] \in Nat
           /\ \A i \in 0 .. Used - 1 : Entry(i) \in Nat
           /\ \A k \in 1 .. Len(fifo) : fifo[k] \in Nat
  <1>1. arrived \in Nat /\ lastRead \in Nat /\ \A c \in Ctx : held[c] \in Nat
    BY DEF TypeOK, HwTypeOK
  <1>2. Len(fifo) \in Nat /\ \A k \in 1 .. Len(fifo) : fifo[k] \in Bytes
    BY DEF TypeOK, HwTypeOK
  <1>3. Bytes \subseteq Nat
    BY DEF Bytes
  <1>4. Used \in Nat
    BY TypedRing, UsedSlot, RingSizeType
  <1>5. QED
    BY <1>1, <1>2, <1>3, <1>4, EntryType

(* A context that drains is alone: no other one holds a byte.              *)
LEMMA OneDrainer ==
    ASSUME TypeOK, MaskedInv, HeldInv, NEW c \in Ctx, pc[c] \in {"drain", "put"}
    PROVE  \A d \in Ctx : d # c => held[d] = 0
  BY DEF MaskedInv, HeldInv, Ctx, Masked

LEMMA EmptyLen == Len(<<>>) = 0
  OBVIOUS

LEMMA AppendIncreasing ==
    ASSUME NEW s \in Seq(Nat), NEW n \in Nat,
           \A k, l \in 1 .. Len(s) : k < l => s[k] < s[l],
           \A k \in 1 .. Len(s) : s[k] < n
    PROVE  LET t == Append(s, n)
           IN  /\ \A k, l \in 1 .. Len(t) : k < l => t[k] < t[l]
               /\ \A k \in 1 .. Len(t) :
                      \/ k \in 1 .. Len(s) /\ t[k] = s[k]
                      \/ t[k] = n
  OBVIOUS

(* Most steps touch none of the bytes.                                     *)
LEMMA FrameOrder ==
    ASSUME TypeOK, RingOrder, HeldOrder, FifoOrder, lastRead <= arrived,
           UNCHANGED <<ringVars, held, fifo, arrived, lastRead>>
    PROVE  (RingOrder /\ HeldOrder /\ FifoOrder /\ lastRead <= arrived)'
  <1>1. Used' = Used /\ \A i \in 0 .. Used - 1 : Entry(i)' = Entry(i)
    BY DEF ringVars, Used, Entry, Slot
  <1>2. QED
    BY <1>1 DEF RingOrder, HeldOrder, FifoOrder

LEMMA ReceiveOrder ==
    ASSUME TypeOK, OrderInv, Receive
    PROVE  (RingOrder /\ HeldOrder /\ FifoOrder /\ lastRead <= arrived)'
  <1> USE DEF OrderInv, RingOrder, HeldOrder, FifoOrder
  <1>1. /\ Used' = Used /\ \A i \in 0 .. Used - 1 : Entry(i)' = Entry(i)
        /\ held' = held /\ lastRead' = lastRead /\ arrived' = arrived + 1
    BY DEF Receive, Accept, ringVars, taskLocal, Used, Entry, Slot
  <1>2. fifo \in Seq(Nat) /\ arrived + 1 \in Nat
    BY DEF TypeOK, HwTypeOK, Bytes
  <1>3. fifo' = Append(fifo, arrived + 1)
    BY DEF Receive, Accept
  <1>4. \A k \in 1 .. Len(fifo) : fifo[k] < arrived + 1
    BY ByteTypes
  <1>5. /\ \A k, l \in 1 .. Len(fifo') : k < l => fifo'[k] < fifo'[l]
        /\ \A k \in 1 .. Len(fifo') :
               \/ k \in 1 .. Len(fifo) /\ fifo'[k] = fifo[k]
               \/ fifo'[k] = arrived + 1
    BY <1>2, <1>3, <1>4, AppendIncreasing
  <1>6. RingOrder'
    BY <1>1, ByteTypes
  <1>7. HeldOrder'
    <2>1. ASSUME NEW c \in Ctx, held[c] # 0, NEW k \in 1 .. Len(fifo')
          PROVE  held[c] < fifo'[k]
      BY <1>5, <2>1, ByteTypes
    <2>2. QED
      BY <1>1, <2>1, ByteTypes
  <1>8. FifoOrder'
    <2>1. ASSUME NEW k \in 1 .. Len(fifo')
          PROVE  /\ lastRead < fifo'[k] /\ fifo'[k] <= arrived + 1
                 /\ \A i \in 0 .. Used - 1 : Entry(i) < fifo'[k]
      <3>1. CASE k \in 1 .. Len(fifo) /\ fifo'[k] = fifo[k]
        BY <3>1, ByteTypes
      <3>2. CASE fifo'[k] = arrived + 1
        BY <3>2, ByteTypes
      <3>3. QED
        BY <1>5, <3>1, <3>2
    <2>2. QED
      BY <1>1, <1>5, <2>1
  <1>9. QED
    BY <1>1, <1>6, <1>7, <1>8, ByteTypes

LEMMA LoseOrder ==
    ASSUME TypeOK, OrderInv, Lose
    PROVE  (RingOrder /\ HeldOrder /\ FifoOrder /\ lastRead <= arrived)'
  <1> USE DEF OrderInv, RingOrder, HeldOrder, FifoOrder
  <1>1. /\ Used' = Used /\ \A i \in 0 .. Used - 1 : Entry(i)' = Entry(i)
        /\ held' = held /\ lastRead' = lastRead /\ arrived' = arrived + 1
        /\ fifo' = fifo
    BY DEF Lose, Overrun, ringVars, taskLocal, Used, Entry, Slot
  <1>2. QED
    BY <1>1, ByteTypes

LEMMA TakeOrder ==
    ASSUME NEW c \in Ctx, TypeOK, OrderInv, MaskedInv, Take(c)
    PROVE  (RingOrder /\ HeldOrder /\ FifoOrder /\ lastRead <= arrived)'
  <1> USE DEF OrderInv, RingOrder, HeldOrder, FifoOrder
  <1>1. /\ Used' = Used /\ \A i \in 0 .. Used - 1 : Entry(i)' = Entry(i)
        /\ lastRead' = lastRead /\ arrived' = arrived
    BY DEF Take, ringVars, taskLocal, Used, Entry, Slot
  <1>2. /\ Len(fifo) \in Nat /\ Len(fifo) > 0
        /\ Len(fifo') = Len(fifo) - 1
        /\ \A k \in 1 .. Len(fifo) - 1 : fifo'[k] = fifo[k + 1]
        /\ Head(fifo) = fifo[1]
    BY DEF Take, ReadRXREG, URXBE, TypeOK, HwTypeOK
  <1>3. held' = [held EXCEPT ![c] = fifo[1]]
    BY <1>2 DEF Take
  <1>4. \A d \in Ctx : d # c => held[d] = 0
    BY OneDrainer DEF Take
  <1>5. RingOrder'
    BY <1>1
  <1>6. HeldOrder'
    <2>1. held'[c] = fifo[1] /\ \A d \in Ctx : d # c => held'[d] = 0
      BY <1>3, <1>4 DEF TypeOK
    <2>2. /\ lastRead < fifo[1] /\ fifo[1] <= arrived
          /\ \A i \in 0 .. Used - 1 : Entry(i) < fifo[1]
      BY <1>2
    <2>3. \A k \in 1 .. Len(fifo') : fifo[1] < fifo'[k]
      BY <1>2
    <2>4. QED
      BY <1>1, <2>1, <2>2, <2>3
  <1>7. FifoOrder'
    <2>1. \A k \in 1 .. Len(fifo') : k + 1 \in 1 .. Len(fifo) /\ fifo'[k] = fifo[k + 1]
      BY <1>2
    <2>2. ASSUME NEW k \in 1 .. Len(fifo'), NEW l \in 1 .. Len(fifo'), k < l
          PROVE  fifo'[k] < fifo'[l]
      <3>1. k + 1 \in 1 .. Len(fifo) /\ l + 1 \in 1 .. Len(fifo) /\ k + 1 < l + 1
        BY <1>2, <2>1, <2>2
      <3>2. QED
        BY <2>1, <3>1
    <2>3. \A k \in 1 .. Len(fifo') :
             /\ lastRead < fifo'[k] /\ fifo'[k] <= arrived
             /\ \A i \in 0 .. Used - 1 : Entry(i) < fifo'[k]
      BY <2>1
    <2>4. QED
      BY <1>1, <2>2, <2>3
  <1>8. QED
    BY <1>1, <1>5, <1>6, <1>7

LEMMA PutOrder ==
    ASSUME NEW c \in Ctx, TypeOK, OrderInv, MaskedInv, Put(c)
    PROVE  (RingOrder /\ HeldOrder /\ FifoOrder /\ lastRead <= arrived)'
  <1> USE DEF RingOrder, HeldOrder, FifoOrder
  <1>0. RingOrder /\ HeldOrder /\ FifoOrder /\ HeldInv /\ lastRead <= arrived
    BY DEF OrderInv
  <1>1. /\ fifo' = fifo /\ arrived' = arrived /\ lastRead' = lastRead
        /\ rx_read_idx' = rx_read_idx
    BY DEF Put, hwVars, taskLocal
  <1>2. held'[c] = 0 /\ \A d \in Ctx : d # c => held[d] = 0 /\ held'[d] = 0
    BY <1>0, OneDrainer DEF Put, TypeOK
  <1>3. HeldOrder'
    BY <1>2
  <1>4. CASE NextIdx(rx_write_idx) = rx_read_idx
    <2>1. rx_ring' = rx_ring /\ rx_write_idx' = rx_write_idx
      BY <1>4 DEF Put, RingPush
    <2>2. Used' = Used /\ \A i \in 0 .. Used - 1 : Entry(i)' = Entry(i)
      BY <1>1, <2>1 DEF Used, Entry, Slot
    <2>3. QED
      BY <1>0, <1>1, <1>3, <2>2
  <1>5. CASE NextIdx(rx_write_idx) # rx_read_idx
    <2>1. /\ rx_ring' = [rx_ring EXCEPT ![rx_write_idx] = held[c]]
          /\ rx_write_idx' = NextIdx(rx_write_idx)
      BY <1>5 DEF Put, RingPush
    <2>2. /\ Used' = Used + 1 /\ Slot(Used) = rx_write_idx
          /\ \A i \in 0 .. Used : Slot(i)' = Slot(i)
      BY <1>1, <1>5, <2>1, TypedRing, UsedPush
    <2>3. \A i \in 0 .. Used - 1 : Entry(i)' = Entry(i)
      <3>1. ASSUME NEW i \in 0 .. Used - 1 PROVE rx_ring'[Slot(i)'] = rx_ring[Slot(i)]
        <4>1. /\ Slot(i) \in 0 .. RingSize - 1 /\ Slot(i) # rx_write_idx
              /\ Slot(i)' = Slot(i)
          BY <2>2, TypedRing, UsedSlot, ByteTypes
        <4>2. QED
          BY <2>1, <4>1 DEF TypeOK
      <3>2. QED
        BY <3>1 DEF Entry
    <2>4. \A i \in 0 .. Used : i = Used => rx_ring'[Slot(i)'] = held[c]
      BY <2>1, <2>2, RingSizeType DEF TypeOK
    <2>5. ASSUME NEW i \in 0 .. Used' - 1
          PROVE  \/ i \in 0 .. Used - 1 /\ Entry(i)' = Entry(i)
                 \/ i = Used /\ Entry(i)' = held[c]
      <3>0. Used \in Nat /\ Used' - 1 = Used
        BY <2>2, ByteTypes
      <3>1. i \in 0 .. Used - 1 \/ (i \in 0 .. Used /\ i = Used)
        BY <2>5, <3>0
      <3>2. CASE i \in 0 .. Used - 1
        BY <2>3, <3>2
      <3>3. CASE i \in 0 .. Used /\ i = Used
        BY <2>4, <3>3 DEF Entry
      <3>4. QED
        BY <3>1, <3>2, <3>3
    <2>6. pc[c] = "put" /\ held[c] # 0
      BY <1>0 DEF Put, HeldInv
    <2>7. /\ lastRead < held[c] /\ held[c] <= arrived
          /\ \A i \in 0 .. Used - 1 : Entry(i) < held[c]
          /\ \A k \in 1 .. Len(fifo) : held[c] < fifo[k]
      BY <1>0, <2>6
    <2>8. RingOrder'
      <3>1. ASSUME NEW i \in 0 .. Used' - 1, NEW j \in 0 .. Used' - 1, i < j
            PROVE  Entry(i)' < Entry(j)'
        BY SMTT(30), <1>0, <2>5, <2>7, <3>1, ByteTypes
      <3>2. ASSUME NEW i \in 0 .. Used' - 1
            PROVE  lastRead < Entry(i)' /\ Entry(i)' <= arrived
        BY <1>0, <2>5, <2>7, <3>2
      <3>3. QED
        BY <1>1, <3>1, <3>2
    <2>9. FifoOrder'
      <3>1. ASSUME NEW k \in 1 .. Len(fifo), NEW i \in 0 .. Used' - 1
            PROVE  Entry(i)' < fifo[k]
        BY <1>0, <2>5, <2>7, <3>1
      <3>2. QED
        BY <1>0, <1>1, <3>1
    <2>10. QED
      BY <1>0, <1>1, <1>3, <2>8, <2>9
  <1>6. QED
    BY <1>4, <1>5

LEMMA ReadStoreOrder ==
    ASSUME TypeOK, OrderInv, MaskedInv, ReadStore
    PROVE  (RingOrder /\ HeldOrder /\ FifoOrder /\ lastRead <= arrived)'
  <1> USE DEF RingOrder, HeldOrder, FifoOrder
  <1>0. RingOrder /\ HeldOrder /\ FifoOrder /\ lastRead <= arrived
    BY DEF OrderInv
  <1>1. /\ ~RingEmpty /\ Used \in Nat /\ Used > 0
        /\ lastRead' = Entry(0) /\ rx_read_idx' = NextIdx(rx_read_idx)
    <2>1. /\ ~RingEmpty /\ lastRead' = rx_ring[rx_read_idx]
          /\ rx_read_idx' = NextIdx(rx_read_idx)
      BY DEF OrderInv, ReadInv, ReadStore, TaskAt
    <2>2. QED
      BY <2>1, TypedRing, UsedSlot, ByteTypes DEF Entry
  <1>2. /\ fifo' = fifo /\ arrived' = arrived /\ held' = held
        /\ rx_ring' = rx_ring /\ rx_write_idx' = rx_write_idx
    BY DEF ReadStore, hwVars
  <1>3. /\ Used' = Used - 1
        /\ \A i \in 0 .. Used - 2 : Slot(i)' = Slot(i + 1)
    BY <1>1, <1>2, TypedRing, UsedPop
  <1>4. \A i \in 0 .. Used' - 1 : i + 1 \in 0 .. Used - 1 /\ Entry(i)' = Entry(i + 1)
    BY <1>1, <1>2, <1>3 DEF Entry
  <1>5. lastRead' <= arrived'
    BY <1>0, <1>1, <1>2
  <1>6. RingOrder'
    <2>1. ASSUME NEW i \in 0 .. Used' - 1, NEW j \in 0 .. Used' - 1, i < j
          PROVE  Entry(i)' < Entry(j)'
      BY <1>0, <1>4, <2>1
    <2>2. ASSUME NEW i \in 0 .. Used' - 1
          PROVE  Entry(0) < Entry(i)' /\ Entry(i)' <= arrived
      BY <1>0, <1>1, <1>4, <2>2
    <2>3. QED
      BY <1>1, <1>2, <2>1, <2>2
  <1>7. HeldOrder'
    BY <1>0, <1>1, <1>2, <1>4
  <1>8. FifoOrder'
    BY <1>0, <1>1, <1>2, <1>4
  <1>9. QED
    BY <1>5, <1>6, <1>7, <1>8

LEMMA FlushRingOrder ==
    ASSUME TypeOK, OrderInv, FlushRing
    PROVE  (RingOrder /\ HeldOrder /\ FifoOrder /\ lastRead <= arrived)'
  <1>1. Used' = 0
    BY DEF FlushRing, Used, TypeOK
  <1>2. UNCHANGED <<fifo, arrived, held, lastRead>>
    BY DEF FlushRing, hwVars, taskLocal
  <1>3. QED
    BY <1>1, <1>2 DEF OrderInv, RingOrder, HeldOrder, FifoOrder

(* A step that only shortens the FIFO from the front, or empties it.       *)
LEMMA ShorterOrder ==
    ASSUME TypeOK, OrderInv, UNCHANGED <<ringVars, held, arrived, lastRead>>,
           fifo' = <<>> \/ (fifo # <<>> /\ fifo' = Tail(fifo))
    PROVE  (RingOrder /\ HeldOrder /\ FifoOrder /\ lastRead <= arrived)'
  <1> USE DEF RingOrder, HeldOrder, FifoOrder
  <1>0. RingOrder /\ HeldOrder /\ FifoOrder /\ lastRead <= arrived
    BY DEF OrderInv
  <1>1. /\ Used' = Used /\ \A i \in 0 .. Used - 1 : Entry(i)' = Entry(i)
        /\ held' = held /\ arrived' = arrived /\ lastRead' = lastRead
    BY DEF ringVars, Used, Entry, Slot
  <1>2. CASE fifo' = <<>>
    <2>1. Len(fifo') = 0
      BY <1>2, EmptyLen
    <2>2. QED
      BY <1>0, <1>1, <2>1
  <1>3. CASE fifo # <<>> /\ fifo' = Tail(fifo)
    <2>1. /\ Len(fifo) \in Nat /\ Len(fifo') = Len(fifo) - 1
          /\ \A k \in 1 .. Len(fifo) - 1 : fifo'[k] = fifo[k + 1]
      BY <1>3 DEF TypeOK, HwTypeOK
    <2>2. \A k \in 1 .. Len(fifo') : k + 1 \in 1 .. Len(fifo) /\ fifo'[k] = fifo[k + 1]
      BY <2>1
    <2>3. FifoOrder'
      <3>1. ASSUME NEW k \in 1 .. Len(fifo'), NEW l \in 1 .. Len(fifo'), k < l
            PROVE  fifo'[k] < fifo'[l]
        <4>1. k + 1 \in 1 .. Len(fifo) /\ l + 1 \in 1 .. Len(fifo) /\ k + 1 < l + 1
          BY <2>1, <2>2, <3>1
        <4>2. QED
          BY <1>0, <2>2, <4>1
      <3>2. \A k \in 1 .. Len(fifo') :
               /\ lastRead < fifo'[k] /\ fifo'[k] <= arrived
               /\ \A i \in 0 .. Used - 1 : Entry(i) < fifo'[k]
        BY <1>0, <2>2
      <3>3. QED
        BY <1>1, <3>1, <3>2
    <2>4. HeldOrder'
      BY <1>0, <1>1, <2>2
    <2>5. QED
      BY <1>0, <1>1, <2>3, <2>4
  <1>4. QED
    BY <1>2, <1>3

(* Which steps leave all bytes alone, and which touch the FIFO only.       *)
FifoStep ==
    \/ IsrAccount \/ ServiceAccount \/ FlushFifo \/ FlushOerr

FrameStep ==
    \/ LoseEnable \/ Drained("isr") \/ Drained("task") \/ IsrEnter
    \/ ServiceTest \/ ServiceMask \/ ServiceRearm \/ ReadTest \/ ReadLoad
    \/ FlushMask \/ Status \/ Restore \/ Call

LEMMA NextCases ==
    ASSUME [Next]_vars
    PROVE  \/ Receive \/ Lose \/ FlushRing \/ ReadStore \/ FifoStep \/ FrameStep
           \/ \E c \in Ctx : Take(c) \/ Put(c)
           \/ UNCHANGED vars
  BY Zenon DEF Next, Environment, Isr, TaskStep, Service, Read, Flush, FifoStep,
               FrameStep, Ctx

LEMMA FifoStepOrder ==
    ASSUME TypeOK, OrderInv, FifoStep
    PROVE  (RingOrder /\ HeldOrder /\ FifoOrder /\ lastRead <= arrived)'
  <1>1. UNCHANGED <<ringVars, held, arrived, lastRead>>
    BY DEF FifoStep, IsrAccount, ServiceAccount, FlushFifo, FlushOerr, taskLocal,
           taskRest
  <1>2. CASE fifo' = fifo
    BY <1>1, <1>2, FrameOrder DEF OrderInv
  <1>3. CASE fifo' = <<>> \/ (fifo # <<>> /\ fifo' = Tail(fifo))
    BY <1>1, <1>3, ShorterOrder
  <1>4. fifo' = fifo \/ fifo' = <<>> \/ (fifo # <<>> /\ fifo' = Tail(fifo))
    BY Zenon DEF FifoStep, IsrAccount, ServiceAccount, FlushFifo, FlushOerr,
           ClearOERR, ReadRXREG, URXBE
  <1>5. QED
    BY <1>2, <1>3, <1>4

LEMMA FrameStepOrder ==
    ASSUME TypeOK, OrderInv, FrameStep
    PROVE  (RingOrder /\ HeldOrder /\ FifoOrder /\ lastRead <= arrived)'
  <1>1. UNCHANGED <<ringVars, held, fifo, arrived, lastRead>>
    BY Zenon DEF FrameStep, LoseEnable, Drained, IsrEnter, ServiceTest, ServiceMask,
       ServiceRearm, ReadTest, ReadLoad, FlushMask, Status, GetMask, GetDone,
       ClearMask, ClearDone, Restore, Call, CallReady, CallRead, CallService,
       CallFlush, CallGet, CallClear, CallEnable, CallDisable, Begin, SetEnable,
       Mask, hwVars, taskLocal, taskRest
  <1>2. QED
    BY <1>1, FrameOrder DEF OrderInv

LEMMA OrdersStep ==
    ASSUME TypeOK, OrderInv, MaskedInv, [Next]_vars
    PROVE  (RingOrder /\ HeldOrder /\ FifoOrder /\ lastRead <= arrived)'
  <1>1. CASE UNCHANGED vars
    BY <1>1, FrameOrder DEF OrderInv, vars, hwVars, taskLocal
  <1>2. ASSUME NEW c \in Ctx, Take(c) \/ Put(c)
        PROVE  (RingOrder /\ HeldOrder /\ FifoOrder /\ lastRead <= arrived)'
    BY <1>2, TakeOrder, PutOrder
  <1>3. QED
    BY <1>1, <1>2, NextCases, ReceiveOrder, LoseOrder, FlushRingOrder,
       ReadStoreOrder, FifoStepOrder, FrameStepOrder

(* A context holds a byte exactly between reading RXREG and pushing it.    *)
LEMMA HeldStep ==
    ASSUME TypeOK, HeldInv, [Next]_vars
    PROVE  HeldInv'
  <1> USE DEF HeldInv
  <1>1. ASSUME NEW c \in Ctx, Take(c) PROVE HeldInv'
    <2>1. Head(fifo) # 0
      BY <1>1, PopType DEF Take, Bytes
    <2>2. QED
      BY <1>1, <2>1 DEF Take, Goto, TypeOK
  <1>2. ASSUME NEW c \in Ctx, Put(c) PROVE HeldInv'
    BY <1>2 DEF Put, Goto, TypeOK
  <1>3. CASE Receive \/ Lose \/ UNCHANGED vars
    BY <1>3 DEF Receive, Lose, vars
  <1>4. CASE FlushRing \/ ReadStore \/ FifoStep
    BY <1>4 DEF FlushRing, ReadStore, FifoStep, IsrAccount, ServiceAccount,
       FlushFifo, FlushOerr, TaskAt, Goto, TypeOK, Ctx, taskRest
  <1>5. CASE FrameStep
    BY <1>5 DEF FrameStep, LoseEnable, Drained, IsrEnter, ServiceTest, ServiceMask,
       ServiceRearm, ReadTest, ReadLoad, FlushMask, Status, GetMask, GetDone,
       ClearMask, ClearDone, Restore, Call, CallReady, CallRead, CallService,
       CallFlush, CallGet, CallClear, CallEnable, CallDisable, Begin, SetEnable,
       AfterService, Mask, TaskAt, Goto, TypeOK, Ctx, taskRest
  <1>6. QED
    BY <1>1, <1>2, <1>3, <1>4, <1>5, NextCases

(* What _read_byte() saw before it advances the index is still there: only *)
(* the handler can have run, and it only appends.                          *)
LEMMA ReadStep ==
    ASSUME TypeOK, ReadInv, [Next]_vars
    PROVE  ReadInv'
  <1> USE DEF ReadInv, RingEmpty
  <1>1. CASE Put("isr") /\ pc["task"] \in {"rd_load", "rd_store"}
    <2>1. /\ pc'["task"] = pc["task"] /\ rx_read_idx' = rx_read_idx
          /\ read_idx' = read_idx /\ data' = data
      BY <1>1 DEF Put, Goto, TypeOK, Ctx, taskLocal
    <2>2. rx_write_idx' # rx_read_idx
      BY <1>1 DEF Put, RingPush
    <2>3. rx_ring'[rx_read_idx] = rx_ring[rx_read_idx]
      BY <1>1 DEF Put, RingPush, TypeOK
    <2>4. QED
      BY <1>1, <2>1, <2>2, <2>3
  <1>2. ASSUME NEW c \in Ctx, Take(c) PROVE ReadInv'
    BY <1>2 DEF Take, Goto, TypeOK, Ctx, ringVars, taskLocal
  <1>3. CASE Put("task") \/ (Put("isr") /\ pc["task"] \notin {"rd_load", "rd_store"})
    BY <1>3 DEF Put, Goto, TypeOK, Ctx
  <1>4. CASE Receive \/ Lose \/ UNCHANGED vars
    BY <1>4 DEF Receive, Lose, vars, ringVars, taskLocal
  <1>5. CASE FlushRing \/ ReadStore \/ FifoStep
    BY <1>5 DEF FlushRing, ReadStore, FifoStep, IsrAccount, ServiceAccount,
       FlushFifo, FlushOerr, TaskAt, Goto, TypeOK, Ctx, ringVars, taskLocal, taskRest
  <1>6. CASE FrameStep
    BY <1>6 DEF FrameStep, LoseEnable, Drained, IsrEnter, ServiceTest, ServiceMask,
       ServiceRearm, ReadTest, ReadLoad, FlushMask, Status, GetMask, GetDone,
       ClearMask, ClearDone, Restore, Call, CallReady, CallRead, CallService,
       CallFlush, CallGet, CallClear, CallEnable, CallDisable, Begin, SetEnable,
       AfterService, Mask, TaskAt, Goto, TypeOK, Ctx, ringVars, taskLocal, taskRest
  <1>7. QED
    BY <1>1, <1>2, <1>3, <1>4, <1>5, <1>6, NextCases DEF Ctx

(* From the inductive invariant to the order of the whole pipeline.        *)
Below(s, t) == \A i \in 1 .. Len(s), j \in 1 .. Len(t) : s[i] < t[j]

LEMMA ConcatIndex ==
    ASSUME NEW s \in Seq(Nat), NEW t \in Seq(Nat), NEW k \in 1 .. Len(s \o t)
    PROVE  \/ k \in 1 .. Len(s) /\ (s \o t)[k] = s[k]
           \/ /\ k > Len(s) /\ k - Len(s) \in 1 .. Len(t)
              /\ (s \o t)[k] = t[k - Len(s)]
  OBVIOUS

LEMMA ConcatIncreasing ==
    ASSUME NEW s \in Seq(Nat), NEW t \in Seq(Nat),
           Increasing(s), Increasing(t), Below(s, t)
    PROVE  Increasing(s \o t) /\ s \o t \in Seq(Nat)
  <1> DEFINE u == s \o t
  <1>1. u \in Seq(Nat)
    OBVIOUS
  <1>2. ASSUME NEW i \in 1 .. Len(u), NEW j \in 1 .. Len(u), i < j
        PROVE  u[i] < u[j]
    <2>1. CASE j \in 1 .. Len(s)
      <3>1. i \in 1 .. Len(s) /\ u[i] = s[i] /\ u[j] = s[j]
        BY <1>2, <2>1
      <3>2. QED
        BY <1>2, <2>1, <3>1 DEF Increasing
    <2>2. CASE i \in 1 .. Len(s) /\ j \notin 1 .. Len(s)
      <3>1. u[i] = s[i] /\ j - Len(s) \in 1 .. Len(t) /\ u[j] = t[j - Len(s)]
        BY <2>2
      <3>2. QED
        BY <2>2, <3>1 DEF Below
    <2>3. CASE i \notin 1 .. Len(s) /\ j \notin 1 .. Len(s)
      <3>1. /\ i - Len(s) \in 1 .. Len(t) /\ u[i] = t[i - Len(s)]
            /\ j - Len(s) \in 1 .. Len(t) /\ u[j] = t[j - Len(s)]
            /\ i - Len(s) < j - Len(s)
        BY <1>2, <2>3
      <3>2. QED
        BY <3>1 DEF Increasing
    <2>4. i \in 1 .. Len(s) \/ j \notin 1 .. Len(s)
      BY <1>2
    <2>5. QED
      BY <2>1, <2>2, <2>3, <2>4
  <1>3. QED
    BY <1>1, <1>2 DEF Increasing

LEMMA ConcatBelow ==
    ASSUME NEW s \in Seq(Nat), NEW t \in Seq(Nat), NEW u \in Seq(Nat),
           Below(s, u), Below(t, u)
    PROVE  Below(s \o t, u)
  <1>1. ASSUME NEW k \in 1 .. Len(s \o t), NEW j \in 1 .. Len(u)
        PROVE  (s \o t)[k] < u[j]
    <2>1. CASE k \in 1 .. Len(s) /\ (s \o t)[k] = s[k]
      BY <1>1, <2>1 DEF Below
    <2>2. CASE k - Len(s) \in 1 .. Len(t) /\ (s \o t)[k] = t[k - Len(s)]
      BY <1>1, <2>2 DEF Below
    <2>3. QED
      BY <1>1, <2>1, <2>2, ConcatIndex
  <1>2. QED
    BY <1>1 DEF Below

LEMMA BelowConcat ==
    ASSUME NEW s \in Seq(Nat), NEW t \in Seq(Nat), NEW u \in Seq(Nat),
           NEW v \in Seq(Nat), NEW w \in Seq(Nat),
           Below(s, t), Below(s, u), Below(s, v), Below(s, w)
    PROVE  Below(s, t \o u \o v \o w)
  <1>1. ASSUME NEW a \in Seq(Nat), NEW b \in Seq(Nat), Below(s, a), Below(s, b)
        PROVE  Below(s, a \o b) /\ a \o b \in Seq(Nat)
    <2>1. ASSUME NEW i \in 1 .. Len(s), NEW k \in 1 .. Len(a \o b)
          PROVE  s[i] < (a \o b)[k]
      <3>1. CASE k \in 1 .. Len(a) /\ (a \o b)[k] = a[k]
        BY <1>1, <2>1, <3>1 DEF Below
      <3>2. CASE k - Len(a) \in 1 .. Len(b) /\ (a \o b)[k] = b[k - Len(a)]
        BY <1>1, <2>1, <3>2 DEF Below
      <3>3. QED
        BY <2>1, <3>1, <3>2, ConcatIndex
    <2>2. QED
      BY <2>1 DEF Below
  <1>2. Below(s, t \o u) /\ t \o u \in Seq(Nat)
    BY <1>1
  <1>3. Below(s, t \o u \o v) /\ t \o u \o v \in Seq(Nat)
    BY <1>1, <1>2
  <1>4. QED
    BY <1>1, <1>3

LEMMA PieceTypes ==
    ASSUME TypeOK
    PROVE  /\ Buffered \in Seq(Nat) /\ Len(Buffered) = Used
           /\ \A i \in 1 .. Used : i - 1 \in 0 .. Used - 1 /\ Buffered[i] = Entry(i - 1)
           /\ \A c \in Ctx : /\ Held(c) \in Seq(Nat)
                             /\ \A i \in 1 .. Len(Held(c)) :
                                    held[c] # 0 /\ Held(c)[i] = held[c] /\ i = 1
           /\ fifo \in Seq(Nat)
           /\ <<lastRead>> \in Seq(Nat)
           /\ \A i \in 1 .. Len(<<lastRead>>) : <<lastRead>>[i] = lastRead /\ i = 1
  <1>1. /\ Used \in Nat
        /\ \A i \in 1 .. Used : i - 1 \in 0 .. Used - 1 /\ Buffered[i] = Entry(i - 1)
    BY ByteTypes DEF Buffered, Entry
  <1>2. Buffered \in Seq(Nat) /\ Len(Buffered) = Used
    <2>1. \A i \in 1 .. Used : rx_ring[Slot(i - 1)] \in Nat
      BY <1>1, ByteTypes DEF Entry
    <2>2. QED
      BY <1>1, <2>1 DEF Buffered
  <1>3. ASSUME NEW c \in Ctx
        PROVE  /\ Held(c) \in Seq(Nat)
               /\ \A i \in 1 .. Len(Held(c)) :
                      held[c] # 0 /\ Held(c)[i] = held[c] /\ i = 1
    <2>1. CASE held[c] = 0
      BY <2>1, EmptyLen DEF Held
    <2>2. CASE held[c] # 0
      BY <2>2, ByteTypes DEF Held
    <2>3. QED
      BY <2>1, <2>2
  <1>4. fifo \in Seq(Nat)
    BY DEF TypeOK, HwTypeOK, Bytes
  <1>5. /\ <<lastRead>> \in Seq(Nat)
        /\ \A i \in 1 .. Len(<<lastRead>>) : <<lastRead>>[i] = lastRead /\ i = 1
    BY ByteTypes
  <1>6. QED
    BY <1>1, <1>2, <1>3, <1>4, <1>5

LEMMA OrderImplies ==
    ASSUME TypeOK, MaskedInv, OrderInv
    PROVE  InOrder
  <1> DEFINE L  == <<lastRead>>
             B  == Buffered
             Hi == Held("isr")
             Ht == Held("task")
             F  == fifo
  <1> "isr" \in Ctx /\ "task" \in Ctx
    BY DEF Ctx
  <1>1. L \in Seq(Nat) /\ B \in Seq(Nat) /\ Hi \in Seq(Nat) /\ Ht \in Seq(Nat)
        /\ F \in Seq(Nat)
    BY PieceTypes
  <1>2. held["isr"] = 0 \/ held["task"] = 0
    BY OneDrainer DEF OrderInv, HeldInv
  <1>3. Increasing(L) /\ Increasing(Hi) /\ Increasing(Ht)
    BY PieceTypes DEF Increasing
  <1>4. Increasing(B)
    <2>1. ASSUME NEW i \in 1 .. Used, NEW j \in 1 .. Used, i < j
          PROVE  B[i] < B[j]
      <3>1. /\ B[i] = Entry(i - 1) /\ i - 1 \in 0 .. Used - 1
            /\ B[j] = Entry(j - 1) /\ j - 1 \in 0 .. Used - 1 /\ i - 1 < j - 1
        BY <2>1, PieceTypes, ByteTypes
      <3>2. QED
        BY <3>1 DEF OrderInv, RingOrder
    <2>2. QED
      BY <2>1, PieceTypes DEF Increasing
  <1>5. Increasing(F)
    BY DEF OrderInv, FifoOrder, Increasing
  <1>6. Below(B, Hi) /\ Below(B, Ht) /\ Below(B, F)
    <2>1. ASSUME NEW i \in 1 .. Used, NEW c \in Ctx, NEW k \in 1 .. Len(Held(c))
          PROVE  B[i] < Held(c)[k]
      <3>1. B[i] = Entry(i - 1) /\ i - 1 \in 0 .. Used - 1
        BY PieceTypes
      <3>2. held[c] # 0 /\ Held(c)[k] = held[c]
        BY PieceTypes
      <3>3. QED
        BY <3>1, <3>2 DEF OrderInv, HeldOrder
    <2>2. ASSUME NEW i \in 1 .. Used, NEW k \in 1 .. Len(fifo)
          PROVE  B[i] < fifo[k]
      BY PieceTypes, SMTT(60) DEF OrderInv, FifoOrder
    <2>3. QED
      BY <2>1, <2>2, PieceTypes DEF Below
  <1>7. Below(Hi, Ht)
    BY <1>2, PieceTypes DEF Below
  <1>8. Below(Hi, F) /\ Below(Ht, F)
    BY SMTT(30), PieceTypes DEF Below, OrderInv, HeldOrder
  <1>9. Below(L, B) /\ Below(L, Hi) /\ Below(L, Ht) /\ Below(L, F)
    <2>1. \A i \in 1 .. Used : lastRead < B[i]
      BY PieceTypes DEF OrderInv, RingOrder
    <2>2. \A c \in Ctx : \A k \in 1 .. Len(Held(c)) : lastRead < Held(c)[k]
      BY PieceTypes DEF OrderInv, HeldOrder
    <2>3. \A k \in 1 .. Len(fifo) : lastRead < fifo[k]
      BY DEF OrderInv, FifoOrder
    <2>4. QED
      BY <2>1, <2>2, <2>3, PieceTypes DEF Below
  <1> HIDE DEF L, B, Hi, Ht, F
  <1>10. /\ B \o Hi \in Seq(Nat) /\ Increasing(B \o Hi)
         /\ Below(B \o Hi, Ht) /\ Below(B \o Hi, F)
    BY <1>1, <1>3, <1>4, <1>6, <1>7, <1>8, ConcatIncreasing, ConcatBelow
  <1>11. /\ B \o Hi \o Ht \in Seq(Nat) /\ Increasing(B \o Hi \o Ht)
         /\ Below(B \o Hi \o Ht, F)
    BY <1>1, <1>3, <1>8, <1>10, ConcatIncreasing, ConcatBelow
  <1>12. Increasing(B \o Hi \o Ht \o F) /\ B \o Hi \o Ht \o F \in Seq(Nat)
    BY <1>1, <1>5, <1>11, ConcatIncreasing
  <1>13. Below(L, B \o Hi \o Ht \o F)
    BY <1>1, <1>9, <1>10, <1>11, <1>12, BelowConcat
  <1>14. Increasing(L \o (B \o Hi \o Ht \o F))
    BY <1>1, <1>3, <1>12, <1>13, ConcatIncreasing
  <1>15. QED
    BY <1>14 DEF InOrder, InTransit, L, B, Hi, Ht, F

LEMMA OrderInit == Init => OrderInv
  <1> SUFFICES ASSUME Init PROVE OrderInv
    OBVIOUS
  <1>1. TypeOK /\ Used = 0 /\ Len(fifo) = 0 /\ arrived = 0 /\ lastRead = 0
    BY InitType, EmptyLen DEF Init, HwInit, Used
  <1>2. HeldInv /\ ReadInv /\ HeldOrder
    BY DEF Init, HeldInv, ReadInv, HeldOrder, Ctx
  <1>3. RingOrder /\ FifoOrder
    BY <1>1 DEF RingOrder, FifoOrder
  <1>4. QED
    BY <1>1, <1>2, <1>3 DEF OrderInv

(* Bytes reach the reader in the order they arrived, each at most once.    *)
THEOREM ArrivalOrder == Spec => []InOrder
  <1>1. Init => TypeOK /\ MaskedInv /\ OrderInv
    BY InitType, MaskedInit, OrderInit
  <1>2. TypeOK /\ MaskedInv /\ OrderInv /\ [Next]_vars
          => (TypeOK /\ MaskedInv /\ OrderInv)'
    <2> SUFFICES ASSUME TypeOK, MaskedInv, OrderInv, [Next]_vars
                 PROVE  (TypeOK /\ MaskedInv /\ OrderInv)'
      OBVIOUS
    <2>1. HeldInv' /\ ReadInv'
      BY HeldStep, ReadStep DEF OrderInv
    <2>2. QED
      BY <2>1, TypeStep, MaskedStep, OrdersStep DEF OrderInv
  <1>3. TypeOK /\ MaskedInv /\ OrderInv => InOrder
    BY OrderImplies
  <1>4. QED
    BY <1>1, <1>2, <1>3, PTL DEF Spec
-----------------------------------------------------------------------------
(* The steps that touch rx_status belong to the handler, which a masked    *)
(* section shuts out, and to other places of the foreground.               *)
LEMMA StatusStep ==
    ASSUME TypeOK, MaskedInv, [Next]_vars, pc["task"] \in {"get", "clear"},
           pc'["task"] = pc["task"]
    PROVE  rx_status' = rx_status
  <1> USE DEF TaskAt
  <1>1. pc \in [Ctx -> TaskLabels] /\ "isr" \in Ctx /\ "task" \in Ctx
    BY DEF TypeOK, Ctx
  <1>2. pc["isr"] = "idle" /\ ~rxie
    BY DEF MaskedInv, Masked
  <1>3. CASE Take("isr") \/ Put("isr") \/ Drained("isr") \/ IsrEnter \/ IsrAccount
    BY <1>2, <1>3 DEF Take, Put, Drained, IsrEnter, IsrAccount
  <1>4. CASE Take("task") \/ Put("task") \/ Drained("task")
    BY <1>4 DEF Take, Put, Drained
  <1>5. CASE Environment \/ Read
    BY <1>5 DEF Environment, Read, Receive, Lose, LoseEnable, ReadTest, ReadLoad,
                ReadStore
  <1>6. CASE ServiceTest \/ ServiceMask \/ ServiceAccount \/ ServiceRearm
    BY <1>6 DEF ServiceTest, ServiceMask, ServiceAccount, ServiceRearm, Mask
  <1>7. CASE Flush \/ Restore
    BY <1>7 DEF Flush, FlushMask, FlushRing, FlushFifo, FlushOerr, Restore, Mask
  <1>8. CASE GetMask \/ GetDone \/ ClearMask
    BY <1>8 DEF GetMask, GetDone, ClearMask, Mask
  <1>9. CASE ClearDone
    BY <1>1, <1>9 DEF ClearDone, Goto
  <1>10. CASE Call
    BY <1>10 DEF Call, CallReady, CallRead, CallService, CallFlush, CallGet,
                 CallClear, CallEnable, CallDisable, Begin, SetEnable
  <1>11. CASE UNCHANGED vars
    BY <1>11 DEF vars
  <1> QED
    BY Zenon, <1>3, <1>4, <1>5, <1>6, <1>7, <1>8, <1>9, <1>10, <1>11
       DEF Next, Isr, TaskStep, Service, Status

(* status_get() copies and status_clear() zeroes counters nobody else is   *)
(* updating.                                                               *)
THEOREM Snapshot == Spec => SnapshotAtomic
  <1>1. Init => TypeOK /\ MaskedInv
    BY InitType, MaskedInit
  <1>2. TypeOK /\ MaskedInv /\ [Next]_vars => (TypeOK /\ MaskedInv)'
    BY TypeStep, MaskedStep
  <1>3. TypeOK /\ MaskedInv /\ [Next]_vars
          => [pc["task"] \in {"get", "clear"} /\ pc'["task"] = pc["task"]
                => rx_status' = rx_status]_vars
    BY StatusStep
  <1>4. QED
    BY <1>1, <1>2, <1>3, PTL DEF Spec, SnapshotAtomic
-----------------------------------------------------------------------------
(* An overrun.  It is latched behind a full FIFO, and whoever empties the  *)
(* FIFO is inside a section that ends with the test of OERR.               *)
LEMMA OverrunStep ==
    ASSUME TypeOK, OverrunVisible, [Next]_vars
    PROVE  OverrunVisible'
  <1> SUFFICES ASSUME oerr', fifo' = <<>>
               PROVE  \/ pc'["isr"] # "idle"
                      \/ pc'["task"] \in {"drain", "put", "account",
                                          "flush_fifo", "flush_oerr"}
    BY DEF OverrunVisible
  <1> USE DEF Goto, TaskAt
  <1>1. pc \in [Ctx -> TaskLabels] /\ "isr" \in Ctx /\ "task" \in Ctx
    BY DEF TypeOK, Ctx
  <1>2. ASSUME NEW c \in Ctx, Take(c) \/ Put(c) \/ Drained(c)
        PROVE  pc'[c] \in {"put", "drain", "account"}
    BY <1>1, <1>2 DEF Take, Put, Drained
  <1>3. CASE \E c \in Ctx : Take(c) \/ Put(c) \/ Drained(c)
    BY <1>2, <1>3 DEF Ctx
  <1>4. CASE Receive
    BY <1>4 DEF Receive, Accept
  <1>5. CASE Lose
    <2>1. fifo = <<>> /\ pc' = pc
      BY <1>5 DEF Lose, Overrun
    <2>2. oerr
      BY <1>5, <2>1, EmptyLen DEF Lose, Overrun
    <2> QED
      BY <2>1, <2>2 DEF OverrunVisible
  <1>6. CASE IsrEnter
    BY <1>1, <1>6 DEF IsrEnter
  <1>7. CASE IsrAccount \/ ServiceAccount \/ FlushOerr
    BY <1>7 DEF IsrAccount, ServiceAccount, FlushOerr, ClearOERR
  <1>8. CASE FlushFifo
    BY <1>1, <1>8 DEF FlushFifo
  <1>9. CASE FlushRing
    BY <1>1, <1>9 DEF FlushRing
  <1>10. CASE LoseEnable \/ UNCHANGED vars
    BY <1>10 DEF LoseEnable, vars, hwVars, OverrunVisible
  <1>11. CASE ServiceTest \/ ServiceMask \/ ServiceRearm
    BY <1>11 DEF ServiceTest, ServiceMask, ServiceRearm, Mask, OverrunVisible
  <1>12. CASE Read
    BY <1>12 DEF Read, ReadTest, ReadLoad, ReadStore, hwVars, OverrunVisible
  <1>13. CASE FlushMask \/ Status \/ Restore
    BY <1>13 DEF FlushMask, Status, GetMask, GetDone, ClearMask, ClearDone,
                 Restore, Mask, OverrunVisible
  <1>14. CASE Call
    BY <1>14 DEF Call, CallReady, CallRead, CallService, CallFlush, CallGet,
                 CallClear, CallEnable, CallDisable, Begin, SetEnable,
                 OverrunVisible
  <1> QED
    BY Zenon, <1>3, <1>4, <1>5, <1>6, <1>7, <1>8, <1>9, <1>10, <1>11, <1>12,
       <1>13, <1>14
       DEF Next, Environment, Isr, TaskStep, Service, Flush, Ctx

(* Reception is never left stopped with an empty FIFO by a context that    *)
(* has returned.                                                           *)
THEOREM OverrunSeen == Spec => []OverrunVisible
  <1>1. Init => OverrunVisible
    BY DEF Init, HwInit, OverrunVisible
  <1>2. TypeOK /\ OverrunVisible /\ [Next]_vars => OverrunVisible'
    BY OverrunStep
  <1>3. QED
    BY <1>1, <1>2, TypeInvariant, PTL DEF Spec
=============================================================================
