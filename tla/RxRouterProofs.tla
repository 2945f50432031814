--------------------------- MODULE RxRouterProofs ---------------------------
(***************************************************************************)
(* Stream and transfers share the bytes: every step of RxAsync is a step   *)
(* of RxRouter or leaves the router alone, for every ring, FIFO and        *)
(* transfer length, every set of calls, and whatever the callbacks and the *)
(* loss of the enable bit do.  The two conditions are those of the parts:  *)
(* the callback polls from the handler only, and the FIFO survives the     *)
(* clearing of OERR.  From the router follows that no byte goes to both or *)
(* comes out of order, and this without the second condition.              *)
(***************************************************************************)
EXTENDS RxChannelProofs, RxAsyncProofs

(* The router's variables that are more than a variable of RxAsync.        *)
Pending == InHand("isr") \o InHand("task") \o fifo

Need == IF rx_async_busy THEN rx_async_len - Len(TakenBytes) ELSE 0

RouterStep == [Router!Next]_(Router!rvars)

(* The same as functions of the places and the bytes in hand, so that one  *)
(* lemma speaks of the state before a step and of the one after it.        *)
PendingAt(p, h, f) ==
    (IF p["isr"] = "put" THEN <<h["isr"]>> ELSE <<>>)
        \o (IF p["task"] = "put" THEN <<h["task"]>> ELSE <<>>) \o f

TakenAt(p, h, s) ==
    s \o (IF p["isr"] = "store" THEN <<h["isr"]>> ELSE <<>>)
      \o (IF p["task"] = "store" THEN <<h["task"]>> ELSE <<>>)

LEMMA Mapped ==
    /\ Pending = PendingAt(pc, held, fifo)
    /\ Pending' = PendingAt(pc', held', fifo')
    /\ TakenBytes = TakenAt(pc, held, stored)
    /\ TakenBytes' = TakenAt(pc', held', stored')
  BY DEF Pending, InHand, PendingAt, TakenBytes, Passing, TakenAt

LEMMA NoHand ==
    ASSUME NEW p, NEW h, NEW f \in Seq(Nat), \A c \in Ctx : p[c] # "put"
    PROVE  PendingAt(p, h, f) = f
  BY NoMore, Contexts DEF PendingAt

LEMMA OneHand ==
    ASSUME NEW p, NEW h, NEW f \in Seq(Nat), NEW c \in Ctx, p[c] = "put",
           h[c] \in Nat, \A d \in Ctx : d # c => p[d] # "put"
    PROVE  PendingAt(p, h, f) = <<h[c]>> \o f
  <1>1. <<h[c]>> \in Seq(Nat) /\ <<>> \in Seq(Nat)
    OBVIOUS
  <1>2. CASE c = "isr"
    BY <1>1, <1>2, NoMore, Contexts DEF PendingAt
  <1>3. CASE c = "task"
    BY <1>1, <1>3, NoMore, Contexts DEF PendingAt
  <1> QED
    BY <1>2, <1>3, Contexts

LEMMA NonePassing ==
    ASSUME NEW p, NEW h, NEW s \in Seq(Nat), \A c \in Ctx : p[c] # "store"
    PROVE  TakenAt(p, h, s) = s
  BY NoMore, Contexts DEF TakenAt

LEMMA OnePassing ==
    ASSUME NEW p, NEW h, NEW s \in Seq(Nat), NEW c \in Ctx, p[c] = "store",
           h[c] \in Nat, \A d \in Ctx : d # c => p[d] # "store"
    PROVE  TakenAt(p, h, s) = Append(s, h[c])
  <1>1. <<h[c]>> \in Seq(Nat) /\ <<>> \in Seq(Nat) /\ s \o <<h[c]>> \in Seq(Nat)
        /\ s \o <<h[c]>> = Append(s, h[c])
    OBVIOUS
  <1>2. CASE c = "isr"
    BY <1>1, <1>2, NoMore, Contexts DEF TakenAt
  <1>3. CASE c = "task"
    BY <1>1, <1>3, NoMore, Contexts DEF TakenAt
  <1> QED
    BY <1>2, <1>3, Contexts

(* A step that takes no byte and hands none on leaves them where they are. *)
LEMMA SameBytes ==
    ASSUME SameHands, fifo' = fifo, stored' = stored
    PROVE  Pending' = Pending /\ TakenBytes' = TakenBytes
  <1>1. \A c \in Ctx : /\ pc'[c] = "put" <=> pc[c] = "put"
                       /\ pc'[c] = "store" <=> pc[c] = "store"
    BY DEF SameHands, HandLabels
  <1>2. held' = held
    BY DEF SameHands
  <1> QED
    BY <1>1, <1>2, Mapped, Contexts DEF PendingAt, TakenAt

(* Whoever drains is alone.                                                *)
LEMMA AloneAtWork ==
    ASSUME PcSafe, MaskedSafe, NEW c \in Ctx,
           pc[c] \in {"drain", "put", "store", "done", "complete_cb"}
    PROVE  \A d \in Ctx : d # c => pc[d] \notin {"put", "store", "done"}
  BY Contexts DEF PcSafe, MaskedSafe, AsyncMasked, Masked, Feeding

-----------------------------------------------------------------------------
(* The callback's _service(): what it puts where.                          *)
Ahead(i) == IF rx_write_idx + i < RingSize
            THEN rx_write_idx + i
            ELSE rx_write_idx + i - RingSize

Room == IF Len(fifo) < RingSize - 1 THEN Len(fifo) ELSE RingSize - 1

LEMMA Wraps ==
    ASSUME RingTyped, NEW i \in 0 .. RingSize - 1
    PROVE  /\ (rx_write_idx + i) % RingSize = Ahead(i)
           /\ Ahead(i) \in 0 .. RingSize - 1
  <1>1. /\ RingSize \in Nat \ {0} /\ rx_write_idx \in 0 .. RingSize - 1
    BY RingSizeType DEF RingTyped
  <1>2. ASSUME NEW p \in Nat \ {0}, NEW n \in 0 .. p - 1 PROVE n % p = n
    OBVIOUS
  <1>3. ASSUME NEW p \in Nat \ {0}, NEW n \in 0 .. p - 1 PROVE (n + p) % p = n
    OBVIOUS
  <1>4. CASE rx_write_idx + i < RingSize
    BY <1>1, <1>2, <1>4 DEF Ahead
  <1>5. CASE rx_write_idx + i >= RingSize
    <2>1. rx_write_idx + i - RingSize \in 0 .. RingSize - 1
      BY <1>1, <1>5
    <2>2. (rx_write_idx + i - RingSize + RingSize) % RingSize
            = rx_write_idx + i - RingSize
      BY <1>1, <1>3, <2>1
    <2>3. rx_write_idx + i - RingSize + RingSize = rx_write_idx + i
      BY <1>1
    <2> QED
      BY <1>1, <1>5, <2>1, <2>2, <2>3 DEF Ahead
  <1> QED
    BY <1>1, <1>4, <1>5

LEMMA Refill ==
    ASSUME RingTyped, HwTypeOK, NEW c \in Ctx, CallbackReady(c)
    PROVE  /\ Room \in 0 .. RingSize - 1 /\ Room <= Len(fifo)
           /\ rx_write_idx' = Ahead(Room) /\ rx_read_idx' = rx_read_idx
           /\ DOMAIN rx_ring' = 0 .. RingSize - 1
           /\ \A j \in 1 .. Room : rx_ring'[Ahead(j - 1)] = fifo[j]
           /\ \A i \in 0 .. RingSize - 1 :
                  \/ \E j \in 1 .. Room : rx_ring'[i] = fifo[j]
                  \/ rx_ring'[i] = rx_ring[i]
  <1>1. /\ Len(fifo) \in Nat /\ RingSize \in Nat /\ RingSize > 1
        /\ Room \in 0 .. RingSize - 1 /\ Room <= Len(fifo)
    BY RingSizeType DEF Room, HwTypeOK
  <1> DEFINE at(i) == {j \in 1 .. Room : (rx_write_idx + (j - 1)) % RingSize = i}
  <1>2. /\ rx_write_idx' = (rx_write_idx + Room) % RingSize
        /\ rx_read_idx' = rx_read_idx
        /\ rx_ring' = [i \in DOMAIN rx_ring |->
                         IF at(i) = {} THEN rx_ring[i] ELSE fifo[CHOOSE j \in at(i) : TRUE]]
    BY DEF CallbackReady, Room
  <1>3. rx_write_idx' = Ahead(Room)
    BY <1>1, <1>2, Wraps
  <1>4. DOMAIN rx_ring = 0 .. RingSize - 1
    BY DEF RingTyped
  <1>5. \A j \in 1 .. Room : /\ j - 1 \in 0 .. RingSize - 1
                             /\ (rx_write_idx + (j - 1)) % RingSize = Ahead(j - 1)
                             /\ Ahead(j - 1) \in 0 .. RingSize - 1
    <2>1. \A j \in 1 .. Room : j - 1 \in 0 .. RingSize - 1
      BY <1>1
    <2> QED
      BY <2>1, Wraps
  <1>6. \A j, k \in 1 .. Room : Ahead(j - 1) = Ahead(k - 1) => j = k
    <2>1. rx_write_idx \in 0 .. RingSize - 1
      BY DEF RingTyped
    <2> QED
      BY <1>1, <2>1 DEF Ahead
  <1>7. ASSUME NEW j \in 1 .. Room PROVE at(Ahead(j - 1)) = {j}
    BY <1>5, <1>6, <1>7
  <1>8. ASSUME NEW i \in 0 .. RingSize - 1, at(i) # {}
        PROVE  (CHOOSE j \in at(i) : TRUE) \in 1 .. Room
    BY <1>8
  <1>9. \A j \in 1 .. Room : rx_ring'[Ahead(j - 1)] = fifo[j]
    <2> SUFFICES ASSUME NEW j \in 1 .. Room PROVE rx_ring'[Ahead(j - 1)] = fifo[j]
      OBVIOUS
    <2>1. at(Ahead(j - 1)) = {j} /\ Ahead(j - 1) \in DOMAIN rx_ring
      BY <1>4, <1>5, <1>7
    <2> HIDE DEF at
    <2>2. rx_ring'[Ahead(j - 1)] = fifo[CHOOSE k \in {j} : TRUE]
      BY <1>2, <2>1
    <2>3. (CHOOSE k \in {j} : TRUE) = j
      OBVIOUS
    <2> QED
      BY <2>2, <2>3
  <1> HIDE DEF at
  <1>10. \A i \in 0 .. RingSize - 1 :
            \/ \E j \in 1 .. Room : rx_ring'[i] = fifo[j]
            \/ rx_ring'[i] = rx_ring[i]
    <2> SUFFICES ASSUME NEW i \in 0 .. RingSize - 1, rx_ring'[i] # rx_ring[i]
                 PROVE  \E j \in 1 .. Room : rx_ring'[i] = fifo[j]
      OBVIOUS
    <2>1. at(i) # {} /\ rx_ring'[i] = fifo[CHOOSE j \in at(i) : TRUE]
      BY <1>2, <1>4
    <2> QED
      BY <1>8, <2>1
  <1> QED
    BY <1>1, <1>2, <1>3, <1>4, <1>9, <1>10

-----------------------------------------------------------------------------
(* What the mapping needs beyond AsyncInv: types, that nothing is anywhere *)
(* before it has arrived, that _read_byte() still holds the oldest byte    *)
(* when it returns it, and that a flushed ring stays empty.                *)
ArrivedSafe ==
    /\ lastRead \in 0 .. arrived
    /\ \A i \in 0 .. RingSize - 1 : rx_ring[i] <= arrived
    /\ \A k \in 1 .. Len(fifo) : fifo[k] <= arrived
    /\ \A c \in Ctx : held[c] <= arrived
    /\ \A i \in 1 .. Len(stored) : stored[i] <= arrived

LoadedSafe ==
    pc["task"] = "rd_store" =>
        read_idx = rx_read_idx /\ data = rx_ring[rx_read_idx]

RouteInv ==
    /\ RingTyped /\ CountersTyped
    /\ ArrivedSafe /\ ReadSafe /\ LoadedSafe /\ FlushedRing
    /\ QuietSafe /\ CleanSafe

LEMMA FifoBytes ==
    ASSUME HwTypeOK
    PROVE  /\ fifo \in Seq(Nat) /\ Len(fifo) \in Nat
           /\ \A k \in 1 .. Len(fifo) : fifo[k] \in Bytes /\ fifo[k] \in 0 .. MaxArrivals
  <1>1. Bytes \subseteq 0 .. MaxArrivals /\ Bytes \subseteq Nat
    BY DEF Bytes
  <1>2. Len(fifo) \in Nat /\ \A k \in 1 .. Len(fifo) : fifo[k] \in Bytes
    BY DEF HwTypeOK
  <1>3. fifo \in Seq(Nat)
    <2>1. fifo = [k \in 1 .. Len(fifo) |-> fifo[k]]
      BY DEF HwTypeOK
    <2>2. \A k \in 1 .. Len(fifo) : fifo[k] \in Nat
      BY <1>1, <1>2
    <2>3. [k \in 1 .. Len(fifo) |-> fifo[k]] \in Seq(Nat)
      BY <1>2, <2>2
    <2> QED
      BY <2>1, <2>3
  <1> QED
    BY <1>1, <1>2, <1>3

(* All that can happen to the ring, one case a line.                       *)
RingKept == UNCHANGED <<rx_ring, rx_read_idx, rx_write_idx>>

LEMMA RingCases ==
    ASSUME [AsyncNext]_avars
    PROVE  \/ RingKept
           \/ ReadStore \/ FlushRing
           \/ \E c \in Ctx : FeedRing(c)
           \/ \E c \in Ctx : CallbackReady(c)
  <1> USE DEF RingKept
  <1>1. CASE Line \/ Handler \/ TxCallbackAbort \/ UNCHANGED avars
    BY <1>1 DEF Line, Environment, Receive, Lose, LoseEnable, Handler,
                HandlerEnter, IsrEnter, HandlerAccount, TxCallbackAbort,
                AbortBy, avars, vars, ringVars
  <1>2. ASSUME NEW c \in Ctx, Drain(c), ~FeedRing(c) PROVE RingKept
    BY <1>2 DEF Drain, Take, Drained, FeedTest, FeedStore, FeedDone, ringSide,
                ringVars
  <1>3. ASSUME NEW c \in Ctx, Callback(c), ~CallbackReady(c) PROVE RingKept
    BY <1>3 DEF Callback, CallbackReturn, CallbackStart, CallbackAbort,
                AbortBy, ringSide, vars, ringVars
  <1>4. CASE RingCall
    BY <1>4 DEF RingCall, Call, CallReady, CallRead, CallService, CallFlush,
                CallGet, CallClear, CallEnable, CallDisable, Begin, SetEnable,
                taskRest, ringVars
  <1>5. CASE RingStep /\ ~ReadStore /\ ~FlushRing
    BY <1>5 DEF RingStep, CleanFlush, ServiceTest, ServiceMask, ServiceAccount,
                ServiceRearm, Read, ReadTest, ReadLoad, Status, GetMask,
                GetDone, ClearMask, ClearDone, Restore, FlushMask, FlushFifo,
                FlushOerr, Mask, taskRest, ringVars
  <1>6. CASE AsyncCall \/ AsyncStep
    BY <1>6 DEF AsyncCall, CallStart, CallAbort, AsyncStep, StartArm,
                CleanMask, CleanArm, taskOnly, ringSide, vars, ringVars
  <1> QED
    BY Zenon, <1>1, <1>2, <1>3, <1>4, <1>5, <1>6 DEF AsyncNext

(* What a byte from the drain does to the ring.                            *)
LEMMA PushCases ==
    ASSUME NEW c \in Ctx, FeedRing(c)
    PROVE  /\ rx_read_idx' = rx_read_idx
           /\ \/ /\ NextIdx(rx_write_idx) = rx_read_idx
                 /\ UNCHANGED <<rx_ring, rx_write_idx>>
                 /\ rx_status' = Plus1(rx_status, "rx_ring_overflow_count")
              \/ /\ NextIdx(rx_write_idx) # rx_read_idx
                 /\ rx_ring' = [rx_ring EXCEPT ![rx_write_idx] = held[c]]
                 /\ rx_write_idx' = NextIdx(rx_write_idx)
                 /\ rx_status' = rx_status
  BY DEF FeedRing, Put, RingPush

LEMMA RingTypedStep ==
    ASSUME HwTypeOK, IndexSafe, HandSafe, RingTyped, [AsyncNext]_avars
    PROVE  RingTyped'
  <1>1. IndexSafe'
    BY IndexStep
  <1>2. rx_ring' \in [0 .. RingSize - 1 -> 0 .. MaxArrivals]
    <2>1. CASE RingKept \/ ReadStore \/ FlushRing
      BY <2>1 DEF RingKept, ReadStore, FlushRing, RingTyped
    <2>2. ASSUME NEW c \in Ctx, FeedRing(c)
          PROVE  rx_ring' \in [0 .. RingSize - 1 -> 0 .. MaxArrivals]
      BY <2>2, PushCases DEF RingTyped, HandSafe
    <2>3. ASSUME NEW c \in Ctx, CallbackReady(c)
          PROVE  rx_ring' \in [0 .. RingSize - 1 -> 0 .. MaxArrivals]
      <3>1. /\ DOMAIN rx_ring' = 0 .. RingSize - 1
            /\ Room \in Nat /\ Room <= Len(fifo)
            /\ \A i \in 0 .. RingSize - 1 :
                  \/ \E j \in 1 .. Room : rx_ring'[i] = fifo[j]
                  \/ rx_ring'[i] = rx_ring[i]
        BY <2>3, Refill
      <3>2. \A j \in 1 .. Room : fifo[j] \in 0 .. MaxArrivals
        BY <3>1, FifoBytes
      <3>3. \A i \in 0 .. RingSize - 1 : rx_ring'[i] \in 0 .. MaxArrivals
        BY <3>1, <3>2 DEF RingTyped
      <3>4. rx_ring' = [i \in 0 .. RingSize - 1 |-> rx_ring'[i]]
        BY <2>3 DEF CallbackReady, RingTyped
      <3> QED
        BY <3>3, <3>4
    <2> QED
      BY Zenon, <2>1, <2>2, <2>3, RingCases
  <1> QED
    BY <1>1, <1>2 DEF RingTyped, IndexSafe

-----------------------------------------------------------------------------
(* The counters.                                                           *)
LEMMA ReadyCounts ==
    ASSUME HwTypeOK, RingTyped, CountersTyped, NEW c \in Ctx, CallbackReady(c)
    PROVE  CountersTyped' /\ Drops' = Drops + (Len(fifo) - Room)
  <1> DEFINE n  == Len(fifo) - Room
             s1 == Add(rx_status, "rx_ring_overflow_count", n)
             s2 == Count(s1, "rx_fifo_overflow_count", oerr)
             s3 == Plus1(s2, "rx_stall_recovery_count")
             s4 == Count(s3, "rx_ie_lost_count", ~rxie)
  <1>1. n \in Nat /\ rx_status \in [Counters -> Nat]
    BY Refill, FifoBytes DEF CountersTyped
  <1>2. rx_status' = s4 /\ drain_count' = drain_count
    BY DEF CallbackReady, Room
  <1> HIDE DEF n
  <1>3. s1 \in [Counters -> Nat] /\ s1.rx_ring_overflow_count = Drops + n
    BY <1>1, AddType DEF Counters, Drops, Add
  <1> HIDE DEF s1
  <1>4. s2 \in [Counters -> Nat] /\ s2.rx_ring_overflow_count = Drops + n
    BY <1>3, CountType, OtherCounter DEF Counters
  <1> HIDE DEF s2
  <1>5. s3 \in [Counters -> Nat] /\ s3.rx_ring_overflow_count = Drops + n
    BY <1>4, Plus1Type, OtherCounter DEF Counters
  <1> HIDE DEF s3
  <1>6. s4 \in [Counters -> Nat] /\ s4.rx_ring_overflow_count = Drops + n
    BY <1>5, CountType, OtherCounter DEF Counters
  <1> QED
    BY <1>2, <1>6 DEF CountersTyped, Drops, n

CountersKept == UNCHANGED <<rx_status, drain_count>>

LEMMA CounterCases ==
    ASSUME [AsyncNext]_avars
    PROVE  \/ CountersKept
           \/ HandlerEnter \/ HandlerAccount \/ ServiceAccount \/ ClearDone
           \/ \E c \in Ctx : FeedRing(c)
           \/ \E c \in Ctx : FeedStore(c)
           \/ \E c \in Ctx : CallbackReady(c)
  <1> USE DEF CountersKept
  <1>1. CASE Line \/ TxCallbackAbort \/ UNCHANGED avars
    BY <1>1 DEF Line, Environment, Receive, Lose, LoseEnable, TxCallbackAbort,
                AbortBy, avars, vars
  <1>2. ASSUME NEW c \in Ctx, Drain(c), ~FeedRing(c), ~FeedStore(c)
        PROVE  CountersKept
    BY <1>2 DEF Drain, Take, Drained, FeedTest, FeedDone, ringSide
  <1>3. ASSUME NEW c \in Ctx, Callback(c), ~CallbackReady(c) PROVE CountersKept
    BY <1>3 DEF Callback, CallbackReturn, CallbackStart, CallbackAbort,
                AbortBy, ringSide, vars
  <1>4. CASE RingCall
    BY <1>4 DEF RingCall, Call, CallReady, CallRead, CallService, CallFlush,
                CallGet, CallClear, CallEnable, CallDisable, Begin, SetEnable,
                taskRest
  <1>5. CASE RingStep /\ ~ServiceAccount /\ ~ClearDone
    BY <1>5 DEF RingStep, CleanFlush, ServiceTest, ServiceMask, ServiceRearm,
                Read, ReadTest, ReadLoad, ReadStore, Status, GetMask, GetDone,
                ClearMask, Restore, FlushMask, FlushRing, FlushFifo, FlushOerr,
                Mask, taskRest
  <1>6. CASE AsyncCall \/ AsyncStep
    BY <1>6 DEF AsyncCall, CallStart, CallAbort, AsyncStep, StartArm,
                CleanMask, CleanArm, taskOnly, ringSide, vars
  <1> QED
    BY Zenon, <1>1, <1>2, <1>3, <1>4, <1>5, <1>6 DEF AsyncNext, Handler

(* Of the other counters, none is the one for dropped bytes.               *)
LEMMA EnterCounts ==
    ASSUME CountersTyped, HandlerEnter
    PROVE  CountersTyped' /\ Drops' = Drops
  BY Plus1Type, OtherCounter
     DEF HandlerEnter, IsrEnter, CountersTyped, Drops, Counters

LEMMA HandlerCounts ==
    ASSUME CountersTyped, HandlerAccount
    PROVE  CountersTyped' /\ Drops' = Drops
  <1>1. rx_status' = IsrAccounted /\ drain_count' = 0
    BY DEF HandlerAccount
  <1> QED
    BY <1>1, IsrAccountedType, IsrAccountedDrops DEF CountersTyped, Drops

LEMMA ServiceCounts ==
    ASSUME CountersTyped, ServiceAccount
    PROVE  CountersTyped' /\ Drops' = Drops
  <1> DEFINE s1 == Count(rx_status, "rx_fifo_overflow_count", oerr)
             s2 == Plus1(s1, "rx_stall_recovery_count")
             s3 == Count(s2, "rx_ie_lost_count", ~ie)
  <1>1. s1 \in [Counters -> Nat]
    BY CountType DEF CountersTyped, Counters
  <1> HIDE DEF s1
  <1>2. s2 \in [Counters -> Nat]
    BY <1>1, Plus1Type DEF Counters
  <1> HIDE DEF s2
  <1>3. s3 \in [Counters -> Nat]
    BY <1>2, CountType DEF Counters
  <1>4. rx_status' = s3 /\ drain_count' = drain_count
    BY DEF ServiceAccount, taskRest, s1, s2
  <1> QED
    BY <1>3, <1>4, ServiceDrops DEF CountersTyped

LEMMA PushCounts ==
    ASSUME CountersTyped, NEW c \in Ctx, FeedRing(c)
    PROVE  /\ CountersTyped'
           /\ Drops' = IF NextIdx(rx_write_idx) = rx_read_idx
                       THEN Drops + 1 ELSE Drops
  <1>1. drain_count' \in Nat
    BY DEF FeedRing, Put, CountersTyped
  <1>2. CASE NextIdx(rx_write_idx) = rx_read_idx
    <2>1. rx_status' = Plus1(rx_status, "rx_ring_overflow_count")
      BY <1>2, PushCases
    <2>2. Drops' = Drops + 1
      BY <2>1 DEF Plus1, Add, Drops, CountersTyped, Counters
    <2> QED
      BY <1>1, <1>2, <2>1, <2>2, Plus1Type DEF CountersTyped, Counters
  <1>3. CASE NextIdx(rx_write_idx) # rx_read_idx
    BY <1>1, <1>3, PushCases DEF CountersTyped, Drops
  <1> QED
    BY <1>2, <1>3

LEMMA CountersStep ==
    ASSUME HwTypeOK, RingTyped, CountersTyped, [AsyncNext]_avars
    PROVE  CountersTyped'
  <1>1. CASE CountersKept
    BY <1>1 DEF CountersKept, CountersTyped
  <1>2. CASE ClearDone
    BY <1>2 DEF ClearDone, CountersTyped, Zero, taskRest
  <1>3. ASSUME NEW c \in Ctx, FeedStore(c) PROVE CountersTyped'
    BY <1>3 DEF FeedStore, CountersTyped, ringSide
  <1> QED
    BY Zenon, <1>1, <1>2, <1>3, CounterCases, EnterCounts, HandlerCounts,
       ServiceCounts, PushCounts, ReadyCounts
-----------------------------------------------------------------------------
(* Who touches what.                                                       *)
LEMMA FifoCases ==
    ASSUME [AsyncNext]_avars
    PROVE  \/ fifo' = Append(fifo, arrived + 1) /\ arrived' = arrived + 1
           \/ /\ arrived' = arrived \/ arrived' = arrived + 1
              /\ \/ fifo' = fifo
                 \/ fifo' = <<>>
                 \/ fifo # <<>> /\ fifo' = Tail(fifo)
  <1>1. CASE Line
    BY <1>1 DEF Line, Environment, Receive, Accept, Lose, Overrun, LoseEnable,
                hwVars
  <1>2. CASE Handler
    BY Zenon, <1>2 DEF Handler, HandlerEnter, IsrEnter, HandlerAccount,
                       ClearOERR, hwVars
  <1>3. ASSUME NEW c \in Ctx, Drain(c)
        PROVE  /\ arrived' = arrived
               /\ fifo' = fifo \/ (fifo # <<>> /\ fifo' = Tail(fifo))
    BY <1>3 DEF Drain, Take, URXBE, ReadRXREG, Drained, FeedTest, FeedRing, Put,
                FeedStore, FeedDone, hwVars
  <1>4. ASSUME NEW c \in Ctx, Callback(c)
        PROVE  arrived' = arrived /\ (fifo' = fifo \/ fifo' = <<>>)
    BY <1>4 DEF Callback, CallbackReturn, CallbackStart, CallbackAbort, AbortBy,
                CallbackReady, vars, hwVars
  <1>5. CASE RingCall
    BY <1>5 DEF RingCall, Call, CallReady, CallRead, CallService, CallFlush,
                CallGet, CallClear, CallEnable, CallDisable, Begin, SetEnable,
                taskRest
  <1>6. CASE FlushFifo
    BY <1>6 DEF FlushFifo, URXBE, ReadRXREG, taskRest
  <1>7. CASE ServiceAccount \/ FlushOerr
    BY Zenon, <1>7 DEF ServiceAccount, FlushOerr, ClearOERR, taskRest
  <1>8. CASE RingStep /\ ~FlushFifo /\ ~ServiceAccount /\ ~FlushOerr
    BY <1>8 DEF RingStep, CleanFlush, ServiceTest, ServiceMask, ServiceRearm,
                Read, ReadTest, ReadLoad, ReadStore, Status, GetMask, GetDone,
                ClearMask, ClearDone, Restore, FlushMask, FlushRing, Mask,
                taskRest, hwVars
  <1>9. CASE AsyncCall \/ AsyncStep \/ TxCallbackAbort \/ UNCHANGED avars
    BY <1>9 DEF AsyncCall, CallStart, CallAbort, AsyncStep, StartArm, CleanMask,
                CleanArm, TxCallbackAbort, AbortBy, taskOnly, avars, vars, hwVars
  <1> QED
    BY Zenon, <1>1, <1>2, <1>3, <1>4, <1>5, <1>6, <1>7, <1>8, <1>9
       DEF AsyncNext

LEMMA ReadCases ==
    ASSUME [AsyncNext]_avars
    PROVE  \/ ReadStore
           \/ UNCHANGED <<lastRead, data, read_idx>>
           \/ ReadLoad /\ lastRead' = lastRead
  <1>1. CASE Line \/ Handler \/ TxCallbackAbort \/ UNCHANGED avars
    BY <1>1 DEF Line, Environment, Receive, Lose, LoseEnable, Handler,
                HandlerEnter, IsrEnter, HandlerAccount, TxCallbackAbort,
                AbortBy, avars, vars, taskLocal
  <1>2. ASSUME NEW c \in Ctx, Drain(c)
        PROVE  UNCHANGED <<lastRead, data, read_idx>>
    BY <1>2 DEF Drain, Take, Drained, FeedTest, FeedRing, Put, FeedStore,
                FeedDone, ringSide, taskLocal
  <1>3. ASSUME NEW c \in Ctx, Callback(c)
        PROVE  UNCHANGED <<lastRead, data, read_idx>>
    BY <1>3 DEF Callback, CallbackReturn, CallbackStart, CallbackAbort,
                AbortBy, CallbackReady, ringSide, vars, taskLocal
  <1>4. CASE RingCall
    BY <1>4 DEF RingCall, Call, CallReady, CallRead, CallService, CallFlush,
                CallGet, CallClear, CallEnable, CallDisable, Begin, SetEnable,
                taskRest
  <1>5. CASE RingStep /\ ~ReadStore /\ ~ReadLoad
    BY <1>5 DEF RingStep, CleanFlush, ServiceTest, ServiceMask, ServiceAccount,
                ServiceRearm, Read, ReadTest, Status, GetMask, GetDone,
                ClearMask, ClearDone, Restore, FlushMask, FlushRing, FlushFifo,
                FlushOerr, Mask, taskRest, taskLocal
  <1>6. CASE ReadLoad
    BY <1>6 DEF ReadLoad
  <1>7. CASE AsyncCall \/ AsyncStep
    BY <1>7 DEF AsyncCall, CallStart, CallAbort, AsyncStep, StartArm,
                CleanMask, CleanArm, taskOnly, ringSide, vars, taskLocal
  <1> QED
    BY Zenon, <1>1, <1>2, <1>3, <1>4, <1>5, <1>6, <1>7 DEF AsyncNext

LEMMA StoredCases ==
    ASSUME [AsyncNext]_avars
    PROVE  \/ stored' = stored
           \/ stored' = <<>>
           \/ \E c \in Ctx : FeedStore(c)
  BY Zenon
     DEF AsyncNext, Line, Handler, HandlerEnter, HandlerAccount,
         TxCallbackAbort, AbortBy, Drain, FeedTest, FeedRing, FeedDone,
         Callback, CallbackReturn, CallbackStart, CallbackAbort, CallbackReady,
         RingCall, RingStep, CleanFlush, AsyncCall, CallStart, CallAbort,
         AsyncStep, StartArm, CleanMask, CleanArm, Arm, asyncVars, avars

LEMMA HeldCases ==
    ASSUME PcSafe, [AsyncNext]_avars
    PROVE  \/ held' = held
           \/ \E c \in Ctx : /\ fifo # <<>>
                             /\ held' = [held EXCEPT ![c] = Head(fifo)]
           \/ \E c \in Ctx : held' = [held EXCEPT ![c] = 0]
  <1>1. CASE SameHands
    BY <1>1 DEF SameHands
  <1>2. ASSUME NEW c \in Ctx, Drain(c)
        PROVE  \/ held' = held
               \/ fifo # <<>> /\ held' = [held EXCEPT ![c] = Head(fifo)]
               \/ held' = [held EXCEPT ![c] = 0]
    BY <1>2 DEF Drain, Take, URXBE, Drained, FeedTest, FeedRing, Put, FeedStore,
                FeedDone
  <1> QED
    BY Zenon, <1>1, <1>2, Places

-----------------------------------------------------------------------------
(* The invariant, step by step.                                            *)
LEMMA ArrivedStep ==
    ASSUME HwTypeOK, PcSafe, HandSafe, TransferSafe, RingTyped, ArrivedSafe,
           LoadedSafe, [AsyncNext]_avars
    PROVE  ArrivedSafe'
  <1>1. /\ arrived \in Nat /\ arrived' \in Nat /\ arrived <= arrived'
    BY FifoCases DEF HwTypeOK
  <1>2. \A k \in 1 .. Len(fifo) : fifo[k] \in Nat /\ fifo[k] <= arrived
    BY FifoBytes DEF ArrivedSafe
  <1>3. \A k \in 1 .. Len(fifo') : fifo'[k] <= arrived'
    <2>1. CASE fifo' = Append(fifo, arrived + 1) /\ arrived' = arrived + 1
      <3>1. \A k \in 1 .. Len(fifo') : \/ fifo'[k] = arrived + 1
                                       \/ k \in 1 .. Len(fifo) /\ fifo'[k] = fifo[k]
        BY <2>1, FifoBytes
      <3> QED
        BY <1>1, <1>2, <2>1, <3>1
    <2>2. CASE fifo' = fifo \/ fifo' = <<>> \/ (fifo # <<>> /\ fifo' = Tail(fifo))
      <3>1. Shorter
        BY <2>2, ShorterCases
      <3> QED
        BY <1>1, <1>2, <3>1 DEF Shorter
    <2> QED
      BY <2>1, <2>2, FifoCases
  <1>4. \A c \in Ctx : held[c] \in Nat /\ held[c] <= arrived
    BY DEF HandSafe, ArrivedSafe
  <1>5. \A c \in Ctx : held'[c] <= arrived'
    <2>1. CASE held' = held
      BY <1>1, <1>4, <2>1
    <2>2. ASSUME NEW c \in Ctx, fifo # <<>>, held' = [held EXCEPT ![c] = Head(fifo)]
          PROVE  \A d \in Ctx : held'[d] <= arrived'
      <3>1. 1 \in 1 .. Len(fifo) /\ Head(fifo) = fifo[1]
        BY <2>2, FifoBytes
      <3> QED
        BY <1>1, <1>2, <1>4, <2>2, <3>1 DEF HandSafe
    <2>3. ASSUME NEW c \in Ctx, held' = [held EXCEPT ![c] = 0]
          PROVE  \A d \in Ctx : held'[d] <= arrived'
      BY <1>1, <1>4, <2>3 DEF HandSafe
    <2> QED
      BY Zenon, <2>1, <2>2, <2>3, HeldCases
  <1>6. \A i \in 1 .. Len(stored) : stored[i] \in Nat /\ stored[i] <= arrived
    <2>1. stored \in Seq(Bytes)
      BY DEF TransferSafe
    <2>2. \A i \in 1 .. Len(stored) : stored[i] \in Bytes
      BY <2>1
    <2> QED
      BY <2>2 DEF ArrivedSafe, Bytes
  <1>7. \A i \in 1 .. Len(stored') : stored'[i] <= arrived'
    <2>1. CASE stored' = stored \/ stored' = <<>>
      BY <1>1, <1>6, <2>1
    <2>2. ASSUME NEW c \in Ctx, FeedStore(c)
          PROVE  \A i \in 1 .. Len(stored') : stored'[i] <= arrived'
      <3>1. stored' = Append(stored, held[c]) /\ stored \in Seq(Bytes)
        BY <2>2 DEF FeedStore, TransferSafe
      <3>2. \A i \in 1 .. Len(stored') :
               stored'[i] = held[c] \/ (i \in 1 .. Len(stored) /\ stored'[i] = stored[i])
        BY <3>1
      <3> QED
        BY <1>1, <1>4, <1>6, <3>2
    <2> QED
      BY Zenon, <2>1, <2>2, StoredCases
  <1>8. \A i \in 0 .. RingSize - 1 : rx_ring[i] \in Nat /\ rx_ring[i] <= arrived
    BY DEF RingTyped, ArrivedSafe
  <1>9. \A i \in 0 .. RingSize - 1 : rx_ring'[i] <= arrived'
    <2>1. CASE RingKept \/ ReadStore \/ FlushRing
      BY <1>1, <1>8, <2>1 DEF RingKept, ReadStore, FlushRing
    <2>2. ASSUME NEW c \in Ctx, FeedRing(c)
          PROVE  \A i \in 0 .. RingSize - 1 : rx_ring'[i] <= arrived'
      <3>1. \/ rx_ring' = rx_ring
            \/ rx_ring' = [rx_ring EXCEPT ![rx_write_idx] = held[c]]
        BY <2>2, PushCases
      <3>2. \A i \in 0 .. RingSize - 1 :
               rx_ring'[i] = rx_ring[i] \/ rx_ring'[i] = held[c]
        BY <3>1 DEF RingTyped
      <3> QED
        BY <1>1, <1>4, <1>8, <3>2
    <2>3. ASSUME NEW c \in Ctx, CallbackReady(c)
          PROVE  \A i \in 0 .. RingSize - 1 : rx_ring'[i] <= arrived'
      <3>1. /\ Room \in Nat /\ Room <= Len(fifo)
            /\ \A i \in 0 .. RingSize - 1 :
                  \/ \E j \in 1 .. Room : rx_ring'[i] = fifo[j]
                  \/ rx_ring'[i] = rx_ring[i]
        BY <2>3, Refill
      <3>2. \A j \in 1 .. Room : fifo[j] \in Nat /\ fifo[j] <= arrived
        BY <1>2, <3>1, FifoBytes
      <3> QED
        BY <1>1, <1>8, <3>1, <3>2
    <2> QED
      BY Zenon, <2>1, <2>2, <2>3, RingCases
  <1>10. lastRead' \in 0 .. arrived'
    <2>1. CASE ReadStore
      <3>1. lastRead' = data /\ data = rx_ring[rx_read_idx]
        BY <2>1 DEF ReadStore, TaskAt, LoadedSafe
      <3>2. rx_read_idx \in 0 .. RingSize - 1
        BY DEF RingTyped
      <3> QED
        BY <1>1, <1>8, <3>1, <3>2
    <2>2. CASE lastRead' = lastRead
      BY <1>1, <2>2 DEF ArrivedSafe
    <2> QED
      BY <2>1, <2>2, ReadCases
  <1> QED
    BY <1>3, <1>5, <1>7, <1>9, <1>10 DEF ArrivedSafe

(* A reader past its test loads the slot nobody writes: the drain writes   *)
(* behind the newest byte, and the callback's _service() asks for an empty *)
(* ring.                                                                   *)
LEMMA LoadedStep ==
    ASSUME HwTypeOK, PcSafe, RingTyped, ReadSafe, LoadedSafe, [AsyncNext]_avars
    PROVE  LoadedSafe'
  <1> SUFFICES ASSUME pc'["task"] = "rd_store"
               PROVE  read_idx' = rx_read_idx' /\ data' = rx_ring'[rx_read_idx']
    BY DEF LoadedSafe
  <1>1. CASE ReadLoad
    BY <1>1 DEF ReadLoad, ringVars
  <1>2. pc["task"] = "rd_store" \/ ReadLoad
    <2>1. CASE Line \/ Handler \/ TxCallbackAbort \/ UNCHANGED avars
      BY <2>1, Contexts
         DEF Line, Environment, Receive, Lose, LoseEnable, Handler,
             HandlerEnter, IsrEnter, HandlerAccount, TxCallbackAbort, AbortBy,
             Goto, PcSafe, avars, vars
    <2>2. ASSUME NEW c \in Ctx, Drain(c) PROVE pc["task"] = "rd_store"
      BY <2>2, Contexts DEF Drain, Take, Drained, FeedTest, FeedRing, Put,
                            FeedStore, FeedDone, At, Goto, PcSafe
    <2>3. ASSUME NEW c \in Ctx, Callback(c) PROVE pc["task"] = "rd_store"
      BY <2>3, Contexts DEF Callback, CallbackReturn, CallbackStart,
                            CallbackAbort, AbortBy, CallbackReady, InCallback,
                            At, Goto, PcSafe, vars
    <2>4. CASE RingCall \/ AsyncCall \/ AsyncStep
      BY <2>4, Contexts
         DEF RingCall, Call, CallReady, CallRead, CallService, CallFlush,
             CallGet, CallClear, CallEnable, CallDisable, Begin, SetEnable,
             AsyncCall, CallStart, CallAbort, AsyncStep, StartArm, CleanMask,
             CleanArm, taskOnly, vars, Goto, PcSafe
    <2>5. CASE RingStep /\ ~ReadLoad
      BY <2>5, Contexts
         DEF RingStep, CleanFlush, ServiceTest, ServiceMask, ServiceAccount,
             ServiceRearm, AfterService, Read, ReadTest, ReadStore, Status,
             GetMask, GetDone, ClearMask, ClearDone, Restore, FlushMask,
             FlushRing, FlushFifo, FlushOerr, Mask, Goto, PcSafe, TaskAt
    <2> QED
      BY Zenon, <2>1, <2>2, <2>3, <2>4, <2>5 DEF AsyncNext
  <1>3. CASE ~ReadLoad
    <2>1. /\ pc["task"] = "rd_store" /\ rx_read_idx # rx_write_idx
          /\ read_idx = rx_read_idx /\ data = rx_ring[rx_read_idx]
      BY <1>2, <1>3 DEF ReadSafe, LoadedSafe, RingEmpty
    <2>2. ~ReadStore
      BY Contexts DEF ReadStore, Goto, PcSafe
    <2>3. ~FlushRing
      BY <2>1 DEF FlushRing, TaskAt
    <2>4. UNCHANGED <<data, read_idx>>
      BY <1>3, <2>2, ReadCases
    <2>5. rx_read_idx' = rx_read_idx /\ rx_ring'[rx_read_idx] = rx_ring[rx_read_idx]
      <3>1. CASE RingKept
        BY <3>1 DEF RingKept
      <3>2. ASSUME NEW c \in Ctx, FeedRing(c)
            PROVE  /\ rx_read_idx' = rx_read_idx
                   /\ rx_ring'[rx_read_idx] = rx_ring[rx_read_idx]
        BY <2>1, <3>2, PushCases DEF RingTyped
      <3>3. ASSUME NEW c \in Ctx, CallbackReady(c) PROVE FALSE
        BY <2>1, <3>3 DEF CallbackReady, RingEmpty
      <3> QED
        BY Zenon, <2>2, <2>3, <3>1, <3>2, <3>3, RingCases
    <2> QED
      BY <2>1, <2>4, <2>5
  <1> QED
    BY <1>1, <1>3

LEMMA AsyncFlushedStep ==
    ASSUME HwTypeOK, PcSafe, MaskedSafe, FlushedRing, [AsyncNext]_avars
    PROVE  FlushedRing'
  <1> SUFFICES ASSUME pc'["task"] \in {"flush_fifo", "flush_oerr"}
               PROVE  RingEmpty'
    BY DEF FlushedRing
  <1>1. CASE FlushRing
    BY <1>1 DEF FlushRing, RingEmpty
  <1>2. ASSUME ~FlushRing PROVE pc["task"] \in {"flush_fifo", "flush_oerr"}
    <2>1. CASE Line \/ Handler \/ TxCallbackAbort \/ UNCHANGED avars
      BY <2>1, Contexts
         DEF Line, Environment, Receive, Lose, LoseEnable, Handler,
             HandlerEnter, IsrEnter, HandlerAccount, TxCallbackAbort, AbortBy,
             Goto, PcSafe, avars, vars
    <2>2. ASSUME NEW c \in Ctx, Drain(c)
          PROVE  pc["task"] \in {"flush_fifo", "flush_oerr"}
      BY <2>2, Contexts DEF Drain, Take, Drained, FeedTest, FeedRing, Put,
                            FeedStore, FeedDone, At, Goto, PcSafe
    <2>3. ASSUME NEW c \in Ctx, Callback(c)
          PROVE  pc["task"] \in {"flush_fifo", "flush_oerr"}
      BY <2>3, Contexts DEF Callback, CallbackReturn, CallbackStart,
                            CallbackAbort, AbortBy, CallbackReady, InCallback,
                            At, Goto, PcSafe, vars
    <2>4. CASE RingCall \/ AsyncCall \/ AsyncStep
      BY <2>4, Contexts
         DEF RingCall, Call, CallReady, CallRead, CallService, CallFlush,
             CallGet, CallClear, CallEnable, CallDisable, Begin, SetEnable,
             AsyncCall, CallStart, CallAbort, AsyncStep, StartArm, CleanMask,
             CleanArm, taskOnly, vars, Goto, PcSafe
    <2>5. CASE RingStep
      BY <1>2, <2>5, Contexts
         DEF RingStep, CleanFlush, ServiceTest, ServiceMask, ServiceAccount,
             ServiceRearm, AfterService, Read, ReadTest, ReadLoad, ReadStore,
             Status, GetMask, GetDone, ClearMask, ClearDone, Restore,
             FlushMask, FlushFifo, FlushOerr, Mask, Goto, PcSafe, TaskAt
    <2> QED
      BY Zenon, <2>1, <2>2, <2>3, <2>4, <2>5 DEF AsyncNext
  <1>3. CASE ~FlushRing
    <2>1. RingEmpty /\ pc["isr"] = "idle"
          /\ pc["task"] \in {"flush_fifo", "flush_oerr"}
      BY <1>2, <1>3 DEF FlushedRing, MaskedSafe, AsyncMasked, Masked
    <2>2. ~ReadStore
      BY <2>1 DEF ReadStore, TaskAt
    <2>3. ASSUME NEW c \in Ctx PROVE ~FeedRing(c) /\ ~CallbackReady(c)
      BY <2>1, Contexts DEF FeedRing, Put, CallbackReady, InCallback, At
    <2> QED
      BY Zenon, <1>3, <2>1, <2>2, <2>3, RingCases DEF RingKept, RingEmpty
  <1> QED
    BY <1>1, <1>3

LEMMA RouteInvStep ==
    ASSUME AsyncInv, RouteInv, [AsyncNext]_avars
    PROVE  RouteInv'
  <1>1. RingTyped' /\ CountersTyped' /\ ArrivedSafe' /\ LoadedSafe'
    BY RingTypedStep, CountersStep, ArrivedStep, LoadedStep DEF AsyncInv, RouteInv
  <1>2. ReadSafe' /\ FlushedRing' /\ QuietSafe' /\ CleanSafe'
    BY ReadSafeStep, AsyncFlushedStep, QuietStep, CleanStep DEF AsyncInv, RouteInv
  <1> QED
    BY <1>1, <1>2 DEF RouteInv
-----------------------------------------------------------------------------
(* Every action of the router, from what a step does to its variables.     *)
Calm == lastRead' = lastRead /\ (Flushing' <=> Flushing)

LEMMA CalmFlush == Calm => Flushing' = Flushing
  BY DEF Calm, Flushing

LEMMA RouterStutter ==
    ASSUME Calm, UNCHANGED <<Pending, TakenBytes, Need, Buffered>>, Drops' = Drops
    PROVE  RouterStep
  BY Zenon, CalmFlush DEF Calm, RouterStep, Router!rvars, Pending, Need, Drops, Flushing

LEMMA IsArrive ==
    ASSUME Calm, NEW n \in Bytes, lastRead < n, Router!Older(Buffered, n),
           Router!Older(Pending, n), Router!Older(TakenBytes, n),
           Pending' = Append(Pending, n),
           UNCHANGED <<TakenBytes, Need, Buffered>>, Drops' = Drops
    PROVE  RouterStep
  <1>1. Router!Arrive(n)
    BY Zenon, CalmFlush DEF Calm, Router!Arrive, Pending, Need, Drops, Flushing
  <1> QED
    BY Zenon, <1>1 DEF RouterStep, Router!Next

LEMMA IsToTransfer ==
    ASSUME Calm, Need > 0, Pending # <<>>,
           TakenBytes' = Append(TakenBytes, Head(Pending)), Need' = Need - 1,
           Pending' = Tail(Pending), Buffered' = Buffered, Drops' = Drops
    PROVE  RouterStep
  <1>1. Router!ToTransfer
    BY Zenon, CalmFlush DEF Calm, Router!ToTransfer, Pending, Need, Drops, Flushing
  <1> QED
    BY Zenon, <1>1 DEF RouterStep, Router!Next

LEMMA IsToStream ==
    ASSUME Calm, Need = 0, ~Flushing,
           NEW k \in 1 .. Len(Pending), NEW j \in 0 .. k,
           Buffered' = Buffered \o SubSeq(Pending, 1, j),
           Drops' = Drops + (k - j),
           Pending' = SubSeq(Pending, k + 1, Len(Pending)),
           UNCHANGED <<TakenBytes, Need>>
    PROVE  RouterStep
  <1>1. Router!ToStream
    BY Zenon, CalmFlush DEF Calm, Router!ToStream, Pending, Need, Drops, Flushing
  <1> QED
    BY Zenon, <1>1 DEF RouterStep, Router!Next

LEMMA IsRead ==
    ASSUME Buffered # <<>>, ~Flushing, Flushing' <=> Flushing,
           lastRead' = Head(Buffered), Buffered' = Tail(Buffered),
           UNCHANGED <<Pending, TakenBytes, Need>>, Drops' = Drops
    PROVE  RouterStep
  <1>1. Flushing' = Flushing
    BY DEF Flushing
  <1>2. Router!Read
    BY Zenon, <1>1 DEF Router!Read, Pending, Need, Drops, Flushing
  <1> QED
    BY Zenon, <1>2 DEF RouterStep, Router!Next

LEMMA IsStart ==
    ASSUME Calm, NEW n \in Requests, Need = 0, Need' = n, TakenBytes' = <<>>,
           UNCHANGED <<Pending, Buffered>>, Drops' = Drops
    PROVE  RouterStep
  <1>1. Router!Start(n)
    BY Zenon, CalmFlush DEF Calm, Router!Start, Pending, Need, Drops, Flushing
  <1> QED
    BY Zenon, <1>1 DEF RouterStep, Router!Next

LEMMA IsAbort ==
    ASSUME Calm, Need' = 0, UNCHANGED <<Pending, TakenBytes, Buffered>>,
           Drops' = Drops
    PROVE  RouterStep
  <1>1. Router!Abort
    BY Zenon, CalmFlush DEF Calm, Router!Abort, Pending, Need, Drops, Flushing
  <1> QED
    BY Zenon, <1>1 DEF RouterStep, Router!Next

LEMMA IsTurn ==
    ASSUME Flushing' <=> ~Flushing,
           UNCHANGED <<Pending, TakenBytes, Need, Buffered, lastRead>>,
           Drops' = Drops
    PROVE  RouterStep
  <1>1. Flushing' = ~Flushing
    BY DEF Flushing
  <1>2. Router!Flush /\ UNCHANGED <<lastRead, TakenBytes, Need, Drops>>
    BY Zenon, <1>1 DEF Router!Flush, Pending, Need, Drops, Flushing
  <1> QED
    BY Zenon, <1>2 DEF RouterStep, Router!Next, Need, Drops

LEMMA IsDiscard ==
    ASSUME Calm, Flushing, Buffered' = <<>>,
           Pending' = Pending \/ (Pending # <<>> /\ Pending' = Tail(Pending)),
           UNCHANGED <<TakenBytes, Need>>, Drops' = Drops
    PROVE  RouterStep
  <1>1. Pending' \in {Pending} \cup (IF Pending = <<>> THEN {} ELSE {Tail(Pending)})
    BY Zenon
  <1>2. Router!Flush /\ UNCHANGED <<lastRead, TakenBytes, Need, Drops>>
    BY Zenon, <1>1, CalmFlush DEF Calm, Router!Flush, Pending, Need, Drops, Flushing
  <1> QED
    BY Zenon, <1>2 DEF RouterStep, Router!Next, Need, Drops

LEMMA IsReset ==
    ASSUME Calm, Drops' = 0, UNCHANGED <<Pending, TakenBytes, Need, Buffered>>
    PROVE  RouterStep
  <1>1. Router!ResetCount
    BY Zenon, CalmFlush DEF Calm, Router!ResetCount, Pending, Need, Drops, Flushing
  <1> QED
    BY Zenon, <1>1 DEF RouterStep, Router!Next

(* A step that leaves the bytes, the transfer and the counter alone.       *)
TransferKept == UNCHANGED <<stored, rx_async_busy, rx_async_len>>

LEMMA NeedFrame ==
    ASSUME UNCHANGED <<TakenBytes, rx_async_busy, rx_async_len>>
    PROVE  Need' = Need
  BY DEF Need

LEMMA Still ==
    ASSUME Calm, SameHands, TransferKept, RingKept, fifo' = fifo, Drops' = Drops
    PROVE  RouterStep
  <1>1. Pending' = Pending /\ TakenBytes' = TakenBytes
    BY SameBytes DEF TransferKept
  <1>2. Need' = Need /\ Buffered' = Buffered
    BY <1>1, NeedFrame, RingFrame DEF TransferKept, RingKept
  <1> QED
    BY <1>1, <1>2, RouterStutter

(* On a part whose FIFO is lost with OERR, the bytes in it go nowhere.     *)
Wiped ==
    /\ ClearResetsFifo
    /\ Pending' = <<>>
    /\ UNCHANGED <<TakenBytes, Buffered, lastRead>>

LEMMA Wipe ==
    ASSUME SameHands, TransferKept, RingKept, lastRead' = lastRead, ClearOERR,
           fifo' # fifo, \A c \in Ctx : pc[c] # "put"
    PROVE  Wiped
  <1>1. ClearResetsFifo /\ fifo' = <<>>
    BY DEF ClearOERR
  <1>2. \A c \in Ctx : /\ pc'[c] # "put" /\ pc[c] # "put"
                       /\ pc'[c] = "store" <=> pc[c] = "store"
    BY DEF SameHands, HandLabels
  <1>3. Pending' = <<>>
    <2>1. <<>> \in Seq(Nat)
      OBVIOUS
    <2>2. PendingAt(pc', held', <<>>) = <<>>
      BY Zenon, <1>2, <2>1, NoHand
    <2> QED
      BY <1>1, <2>2, Mapped
  <1>4. TakenBytes' = TakenBytes
    BY <1>2, Mapped, Contexts DEF TakenAt, TransferKept, SameHands
  <1>5. Buffered' = Buffered
    BY RingFrame DEF RingKept
  <1> QED
    BY <1>1, <1>3, <1>4, <1>5 DEF Wiped
-----------------------------------------------------------------------------
(* Arrival.                                                                *)
LEMMA RoutePieces ==
    ASSUME AsyncInv, RouteInv
    PROVE  /\ Buffered \in Seq(Nat) /\ fifo \in Seq(Nat) /\ stored \in Seq(Nat)
           /\ \A c \in Ctx : /\ held[c] \in Nat /\ <<held[c]>> \in Seq(Nat)
                             /\ InHand(c) \in Seq(Nat) /\ Passing(c) \in Seq(Nat)
           /\ Pending \in Seq(Nat) /\ TakenBytes \in Seq(Nat)
           /\ Len(stored) \in Nat /\ rx_async_len \in Nat
  <1>1. Buffered \in Seq(Nat) /\ fifo \in Seq(Nat)
    BY BufferedType, FifoBytes DEF AsyncInv, RouteInv
  <1>2. stored \in Seq(Nat) /\ Len(stored) \in Nat /\ rx_async_len \in Nat
    <2>1. stored \in Seq(Bytes) /\ Bytes \subseteq Nat /\ rx_async_len \in Nat
      <3>1. stored \in Seq(Bytes) /\ rx_async_len \in Requests \cup {0}
        BY DEF AsyncInv, TransferSafe
      <3>2. Bytes \subseteq Nat
        BY DEF Bytes
      <3> QED
        BY <3>1, <3>2, RequestsAssumption DEF RequestsAssumption
    <2>2. stored = [i \in 1 .. Len(stored) |-> stored[i]] /\ Len(stored) \in Nat
          /\ \A i \in 1 .. Len(stored) : stored[i] \in Bytes
      BY <2>1
    <2>3. \A i \in 1 .. Len(stored) : stored[i] \in Nat
      BY <2>1, <2>2
    <2>4. [i \in 1 .. Len(stored) |-> stored[i]] \in Seq(Nat)
      BY <2>2, <2>3
    <2> QED
      BY <2>1, <2>2, <2>4
  <1>3. ASSUME NEW c \in Ctx
        PROVE  /\ held[c] \in Nat /\ <<held[c]>> \in Seq(Nat)
               /\ InHand(c) \in Seq(Nat) /\ Passing(c) \in Seq(Nat)
    <2>1. held[c] \in Nat
      BY DEF AsyncInv, HandSafe
    <2>2. <<held[c]>> \in Seq(Nat) /\ <<>> \in Seq(Nat)
      BY <2>1
    <2> QED
      BY <2>1, <2>2 DEF InHand, Passing
  <1>4. Pending \in Seq(Nat) /\ TakenBytes \in Seq(Nat)
    BY <1>1, <1>2, <1>3, Contexts DEF Pending, TakenBytes
  <1> QED
    BY <1>1, <1>2, <1>3, <1>4

LEMMA OlderConcat ==
    ASSUME NEW s \in Seq(Nat), NEW t \in Seq(Nat), NEW n \in Nat,
           Router!Older(s, n), Router!Older(t, n)
    PROVE  Router!Older(s \o t, n)
  BY ConcatIndex DEF Router!Older

LEMMA OlderHand ==
    ASSUME AsyncInv, RouteInv, NEW c \in Ctx
    PROVE  /\ Router!Older(InHand(c), arrived + 1)
           /\ Router!Older(Passing(c), arrived + 1)
  <1>1. held[c] \in Nat /\ arrived \in Nat /\ held[c] < arrived + 1
    BY DEF AsyncInv, HandSafe, HwTypeOK, RouteInv, ArrivedSafe
  <1>2. Router!Older(<<held[c]>>, arrived + 1) /\ Router!Older(<<>>, arrived + 1)
    BY <1>1 DEF Router!Older
  <1> QED
    BY <1>2 DEF InHand, Passing

LEMMA AllOlder ==
    ASSUME AsyncInv, RouteInv
    PROVE  /\ lastRead < arrived + 1
           /\ Router!Older(Buffered, arrived + 1)
           /\ Router!Older(Pending, arrived + 1)
           /\ Router!Older(TakenBytes, arrived + 1)
  <1>1. arrived \in Nat /\ arrived + 1 \in Nat
    BY DEF AsyncInv, HwTypeOK
  <1>2. lastRead < arrived + 1
    BY <1>1 DEF RouteInv, ArrivedSafe
  <1>3. Router!Older(Buffered, arrived + 1)
    <2>1. RingTyped /\ \A i \in 0 .. RingSize - 1 : rx_ring[i] \in Nat /\ rx_ring[i] <= arrived
      BY DEF RouteInv, ArrivedSafe, RingTyped
    <2>2. Used \in Nat /\ Len(Buffered) = Used
          /\ \A i \in 1 .. Used : Buffered[i] = rx_ring[Slot(i - 1)]
                                  /\ i - 1 \in 0 .. Used - 1
      BY <2>1, BufferedType DEF Buffered
    <2>3. \A i \in 1 .. Used : Slot(i - 1) \in 0 .. RingSize - 1
      BY <2>1, <2>2, UsedSlot
    <2> QED
      BY <1>1, <2>1, <2>2, <2>3 DEF Router!Older
  <1>4. Router!Older(fifo, arrived + 1) /\ Router!Older(stored, arrived + 1)
    <2>1. \A k \in 1 .. Len(fifo) : fifo[k] \in Nat /\ fifo[k] <= arrived
      BY FifoBytes DEF AsyncInv, RouteInv, ArrivedSafe
    <2>2. \A k \in 1 .. Len(stored) : stored[k] \in Nat /\ stored[k] <= arrived
      BY RoutePieces DEF RouteInv, ArrivedSafe
    <2> QED
      BY <1>1, <2>1, <2>2 DEF Router!Older
  <1>5. Router!Older(Pending, arrived + 1)
    <2>1. InHand("isr") \o InHand("task") \in Seq(Nat)
      BY RoutePieces, Contexts
    <2>2. Router!Older(InHand("isr") \o InHand("task"), arrived + 1)
      BY <1>1, RoutePieces, OlderHand, OlderConcat, Contexts
    <2> QED
      BY <1>1, <1>4, <2>1, <2>2, RoutePieces, OlderConcat DEF Pending
  <1>6. Router!Older(TakenBytes, arrived + 1)
    <2>1. stored \o Passing("isr") \in Seq(Nat)
      BY RoutePieces, Contexts
    <2>2. Router!Older(stored \o Passing("isr"), arrived + 1)
      BY <1>1, <1>4, RoutePieces, OlderHand, OlderConcat, Contexts
    <2> QED
      BY <1>1, <2>1, <2>2, RoutePieces, OlderHand, OlderConcat, Contexts DEF TakenBytes
  <1> QED
    BY <1>2, <1>3, <1>5, <1>6

LEMMA ArriveStep ==
    ASSUME AsyncInv, RouteInv, Receive, UNCHANGED asyncVars
    PROVE  RouterStep
  <1> DEFINE n == arrived + 1
  <1>0. n \in Bytes /\ n \in Nat
    BY ArrivalAssumption
       DEF ArrivalAssumption, Receive, Accept, AsyncInv, HwTypeOK, Bytes
  <1>1. /\ fifo' = Append(fifo, n) /\ n \in Bytes /\ n \in Nat
        /\ UNCHANGED <<pc, held, stored, rx_async_busy, rx_async_len, lastRead,
                       rx_ring, rx_read_idx, rx_write_idx, rx_status>>
    BY <1>0 DEF Receive, Accept, ringVars, taskLocal, asyncVars
  <1>2. Pending' = Append(Pending, n)
    <2>1. InHand("isr") \o InHand("task") \in Seq(Nat) /\ fifo \in Seq(Nat)
      BY RoutePieces, Contexts
    <2>2. Pending' = (InHand("isr") \o InHand("task")) \o Append(fifo, n)
      BY <1>1 DEF Pending, InHand
    <2> QED
      BY <1>1, <2>1, <2>2, AppendBehind DEF Pending
  <1>3. TakenBytes' = TakenBytes /\ Need' = Need /\ Buffered' = Buffered
    <2>1. TakenBytes' = TakenBytes
      BY <1>1 DEF TakenBytes, Passing
    <2> QED
      BY <1>1, <2>1, NeedFrame, RingFrame
  <1>4. Calm /\ Drops' = Drops
    BY <1>1 DEF Calm, Flushing, Drops
  <1> HIDE DEF n
  <1> QED
    BY <1>1, <1>2, <1>3, <1>4, AllOlder, IsArrive DEF n

-----------------------------------------------------------------------------
(* The drain.                                                              *)
LEMMA AtWork ==
    ASSUME AsyncInv, RouteInv, NEW c \in Ctx, pc[c] \in {"drain", "put", "store", "done"}
    PROVE  /\ ~Flushing
           /\ \A d \in Ctx : d # c => pc[d] \notin {"put", "store", "done"}
           /\ pc["task"] = "put" => c = "task"
           /\ \A d \in Ctx : pc[d] = "put" => d = c
           /\ \A d \in Ctx : pc[d] = "store" => d = c
  <1>1. \A d \in Ctx : d # c => pc[d] \notin {"put", "store", "done"}
    BY AloneAtWork DEF AsyncInv
  <1>2. ~Flushing
    BY Contexts DEF AsyncInv, MaskedSafe, AsyncMasked, Masked, Flushing
  <1> QED
    BY <1>1, <1>2, Contexts

(* In a step of the drain the place of one context changes, and the        *)
(* flush goes on or not as before.                                         *)
LEMMA DrainCalm ==
    ASSUME AsyncInv, RouteInv, NEW c \in Ctx, Drain(c)
    PROVE  /\ Calm
           /\ \E l : pc' = [pc EXCEPT ![c] = l]
           /\ pc[c] \in {"drain", "put", "store", "done"}
           /\ \A d \in Ctx : d # c => pc'[d] = pc[d]
  <1>1. /\ \E l \in {"drain", "put", "store", "done", "account", "complete_cb"} :
               pc' = [pc EXCEPT ![c] = l]
        /\ pc[c] \in {"drain", "put", "store", "done"}
        /\ lastRead' = lastRead
    BY DEF Drain, Take, Drained, FeedTest, FeedRing, Put, FeedStore, FeedDone,
           At, Goto, ringSide, taskLocal
  <1>2. pc \in [Ctx -> AsyncLabels]
    BY DEF AsyncInv, PcSafe
  <1>3. Flushing' <=> Flushing
    BY <1>1, <1>2, Contexts DEF Flushing
  <1> QED
    BY <1>1, <1>2, <1>3 DEF Calm

LEMMA TakeRoute ==
    ASSUME AsyncInv, RouteInv, NEW c \in Ctx, Drain(c), Take(c)
    PROVE  RouterStep
  <1>1. /\ fifo # <<>> /\ fifo' = Tail(fifo)
        /\ held' = [held EXCEPT ![c] = Head(fifo)] /\ pc' = [pc EXCEPT ![c] = "put"]
        /\ pc[c] = "drain"
        /\ UNCHANGED <<rx_ring, rx_read_idx, rx_write_idx, rx_status>>
    BY DEF Take, URXBE, ReadRXREG, Goto, ringVars
  <1>2. UNCHANGED <<stored, rx_async_busy, rx_async_len>>
    BY <1>1 DEF Drain, FeedTest, FeedRing, FeedStore, FeedDone, Put, At, asyncVars
  <1>3. /\ \A d \in Ctx : pc[d] # "put" /\ pc[d] # "store" /\ pc'[d] # "store"
        /\ pc'[c] = "put" /\ \A d \in Ctx : d # c => pc'[d] # "put"
        /\ held'[c] = Head(fifo)
    BY <1>1, AtWork DEF AsyncInv, PcSafe, HandSafe
  <1>4. Pending = fifo
    BY <1>3, Mapped, NoHand, RoutePieces
  <1>5. Head(fifo) \in Nat /\ Tail(fifo) \in Seq(Nat) /\ fifo = <<Head(fifo)>> \o Tail(fifo)
    BY <1>1, RoutePieces
  <1>6. Pending' = fifo
    <2>1. held'[c] \in Nat /\ fifo' \in Seq(Nat)
      BY <1>1, <1>3, <1>5
    <2>2. PendingAt(pc', held', fifo') = <<held'[c]>> \o fifo'
      BY Zenon, <1>3, <2>1, OneHand
    <2> QED
      BY <1>1, <1>3, <1>5, <2>2, Mapped
  <1>7. TakenBytes = stored /\ TakenBytes' = stored
    BY <1>2, <1>3, Mapped, NonePassing, RoutePieces
  <1>8. Need' = Need /\ Buffered' = Buffered /\ Drops' = Drops
    BY <1>1, <1>2, <1>7, NeedFrame, RingFrame DEF Drops
  <1> QED
    BY <1>4, <1>6, <1>7, <1>8, DrainCalm, RouterStutter

LEMMA DrainedRoute ==
    ASSUME AsyncInv, RouteInv, NEW c \in Ctx, Drained(c), UNCHANGED asyncVars
    PROVE  RouterStep
  <1>1. SameHands
    BY DEF Drained, Goto, SameHands, HandLabels, AsyncInv, PcSafe
  <1>2. TransferKept /\ RingKept /\ fifo' = fifo /\ Drops' = Drops
    BY DEF Drained, TransferKept, RingKept, asyncVars, ringVars, hwVars, Drops
  <1>3. Calm
    BY Contexts DEF Drained, Goto, Calm, Flushing, taskLocal, AsyncInv, PcSafe
  <1> QED
    BY <1>1, <1>2, <1>3, Still

LEMMA FirstOf ==
    ASSUME NEW s \in Seq(Nat), Len(s) > 0
    PROVE  SubSeq(s, 1, 1) = <<s[1]>>
  <1> DEFINE v == SubSeq(s, 1, 1)
             w == <<s[1]>>
  <1>1. v \in Seq(Nat) /\ Len(v) = 1 /\ v[1] = s[1]
    OBVIOUS
  <1>2. w \in Seq(Nat) /\ Len(w) = 1 /\ w[1] = s[1]
    OBVIOUS
  <1> HIDE DEF v, w
  <1>3. v = [i \in 1 .. 1 |-> v[i]] /\ w = [i \in 1 .. 1 |-> w[i]]
    BY <1>1, <1>2, AsFunction
  <1>4. \A i \in 1 .. 1 : v[i] = w[i]
    BY <1>1, <1>2
  <1>5. v = w
    BY <1>3, <1>4
  <1> QED
    BY <1>5 DEF v, w

(* The byte in hand.                                                       *)
LEMMA AtPut ==
    ASSUME AsyncInv, RouteInv, NEW c \in Ctx, pc[c] = "put"
    PROVE  /\ Pending = <<held[c]>> \o fifo
           /\ TakenBytes = stored
           /\ Pending # <<>> /\ Head(Pending) = held[c] /\ Tail(Pending) = fifo
           /\ Len(Pending) = Len(fifo) + 1
           /\ SubSeq(Pending, 1, 0) = <<>>
           /\ SubSeq(Pending, 1, 1) = <<held[c]>>
           /\ SubSeq(Pending, 2, Len(Pending)) = fifo
  <1>1. \A d \in Ctx : pc[d] # "store" /\ (d # c => pc[d] # "put")
    BY AtWork
  <1>2. Pending = <<held[c]>> \o fifo
    <2>1. held[c] \in Nat /\ fifo \in Seq(Nat)
      BY RoutePieces
    <2>2. PendingAt(pc, held, fifo) = <<held[c]>> \o fifo
      BY Zenon, <1>1, <2>1, OneHand
    <2> QED
      BY <2>2, Mapped
  <1>3. TakenBytes = stored
    BY <1>1, Mapped, NonePassing, RoutePieces
  <1>4. ASSUME NEW a \in Nat, NEW t \in Seq(Nat)
        PROVE  LET u == <<a>> \o t IN
               /\ u # <<>> /\ Head(u) = a /\ Tail(u) = t
               /\ Len(u) = Len(t) + 1 /\ SubSeq(u, 1, 0) = <<>>
               /\ SubSeq(u, 1, 1) = <<a>> /\ SubSeq(u, 2, Len(u)) = t
    <2> DEFINE u == <<a>> \o t
    <2>1. <<a>> \in Seq(Nat) /\ Len(<<a>>) = 1
      OBVIOUS
    <2>2. u \in Seq(Nat) /\ u # <<>> /\ Head(u) = a /\ Len(u) = Len(t) + 1
      OBVIOUS
    <2>3. SubSeq(u, 2, Len(u)) = t
      <3>1. SubSeq(<<a>> \o t, Len(<<a>>) + 1, Len(<<a>> \o t)) = t
        BY <2>1, DropFront
      <3> QED
        BY <2>1, <3>1
    <2>4. Tail(u) = t
      BY <2>2, <2>3, DropFirst
    <2>5. SubSeq(u, 1, 0) = <<>>
      BY <2>2
    <2>6. SubSeq(u, 1, 1) = <<a>>
      <3>1. u[1] = a /\ Len(u) > 0
        BY <2>2
      <3> HIDE DEF u
      <3> QED
        BY <2>2, <3>1, FirstOf
    <2> QED
      BY <2>2, <2>3, <2>4, <2>5, <2>6
  <1>5. LET u == <<held[c]>> \o fifo IN
        /\ u # <<>> /\ Head(u) = held[c] /\ Tail(u) = fifo
        /\ Len(u) = Len(fifo) + 1 /\ SubSeq(u, 1, 0) = <<>>
        /\ SubSeq(u, 1, 1) = <<held[c]>> /\ SubSeq(u, 2, Len(u)) = fifo
    <2>1. held[c] \in Nat /\ fifo \in Seq(Nat)
      BY RoutePieces
    <2> QED
      BY Zenon, <1>4, <2>1
  <1> QED
    BY Zenon, <1>2, <1>3, <1>5

LEMMA FeedTestRoute ==
    ASSUME AsyncInv, RouteInv, NEW c \in Ctx, FeedTest(c)
    PROVE  RouterStep
  <1>1. /\ pc[c] = "put" /\ pc' = [pc EXCEPT ![c] = "store"] /\ rx_async_busy
        /\ UNCHANGED <<fifo, held, stored, rx_async_busy, rx_async_len, rx_ring,
                       rx_read_idx, rx_write_idx, rx_status>>
    BY DEF FeedTest, At, Goto, hwVars, ringSide, ringVars, asyncVars
  <1>2. /\ \A d \in Ctx : pc[d] # "done" /\ pc'[d] # "put"
        /\ pc'[c] = "store" /\ \A d \in Ctx : d # c => pc'[d] # "store"
    BY <1>1, AtWork DEF AsyncInv, PcSafe
  <1>3. Pending' = fifo
    BY <1>1, <1>2, Mapped, NoHand, RoutePieces
  <1>4. TakenBytes' = Append(stored, held[c])
    <2>1. held'[c] \in Nat /\ stored' \in Seq(Nat)
      BY <1>1, RoutePieces
    <2>2. TakenAt(pc', held', stored') = Append(stored', held'[c])
      BY Zenon, <1>2, <2>1, OnePassing
    <2> QED
      BY <1>1, <2>2, Mapped
  <1>5. Len(stored) < rx_async_len
    BY <1>1, <1>2 DEF AsyncInv, TransferSafe
  <1>6. Need > 0 /\ Need' = Need - 1
    <2>1. Need = rx_async_len - Len(stored)
      BY <1>1, AtPut DEF Need
    <2>2. Len(TakenBytes') = Len(stored) + 1
      BY <1>4, RoutePieces
    <2>3. Need' = rx_async_len - (Len(stored) + 1)
      BY <1>1, <2>2 DEF Need
    <2> QED
      BY <1>5, <2>1, <2>3, RoutePieces
  <1>7. Buffered' = Buffered /\ Drops' = Drops
    BY <1>1, RingFrame DEF Drops
  <1>8. Calm
    BY DrainCalm DEF Drain
  <1> QED
    BY <1>1, <1>3, <1>4, <1>6, <1>7, <1>8, AtPut, IsToTransfer

LEMMA FeedRingRoute ==
    ASSUME AsyncInv, RouteInv, NEW c \in Ctx, FeedRing(c)
    PROVE  RouterStep
  <1>1. /\ pc[c] = "put" /\ pc' = [pc EXCEPT ![c] = "drain"] /\ ~rx_async_busy
        /\ held' = [held EXCEPT ![c] = 0]
        /\ UNCHANGED <<fifo, stored, rx_async_busy, rx_async_len>>
    BY DEF FeedRing, Put, Goto, hwVars
  <1>2. \A d \in Ctx : pc'[d] # "put" /\ pc'[d] # "store"
    BY <1>1, AtWork DEF AsyncInv, PcSafe
  <1>3. Pending' = fifo
    BY <1>1, <1>2, Mapped, NoHand, RoutePieces
  <1>4. TakenBytes' = TakenBytes
    <2>1. TakenBytes' = stored
      BY <1>1, <1>2, Mapped, NonePassing, RoutePieces
    <2> QED
      BY <1>1, <2>1, AtPut
  <1>5. Need = 0 /\ Need' = Need
    BY <1>1, <1>4, NeedFrame DEF Need
  <1>6. Calm /\ ~Flushing
    BY <1>1, DrainCalm, AtWork DEF Drain
  <1>7. Drops \in Nat
    BY DEF RouteInv, CountersTyped, Counters, Drops
  <1>8. /\ 1 \in 1 .. Len(Pending) /\ 0 \in 0 .. 1 /\ 1 \in 0 .. 1 /\ 1 + 1 = 2
        /\ Drops + (1 - 0) = Drops + 1 /\ Drops + (1 - 1) = Drops
    <2>1. Len(Pending) = Len(fifo) + 1 /\ Len(fifo) \in Nat
      <3>1. fifo \in Seq(Nat)
        BY RoutePieces
      <3>2. Len(Pending) = Len(fifo) + 1
        BY Zenon, <1>1, AtPut
      <3> QED
        BY <3>1, <3>2
    <2> QED
      BY <1>7, <2>1
  <1>9. CASE NextIdx(rx_write_idx) = rx_read_idx
    <2>1. Drops' = Drops + 1
      BY <1>9, PushCounts DEF RouteInv
    <2>2. Buffered' = Buffered \o SubSeq(Pending, 1, 0)
      BY <1>1, <1>9, PushCases, RingFrame, AtPut, RoutePieces, NoMore
    <2>3. Pending' = SubSeq(Pending, 1 + 1, Len(Pending))
      BY <1>1, <1>3, <1>8, AtPut
    <2> QED
      BY <1>4, <1>5, <1>6, <1>8, <2>1, <2>2, <2>3, IsToStream
  <1>10. CASE NextIdx(rx_write_idx) # rx_read_idx
    <2>1. Drops' = Drops
      BY <1>10, PushCounts DEF RouteInv
    <2>2. Buffered' = Buffered \o <<held[c]>>
      BY <1>10, PushCases, BufferedPush, RoutePieces DEF RouteInv
    <2>3. Buffered' = Buffered \o SubSeq(Pending, 1, 1)
      BY <1>1, <2>2, AtPut
    <2>4. Pending' = SubSeq(Pending, 1 + 1, Len(Pending))
      BY <1>1, <1>3, <1>8, AtPut
    <2> QED
      BY <1>4, <1>5, <1>6, <1>8, <2>1, <2>3, <2>4, IsToStream
  <1> QED
    BY <1>9, <1>10

LEMMA FeedStoreRoute ==
    ASSUME AsyncInv, RouteInv, NEW c \in Ctx, FeedStore(c)
    PROVE  RouterStep
  <1>1. /\ pc[c] = "store" /\ pc' = [pc EXCEPT ![c] = "done"]
        /\ held' = [held EXCEPT ![c] = 0] /\ stored' = Append(stored, held[c])
        /\ UNCHANGED <<fifo, rx_async_busy, rx_async_len, rx_ring, rx_read_idx,
                       rx_write_idx, rx_status>>
    BY DEF FeedStore, At, Goto, hwVars, ringSide, ringVars
  <1>2. \A d \in Ctx : /\ pc[d] # "put" /\ pc'[d] # "put" /\ pc'[d] # "store"
                       /\ d # c => pc[d] # "store"
    BY <1>1, AtWork DEF AsyncInv, PcSafe
  <1>3. Pending = fifo /\ Pending' = fifo
    BY <1>1, <1>2, Mapped, NoHand, RoutePieces
  <1>4. TakenBytes = Append(stored, held[c])
    <2>1. held[c] \in Nat /\ stored \in Seq(Nat)
      BY RoutePieces
    <2>2. TakenAt(pc, held, stored) = Append(stored, held[c])
      BY Zenon, <1>1, <1>2, <2>1, OnePassing
    <2> QED
      BY <2>2, Mapped
  <1>5. TakenBytes' = Append(stored, held[c])
    <2>1. Append(stored, held[c]) \in Seq(Nat)
      BY RoutePieces
    <2> QED
      BY <1>1, <1>2, <2>1, Mapped, NonePassing
  <1>6. Need' = Need /\ Buffered' = Buffered /\ Drops' = Drops
    BY <1>1, <1>4, <1>5, NeedFrame, RingFrame DEF Drops
  <1>7. Calm
    BY DrainCalm DEF Drain
  <1> QED
    BY <1>3, <1>4, <1>5, <1>6, <1>7, RouterStutter

LEMMA FeedDoneRoute ==
    ASSUME AsyncInv, RouteInv, NEW c \in Ctx, FeedDone(c)
    PROVE  RouterStep
  <1>1. /\ pc[c] = "done"
        /\ pc' = [pc EXCEPT ![c] = IF Complete THEN "complete_cb" ELSE "drain"]
        /\ rx_async_busy' = (rx_async_busy /\ ~Complete)
        /\ UNCHANGED <<fifo, held, stored, rx_async_len, rx_ring, rx_read_idx,
                       rx_write_idx, rx_status>>
    BY DEF FeedDone, At, Goto, hwVars, ringSide, ringVars
  <1>2. \A d \in Ctx : pc[d] # "put" /\ pc'[d] # "put" /\ pc[d] # "store" /\ pc'[d] # "store"
    BY <1>1, AtWork DEF AsyncInv, PcSafe
  <1>3. Pending = fifo /\ Pending' = fifo
    BY <1>1, <1>2, Mapped, NoHand, RoutePieces
  <1>4. TakenBytes = stored /\ TakenBytes' = stored
    BY <1>1, <1>2, Mapped, NonePassing, RoutePieces
  <1>5. Need' = Need
    <2>1. Complete => rx_async_len - Len(stored) = 0
      BY RoutePieces DEF Complete, AsyncInv, TransferSafe
    <2> QED
      BY <1>1, <1>4, <2>1 DEF Need
  <1>6. Buffered' = Buffered /\ Drops' = Drops
    BY <1>1, RingFrame DEF Drops
  <1>7. Calm
    BY DrainCalm DEF Drain
  <1> QED
    BY <1>3, <1>4, <1>5, <1>6, <1>7, RouterStutter

LEMMA DrainRoute ==
    ASSUME AsyncInv, RouteInv, NEW c \in Ctx, Drain(c)
    PROVE  RouterStep
  BY Zenon, TakeRoute, DrainedRoute, FeedTestRoute, FeedRingRoute,
     FeedStoreRoute, FeedDoneRoute DEF Drain
-----------------------------------------------------------------------------
(* Starts and aborts.                                                      *)
LEMMA SamePending ==
    ASSUME SameHands, fifo' = fifo
    PROVE  Pending' = Pending
  <1>1. \A c \in Ctx : pc'[c] = "put" <=> pc[c] = "put"
    BY DEF SameHands, HandLabels
  <1>2. held' = held
    BY DEF SameHands
  <1> QED
    BY <1>1, <1>2, Mapped, Contexts DEF PendingAt

LEMMA ArmRoute ==
    ASSUME AsyncInv, RouteInv, NEW n \in Requests, Arm(n), ~rx_async_busy,
           SameHands, \A c \in Ctx : pc'[c] # "store",
           RingKept, fifo' = fifo, Calm, Drops' = Drops
    PROVE  RouterStep
  <1>1. Pending' = Pending /\ Buffered' = Buffered
    BY SamePending, RingFrame DEF RingKept
  <1>2. TakenBytes' = <<>>
    <2>1. stored' = <<>> /\ <<>> \in Seq(Nat)
      BY DEF Arm
    <2>2. TakenAt(pc', held', stored') = <<>>
      BY <2>1, NonePassing
    <2> QED
      BY <2>2, Mapped
  <1>3. Need = 0
    BY DEF Need
  <1>4. Need' = n
    <2>1. n \in Nat
      BY RequestsAssumption DEF RequestsAssumption
    <2>2. Len(TakenBytes') = 0
      BY <1>2
    <2> QED
      BY <2>1, <2>2 DEF Need, Arm
  <1> QED
    BY <1>1, <1>2, <1>3, <1>4, IsStart

LEMMA AbortRoute ==
    ASSUME UNCHANGED <<vars, stored>>, rx_async_busy' = FALSE
    PROVE  RouterStep
  <1>1. UNCHANGED <<pc, held, fifo, rx_ring, rx_read_idx, rx_write_idx,
                    rx_status, lastRead>>
    BY DEF vars, hwVars, ringVars, taskLocal
  <1>2. UNCHANGED <<Pending, TakenBytes, Buffered>>
    BY <1>1, RingFrame, Mapped
  <1>3. Calm /\ Drops' = Drops /\ Need' = 0
    BY <1>1 DEF Calm, Flushing, Drops, Need
  <1> QED
    BY <1>2, <1>3, IsAbort

-----------------------------------------------------------------------------
(* The callback's rx_ready() recovers a stall: the bytes of the FIFO go to *)
(* the empty ring, as many as it holds.                                    *)
LEMMA ReadyRoute ==
    ASSUME ReadyInHandler, AsyncInv, RouteInv, NEW c \in Ctx, CallbackReady(c)
    PROVE  RouterStep
  <1>1. /\ pc["isr"] \in {"complete_cb", "events_cb"}
        /\ ~rx_async_busy /\ rx_read_idx = rx_write_idx /\ fifo' = <<>>
        /\ UNCHANGED <<pc, held, stored, rx_async_busy, rx_async_len, lastRead>>
    BY DEF CallbackReady, ReadyInHandler, InCallback, At, RingEmpty, taskLocal,
           asyncVars
  <1>2. /\ \A d \in Ctx : pc[d] # "put"
        /\ ~Flushing
    BY <1>1, Contexts DEF AsyncInv, MaskedSafe, AsyncMasked, Masked, Feeding, Flushing
  <1>3. Pending = fifo /\ Pending' = <<>>
    <2>1. fifo \in Seq(Nat) /\ <<>> \in Seq(Nat)
      BY RoutePieces
    <2>2. PendingAt(pc, held, fifo) = fifo /\ PendingAt(pc, held, <<>>) = <<>>
      BY Zenon, <1>2, <2>1, NoHand
    <2> QED
      BY <1>1, <2>2, Mapped
  <1>4. TakenBytes' = TakenBytes /\ Need' = Need /\ Need = 0 /\ Calm
    <2>1. TakenBytes' = TakenBytes
      BY <1>1, Mapped
    <2> QED
      BY <1>1, <2>1, NeedFrame DEF Need, Calm, Flushing
  <1>5. /\ RingTyped /\ rx_write_idx \in 0 .. RingSize - 1
        /\ Room \in 0 .. RingSize - 1 /\ Room <= Len(fifo) /\ Len(fifo) \in Nat
        /\ rx_write_idx' = Ahead(Room) /\ rx_read_idx' = rx_read_idx
        /\ \A j \in 1 .. Room : rx_ring'[Ahead(j - 1)] = fifo[j]
        /\ RingSize \in Nat
    BY Refill, FifoBytes, RingSizeType DEF AsyncInv, RouteInv, RingTyped
  <1>6. Used = 0 /\ Used' = Room
    BY <1>1, <1>5 DEF Used, Ahead
  <1>7. \A i \in 0 .. Room - 1 : Slot(i)' = Ahead(i)
    BY <1>1, <1>5 DEF Slot, Ahead
  <1>8. Buffered = <<>>
    BY <1>6 DEF Buffered
  <1>9. Buffered' = Buffered \o SubSeq(fifo, 1, Room)
    <2>1. Buffered' = [i \in 1 .. Room |-> rx_ring'[Slot(i - 1)']]
      BY <1>6 DEF Buffered
    <2>2. \A i \in 1 .. Room : rx_ring'[Slot(i - 1)'] = fifo[i]
      <3>1. \A i \in 1 .. Room : i - 1 \in 0 .. Room - 1
        BY <1>5
      <3> QED
        BY <1>5, <1>7, <3>1
    <2>3. Buffered' = [i \in 1 .. Room |-> fifo[i]]
      BY <2>1, <2>2
    <2>4. fifo \in Seq(Nat)
      BY RoutePieces
    <2>5. /\ SubSeq(fifo, 1, Room) \in Seq(Nat)
          /\ SubSeq(fifo, 1, Room) = [i \in 1 .. Room |-> fifo[i]]
      <3> DEFINE v == SubSeq(fifo, 1, Room)
      <3>1. v \in Seq(Nat) /\ Len(v) = Room /\ \A i \in 1 .. Room : v[i] = fifo[i]
        BY <1>5, <2>4
      <3> HIDE DEF v
      <3>2. v = [i \in 1 .. Room |-> v[i]]
        BY <3>1, AsFunction
      <3>3. v = [i \in 1 .. Room |-> fifo[i]]
        BY <3>1, <3>2
      <3> QED
        BY <3>1, <3>3 DEF v
    <2> QED
      BY <1>8, <2>3, <2>5, NoMore
  <1>10. Drops' = Drops + (Len(fifo) - Room)
    BY ReadyCounts DEF AsyncInv, RouteInv
  <1>11. CASE fifo = <<>>
    <2>1. Len(fifo) = 0
      BY <1>11
    <2>2. Room = 0
      BY <1>5, <2>1
    <2>3. Used' = 0
      BY <1>6, <2>2
    <2>4. Buffered' = Buffered
      BY <1>8, <2>3 DEF Buffered
    <2>5. Drops' = Drops
      <3>1. Drops \in Nat
        BY DEF RouteInv, CountersTyped, Counters, Drops
      <3> QED
        BY <1>10, <2>1, <2>2, <3>1
    <2> QED
      BY <1>3, <1>4, <1>11, <2>4, <2>5, RouterStutter
  <1>12. CASE fifo # <<>>
    <2>1. fifo \in Seq(Nat) /\ Len(fifo) > 0
      BY <1>12, RoutePieces
    <2>2. Len(fifo) \in 1 .. Len(Pending) /\ Room \in 0 .. Len(fifo)
      BY <1>3, <1>5, <2>1
    <2>3. SubSeq(fifo, Len(fifo) + 1, Len(fifo)) = <<>>
      BY <2>1
    <2> QED
      BY <1>2, <1>3, <1>4, <1>9, <1>10, <2>2, <2>3, IsToStream
  <1> QED
    BY <1>11, <1>12

LEMMA CallbackRoute ==
    ASSUME ReadyInHandler, AsyncInv, RouteInv, NEW c \in Ctx, Callback(c)
    PROVE  RouterStep
  <1>1. SameHands
    BY CallbackPlaces DEF AsyncInv
  <1>2. CASE CallbackReturn(c)
    <2>1. TransferKept /\ RingKept /\ fifo' = fifo /\ Drops' = Drops
      BY <1>2 DEF CallbackReturn, TransferKept, RingKept, asyncVars, ringSide,
                  ringVars, hwVars, Drops
    <2>2. Calm
      BY <1>2, Contexts
         DEF CallbackReturn, InCallback, At, Goto, Calm, Flushing, ringSide,
             taskLocal, AsyncInv, PcSafe
    <2> QED
      BY <1>1, <2>1, <2>2, Still
  <1>3. CASE CallbackStart(c)
    <2>1. /\ pc[c] = "complete_cb" /\ ~rx_async_busy
          /\ UNCHANGED <<pc, held, fifo, rx_ring, rx_read_idx, rx_write_idx,
                         rx_status, lastRead>>
      BY <1>3 DEF CallbackStart, At, vars, hwVars, ringVars, taskLocal
    <2>2. PICK n \in Requests : Arm(n)
      BY <1>3 DEF CallbackStart
    <2>3. \A d \in Ctx : pc'[d] # "store"
      BY <2>1, AloneAtWork DEF AsyncInv
    <2>4. RingKept /\ Calm /\ Drops' = Drops
      BY <2>1 DEF RingKept, Calm, Flushing, Drops
    <2> QED
      BY <1>1, <2>1, <2>2, <2>3, <2>4, ArmRoute
  <1>4. CASE CallbackAbort(c)
    BY <1>4, AbortRoute DEF CallbackAbort, AbortBy
  <1>5. CASE CallbackReady(c)
    BY <1>5, ReadyRoute
  <1> QED
    BY Zenon, <1>2, <1>3, <1>4, <1>5 DEF Callback

-----------------------------------------------------------------------------
(* The handler and the line.                                               *)
LEMMA HandlerRoute ==
    ASSUME AsyncInv, RouteInv, Handler
    PROVE  RouterStep \/ Wiped
  <1>1. SameHands
    BY OtherPlaces DEF AsyncInv
  <1>2. Calm /\ TransferKept /\ RingKept
    BY Contexts
       DEF Handler, HandlerEnter, IsrEnter, HandlerAccount, Goto, Calm, Flushing,
           TransferKept, RingKept, asyncVars, ringVars, taskLocal, AsyncInv, PcSafe
  <1>3. Drops' = Drops
    BY EnterCounts, HandlerCounts DEF Handler, RouteInv
  <1>4. CASE fifo' = fifo
    BY <1>1, <1>2, <1>3, <1>4, Still
  <1>5. CASE fifo' # fifo
    <2>1. HandlerAccount /\ ClearOERR
      BY <1>5 DEF Handler, HandlerEnter, IsrEnter, HandlerAccount, hwVars
    <2>2. \A c \in Ctx : pc[c] # "put"
      BY <2>1, Contexts
         DEF HandlerAccount, AsyncInv, MaskedSafe, AsyncMasked, Masked
    <2> QED
      BY <1>1, <1>2, <1>5, <2>1, <2>2, Wipe DEF Calm
  <1> QED
    BY <1>4, <1>5

LEMMA LineRoute ==
    ASSUME AsyncInv, RouteInv, Line
    PROVE  RouterStep
  <1>1. CASE Receive
    BY <1>1, ArriveStep DEF Line
  <1>2. CASE Lose \/ LoseEnable
    <2>1. SameHands
      BY OtherPlaces DEF AsyncInv
    <2>2. Calm /\ TransferKept /\ RingKept /\ fifo' = fifo /\ Drops' = Drops
      BY <1>2 DEF Line, Lose, Overrun, LoseEnable, Calm, Flushing, TransferKept,
                  RingKept, asyncVars, ringVars, taskLocal, hwVars, Drops
    <2> QED
      BY <2>1, <2>2, Still
  <1> QED
    BY <1>1, <1>2 DEF Line, Environment

-----------------------------------------------------------------------------
(* The calls of the task.                                                  *)
LEMMA AsyncCallRoute ==
    ASSUME AsyncInv, RouteInv, AsyncCall \/ AsyncStep
    PROVE  RouterStep
  <1> USE DEF TaskAt, Goto
  <1>1. SameHands
    BY OtherPlaces DEF AsyncInv
  <1>2. pc \in [Ctx -> AsyncLabels]
    BY DEF AsyncInv, PcSafe
  <1>3. CASE CallStart \/ CleanMask
    <2>1. /\ TransferKept /\ RingKept /\ fifo' = fifo /\ Drops' = Drops
          /\ lastRead' = lastRead
      BY <1>3 DEF CallStart, CleanMask, taskOnly, TransferKept, RingKept,
                  ringSide, ringVars, taskLocal, hwVars, Drops
    <2>2. Flushing' <=> Flushing
      BY <1>2, <1>3, Contexts DEF CallStart, CleanMask, Free, Flushing
    <2> QED
      BY <1>1, <2>1, <2>2, Still DEF Calm
  <1>4. CASE CallAbort
    BY <1>4, AbortRoute DEF CallAbort
  <1>5. CASE StartArm \/ CleanArm
    <2>1. /\ Arm(request) /\ pc["isr"] = "idle" /\ pc'["isr"] = "idle"
          /\ pc'["task"] = "idle" /\ pc["task"] \in {"start_arm", "idle"}
          /\ clean \/ pc["task"] = "start_arm"
      BY <1>2, <1>5, Contexts DEF StartArm, CleanArm
    <2>2. ~rx_async_busy /\ request \in Requests
      BY <2>1 DEF RouteInv, QuietSafe, AsyncInv, RequestSafe
    <2>3. RingKept /\ fifo' = fifo /\ Drops' = Drops /\ lastRead' = lastRead
      BY <1>5 DEF StartArm, CleanArm, taskOnly, RingKept, ringSide, ringVars,
                  taskLocal, hwVars, Drops
    <2>4. Flushing' <=> Flushing
      BY <2>1 DEF Flushing
    <2>5. \A d \in Ctx : pc'[d] # "store"
      BY <2>1, Contexts
    <2> QED
      BY <1>1, <2>1, <2>2, <2>3, <2>4, <2>5, ArmRoute DEF Calm
  <1> QED
    BY Zenon, <1>3, <1>4, <1>5 DEF AsyncCall, AsyncStep

LEMMA RingCallRoute ==
    ASSUME AsyncInv, RouteInv, RingCall
    PROVE  RouterStep
  <1>1. SameHands
    BY RingPlaces DEF AsyncInv
  <1>2. /\ TransferKept /\ RingKept /\ fifo' = fifo /\ Drops' = Drops
        /\ lastRead' = lastRead
    BY DEF RingCall, Call, CallReady, CallRead, CallService, CallFlush, CallGet,
           CallClear, CallEnable, CallDisable, Begin, SetEnable, TransferKept,
           RingKept, taskRest, ringVars, asyncVars, Drops
  <1>3. Flushing' <=> Flushing
    BY Contexts
       DEF RingCall, Call, CallReady, CallRead, CallService, CallFlush, CallGet,
           CallClear, CallEnable, CallDisable, Begin, SetEnable, Flushing,
           TaskAt, Goto, AsyncInv, PcSafe
  <1> QED
    BY <1>1, <1>2, <1>3, Still DEF Calm
-----------------------------------------------------------------------------
(* The steps of a call that has started.                                   *)
LEMMA ReadRoute ==
    ASSUME AsyncInv, RouteInv, ReadStore, UNCHANGED asyncVars
    PROVE  RouterStep
  <1>1. /\ pc["task"] = "rd_store" /\ pc' = [pc EXCEPT !["task"] = "idle"]
        /\ lastRead' = data /\ rx_read_idx' = NextIdx(read_idx)
        /\ UNCHANGED <<held, fifo, stored, rx_async_busy, rx_async_len, rx_ring,
                       rx_write_idx, rx_status>>
    BY DEF ReadStore, TaskAt, Goto, hwVars, asyncVars
  <1>2. SameHands
    BY RingPlaces DEF AsyncInv, RingStep, Read
  <1>3. Pending' = Pending /\ TakenBytes' = TakenBytes
    BY <1>1, <1>2, SameBytes
  <1>4. Need' = Need /\ Drops' = Drops
    BY <1>1, <1>3, NeedFrame DEF Drops
  <1>5. ~RingEmpty /\ lastRead' = rx_ring[rx_read_idx]
        /\ rx_read_idx' = NextIdx(rx_read_idx)
    BY <1>1 DEF RouteInv, ReadSafe, LoadedSafe
  <1>6. /\ Buffered # <<>> /\ Buffered[1] = rx_ring[rx_read_idx]
        /\ Buffered' = Tail(Buffered)
    BY <1>1, <1>5, BufferedPop DEF RouteInv
  <1>7. Head(Buffered) = Buffered[1]
    BY <1>6, RoutePieces
  <1>8. ~Flushing /\ (Flushing' <=> Flushing)
    BY <1>1, Contexts DEF Flushing, AsyncInv, PcSafe
  <1> QED
    BY <1>3, <1>4, <1>5, <1>6, <1>7, <1>8, IsRead

LEMMA FlushRoute ==
    ASSUME AsyncInv, RouteInv, RingStep, Flush
    PROVE  RouterStep \/ Wiped
  <1> USE Contexts DEF TaskAt, Goto
  <1>1. SameHands
    BY RingPlaces DEF AsyncInv
  <1>2. TransferKept /\ lastRead' = lastRead /\ Drops' = Drops
    <2>1. TransferKept
      BY DEF RingStep, CleanFlush, TransferKept, asyncVars
    <2> QED
      BY <2>1 DEF Flush, FlushMask, FlushRing, FlushFifo, FlushOerr, Mask,
                  taskRest, taskLocal, Drops
  <1>3. pc \in [Ctx -> AsyncLabels]
    BY DEF AsyncInv, PcSafe
  <1>7. FlushMask \/ FlushOerr => RingKept
    BY DEF FlushMask, FlushOerr, Mask, taskRest, RingKept, ringVars
  <1>8. CASE FlushOerr /\ fifo' # fifo
    <2>1. \A c \in Ctx : pc[c] # "put"
      BY <1>8 DEF FlushOerr
    <2>2. ClearOERR
      BY <1>8 DEF FlushOerr
    <2> QED
      BY <1>1, <1>2, <1>7, <1>8, <2>1, <2>2, Wipe
  <1>4. CASE (FlushMask \/ FlushOerr) /\ fifo' = fifo
    <2>1. RingKept
      BY <1>4, <1>7
    <2>2. fifo' = fifo
      BY <1>4
    <2>3. Flushing' <=> ~Flushing
      BY <1>3, <1>4 DEF FlushMask, FlushOerr, Mask, Flushing
    <2>4. Pending' = Pending /\ TakenBytes' = TakenBytes
      BY <1>1, <1>2, <2>2, SameBytes DEF TransferKept
    <2>5. Need' = Need /\ Buffered' = Buffered
      BY <1>2, <2>1, <2>4, NeedFrame, RingFrame DEF TransferKept, RingKept
    <2> QED
      BY <1>2, <2>3, <2>4, <2>5, IsTurn
  <1>5. CASE FlushRing
    <2>1. /\ fifo' = fifo /\ rx_read_idx' = rx_write_idx /\ rx_write_idx' = rx_write_idx
          /\ rx_write_idx \in 0 .. RingSize - 1
      BY <1>5 DEF FlushRing, hwVars, RouteInv, RingTyped
    <2>2. Flushing /\ Flushing'
      BY <1>3, <1>5 DEF FlushRing, Flushing
    <2>3. Buffered' = <<>>
      <3>1. Used' = 0
        BY <2>1 DEF Used
      <3> QED
        BY <3>1 DEF Buffered
    <2>4. Pending' = Pending /\ TakenBytes' = TakenBytes
      BY <1>1, <1>2, <2>1, SameBytes DEF TransferKept
    <2>5. Need' = Need
      BY <1>2, <2>4, NeedFrame DEF TransferKept
    <2> QED
      BY <1>2, <2>2, <2>3, <2>4, <2>5, IsDiscard DEF Calm
  <1>6. CASE FlushFifo
    <2>1. /\ Flushing /\ Flushing' /\ RingKept
          /\ pc["isr"] = "idle" /\ pc["task"] = "flush_fifo"
      BY <1>3, <1>6 DEF FlushFifo, Flushing, taskRest, ringVars, RingKept
    <2>2. Buffered = <<>> /\ Buffered' = <<>>
      <3>1. RingEmpty /\ rx_write_idx \in 0 .. RingSize - 1
        BY <2>1 DEF RouteInv, FlushedRing, RingTyped
      <3>2. Used = 0
        BY <3>1 DEF Used, RingEmpty
      <3> QED
        BY <2>1, <3>2, RingFrame DEF Buffered, RingKept
    <2>3. \A d \in Ctx : pc[d] # "put" /\ pc'[d] # "put" /\ pc[d] # "store" /\ pc'[d] # "store"
      BY <1>1, <2>1 DEF SameHands, HandLabels
    <2>4. TakenBytes' = TakenBytes
      BY <1>2, <2>3, Mapped, NonePassing, RoutePieces DEF TransferKept
    <2>5. Need' = Need
      BY <1>2, <2>4, NeedFrame DEF TransferKept
    <2>6. fifo \in Seq(Nat)
      BY RoutePieces
    <2>7. fifo' = fifo \/ (fifo # <<>> /\ fifo' = Tail(fifo) /\ fifo' \in Seq(Nat))
      <3>1. fifo # <<>> => Tail(fifo) \in Seq(Nat)
        BY <2>6
      <3> QED
        BY <1>6, <3>1 DEF FlushFifo, URXBE, ReadRXREG
    <2>8. Pending = fifo /\ Pending' = fifo'
      BY <2>3, <2>6, <2>7, Mapped, NoHand
    <2> QED
      BY <1>2, <2>1, <2>2, <2>4, <2>5, <2>7, <2>8, IsDiscard DEF Calm
  <1>9. FlushMask => fifo' = fifo
    BY DEF FlushMask, Mask, hwVars
  <1> QED
    BY Zenon, <1>4, <1>5, <1>6, <1>8, <1>9 DEF Flush

LEMMA RingStepRoute ==
    ASSUME AsyncInv, RouteInv, RingStep
    PROVE  RouterStep \/ Wiped
  <1> USE Contexts DEF TaskAt, Goto
  <1>1. SameHands
    BY RingPlaces DEF AsyncInv
  <1>2. pc \in [Ctx -> AsyncLabels]
    BY DEF AsyncInv, PcSafe
  <1>3. CASE Flush
    BY <1>3, FlushRoute
  <1>4. CASE ReadStore /\ UNCHANGED asyncVars
    BY <1>4, ReadRoute
  <1>5. CASE ServiceAccount /\ UNCHANGED asyncVars
    <2>1. Drops' = Drops
      BY <1>5, ServiceCounts DEF RouteInv
    <2>2. Calm /\ TransferKept /\ RingKept
      BY <1>2, <1>5 DEF ServiceAccount, taskRest, ringVars, asyncVars, Calm,
                        Flushing, TransferKept, RingKept
    <2>3. CASE fifo' = fifo
      BY <1>1, <2>1, <2>2, <2>3, Still
    <2>4. CASE fifo' # fifo
      <3>1. ClearOERR /\ \A c \in Ctx : pc[c] # "put"
        BY <1>5, <2>4 DEF ServiceAccount
      <3> QED
        BY <1>1, <2>2, <2>4, <3>1, Wipe DEF Calm
    <2> QED
      BY <2>3, <2>4
  <1>6. CASE ClearDone /\ UNCHANGED asyncVars
    <2>1. Calm /\ TransferKept /\ RingKept /\ fifo' = fifo
      BY <1>2, <1>6 DEF ClearDone, taskRest, ringVars, asyncVars, Calm, Flushing,
                        TransferKept, RingKept
    <2>2. Drops' = 0
      BY <1>6 DEF ClearDone, Drops, Zero, Counters
    <2>3. Pending' = Pending /\ TakenBytes' = TakenBytes
      BY <1>1, <2>1, SameBytes DEF TransferKept
    <2>4. Need' = Need /\ Buffered' = Buffered
      BY <2>1, <2>3, NeedFrame, RingFrame DEF TransferKept, RingKept
    <2> QED
      BY <2>1, <2>2, <2>3, <2>4, IsReset
  <1>7. CASE /\ \/ ServiceTest \/ ServiceMask \/ ServiceRearm \/ ReadTest
                \/ ReadLoad \/ GetMask \/ GetDone \/ ClearMask \/ Restore
             /\ UNCHANGED asyncVars
    <2>1. Flushing' <=> Flushing
      BY <1>2, <1>7
         DEF ServiceTest, ServiceMask, ServiceRearm, AfterService, ReadTest,
             ReadLoad, GetMask, GetDone, ClearMask, Restore, Mask, Flushing
    <2>2. /\ TransferKept /\ RingKept /\ fifo' = fifo /\ Drops' = Drops
          /\ lastRead' = lastRead
      BY <1>7
         DEF ServiceTest, ServiceMask, ServiceRearm, ReadTest, ReadLoad, GetMask,
             GetDone, ClearMask, Restore, Mask, TransferKept, RingKept,
             asyncVars, ringVars, hwVars, taskRest, Drops
    <2> QED
      BY <1>1, <2>1, <2>2, Still DEF Calm
  <1> QED
    BY Zenon, <1>3, <1>4, <1>5, <1>6, <1>7
       DEF RingStep, CleanFlush, Flush, Read, Status

-----------------------------------------------------------------------------
LEMMA RouterNext ==
    ASSUME ReadyInHandler, AsyncInv, RouteInv, [AsyncNext]_avars
    PROVE  RouterStep \/ Wiped
  <1>1. CASE TxCallbackAbort
    BY <1>1, AbortRoute DEF TxCallbackAbort, AbortBy
  <1>2. CASE UNCHANGED avars
    <2>1. SameHands
      BY <1>2, RingPlaces DEF AsyncInv
    <2>2. Calm /\ TransferKept /\ RingKept /\ fifo' = fifo /\ Drops' = Drops
      BY <1>2 DEF avars, vars, hwVars, ringVars, taskLocal, asyncVars, Calm,
                  Flushing, TransferKept, RingKept, Drops
    <2> QED
      BY <2>1, <2>2, Still
  <1> QED
    BY Zenon, <1>1, <1>2, LineRoute, HandlerRoute, DrainRoute, CallbackRoute,
       RingCallRoute, RingStepRoute, AsyncCallRoute DEF AsyncNext

LEMMA RouterInit == AsyncInit => RouteInv /\ Router!Init
  <1> SUFFICES ASSUME AsyncInit PROVE RouteInv /\ Router!Init
    OBVIOUS
  <1>1. /\ fifo = <<>> /\ stored = <<>> /\ arrived = 0 /\ lastRead = 0
        /\ rx_read_idx = 0 /\ rx_write_idx = 0 /\ rx_status = Zero
        /\ drain_count = 0 /\ rx_async_busy = FALSE /\ clean = FALSE
        /\ rx_ring = [i \in 0 .. RingSize - 1 |-> 0]
        /\ \A c \in Ctx : pc[c] = "idle" /\ held[c] = 0
    BY DEF AsyncInit, Init, HwInit
  <1>2. RingTyped /\ CountersTyped
    <2>1. RingSize \in Nat /\ RingSize > 1 /\ MaxArrivals \in Nat
      BY RingSizeType, ArrivalAssumption DEF ArrivalAssumption
    <2> QED
      BY <1>1, <2>1 DEF RingTyped, CountersTyped, Zero
  <1>3. ArrivedSafe
    <2>1. Len(fifo) = 0 /\ Len(stored) = 0
      BY <1>1
    <2> QED
      BY <1>1, <2>1 DEF ArrivedSafe
  <1>4. LoadedSafe /\ ReadSafe /\ FlushedRing /\ QuietSafe /\ CleanSafe
    BY <1>1, Contexts DEF LoadedSafe, ReadSafe, FlushedRing, QuietSafe, CleanSafe
  <1>5. Pending = <<>> /\ TakenBytes = <<>>
    BY <1>1, Contexts, NoMore DEF Pending, InHand, TakenBytes, Passing
  <1>6. Buffered = <<>>
    <2>1. Used = 0
      BY <1>1 DEF Used
    <2> QED
      BY <2>1 DEF Buffered
  <1>7. Need = 0 /\ Drops = 0 /\ Flushing = FALSE
    BY <1>1, Contexts DEF Need, Drops, Flushing, Zero, Counters
  <1>8. Router!Init
    BY Zenon, <1>1, <1>5, <1>6, <1>7 DEF Router!Init, Pending, Need, Drops, Flushing
  <1> QED
    BY <1>2, <1>3, <1>4, <1>8 DEF RouteInv

(* Every byte goes, in the order of arrival and once, to the transfer that *)
(* is active when its turn comes, or to the stream when none is, and what  *)
(* is not handed out is counted or flushed; no transfer gets a byte more   *)
(* than it asked for.                                                      *)
THEOREM AsyncImplementsRouter ==
    ASSUME ReadyInHandler, FifoSurvives
    PROVE  AsyncSpec => ImplementsRouter
  <1>1. AsyncInit => RouteInv /\ Router!Init
    BY RouterInit
  <1>2. AsyncInv /\ RouteInv /\ [AsyncNext]_avars => RouteInv'
    BY RouteInvStep
  <1>3. AsyncInv /\ RouteInv /\ [AsyncNext]_avars => [Router!Next]_(Router!rvars)
    BY RouterNext DEF RouterStep, Wiped, FifoSurvives
  <1> QED
    BY <1>1, <1>2, <1>3, AsyncInvariance, PTL
       DEF AsyncSpec, ImplementsRouter, Router!Spec

-----------------------------------------------------------------------------
(* Order, and no byte in two places, by index.  Nothing here is about the  *)
(* receiver: p waits, b is buffered, o was given out, t was taken.         *)
Once(p, b, o, t) ==
    /\ Increasing(p) /\ Increasing(b) /\ Increasing(t)
    /\ Below(b, p) /\ Below(t, p) /\ Below(<<o>>, b) /\ Below(<<o>>, p)
    /\ \A i \in 1 .. Len(t) :
           t[i] # o /\ \A k \in 1 .. Len(b) : t[i] # b[k]

(* u is a stretch of s, from behind its first d.                           *)
Stretch(u, s, d) ==
    \A i \in 1 .. Len(u) : i + d \in 1 .. Len(s) /\ u[i] = s[i + d]

LEMMA Stretches ==
    ASSUME NEW s \in Seq(Nat)
    PROVE  /\ \A j \in 0 .. Len(s) : /\ Stretch(SubSeq(s, 1, j), s, 0)
                                     /\ SubSeq(s, 1, j) \in Seq(Nat)
                                     /\ Len(SubSeq(s, 1, j)) = j
           /\ \A k \in 1 .. Len(s) : Stretch(SubSeq(s, k + 1, Len(s)), s, k)
           /\ s # <<>> => /\ Stretch(Tail(s), s, 1) /\ 1 \in 1 .. Len(s)
                          /\ Head(s) = s[1] /\ s[1] \in Nat
  <1>1. ASSUME NEW j \in 0 .. Len(s)
        PROVE  /\ Stretch(SubSeq(s, 1, j), s, 0)
               /\ SubSeq(s, 1, j) \in Seq(Nat) /\ Len(SubSeq(s, 1, j)) = j
    BY DEF Stretch
  <1>2. ASSUME NEW k \in 1 .. Len(s)
        PROVE  Stretch(SubSeq(s, k + 1, Len(s)), s, k)
    BY DEF Stretch
  <1>3. ASSUME s # <<>>
        PROVE  /\ Stretch(Tail(s), s, 1) /\ 1 \in 1 .. Len(s)
               /\ Head(s) = s[1] /\ s[1] \in Nat
    BY <1>3 DEF Stretch
  <1> QED
    BY <1>1, <1>2, <1>3

LEMMA StretchIncreasing ==
    ASSUME NEW s \in Seq(Nat), NEW u \in Seq(Nat), NEW d \in Nat,
           Stretch(u, s, d), Increasing(s)
    PROVE  Increasing(u)
  BY DEF Stretch, Increasing

LEMMA StretchBelow ==
    ASSUME NEW s \in Seq(Nat), NEW u \in Seq(Nat), NEW d \in Nat,
           Stretch(u, s, d), NEW v \in Seq(Nat)
    PROVE  /\ Below(v, s) => Below(v, u)
           /\ Below(s, v) => Below(u, v)
  BY DEF Stretch, Below

LEMMA OneBelow ==
    ASSUME NEW n \in Nat, NEW s \in Seq(Nat)
    PROVE  /\ Below(<<n>>, s) <=> \A i \in 1 .. Len(s) : n < s[i]
           /\ Below(s, <<n>>) <=> \A i \in 1 .. Len(s) : s[i] < n
  BY DEF Below

(* What leaves the bytes that wait disturbs nothing else.                  *)
LEMMA FewerWait ==
    ASSUME NEW p \in Seq(Nat), NEW b \in Seq(Nat), NEW o \in Nat,
           NEW t \in Seq(Nat), Once(p, b, o, t),
           NEW q \in Seq(Nat), NEW d \in Nat, Stretch(q, p, d)
    PROVE  Once(q, b, o, t)
  <1>1. <<o>> \in Seq(Nat)
    OBVIOUS
  <1> QED
    BY <1>1, StretchIncreasing, StretchBelow DEF Once

LEMMA OneArrives ==
    ASSUME NEW p \in Seq(Nat), NEW b \in Seq(Nat), NEW o \in Nat,
           NEW t \in Seq(Nat), Once(p, b, o, t), NEW n \in Nat, o < n,
           Below(b, <<n>>), Below(p, <<n>>), Below(t, <<n>>)
    PROVE  Once(Append(p, n), b, o, t)
  <1> DEFINE q == Append(p, n)
  <1>1. /\ Increasing(q)
        /\ \A k \in 1 .. Len(q) : q[k] = n \/ (k \in 1 .. Len(p) /\ q[k] = p[k])
    BY AppendIncreasing, OneBelow DEF Once, Increasing
  <1> HIDE DEF q
  <1>2. ASSUME NEW s \in Seq(Nat), Below(s, p), Below(s, <<n>>)
        PROVE  Below(s, q)
    <2>1. \A i \in 1 .. Len(s) : s[i] < n
      BY <1>2, OneBelow
    <2> QED
      BY <1>1, <1>2, <2>1 DEF Below
  <1>3. <<o>> \in Seq(Nat) /\ Below(<<o>>, <<n>>)
    BY DEF Below
  <1> QED
    BY <1>1, <1>2, <1>3 DEF Once, q

LEMMA OneTaken ==
    ASSUME NEW p \in Seq(Nat), NEW b \in Seq(Nat), NEW o \in Nat,
           NEW t \in Seq(Nat), Once(p, b, o, t), p # <<>>
    PROVE  Once(Tail(p), b, o, Append(t, Head(p)))
  <1> DEFINE q == Tail(p)
             n == Head(p)
             u == Append(t, n)
  <1>1. /\ Stretch(q, p, 1) /\ n = p[1] /\ 1 \in 1 .. Len(p) /\ n \in Nat
        /\ q \in Seq(Nat) /\ u \in Seq(Nat)
    BY Stretches
  <1>2. Once(q, b, o, t)
    BY <1>1, FewerWait
  <1>3. /\ \A i \in 1 .. Len(t) : t[i] < n
        /\ \A i \in 1 .. Len(b) : b[i] < n
        /\ o < n
        /\ \A i \in 1 .. Len(q) : n < q[i]
    <2>1. Increasing(p) /\ Below(t, p) /\ Below(b, p) /\ Below(<<o>>, p)
      BY DEF Once
    <2>2. \A i \in 1 .. Len(q) : n < q[i]
      BY <1>1, <2>1 DEF Stretch, Increasing
    <2> HIDE DEF q, n, u
    <2>3. \A i \in 1 .. Len(p) : o < p[i]
      BY <2>1, OneBelow
    <2> QED
      BY <1>1, <2>1, <2>2, <2>3 DEF Below
  <1>4. /\ Increasing(u)
        /\ \A k \in 1 .. Len(u) : u[k] = n \/ (k \in 1 .. Len(t) /\ u[k] = t[k])
    BY <1>1, <1>2, <1>3, AppendIncreasing DEF Once, Increasing
  <1> HIDE DEF q, n, u
  <1>5. Below(u, q)
    BY <1>2, <1>3, <1>4 DEF Once, Below
  <1>6. \A i \in 1 .. Len(u) : u[i] # o /\ \A k \in 1 .. Len(b) : u[i] # b[k]
    <2>1. n # o /\ \A k \in 1 .. Len(b) : b[k] \in Nat /\ n # b[k]
      BY SMTT(30), <1>1, <1>3
    <2>2. \A i \in 1 .. Len(t) : t[i] # o /\ \A k \in 1 .. Len(b) : t[i] # b[k]
      BY DEF Once
    <2> QED
      BY <1>4, <2>1, <2>2
  <1> QED
    BY <1>2, <1>4, <1>5, <1>6 DEF Once, q, n, u

LEMMA SomeBuffered ==
    ASSUME NEW p \in Seq(Nat), NEW b \in Seq(Nat), NEW o \in Nat,
           NEW t \in Seq(Nat), Once(p, b, o, t),
           NEW k \in 1 .. Len(p), NEW j \in 0 .. k
    PROVE  Once(SubSeq(p, k + 1, Len(p)), b \o SubSeq(p, 1, j), o, t)
  <1> DEFINE q == SubSeq(p, k + 1, Len(p))
             u == SubSeq(p, 1, j)
             c == b \o u
  <1>1. /\ Stretch(q, p, k) /\ Stretch(u, p, 0) /\ Len(u) = j
        /\ q \in Seq(Nat) /\ u \in Seq(Nat) /\ c \in Seq(Nat)
    BY Stretches
  <1>2. \A i \in 1 .. Len(c) : \/ i \in 1 .. Len(b) /\ c[i] = b[i]
                               \/ i - Len(b) \in 1 .. Len(u) /\ c[i] = u[i - Len(b)]
    BY <1>1, ConcatIndex
  <1> HIDE DEF q, u
  <1>3. Once(q, b, o, t)
    BY <1>1, FewerWait
  <1>4. Increasing(p) /\ Below(t, p) /\ Below(b, p) /\ Below(<<o>>, p)
    BY DEF Once
  <1>5. Increasing(u) /\ Below(b, u) /\ Below(t, u) /\ Below(<<o>>, u)
    <2>1. <<o>> \in Seq(Nat)
      OBVIOUS
    <2> QED
      BY <1>1, <1>4, <2>1, StretchIncreasing, StretchBelow
  <1>6. Increasing(c)
    BY <1>1, <1>3, <1>5, ConcatIncreasing DEF Once
  <1>7. Below(u, q)
    <2>1. ASSUME NEW i \in 1 .. Len(u), NEW l \in 1 .. Len(q) PROVE u[i] < q[l]
      <3>1. i + 0 \in 1 .. Len(p) /\ u[i] = p[i + 0]
        BY <1>1 DEF Stretch
      <3>2. l + k \in 1 .. Len(p) /\ q[l] = p[l + k]
        BY <1>1 DEF Stretch
      <3>3. Len(u) = j
        BY <1>1
      <3>4. j \in Nat /\ k \in Nat /\ j <= k
        OBVIOUS
      <3>5. i + 0 = i /\ i < l + k
        BY <3>3, <3>4
      <3> QED
        BY <1>4, <3>1, <3>2, <3>5 DEF Increasing
    <2> QED
      BY <2>1 DEF Below
  <1>8. Below(c, q)
    BY <1>1, <1>3, <1>7, ConcatBelow DEF Once
  <1> HIDE DEF c
  <1>9. Below(<<o>>, c)
    <2>1. /\ \A i \in 1 .. Len(b) : o < b[i]
          /\ \A i \in 1 .. Len(u) : o < u[i]
      BY <1>1, <1>3, <1>5, OneBelow DEF Once
    <2> QED
      BY <1>1, <1>2, <2>1, OneBelow
  <1>10. \A i \in 1 .. Len(t) : t[i] # o /\ \A l \in 1 .. Len(c) : t[i] # c[l]
    <2>1. ASSUME NEW i \in 1 .. Len(t), NEW l \in 1 .. Len(c) PROVE t[i] # c[l]
      <3>1. CASE l \in 1 .. Len(b) /\ c[l] = b[l]
        BY <1>3, <2>1, <3>1 DEF Once
      <3>2. CASE l - Len(b) \in 1 .. Len(u) /\ c[l] = u[l - Len(b)]
        <4>1. t[i] < u[l - Len(b)]
          BY <1>5, <2>1, <3>2 DEF Below
        <4>2. t[i] \in Nat /\ u[l - Len(b)] \in Nat
          <5>1. \A s \in Seq(Nat) : \A m \in 1 .. Len(s) : s[m] \in Nat
            OBVIOUS
          <5>2. u \in Seq(Nat)
            BY <1>1
          <5> QED
            BY Zenon, <2>1, <3>2, <5>1, <5>2
        <4>3. \A x, y \in Nat : x < y => x # y
          OBVIOUS
        <4> QED
          BY Zenon, <3>2, <4>1, <4>2, <4>3
      <3> QED
        BY <1>2, <2>1, <3>1, <3>2
    <2> QED
      BY <1>3, <2>1 DEF Once
  <1> QED
    BY <1>3, <1>6, <1>8, <1>9, <1>10 DEF Once, q, u, c

LEMMA OneGivenOut ==
    ASSUME NEW p \in Seq(Nat), NEW b \in Seq(Nat), NEW o \in Nat,
           NEW t \in Seq(Nat), Once(p, b, o, t), b # <<>>
    PROVE  Once(p, Tail(b), Head(b), t)
  <1> DEFINE c == Tail(b)
             n == Head(b)
  <1>1. /\ Stretch(c, b, 1) /\ n = b[1] /\ 1 \in 1 .. Len(b) /\ n \in Nat
        /\ c \in Seq(Nat)
    BY Stretches
  <1> HIDE DEF c, n
  <1>2. Increasing(c) /\ Below(c, p)
    BY <1>1, StretchIncreasing, StretchBelow DEF Once
  <1>3. (\A i \in 1 .. Len(c) : n < c[i]) /\ (\A i \in 1 .. Len(p) : n < p[i])
    BY <1>1 DEF Once, Stretch, Increasing, Below
  <1>4. \A i \in 1 .. Len(t) : t[i] # n /\ \A k \in 1 .. Len(c) : t[i] # c[k]
    BY <1>1 DEF Once, Stretch
  <1> QED
    BY <1>1, <1>2, <1>3, <1>4, OneBelow DEF Once, c, n

LEMMA NoneBuffered ==
    ASSUME NEW p \in Seq(Nat), NEW b \in Seq(Nat), NEW o \in Nat,
           NEW t \in Seq(Nat), Once(p, b, o, t)
    PROVE  Once(p, <<>>, o, t) /\ Once(p, b, o, <<>>) /\ Once(<<>>, b, o, t)
  BY DEF Once, Increasing, Below

-----------------------------------------------------------------------------
(* Every step of the router keeps it, and so does a FIFO that is lost.     *)
OnceTyped ==
    /\ Pending \in Seq(Nat) /\ Buffered \in Seq(Nat) /\ TakenBytes \in Seq(Nat)
    /\ lastRead \in Nat

OnceNow == Once(Pending, Buffered, lastRead, TakenBytes)

LEMMA RouterCases ==
    ASSUME RouterStep
    PROVE  \/ \E n \in Bytes :
                  /\ lastRead < n /\ Router!Older(Buffered, n)
                  /\ Router!Older(Pending, n) /\ Router!Older(TakenBytes, n)
                  /\ Pending' = Append(Pending, n)
                  /\ UNCHANGED <<Buffered, lastRead, TakenBytes>>
           \/ /\ Pending # <<>> /\ TakenBytes' = Append(TakenBytes, Head(Pending))
              /\ Pending' = Tail(Pending) /\ UNCHANGED <<Buffered, lastRead>>
           \/ \E k \in 1 .. Len(Pending) : \E j \in 0 .. k :
                  /\ Buffered' = Buffered \o SubSeq(Pending, 1, j)
                  /\ Pending' = SubSeq(Pending, k + 1, Len(Pending))
                  /\ UNCHANGED <<lastRead, TakenBytes>>
           \/ /\ Buffered # <<>> /\ lastRead' = Head(Buffered)
              /\ Buffered' = Tail(Buffered) /\ UNCHANGED <<Pending, TakenBytes>>
           \/ TakenBytes' = <<>> /\ UNCHANGED <<Pending, Buffered, lastRead>>
           \/ UNCHANGED <<Pending, Buffered, lastRead, TakenBytes>>
           \/ /\ Buffered' = <<>> /\ UNCHANGED <<lastRead, TakenBytes>>
              /\ \/ Pending' = Pending
                 \/ Pending # <<>> /\ Pending' = Tail(Pending)
  <1>1. CASE \E n \in Bytes : Router!Arrive(n)
    BY Zenon, <1>1 DEF Router!Arrive, Pending
  <1>2. CASE \E n \in Requests : Router!Start(n)
    BY Zenon, <1>2 DEF Router!Start, Pending
  <1>3. CASE Router!ToTransfer
    BY Zenon, <1>3 DEF Router!ToTransfer, Pending
  <1>4. CASE Router!ToStream
    BY Zenon, <1>4 DEF Router!ToStream, Pending
  <1>5. CASE Router!Read
    BY Zenon, <1>5 DEF Router!Read, Pending
  <1>6. CASE Router!Abort \/ Router!ResetCount \/ UNCHANGED Router!rvars
    BY Zenon, <1>6 DEF Router!Abort, Router!ResetCount, Router!rvars, Pending
  <1>7. CASE Router!Flush /\ UNCHANGED <<lastRead, TakenBytes>>
    BY <1>7 DEF Router!Flush, Pending
  <1> QED
    BY Zenon, <1>1, <1>2, <1>3, <1>4, <1>5, <1>6, <1>7 DEF RouterStep, Router!Next

LEMMA OnceStep ==
    ASSUME OnceTyped, OnceTyped', OnceNow, RouterStep \/ Wiped
    PROVE  OnceNow'
  <1> USE DEF OnceTyped, OnceNow
  <1>1. CASE \E n \in Bytes :
                 /\ lastRead < n /\ Router!Older(Buffered, n)
                 /\ Router!Older(Pending, n) /\ Router!Older(TakenBytes, n)
                 /\ Pending' = Append(Pending, n)
                 /\ UNCHANGED <<Buffered, lastRead, TakenBytes>>
    <2>1. PICK n \in Bytes :
                 /\ lastRead < n /\ Router!Older(Buffered, n)
                 /\ Router!Older(Pending, n) /\ Router!Older(TakenBytes, n)
                 /\ Pending' = Append(Pending, n)
                 /\ UNCHANGED <<Buffered, lastRead, TakenBytes>>
      BY <1>1
    <2>2. n \in Nat
      BY DEF Bytes
    <2>3. Below(Buffered, <<n>>) /\ Below(Pending, <<n>>) /\ Below(TakenBytes, <<n>>)
      BY <2>1, <2>2, OneBelow DEF Router!Older
    <2> QED
      BY <2>1, <2>2, <2>3, OneArrives
  <1>2. CASE /\ Pending # <<>> /\ TakenBytes' = Append(TakenBytes, Head(Pending))
             /\ Pending' = Tail(Pending) /\ UNCHANGED <<Buffered, lastRead>>
    BY <1>2, OneTaken
  <1>3. CASE \E k \in 1 .. Len(Pending) : \E j \in 0 .. k :
                 /\ Buffered' = Buffered \o SubSeq(Pending, 1, j)
                 /\ Pending' = SubSeq(Pending, k + 1, Len(Pending))
                 /\ UNCHANGED <<lastRead, TakenBytes>>
    BY <1>3, SomeBuffered
  <1>4. CASE /\ Buffered # <<>> /\ lastRead' = Head(Buffered)
             /\ Buffered' = Tail(Buffered) /\ UNCHANGED <<Pending, TakenBytes>>
    BY <1>4, OneGivenOut
  <1>5. CASE TakenBytes' = <<>> /\ UNCHANGED <<Pending, Buffered, lastRead>>
    BY <1>5, NoneBuffered
  <1>6. CASE UNCHANGED <<Pending, Buffered, lastRead, TakenBytes>>
    BY <1>6
  <1>7. CASE /\ Buffered' = <<>> /\ UNCHANGED <<lastRead, TakenBytes>>
             /\ \/ Pending' = Pending
                \/ Pending # <<>> /\ Pending' = Tail(Pending)
    <2>1. Once(Pending', Buffered, lastRead, TakenBytes)
      BY <1>7, Stretches, FewerWait
    <2> QED
      BY <1>7, <2>1, NoneBuffered
  <1>8. CASE Wiped
    BY <1>8, NoneBuffered DEF Wiped
  <1> QED
    BY Zenon, <1>1, <1>2, <1>3, <1>4, <1>5, <1>6, <1>7, <1>8, RouterCases

LEMMA OnceImplies ==
    ASSUME OnceTyped, OnceNow
    PROVE  OnceInOrder
  <1> USE DEF OnceTyped, OnceNow, Once
  <1>1. <<lastRead>> \in Seq(Nat) /\ Increasing(<<lastRead>>)
    BY DEF Increasing
  <1>2. /\ Increasing(<<lastRead>> \o Buffered)
        /\ <<lastRead>> \o Buffered \in Seq(Nat)
    BY <1>1, ConcatIncreasing
  <1>3. Below(<<lastRead>> \o Buffered, Pending)
    BY <1>1, ConcatBelow
  <1>4. Increasing(<<lastRead>> \o Buffered \o Pending)
    BY <1>2, <1>3, ConcatIncreasing
  <1>5. Increasing(TakenBytes \o Pending)
    BY ConcatIncreasing
  <1> QED
    BY <1>4, <1>5 DEF OnceInOrder, Router!OnceInOrder, Router!Increasing, Increasing, Pending

(* Stream and transfer are each in the order of arrival and have no byte   *)
(* in common, whether the FIFO survives the clearing of OERR or not.       *)
THEOREM StreamAndTransfer ==
    ASSUME ReadyInHandler
    PROVE  AsyncSpec => []OnceInOrder
  <1>1. AsyncInit => RouteInv /\ OnceNow
    <2> SUFFICES ASSUME AsyncInit PROVE RouteInv /\ OnceNow
      OBVIOUS
    <2>1. RouteInv /\ Router!Init
      BY RouterInit
    <2>2. Pending = <<>> /\ Buffered = <<>> /\ TakenBytes = <<>>
      BY Zenon, <2>1 DEF Router!Init, Pending
    <2> QED
      BY <2>1, <2>2 DEF OnceNow, Once, Increasing, Below
  <1>2. AsyncInv /\ RouteInv /\ [AsyncNext]_avars => RouteInv'
    BY RouteInvStep
  <1>3. AsyncInv /\ RouteInv => OnceTyped
    <2>1. ASSUME RouteInv PROVE lastRead \in Nat
      BY <2>1 DEF RouteInv, ArrivedSafe
    <2> QED
      BY <2>1, RoutePieces DEF OnceTyped
  <1>4. AsyncInv /\ RouteInv /\ [AsyncNext]_avars => RouterStep \/ Wiped
    BY RouterNext
  <1>5. OnceTyped /\ OnceTyped' /\ OnceNow /\ (RouterStep \/ Wiped) => OnceNow'
    BY OnceStep
  <1>6. OnceTyped /\ OnceNow => OnceInOrder
    BY OnceImplies
  <1> QED
    BY <1>1, <1>2, <1>3, <1>4, <1>5, <1>6, AsyncInvariance, PTL DEF AsyncSpec
=============================================================================
