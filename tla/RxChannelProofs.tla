-------------------------- MODULE RxChannelProofs --------------------------
(***************************************************************************)
(* The ring implements the channel: every step of RxRing is a step of      *)
(* RxChannel or leaves the channel alone, for every ring size, FIFO depth  *)
(* and set of calls, on a part whose FIFO survives the clearing of OERR.   *)
(***************************************************************************)
EXTENDS RxRingProofs

USE FifoAssumption, ArrivalAssumption, RingAssumption
    DEF FifoAssumption, ArrivalAssumption, RingAssumption

(* Clearing OERR must not throw away bytes that are in nobody's count.     *)
FifoSurvives == ClearResetsFifo = FALSE

-----------------------------------------------------------------------------
(* Sequences.                                                              *)

LEMMA NoMore ==
    ASSUME NEW s \in Seq(Nat)
    PROVE  s \o <<>> = s /\ <<>> \o s = s
  OBVIOUS

LEMMA AsFunction ==
    ASSUME NEW s \in Seq(Nat)
    PROVE  s = [i \in 1 .. Len(s) |-> s[i]]
  OBVIOUS

LEMMA MoveHead ==
    ASSUME NEW s \in Seq(Nat), NEW t \in Seq(Nat), t # <<>>
    PROVE  (s \o <<Head(t)>>) \o Tail(t) = s \o t
  <1>1. t \in Seq(Nat) /\ Len(t) > 0 /\ Head(t) = t[1] /\ t[1] \in Nat
    OBVIOUS
  <1>2. Tail(t) \in Seq(Nat) /\ Len(Tail(t)) = Len(t) - 1
        /\ \A i \in 1 .. Len(t) - 1 : Tail(t)[i] = t[i + 1]
    OBVIOUS
  <1> DEFINE u == (s \o <<Head(t)>>) \o Tail(t)
             v == s \o t
  <1>3. u \in Seq(Nat) /\ v \in Seq(Nat) /\ Len(u) = Len(v)
    BY <1>1, <1>2
  <1>4. \A i \in 1 .. Len(u) : u[i] = v[i]
    BY <1>1, <1>2
  <1> QED
    BY SMTT(30), <1>3, <1>4

LEMMA AppendBehind ==
    ASSUME NEW s \in Seq(Nat), NEW t \in Seq(Nat), NEW n \in Nat
    PROVE  s \o Append(t, n) = Append(s \o t, n)
  OBVIOUS

LEMMA TakeFirst ==
    ASSUME NEW s \in Seq(Nat), NEW t \in Seq(Nat), s # <<>>
    PROVE  /\ s \o t # <<>> /\ Head(s \o t) = s[1]
           /\ Tail(s \o t) = Tail(s) \o t
  OBVIOUS

LEMMA DropFront ==
    ASSUME NEW s \in Seq(Nat), NEW t \in Seq(Nat)
    PROVE  SubSeq(s \o t, Len(s) + 1, Len(s \o t)) = t
  OBVIOUS

LEMMA DropFirst ==
    ASSUME NEW t \in Seq(Nat), t # <<>>
    PROVE  /\ 1 \in 1 .. Len(t)
           /\ Tail(t) = SubSeq(t, 2, Len(t))
  OBVIOUS

LEMMA DropMiddle ==
    ASSUME NEW s \in Seq(Nat), NEW t \in Seq(Nat), NEW b \in Nat
    PROVE  LET u == (s \o <<b>>) \o t IN
           /\ Len(s) + 1 \in 1 .. Len(u)
           /\ Channel!RemoveAt(u, Len(s) + 1) = s \o t
  <1> DEFINE u == (s \o <<b>>) \o t
             i == Len(s) + 1
  <1>1. u \in Seq(Nat) /\ Len(u) = Len(s) + 1 + Len(t) /\ i \in 1 .. Len(u)
    OBVIOUS
  <1>2. SubSeq(u, 1, i - 1) = s
    OBVIOUS
  <1>3. SubSeq(u, i + 1, Len(u)) = t
    OBVIOUS
  <1> QED
    BY <1>1, <1>2, <1>3 DEF Channel!RemoveAt
-----------------------------------------------------------------------------
(* Where the bytes are.  A context that drains is alone, so at most one of *)
(* the two hands is full.                                                  *)
Hand(n) == IF n = 0 THEN <<>> ELSE <<n>>

LineUp(b, i, t, f) == b \o Hand(i) \o Hand(t) \o f

LEMMA Lined ==
    /\ InTransit = LineUp(Buffered, held["isr"], held["task"], fifo)
    /\ InTransit' = LineUp(Buffered', held'["isr"], held'["task"], fifo')
  BY DEF InTransit, LineUp, Hand, Held

LEMMA LineEmpty ==
    ASSUME NEW b \in Seq(Nat), NEW f \in Seq(Nat)
    PROVE  LineUp(b, 0, 0, f) = b \o f
  BY NoMore DEF LineUp, Hand

LEMMA LineFull ==
    \A s \in Seq(Nat), f \in Seq(Nat), n \in Nat : n # 0 =>
        /\ LineUp(s, n, 0, f) = (s \o <<n>>) \o f
        /\ LineUp(s, 0, n, f) = (s \o <<n>>) \o f
  <1> SUFFICES ASSUME NEW s \in Seq(Nat), NEW f \in Seq(Nat), NEW n \in Nat, n # 0
               PROVE  /\ LineUp(s, n, 0, f) = (s \o <<n>>) \o f
                      /\ LineUp(s, 0, n, f) = (s \o <<n>>) \o f
    OBVIOUS
  <1>1. s \o <<n>> \in Seq(Nat)
    OBVIOUS
  <1> QED
    BY <1>1, NoMore DEF LineUp, Hand

(* A step that moves no byte.                                              *)
LEMMA RingFrame ==
    ASSUME UNCHANGED <<rx_ring, rx_read_idx, rx_write_idx>>
    PROVE  Buffered' = Buffered
  BY DEF Buffered, Used, Slot

LEMMA TransitFrame ==
    ASSUME UNCHANGED <<rx_ring, rx_read_idx, rx_write_idx, held, fifo>>
    PROVE  InTransit' = InTransit
  BY RingFrame, Lined

LEMMA Pieces ==
    ASSUME TypeOK
    PROVE  Buffered \in Seq(Nat) /\ fifo \in Seq(Nat) /\ Len(Buffered) = Used
  BY PieceTypes

(* What a push and a read do to the buffered bytes.                        *)
LEMMA BufferedType ==
    ASSUME RingTyped
    PROVE  Buffered \in Seq(Nat) /\ Len(Buffered) = Used /\ Used \in Nat
  <1>1. Used \in Nat /\ \A i \in 1 .. Used : i - 1 \in 0 .. Used - 1
    BY UsedSlot, RingSizeType
  <1>2. \A i \in 1 .. Used : rx_ring[Slot(i - 1)] \in Nat
    BY <1>1, UsedSlot DEF RingTyped
  <1> QED
    BY <1>1, <1>2 DEF Buffered

LEMMA BufferedPush ==
    ASSUME RingTyped, NEW b \in Nat, NextIdx(rx_write_idx) # rx_read_idx,
           rx_ring' = [rx_ring EXCEPT ![rx_write_idx] = b],
           rx_write_idx' = NextIdx(rx_write_idx), rx_read_idx' = rx_read_idx
    PROVE  Buffered' = Buffered \o <<b>>
  <1>1. /\ Used' = Used + 1 /\ Slot(Used) = rx_write_idx
        /\ \A i \in 0 .. Used : Slot(i)' = Slot(i)
    BY UsedPush
  <1>2. Buffered' = [i \in 1 .. Used + 1 |-> rx_ring'[Slot(i - 1)']]
    BY <1>1 DEF Buffered
  <1>3. ASSUME NEW i \in 1 .. Used + 1
        PROVE  rx_ring'[Slot(i - 1)'] = (Buffered \o <<b>>)[i]
    <2>1. Used \in Nat /\ i - 1 \in 0 .. Used
      BY BufferedType
    <2>2. Slot(i - 1)' = Slot(i - 1)
      BY <1>1, <2>1
    <2>3. CASE i = Used + 1
      <3>1. rx_ring'[rx_write_idx] = b
        BY RingSizeType DEF RingTyped
      <3>2. (Buffered \o <<b>>)[i] = b
        BY <2>3, BufferedType
      <3>3. i - 1 = Used
        BY <2>1, <2>3
      <3> QED
        BY <1>1, <2>2, <3>1, <3>2, <3>3
    <2>4. CASE i \in 1 .. Used
      <3>1. i - 1 \in 0 .. Used - 1
        BY <2>1, <2>4
      <3>2. Slot(i - 1) \in 0 .. RingSize - 1 /\ Slot(i - 1) # rx_write_idx
        BY <3>1, UsedSlot
      <3>3. rx_ring'[Slot(i - 1)] = rx_ring[Slot(i - 1)]
        BY <3>2 DEF RingTyped
      <3>4. (Buffered \o <<b>>)[i] = Buffered[i]
        BY <2>4, BufferedType
      <3>5. Buffered[i] = rx_ring[Slot(i - 1)]
        BY <2>4 DEF Buffered
      <3> QED
        BY <2>2, <3>3, <3>4, <3>5
    <2>5. i = Used + 1 \/ i \in 1 .. Used
      BY <2>1
    <2> QED
      BY <2>3, <2>4, <2>5
  <1>4. /\ Buffered \o <<b>> \in Seq(Nat)
        /\ Len(Buffered \o <<b>>) = Used + 1
    BY SMTT(30), BufferedType
  <1>5. Buffered \o <<b>> = [i \in 1 .. Used + 1 |-> (Buffered \o <<b>>)[i]]
    BY <1>4
  <1> QED
    BY <1>2, <1>3, <1>5

LEMMA BufferedPop ==
    ASSUME RingTyped, ~RingEmpty, UNCHANGED <<rx_ring, rx_write_idx>>,
           rx_read_idx' = NextIdx(rx_read_idx)
    PROVE  /\ Buffered # <<>>
           /\ Buffered[1] = rx_ring[rx_read_idx]
           /\ Buffered' = Tail(Buffered)
  <1>1. /\ Used \in Nat /\ Used > 0 /\ Slot(0) = rx_read_idx
        /\ Used' = Used - 1 /\ \A i \in 0 .. Used - 2 : Slot(i)' = Slot(i + 1)
    BY UsedSlot, UsedPop, BufferedType
  <1>2. /\ Buffered \in Seq(Nat) /\ Len(Buffered) = Used /\ Buffered # <<>>
        /\ \A i \in 1 .. Used : Buffered[i] = rx_ring[Slot(i - 1)]
    BY <1>1, BufferedType DEF Buffered
  <1>3. Buffered[1] = rx_ring[rx_read_idx]
    BY <1>1, <1>2
  <1>4. Buffered' = [i \in 1 .. Used - 1 |-> rx_ring[Slot(i - 1)']]
    BY <1>1 DEF Buffered
  <1>5. ASSUME NEW i \in 1 .. Used - 1
        PROVE  rx_ring[Slot(i - 1)'] = Tail(Buffered)[i]
    <2>1. i - 1 \in 0 .. Used - 2 /\ i + 1 \in 1 .. Used /\ (i - 1) + 1 = i
      BY <1>1
    <2>2. Slot(i - 1)' = Slot(i)
      BY <1>1, <2>1
    <2>3. Tail(Buffered)[i] = Buffered[i + 1]
      BY <1>1, <1>2
    <2>4. Buffered[i + 1] = rx_ring[Slot(i)]
      BY SMTT(30), <1>2, <2>1
    <2> QED
      BY <2>2, <2>3, <2>4
  <1>6. Tail(Buffered) = [i \in 1 .. Used - 1 |-> Tail(Buffered)[i]]
    <2>1. Tail(Buffered) \in Seq(Nat) /\ Len(Tail(Buffered)) = Used - 1
      BY <1>1, <1>2
    <2>2. \A t \in Seq(Nat) : t = [i \in 1 .. Len(t) |-> t[i]]
      BY AsFunction
    <2> QED
      BY Zenon, <2>1, <2>2
  <1> QED
    BY <1>2, <1>3, <1>4, <1>5, <1>6

(* A byte read from RXREG is in hand.                                      *)
LEMMA TakeTransit ==
    ASSUME TypeOK, MaskedInv, HeldInv, NEW c \in Ctx, Take(c)
    PROVE  InTransit' = InTransit
  <1>1. held["isr"] = 0 /\ held["task"] = 0
    BY OneDrainer DEF Take, HeldInv, Ctx
  <1>2. /\ held' = [held EXCEPT ![c] = Head(fifo)] /\ fifo # <<>>
        /\ fifo' = Tail(fifo)
        /\ UNCHANGED <<rx_ring, rx_read_idx, rx_write_idx>>
    BY DEF Take, URXBE, ReadRXREG, ringVars
  <1>3. Head(fifo) \in Nat /\ Head(fifo) # 0
    BY PopType DEF Bytes, Take
  <1>4. \/ held'["isr"] = Head(fifo) /\ held'["task"] = 0
        \/ held'["isr"] = 0 /\ held'["task"] = Head(fifo)
    BY <1>1, <1>2 DEF TypeOK, Ctx
  <1>5. Buffered' = Buffered
    BY <1>2, RingFrame
  <1>6. Tail(fifo) \in Seq(Nat)
    BY <1>2, Pieces
  <1>7. InTransit' = (Buffered \o <<Head(fifo)>>) \o Tail(fifo)
    <2>1. \/ InTransit' = LineUp(Buffered, Head(fifo), 0, Tail(fifo))
          \/ InTransit' = LineUp(Buffered, 0, Head(fifo), Tail(fifo))
      BY Zenon, <1>2, <1>4, <1>5, Lined
    <2>2. Buffered \in Seq(Nat)
      BY Pieces
    <2>3. CASE InTransit' = LineUp(Buffered, Head(fifo), 0, Tail(fifo))
      BY Zenon, <1>3, <1>6, <2>2, <2>3, LineFull
    <2>4. CASE InTransit' = LineUp(Buffered, 0, Head(fifo), Tail(fifo))
      BY Zenon, <1>3, <1>6, <2>2, <2>4, LineFull
    <2> QED
      BY Zenon, <2>1, <2>3, <2>4
  <1>8. InTransit = Buffered \o fifo
    BY <1>1, Pieces, Lined, LineEmpty
  <1> QED
    BY <1>2, <1>7, <1>8, Pieces, MoveHead

(* A byte pushed is at the end of the ring, or dropped from where it was.  *)
LEMMA PutTransit ==
    ASSUME TypeOK, MaskedInv, HeldInv, NEW c \in Ctx, Put(c)
    PROVE  IF NextIdx(rx_write_idx) = rx_read_idx
           THEN /\ Used + 1 \in 1 .. Len(InTransit)
                /\ InTransit' = Channel!RemoveAt(InTransit, Used + 1)
           ELSE InTransit' = InTransit
  <1> DEFINE b == held[c]
  <1>1. /\ fifo' = fifo /\ held' = [held EXCEPT ![c] = 0] /\ rx_read_idx' = rx_read_idx
    BY DEF Put, hwVars
  <1>2. b \in Nat /\ b # 0
    BY ByteTypes DEF Put, HeldInv
  <1>3. \/ held["isr"] = b /\ held["task"] = 0
        \/ held["isr"] = 0 /\ held["task"] = b
    BY OneDrainer DEF Put, Ctx
  <1>4. held'["isr"] = 0 /\ held'["task"] = 0
    BY <1>1, OneDrainer DEF Put, Ctx, TypeOK
  <1>5. InTransit = (Buffered \o <<b>>) \o fifo
    <2>1. \/ InTransit = LineUp(Buffered, b, 0, fifo)
          \/ InTransit = LineUp(Buffered, 0, b, fifo)
      BY Zenon, <1>3, Lined
    <2>2. Buffered \in Seq(Nat) /\ fifo \in Seq(Nat)
      BY Pieces
    <2> HIDE DEF b
    <2>3. /\ LineUp(Buffered, b, 0, fifo) = (Buffered \o <<b>>) \o fifo
          /\ LineUp(Buffered, 0, b, fifo) = (Buffered \o <<b>>) \o fifo
      BY Zenon, <1>2, <2>2, LineFull
    <2> QED
      BY Zenon, <2>1, <2>3
  <1>6. CASE NextIdx(rx_write_idx) = rx_read_idx
    <2>1. Buffered' = Buffered
      BY <1>1, <1>6, RingFrame DEF Put, RingPush
    <2>2. InTransit' = Buffered \o fifo
      BY <1>1, <1>4, <2>1, Pieces, Lined, LineEmpty
    <2> HIDE DEF b
    <2> QED
      BY <1>2, <1>5, <1>6, <2>2, Pieces, DropMiddle
  <1>7. CASE NextIdx(rx_write_idx) # rx_read_idx
    <2>1. /\ rx_ring' = [rx_ring EXCEPT ![rx_write_idx] = b]
          /\ rx_write_idx' = NextIdx(rx_write_idx)
      BY <1>7 DEF Put, RingPush
    <2>2. Buffered' = Buffered \o <<b>>
      BY <1>1, <1>2, <1>7, <2>1, TypedRing, BufferedPush
    <2>3. InTransit' = (Buffered \o <<b>>) \o fifo
      <3>1. Buffered \o <<b>> \in Seq(Nat)
        BY <1>2, Pieces
      <3> QED
        BY <1>1, <1>4, <2>2, <3>1, Pieces, Lined, LineEmpty
    <2> QED
      BY <1>5, <1>7, <2>3
  <1> QED
    BY <1>6, <1>7

(* A task that is not inside a drain finds both hands empty.               *)
LEMMA HandsFree ==
    ASSUME TypeOK, HeldInv, pc["isr"] = "idle", pc["task"] # "put"
    PROVE  InTransit = Buffered \o fifo /\ held["isr"] = 0 /\ held["task"] = 0
  <1>1. held["isr"] = 0 /\ held["task"] = 0
    BY DEF HeldInv, Ctx
  <1> QED
    BY <1>1, Pieces, Lined, LineEmpty

(* The reader takes the oldest byte.                                       *)
LEMMA ReadTransit ==
    ASSUME TypeOK, MaskedInv, OrderInv, ReadStore
    PROVE  /\ InTransit # <<>>
           /\ lastRead' = Head(InTransit)
           /\ InTransit' = Tail(InTransit)
  <1>1. /\ pc["isr"] = "idle" /\ pc["task"] = "rd_store"
        /\ UNCHANGED <<rx_ring, rx_write_idx, fifo, held>>
    BY DEF ReadStore, TaskAt, hwVars
  <1>2. /\ ~RingEmpty /\ lastRead' = rx_ring[rx_read_idx]
        /\ rx_read_idx' = NextIdx(rx_read_idx)
    BY DEF OrderInv, ReadInv, ReadStore, TaskAt
  <1>3. Buffered # <<>> /\ Buffered[1] = lastRead' /\ Buffered' = Tail(Buffered)
    BY <1>1, <1>2, TypedRing, BufferedPop
  <1>4. InTransit = Buffered \o fifo /\ held["isr"] = 0 /\ held["task"] = 0
    BY <1>1, HandsFree DEF OrderInv
  <1>5. InTransit' = Tail(Buffered) \o fifo
    <2>1. Tail(Buffered) \in Seq(Nat)
      BY <1>3, Pieces
    <2> QED
      BY <1>1, <1>3, <1>4, <2>1, Pieces, Lined, LineEmpty
  <1> QED
    BY <1>3, <1>4, <1>5, Pieces, TakeFirst

(* A byte arrives behind all others.                                       *)
LEMMA ReceiveTransit ==
    ASSUME TypeOK, Receive
    PROVE  InTransit' = Append(InTransit, arrived + 1)
  <1> DEFINE before == Buffered \o Hand(held["isr"]) \o Hand(held["task"])
  <1>1. /\ fifo' = Append(fifo, arrived + 1)
        /\ UNCHANGED <<rx_ring, rx_read_idx, rx_write_idx, held>>
    BY DEF Receive, Accept, ringVars
  <1>2. Buffered' = Buffered
    BY <1>1, RingFrame
  <1>3. \A n \in Nat : Hand(n) \in Seq(Nat)
    BY DEF Hand
  <1>4. before \in Seq(Nat)
    <2>1. Hand(held["isr"]) \in Seq(Nat) /\ Hand(held["task"]) \in Seq(Nat)
      BY <1>3, ByteTypes DEF Ctx
    <2> QED
      BY <2>1, Pieces
  <1>5. InTransit = before \o fifo
    BY Lined DEF LineUp
  <1>6. InTransit' = before \o Append(fifo, arrived + 1)
    BY <1>1, <1>2, Lined DEF LineUp
  <1>7. arrived + 1 \in Nat
    BY ByteTypes
  <1> HIDE DEF before
  <1> QED
    BY <1>4, <1>5, <1>6, <1>7, Pieces, AppendBehind

(* A flush throws away the ring, then the FIFO byte by byte.               *)
LEMMA FlushRingTransit ==
    ASSUME TypeOK, OrderInv, FlushRing
    PROVE  /\ Used \in 0 .. Len(InTransit)
           /\ InTransit' = SubSeq(InTransit, Used + 1, Len(InTransit))
  <1>1. /\ pc["isr"] = "idle" /\ pc["task"] = "flush_ring"
        /\ rx_read_idx' = rx_write_idx
        /\ UNCHANGED <<rx_ring, rx_write_idx, fifo, held>>
    BY DEF FlushRing, TaskAt, hwVars
  <1>2. InTransit = Buffered \o fifo /\ held["isr"] = 0 /\ held["task"] = 0
    BY <1>1, HandsFree DEF OrderInv
  <1>3. Buffered' = <<>>
    <2>1. Used' = 0
      BY <1>1 DEF Used, TypeOK
    <2> QED
      BY <2>1 DEF Buffered
  <1>4. InTransit' = fifo
    <2>1. <<>> \in Seq(Nat)
      OBVIOUS
    <2> QED
      BY <1>1, <1>2, <1>3, <2>1, Pieces, Lined, LineEmpty, NoMore
  <1> QED
    BY SMTT(30), <1>2, <1>4, Pieces, ByteTypes, DropFront

LEMMA FlushFifoTransit ==
    ASSUME TypeOK, HeldInv, RingEmpty, FlushFifo, ~URXBE
    PROVE  /\ 1 \in 1 .. Len(InTransit)
           /\ InTransit' = SubSeq(InTransit, 2, Len(InTransit))
  <1>1. /\ pc["isr"] = "idle" /\ pc["task"] = "flush_fifo"
        /\ fifo # <<>> /\ fifo' = Tail(fifo)
        /\ UNCHANGED <<rx_ring, rx_read_idx, rx_write_idx, held>>
    BY DEF FlushFifo, TaskAt, URXBE, ReadRXREG, taskRest, ringVars
  <1>2. InTransit = Buffered \o fifo /\ held["isr"] = 0 /\ held["task"] = 0
    BY <1>1, HandsFree
  <1>3. Buffered = <<>> /\ Buffered' = Buffered
    <2>1. Used = 0
      BY TypedRing, UsedSlot
    <2> QED
      BY <1>1, <2>1, RingFrame DEF Buffered
  <1>4. Tail(fifo) \in Seq(Nat) /\ <<>> \in Seq(Nat)
    BY <1>1, Pieces
  <1>5. InTransit = fifo /\ InTransit' = Tail(fifo)
    BY <1>1, <1>2, <1>3, <1>4, Pieces, Lined, LineEmpty, NoMore
  <1> QED
    BY <1>1, <1>5, Pieces, DropFirst
-----------------------------------------------------------------------------
(* The drop counter, and the flush.                                        *)
Drops == rx_status.rx_ring_overflow_count

Flushing == pc["task"] \in {"flush_ring", "flush_fifo", "flush_oerr"}

LEMMA OtherCounter ==
    ASSUME NEW s \in [Counters -> Nat], NEW f \in Counters,
           f # "rx_ring_overflow_count", NEW n, NEW flag
    PROVE  /\ Add(s, f, n).rx_ring_overflow_count = s.rx_ring_overflow_count
           /\ Plus1(s, f).rx_ring_overflow_count = s.rx_ring_overflow_count
           /\ RaiseTo(s, f, n).rx_ring_overflow_count = s.rx_ring_overflow_count
           /\ Count(s, f, flag).rx_ring_overflow_count = s.rx_ring_overflow_count
  BY DEF Add, Plus1, RaiseTo, Count, Counters

LEMMA IsrAccountedDrops ==
    ASSUME CountersTyped
    PROVE  IsrAccounted.rx_ring_overflow_count = Drops
  <1> DEFINE s1 == Add(rx_status, "rx_byte_count", drain_count)
             s2 == RaiseTo(s1, "rx_max_drain_count", drain_count)
             s3 == Count(s2, "rx_fifo_overflow_count", oerr)
             s4 == Count(s3, "framing_error_count", FERR)
             s5 == Count(s4, "parity_error_count", PERR)
  <1>0. rx_status \in [Counters -> Nat] /\ drain_count \in Nat
    BY DEF CountersTyped
  <1>1. s1 \in [Counters -> Nat] /\ s1.rx_ring_overflow_count = Drops
    BY ZenonT(60), <1>0, AddType, OtherCounter DEF Counters, Drops
  <1> HIDE DEF s1
  <1>2. s2 \in [Counters -> Nat] /\ s2.rx_ring_overflow_count = Drops
    BY <1>0, <1>1, RaiseToType, OtherCounter DEF Counters
  <1> HIDE DEF s2
  <1>3. s3 \in [Counters -> Nat] /\ s3.rx_ring_overflow_count = Drops
    BY <1>2, CountType, OtherCounter DEF Counters
  <1> HIDE DEF s3
  <1>4. s4 \in [Counters -> Nat] /\ s4.rx_ring_overflow_count = Drops
    BY <1>3, CountType, OtherCounter DEF Counters
  <1> HIDE DEF s4
  <1>5. s5.rx_ring_overflow_count = Drops
    BY <1>4, OtherCounter DEF Counters
  <1> QED
    BY <1>5 DEF IsrAccounted, s1, s2, s3, s4, s5

LEMMA ServiceDrops ==
    ASSUME CountersTyped, ServiceAccount
    PROVE  Drops' = Drops
  <1> DEFINE s1 == Count(rx_status, "rx_fifo_overflow_count", oerr)
             s2 == Plus1(s1, "rx_stall_recovery_count")
  <1>0. rx_status \in [Counters -> Nat]
    BY DEF CountersTyped
  <1>1. s1 \in [Counters -> Nat] /\ s1.rx_ring_overflow_count = Drops
    BY <1>0, CountType, OtherCounter DEF Counters, Drops
  <1> HIDE DEF s1
  <1>2. s2 \in [Counters -> Nat] /\ s2.rx_ring_overflow_count = Drops
    BY <1>1, Plus1Type, OtherCounter DEF Counters
  <1> HIDE DEF s2
  <1>3. Count(s2, "rx_ie_lost_count", ~ie).rx_ring_overflow_count = Drops
    BY <1>2, OtherCounter DEF Counters
  <1> QED
    BY <1>3 DEF ServiceAccount, Drops, s1, s2

(* Once a flush has emptied the ring it stays empty until the flush ends.  *)
FlushedRing == pc["task"] \in {"flush_fifo", "flush_oerr"} => RingEmpty

LEMMA FlushedStep ==
    ASSUME TypeOK, MaskedInv, FlushedRing, [Next]_vars
    PROVE  FlushedRing'
  <1> USE DEF FlushedRing, RingEmpty, Goto, TaskAt
  <1>1. pc \in [Ctx -> TaskLabels] /\ "isr" \in Ctx /\ "task" \in Ctx
    BY DEF TypeOK, Ctx
  <1>2. ASSUME Take("isr") \/ Put("isr") \/ Drained("isr") \/ IsrEnter \/ IsrAccount
        PROVE  FlushedRing'
    BY <1>1, <1>2 DEF Take, Put, Drained, IsrEnter, IsrAccount, MaskedInv, Masked
  <1>3. ASSUME Take("task") \/ Put("task") \/ Drained("task") PROVE FlushedRing'
    BY <1>1, <1>3 DEF Take, Put, Drained
  <1>4. ASSUME Environment \/ UNCHANGED vars PROVE FlushedRing'
    BY <1>4 DEF Environment, Receive, Lose, LoseEnable, vars, ringVars
  <1>5. ASSUME ServiceTest \/ ServiceMask \/ ServiceAccount \/ ServiceRearm \/ Read
        PROVE  FlushedRing'
    BY <1>1, <1>5 DEF ServiceTest, ServiceMask, ServiceAccount, ServiceRearm,
                      AfterService, Read, ReadTest, ReadLoad, ReadStore, Mask
  <1>6. ASSUME Flush PROVE FlushedRing'
    BY <1>1, <1>6 DEF Flush, FlushMask, FlushRing, FlushFifo, FlushOerr, Mask,
                      taskRest, ringVars
  <1>7. ASSUME Status \/ Restore PROVE FlushedRing'
    BY <1>1, <1>7 DEF Status, GetMask, GetDone, ClearMask, ClearDone, Restore, Mask
  <1>8. ASSUME Call PROVE FlushedRing'
    BY <1>1, <1>8 DEF Call, CallReady, CallRead, CallService, CallFlush, CallGet,
                      CallClear, CallEnable, CallDisable, Begin, SetEnable
  <1> QED
    BY Zenon, <1>2, <1>3, <1>4, <1>5, <1>6, <1>7, <1>8
       DEF Next, Isr, TaskStep, Service
-----------------------------------------------------------------------------
(* Step by step.                                                           *)
ChannelStep == [Channel!Next]_(Channel!cvars)

LEMMA Stutter ==
    ASSUME InTransit' = InTransit, lastRead' = lastRead, Drops' = Drops,
           Flushing' <=> Flushing
    PROVE  ChannelStep
  <1>1. Flushing' = Flushing
    BY DEF Flushing
  <1> QED
    BY Zenon, <1>1 DEF ChannelStep, Channel!cvars, Drops, Flushing

(* A step that moves no byte, counts no drop and neither begins nor ends a *)
(* flush.                                                                  *)
LEMMA QuietStutter ==
    ASSUME UNCHANGED <<rx_ring, rx_read_idx, rx_write_idx, held, fifo, lastRead>>,
           Drops' = Drops, Flushing' <=> Flushing
    PROVE  ChannelStep
  BY TransitFrame, Stutter

LEMMA ReceiveStep ==
    ASSUME TypeOK, OrderInv, InOrder', Receive
    PROVE  ChannelStep
  <1> DEFINE n == arrived + 1
  <1>1. InTransit' = Append(InTransit, n)
    BY ReceiveTransit
  <1>2. /\ n \in Bytes /\ n \in Nat
        /\ UNCHANGED <<lastRead, rx_status, pc>>
    BY DEF Receive, Accept, taskLocal, Bytes, TypeOK, HwTypeOK
  <1>3. InTransit \in Seq(Nat)
    <2>1. \A m \in Nat : Hand(m) \in Seq(Nat)
      BY DEF Hand
    <2>2. Hand(held["isr"]) \in Seq(Nat) /\ Hand(held["task"]) \in Seq(Nat)
      BY <2>1, ByteTypes DEF Ctx
    <2> QED
      BY <2>2, Pieces, Lined DEF LineUp
  <1>4. n > Channel!Newest
    <2>1. CASE InTransit = <<>>
      <3>1. Channel!Newest = lastRead
        BY <2>1 DEF Channel!Newest
      <3> QED
        BY <3>1, ByteTypes DEF OrderInv
    <2>2. CASE InTransit # <<>>
      <3>1. Channel!Newest = InTransit[Len(InTransit)]
        BY <2>2 DEF Channel!Newest, Channel!Last
      <3>2. \A i, j \in 1 .. Len(<<lastRead>> \o Append(InTransit, n)) : i < j =>
               (<<lastRead>> \o Append(InTransit, n))[i]
                 < (<<lastRead>> \o Append(InTransit, n))[j]
        BY <1>1, <1>2 DEF InOrder, Increasing
      <3>3. LET u == <<lastRead>> \o Append(InTransit, n) IN
              /\ Len(u) = Len(InTransit) + 2 /\ Len(InTransit) > 0
              /\ u[Len(InTransit) + 1] = InTransit[Len(InTransit)]
              /\ u[Len(InTransit) + 2] = n
        BY <1>2, <1>3, <2>2, ByteTypes
      <3>4. InTransit[Len(InTransit)] < n
        <4> DEFINE u == <<lastRead>> \o Append(InTransit, n)
                   k == Len(InTransit)
        <4>1. k \in Nat /\ k + 1 \in 1 .. Len(u) /\ k + 2 \in 1 .. Len(u) /\ k + 1 < k + 2
          BY <1>3, <3>3
        <4> HIDE DEF u, k
        <4>2. u[k + 1] < u[k + 2]
          BY <3>2, <4>1 DEF u
        <4> QED
          BY <3>3, <4>2 DEF u, k
      <3>5. InTransit[Len(InTransit)] \in Nat
        BY <1>3, <2>2
      <3> QED
        BY <1>2, <3>1, <3>4, <3>5
    <2> QED
      BY <2>1, <2>2
  <1>5. Channel!Arrive(n)
    BY <1>1, <1>2, <1>4 DEF Channel!Arrive
  <1> QED
    BY Zenon, <1>2, <1>5 DEF ChannelStep, Channel!Next

LEMMA PutStep ==
    ASSUME TypeOK, MaskedInv, HeldInv, NEW c \in Ctx, Put(c)
    PROVE  ChannelStep
  <1>1. /\ lastRead' = lastRead /\ pc[c] = "put" /\ pc' = [pc EXCEPT ![c] = "drain"]
    BY DEF Put, Goto, taskLocal
  <1>2. ~Flushing /\ ~Flushing'
    BY <1>1, Zenon DEF Flushing, MaskedInv, Masked, Ctx, TypeOK
  <1>3. CASE NextIdx(rx_write_idx) = rx_read_idx
    <2>1. /\ Used + 1 \in 1 .. Len(InTransit)
          /\ InTransit' = Channel!RemoveAt(InTransit, Used + 1)
      BY <1>3, PutTransit
    <2>2. Drops' = Drops + 1
      BY <1>3 DEF Put, RingPush, Plus1, Add, Drops, TypeOK, Counters
    <2>3. \E i \in 1 .. Len(InTransit) : InTransit' = Channel!RemoveAt(InTransit, i)
      BY <2>1
    <2>4. Flushing' = Flushing
      BY <1>2 DEF Flushing
    <2>5. Channel!Drop
      BY Zenon, <1>1, <1>2, <2>2, <2>3, <2>4 DEF Channel!Drop, Drops, Flushing
    <2> QED
      BY Zenon, <2>5 DEF ChannelStep, Channel!Next
  <1>4. CASE NextIdx(rx_write_idx) # rx_read_idx
    <2>1. InTransit' = InTransit
      BY <1>4, PutTransit
    <2>2. Drops' = Drops
      BY <1>4 DEF Put, RingPush, Drops
    <2> QED
      BY <1>1, <1>2, <2>1, <2>2, Stutter
  <1> QED
    BY <1>3, <1>4

LEMMA FlushStep ==
    ASSUME FifoSurvives, TypeOK, OrderInv, FlushedRing, Flush
    PROVE  ChannelStep
  <1> USE DEF TaskAt, Goto
  <1>0. pc \in [Ctx -> TaskLabels] /\ "task" \in Ctx
    BY DEF TypeOK, Ctx
  <1>1. lastRead' = lastRead /\ Drops' = Drops
    BY DEF Flush, FlushMask, FlushRing, FlushFifo, FlushOerr, Mask, taskRest,
           taskLocal, Drops
  <1>2. CASE FlushMask
    <2>1. InTransit' = InTransit
      BY <1>2, TransitFrame DEF FlushMask, Mask, taskRest, ringVars
    <2>2. ~Flushing /\ Flushing'
      BY <1>0, <1>2 DEF FlushMask, Mask, Flushing
    <2>3. Channel!BeginFlush
      BY Zenon, <1>1, <2>1, <2>2 DEF Channel!BeginFlush, Drops, Flushing
    <2> QED
      BY Zenon, <2>3 DEF ChannelStep, Channel!Next
  <1>3. CASE FlushRing
    <2>1. /\ Used \in 0 .. Len(InTransit)
          /\ InTransit' = SubSeq(InTransit, Used + 1, Len(InTransit))
      BY <1>3, FlushRingTransit
    <2>2. Flushing /\ Flushing'
      BY <1>0, <1>3 DEF FlushRing, Flushing
    <2>3. CASE Used = 0
      <3>1. InTransit' = InTransit
        <4>1. RingEmpty /\ rx_read_idx' = rx_read_idx
          BY <1>3, <2>3, TypedRing, UsedSlot DEF FlushRing, RingEmpty
        <4> QED
          BY <1>3, <4>1, TransitFrame DEF FlushRing, hwVars
      <3> QED
        BY <1>1, <2>2, <3>1, Stutter
    <2>4. CASE Used # 0
      <3>1. \E k \in 1 .. Len(InTransit) :
               InTransit' = SubSeq(InTransit, k + 1, Len(InTransit))
        BY <2>1, <2>4
      <3>2. Channel!Discard
        BY Zenon, <1>1, <2>2, <3>1 DEF Channel!Discard, Drops, Flushing
      <3> QED
        BY Zenon, <3>2 DEF ChannelStep, Channel!Next
    <2> QED
      BY <2>3, <2>4
  <1>4. CASE FlushFifo
    <2>1. Flushing /\ Flushing'
      BY <1>0, <1>4 DEF FlushFifo, Flushing
    <2>2. CASE URXBE
      <3>1. InTransit' = InTransit
        BY <1>4, <2>2, TransitFrame DEF FlushFifo, taskRest, ringVars
      <3> QED
        BY <1>1, <2>1, <3>1, Stutter
    <2>3. CASE ~URXBE
      <3>1. RingEmpty
        BY <1>4 DEF FlushFifo, FlushedRing
      <3>2. /\ 1 \in 1 .. Len(InTransit)
            /\ InTransit' = SubSeq(InTransit, 2, Len(InTransit))
        BY <1>4, <2>3, <3>1, FlushFifoTransit DEF OrderInv
      <3>3. \E k \in 1 .. Len(InTransit) :
               InTransit' = SubSeq(InTransit, k + 1, Len(InTransit))
        <4>1. 1 + 1 = 2
          OBVIOUS
        <4> QED
          BY Zenon, <3>2, <4>1
      <3>4. Channel!Discard
        BY Zenon, <1>1, <2>1, <3>3 DEF Channel!Discard, Drops, Flushing
      <3> QED
        BY Zenon, <3>4 DEF ChannelStep, Channel!Next
    <2> QED
      BY <2>2, <2>3
  <1>5. CASE FlushOerr
    <2>1. InTransit' = InTransit
      BY <1>5, TransitFrame DEF FlushOerr, ClearOERR, FifoSurvives, taskRest, ringVars
    <2>2. Flushing /\ ~Flushing'
      BY <1>0, <1>5 DEF FlushOerr, Flushing
    <2>3. Flushing' = FALSE
      BY <2>2 DEF Flushing
    <2>4. Channel!EndFlush
      BY Zenon, <1>1, <2>1, <2>2, <2>3 DEF Channel!EndFlush, Drops, Flushing
    <2> QED
      BY Zenon, <2>4 DEF ChannelStep, Channel!Next
  <1> QED
    BY Zenon, <1>2, <1>3, <1>4, <1>5 DEF Flush

LEMMA ChannelNext ==
    ASSUME FifoSurvives, TypeOK, MaskedInv, OrderInv, FlushedRing, InOrder', [Next]_vars
    PROVE  ChannelStep
  <1> USE DEF TaskAt, Goto
  <1>0. pc \in [Ctx -> TaskLabels] /\ "task" \in Ctx /\ "isr" \in Ctx /\ HeldInv
    BY DEF TypeOK, Ctx, OrderInv
  <1>1. CASE Receive
    BY <1>1, ReceiveStep
  <1>2. CASE Lose \/ LoseEnable \/ UNCHANGED vars
    BY <1>2, QuietStutter DEF Lose, Overrun, LoseEnable, vars, hwVars, ringVars,
                              taskLocal, Drops, Flushing
  <1>3. ASSUME NEW c \in Ctx, Take(c) PROVE ChannelStep
    <2>1. InTransit' = InTransit
      BY <1>0, <1>3, TakeTransit
    <2>2. lastRead' = lastRead /\ Drops' = Drops /\ (Flushing' <=> Flushing)
      BY <1>0, <1>3 DEF Take, taskLocal, Drops, Flushing
    <2> QED
      BY <2>1, <2>2, Stutter
  <1>4. ASSUME NEW c \in Ctx, Put(c) PROVE ChannelStep
    BY <1>0, <1>4, PutStep
  <1>5. ASSUME NEW c \in Ctx, Drained(c) PROVE ChannelStep
    BY <1>0, <1>5, QuietStutter DEF Drained, hwVars, ringVars, taskLocal, Drops,
                                    Flushing
  <1>6. CASE IsrEnter
    <2>1. Drops' = Drops
      BY <1>6, OtherCounter DEF IsrEnter, Drops, TypeOK, Counters
    <2> QED
      BY <1>0, <1>6, <2>1, QuietStutter DEF IsrEnter, hwVars, ringVars, taskLocal,
                                            Flushing
  <1>7. CASE IsrAccount
    <2>1. Drops' = Drops
      BY <1>7, TypedCounters, IsrAccountedDrops DEF IsrAccount, Drops
    <2>2. fifo' = fifo
      BY <1>7 DEF IsrAccount, ClearOERR, FifoSurvives
    <2> QED
      BY <1>0, <1>7, <2>1, <2>2, QuietStutter DEF IsrAccount, ringVars, taskLocal,
                                                  Flushing
  <1>8. CASE ServiceAccount
    <2>1. Drops' = Drops
      BY <1>8, TypedCounters, ServiceDrops
    <2>2. fifo' = fifo
      BY <1>8 DEF ServiceAccount, ClearOERR, FifoSurvives
    <2> QED
      BY <1>0, <1>8, <2>1, <2>2, QuietStutter DEF ServiceAccount, taskRest, ringVars,
                                                  Flushing
  <1>9. CASE ServiceTest \/ ServiceMask \/ ServiceRearm
    BY <1>0, <1>9, QuietStutter
       DEF ServiceTest, ServiceMask, ServiceRearm, AfterService, Mask, taskRest,
           ringVars, Drops, Flushing
  <1>10. CASE ReadTest \/ ReadLoad
    BY <1>0, <1>10, QuietStutter
       DEF ReadTest, ReadLoad, taskRest, hwVars, ringVars, Drops, Flushing
  <1>11. CASE ReadStore
    <2>1. /\ InTransit # <<>> /\ lastRead' = Head(InTransit)
          /\ InTransit' = Tail(InTransit)
      BY <1>11, ReadTransit
    <2>2. /\ ~Flushing /\ ~Flushing' /\ Drops' = Drops
      BY <1>0, <1>11 DEF ReadStore, Flushing, Drops
    <2>3. Flushing' = Flushing
      BY <2>2 DEF Flushing
    <2>4. Channel!Deliver
      BY Zenon, <2>1, <2>2, <2>3 DEF Channel!Deliver, Drops, Flushing
    <2> QED
      BY Zenon, <2>4 DEF ChannelStep, Channel!Next
  <1>12. CASE Flush
    BY <1>12, FlushStep
  <1>13. CASE GetMask \/ GetDone \/ ClearMask \/ Restore
    BY <1>0, <1>13, QuietStutter
       DEF GetMask, GetDone, ClearMask, Restore, Mask, taskRest, ringVars, Drops,
           Flushing
  <1>14. CASE ClearDone
    <2>1. InTransit' = InTransit /\ lastRead' = lastRead
      BY <1>14, TransitFrame DEF ClearDone, taskRest, ringVars
    <2>2. /\ ~Flushing /\ ~Flushing' /\ Drops' = 0
      BY <1>0, <1>14 DEF ClearDone, Flushing, Drops, Zero, Counters
    <2>3. Flushing' = Flushing
      BY <2>2 DEF Flushing
    <2>4. Channel!ResetCount
      BY Zenon, <2>1, <2>2, <2>3 DEF Channel!ResetCount, Drops, Flushing
    <2> QED
      BY Zenon, <2>4 DEF ChannelStep, Channel!Next
  <1>15. CASE Call
    BY <1>0, <1>15, QuietStutter
       DEF Call, CallReady, CallRead, CallService, CallFlush, CallGet, CallClear,
           CallEnable, CallDisable, Begin, SetEnable, taskRest, ringVars, Drops,
           Flushing
  <1> QED
    BY Zenon, <1>0, <1>1, <1>2, <1>3, <1>4, <1>5, <1>6, <1>7, <1>8, <1>9, <1>10,
       <1>11, <1>12, <1>13, <1>14, <1>15
       DEF Next, Environment, Isr, TaskStep, Service, Read, Status

LEMMA ChannelInit == Init => Channel!Init
  <1> SUFFICES ASSUME Init PROVE Channel!Init
    OBVIOUS
  <1>1. TypeOK /\ Used = 0 /\ fifo = <<>> /\ held["isr"] = 0 /\ held["task"] = 0
    BY InitType DEF Init, HwInit, Used, Ctx
  <1>2. Buffered = <<>>
    BY <1>1 DEF Buffered
  <1>3. InTransit = <<>>
    BY <1>1, <1>2, Pieces, Lined, LineEmpty, NoMore
  <1>4. lastRead = 0 /\ rx_status.rx_ring_overflow_count = 0
    BY DEF Init, Zero, Counters
  <1>5. (pc["task"] \in {"flush_ring", "flush_fifo", "flush_oerr"}) = FALSE
    BY DEF Init, Ctx
  <1> QED
    BY Zenon, <1>3, <1>4, <1>5 DEF Channel!Init

(* Every accepted byte is handed out in order, dropped and counted, or     *)
(* discarded by a flush: nothing is lost silently between the FIFO and the *)
(* reader.                                                                 *)
THEOREM RingIsChannel ==
    ASSUME FifoSurvives
    PROVE  Spec => ImplementsChannel
  <1>1. Init => TypeOK /\ MaskedInv /\ OrderInv /\ FlushedRing /\ Channel!Init
    BY InitType, MaskedInit, OrderInit, ChannelInit DEF Init, FlushedRing, Ctx
  <1>2. TypeOK /\ MaskedInv /\ OrderInv /\ FlushedRing /\ [Next]_vars
          => (TypeOK /\ MaskedInv /\ OrderInv /\ FlushedRing)'
    <2> SUFFICES ASSUME TypeOK, MaskedInv, OrderInv, FlushedRing, [Next]_vars
                 PROVE  (TypeOK /\ MaskedInv /\ OrderInv /\ FlushedRing)'
      OBVIOUS
    <2>1. HeldInv' /\ ReadInv'
      BY HeldStep, ReadStep DEF OrderInv
    <2> QED
      BY <2>1, TypeStep, MaskedStep, OrdersStep, FlushedStep DEF OrderInv
  <1>3. TypeOK /\ MaskedInv /\ OrderInv /\ FlushedRing /\ InOrder' /\ [Next]_vars
          => [Channel!Next]_(Channel!cvars)
    BY ChannelNext DEF ChannelStep
  <1>4. Spec => []InOrder
    BY ArrivalOrder
  <1> QED
    BY <1>1, <1>2, <1>3, <1>4, PTL DEF Spec, ImplementsChannel, Channel!Spec
=============================================================================
