---------------------------- MODULE RxPollProofs ----------------------------
(***************************************************************************)
(* Proofs about RxPoll: types, the account of all bytes, that a read after *)
(* rx_ready() said true never hands out an errored byte, and that no byte  *)
(* is lost uncounted, for every FIFO depth, every bound and every set of   *)
(* errored bytes.                                                          *)
(***************************************************************************)
EXTENDS RxPoll, SequenceTheorems, TLAPS

(* The invariant.  Fifo and Data are the types; Balance bounds what is     *)
(* counted by what was accepted, and recoveries by what was lost: each     *)
(* needs a character of its own; Asked is what a read knows of the head of *)
(* the FIFO when rx_ready() has said true.                                 *)
FifoOK == fifo \in Seq(Bytes) /\ Len(fifo) <= FifoDepth

Data ==
    /\ arrived \in 0 .. MaxArrivals
    /\ rx_overrun_recovered \in Nat
    /\ rx_byte_polled \in Nat
    /\ rx_framing_polled \in Nat
    /\ rx_parity_polled \in Nat
    /\ accepted \in Nat
    /\ dropped \in Nat
    /\ asked \in BOOLEAN
    /\ pc \in Labels
    /\ lastRead \in 0 .. MaxArrivals

Balance ==
    /\ accepted + rx_overrun_recovered <= arrived
    /\ oerr => accepted + rx_overrun_recovered < arrived

Asked ==
    asked =>
        /\ pc \in {"rd_oerr", "rd_ferr", "rd_perr", "rd_data"} => fifo # <<>>
        /\ pc \in {"rd_perr", "rd_data"} => Head(fifo) \notin Framing
        /\ pc = "rd_data" => Head(fifo) \notin Parity

IInv ==
    /\ oerr \in BOOLEAN
    /\ FifoOK /\ Data /\ Balance /\ Asked /\ StatusAccountsForBytes

-----------------------------------------------------------------------------
(* What reading RXREG, accepting a byte and clearing OERR do to the FIFO.  *)

(* Reading a FIFO that is not empty takes one byte, its head.              *)
LEMMA ReadFifo ==
  ASSUME FifoOK, fifo # <<>>
  PROVE  /\ Tail(fifo) \in Seq(Bytes) /\ Len(Tail(fifo)) = Len(fifo) - 1
         /\ Len(fifo) \in Nat /\ Len(fifo) > 0
         /\ Head(fifo) \in Bytes
  BY HeadTailProperties, LenProperties, EmptySeq DEF FifoOK

(* A byte that is accepted leaves the head of a FIFO as it was.            *)
LEMMA AppendFifo ==
  ASSUME FifoOK, NEW b \in Bytes
  PROVE  /\ Append(fifo, b) \in Seq(Bytes)
         /\ Len(Append(fifo, b)) = Len(fifo) + 1
         /\ Append(fifo, b) # <<>>
         /\ fifo # <<>> => Head(Append(fifo, b)) = Head(fifo)
<1>1. /\ Append(fifo, b) \in Seq(Bytes)
      /\ Len(Append(fifo, b)) = Len(fifo) + 1
      /\ Append(fifo, b) # <<>>
  BY AppendProperties DEF FifoOK
<1>2. ASSUME fifo # <<>> PROVE Append(fifo, b)[1] = fifo[1]
  BY <1>2, AppendProperties, ReadFifo DEF FifoOK
<1>3. Head(Append(fifo, b)) = Append(fifo, b)[1] /\ Head(fifo) = fifo[1]
  OBVIOUS
<1> QED
  BY <1>1, <1>2, <1>3

(* Clearing OERR leaves the FIFO as it is, or empties it.                  *)
LEMMA ClearFifo ==
  ASSUME FifoOK, ClearOERR
  PROVE  /\ FifoOK' /\ ~oerr' /\ oerr' \in BOOLEAN
         /\ Len(fifo') <= Len(fifo) /\ Len(fifo) \in Nat /\ Len(fifo') \in Nat
         /\ ~ClearResetsFifo => fifo' = fifo
<1>1. fifo' = fifo \/ fifo' = <<>>
  BY DEF ClearOERR
<1>2. ~ClearResetsFifo => fifo' = fifo
  BY Zenon DEF ClearOERR
<1>3. ~oerr' /\ oerr' \in BOOLEAN
  BY Zenon DEF ClearOERR
<1>4. <<>> \in Seq(Bytes) /\ Len(<<>>) = 0
  OBVIOUS
<1>5. Len(fifo) \in Nat
  BY LenProperties DEF FifoOK
<1>6. FifoOK' /\ Len(fifo') <= Len(fifo) /\ Len(fifo') \in Nat
  <2>1. CASE fifo' = fifo
    BY <1>5, <2>1 DEF FifoOK
  <2>2. CASE fifo' = <<>>
    BY <1>4, <1>5, <2>2, FifoAssumption DEF FifoOK
  <2> QED
    BY <1>1, <2>1, <2>2
<1> QED
  BY <1>2, <1>3, <1>5, <1>6, Zenon

-----------------------------------------------------------------------------
(* The invariant holds initially.                                          *)
LEMMA InitIInv == Init => IInv
<1> SUFFICES ASSUME Init PROVE IInv
  OBVIOUS
<1>1. oerr \in BOOLEAN /\ ~oerr
  BY Zenon DEF Init, HwInit
<1>2. fifo = <<>> /\ Len(fifo) = 0 /\ FifoOK
  BY FifoAssumption DEF Init, HwInit, FifoOK
<1>3. Data
  <2>1. asked \in BOOLEAN
    BY Zenon DEF Init
  <2> QED
    BY <2>1, ArrivalAssumption DEF Init, HwInit, Data, Labels
<1>4. Balance /\ StatusAccountsForBytes
  BY <1>1, <1>2 DEF Init, HwInit, Balance, RxStatusBytes, StatusAccountsForBytes
<1>5. Asked
  BY ErrorAssumption DEF Init, Asked
<1> QED
  BY <1>1, <1>2, <1>3, <1>4, <1>5 DEF IInv

(* The line only appends, and every overrun is a character not accepted.   *)
LEMMA LineIInv == IInv /\ Line => IInv'
<1> SUFFICES ASSUME IInv, Line PROVE IInv'
  OBVIOUS
<1> USE DEF IInv
<1>0. Len(fifo) \in Nat
  BY LenProperties DEF FifoOK
<1>1. CASE Receive
  <2>1. arrived + 1 \in Bytes
    BY <1>1, ArrivalAssumption DEF Receive, Accept, Data, Bytes
  <2>2. fifo' = Append(fifo, arrived + 1) /\ Len(fifo) < FifoDepth
    BY <1>1 DEF Receive, Accept
  <2>3. /\ fifo' \in Seq(Bytes) /\ Len(fifo') = Len(fifo) + 1 /\ fifo' # <<>>
        /\ fifo # <<>> => Head(fifo') = Head(fifo)
    BY <2>1, <2>2, AppendFifo
  <2>4. ~oerr' /\ oerr' \in BOOLEAN
    BY <1>1, Zenon DEF Receive, Accept
  <2>5. FifoOK'
    BY <1>0, <2>2, <2>3, FifoAssumption DEF FifoOK
  <2>6. Data'
    BY <1>1, ArrivalAssumption DEF Receive, Accept, Data, counters
  <2>7. Balance' /\ StatusAccountsForBytes'
    BY <1>0, <1>1, <2>3, <2>4 DEF Receive, Accept, Data, Balance, counters,
       RxStatusBytes, StatusAccountsForBytes
  <2>8. Asked'
    BY <1>1, <2>3 DEF Receive, Asked
  <2> QED
    BY <2>4, <2>5, <2>6, <2>7, <2>8
<1>2. CASE Lose
  <2>1. oerr' \in BOOLEAN /\ oerr'
    BY <1>2, Zenon DEF Lose, Overrun
  <2>2. FifoOK' /\ Asked'
    BY <1>2 DEF Lose, Overrun, FifoOK, Asked, account, history
  <2>3. Data'
    BY <1>2, ArrivalAssumption DEF Lose, Overrun, Data, counters, account, history
  <2>4. Balance' /\ StatusAccountsForBytes'
    BY <1>0, <1>2 DEF Lose, Overrun, Data, Balance, counters, account, history,
       RxStatusBytes, StatusAccountsForBytes
  <2> QED
    BY <2>1, <2>2, <2>3, <2>4
<1> QED
  BY <1>1, <1>2 DEF Line

-----------------------------------------------------------------------------
(* The counts are numbers, and so is the sum that a caller reads.          *)
LEMMA StatusNat ==
  ASSUME Data
  PROVE  RxStatusBytes \in Nat /\ dropped \in Nat /\ accepted \in Nat
  BY DEF Data, RxStatusBytes

(* The sum of three counts is a number.                                    *)
LEMMA NatSum ==
  ASSUME NEW a \in Nat, NEW b \in Nat, NEW c \in Nat
  PROVE  a + b + c \in Nat
  OBVIOUS

(* The same after a step.                                                  *)
LEMMA StatusNatNext ==
  ASSUME Data'
  PROVE  RxStatusBytes' \in Nat /\ dropped' \in Nat
<1>1. /\ rx_byte_polled' \in Nat /\ rx_framing_polled' \in Nat
      /\ rx_parity_polled' \in Nat /\ dropped' \in Nat
  BY DEF Data
<1>2. rx_byte_polled' + rx_framing_polled' + rx_parity_polled' \in Nat
  BY <1>1, NatSum, Zenon
<1> QED
  BY <1>1, <1>2, Zenon DEF RxStatusBytes

(* A step that only moves the foreground on.                               *)
LEMMA MoveIInv ==
  ASSUME IInv, UNCHANGED <<hwVars, counters, account>>, pc' \in Labels,
         asked' \in BOOLEAN, Asked'
  PROVE  IInv'
<1>1. oerr' \in BOOLEAN /\ (oerr' <=> oerr)
  BY Zenon DEF IInv, hwVars
<1>2. Data'
  BY DEF IInv, hwVars, counters, account, Data
<1>3. FifoOK' /\ StatusAccountsForBytes'
  BY DEF IInv, hwVars, counters, account, FifoOK, RxStatusBytes,
     StatusAccountsForBytes
<1>4. Balance'
  BY <1>1 DEF IInv, hwVars, counters, account, Balance
<1> QED
  BY <1>1, <1>2, <1>3, <1>4 DEF IInv

(* A step that ends an overrun counts it, or is part of a flush; what a    *)
(* part that empties the FIFO then loses is what Balance allows for.       *)
LEMMA ClearIInv ==
  ASSUME IInv, oerr, EndOverrun, pc' = "idle",
         rx_overrun_recovered' \in {rx_overrun_recovered, rx_overrun_recovered + 1},
         UNCHANGED <<arrived, rx_byte_polled, rx_framing_polled,
                     rx_parity_polled, lastRead, accepted, asked>>
  PROVE  IInv'
<1>1. /\ FifoOK' /\ ~oerr' /\ oerr' \in BOOLEAN
      /\ Len(fifo') <= Len(fifo) /\ Len(fifo) \in Nat /\ Len(fifo') \in Nat
  BY ClearFifo DEF IInv, EndOverrun
<1>2. Data'
  <2>1. rx_overrun_recovered' \in Nat
    BY DEF IInv, Data
  <2>2. dropped' \in Nat
    BY <1>1 DEF IInv, Data, EndOverrun
  <2> QED
    BY <2>1, <2>2 DEF IInv, Data, Labels
<1>3. Balance'
  <2>1. accepted \in Nat /\ rx_overrun_recovered \in Nat /\ arrived \in Nat
    BY DEF IInv, Data
  <2>2. accepted + rx_overrun_recovered < arrived
    BY Zenon DEF IInv, Balance
  <2>3. accepted' + rx_overrun_recovered' <= arrived'
    <3>1. /\ accepted' = accepted /\ arrived' = arrived
          /\ \/ rx_overrun_recovered' = rx_overrun_recovered
             \/ rx_overrun_recovered' = rx_overrun_recovered + 1
      OBVIOUS
    <3>2. accepted + rx_overrun_recovered + 1 <= arrived
      BY <2>1, <2>2
    <3>3. CASE rx_overrun_recovered' = rx_overrun_recovered
      BY <2>1, <3>1, <3>2, <3>3
    <3>4. CASE rx_overrun_recovered' = rx_overrun_recovered + 1
      BY <2>1, <3>1, <3>2, <3>4
    <3> QED
      BY <3>1, <3>3, <3>4
  <2> QED
    BY <1>1, <2>3, Zenon DEF Balance
<1>4. StatusAccountsForBytes'
  <2>1. RxStatusBytes \in Nat /\ dropped \in Nat /\ accepted \in Nat
    BY StatusNat DEF IInv
  <2>2. RxStatusBytes' = RxStatusBytes
    BY DEF RxStatusBytes
  <2>3. dropped' = dropped + (Len(fifo) - Len(fifo')) /\ accepted' = accepted
    BY DEF EndOverrun
  <2>4. RxStatusBytes + dropped + Len(fifo) = accepted
    BY DEF IInv, StatusAccountsForBytes
  <2>5. RxStatusBytes + (dropped + (Len(fifo) - Len(fifo'))) + Len(fifo') = accepted
    BY <1>1, <2>1, <2>4
  <2> QED
    BY <2>2, <2>3, <2>5 DEF StatusAccountsForBytes
<1>5. Asked'
  BY DEF IInv, Asked
<1> QED
  BY <1>1, <1>2, <1>3, <1>4, <1>5 DEF IInv

(* A step that takes the head of the FIFO and counts it once, handing it   *)
(* out only if it is known to be clean.                                    *)
LEMMA TakeIInv ==
  ASSUME IInv, fifo # <<>>, ReadRXREG, pc' \in Labels,
         pc' \notin {"rd_oerr", "rd_ferr", "rd_perr", "rd_data"},
         RxStatusBytes' + dropped' = RxStatusBytes + dropped + 1,
         Data',
         UNCHANGED <<oerr, arrived, rx_overrun_recovered, accepted, asked>>
  PROVE  IInv'
<1>1. /\ fifo' \in Seq(Bytes) /\ Len(fifo') = Len(fifo) - 1
      /\ Len(fifo) \in Nat /\ Len(fifo) > 0
  BY ReadFifo DEF IInv, ReadRXREG
<1>2. FifoOK'
  BY <1>1, FifoAssumption DEF IInv, FifoOK
<1>3. oerr' \in BOOLEAN /\ (oerr' <=> oerr)
  BY DEF IInv
<1>4. RxStatusBytes \in Nat /\ dropped \in Nat /\ accepted \in Nat
  BY StatusNat, Zenon DEF IInv
<1>5. RxStatusBytes' \in Nat /\ dropped' \in Nat
  BY StatusNatNext, Zenon
<1>6. /\ accepted' = accepted /\ rx_overrun_recovered' = rx_overrun_recovered
      /\ arrived' = arrived
  OBVIOUS
<1>7. Len(fifo') + 1 = Len(fifo) /\ Len(fifo') \in Nat
  BY <1>1
<1>8. RxStatusBytes' + dropped' + Len(fifo') = RxStatusBytes + dropped + Len(fifo)
  <2>1. PICK t \in Nat, g \in Nat, k \in Nat :
          t = RxStatusBytes' /\ g = dropped' /\ k = Len(fifo')
    BY <1>5, <1>7, Zenon
  <2>2. t + g = RxStatusBytes + dropped + 1
    BY <2>1, Zenon
  <2>3. k + 1 = Len(fifo)
    BY <1>7, <2>1, Zenon
  <2>4. t + g + k = RxStatusBytes + dropped + Len(fifo)
    BY <1>1, <1>4, <2>2, <2>3
  <2> QED
    BY <2>1, <2>4, Zenon
<1>9. Balance'
  BY <1>3, <1>6 DEF IInv, Balance
<1>10. StatusAccountsForBytes'
  BY <1>6, <1>8 DEF IInv, StatusAccountsForBytes
<1>11. Asked'
  BY DEF IInv, Asked
<1> QED
  BY <1>2, <1>3, <1>9, <1>10, <1>11 DEF IInv

-----------------------------------------------------------------------------
(* Every step of rx_ready() preserves the invariant.                       *)
LEMMA ReadyIInv == IInv /\ (ReadyTest \/ ReadyOverrun) => IInv'
<1> SUFFICES ASSUME IInv, ReadyTest \/ ReadyOverrun PROVE IInv'
  OBVIOUS
<1>1. CASE ReadyTest
  <2>1. Asked'
    BY <1>1 DEF IInv, ReadyTest, Asked, URXBE, hwVars, account, history
  <2> QED
    BY <1>1, <2>1, MoveIInv DEF ReadyTest, Labels
<1>2. CASE ReadyOverrun
  <2>1. CASE oerr
    BY <1>2, <2>1, ClearIInv DEF ReadyOverrun, Recover
  <2>2. CASE ~oerr
    <3>1. UNCHANGED <<hwVars, counters, account, asked>> /\ pc' = "idle"
      BY <1>2, <2>2 DEF ReadyOverrun, hwVars, counters, account, history
    <3>2. Asked'
      BY <3>1 DEF IInv, Asked, account, history
    <3> QED
      BY <3>1, <3>2, MoveIInv DEF Labels, IInv, Data
  <2> QED
    BY <2>1, <2>2
<1> QED
  BY <1>1, <1>2

(* Every step of read_byte() preserves it: each exit ends the condition it *)
(* reports and counts the byte it takes.                                   *)
LEMMA ReadIInv ==
  IInv /\ (ReadOverrun \/ ReadFraming \/ ReadParity \/ ReadData) => IInv'
<1> SUFFICES ASSUME IInv, ReadOverrun \/ ReadFraming \/ ReadParity \/ ReadData
             PROVE  IInv'
  OBVIOUS
<1>1. CASE ReadOverrun
  <2>1. CASE oerr
    BY <1>1, <2>1, ClearIInv DEF ReadOverrun, Recover
  <2>2. CASE ~oerr
    <3>1. UNCHANGED <<hwVars, counters, account, asked>> /\ pc' = "rd_ferr" /\ pc = "rd_oerr"
      BY <1>1, <2>2 DEF ReadOverrun, hwVars, counters, account, history
    <3>2. Asked'
      BY <3>1 DEF IInv, Asked, account, history, hwVars
    <3> QED
      BY <3>1, <3>2, MoveIInv DEF Labels, IInv, Data
  <2> QED
    BY <2>1, <2>2
<1>2. CASE ReadFraming
  <2>1. CASE FERR
    <3>1. /\ fifo # <<>> /\ ReadRXREG /\ pc' = "idle"
          /\ rx_framing_polled' = rx_framing_polled + 1
          /\ UNCHANGED <<oerr, arrived, rx_overrun_recovered, rx_byte_polled,
                         rx_parity_polled, history>>
      BY <1>2, <2>1 DEF ReadFraming, FERR, URXBE
    <3>2. Data' /\ RxStatusBytes' + dropped' = RxStatusBytes + dropped + 1
      BY <3>1 DEF IInv, Data, RxStatusBytes, account, history, Labels
    <3> QED
      BY <3>1, <3>2, TakeIInv DEF Labels, account, history
  <2>2. CASE ~FERR
    <3>1. /\ UNCHANGED <<hwVars, counters, account, asked>>
          /\ pc' = "rd_perr" /\ pc = "rd_ferr"
      BY <1>2, <2>2 DEF ReadFraming, hwVars, counters, account, history
    <3>2. Asked'
      BY <2>2, <3>1 DEF IInv, Asked, account, history, hwVars, FERR, URXBE
    <3> QED
      BY <3>1, <3>2, MoveIInv DEF Labels, IInv, Data
  <2> QED
    BY <2>1, <2>2
<1>3. CASE ReadParity
  <2>1. CASE PERR
    <3>1. /\ fifo # <<>> /\ ReadRXREG /\ pc' = "idle"
          /\ rx_parity_polled' = rx_parity_polled + 1
          /\ UNCHANGED <<oerr, arrived, rx_overrun_recovered, rx_byte_polled,
                         rx_framing_polled, history>>
      BY <1>3, <2>1 DEF ReadParity, PERR, URXBE
    <3>2. Data' /\ RxStatusBytes' + dropped' = RxStatusBytes + dropped + 1
      BY <3>1 DEF IInv, Data, RxStatusBytes, account, history, Labels
    <3> QED
      BY <3>1, <3>2, TakeIInv DEF Labels, account, history
  <2>2. CASE ~PERR
    <3>1. /\ UNCHANGED <<hwVars, counters, account, asked>>
          /\ pc' = "rd_data" /\ pc = "rd_perr"
      BY <1>3, <2>2 DEF ReadParity, hwVars, counters, account, history
    <3>2. Asked'
      BY <2>2, <3>1 DEF IInv, Asked, account, history, hwVars, PERR, URXBE
    <3> QED
      BY <3>1, <3>2, MoveIInv DEF Labels, IInv, Data
  <2> QED
    BY <2>1, <2>2
<1>4. CASE ReadData
  <2>1. CASE URXBE
    <3>1. UNCHANGED <<hwVars, counters, account, asked>> /\ pc' = "idle"
      BY <1>4, <2>1 DEF ReadData, hwVars, counters, account, history
    <3>2. Asked'
      BY <3>1 DEF IInv, Asked, account, history
    <3> QED
      BY <3>1, <3>2, MoveIInv DEF Labels, IInv, Data
  <2>2. CASE ~URXBE
    <3>1. /\ fifo # <<>> /\ ReadRXREG /\ pc' = "idle" /\ pc = "rd_data"
          /\ lastRead' = Head(fifo)
          /\ rx_byte_polled' = rx_byte_polled + 1
          /\ UNCHANGED <<oerr, arrived, rx_overrun_recovered, rx_framing_polled,
                         rx_parity_polled, accepted, dropped, asked>>
      BY <1>4, <2>2 DEF ReadData, URXBE
    <3>2. Head(fifo) \in 0 .. MaxArrivals
      BY <3>1, ReadFifo, ArrivalAssumption DEF IInv, Bytes
    <3>3. Data' /\ RxStatusBytes' + dropped' = RxStatusBytes + dropped + 1
      BY <3>1, <3>2 DEF IInv, Data, RxStatusBytes, Labels
    <3> QED
      BY <3>1, <3>3, TakeIInv DEF Labels
  <2> QED
    BY <2>1, <2>2
<1> QED
  BY <1>1, <1>2, <1>3, <1>4

(* Every step of rx_flush() preserves it.                                  *)
LEMMA FlushIInv == IInv /\ (FlushFifo \/ FlushOverrun) => IInv'
<1> SUFFICES ASSUME IInv, FlushFifo \/ FlushOverrun PROVE IInv'
  OBVIOUS
<1>1. CASE FlushFifo
  <2>1. CASE URXBE
    <3>1. UNCHANGED <<hwVars, counters, account, asked>> /\ pc' = "fl_oerr"
      BY <1>1, <2>1 DEF FlushFifo, hwVars, counters, account, history
    <3>2. Asked'
      BY <3>1 DEF IInv, Asked, account, history
    <3> QED
      BY <3>1, <3>2, MoveIInv DEF Labels, IInv, Data
  <2>2. CASE ~URXBE
    <3>1. /\ fifo # <<>> /\ ReadRXREG /\ pc' = "fl_fifo"
          /\ dropped' = dropped + 1
          /\ UNCHANGED <<oerr, arrived, counters, lastRead, accepted, asked>>
      BY <1>1, <2>2 DEF FlushFifo, URXBE
    <3>2. Data' /\ RxStatusBytes' + dropped' = RxStatusBytes + dropped + 1
      BY <3>1 DEF IInv, Data, RxStatusBytes, counters, Labels
    <3> QED
      BY <3>1, <3>2, TakeIInv DEF Labels, counters
  <2> QED
    BY <2>1, <2>2
<1>2. CASE FlushOverrun
  <2>1. CASE oerr
    BY <1>2, <2>1, ClearIInv DEF FlushOverrun, counters
  <2>2. CASE ~oerr
    <3>1. UNCHANGED <<hwVars, counters, account, asked>> /\ pc' = "idle"
      BY <1>2, <2>2 DEF FlushOverrun, hwVars, account
    <3>2. Asked'
      BY <3>1 DEF IInv, Asked, account, history
    <3> QED
      BY <3>1, <3>2, MoveIInv DEF Labels, IInv, Data
  <2> QED
    BY <2>1, <2>2
<1> QED
  BY <1>1, <1>2

(* Starting a call preserves it, and so does clearing the counters.        *)
LEMMA CallIInv ==
  IInv /\ (CallReady \/ CallRead \/ CallFlush \/ StatusClear) => IInv'
<1> SUFFICES ASSUME IInv, CallReady \/ CallRead \/ CallFlush \/ StatusClear
             PROVE  IInv'
  OBVIOUS
<1>1. CASE CallReady \/ CallRead \/ CallFlush
  <2>0. asked' = asked \/ asked' = FALSE
    BY <1>1 DEF CallReady, CallRead, CallFlush, Call, history
  <2>1. UNCHANGED <<hwVars, counters, account>> /\ pc' \in Labels
    BY <1>1 DEF CallReady, CallRead, CallFlush, Call, Labels, history
  <2>2. Asked'
    BY <1>1, <2>1 DEF CallReady, CallRead, CallFlush, Call, IInv, Asked, account, history, hwVars
  <2> QED
    BY <2>0, <2>1, <2>2, MoveIInv DEF IInv, Data
<1>2. CASE StatusClear
  <2>1. /\ oerr' \in BOOLEAN /\ (oerr' <=> oerr) /\ FifoOK'
        /\ fifo' = fifo /\ arrived' = arrived
        /\ accepted' = accepted /\ dropped' = dropped + RxStatusBytes
    BY <1>2 DEF StatusClear, IInv, hwVars, account, history, FifoOK
  <2>2. Data'
    <3>1. RxStatusBytes \in Nat /\ dropped \in Nat
      BY StatusNat DEF IInv
    <3>2. dropped + RxStatusBytes \in Nat
      BY <3>1
    <3> QED
      BY <1>2, <2>1, <3>2 DEF StatusClear, IInv, Data
  <2>3. Len(fifo) \in Nat
    BY LenProperties DEF IInv, FifoOK
  <2>4. Balance' /\ StatusAccountsForBytes'
    BY <1>2, <2>1, <2>3 DEF StatusClear, IInv, Data, Balance, RxStatusBytes,
       StatusAccountsForBytes
  <2>5. Asked'
    BY <1>2, <2>1 DEF StatusClear, IInv, Asked, account, history
  <2> QED
    BY <2>1, <2>2, <2>4, <2>5 DEF IInv
<1> QED
  BY <1>1, <1>2

-----------------------------------------------------------------------------
(* IInv is inductive.                                                      *)
LEMMA Inductive == IInv /\ [Next]_vars => IInv'
<1> SUFFICES ASSUME IInv, [Next]_vars PROVE IInv'
  OBVIOUS
<1>1. CASE Next
  BY <1>1, LineIInv, ReadyIInv, ReadIInv, FlushIInv, CallIInv DEF Next, Step
<1>2. CASE UNCHANGED vars
  <2>1. UNCHANGED <<hwVars, counters, account, asked>> /\ pc' = pc
    BY <1>2 DEF vars, history
  <2>2. Asked' /\ pc' \in Labels
    BY <2>1 DEF IInv, Asked, account, history, hwVars, Data
  <2> QED
    BY <1>1, <2>1, <2>2, MoveIInv DEF IInv, Data
<1> QED
  BY <1>1, <1>2

(* Every reachable state satisfies it.                                     *)
THEOREM Invariance == Spec => []IInv
<1>1. Init => IInv
  BY InitIInv
<1>2. IInv /\ [Next]_vars => IInv'
  BY Inductive
<1> QED
  BY <1>1, <1>2, PTL DEF Spec

(* The variables keep their types, and no counter exceeds the characters   *)
(* the line delivered.                                                     *)
THEOREM TypeInvariant == Spec => []TypeOK
<1>1. IInv => TypeOK
  <2> SUFFICES ASSUME IInv PROVE TypeOK
    OBVIOUS
  <2>1. Len(fifo) \in Nat
    BY LenProperties DEF IInv, FifoOK
  <2>2. HwTypeOK
    BY DEF IInv, FifoOK, Data, HwTypeOK
  <2>3. asked \in BOOLEAN
    BY DEF IInv, Data
  <2>4. RxStatusBytes + dropped + Len(fifo) = accepted
    BY DEF IInv, StatusAccountsForBytes
  <2> QED
    BY <2>1, <2>2, <2>3, <2>4, ArrivalAssumption
       DEF IInv, Data, Balance, RxStatusBytes, TypeOK
<1> QED
  BY <1>1, Invariance, PTL

(* The status a caller reads accounts for every byte.                      *)
THEOREM Accounting == Spec => []StatusAccountsForBytes
<1>1. IInv => StatusAccountsForBytes
  BY DEF IInv
<1> QED
  BY <1>1, Invariance, PTL

(* A read that rx_ready() allowed hands out only bytes without an error.   *)
THEOREM AskFirst == Spec => CleanWhenAsked
<1>1. IInv /\ [Next]_vars =>
        [asked /\ lastRead' # lastRead => lastRead' \notin Framing \cup Parity]_vars
  <2> SUFFICES ASSUME IInv, Next, asked, lastRead' # lastRead
               PROVE  lastRead' \notin Framing \cup Parity
    OBVIOUS
  <2>1. ReadData
    BY DEF Next, Line, Step, Receive, Lose, ReadyTest, ReadyOverrun, ReadOverrun,
       ReadFraming, ReadParity, FlushFifo, FlushOverrun, CallReady, CallRead,
       CallFlush, StatusClear, Call, account, history
  <2> QED
    BY <2>1 DEF ReadData, IInv, Asked
<1> QED
  BY <1>1, Invariance, PTL DEF Spec, CleanWhenAsked

(* No byte leaves the FIFO outside a flush without a counter that moves.   *)
THEOREM NoSilentLoss == Spec => LossCounted
<1>1. IInv /\ [Next]_vars =>
        [Len(fifo') < Len(fifo) /\ pc \notin {"fl_fifo", "fl_oerr"}
           => counters' # counters]_vars
  <2> SUFFICES ASSUME IInv, Next, Len(fifo') < Len(fifo),
                      pc \notin {"fl_fifo", "fl_oerr"}
               PROVE  counters' # counters
    OBVIOUS
  <2>1. fifo' # fifo
    OBVIOUS
  <2>2. /\ rx_overrun_recovered + 1 # rx_overrun_recovered
        /\ rx_byte_polled + 1 # rx_byte_polled
        /\ rx_framing_polled + 1 # rx_framing_polled
        /\ rx_parity_polled + 1 # rx_parity_polled
    BY DEF IInv, Data
  <2>3. ~Line
    <3>1. CASE Receive
      <4>1. arrived + 1 \in Bytes
        BY <3>1, ArrivalAssumption DEF Receive, Accept, IInv, Data, Bytes
      <4>2. Len(fifo') = Len(fifo) + 1
        BY <3>1, <4>1, AppendFifo DEF Receive, Accept, IInv
      <4> QED
        BY <4>2, LenProperties DEF IInv, FifoOK
    <3>2. ~Lose
      BY <2>1 DEF Lose, Overrun
    <3> QED
      BY <3>1, <3>2 DEF Line
  <2>4. ReadyOverrun \/ ReadOverrun \/ ReadFraming \/ ReadParity \/ ReadData
    BY <2>1, <2>3 DEF Next, Step, ReadyTest, FlushFifo, FlushOverrun, CallReady,
       CallRead, CallFlush, StatusClear, Call, hwVars
  <2> QED
    BY <2>1, <2>2, <2>4 DEF ReadyOverrun, ReadOverrun, ReadFraming, ReadParity,
       ReadData, Recover, counters
<1> QED
  BY <1>1, Invariance, PTL DEF Spec, LossCounted
=============================================================================
