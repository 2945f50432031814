------------------------- MODULE ReconfigureProofs --------------------------
(***************************************************************************)
(* Proofs about Reconfigure and the modules it is made of. Of Baud: what   *)
(* the divisor arithmetic guarantees for every clock and every rate, and   *)
(* that nothing overflows the widths in between. Of TxBlocking: that the   *)
(* timeout of a write is neither cut short nor drawn out for every period  *)
(* of the clock. Of Reconfigure: the types, and that the hardware divides  *)
(* by the nearest divisor for every set of rates.                          *)
(***************************************************************************)
EXTENDS Reconfigure, TLAPS

-----------------------------------------------------------------------------
(* The divisor arithmetic, for every clock and every rate.                 *)

LEMMA Denominator ==
    ASSUME NEW baud \in Hertz, NEW fast \in BOOLEAN
    PROVE  /\ denominator(baud, fast) \in Nat \ {0}
           /\ denominator(baud, fast) = 2 * (denominator(baud, fast) \div 2)
           /\ denominator(baud, fast) \div 2 \in Nat
           /\ denominator(baud, fast) <= 16 * baud
<1>1. baud \in Nat \ {0}
  BY DEF Hertz
<1>2. CASE fast
  <2>1. denominator(baud, fast) = 4 * baud
    BY <1>2 DEF denominator, sample_div
  <2> QED
    BY <1>1, <2>1
<1>3. CASE ~fast
  <2>1. denominator(baud, fast) = 16 * baud
    BY <1>3 DEF denominator, sample_div
  <2> QED
    BY <1>1, <2>1
<1> QED
  BY <1>2, <1>3

LEMMA Quotient ==
    ASSUME NEW n \in Nat, NEW d \in Nat \ {0}
    PROVE  /\ n \div d \in Nat
           /\ (n \div d) * d <= n
           /\ n < (n \div d) * d + d
BY Z3

(* The divisor the code computes is as near to the ratio of the clock to   *)
(* the sampling rate as half a step (uart_calc_brg_raw(): "+ denominator / *)
(* 2u" before the division).                                               *)
THEOREM DivIsNearest ==
    ASSUME NEW clk \in Hertz, NEW baud \in Hertz, NEW fast \in BOOLEAN
    PROVE  /\ Div(clk, baud, fast) \in Nat
           /\ Nearest(Div(clk, baud, fast), clk, baud, fast)
<1> DEFINE den == denominator(baud, fast)
           h   == den \div 2
           div == Div(clk, baud, fast)
<1>1. den \in Nat \ {0} /\ den = 2 * h /\ h \in Nat
  BY Denominator
<1>2. clk + h \in Nat /\ clk \in Nat
  BY <1>1 DEF Hertz
<1>3. div = (clk + h) \div den
  BY DEF Div
<1> HIDE DEF den, h, div
<1>4. div \in Nat /\ div * den <= clk + h /\ clk + h < div * den + den
  BY <1>1, <1>2, <1>3, Quotient
<1>5. div * den \in Nat
  BY <1>1, <1>4
<1>6. 2 * Abs(clk - div * den) <= den
  BY <1>1, <1>2, <1>4, <1>5 DEF Abs
<1> QED
  BY <1>4, <1>6 DEF Nearest, den, div

(* No divisor at all comes nearer than one that is within half a step, so  *)
(* the rate the hardware runs at is the best it can do.                    *)
THEOREM NearestIsBest ==
    ASSUME NEW clk \in Hertz, NEW baud \in Hertz, NEW fast \in BOOLEAN,
           NEW div \in Nat, Nearest(div, clk, baud, fast),
           NEW alt \in Nat
    PROVE  Abs(clk - div * denominator(baud, fast))
               <= Abs(clk - alt * denominator(baud, fast))
<1> DEFINE den == denominator(baud, fast)
<1>1. den \in Nat \ {0} /\ clk \in Nat
  BY Denominator DEF Hertz
<1>2. 2 * Abs(clk - div * den) <= den
  BY DEF Nearest
<1> HIDE DEF den
<1>3. div * den \in Nat /\ alt * den \in Nat
  BY <1>1
<1>4. ASSUME alt = div
      PROVE  Abs(clk - div * den) <= Abs(clk - alt * den)
  BY <1>1, <1>3, <1>4 DEF Abs
<1>5. ASSUME alt > div
      PROVE  Abs(clk - div * den) <= Abs(clk - alt * den)
  <2>1. alt * den >= div * den + den
    <3>1. alt = div + (alt - div) /\ alt - div \in Nat \ {0}
      BY <1>5
    <3>2. alt * den = div * den + (alt - div) * den
      BY <1>1, <3>1
    <3>3. (alt - div) * den >= den
      BY <1>1, <3>1
    <3> QED
      BY <1>1, <1>3, <3>1, <3>2, <3>3
  <2> QED
    BY <1>1, <1>2, <1>3, <2>1 DEF Abs
<1>6. ASSUME alt < div
      PROVE  Abs(clk - div * den) <= Abs(clk - alt * den)
  <2>1. div * den >= alt * den + den
    <3>1. div = alt + (div - alt) /\ div - alt \in Nat \ {0}
      BY <1>6
    <3>2. div * den = alt * den + (div - alt) * den
      BY <1>1, <3>1
    <3>3. (div - alt) * den >= den
      BY <1>1, <3>1
    <3> QED
      BY <1>1, <1>3, <3>1, <3>2, <3>3
  <2> QED
    BY <1>1, <1>2, <1>3, <2>1 DEF Abs
<1> QED
  BY <1>4, <1>5, <1>6 DEF den

(* An accepted divisor survives being split over BRG and BRGH: the         *)
(* hardware divides by what was computed, and each part fits its field.    *)
THEOREM RegistersHold ==
    ASSUME NEW clk \in Hertz, NEW baud \in Hertz, NEW fast \in BOOLEAN,
           Divisible(clk, baud, fast)
    PROVE  LET brg == Brg(clk, baud, fast)
           IN  /\ brg \in Nat
               /\ BrgLow(brg) \in 0 .. 2 ^ 16 - 1
               /\ BrgHigh(brg) \in 0 .. 2 ^ 4 - 1
               /\ Divisor(BrgLow(brg), BrgHigh(brg)) = Div(clk, baud, fast)
<1> DEFINE div == Div(clk, baud, fast)
           brg == Brg(clk, baud, fast)
<1>1. div \in Nat
  BY DivIsNearest
<1>2. div # 0 /\ div - 1 <= 2 ^ 20 - 1
  BY DEF Divisible, NORA_UART_BRG_MAX
<1>3. brg = div - 1
  BY DEF Brg
<1> HIDE DEF div, brg
<1>4. brg \in Nat /\ brg <= 2 ^ 20 - 1 /\ brg + 1 = div
  BY <1>1, <1>2, <1>3, SMT
<1>5. /\ brg % 2 ^ 16 \in 0 .. 2 ^ 16 - 1
      /\ brg \div 2 ^ 16 \in 0 .. 2 ^ 4 - 1
      /\ brg = (brg \div 2 ^ 16) * 2 ^ 16 + (brg % 2 ^ 16)
  BY <1>4, SMT
<1>6. (brg \div 2 ^ 16) % 2 ^ 4 = brg \div 2 ^ 16
  BY <1>5, SMT
<1>7. BrgLow(brg) = brg % 2 ^ 16 /\ BrgHigh(brg) = brg \div 2 ^ 16
  BY <1>6 DEF BrgLow, BrgHigh
<1>8. Divisor(BrgLow(brg), BrgHigh(brg)) = brg + 1
  BY <1>4, <1>5, <1>7, SMT DEF Divisor
<1> QED
  BY <1>4, <1>5, <1>7, <1>8 DEF div, brg

(* Nothing wraps on the way: the product and the sum stay below the width  *)
(* of uint64_t, and an accepted result below that of uint32_t.             *)
THEOREM NoOverflow ==
    ASSUME NEW clk \in Hertz_32, NEW baud \in Hertz_32, NEW fast \in BOOLEAN
    PROVE  /\ denominator(baud, fast) < U64
           /\ clk + denominator(baud, fast) \div 2 < U64
           /\ Divisible(clk, baud, fast) => Brg(clk, baud, fast) < U32
<1> DEFINE den == denominator(baud, fast)
<1>1. U32 \in Nat /\ U32 > 32 /\ 2 ^ 20 - 1 < U32
  BY SMT DEF U32
<1>2. clk \in Nat /\ clk < U32 /\ baud \in Nat /\ baud < U32
  BY <1>1 DEF Hertz, Hertz_32
<1>9. clk \in Hertz /\ baud \in Hertz
  BY DEF Hertz_32
<1>3. den \in Nat /\ den = 2 * (den \div 2) /\ den \div 2 \in Nat /\ den <= 16 * baud
  BY <1>9, Denominator
<1>4. U64 = U32 * U32
  BY DEF U64
<1>5. 32 * U32 < U32 * U32
  BY <1>1
<1> HIDE DEF den
<1>6. den < U64 /\ clk + den \div 2 < U64
  BY <1>1, <1>2, <1>3, <1>4, <1>5
<1>7. ASSUME Divisible(clk, baud, fast)
      PROVE  Brg(clk, baud, fast) < U32
  <2>1. Div(clk, baud, fast) \in Nat
    BY <1>9, DivIsNearest
  <2>2. Div(clk, baud, fast) - 1 <= 2 ^ 20 - 1
    BY <1>7 DEF Divisible, NORA_UART_BRG_MAX
  <2>3. Brg(clk, baud, fast) = Div(clk, baud, fast) - 1
    BY DEF Brg
  <2> QED
    BY <1>1, <2>1, <2>2, <2>3, SMT
<1> QED
  BY <1>6, <1>7 DEF den

-----------------------------------------------------------------------------
(* Differences of two readings of the clock.                               *)

LEMMA ModWithin ==
  ASSUME NEW p \in Nat \ {0}, NEW n \in 0 .. p - 1
  PROVE  n % p = n
  OBVIOUS

LEMMA ModBelow ==
  ASSUME NEW p \in Nat \ {0}, NEW n \in Int, -p <= n, n < 0
  PROVE  n % p = n + p
  OBVIOUS

LEMMA ModPeriod ==
  ASSUME NEW p \in Nat \ {0}
  PROVE  p % p = 0
  OBVIOUS

(* The clock moves on within its period, and a difference grows by one     *)
(* with it, unless it is about to turn over.                               *)
LEMMA ClockTurns ==
  ASSUME NEW p \in Nat \ {0}, NEW n \in 0 .. p - 1, NEW s \in 0 .. p - 1,
         ((n - s) % p) + 1 < p
  PROVE  /\ (n + 1) % p \in 0 .. p - 1
         /\ (((n + 1) % p) - s) % p = ((n - s) % p) + 1
<1>1. CASE n + 1 < p
  <2>1. (n + 1) % p = n + 1
    BY <1>1, ModWithin
  <2>2. CASE n >= s
    <3>1. (n - s) % p = n - s
      BY <2>2, ModWithin
    <3>2. (n + 1 - s) % p = n + 1 - s
      BY <1>1, <2>2, ModWithin
    <3> QED
      BY <1>1, <2>1, <3>1, <3>2
  <2>3. CASE n < s
    <3>1. (n - s) % p = n - s + p
      BY <2>3, ModBelow
    <3>2. n + 1 < s
      BY <3>1
    <3>3. (n + 1 - s) % p = n + 1 - s + p
      BY <3>2, ModBelow
    <3> QED
      BY <1>1, <2>1, <3>1, <3>3
  <2> QED
    BY <2>2, <2>3
<1>2. CASE n + 1 = p
  <2>1. (n + 1) % p = 0
    BY <1>2, ModPeriod
  <2>2. (n - s) % p = n - s
    BY <1>2, ModWithin
  <2>3. s > 0 /\ 0 - s < 0 /\ -p <= 0 - s /\ 0 - s \in Int
    BY <1>2, <2>2
  <2>4. (0 - s) % p = 0 - s + p
    BY <2>3, ModBelow
  <2> QED
    BY <1>2, <2>1, <2>2, <2>4
<1> QED
  BY <1>1, <1>2

-----------------------------------------------------------------------------
(* The writer: a call has bytes left, and the history of its wait is what  *)
(* the code's unsigned difference says.                                    *)
WriterInv == TxTypeOK /\ ElapsedInv /\ (write_pc # "idle" => rest > 0)

(* A waiting caller has a whole look at the clock to spare.                *)
LEMMA Slack ==
  ASSUME WriterInv, Waiting
  PROVE  /\ waited < timeout_ms + unpolled
         /\ timeout_ms + PollWithin <= ClockPeriod
         /\ timeout_ms \in Nat /\ PollWithin \in Nat
  BY TimeoutAssumption, PeriodAssumption, ClockAssumption
     DEF WriterInv, TxTypeOK, ElapsedInv

LEMMA WriterTick ==
  ASSUME WriterInv, Tick
  PROVE  WriterInv'
<1> USE DEF WriterInv
<1>1. now' = (now + 1) % ClockPeriod /\ UNCHANGED <<timeout_ms, txHw, UTXEN, writer>>
  BY DEF Tick
<1>2. now' \in 0 .. ClockPeriod - 1
  BY <1>1, ClockAssumption DEF TxTypeOK
<1>3. CASE Waiting
  <2>1. unpolled < PollWithin /\ waited' = waited + 1 /\ unpolled' = unpolled + 1
    BY <1>3 DEF Tick
  <2>2. /\ (now - start_ms) % ClockPeriod = waited
        /\ waited - unpolled < timeout_ms /\ unpolled <= waited
    BY <1>3 DEF ElapsedInv
  <2>3. waited + 1 < ClockPeriod
    BY <1>3, <2>1, Slack, ClockAssumption DEF TxTypeOK
  <2>4. (now' - start_ms) % ClockPeriod = waited'
    BY <1>1, <2>1, <2>2, <2>3, ClockTurns, ClockAssumption DEF TxTypeOK
  <2>5. TxTypeOK'
    BY <1>1, <1>2, <2>1, <2>3, ClockAssumption DEF TxTypeOK, txHw, writer
  <2>6. ElapsedInv'
    BY <1>1, <2>1, <2>2, <2>3, <2>4, Slack, <1>3 DEF ElapsedInv, TxTypeOK, writer
  <2> QED
    BY <1>1, <2>5, <2>6 DEF writer
<1>4. CASE ~Waiting
  <2>1. UNCHANGED <<waited, unpolled>>
    BY <1>4 DEF Tick
  <2>2. ~Waiting'
    BY <1>1, <1>4 DEF Waiting, writer
  <2> QED
    BY <1>1, <1>2, <2>1, <2>2 DEF TxTypeOK, ElapsedInv, txHw, writer
<1> QED
  BY <1>3, <1>4

LEMMA WriterCall ==
  ASSUME WriterInv, CallWrite \/ WriteStep
  PROVE  WriterInv'
<1> USE DEF WriterInv
<1>1. CASE CallWrite
  <2>1. rest' \in Nat \ {0}
    BY <1>1, LengthAssumption DEF CallWrite
  <2> QED
    BY <1>1, <2>1
       DEF CallWrite, TxTypeOK, ElapsedInv, Waiting, WriteLabels, txHw, clock
<1>2. CASE StartClock
  <2>1. start_ms' \in 0 .. ClockPeriod - 1
    BY <1>2, ClockAssumption DEF StartClock, TxTypeOK
  <2>2. timeout_ms # 0 => (now - start_ms') % ClockPeriod = 0
    <3>1. ASSUME timeout_ms # 0 PROVE now - start_ms' = 0
      BY <1>2, <3>1 DEF StartClock, TxTypeOK
    <3>2. 0 % ClockPeriod = 0
      BY ModWithin, ClockAssumption
    <3> QED
      BY <3>1, <3>2
  <2>3. TxTypeOK'
    BY <1>2, <2>1, ClockAssumption DEF StartClock, TxTypeOK, WriteLabels, txHw
  <2>4. ElapsedInv'
    BY <1>2, <2>2, ClockAssumption, TimeoutAssumption
       DEF StartClock, TxTypeOK, ElapsedInv, Waiting
  <2> QED
    BY <1>2, <2>3, <2>4 DEF StartClock
<1>3. CASE WriteByte
  <2>1. rest > 0 /\ rest \in Nat
    BY <1>3 DEF WriteByte, TxTypeOK
  <2>2. level # TxDepth
    BY <1>3 DEF WriteByte, UTXBF
  <2>3. TxTypeOK'
    BY <1>3, <2>1, <2>2, ClockAssumption, DepthAssumption
       DEF WriteByte, EndWait, TxTypeOK, WriteLabels
  <2> QED
    BY <1>3, <2>1, <2>3 DEF WriteByte, ElapsedInv, Waiting
<1>4. CASE TestFull
  BY <1>4 DEF TestFull, TxTypeOK, ElapsedInv, Waiting, WriteLabels, txHw, clock
<1>5. CASE CheckClock
  <2>1. CASE Expired
    BY <1>5, <2>1, ClockAssumption DEF CheckClock, EndWait, TxTypeOK, ElapsedInv,
       Waiting, WriteLabels, txHw
  <2>2. CASE ~Expired
    <3>1. /\ write_pc = "clock" /\ write_pc' = "full" /\ unpolled' = 0
          /\ UNCHANGED <<rest, waited, start_ms, timeout_ms, txHw, UTXEN, now>>
      BY <1>5, <2>2 DEF CheckClock
    <3>2. TxTypeOK'
      BY <3>1, ClockAssumption DEF TxTypeOK, WriteLabels, txHw
    <3>3. timeout_ms # 0 =>
            /\ (now - start_ms) % ClockPeriod = waited
            /\ waited < timeout_ms /\ waited < ClockPeriod
      <4>1. ASSUME timeout_ms # 0
            PROVE  (now - start_ms) % ClockPeriod = waited /\ waited < ClockPeriod
        BY <3>1, <4>1 DEF ElapsedInv, Waiting
      <4>2. ~((now - start_ms) % ClockPeriod >= timeout_ms)
        BY <2>2 DEF Expired
      <4> QED
        BY <4>1, <4>2, TimeoutAssumption DEF TxTypeOK
    <3>4. ElapsedInv'
      BY <3>1, <3>3 DEF ElapsedInv, Waiting, TxTypeOK
    <3> QED
      BY <3>1, <3>2, <3>4
  <2> QED
    BY <2>1, <2>2
<1> QED
  BY <1>1, <1>2, <1>3, <1>4, <1>5 DEF WriteStep

(* Whatever leaves the writer and the clock alone keeps it.                *)
LEMMA WriterElse ==
  ASSUME WriterInv, UNCHANGED <<timeout_ms, clock, writer>>,
         level' \in 0 .. TxDepth, shifting' \in BOOLEAN, UTXEN' \in BOOLEAN
  PROVE  WriterInv'
  BY DEF WriterInv, TxTypeOK, ElapsedInv, Waiting, clock, writer

-----------------------------------------------------------------------------
(* The rate.  Wanted is the divisor of the rate being set.                 *)

Wanted == Brg(rate[1], rate[2], high_speed)

Applied ==
    Nearest(Divisor(BRG, BRGH), uart_clk_hz_applied, baudrate_applied, high_speed)

RateInv ==
    /\ high_speed \in BOOLEAN
    /\ BRG \in 0 .. 2 ^ 16 - 1 /\ BRGH \in 0 .. 2 ^ 4 - 1
    /\ <<uart_clk_hz_applied, baudrate_applied>> \in Rates
    /\ pc \in {"br_full", "br_busy", "br_low", "br_high"} => rate \in Rates
    /\ pc \in {"br_low", "br_high"} => Divisible(rate[1], rate[2], high_speed)
    /\ pc = "br_high" => BRG = BrgLow(Wanted)
    /\ pc # "br_high" => Applied

(* A rate that has a divisor is put into the registers without loss.       *)
LEMMA RateRegisters ==
  ASSUME NEW r \in Rates, NEW speed \in BOOLEAN, Divisible(r[1], r[2], speed)
  PROVE  /\ r[1] \in Hertz /\ r[2] \in Hertz
         /\ BrgLow(Brg(r[1], r[2], speed)) \in 0 .. 2 ^ 16 - 1
         /\ BrgHigh(Brg(r[1], r[2], speed)) \in 0 .. 2 ^ 4 - 1
         /\ Nearest(Divisor(BrgLow(Brg(r[1], r[2], speed)),
                            BrgHigh(Brg(r[1], r[2], speed))), r[1], r[2], speed)
<1>1. r[1] \in Hertz /\ r[2] \in Hertz
  BY RatesAssumption
<1>2. /\ BrgLow(Brg(r[1], r[2], speed)) \in 0 .. 2 ^ 16 - 1
      /\ BrgHigh(Brg(r[1], r[2], speed)) \in 0 .. 2 ^ 4 - 1
      /\ Divisor(BrgLow(Brg(r[1], r[2], speed)), BrgHigh(Brg(r[1], r[2], speed)))
           = Div(r[1], r[2], speed)
  BY <1>1, RegistersHold, Zenon
<1>3. Nearest(Div(r[1], r[2], speed), r[1], r[2], speed)
  BY <1>1, DivIsNearest, Zenon
<1> QED
  BY <1>1, <1>2, <1>3, Zenon

(* The steps of set_baudrate().                                            *)
LEMMA RateSteps ==
  ASSUME RateInv, CallSetBaudrate \/ Rating
  PROVE  RateInv'
<1>1. CASE CallSetBaudrate
  BY <1>1, Zenon DEF CallSetBaudrate, Quiet, RateInv, Applied, rateVars
<1>2. CASE BaudFull
  <2>1. /\ pc = "br_full" /\ UNCHANGED rateVars
        /\ pc' = "idle" \/ (pc' = "br_busy" /\ rate' = rate)
    BY <1>2 DEF BaudFull, Refuse
  <2> QED
    BY <2>1 DEF RateInv, Applied, rateVars
<1>3. CASE BaudBusy
  <2>1. /\ pc = "br_busy" /\ UNCHANGED rateVars
        /\ \/ pc' = "idle"
           \/ /\ pc' = "br_low" /\ rate' = rate
              /\ Divisible(rate[1], rate[2], high_speed)
    BY <1>3, Zenon DEF BaudBusy, Refuse
  <2> QED
    BY <2>1 DEF RateInv, Applied, rateVars
<1>4. CASE BaudLow
  <2>1. /\ pc = "br_low" /\ pc' = "br_high" /\ rate' = rate
        /\ BRG' = BrgLow(Wanted)
        /\ UNCHANGED <<high_speed, BRGH, uart_clk_hz_applied, baudrate_applied>>
    BY <1>4 DEF BaudLow, Wanted
  <2>2. rate \in Rates /\ Divisible(rate[1], rate[2], high_speed)
    BY <2>1 DEF RateInv
  <2>3. BRG' \in 0 .. 2 ^ 16 - 1
    BY <2>1, <2>2, RateRegisters, Zenon DEF Wanted, RateInv
  <2>4. Wanted' = Wanted
    BY <2>1 DEF Wanted
  <2> QED
    BY <2>1, <2>2, <2>3, <2>4 DEF RateInv
<1>5. CASE BaudHigh
  <2>1. /\ pc = "br_high" /\ pc' = "idle"
        /\ BRGH' = BrgHigh(Wanted)
        /\ uart_clk_hz_applied' = rate[1] /\ baudrate_applied' = rate[2]
        /\ UNCHANGED <<high_speed, BRG>>
    BY <1>5 DEF BaudHigh, Wanted
  <2>2. /\ rate \in Rates /\ Divisible(rate[1], rate[2], high_speed)
        /\ BRG = BrgLow(Wanted) /\ high_speed \in BOOLEAN
    BY <2>1 DEF RateInv
  <2>3. BRGH' \in 0 .. 2 ^ 4 - 1
    BY <2>1, <2>2, RateRegisters, Zenon DEF Wanted
  <2>4. Nearest(Divisor(BrgLow(Wanted), BrgHigh(Wanted)), rate[1], rate[2], high_speed)
    BY <2>2, RateRegisters, Zenon DEF Wanted
  <2>5. Applied'
    BY <2>1, <2>2, <2>4, Zenon DEF Applied
  <2>6. <<rate[1], rate[2]>> \in Rates
    BY <2>2, RatesAssumption
  <2> QED
    BY <2>1, <2>2, <2>3, <2>5, <2>6 DEF RateInv
<1> QED
  BY <1>1, <1>2, <1>3, <1>4, <1>5 DEF Rating

(* Other steps do not enter or leave set_baudrate() and write no divisor.  *)
LEMMA RateElse ==
  ASSUME RateInv, UNCHANGED rateVars,
         \/ UNCHANGED <<pc, rate>>
         \/ /\ pc \in {"idle", "en_read", "en_write"}
            /\ pc' \in {"idle", "en_read", "en_write"}
  PROVE  RateInv'
  BY DEF RateInv, Applied, Wanted, rateVars

-----------------------------------------------------------------------------
(* The whole invariant.                                                    *)
RestInv ==
    /\ URXEN \in BOOLEAN
    /\ tx_async_busy \in BOOLEAN
    /\ tx_left \in 0 .. TxLength
    /\ rx_async_busy \in BOOLEAN
    /\ pc \in Labels
    /\ bit \in (Bits \X BOOLEAN) \cup {NoBit}
    /\ pc = "en_write" \/ pc = "en_read" => bit \in Bits \X BOOLEAN
    /\ mode \in [Bits -> BOOLEAN]
    /\ rate \in Rates \cup {NoRate}

IInv == WriterInv /\ RateInv /\ RestInv

LEMMA NoModeOK == NoMode \in [Bits -> BOOLEAN]
  BY DEF NoMode

LEMMA InitIInv == Init => IInv
<1> SUFFICES ASSUME Init PROVE IInv
  OBVIOUS
<1>1. WriterInv
  <2>1. UTXEN \in BOOLEAN /\ shifting \in BOOLEAN
    BY Zenon DEF Init, TxInit
  <2> QED
    BY <2>1, DepthAssumption, ClockAssumption
       DEF Init, TxInit, WriterInv, TxTypeOK, ElapsedInv, Waiting, WriteLabels
<1>2. RateInv
  <2>1. PICK r \in Rates :
           /\ Divisible(r[1], r[2], high_speed)
           /\ BRG  = BrgLow(Brg(r[1], r[2], high_speed))
           /\ BRGH = BrgHigh(Brg(r[1], r[2], high_speed))
           /\ uart_clk_hz_applied = r[1]
           /\ baudrate_applied = r[2]
    BY Zenon DEF Init
  <2>2. high_speed \in BOOLEAN /\ pc = "idle"
    BY Zenon DEF Init
  <2>3. BRG \in 0 .. 2 ^ 16 - 1 /\ BRGH \in 0 .. 2 ^ 4 - 1 /\ Applied
    BY <2>1, <2>2, RateRegisters, Zenon DEF Applied
  <2>4. <<r[1], r[2]>> \in Rates
    BY RatesAssumption
  <2> QED
    BY <2>1, <2>2, <2>3, <2>4 DEF RateInv
<1>3. RestInv
  <2>1. URXEN \in BOOLEAN /\ tx_async_busy \in BOOLEAN /\ rx_async_busy \in BOOLEAN
    BY Zenon DEF Init
  <2> QED
    BY <2>1, NoModeOK, TransferAssumption DEF Init, RestInv, Labels
<1> QED
  BY <1>1, <1>2, <1>3 DEF IInv

(* A value SetMode() writes is a value of its bits.                        *)
LEMMA SetModeTypes ==
  ASSUME WriterInv, NEW tx \in BOOLEAN, NEW rx \in BOOLEAN, SetMode(tx, rx)
  PROVE  UTXEN' \in BOOLEAN /\ URXEN' \in BOOLEAN /\ level' \in 0 .. TxDepth
<1>1. UTXEN' \in BOOLEAN /\ URXEN' \in BOOLEAN
  BY Zenon DEF SetMode
<1>2. level' = level \/ level' = 0
  BY Zenon DEF SetMode
<1> QED
  BY <1>1, <1>2, DepthAssumption DEF WriterInv, TxTypeOK

(* IInv is inductive: one step for every group of actions.                 *)
LEMMA Inductive == IInv /\ [Next]_vars => IInv'
<1> SUFFICES ASSUME IInv, [Next]_vars PROVE IInv'
  OBVIOUS
<1> USE DEF IInv
<1>0. TxTypeOK
  BY DEF WriterInv
<1>1. CASE Hardware
  <2>1. level' \in 0 .. TxDepth /\ shifting' \in BOOLEAN
    <3>1. CASE Load /\ UNCHANGED other
      <4>1. shifting' \in BOOLEAN
        BY <3>1, Zenon DEF Load
      <4> QED
        BY <1>0, <3>1, <4>1, DepthAssumption DEF Load, TxTypeOK
    <3>2. CASE Finish /\ UNCHANGED other
      <4>1. shifting' \in BOOLEAN
        BY <3>2, Zenon DEF Finish
      <4> QED
        BY <1>0, <3>2, <4>1 DEF Finish, TxTypeOK
    <3> QED
      BY <1>1, <3>1, <3>2 DEF Hardware
  <2>2. UNCHANGED <<timeout_ms, UTXEN, clock, writer, other>>
    BY <1>1 DEF Hardware, Load, Finish
  <2>3. WriterInv'
    BY <1>0, <2>1, <2>2, WriterElse DEF TxTypeOK
  <2>4. RateInv' /\ RestInv'
    BY <2>2, RateElse DEF other, taskVars, asyncVars, RestInv
  <2> QED
    BY <2>3, <2>4
<1>2. CASE Time \/ Write \/ Writing
  <2>1. UNCHANGED other /\ WriterInv'
    BY <1>2, WriterTick, WriterCall DEF Time, Write, Writing
  <2>2. RateInv' /\ RestInv'
    BY <2>1, RateElse DEF other, taskVars, asyncVars, RestInv
  <2> QED
    BY <2>1, <2>2
<1>3. CASE TxInterrupt
  <2>1. PICK n \in Nat :
          /\ n <= tx_left /\ n <= TxDepth - level
          /\ level' = level + n /\ tx_left' = tx_left - n
          /\ tx_async_busy' = (tx_left > n)
    BY <1>0, <1>3, DepthAssumption, TransferAssumption
       DEF TxInterrupt, RestInv, TxTypeOK
  <2>2. tx_async_busy' \in BOOLEAN
    <3>1. (tx_left > n) \in BOOLEAN
      OBVIOUS
    <3> QED
      BY <2>1, <3>1, Zenon
  <2>3. UNCHANGED <<timeout_ms, shifting, UTXEN, clock, writer, URXEN,
                    rateVars, rx_async_busy, taskVars>>
    BY <1>3 DEF TxInterrupt
  <2>4. level' \in 0 .. TxDepth /\ tx_left' \in 0 .. TxLength
    BY <1>0, <2>1, DepthAssumption, TransferAssumption DEF RestInv, TxTypeOK
  <2>5. WriterInv'
    BY <1>0, <2>3, <2>4, WriterElse DEF TxTypeOK
  <2>6. RateInv'
    BY <2>3, RateElse DEF taskVars
  <2>7. RestInv'
    BY <2>2, <2>3, <2>4 DEF RestInv, taskVars
  <2> QED
    BY <2>5, <2>6, <2>7
<1>4. CASE RxComplete \/ TxStart \/ RxStart \/ Abort
  <2>1. UNCHANGED <<txVars, URXEN, rateVars, taskVars>>
    BY <1>4 DEF RxComplete, TxStart, RxStart, Abort
  <2>2. /\ tx_async_busy' \in {tx_async_busy, TRUE, FALSE}
        /\ rx_async_busy' \in {rx_async_busy, TRUE, FALSE}
        /\ tx_left' \in {tx_left, 0, TxLength}
    BY <1>4, Zenon DEF RxComplete, TxStart, RxStart, Abort
  <2>3. tx_async_busy' \in BOOLEAN /\ rx_async_busy' \in BOOLEAN
    BY <2>2, Zenon DEF RestInv
  <2>4. WriterInv'
    BY <1>0, <2>1, WriterElse DEF TxTypeOK, txVars, txHw
  <2>5. RateInv'
    BY <2>1, RateElse DEF taskVars
  <2>6. RestInv'
    BY <2>1, <2>2, <2>3, TransferAssumption DEF RestInv, taskVars
  <2> QED
    BY <2>4, <2>5, <2>6
<1>5. CASE CallbackEnable \/ WriteMode
  <2>1. \E tx \in BOOLEAN, rx \in BOOLEAN : SetMode(tx, rx)
    <3>1. CASE CallbackEnable
      BY <1>0, <3>1, Zenon DEF CallbackEnable, TxTypeOK, RestInv
    <3>2. CASE WriteMode
      <4>1. bit \in Bits \X BOOLEAN
        BY <3>2 DEF WriteMode, RestInv
      <4>2. [mode EXCEPT ![bit[1]] = bit[2]] \in [Bits -> BOOLEAN]
        BY <4>1 DEF RestInv
      <4>3. "UTXEN" \in Bits /\ "URXEN" \in Bits
        BY DEF Bits
      <4> QED
        BY <3>2, <4>2, <4>3, Zenon DEF WriteMode
    <3> QED
      BY <1>5, <3>1, <3>2
  <2>2. UTXEN' \in BOOLEAN /\ URXEN' \in BOOLEAN /\ level' \in 0 .. TxDepth
    BY <2>1, SetModeTypes
  <2>3. /\ UNCHANGED <<timeout_ms, shifting, clock, writer, rateVars, asyncVars, rate>>
        /\ \/ UNCHANGED <<pc, bit, mode>>
           \/ pc = "en_write" /\ pc' = "idle" /\ bit' = NoBit /\ mode' = NoMode
    BY <1>5 DEF CallbackEnable, WriteMode, taskVars
  <2>4. WriterInv'
    BY <1>0, <2>2, <2>3, WriterElse DEF TxTypeOK
  <2>5. RateInv'
    BY <2>3, RateElse
  <2>6. RestInv'
    BY <2>2, <2>3, NoModeOK DEF RestInv, asyncVars, Labels
  <2> QED
    BY <2>4, <2>5, <2>6
<1>6. CASE CallEnable \/ ReadMode
  <2>1. UNCHANGED <<txVars, URXEN, rateVars, asyncVars, rate>>
    BY <1>6 DEF CallEnable, ReadMode
  <2>2. \/ /\ pc = "idle" /\ pc' = "en_read" /\ mode' = mode
           /\ bit' \in Bits \X BOOLEAN
        \/ /\ pc = "en_read" /\ pc' = "en_write" /\ bit' = bit
           /\ mode' \in [Bits -> BOOLEAN]
    BY <1>0, <1>6 DEF CallEnable, ReadMode, Quiet, TxTypeOK, RestInv
  <2>3. WriterInv'
    BY <1>0, <2>1, WriterElse DEF TxTypeOK, txVars, txHw
  <2>4. RateInv'
    BY <2>1, <2>2, RateElse
  <2>5. RestInv'
    BY <2>1, <2>2 DEF RestInv, asyncVars, Labels
  <2> QED
    BY <2>3, <2>4, <2>5
<1>7. CASE CallSetBaudrate \/ Rating
  <2>1. UNCHANGED <<txVars, URXEN, asyncVars, bit, mode>>
    BY <1>7 DEF CallSetBaudrate, Rating, BaudFull, BaudBusy, BaudLow, BaudHigh
  <2>2. WriterInv'
    BY <1>0, <2>1, WriterElse DEF TxTypeOK, txVars, txHw
  <2>3. rate' \in Rates \cup {NoRate} /\ pc' \in Labels \ {"en_read", "en_write"}
    BY <1>7 DEF CallSetBaudrate, Rating, BaudFull, BaudBusy, BaudLow, BaudHigh,
       Refuse, RestInv, Labels
  <2>4. RestInv'
    BY <2>1, <2>3 DEF RestInv, asyncVars
  <2> QED
    BY <1>7, <2>2, <2>4, RateSteps
<1>8. CASE UNCHANGED vars
  <2>1. WriterInv'
    BY <1>0, <1>8, WriterElse DEF TxTypeOK, vars, txVars, txHw
  <2> QED
    BY <1>8, <2>1, RateElse DEF vars, taskVars, asyncVars, RestInv
<1> QED
  BY <1>1, <1>2, <1>3, <1>4, <1>5, <1>6, <1>7, <1>8 DEF Next, Background, Enabling

(* Every reachable state satisfies it.                                     *)
THEOREM Invariance == Spec => []IInv
<1> QED
  BY InitIInv, Inductive, PTL DEF Spec

(* The variables keep their types: the divisor registers hold 16 and 4     *)
(* bits, and the transmit FIFO is never written when it is full.           *)
THEOREM TypeInvariant == Spec => []TypeOK
<1>1. IInv => TypeOK
  BY DEF IInv, WriterInv, RateInv, RestInv, TypeOK
<1> QED
  BY <1>1, Invariance, PTL

(* Between two calls the hardware divides by the divisor nearest to the    *)
(* rate that get_baudrate() reports, for every set of rates.               *)
THEOREM RateIsNearest == Spec => []RateNearest
<1>1. IInv => RateNearest
  BY DEF IInv, RateInv, Applied, RateNearest
<1> QED
  BY <1>1, Invariance, PTL

(* A blocking write never waits longer than its timeout and the time       *)
(* between two of its looks at the clock, for every period of the clock.   *)
THEOREM Prompt == Spec => []TimeoutPrompt
<1>1. IInv => TimeoutPrompt
  <2> SUFFICES ASSUME IInv, Waiting PROVE waited < timeout_ms + PollWithin
    BY DEF TimeoutPrompt
  <2>1. waited < timeout_ms + unpolled /\ timeout_ms \in Nat
    BY Slack DEF IInv
  <2> QED
    BY <2>1, ClockAssumption DEF IInv, WriterInv, TxTypeOK
<1> QED
  BY <1>1, Invariance, PTL

(* It never gives up before its timeout has passed.                        *)
THEOREM Honest == Spec => TimeoutHonest
<1>1. IInv /\ [Next]_vars =>
        [write_pc = "clock" /\ write_pc' = "idle" => waited >= timeout_ms]_txVars
  <2> SUFFICES ASSUME IInv, [Next]_vars, write_pc = "clock", write_pc' = "idle"
               PROVE  waited >= timeout_ms
    OBVIOUS
  <2>1. CheckClock
    BY DEF Next, Hardware, Time, Background, Write, Writing, WriteStep, Enabling,
       Rating, Load, Finish, Tick, CallWrite, StartClock, WriteByte, TestFull,
       TxInterrupt, RxComplete, TxStart, RxStart, Abort, CallbackEnable,
       CallEnable, ReadMode, WriteMode, CallSetBaudrate, BaudFull, BaudBusy,
       BaudLow, BaudHigh, vars, txVars, writer
  <2>2. (now - start_ms) % ClockPeriod >= timeout_ms
    BY <2>1 DEF CheckClock, Expired
  <2>3. CASE timeout_ms # 0
    BY <2>2, <2>3 DEF IInv, WriterInv, ElapsedInv, Waiting
  <2>4. CASE timeout_ms = 0
    BY <2>4, ClockAssumption DEF IInv, WriterInv, TxTypeOK
  <2> QED
    BY <2>3, <2>4
<1> QED
  BY <1>1, Invariance, PTL DEF Spec, TimeoutHonest
=============================================================================
