-------------------------------- MODULE Baud --------------------------------
(***************************************************************************)
(* The baud rate divisor of nora_uart_dspic33ck.c: uart_calc_brg_raw(),    *)
(* which nora_uart_init() and nora_uart_set_baudrate() share, and the two  *)
(* registers its result is split over.  Pure operators: there is no state. *)
(***************************************************************************)
EXTENDS Integers

U32 == 2 ^ 32
U64 == U32 * U32
NORA_UART_BRG_MAX == 2 ^ 20 - 1

\* What uart_clk_hz and baudrate may be once zero has been refused, and
\* what of it fits their type.
Hertz    == Nat \ {0}
Hertz_32 == {f \in Hertz : f < U32}

sample_div(high_speed) == IF high_speed THEN 4 ELSE 16

denominator(baud, high_speed) == sample_div(high_speed) * baud

\* The ratio of the clock to the sampling rate, rounded to the nearest.
Div(clk, baud, high_speed) ==
    LET den == denominator(baud, high_speed)
    IN  (clk + den \div 2) \div den

\* ERR_INVALID_ARG otherwise.
Divisible(clk, baud, high_speed) ==
    LET div == Div(clk, baud, high_speed)
    IN  div # 0 /\ div - 1 <= NORA_UART_BRG_MAX

Brg(clk, baud, high_speed) == Div(clk, baud, high_speed) - 1

\* *r->BRG and *r->BRGH.
BrgLow(brg)  == brg % 2 ^ 16
BrgHigh(brg) == (brg \div 2 ^ 16) % 2 ^ 4

-----------------------------------------------------------------------------
(* What the hardware divides by, given its two registers, and what it      *)
(* means that no other divisor is nearer to the ratio asked for.           *)

Divisor(low, high) == low + high * 2 ^ 16 + 1

Abs(n) == IF n < 0 THEN -n ELSE n

Nearest(div, clk, baud, high_speed) ==
    LET den == denominator(baud, high_speed)
    IN  2 * Abs(clk - div * den) <= den
=============================================================================
