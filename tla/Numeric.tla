------------------------------ MODULE Numeric ------------------------------
(***************************************************************************)
(* The two computations of the client where a number can leave its range:   *)
(* reading a decimal number of a packet header (parse_nonnegative_int of      *)
(* src/json_parser.cpp) and the delay before a reconnection attempt           *)
(* (src/reconnection.cpp).                                                  *)
(*                                                                         *)
(* The jitter factor and the jitter sample, doubles in the code, are here     *)
(* multiples of 1/Scale, so that the arithmetic of the code, which is in      *)
(* long double, is exact.                                                   *)
(***************************************************************************)
EXTENDS Integers

AtLeast(x, low) == IF x < low THEN low ELSE x
AtMost(x, high) == IF x > high THEN high ELSE x
Clamp(x, low, high) == AtMost(AtLeast(x, low), high)
-----------------------------------------------------------------------------
(* parse_nonnegative_int, one digit at a time; intMax is the largest int.       *)

TooLarge(result, digit, intMax) == result > (intMax - digit) \div 10

\* -1 stands for the return of false.
AppendDigit(result, digit, intMax) ==
    IF result = -1 \/ TooLarge(result, digit, intMax) THEN -1 ELSE result * 10 + digit
-----------------------------------------------------------------------------
(* reconnect_delay_for_attempt.                                                *)

\* std::llround of n/d, for n >= 0.
Round(n, d) == (2 * n + d) \div (2 * d)

\* exponential * (1 - factor + 2 * factor * sample), at most the maximum.
Jittered(exponential, maximum, factor, sample, scale) ==
    LET weighted == exponential * (scale * scale - factor * scale + 2 * factor * sample)
    IN  IF weighted >= maximum * (scale * scale)
          THEN maximum
          ELSE Round(weighted, scale * scale)

Exponent(attempt) == IF attempt <= 1 THEN 0 ELSE AtMost(attempt - 1, 62)

\* 0 <= jitter_factor, jitter_sample <= scale after the clamps.
ReconnectDelay(initial_delay, max_delay, jitter_factor, attempt, jitter_sample, scale) ==
    LET initial     == AtLeast(initial_delay, 0)
        maximum     == AtLeast(max_delay, 0)
        exponential == AtMost(initial * 2 ^ Exponent(attempt), maximum)
    IN  Jittered(exponential, maximum, Clamp(jitter_factor, 0, scale),
                 Clamp(jitter_sample, 0, scale), scale)
=============================================================================
