------------------------------ MODULE SamplingRatio ------------------------------
(***************************************************************************)
(* How many frames an internal tick has: clock_tick_interval / acq_interval, *)
(* a quotient of floats truncated to an int (select.c), where both intervals *)
(* are themselves float quotients of the numbers of the command line         *)
(* (main.c).  A positive float is its mantissa, an integer of 24 bits, and   *)
(* its exponent; a quotient is computed bit by bit and rounded to nearest,   *)
(* ties to even.                                                             *)
(***************************************************************************)
EXTENDS Integers

CONSTANTS
  AcqDenominators,    \* acq_interval is 1 / d seconds, d \in 1 .. 1000
  ClockDenominators   \* clock_tick_interval is 1 / d seconds

VARIABLES
  acq_interval, clock_tick_interval,   \* the denominators
  frame_acc_count,                     \* 0 until it is computed
  sampling_resolution

vars == <<acq_interval, clock_tick_interval, frame_acc_count, sampling_resolution>>

-------------------------------------------------------------------------------
(* Floats. *)

Float == [mantissa : 2^23 .. 2^24 - 1, exponent : Int]

normalize(m, e) ==
  IF m = 2^24 THEN [mantissa |-> 2^23, exponent |-> e + 1]
              ELSE [mantissa |-> m, exponent |-> e]

(* (float )n for 0 < n < 2^24: exact.                                        *)
to_float(n) ==
  LET shift == CHOOSE k \in 0 .. 23 : 2^23 \div 2^k <= n /\ n < 2^(24 - k)
  IN [mantissa |-> n * 2^shift, exponent |-> -shift]

(* Long division of the mantissas to 24 bits, then rounding.                 *)
float_quotient(x, y) ==
  LET a == x.mantissa
      b == y.mantissa
      bits == IF a >= b THEN 23 ELSE 24
      long[n \in 0 .. 24] ==
        IF n = 0 THEN [q |-> a \div b, r |-> a % b]
        ELSE LET before == long[n - 1]
             IN [q |-> 2 * before.q + (2 * before.r) \div b,
                 r |-> (2 * before.r) % b]
      result == long[bits]
      up == IF 2 * result.r > b \/ (2 * result.r = b /\ result.q % 2 = 1)
            THEN 1 ELSE 0
  IN normalize(result.q + up, x.exponent - y.exponent - bits)

(* (int )x for 1 <= x < 2^24.                                                *)
truncate(x) == x.mantissa \div 2^(-x.exponent)

interval(denominator) == float_quotient(to_float(1), to_float(denominator))

resolution(acq, clock) ==
  truncate(float_quotient(interval(clock), interval(acq)))

-------------------------------------------------------------------------------
(* The arguments are such that s_res is an integer, and at least 3.          *)
Init ==
  /\ acq_interval \in AcqDenominators
  /\ clock_tick_interval \in ClockDenominators
  /\ acq_interval % clock_tick_interval = 0
  /\ acq_interval >= 3 * clock_tick_interval
  /\ frame_acc_count = 0
  /\ sampling_resolution = 0

frame_acc_count_of(s) == s + 1 + 1 + 2

(* The assertion sampling_resolution >= 3 may reject the arguments.          *)
select_get_frame_acc_count ==
  LET s == resolution(acq_interval, clock_tick_interval) IN
  /\ frame_acc_count = 0
  /\ s >= 3
  /\ sampling_resolution' = s
  /\ frame_acc_count' = frame_acc_count_of(s)
  /\ UNCHANGED <<acq_interval, clock_tick_interval>>

Next == select_get_frame_acc_count

Spec == Init /\ [][Next]_vars

-------------------------------------------------------------------------------
(* Properties. *)

exact_resolution == acq_interval \div clock_tick_interval

(* doc/1_system-design.md:36-42: s_res is the integer factor between the      *)
(* acquisition interval and the interval of the clock.                       *)
ResolutionIsExact ==
  frame_acc_count > 0 => sampling_resolution = exact_resolution
===============================================================================
