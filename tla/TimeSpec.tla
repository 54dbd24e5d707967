-------------------------------- MODULE TimeSpec --------------------------------
(***************************************************************************)
(* lib/time.c: arithmetic on struct timespec.  A normal timespec has its     *)
(* nanoseconds within one second; the loops of time_normalize_timeval carry  *)
(* whole seconds one at a time, here at once.  long is wide enough for every *)
(* time the program measures.                                                *)
(***************************************************************************)
EXTENDS Integers

CONSTANTS UsecPerSec, NsecPerUsec   \* 1000 * 1000 and 1000

ASSUME UnitAssumption == UsecPerSec \in Nat \ {0, 1} /\ NsecPerUsec \in Nat \ {0, 1}

NSEC_PER_SEC == UsecPerSec * NsecPerUsec

timespec == [tv_sec : Int, tv_nsec : Int]

normal(t) == t \in timespec /\ t.tv_nsec \in 0 .. NSEC_PER_SEC - 1

nanoseconds(t) == t.tv_sec * NSEC_PER_SEC + t.tv_nsec

nsec_to_timespec(ns) ==
  [tv_sec |-> ns \div NSEC_PER_SEC, tv_nsec |-> ns % NSEC_PER_SEC]

(* The seconds that are carried.  One is not carried at exactly NSEC_PER_SEC, *)
(* where the loop condition is > and not >=.                                 *)
carry(nsec) ==
  IF nsec > NSEC_PER_SEC THEN (nsec - 1) \div NSEC_PER_SEC
  ELSE IF nsec < 0 THEN nsec \div NSEC_PER_SEC
  ELSE 0

time_normalize_timeval(t) ==
  [tv_sec |-> t.tv_sec + carry(t.tv_nsec),
   tv_nsec |-> t.tv_nsec - carry(t.tv_nsec) * NSEC_PER_SEC]

time_delta(stop, start) ==
  time_normalize_timeval([tv_sec |-> stop.tv_sec - start.tv_sec,
                          tv_nsec |-> stop.tv_nsec - start.tv_nsec])

time_add(t0, t1) ==
  time_normalize_timeval([tv_sec |-> t0.tv_sec + t1.tv_sec,
                          tv_nsec |-> t0.tv_nsec + t1.tv_nsec])

time_us_from_timespec(t) == t.tv_sec * UsecPerSec + t.tv_nsec \div NsecPerUsec
===============================================================================
