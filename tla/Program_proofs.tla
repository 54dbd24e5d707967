----------------------------- MODULE Program_proofs -----------------------------
(***************************************************************************)
(* Proofs about the program from main() to its return, for any fractions on  *)
(* the command line, any units, any camera and any number of SIGINTs.        *)
(*                                                                         *)
(* The invariants are built up in layers, each resting on those before it:   *)
(* the timer's period (TimerInv); which threads may exist where main is, and *)
(* the semaphore they wait for (ThreadInv); what main's place says of the    *)
(* camera, the handler and the result (PlaceInv); whose the frames are       *)
(* (FrameInv, with CameraInv of Camera_proofs: the program is a client of    *)
(* the camera); parameters, wake-ups and outcomes after a set up that failed *)
(* half way (SetupInv); and the remaining types (TypesInv).  The lemmas on    *)
(* the clocks come first, those on the images and ImageInv last.             *)
(***************************************************************************)
EXTENDS Program, Camera_proofs, ModArith, FiniteSetTheorems

(***************************************************************************)
(* What lib/time.c computes, for any units: the difference of two normal     *)
(* timespecs is exact and normal, their sum is exact and almost normal, and  *)
(* a period in nanoseconds is a normal timespec.                             *)
(***************************************************************************)

(* A second has at least two nanoseconds.                                    *)
LEMMA SecondType == NSEC_PER_SEC \in Nat \ {0}
<1> DEFINE u == UsecPerSec
           n == NsecPerUsec
<1>1. u \in Nat /\ n \in Nat /\ u >= 1 /\ n >= 1
  BY UnitAssumption
<1>2. u * n \in Nat
  BY <1>1
<1>3. u * n >= u
  BY <1>1, SMT
<1> QED
  BY <1>1, <1>2, <1>3 DEF NSEC_PER_SEC

(* time_normalize_timeval never changes the time, only how it is split.      *)
THEOREM NormalizeIsExact ==
  ASSUME NEW t \in timespec, carry(t.tv_nsec) \in Int
  PROVE  /\ time_normalize_timeval(t) \in timespec
         /\ nanoseconds(time_normalize_timeval(t)) = nanoseconds(t)
<1> DEFINE c == carry(t.tv_nsec)
           N == NSEC_PER_SEC
<1>1. c \in Int /\ N \in Int /\ t.tv_sec \in Int /\ t.tv_nsec \in Int
  BY SecondType DEF timespec
<1>2. time_normalize_timeval(t) = [tv_sec |-> t.tv_sec + c, tv_nsec |-> t.tv_nsec - c * N]
  BY DEF time_normalize_timeval
<1> HIDE DEF c, N
<1>3. c * N \in Int /\ t.tv_sec * N \in Int
  BY <1>1
<1>4. time_normalize_timeval(t) \in timespec
  BY <1>1, <1>2, <1>3 DEF timespec
<1>5. (t.tv_sec + c) * N = t.tv_sec * N + c * N
  BY <1>1
<1>6. (t.tv_sec + c) * N + (t.tv_nsec - c * N) = t.tv_sec * N + t.tv_nsec
  BY <1>1, <1>3, <1>5
<1> QED
  BY <1>2, <1>4, <1>6 DEF nanoseconds, N

(* Between minus one second and two, what is carried is -1, 0 or 1; and at    *)
(* exactly one second it is 0 (time.c:116).                                  *)
LEMMA CarryOfTwo ==
  ASSUME NEW nsec \in Int, 0 - NSEC_PER_SEC < nsec, nsec < 2 * NSEC_PER_SEC
  PROVE  carry(nsec) = IF nsec < 0 THEN 0 - 1 ELSE IF nsec > NSEC_PER_SEC THEN 1 ELSE 0
<1> DEFINE N == NSEC_PER_SEC
<1>1. N \in Nat \ {0}
  BY SecondType
<1> HIDE DEF N
<1>2. CASE nsec > N
  <2>1. nsec - 1 - N \in 0 .. N - 1
    BY <1>1, <1>2 DEF N
  <2>2. (1 * N + (nsec - 1 - N)) \div N = 1
    BY <1>1, <2>1, DivModUnique
  <2>3. 1 * N + (nsec - 1 - N) = nsec - 1
    BY <1>1
  <2> QED
    BY <1>1, <1>2, <2>2, <2>3 DEF carry, N
<1>3. CASE nsec < 0
  <2>1. nsec \div N = 0 - 1
    BY <1>1, <1>3, SMTT(30) DEF N
  <2> QED
    BY <1>1, <1>3, <2>1 DEF carry, N
<1>4. CASE 0 <= nsec /\ nsec <= N
  BY <1>1, <1>4 DEF carry, N
<1> QED
  BY <1>1, <1>2, <1>3, <1>4

(* The runtimes the services measure (frame_acq.c:155, select.c:144): the     *)
(* difference of two normal times is exact and normal, negative ones too.    *)
THEOREM DifferenceIsExact ==
  ASSUME NEW stop, NEW start, normal(stop), normal(start)
  PROVE  /\ normal(time_delta(stop, start))
         /\ nanoseconds(time_delta(stop, start)) = nanoseconds(stop) - nanoseconds(start)
<1> DEFINE N == NSEC_PER_SEC
           t == [tv_sec |-> stop.tv_sec - start.tv_sec,
                 tv_nsec |-> stop.tv_nsec - start.tv_nsec]
<1>1. N \in Nat \ {0}
  BY SecondType
<1>2. /\ stop.tv_sec \in Int /\ start.tv_sec \in Int
      /\ stop.tv_nsec \in 0 .. N - 1 /\ start.tv_nsec \in 0 .. N - 1
  BY DEF normal, timespec
<1>3. t \in timespec /\ t.tv_nsec = stop.tv_nsec - start.tv_nsec
  BY <1>1, <1>2 DEF timespec
<1>4. time_delta(stop, start) = time_normalize_timeval(t)
  BY DEF time_delta
<1>5. nanoseconds(t) = nanoseconds(stop) - nanoseconds(start)
  <2>1. (stop.tv_sec - start.tv_sec) * N = stop.tv_sec * N - start.tv_sec * N
    BY <1>1, <1>2
  <2>2. stop.tv_sec * N \in Int /\ start.tv_sec * N \in Int
    BY <1>1, <1>2
  <2> QED
    BY <1>1, <1>2, <2>1, <2>2 DEF nanoseconds
<1> HIDE DEF N
<1>6. 0 - N < t.tv_nsec /\ t.tv_nsec < N /\ t.tv_nsec \in Int
  BY <1>1, <1>2, <1>3
<1>7. carry(t.tv_nsec) = IF t.tv_nsec < 0 THEN 0 - 1 ELSE 0
  BY <1>1, <1>6, CarryOfTwo DEF N
<1> HIDE DEF t
<1>8. /\ time_normalize_timeval(t) \in timespec
      /\ nanoseconds(time_normalize_timeval(t)) = nanoseconds(t)
  BY <1>3, <1>7, NormalizeIsExact
<1>9. time_normalize_timeval(t).tv_nsec \in 0 .. N - 1
  BY <1>1, <1>6, <1>7 DEF time_normalize_timeval, N
<1> QED
  BY <1>4, <1>5, <1>8, <1>9 DEF normal, N

(* Time stamps that are added up: exact, and normal but for a sum of          *)
(* nanoseconds that is one second to the dot (time.c:116).                   *)
THEOREM SumIsExact ==
  ASSUME NEW t0, NEW t1, normal(t0), normal(t1)
  PROVE  /\ nanoseconds(time_add(t0, t1)) = nanoseconds(t0) + nanoseconds(t1)
         /\ normal(time_add(t0, t1)) <=> t0.tv_nsec + t1.tv_nsec # NSEC_PER_SEC
<1> DEFINE N == NSEC_PER_SEC
           t == [tv_sec |-> t0.tv_sec + t1.tv_sec, tv_nsec |-> t0.tv_nsec + t1.tv_nsec]
<1>1. N \in Nat \ {0}
  BY SecondType
<1>2. /\ t0.tv_sec \in Int /\ t1.tv_sec \in Int
      /\ t0.tv_nsec \in 0 .. N - 1 /\ t1.tv_nsec \in 0 .. N - 1
  BY DEF normal, timespec
<1>3. t \in timespec /\ t.tv_nsec = t0.tv_nsec + t1.tv_nsec
  BY <1>1, <1>2 DEF timespec
<1>4. time_add(t0, t1) = time_normalize_timeval(t)
  BY DEF time_add
<1>5. nanoseconds(t) = nanoseconds(t0) + nanoseconds(t1)
  <2>1. (t0.tv_sec + t1.tv_sec) * N = t0.tv_sec * N + t1.tv_sec * N
    BY <1>1, <1>2
  <2>2. t0.tv_sec * N \in Int /\ t1.tv_sec * N \in Int
    BY <1>1, <1>2
  <2> QED
    BY <1>1, <1>2, <2>1, <2>2 DEF nanoseconds
<1> HIDE DEF N
<1>6. 0 <= t.tv_nsec /\ t.tv_nsec <= 2 * N - 2 /\ t.tv_nsec \in Int
  BY <1>1, <1>2, <1>3
<1>7. carry(t.tv_nsec) = IF t.tv_nsec > N THEN 1 ELSE 0
  BY <1>1, <1>6, CarryOfTwo DEF N
<1>8. t.tv_nsec = t0.tv_nsec + t1.tv_nsec
  BY <1>3
<1> HIDE DEF t
<1>9. /\ time_normalize_timeval(t) \in timespec
      /\ nanoseconds(time_normalize_timeval(t)) = nanoseconds(t)
  BY <1>3, <1>7, NormalizeIsExact
<1>10. time_normalize_timeval(t).tv_nsec = IF t.tv_nsec > N THEN t.tv_nsec - N ELSE t.tv_nsec
  BY <1>1, <1>6, <1>7 DEF time_normalize_timeval, N
<1>11. time_normalize_timeval(t).tv_nsec \in 0 .. N - 1 <=> t.tv_nsec # N
  BY <1>1, <1>6, <1>10
<1> QED
  BY <1>4, <1>5, <1>8, <1>9, <1>11 DEF normal, N

(* A period is a timespec timer_settime accepts, and loses nothing            *)
(* (time.c:62-71).                                                           *)
THEOREM PeriodIsNormal ==
  ASSUME NEW ns \in Nat
  PROVE  /\ normal(nsec_to_timespec(ns))
         /\ nanoseconds(nsec_to_timespec(ns)) = ns
<1>1. NSEC_PER_SEC \in Nat \ {0}
  BY SecondType
<1>2. /\ ns \div NSEC_PER_SEC \in Nat
      /\ ns = (ns \div NSEC_PER_SEC) * NSEC_PER_SEC + (ns % NSEC_PER_SEC)
      /\ ns % NSEC_PER_SEC \in 0 .. NSEC_PER_SEC - 1
  BY <1>1, DivModExists, ModRange
<1> QED
  BY <1>1, <1>2 DEF normal, timespec, nanoseconds, nsec_to_timespec

-------------------------------------------------------------------------------
(* The program: which thread may be where. *)

(* Where main is between the check of the intervals and their use.           *)
SettingUp == {"reset", "init_acq", "init_queues", "init_sem", "setup", "camera_init",
              "set_format", "init_buffer", "stream_start", "create"}

admitted(acq) == above_threshold(acq) /\ acq.denominator > 0

TimerInv ==
  /\ args \in Args
  /\ main \in SettingUp => admitted(args.acq_interval)
  /\ main = "parse" => timer = Off
  /\ TimerPeriodValid

(* select_get_frame_acc_count lets no interval pass that is zero, infinite or *)
(* not a number.                                                             *)
LEMMA AdmittedIntervals ==
  ASSUME NEW acq \in Fraction, NEW tick \in Fraction,
         NEW count \in select_get_frame_acc_count(acq, tick), count # "refused"
  PROVE  admitted(acq)
<1>1. above_threshold(acq)
  BY DEF select_get_frame_acc_count
<1>2. acq.denominator \in Nat
  BY BoundAssumption DEF Fraction
<1>3. Huge \in Nat /\ Huge > 0
  <2>1. MaxNumerator * MaxDenominator \in Nat
    BY BoundAssumption
  <2> QED
    BY <2>1 DEF Huge
<1>4. acq.denominator # 0
  <2>1. SUFFICES ASSUME acq.denominator = 0 PROVE FALSE
    OBVIOUS
  <2>2. sampling_resolution(acq, tick) = 0
    BY <2>1 DEF sampling_resolution
  <2>3. ~(0 >= 3) /\ Huge # 0
    BY <1>3
  <2>4. select_get_frame_acc_count(acq, tick) = {"refused"}
    BY <2>2, <2>3, Zenon DEF select_get_frame_acc_count
  <2> QED
    BY <2>4
<1> QED
  BY <1>1, <1>2, <1>4 DEF admitted

(* A quotient rounded down, and scaled: not above the exact one, and within   *)
(* one unit of it.                                                           *)
LEMMA RoundedDown ==
  ASSUME NEW a \in Nat, NEW den \in Nat \ {0}, NEW n \in Nat \ {0}
  PROVE  /\ (a \div den) * n \in Nat
         /\ ((a \div den) * n) * den <= a * n
         /\ a * n < ((a \div den) * n + n) * den
         /\ a >= den => (a \div den) * n > 0
<1> DEFINE q == a \div den
           r == a % den
<1>1. q \in Nat /\ a = q * den + r /\ r \in 0 .. den - 1
  BY DivModExists, ModRange
<1> HIDE DEF q, r
<1>2. q * n \in Nat /\ q * den \in Nat /\ r * n \in Nat /\ den * n \in Nat
      /\ (q * n) * den \in Nat
  BY <1>1
<1>3. a * n = (q * n) * den + r * n
  <2>1. a * n = (q * den) * n + r * n
    BY <1>1, <1>2
  <2>2. (q * den) * n = (q * n) * den
    BY <1>1
  <2> QED
    BY <2>1, <2>2
<1>4. r * n < den * n
  <2>1. den = r + (den - 1 - r) + 1 /\ den - 1 - r \in Nat
    BY <1>1
  <2> DEFINE k == den - 1 - r
  <2>2. den * n = r * n + k * n + n /\ k * n \in Nat
    BY <1>1, <2>1
  <2> QED
    BY <1>2, <2>2
<1>5. (q * n + n) * den = (q * n) * den + den * n
  BY <1>1, <1>2
<1>6. ASSUME a >= den PROVE q * n > 0
  <2>1. q # 0
    BY <1>1, <1>6
  <2>2. q * n # 0
    BY <1>1, <2>1, SMTT(30)
  <2> QED
    BY <1>2, <2>2
<1>7. (q * n) * den <= a * n
  BY <1>2, <1>3
<1>8. a * n < (q * n + n) * den
  <2> DEFINE A == a * n
             B == (q * n) * den
             C == r * n
             D == den * n
             E == (q * n + n) * den
  <2>1. B \in Nat /\ C \in Nat /\ D \in Nat /\ A = B + C /\ C < D /\ E = B + D
    BY <1>2, <1>3, <1>4, <1>5
  <2> HIDE DEF A, B, C, D, E
  <2>2. A < E
    BY <2>1
  <2> QED
    BY <2>2 DEF A, E
<1> QED
  BY <1>2, <1>6, <1>7, <1>8 DEF q

(* The period of an interval that is admitted is at most the interval, and    *)
(* less than a microsecond shorter, unless the product of main.c:454 wraps.  *)
LEMMA PeriodBounds ==
  ASSUME args \in Args, admitted(args.acq_interval)
  PROVE  LET ns == period_us * NsecPerUsec
             interval == args.acq_interval
         IN /\ ns \in Nat
            /\ UsecPerSec * interval.numerator < UintSize =>
                 /\ ns > 0
                 /\ ns * interval.denominator <= NSEC_PER_SEC * interval.numerator
                 /\ NSEC_PER_SEC * interval.numerator
                      < (ns + NsecPerUsec) * interval.denominator
<1> DEFINE num == args.acq_interval.numerator
           den == args.acq_interval.denominator
           a == UsecPerSec * num
           n == NsecPerUsec
           w == a % UintSize
<1>1. num \in Nat /\ den \in Nat \ {0} /\ MsecPerSec * num >= den
  BY BoundAssumption DEF Args, Fraction, admitted, above_threshold
<1>2. MsecPerSec \in Nat /\ UsecPerSec \in Nat /\ MsecPerSec <= UsecPerSec
  BY ScaleAssumption, UnitAssumption
<1>3. n \in Nat \ {0} /\ UintSize \in Nat \ {0}
  BY UnitAssumption, WidthAssumption
<1>4. period_us * NsecPerUsec = (w \div den) * n
  BY DEF period_us
<1>5. NSEC_PER_SEC * num = a * n
  <2> DEFINE u == UsecPerSec
  <2>1. NSEC_PER_SEC = u * n /\ u \in Nat
    BY <1>2 DEF NSEC_PER_SEC
  <2> HIDE DEF u, n, num
  <2>2. (u * n) * num = (u * num) * n
    BY <1>1, <1>3, <2>1
  <2> QED
    BY <2>1, <2>2 DEF u
<1> HIDE DEF num, den, n
<1>6. a \in Nat /\ a >= MsecPerSec * num
  BY <1>1, <1>2, SMTT(30)
<1>7. MsecPerSec * num \in Nat
  BY <1>1, <1>2
<1>8. a >= den
  BY <1>1, <1>6, <1>7
<1> HIDE DEF a
<1>9. w \in Nat /\ (a < UintSize => w = a)
  BY <1>3, <1>6
<1> HIDE DEF w
<1>10. (w \div den) * n \in Nat
  BY <1>1, <1>3, <1>9, RoundedDown
<1>11. ASSUME a < UintSize
       PROVE  /\ (w \div den) * n > 0
              /\ ((w \div den) * n) * den <= NSEC_PER_SEC * num
              /\ NSEC_PER_SEC * num < ((w \div den) * n + n) * den
  <2>1. w = a
    BY <1>9, <1>11
  <2>2. /\ (a \div den) * n > 0
        /\ ((a \div den) * n) * den <= a * n
        /\ a * n < ((a \div den) * n + n) * den
    BY <1>1, <1>3, <1>6, <1>8, RoundedDown
  <2> QED
    BY <1>5, <2>1, <2>2
<1> QED
  BY <1>4, <1>10, <1>11 DEF a, num, den, n

LEMMA TimerInit == ProgramInit => TimerInv
  BY BoundAssumption
  DEF ProgramInit, TimerInv, TimerPeriodValid, Args, Fraction, synchronome_def_args,
      SettingUp

(* What neither touches the intervals and the timer nor enters the set up.    *)
LEMMA Quiet ==
  ASSUME TimerInv, UNCHANGED <<args, timer>>, main' \in SettingUp => main \in SettingUp,
         main' = "parse" => main = "parse"
  PROVE  TimerInv'
  BY DEF TimerInv, TimerPeriodValid

(* Main's steps before and after the set up, and those that fail.            *)
LEMMA MainQuiet ==
  ASSUME TimerInv,
         \/ install_signal_handler \/ print_platform_info \/ log_exit
         \/ reset_stop \/ acq_queue_init \/ init_queues \/ init_sem \/ exits
         \/ setup \/ frame_acq_init \/ thread_create
         \/ frame_acq_exit \/ destroy \/ close_camera
  PROVE  TimerInv'
<1>1. CASE install_signal_handler \/ print_platform_info \/ log_exit
  BY <1>1, Quiet
  DEF install_signal_handler, print_platform_info, log_exit, succeeds_to, fails_to, goto,
      configVars, setupVars, SettingUp
<1>2. CASE reset_stop \/ acq_queue_init \/ init_queues \/ init_sem \/ exits
  BY <1>2, Quiet
  DEF reset_stop, acq_queue_init, init_queues, init_sem, exits, succeeds_to, fails_to,
      goto, configVars, setupVars, SettingUp
<1>3. CASE setup \/ thread_create
  BY <1>3, Quiet
  DEF setup, thread_create, succeeds_to, fails_to, goto, configVars, SettingUp
<1>4. CASE frame_acq_init
  <2>1. UNCHANGED <<args, timer>> /\ main \in SettingUp /\ main' # "parse"
    BY <1>4
    DEF frame_acq_init, frame_acq_init_streams, CAMERA_RUN, configVars, setupVars,
        SettingUp
  <2> QED
    BY <2>1, Quiet
<1>5. CASE frame_acq_exit \/ destroy \/ close_camera
  BY <1>5, Quiet
  DEF frame_acq_exit, destroy, close_camera, succeeds_to, fails_to, goto, configVars,
      setupVars, SettingUp
<1> QED
  BY <1>1, <1>2, <1>3, <1>4, <1>5

(* The threads end in no state of main that was not there before.            *)
LEMMA WaitQuiet ==
  ASSUME TimerInv, synchronome_wait
  PROVE  TimerInv'
<1>1. ASSUME NEW t, NEW from, NEW to, NEW also, to \notin SettingUp \cup {"parse"},
             thread_join_ret(t, from, to, also)
      PROVE  UNCHANGED <<args, timer>> /\ main' \notin SettingUp \cup {"parse"}
  BY <1>1
  DEF thread_join_ret, succeeds_to, fails_to, goto, configVars, setupVars, SettingUp
<1>2. CASE stop_capture
  BY <1>2, Quiet DEF stop_capture, succeeds_to, goto, configVars, setupVars, SettingUp
<1>3. CASE \E t, from, also :
             \E to \in {"stop_capture", "join_storage", "join_compressor",
                        "join_capture", "join_log", "frame_acq_exit"} :
               thread_join_ret(t, from, to, also)
  <2>1. PICK t, from, also :
          \E to \in {"stop_capture", "join_storage", "join_compressor",
                     "join_capture", "join_log", "frame_acq_exit"} :
            thread_join_ret(t, from, to, also)
    BY <1>3
  <2>2. PICK to \in {"stop_capture", "join_storage", "join_compressor",
                     "join_capture", "join_log", "frame_acq_exit"} :
          thread_join_ret(t, from, to, also)
    BY <2>1
  <2>3. to \notin SettingUp \cup {"parse"}
    BY <2>2 DEF SettingUp
  <2>4. UNCHANGED <<args, timer>> /\ main' \notin SettingUp \cup {"parse"}
    BY <1>1, <2>2, <2>3
  <2> QED
    BY <2>4, Quiet
<1>4. stop_capture
      \/ \E t, from, also :
           \E to \in {"stop_capture", "join_storage", "join_compressor",
                      "join_capture", "join_log", "frame_acq_exit"} :
             thread_join_ret(t, from, to, also)
  BY DEF synchronome_wait
<1> QED
  BY <1>2, <1>3, <1>4

(* The other threads, the signals, and the other commands.                   *)
LEMMA OthersQuiet ==
  ASSUME TimerInv,
         Services \/ sequencer \/ killed \/ synchronome_stop \/ synchronome_stop_blocks
         \/ push_start_interrupted \/ use_camera \/ capture_returns \/ convert_image
  PROVE  TimerInv'
<1>1. CASE Services
  <2>1. UNCHANGED <<args, timer>> /\ (UNCHANGED main \/ main' = "crashed")
    BY <1>1
    DEF Services, thread_starts, frame_acq_run, capture_waits, capture_returns_frame,
        capture_returned_frames, capture_gets_frame, capture_fails, capture_aborts,
        frame_acq_return_frame, select_ends, service_fails, service_hangs, service_ends,
        configVars, setupVars
  <2> QED
    BY <2>1, Quiet DEF SettingUp
<1>2. CASE sequencer \/ killed \/ synchronome_stop \/ synchronome_stop_blocks
           \/ push_start_interrupted \/ use_camera \/ capture_returns \/ convert_image
  <2>1. /\ UNCHANGED <<args, timer>>
        /\ UNCHANGED main \/ main' \in {"killed", "blocked", "exited", "done", "image"}
    BY <1>2
    DEF sequencer, killed, synchronome_stop, synchronome_stop_blocks,
        push_start_interrupted, use_camera, capture_returns, convert_image, succeeds_to,
        fails_to, goto, configVars, setupVars
  <2> QED
    BY <2>1, Quiet DEF SettingUp
<1> QED
  BY <1>1, <1>2

(* The step in which the intervals are checked.                              *)
LEMMA CountAdmits ==
  ASSUME TimerInv, count_frame_buffers
  PROVE  TimerInv'
<1>1. PICK tick \in Fraction :
        \E count \in select_get_frame_acc_count(args.acq_interval, tick) :
          IF count = "refused"
          THEN fails_to("acc_count", "log_exit") /\ UNCHANGED frame_buffer_count
          ELSE succeeds_to("acc_count", "reset") /\ frame_buffer_count' = count
  BY DEF count_frame_buffers
<1>2. PICK count \in select_get_frame_acc_count(args.acq_interval, tick) :
        IF count = "refused"
        THEN fails_to("acc_count", "log_exit") /\ UNCHANGED frame_buffer_count
        ELSE succeeds_to("acc_count", "reset") /\ frame_buffer_count' = count
  BY <1>1
<1>3. UNCHANGED <<args, timer>>
  BY DEF count_frame_buffers, setupVars
<1>4. args.acq_interval \in Fraction
  BY DEF TimerInv, Args
<1>5. CASE count = "refused"
  BY <1>2, <1>3, <1>5, Quiet DEF fails_to, goto, SettingUp
<1>6. CASE count # "refused"
  BY <1>2, <1>3, <1>4, <1>6, AdmittedIntervals
  DEF TimerInv, TimerPeriodValid, succeeds_to, goto
<1> QED
  BY <1>5, <1>6

(* The step in which the period is computed.                                 *)
LEMMA TimerGetsPeriod ==
  ASSUME TimerInv, time_add_timer
  PROVE  TimerInv'
<1>1. main = "create" /\ main' = "join_select" /\ UNCHANGED args
  BY DEF time_add_timer, succeeds_to, goto, configVars
<1> DEFINE ns == period_us * NsecPerUsec
           interval == args.acq_interval
<1>2. /\ ns \in Nat
      /\ UsecPerSec * interval.numerator < UintSize =>
           /\ ns > 0
           /\ ns * interval.denominator <= NSEC_PER_SEC * interval.numerator
           /\ NSEC_PER_SEC * interval.numerator < (ns + NsecPerUsec) * interval.denominator
  BY <1>1, PeriodBounds DEF TimerInv, SettingUp
<1>3. timer' = Off \/ timer' = nsec_to_timespec(ns)
  BY DEF time_add_timer
<1>4. timer' # Off => normal(timer') /\ nanoseconds(timer') = ns
  BY <1>2, <1>3, PeriodIsNormal
<1> HIDE DEF ns
<1>5. TimerPeriodValid'
  BY <1>1, <1>2, <1>4 DEF TimerPeriodValid
<1> QED
  BY <1>1, <1>5 DEF TimerInv, SettingUp

LEMMA TimerStep == TimerInv /\ [ProgramNext]_allVars => TimerInv'
<1> SUFFICES ASSUME TimerInv, [ProgramNext]_allVars PROVE TimerInv'
  OBVIOUS
<1>1. CASE UNCHANGED allVars
  BY <1>1, Quiet DEF allVars, configVars, setupVars
<1>2. CASE parse_cmd_line_args
  <2>1. /\ args' \in Args /\ timer = Off /\ timer' = Off
        /\ main' \notin SettingUp \cup {"parse"}
    BY <1>2
    DEF parse_cmd_line_args, succeeds_to, fails_to, goto, setupVars, SettingUp, TimerInv
  <2> QED
    BY <2>1 DEF TimerInv, TimerPeriodValid
<1>3. CASE ProgramNext /\ ~parse_cmd_line_args
  BY <1>1, <1>3, MainQuiet, WaitQuiet, OthersQuiet, CountAdmits, TimerGetsPeriod
  DEF ProgramNext, MainSteps, synchronome_setup, Environment, Finished
<1> QED
  BY <1>1, <1>2, <1>3

LEMMA TimerHolds == ProgramSpec => []TimerInv
  BY TimerInit, TimerStep, PTL DEF ProgramSpec

(* main.c:452-455, time.c:62-77: whatever fractions are given as intervals,   *)
(* the timer gets a valid timespec, and unless the 32-bit product of          *)
(* main.c:454 wraps, its period is the interval to the microsecond, and      *)
(* never zero.                                                               *)
THEOREM PeriodAlwaysValid == ProgramSpec => []TimerPeriodValid
<1>1. TimerInv => TimerPeriodValid
  BY DEF TimerInv
<1> QED
  BY <1>1, TimerHolds, PTL

-------------------------------------------------------------------------------
(* Threads and what they use. *)

ThreadState == {"none", "created", "running", "returning", "getting", "stuck", "ended"}

(* The threads of which main knows, where it is, that they do not run.       *)
quiet(place) ==
  CASE place \in {"create", "join_select", "crashed", "exited", "killed", "blocked"} -> {}
    [] place \in {"stop_capture", "join_convert"} -> {"select"}
    [] place = "join_storage" -> {"select", "convert"}
    [] place = "join_compressor" -> {"select", "convert", "storage"}
    [] place = "join_capture" -> {"select", "convert", "storage", "compressor"}
    [] place = "join_log" -> {"select", "convert", "storage", "compressor", "capture"}
    [] OTHER -> Thread

AfterInit == {"setup", "camera_init", "set_format", "init_buffer", "stream_start", "create"}

ThreadInv ==
  /\ thread \in [Thread -> ThreadState]
  /\ sem \in [state : {"raw", "live", "destroyed"}, count : Nat]
  /\ thread["compressor"] # "none" => args.compress /\ main # "parse"
  /\ \A t \in quiet(main) : thread[t] \in {"none", "ended"}
  /\ thread["capture"] \notin {"none", "ended"} => sem.state = "live"
  /\ main \in AfterInit => sem.state = "live"

LEMMA ThreadIs ==
  Thread = {"log", "capture", "select", "convert", "storage", "compressor"}
  BY DEF Thread, Range, Order

LEMMA QuietThreads == \A place : quiet(place) \subseteq Thread
  BY ThreadIs DEF quiet

LEMMA ThreadsInit == ProgramInit => ThreadInv
  BY ThreadIs, QuietThreads DEF ProgramInit, ThreadInv, ThreadState, AfterInit

(* A step of main, or one in which nothing happens to threads and semaphore.  *)
LEMMA OnlyMain ==
  ASSUME ThreadInv, UNCHANGED <<args, thread, sem>>, quiet(main') \subseteq quiet(main),
         main' \in AfterInit => main \in AfterInit, main' = "parse" => main = "parse"
  PROVE  ThreadInv'
  BY DEF ThreadInv

LEMMA OnlyMainSteps ==
  ASSUME ThreadInv,
         \/ install_signal_handler \/ print_platform_info \/ count_frame_buffers
         \/ reset_stop \/ acq_queue_init \/ init_queues \/ exits \/ setup
         \/ frame_acq_init \/ time_add_timer \/ frame_acq_exit \/ close_camera
         \/ log_exit
  PROVE  ThreadInv'
<1> USE ThreadIs DEF succeeds_to, fails_to, goto, configVars, stopVars, threadVars,
                     quiet, AfterInit
<1>1. CASE install_signal_handler \/ print_platform_info \/ log_exit
  BY <1>1, OnlyMain DEF install_signal_handler, print_platform_info, log_exit
<1>2. CASE count_frame_buffers
  <2>1. UNCHANGED <<args, thread, sem>> /\ main = "acc_count" /\ main' \in {"log_exit", "reset"}
    BY <1>2 DEF count_frame_buffers
  <2> QED
    BY <2>1, OnlyMain
<1>3. CASE reset_stop \/ acq_queue_init \/ init_queues \/ exits
  BY <1>3, OnlyMain DEF reset_stop, acq_queue_init, init_queues, exits
<1>4. CASE setup \/ time_add_timer
  BY <1>4, OnlyMain DEF setup, time_add_timer
<1>5. CASE frame_acq_init
  <2>1. /\ UNCHANGED <<args, thread, sem>>
        /\ main \in AfterInit \ {"setup", "create"}
        /\ main' \in AfterInit \ {"setup", "camera_init"}
    BY <1>5 DEF frame_acq_init, frame_acq_init_streams, CAMERA_RUN
  <2> QED
    BY <2>1, OnlyMain
<1>6. CASE frame_acq_exit \/ close_camera
  BY <1>6, OnlyMain DEF frame_acq_exit, close_camera
<1> QED
  BY <1>1, <1>2, <1>3, <1>4, <1>5, <1>6

(* The semaphore is made before, and destroyed after, any thread runs.       *)
LEMMA SemaphoreSteps ==
  ASSUME ThreadInv, init_sem \/ destroy
  PROVE  ThreadInv'
<1> USE ThreadIs DEF succeeds_to, fails_to, goto, configVars, threadVars, quiet, AfterInit
<1>1. CASE init_sem
  <2>1. /\ UNCHANGED <<args, thread>> /\ main = "init_sem"
        /\ sem' \in [state : {"raw", "live", "destroyed"}, count : Nat]
        /\ \/ main' = "setup" /\ sem'.state = "live"
           \/ main' = "frame_acq_exit" /\ UNCHANGED sem
    BY <1>1 DEF init_sem, ThreadInv
  <2> QED
    BY <2>1 DEF ThreadInv
<1>2. CASE destroy
  <2>1. /\ UNCHANGED <<args, thread>> /\ main = "destroy" /\ main' = "camera_exit"
        /\ sem' \in [state : {"raw", "live", "destroyed"}, count : Nat]
    BY <1>2 DEF destroy
  <2> QED
    BY <2>1 DEF ThreadInv
<1> QED
  BY <1>1, <1>2

(* sem_post and sem_wait, in whatever thread, keep the semaphore alive.      *)
LEMMA Posts ==
  ASSUME ThreadInv, sequencer \/ synchronome_stop
  PROVE  ThreadInv'
<1>1. UNCHANGED <<main, args, thread>> /\ sem'.state = sem.state
      /\ sem' \in [state : {"raw", "live", "destroyed"}, count : Nat]
  BY DEF sequencer, synchronome_stop, ThreadInv, configVars, threadVars
<1> QED
  BY <1>1 DEF ThreadInv

LEMMA Creates ==
  ASSUME ThreadInv, thread_create
  PROVE  ThreadInv'
<1> USE ThreadIs DEF succeeds_to, fails_to, goto, configVars, stopVars, threadVars, quiet,
                     AfterInit
<1>1. CASE UNCHANGED thread /\ main' = "join_select"
  BY <1>1, OnlyMain DEF thread_create
<1>2. CASE main' = "create" /\ UNCHANGED <<args, sem>> /\ main = "create"
           /\ \E t \in Thread, state \in {"created", "running"} :
                /\ thread' = [thread EXCEPT ![t] = state]
                /\ t = "compressor" => args.compress
  <2>1. PICK t \in Thread, state \in {"created", "running"} :
          /\ thread' = [thread EXCEPT ![t] = state]
          /\ t = "compressor" => args.compress
    BY <1>2
  <2> QED
    BY <1>2, <2>1 DEF ThreadInv, ThreadState
<1>3. CASE /\ succeeds_to("create", "create")
           /\ created < Wanted
           /\ UNCHANGED <<args, sem>>
           /\ thread' = [thread EXCEPT ![Order[created + 1]] =
                           IF Order[created + 1] \in WithParameters THEN "created"
                                                                    ELSE "running"]
  <2>1. created \in Nat
    <3>1. IsFiniteSet(Thread)
      <4>1. Order \in Surjection(1 .. 6, Thread)
        <5>1. Order \in [1 .. 6 -> Thread]
          BY DEF Order
        <5>2. \A t \in Thread : \E i \in 1 .. 6 : Order[i] = t
          BY DEF Order
        <5> QED
          BY <5>1, <5>2 DEF Surjection
      <4>2. IsFiniteSet(1 .. 6)
        BY 1 \in Int, 6 \in Int, FS_Interval, Zenon
      <4> QED
        BY <4>1, <4>2, FS_Surjection
    <3>2. IsFiniteSet({t \in Thread : thread[t] # "none"})
      BY <3>1, FS_Subset
    <3> QED
      BY <3>2, FS_CardinalityType DEF created
  <2>2. created + 1 \in 1 .. 6 /\ (created + 1 = 6 => args.compress)
    BY <1>3, <2>1 DEF Wanted, Order
  <2> DEFINE t == Order[created + 1]
  <2>3. t \in Thread /\ (t = "compressor" => args.compress)
    BY <2>2 DEF Order
  <2> QED
    BY <1>2, <1>3, <2>3
<1> QED
  BY <1>1, <1>3 DEF thread_create

(* A thread moves on, if it is one that has not ended.                       *)
LEMMA ThreadMoves ==
  ASSUME ThreadInv, NEW t \in Thread, NEW state \in ThreadState \ {"none"},
         thread[t] \notin {"none", "ended"}, thread' = [thread EXCEPT ![t] = state],
         UNCHANGED <<main, args>>, sem'.state = sem.state,
         sem' \in [state : {"raw", "live", "destroyed"}, count : Nat]
  PROVE  ThreadInv'
<1>1. \A u \in quiet(main) : u # t
  BY DEF ThreadInv
<1>2. \A u \in quiet(main) : thread'[u] \in {"none", "ended"}
  BY <1>1, QuietThreads DEF ThreadInv
<1>3. thread'["compressor"] # "none" => thread["compressor"] # "none"
  BY ThreadIs DEF ThreadInv
<1>4. thread'["capture"] \notin {"none", "ended"} => thread["capture"] \notin {"none", "ended"}
  BY ThreadIs DEF ThreadInv
<1>5. thread' \in [Thread -> ThreadState]
  BY DEF ThreadInv, ThreadState
<1> QED
  BY <1>2, <1>3, <1>4, <1>5 DEF ThreadInv

LEMMA Threads ==
  ASSUME ThreadInv, Services
  PROVE  ThreadInv'
<1> USE DEF configVars, stopVars, threadVars
<1>1. CASE \E t \in Thread : thread_starts(t)
  <2>1. PICK t \in Thread : thread_starts(t)
    BY <1>1
  <2>2. /\ thread[t] = "created" /\ UNCHANGED <<main, args, sem>>
        /\ thread' = [thread EXCEPT ![t] = "running"]
    BY <2>1 DEF thread_starts
  <2> QED
    BY <2>2, ThreadMoves DEF ThreadState, ThreadInv
<1>2. CASE capture_waits
  <2>1. /\ thread["capture"] = "running" /\ UNCHANGED <<main, args>>
        /\ sem'.state = sem.state
        /\ sem' \in [state : {"raw", "live", "destroyed"}, count : Nat]
        /\ \E state \in {"ended", "returning"} :
             thread' = [thread EXCEPT !["capture"] = state]
    <3>1. sem.count \in Nat /\ sem.count > 0 /\ sem' = [sem EXCEPT !.count = @ - 1]
      BY <1>2 DEF capture_waits, ThreadInv
    <3>2. sem.count - 1 \in Nat
      BY <3>1
    <3>3. sem' \in [state : {"raw", "live", "destroyed"}, count : Nat] /\ sem'.state = sem.state
      BY <3>1, <3>2 DEF ThreadInv
    <3>4. /\ thread["capture"] = "running" /\ UNCHANGED <<main, args>>
          /\ thread' = [thread EXCEPT !["capture"] = IF data_stop THEN "ended" ELSE "returning"]
      BY <1>2 DEF capture_waits, becomes
    <3> QED
      BY <3>3, <3>4
  <2> QED
    BY <2>1, ThreadMoves, ThreadIs DEF ThreadState
<1>3. CASE capture_returned_frames \/ capture_gets_frame \/ capture_fails
  <2>1. /\ thread["capture"] \in {"returning", "getting"} /\ UNCHANGED <<main, args, sem>>
        /\ \E state \in {"getting", "running", "ended"} :
             thread' = [thread EXCEPT !["capture"] = state]
    BY <1>3 DEF capture_returned_frames, capture_gets_frame, capture_fails, becomes, gives_up
  <2> QED
    BY <2>1, ThreadMoves, ThreadIs DEF ThreadState, ThreadInv
<1>4. CASE capture_returns_frame \/ capture_aborts \/ frame_acq_return_frame
  <2>1. UNCHANGED <<args, thread, sem>> /\ (UNCHANGED main \/ main' = "crashed")
    BY <1>4 DEF capture_returns_frame, capture_aborts, frame_acq_return_frame
  <2> QED
    BY <2>1, OnlyMain, Zenon DEF quiet, AfterInit
<1>5. CASE select_ends
  <2>1. /\ thread["select"] = "running" /\ UNCHANGED <<main, args, sem>>
        /\ thread' = [thread EXCEPT !["select"] = "ended"]
    BY <1>5 DEF select_ends, becomes, gives_up
  <2> QED
    BY <2>1, ThreadMoves, ThreadIs DEF ThreadState, ThreadInv
<1>6. CASE service_fails
  <2>1. /\ UNCHANGED <<main, args, sem>>
        /\ \E t \in {"convert", "storage", "compressor"} : gives_up(t, "running")
    BY <1>6 DEF service_fails
  <2>2. PICK t \in {"convert", "storage", "compressor"} : gives_up(t, "running")
    BY <2>1
  <2>3. thread[t] = "running" /\ thread' = [thread EXCEPT ![t] = "ended"]
    BY <2>2 DEF gives_up
  <2> QED
    BY <2>1, <2>3, ThreadMoves, ThreadIs DEF ThreadState, ThreadInv
<1>7. CASE \E t \in DOMAIN consumer_of : service_hangs(t)
  <2>1. PICK t \in DOMAIN consumer_of : service_hangs(t)
    BY <1>7
  <2>2. /\ UNCHANGED <<main, args, sem>> /\ t \in Thread
        /\ thread[t] = "running" /\ thread' = [thread EXCEPT ![t] = "stuck"]
    BY <2>1, ThreadIs DEF service_hangs, becomes, consumer_of
  <2> QED
    BY <2>2, ThreadMoves DEF ThreadState, ThreadInv
<1>8. CASE service_ends
  <2>1. PICK t \in told : becomes(t, "running", "ended")
    BY <1>8 DEF service_ends
  <2>2. UNCHANGED <<main, args, sem>>
    BY <1>8 DEF service_ends
  <2>3. thread[t] = "running" /\ thread' = [thread EXCEPT ![t] = "ended"]
    BY <2>1 DEF becomes
  <2>4. CASE t \in Thread
    BY <2>2, <2>3, <2>4, ThreadMoves DEF ThreadState, ThreadInv
  <2>5. CASE t \notin Thread
    BY <2>2, <2>3, <2>5 DEF ThreadInv
  <2> QED
    BY <2>4, <2>5
<1> QED
  BY <1>1, <1>2, <1>3, <1>4, <1>5, <1>6, <1>7, <1>8 DEF Services, frame_acq_run

(* Main goes on when the thread it waits for has ended, or never was.         *)
LEMMA Joins ==
  ASSUME ThreadInv, NEW t \in Thread, NEW from, NEW to, NEW also,
         thread_join_ret(t, from, to, also),
         \A u \in quiet(to) : u \in quiet(from) \/ u = t \/ thread[u] = "none",
         to \notin AfterInit \cup {"parse", "crashed"}
  PROVE  ThreadInv'
<1>1. /\ UNCHANGED <<args, thread, sem>> /\ thread[t] \in {"none", "ended"}
      /\ main = from /\ main' \in {to, "crashed"}
  BY DEF thread_join_ret, succeeds_to, fails_to, goto, configVars, threadVars
<1>2. CASE main' = "crashed"
  BY <1>1, <1>2, OnlyMain DEF quiet, AfterInit
<1>3. CASE main' = to
  <2>1. \A u \in quiet(main') : thread'[u] \in {"none", "ended"}
    BY <1>1, <1>3 DEF ThreadInv
  <2> QED
    BY <1>1, <1>3, <2>1 DEF ThreadInv
<1> QED
  BY <1>1, <1>2, <1>3

LEMMA Waits ==
  ASSUME ThreadInv, synchronome_wait
  PROVE  ThreadInv'
<1>1. CASE thread_join_ret("select", "join_select", "stop_capture", {})
  BY <1>1, Joins, ThreadIs DEF quiet, AfterInit
<1>2. CASE stop_capture
  <2>1. /\ UNCHANGED <<args, thread>> /\ sem'.state = sem.state
        /\ sem' \in [state : {"raw", "live", "destroyed"}, count : Nat]
        /\ main = "stop_capture" /\ main' = "join_convert"
    BY <1>2 DEF stop_capture, succeeds_to, goto, configVars, threadVars, ThreadInv
  <2>2. quiet(main') = quiet(main)
    BY <2>1 DEF quiet
  <2> QED
    BY <2>1, <2>2 DEF ThreadInv, AfterInit
<1>3. CASE thread_join_ret("convert", "join_convert", "join_storage", {"storage"})
  BY <1>3, Joins, ThreadIs DEF quiet, AfterInit
<1>4. CASE thread_join_ret("storage", "join_storage", "join_compressor", {"compressor"})
  BY <1>4, Joins, ThreadIs DEF quiet, AfterInit
<1>5. CASE ~args.compress /\ thread_join_ret("storage", "join_storage", "join_capture", {})
  <2>1. thread["compressor"] = "none"
    BY <1>5 DEF ThreadInv
  <2> QED
    BY <1>5, <2>1, Joins, ThreadIs DEF quiet, AfterInit
<1>6. CASE thread_join_ret("compressor", "join_compressor", "join_capture", {})
  BY <1>6, Joins, ThreadIs DEF quiet, AfterInit
<1>7. CASE thread_join_ret("capture", "join_capture", "join_log", {"log"})
  BY <1>7, Joins, ThreadIs DEF quiet, AfterInit
<1>8. CASE thread_join_ret("log", "join_log", "frame_acq_exit", {})
  BY <1>8, Joins, ThreadIs DEF quiet, AfterInit
<1> QED
  BY <1>1, <1>2, <1>3, <1>4, <1>5, <1>6, <1>7, <1>8 DEF synchronome_wait

(* The command line, the signals, and the other commands.                    *)
LEMMA Others ==
  ASSUME ThreadInv,
         \/ parse_cmd_line_args \/ killed \/ synchronome_stop_blocks
         \/ push_start_interrupted \/ use_camera \/ capture_returns \/ convert_image
  PROVE  ThreadInv'
<1>1. CASE parse_cmd_line_args
  <2>1. UNCHANGED <<thread, sem>> /\ main = "parse" /\ main' \in {"done", "log_init", "capture"}
    BY <1>1
    DEF parse_cmd_line_args, succeeds_to, fails_to, goto, stopVars, threadVars
  <2>2. thread["compressor"] = "none"
    BY <2>1 DEF ThreadInv
  <2>3. quiet(main') = quiet(main)
    BY <2>1 DEF quiet
  <2> QED
    BY <2>1, <2>2, <2>3 DEF ThreadInv, AfterInit
<1>2. CASE killed \/ synchronome_stop_blocks \/ push_start_interrupted
  <2>1. UNCHANGED <<args, thread, sem>> /\ main' \in {"killed", "blocked", "exited"}
    BY <1>2
    DEF killed, synchronome_stop_blocks, push_start_interrupted, configVars, stopVars,
        threadVars
  <2> QED
    BY <2>1, OnlyMain DEF quiet, AfterInit
<1>3. CASE use_camera \/ capture_returns \/ convert_image
  <2>1. /\ UNCHANGED <<args, thread, sem>>
        /\ \/ UNCHANGED main
           \/ main = "parse" /\ main' = "image"
           \/ main = "capture" /\ main' = "done"
    <3>1. CASE use_camera
      BY <3>1 DEF use_camera, configVars, stopVars, threadVars
    <3>2. CASE convert_image
      BY <3>2 DEF convert_image, goto, configVars, stopVars, threadVars
    <3>3. CASE capture_returns
      BY <3>3
      DEF capture_returns, succeeds_to, fails_to, goto, configVars, stopVars, threadVars
    <3> QED
      BY <1>3, <3>1, <3>2, <3>3
  <2>2. quiet(main') = quiet(main)
    BY <2>1 DEF quiet
  <2> QED
    BY <2>1, <2>2, OnlyMain DEF AfterInit
<1> QED
  BY <1>1, <1>2, <1>3

LEMMA ThreadStep == ThreadInv /\ [ProgramNext]_allVars => ThreadInv'
<1> SUFFICES ASSUME ThreadInv, [ProgramNext]_allVars PROVE ThreadInv'
  OBVIOUS
<1>1. CASE UNCHANGED allVars
  BY <1>1 DEF allVars, configVars, stopVars, threadVars, ThreadInv
<1>2. CASE ProgramNext
  BY <1>1, <1>2, OnlyMainSteps, SemaphoreSteps, Posts, Creates, Threads, Waits, Others
  DEF ProgramNext, MainSteps, synchronome_setup, Environment, Finished
<1> QED
  BY <1>1, <1>2

(* main.c:215-272, main.c:327-347: no thread runs once main has begun to tear *)
(* down what the threads use, however far the set up got and whatever failed, *)
(* and S1 has its semaphore as long as it runs.                              *)
THEOREM NoThreadOutlives == ProgramSpec => []NoThreadOutlivesItsData
<1>1. ThreadInv => NoThreadOutlivesItsData
  <2> SUFFICES ASSUME ThreadInv PROVE NoThreadOutlivesItsData
    OBVIOUS
  <2>1. thread["capture"] \in {"running", "returning", "getting"} => sem.state = "live"
    BY DEF ThreadInv
  <2>2. ASSUME main \in {"frame_acq_exit", "destroy", "camera_exit", "log_exit", "done"}
        PROVE  \A t \in Thread : thread[t] \in {"none", "ended"}
    <3>1. quiet(main) = Thread
      BY <2>2 DEF quiet
    <3> QED
      BY <3>1 DEF ThreadInv
  <2> QED
    BY <2>1, <2>2 DEF NoThreadOutlivesItsData
<1> QED
  BY ThreadsInit, ThreadStep, <1>1, PTL DEF ProgramSpec

-------------------------------------------------------------------------------
(* Where main is, and what is there then. *)

Before == {"parse", "log_init", "platform_info", "acc_count", "reset", "init_acq",
           "init_queues", "init_sem", "setup"}
CameraPlace == {"camera_init", "set_format", "init_buffer", "stream_start"}
AfterSetup == {"join_select", "stop_capture", "join_convert", "join_storage",
               "join_compressor", "join_capture", "join_log", "frame_acq_exit",
               "destroy", "camera_exit", "log_exit", "done"}

(* No thread has been created yet, or ever will be.                          *)
Unthreaded == Before \cup {"capture", "image"}

PlaceInv ==
  /\ main \in Before \cup {"camera_init", "log_exit"} => ~dev_file
  /\ main = "done" /\ (handler \/ ret = "success") => ~dev_file
  /\ main \in {"parse", "log_init", "capture", "image"} => ~handler
  /\ main \in (Before \ {"parse", "log_init"}) \cup CameraPlace \cup {"create"} => handler
  /\ main \in Unthreaded \cup CameraPlace => \A t \in Thread : thread[t] = "none"
  /\ \A t \in Thread : thread[t] # "none" => handler
  /\ ret \in {"success", "failure"} /\ told \subseteq Thread \ {"select"}

LEMMA PlaceInit == ProgramInit => PlaceInv
  BY DEF ProgramInit, Init, PlaceInv, Before, CameraPlace, Unthreaded

(* Main before it creates a thread, and after it has joined them.            *)
LEMMA PlaceOfMain ==
  ASSUME PlaceInv,
         \/ parse_cmd_line_args \/ install_signal_handler \/ print_platform_info
         \/ count_frame_buffers \/ reset_stop \/ acq_queue_init \/ init_queues
         \/ init_sem \/ exits \/ setup \/ log_exit \/ destroy
  PROVE  PlaceInv'
<1> USE DEF PlaceInv, Before, CameraPlace, Unthreaded, succeeds_to, fails_to, goto, vars,
            cameraVars, configVars, stopVars, threadVars
<1>1. CASE parse_cmd_line_args
  BY <1>1 DEF parse_cmd_line_args
<1>2. CASE install_signal_handler
  BY <1>2 DEF install_signal_handler
<1>3. CASE print_platform_info
  BY <1>3 DEF print_platform_info
<1>4. CASE count_frame_buffers
  <2>1. /\ UNCHANGED <<dev_file, handler, thread, told>> /\ main = "acc_count"
        /\ main' \in {"log_exit", "reset"} /\ ret' \in {ret, "failure"}
    BY <1>4 DEF count_frame_buffers
  <2> QED
    BY <2>1
<1>5. CASE reset_stop \/ acq_queue_init
  BY <1>5 DEF reset_stop, acq_queue_init
<1>6. CASE init_queues \/ init_sem
  BY <1>6 DEF init_queues, init_sem
<1>7. CASE exits
  BY <1>7 DEF exits
<1>8. CASE setup
  BY <1>8 DEF setup
<1>9. CASE log_exit \/ destroy
  BY <1>9 DEF log_exit, destroy
<1> QED
  BY <1>1, <1>2, <1>3, <1>4, <1>5, <1>6, <1>7, <1>8, <1>9

(* A call of frame_acq_init.                                                 *)
LEMMA FrameAcqInit ==
  ASSUME frame_acq_init
  PROVE  /\ main \in CameraPlace
         /\ main' \in (CameraPlace \ {"camera_init"}) \cup {"create"}
         /\ UNCHANGED <<ret, configVars, setupVars, stopVars, threadVars, window, dumped>>
         /\ Next
BY DEF frame_acq_init, frame_acq_init_streams, CAMERA_RUN, CameraPlace, frameVars, Next

LEMMA PlaceOfSetup ==
  ASSUME PlaceInv, frame_acq_init \/ thread_create \/ time_add_timer
  PROVE  PlaceInv'
<1>1. CASE frame_acq_init
  BY <1>1, FrameAcqInit
  DEF PlaceInv, Before, CameraPlace, Unthreaded, configVars, stopVars, threadVars
<1>2. CASE thread_create \/ time_add_timer
  <2>1. /\ main = "create" /\ main' \in {"create", "join_select"}
        /\ UNCHANGED <<dev_file, handler, told>> /\ ret' \in {ret, "failure"}
    BY <1>2
    DEF thread_create, time_add_timer, succeeds_to, fails_to, goto, vars, cameraVars,
        configVars, stopVars
  <2> QED
    BY <2>1 DEF PlaceInv, Before, CameraPlace, Unthreaded
<1> QED
  BY <1>1, <1>2

(* A join, and what main does between two of them.                           *)
JoinPlace == {"join_select", "stop_capture", "join_convert", "join_storage",
              "join_compressor", "join_capture", "join_log"}

LEMMA WaitMoves ==
  ASSUME synchronome_wait
  PROVE  /\ main \in JoinPlace
         /\ main' \in (JoinPlace \ {"join_select"}) \cup {"frame_acq_exit", "crashed"}
         /\ UNCHANGED <<vars, configVars, setupVars, thread, failed, garbage, frameVars,
                        signals>>
         /\ ret' \in {ret, "failure"}
         /\ told' \ told \subseteq Thread \ {"select"}
<1>1. ASSUME NEW t, NEW from, NEW to, NEW also \in SUBSET (Thread \ {"select"}),
             thread_join_ret(t, from, to, also)
      PROVE  /\ main = from /\ main' \in {to, "crashed"}
             /\ UNCHANGED <<vars, configVars, setupVars, thread, failed, garbage, frameVars,
                            signals>>
             /\ ret' \in {ret, "failure"}
             /\ told' \ told \subseteq Thread \ {"select"}
  BY <1>1 DEF thread_join_ret, succeeds_to, fails_to, goto, threadVars
<1>2. CASE stop_capture
  BY <1>2, ThreadIs DEF stop_capture, succeeds_to, goto, threadVars, JoinPlace
<1>3. ASSUME NEW from \in JoinPlace,
             NEW to \in (JoinPlace \ {"join_select"}) \cup {"frame_acq_exit"},
             \E t : \E also \in SUBSET (Thread \ {"select"}) :
               thread_join_ret(t, from, to, also)
      PROVE  /\ main \in JoinPlace
             /\ main' \in (JoinPlace \ {"join_select"}) \cup {"frame_acq_exit", "crashed"}
             /\ UNCHANGED <<vars, configVars, setupVars, thread, failed, garbage, frameVars,
                            signals>>
             /\ ret' \in {ret, "failure"}
             /\ told' \ told \subseteq Thread \ {"select"}
  BY <1>1, <1>3
<1>4. {{}, {"storage"}, {"compressor"}, {"log"}} \subseteq SUBSET (Thread \ {"select"})
  BY ThreadIs
<1>5. CASE \/ thread_join_ret("select", "join_select", "stop_capture", {})
           \/ thread_join_ret("convert", "join_convert", "join_storage", {"storage"})
  BY <1>3, <1>4, <1>5 DEF JoinPlace
<1>6. CASE \/ thread_join_ret("storage", "join_storage", "join_compressor", {"compressor"})
           \/ thread_join_ret("storage", "join_storage", "join_capture", {})
  BY <1>3, <1>4, <1>6 DEF JoinPlace
<1>7. CASE \/ thread_join_ret("compressor", "join_compressor", "join_capture", {})
           \/ thread_join_ret("capture", "join_capture", "join_log", {"log"})
           \/ thread_join_ret("log", "join_log", "frame_acq_exit", {})
  BY <1>3, <1>4, <1>7 DEF JoinPlace
<1> QED
  BY <1>2, <1>5, <1>6, <1>7 DEF synchronome_wait

(* A step of a thread: of the threads none is created, main at most crashes,  *)
(* and the camera stays open.                                                *)
LEMMA ServiceMoves ==
  ASSUME thread \in [Thread -> ThreadState], told \subseteq Thread, Services
  PROVE  /\ UNCHANGED <<dev_file, ret, configVars, setupVars, signals, data_stop, acq_stop,
                        told, dumpster>>
         /\ sem' = sem \/ capture_waits
         /\ UNCHANGED main \/ (main' = "crashed" /\ thread["capture"] = "getting")
         /\ thread' \in [Thread -> ThreadState]
         /\ \A t \in Thread : /\ thread'[t] = "none" <=> thread[t] = "none"
                              /\ thread[t] = "ended" => thread'[t] = "ended"
                              /\ thread'[t] = "created" => thread[t] = "created"
<1> USE ThreadIs DEF ThreadState
<1>1. CASE \E t \in Thread : thread_starts(t)
  BY <1>1 DEF thread_starts, stopVars, vars, cameraVars, frameVars
<1>2. CASE capture_waits
  BY <1>2 DEF capture_waits, becomes, vars, cameraVars, frameVars
<1>3. CASE capture_returns_frame
  BY <1>3 DEF capture_returns_frame, camera_return, vars, cameraVars, stopVars, threadVars
<1>4. CASE capture_returned_frames
  BY <1>4 DEF capture_returned_frames, becomes, vars, cameraVars, stopVars, frameVars
<1>5. CASE capture_gets_frame
  BY <1>5 DEF capture_gets_frame, camera_get_frame, becomes, gives_up, stopVars
<1>6. CASE capture_fails
  BY <1>6 DEF capture_fails, camera_get_frame_fails, gives_up, cameraVars, stopVars, frameVars
<1>7. CASE capture_aborts
  BY <1>7
  DEF capture_aborts, camera_get_frame_aborts, cameraVars, stopVars, threadVars, frameVars
<1>8. CASE frame_acq_return_frame
  BY <1>8 DEF frame_acq_return_frame, vars, cameraVars, stopVars, threadVars
<1>9. CASE select_ends
  BY <1>9 DEF select_ends, becomes, gives_up, vars, cameraVars, stopVars, frameVars
<1>10. CASE service_ends
  BY <1>10 DEF service_ends, becomes, vars, cameraVars, stopVars, frameVars
<1>11. CASE service_fails
  BY <1>11 DEF service_fails, gives_up, vars, cameraVars, stopVars, frameVars
<1>12. CASE \E t \in DOMAIN consumer_of : service_hangs(t)
  BY <1>12 DEF service_hangs, consumer_of, becomes, vars, cameraVars, stopVars, frameVars
<1> QED
  BY <1>1, <1>2, <1>3, <1>4, <1>5, <1>6, <1>7, <1>8, <1>9, <1>10, <1>11, <1>12
  DEF Services, frame_acq_run

(* What may happen at any time.                                              *)
LEMMA OthersMove ==
  ASSUME client = "uninitialized" => ~dev_file,
         \/ sequencer \/ killed \/ synchronome_stop \/ synchronome_stop_blocks
         \/ push_start_interrupted \/ use_camera \/ capture_returns \/ convert_image
  PROVE  /\ UNCHANGED <<configVars, setupVars, told, threadVars, frameVars>>
         /\ \/ UNCHANGED <<main, ret>>
            \/ main' = "killed" /\ ~handler /\ UNCHANGED ret
            \/ main' = "blocked" /\ thread["log"] = "running" /\ UNCHANGED ret
            \/ /\ main' = "exited" /\ ret' = "failure"
               /\ \E t \in Thread : thread[t] \in {"getting", "running", "stuck"}
            \/ main = "parse" /\ main' = "image" /\ UNCHANGED ret
            \/ /\ main = "capture" /\ main' = "done" /\ ret' \in {ret, "failure"}
               /\ dev_file => ret' = "failure"
         /\ UNCHANGED vars \/ (main = "capture" /\ Next /\ UNCHANGED main)
<1> USE DEF configVars, setupVars, stopVars, threadVars, frameVars
<1>1. CASE sequencer \/ synchronome_stop
  BY <1>1 DEF sequencer, synchronome_stop
<1>2. CASE killed
  BY <1>2 DEF killed
<1>3. CASE synchronome_stop_blocks
  BY <1>3 DEF synchronome_stop_blocks
<1>4. CASE push_start_interrupted
  BY <1>4, ThreadIs DEF push_start_interrupted
<1>5. CASE use_camera
  BY <1>5 DEF use_camera
<1>6. CASE capture_returns
  BY <1>6 DEF capture_returns, succeeds_to, fails_to, goto, vars, cameraVars
<1>7. CASE convert_image
  BY <1>7 DEF convert_image, goto
<1> QED
  BY <1>1, <1>2, <1>3, <1>4, <1>5, <1>6, <1>7

LEMMA PlaceStep ==
  ASSUME PlaceInv, ThreadInv, CameraInv, [ProgramNext]_allVars
  PROVE  PlaceInv'
<1>1. CASE UNCHANGED allVars
  BY <1>1
  DEF allVars, vars, cameraVars, configVars, stopVars, threadVars, PlaceInv
<1>2. CASE synchronome_wait
  BY <1>2, WaitMoves
  DEF JoinPlace, PlaceInv, Before, CameraPlace, Unthreaded, vars, cameraVars, configVars
<1>3. CASE frame_acq_exit
  <2>1. main' = "destroy" /\ UNCHANGED <<ret, handler, thread, told>>
    BY <1>3
    DEF frame_acq_exit, succeeds_to, goto, configVars, stopVars, threadVars
  <2> QED
    BY <2>1 DEF PlaceInv, Before, CameraPlace, Unthreaded
<1>4. CASE close_camera
  <2>1. main' = "log_exit" /\ UNCHANGED <<ret, handler, thread, told>> /\ ~dev_file'
    BY <1>4
    DEF close_camera, camera_exit, private_camera_exit, succeeds_to, goto, vars,
        cameraVars, configVars, stopVars, threadVars
  <2> QED
    BY <2>1 DEF PlaceInv, Before, CameraPlace, Unthreaded
<1>5. CASE Services
  <2>1. thread["capture"] = "getting" => main \notin Unthreaded \cup CameraPlace
    BY ThreadIs DEF PlaceInv
  <2>2. \A t \in Thread : thread'[t] = "none" <=> thread[t] = "none"
    BY <1>5, ServiceMoves DEF PlaceInv, ThreadInv
  <2>3. /\ UNCHANGED <<dev_file, ret, handler, told>>
        /\ UNCHANGED main \/ main' = "crashed"
    BY <1>5, ServiceMoves DEF PlaceInv, ThreadInv, configVars
  <2> QED
    BY <2>1, <2>2, <2>3 DEF PlaceInv, Before, CameraPlace, Unthreaded
<1>6. CASE \/ sequencer \/ killed \/ synchronome_stop \/ synchronome_stop_blocks
           \/ push_start_interrupted \/ use_camera \/ capture_returns \/ convert_image
  <2>1. /\ UNCHANGED <<handler, thread, told>>
        /\ \/ UNCHANGED <<main, ret>>
           \/ main' \in {"killed", "blocked"} /\ UNCHANGED ret
           \/ main' = "exited" /\ ret' = "failure"
           \/ main = "parse" /\ main' = "image" /\ UNCHANGED ret
           \/ /\ main = "capture" /\ main' = "done" /\ ret' \in {ret, "failure"}
              /\ dev_file => ret' = "failure"
        /\ UNCHANGED dev_file \/ (main = "capture" /\ UNCHANGED main)
    BY <1>6, OthersMove DEF configVars, threadVars, vars, cameraVars, CameraInv, Buffers, Believed
  <2> QED
    BY <2>1 DEF PlaceInv, Before, CameraPlace, Unthreaded
<1> QED
  BY <1>1, <1>2, <1>3, <1>4, <1>5, <1>6, PlaceOfMain, PlaceOfSetup
  DEF ProgramNext, MainSteps, synchronome_setup, Environment, Finished

-------------------------------------------------------------------------------
(* Frames and the camera. *)

(* S2's frames and those on their way back are frames the camera has given    *)
(* out; the dumpster is live while there are any, or could be, and destroyed  *)
(* only when S1 is no more.                                                  *)
FrameInv ==
  /\ window \cup dumped \subseteq held /\ window \cap dumped = {}
  /\ window \cup dumped # {} => /\ thread["capture"] # "none"
                                /\ dumpster = "live" \/ main = "destroy"
  /\ main \in {"camera_exit", "log_exit", "done"} => window \cup dumped = {}
  /\ streaming /\ handler => dumpster = "live"
  /\ dumpster = "destroyed" => /\ main \notin Unthreaded \cup CameraPlace \cup {"create"}
                               /\ thread["capture"] \in {"none", "ended"}

ProgramInv == CameraInv /\ ThreadInv /\ PlaceInv /\ FrameInv

LEMMA FrameInit == ProgramInit => FrameInv
  BY DEF ProgramInit, Init, FrameInv

(* Main and its threads use the camera as module Camera lets a client do.     *)
LEMMA UsesCamera ==
  ASSUME CameraInv, FrameInv, [ProgramNext]_allVars
  PROVE  [Next]_vars
<1>1. CASE UNCHANGED allVars
  BY <1>1 DEF allVars
<1>2. CASE frame_acq_init
  BY <1>2, FrameAcqInit
<1>3. CASE frame_acq_exit
  BY <1>3 DEF frame_acq_exit, Next
<1>4. CASE close_camera
  BY <1>4 DEF close_camera, Next
<1>5. CASE synchronome_wait
  BY <1>5, WaitMoves
<1>6. CASE capture_returns_frame
  BY <1>6 DEF capture_returns_frame, FrameInv, Next, camera_return_frame
<1>7. CASE capture_gets_frame \/ capture_fails \/ capture_aborts
  BY <1>7 DEF capture_gets_frame, capture_fails, capture_aborts, Next
<1>8. CASE \/ sequencer \/ killed \/ synchronome_stop \/ synchronome_stop_blocks
           \/ push_start_interrupted \/ use_camera \/ capture_returns \/ convert_image
  BY <1>8, OthersMove DEF CameraInv, Buffers, Believed
<1>9. CASE \/ parse_cmd_line_args \/ install_signal_handler \/ print_platform_info
           \/ count_frame_buffers \/ reset_stop \/ acq_queue_init \/ init_queues
           \/ init_sem \/ exits \/ setup \/ thread_create \/ time_add_timer
           \/ destroy \/ log_exit
  BY <1>9
  DEF parse_cmd_line_args, install_signal_handler, print_platform_info,
      count_frame_buffers, reset_stop, acq_queue_init, init_queues, init_sem, exits,
      setup, thread_create, time_add_timer, destroy, log_exit
<1>10. CASE \/ \E t \in Thread : thread_starts(t)
            \/ capture_waits \/ capture_returned_frames \/ frame_acq_return_frame
            \/ select_ends \/ service_fails \/ service_ends
            \/ \E t \in DOMAIN consumer_of : service_hangs(t)
  BY <1>10
  DEF thread_starts, capture_waits, capture_returned_frames, frame_acq_return_frame,
      select_ends, service_fails, service_hangs, service_ends
<1> QED
  BY <1>1, <1>2, <1>3, <1>4, <1>5, <1>6, <1>7, <1>8, <1>9, <1>10
  DEF ProgramNext, MainSteps, synchronome_setup, Environment, Services, frame_acq_run,
      Finished

(* Main's steps that change neither frames nor camera.                       *)
LEMMA FramesQuiet ==
  ASSUME ProgramInv, UNCHANGED <<held, streaming, dumpster, window, dumped>>,
         thread["capture"] # "none" => thread'["capture"] # "none",
         handler' => handler \/ ~streaming,
         main = "destroy" => main' = "destroy" \/ window \cup dumped = {},
         main' \in Unthreaded \cup CameraPlace \cup {"create"} =>
           main \in Unthreaded \cup CameraPlace \cup {"create"},
         dumpster = "destroyed" /\ thread["capture"] \in {"none", "ended"} =>
           thread'["capture"] \in {"none", "ended"},
         main' \in {"camera_exit", "log_exit", "done"} =>
           main \in {"camera_exit", "log_exit", "done"} \/ window \cup dumped = {}
  PROVE  FrameInv'
BY DEF ProgramInv, FrameInv

(* Before a thread is created, and after the last has ended, none runs.      *)
LEMMA ThreadRuns ==
  ASSUME ProgramInv, NEW t \in Thread, thread[t] \notin {"none", "ended"}
  PROVE  /\ handler
         /\ main \notin Unthreaded \cup CameraPlace
                        \cup {"frame_acq_exit", "destroy", "camera_exit", "log_exit", "done"}
<1>1. handler /\ main \notin Unthreaded \cup CameraPlace
  BY DEF ProgramInv, PlaceInv
<1>2. main \notin {"frame_acq_exit", "destroy", "camera_exit", "log_exit", "done"}
  BY DEF ProgramInv, ThreadInv, quiet
<1> QED
  BY <1>1, <1>2

LEMMA NoFramesYet ==
  ASSUME ProgramInv, main \in Unthreaded \cup CameraPlace
  PROVE  window \cup dumped = {}
BY ThreadIs DEF ProgramInv, PlaceInv, FrameInv

LEMMA FramesOfMain ==
  ASSUME ProgramInv,
         \/ parse_cmd_line_args \/ install_signal_handler \/ print_platform_info
         \/ count_frame_buffers \/ reset_stop \/ acq_queue_init \/ init_queues
         \/ init_sem \/ exits \/ setup \/ log_exit
  PROVE  FrameInv'
<1>1. UNCHANGED <<vars, thread, frameVars>>
  BY DEF parse_cmd_line_args, install_signal_handler, print_platform_info,
         count_frame_buffers, reset_stop, acq_queue_init, init_queues, init_sem, exits,
         setup, log_exit, threadVars
<1>2. main \in Before \/ (main = "log_exit" /\ main' = "done")
  BY DEF parse_cmd_line_args, install_signal_handler, print_platform_info,
         count_frame_buffers, reset_stop, acq_queue_init, init_queues, init_sem, exits,
         setup, log_exit, succeeds_to, fails_to, goto, Before
<1>3. main \in Before => ~streaming
  <2>1. main \in Before => ~dev_file
    BY DEF ProgramInv, PlaceInv
  <2> QED
    BY <2>1 DEF ProgramInv, CameraInv, Buffers, Believed
<1>4. handler' => handler \/ main \in Before
  <2>1. main \in Before \/ log_exit
    BY DEF parse_cmd_line_args, install_signal_handler, print_platform_info,
           count_frame_buffers, reset_stop, acq_queue_init, init_queues, init_sem, exits,
           setup, succeeds_to, fails_to, goto, Before
  <2> QED
    BY <2>1 DEF log_exit, configVars
<1>5. main \in Before => window \cup dumped = {}
  BY NoFramesYet DEF Unthreaded
<1> QED
  BY <1>1, <1>2, <1>3, <1>4, <1>5, FramesQuiet
  DEF vars, deviceVars, frameVars, Unthreaded, Before, CameraPlace

LEMMA FramesOfSetup ==
  ASSUME ProgramInv, frame_acq_init \/ thread_create \/ time_add_timer
  PROVE  FrameInv'
<1>1. CASE frame_acq_init
  <2>1. window \cup dumped = {}
    BY <1>1, FrameAcqInit, NoFramesYet
  <2>2. UNCHANGED <<window, dumped, handler>> /\ main' \in CameraPlace \cup {"create"}
    BY <1>1, FrameAcqInit DEF configVars
  <2>3. streaming' => (streaming /\ dumpster' = dumpster) \/ dumpster' = "live"
    <3>1. CASE frame_acq_init_streams
      BY <3>1 DEF frame_acq_init_streams, camera_stream_start, fails
    <3>2. CASE ~frame_acq_init_streams
      <4>1. dumpster' = dumpster
        BY <1>1, <3>2 DEF frame_acq_init, CAMERA_RUN, frameVars
      <4>2. \/ camera_init \/ camera_init_fails \/ set_camera_format \/ camera_init_buffer
        BY <1>1, <3>2 DEF frame_acq_init, CAMERA_RUN
      <4>3. streaming' => streaming
        BY <4>2
        DEF camera_init, camera_init_fails, private_camera_exit, set_camera_format,
            camera_set_mode, camera_init_buffer, deviceVars
      <4> QED
        BY <4>1, <4>3
    <3> QED
      BY <3>1, <3>2
  <2>4. dumpster' # "destroyed"
    <3>1. dumpster # "destroyed"
      BY <1>1, FrameAcqInit DEF FrameInv, ProgramInv
    <3> QED
      BY <1>1, <3>1
      DEF frame_acq_init, frame_acq_init_streams, CAMERA_RUN, frameVars
  <2> QED
    BY <2>1, <2>2, <2>3, <2>4 DEF FrameInv, ProgramInv, CameraPlace
<1>2. CASE thread_create \/ time_add_timer
  <2>1. /\ UNCHANGED <<vars, handler, frameVars>>
        /\ main = "create" /\ main' \in {"create", "join_select"}
    BY <1>2
    DEF thread_create, time_add_timer, succeeds_to, fails_to, goto, configVars
  <2>2. thread["capture"] # "none" => thread'["capture"] # "none"
    <3>1. CASE UNCHANGED thread
      BY <3>1
    <3>2. CASE \E t, state : /\ thread' = [thread EXCEPT ![t] = state]
                             /\ state \in {"created", "running"}
      BY <3>2, ThreadIs DEF ProgramInv, ThreadInv
    <3> QED
      BY <1>2, <3>1, <3>2 DEF thread_create, time_add_timer, threadVars
  <2>3. dumpster # "destroyed"
    BY <2>1 DEF ProgramInv, FrameInv
  <2> QED
    BY <2>1, <2>2, <2>3, FramesQuiet DEF vars, deviceVars, frameVars
<1> QED
  BY <1>1, <1>2

LEMMA FramesOfExit ==
  ASSUME ProgramInv, frame_acq_exit \/ destroy \/ close_camera
  PROVE  FrameInv'
<1> USE DEF Unthreaded, Before, CameraPlace
<1>1. CASE frame_acq_exit
  <2>1. /\ UNCHANGED <<handler, thread, window, dumped>> /\ main' = "destroy"
        /\ main = "frame_acq_exit"
    BY <1>1 DEF frame_acq_exit, succeeds_to, goto, configVars, threadVars
  <2>2. /\ held' = held
        /\ \/ UNCHANGED <<streaming, dumpster>>
           \/ ~streaming'
           \/ streaming' = streaming /\ dumpster' = dumpster
    <3>1. CASE UNCHANGED <<vars, dumpster>>
      BY <3>1 DEF vars, deviceVars
    <3>2. CASE camera_stream_stop /\ dumpster' = IF streaming' THEN dumpster ELSE "destroyed"
      BY <3>2 DEF camera_stream_stop
    <3> QED
      BY <1>1, <3>1, <3>2 DEF frame_acq_exit
  <2>3. thread["capture"] \in {"none", "ended"}
    BY <2>1, ThreadIs DEF ProgramInv, ThreadInv, quiet
  <2> QED
    BY <2>1, <2>2, <2>3 DEF ProgramInv, FrameInv
<1>2. CASE destroy
  <2>1. /\ window' = {} /\ dumped' = {} /\ UNCHANGED <<handler, streaming, dumpster, thread>>
        /\ main' = "camera_exit"
    BY <1>2 DEF destroy, succeeds_to, fails_to, goto, configVars, threadVars, vars, deviceVars
  <2> QED
    BY <2>1 DEF ProgramInv, FrameInv
<1>3. CASE close_camera
  <2>1. /\ UNCHANGED <<window, dumped, handler, dumpster, thread>> /\ (streaming' => streaming)
        /\ main = "camera_exit" /\ main' = "log_exit"
    BY <1>3
    DEF close_camera, camera_exit, private_camera_exit, vars, deviceVars, configVars,
        threadVars, frameVars, succeeds_to, goto
  <2> QED
    BY <2>1 DEF ProgramInv, FrameInv
<1> QED
  BY <1>1, <1>2, <1>3

LEMMA FramesOfCapture ==
  ASSUME ProgramInv, frame_acq_run
  PROVE  FrameInv'
<1>1. CASE capture_gets_frame
  <2>1. PICK b \in queued : held' = held \cup {b}
    BY <1>1 DEF capture_gets_frame, camera_get_frame
  <2>2. b \notin held
    BY <2>1 DEF ProgramInv, CameraInv, Buffers, Shared
  <2>3. /\ window' = window \cup {b} /\ streaming
        /\ UNCHANGED <<main, handler, streaming, dumpster, dumped>>
    BY <1>1, <2>1, <2>2 DEF capture_gets_frame, camera_get_frame, configVars
  <2>4. /\ thread["capture"] = "getting"
        /\ \E state \in {"running", "ended"} :
             thread' = [thread EXCEPT !["capture"] = state]
    BY <1>1 DEF capture_gets_frame, becomes, gives_up
  <2>5. thread'["capture"] # "none"
    BY <2>4, ThreadIs DEF ProgramInv, ThreadInv
  <2>6. handler /\ main \notin {"camera_exit", "log_exit", "done"}
    BY <2>4, ThreadRuns, ThreadIs
  <2> QED
    BY <2>1, <2>2, <2>3, <2>5, <2>6 DEF ProgramInv, FrameInv
<1>2. CASE capture_returns_frame
  <2>1. PICK b \in dumped : /\ camera_return(b) \/ UNCHANGED vars
                            /\ dumped' = dumped \ {b}
    BY <1>2 DEF capture_returns_frame
  <2>2. UNCHANGED <<main, handler, thread, streaming, dumpster, window>>
    BY <1>2, <2>1
    DEF capture_returns_frame, camera_return, vars, deviceVars, configVars, threadVars
  <2>3. held \ {b} \subseteq held'
    BY <2>1 DEF camera_return, vars
  <2> QED
    BY <2>1, <2>2, <2>3 DEF ProgramInv, FrameInv
<1>3. CASE capture_waits \/ capture_returned_frames \/ capture_fails \/ capture_aborts
  <2>1. /\ UNCHANGED <<held, streaming, handler, frameVars>>
        /\ UNCHANGED main \/ (main' = "crashed" /\ thread["capture"] = "getting")
    BY <1>3
    DEF capture_waits, capture_returned_frames, capture_fails, capture_aborts,
        camera_get_frame_fails, camera_get_frame_aborts, vars, deviceVars, configVars
  <2>2. thread["capture"] # "none" => thread'["capture"] # "none"
    <3>1. \A t \in Thread : thread'[t] = "none" <=> thread[t] = "none"
      BY <1>3, ServiceMoves DEF ProgramInv, ThreadInv, PlaceInv, Services, frame_acq_run
    <3> QED
      BY <3>1, ThreadIs
  <2>3. thread["capture"] = "ended" => thread'["capture"] = "ended"
    BY <1>3, ServiceMoves, ThreadIs
    DEF ProgramInv, ThreadInv, PlaceInv, Services, frame_acq_run
  <2>4. main' = "crashed" => UNCHANGED main \/ main # "destroy"
    BY <2>1, ThreadRuns, ThreadIs
  <2>5. /\ main = "destroy" => main' = "destroy"
        /\ main' \in {"camera_exit", "log_exit", "done"} => main' = main
        /\ main' \in Unthreaded \cup CameraPlace \cup {"create"} => main' = main
    BY <2>1, <2>4 DEF Unthreaded, Before, CameraPlace
  <2>6. thread["capture"] = "none" => thread'["capture"] = "none"
    BY <1>3, ServiceMoves, ThreadIs
    DEF ProgramInv, ThreadInv, PlaceInv, Services, frame_acq_run
  <2> QED
    BY <2>1, <2>2, <2>3, <2>5, <2>6, FramesQuiet DEF frameVars
<1> QED
  BY <1>1, <1>2, <1>3 DEF frame_acq_run

LEMMA FrameStep ==
  ASSUME ProgramInv, [ProgramNext]_allVars
  PROVE  FrameInv'
<1>1. CASE UNCHANGED allVars
  BY <1>1 DEF allVars, vars, deviceVars, configVars, threadVars, frameVars, ProgramInv, FrameInv
<1>2. CASE synchronome_wait
  <2>1. /\ UNCHANGED <<vars, handler, thread, frameVars>>
        /\ main \in JoinPlace
        /\ main' \in JoinPlace \cup {"frame_acq_exit", "crashed"}
    BY <1>2, WaitMoves DEF configVars
  <2> QED
    BY <2>1, FramesQuiet
    DEF JoinPlace, Unthreaded, Before, CameraPlace, vars, deviceVars, frameVars
<1>3. CASE \/ \E t \in Thread : thread_starts(t)
           \/ select_ends \/ service_fails \/ service_ends
           \/ \E t \in DOMAIN consumer_of : service_hangs(t)
  <2>1. UNCHANGED <<main, vars, handler, frameVars>>
    BY <1>3
    DEF thread_starts, select_ends, service_fails, service_hangs, service_ends, configVars
  <2>2. \A t \in Thread : /\ thread'[t] = "none" <=> thread[t] = "none"
                          /\ thread[t] = "ended" => thread'[t] = "ended"
    BY <1>3, ServiceMoves DEF ProgramInv, ThreadInv, PlaceInv, Services
  <2> QED
    BY <2>1, <2>2, ThreadIs, FramesQuiet DEF vars, deviceVars, frameVars
<1>4. CASE frame_acq_return_frame
  BY <1>4
  DEF frame_acq_return_frame, ProgramInv, FrameInv, vars, deviceVars, configVars,
      threadVars
<1>5. CASE \/ sequencer \/ killed \/ synchronome_stop \/ synchronome_stop_blocks
           \/ push_start_interrupted \/ use_camera \/ capture_returns \/ convert_image
  <2>1. /\ UNCHANGED <<handler, thread, dumpster, window, dumped>>
        /\ \/ UNCHANGED main
           \/ main' = "killed" /\ ~handler
           \/ /\ main' \in {"blocked", "exited"}
              /\ \E t \in Thread : thread[t] \notin {"none", "ended"}
           \/ main = "parse" /\ main' = "image"
           \/ main = "capture" /\ main' = "done"
        /\ UNCHANGED vars \/ (main = "capture" /\ UNCHANGED main)
    BY <1>5, OthersMove, ThreadIs
    DEF configVars, threadVars, frameVars, ProgramInv, CameraInv, Buffers, Believed
  <2>2. CASE UNCHANGED vars
    <3>1. ~handler \/ main \in Unthreaded => window \cup dumped = {}
      BY ThreadIs, NoFramesYet DEF ProgramInv, PlaceInv, FrameInv
    <3>2. main' \in {"blocked", "exited"} /\ main' # main => main # "destroy"
      BY <2>1, ThreadRuns
    <3>3. main = "destroy" => main' = "destroy" \/ window \cup dumped = {}
      BY <2>1, <3>1, <3>2
    <3>4. main' \in {"camera_exit", "log_exit", "done"} =>
            main \in {"camera_exit", "log_exit", "done"} \/ window \cup dumped = {}
      BY <2>1, <3>1 DEF Unthreaded
    <3>5. main' \in Unthreaded \cup CameraPlace \cup {"create"} =>
            main \in Unthreaded \cup CameraPlace \cup {"create"}
      BY <2>1 DEF Unthreaded, Before, CameraPlace
    <3> QED
      BY <2>1, <2>2, <3>3, <3>4, <3>5, FramesQuiet DEF vars, deviceVars
  <2>3. CASE main = "capture" /\ UNCHANGED main
    <3>1. window \cup dumped = {} /\ ~handler
      BY <2>3, NoFramesYet DEF Unthreaded, ProgramInv, PlaceInv
    <3> QED
      BY <2>1, <2>3, <3>1 DEF ProgramInv, FrameInv
  <2> QED
    BY <2>1, <2>2, <2>3
<1> QED
  BY <1>1, <1>2, <1>3, <1>4, <1>5, FramesOfMain, FramesOfSetup, FramesOfExit,
     FramesOfCapture
  DEF ProgramNext, MainSteps, synchronome_setup, Environment, Services, Finished

LEMMA ProgramHolds == ProgramSpec => []ProgramInv
<1>1. ProgramInit => ProgramInv
  BY BuffersInit, ModesInit, ThreadsInit, PlaceInit, FrameInit
  DEF ProgramInit, ProgramInv, CameraInv
<1>2. ASSUME ProgramInv, [ProgramNext]_allVars
      PROVE  ProgramInv'
  <2>1. CameraInv' /\ ThreadInv'
    BY <1>2, UsesCamera, CameraStep, ThreadStep DEF ProgramInv
  <2>2. PlaceInv' /\ FrameInv'
    BY <1>2, PlaceStep, FrameStep DEF ProgramInv
  <2> QED
    BY <2>1, <2>2 DEF ProgramInv
<1>3. ProgramInv /\ [ProgramNext]_allVars => ProgramInv'
  BY <1>2
<1> QED
  BY <1>1, <1>3, PTL DEF ProgramSpec

(* frame_acq.c, main.c and simple_capture.c: the program is a client of       *)
(* camera.c as camera.h asks for it, with every call that fails.             *)
THEOREM ProgramUsesCamera == ProgramSpec => Spec
<1>1. ProgramInit => Init
  BY DEF ProgramInit
<1>2. ProgramInv /\ [ProgramNext]_allVars => [Next]_vars
  BY UsesCamera DEF ProgramInv
<1> QED
  BY <1>1, <1>2, ProgramHolds, PTL DEF ProgramSpec, Spec

(* camera.c:490-650: what the camera believes the driver to own is queued and *)
(* mapped, so S1 neither waits for ever nor gets a frame without memory.     *)
THEOREM DriverOwnsFrames == ProgramSpec => []OwnedAreQueued
<1>1. ProgramInv => OwnedAreQueued
  BY CameraHolds DEF ProgramInv
<1> QED
  BY <1>1, ProgramHolds, PTL

(* camera.c:795-929, frame_acq.c:184-235: the mode on record is the device's, *)
(* it is what was asked for, and S1's is as fast as the sequencer.           *)
THEOREM RequestedMode == ProgramSpec => []ModeAsRequested
<1>1. ProgramInv => ModeAsRequested
  BY CameraHolds DEF ProgramInv
<1> QED
  BY <1>1, ProgramHolds, PTL

(* camera.c:157-169, camera.c:687-723, main.c:175-213: a closed camera leaves  *)
(* no mapping behind; the run command, whatever failed, and the capture       *)
(* command, if it succeeds, return with the camera closed.                   *)
THEOREM ClosesCamera == ProgramSpec => []ReturnsClosed
<1>1. ProgramInv => ReturnsClosed
  <2> SUFFICES ASSUME ProgramInv PROVE ReturnsClosed
    OBVIOUS
  <2>1. ~dev_file => buffers = <<>> /\ mappings = 0
    BY NoBuffers DEF ProgramInv, CameraInv, Buffers, Believed
  <2>2. main = "done" /\ (handler \/ ret = "success") => ~dev_file
    BY DEF ProgramInv, PlaceInv
  <2> QED
    BY <2>1, <2>2 DEF ReturnsClosed
<1> QED
  BY <1>1, ProgramHolds, PTL

(* main.c:360, frame_acq.c:68-182: although the result of frame_acq_init is  *)
(* ignored, no frame is with S2 or on its way back before frame_dumpster and  *)
(* its mutex have been initialized, nor later than S1 has ended; and S1,      *)
(* which uses both on every wake-up, initialized or, as static storage, not, *)
(* never runs when they have been destroyed.                                 *)
THEOREM DumpsterOutlivesFrames == ProgramSpec => []FramesNeedDumpster
<1>1. ProgramInv => FramesNeedDumpster
  <2> SUFFICES ASSUME ProgramInv PROVE FramesNeedDumpster
    OBVIOUS
  <2>1. ASSUME window # {} \/ dumped # {}
        PROVE  dumpster = "live" \/ (main = "destroy" /\ thread["capture"] = "ended")
    <3>1. thread["capture"] # "none" /\ (dumpster = "live" \/ main = "destroy")
      BY <2>1 DEF ProgramInv, FrameInv
    <3>2. main = "destroy" => thread["capture"] \in {"none", "ended"}
      BY ThreadIs DEF ProgramInv, ThreadInv, quiet
    <3> QED
      BY <3>1, <3>2
  <2>2. thread["capture"] \in {"running", "returning", "getting"} => dumpster # "destroyed"
    BY DEF ProgramInv, FrameInv
  <2> QED
    BY <2>1, <2>2 DEF FramesNeedDumpster
<1> QED
  BY <1>1, ProgramHolds, PTL

-------------------------------------------------------------------------------
(* Parameters that are gone, threads that fail, and what main returns. *)

GarbageInv ==
  /\ main \in Unthreaded => garbage = {}
  /\ main \in CameraPlace \cup {"create"} => setup_frame
  /\ setup_frame => garbage = {}
  /\ \A t \in Thread : thread[t] = "created" => setup_frame \/ ret = "failure"
  /\ garbage # {} => ret = "failure" /\ handler
  /\ timer # Off => /\ garbage = {}
                    /\ \A t \in Thread : thread[t] # "created"
                    /\ main \notin Unthreaded \cup CameraPlace \cup {"create"}

(* Without a timer nobody wakes S1 but those who tell it to stop.            *)
AsleepInv ==
  /\ sem.state = "live" => main \notin Before \ {"setup"}
  /\ ~armed =>
       /\ thread["capture"] \notin {"returning", "getting"}
       /\ sem.state = "live" /\ sem.count > 0 => data_stop
       /\ handler => held = {}

(* The writer that waits for the compressor never leaves with success when it *)
(* has failed; S2's join sees whether S2 was created.                        *)
OutcomeInv ==
  /\ failed \subseteq Thread /\ \A t \in failed : thread[t] = "ended"
  /\ "compressor" \in failed =>
       thread["storage"] \in {"running", "stuck"} \/ "storage" \in failed
  /\ main \in Unthreaded \cup CameraPlace \cup {"create"} => failed = {}
  /\ ret = "success" => failed \cap quiet(main) = {}
  /\ main \in AfterSetup /\ handler /\ ret = "success" =>
       created = Wanted /\ (main # "join_select" => thread["select"] = "ended")

SetupInv == GarbageInv /\ AsleepInv /\ OutcomeInv

LEMMA SetupInit == ProgramInit => SetupInv
<1> SUFFICES ASSUME ProgramInit PROVE SetupInv
  OBVIOUS
<1>1. /\ main = "parse" /\ setup_frame = FALSE /\ garbage = {} /\ timer = Off
      /\ failed = {} /\ held = {} /\ sem.state = "raw" /\ thread = [t \in Thread |-> "none"]
  BY DEF ProgramInit, Init
<1> QED
  BY <1>1, ThreadIs
  DEF SetupInv, GarbageInv, AsleepInv, OutcomeInv, Unthreaded, Before, CameraPlace,
      AfterSetup, armed

(* Main before it sets the camera up.                                        *)
Leaves == {"done", "exited", "frame_acq_exit", "log_exit", "join_select"}

LEMMA StartMoves ==
  ASSUME \/ parse_cmd_line_args \/ install_signal_handler \/ print_platform_info
         \/ count_frame_buffers \/ reset_stop \/ acq_queue_init \/ init_queues
         \/ init_sem \/ exits \/ setup
  PROVE  /\ UNCHANGED <<vars, timer, signals, told, threadVars, frameVars>>
         /\ main \in Before
         /\ main' \in Before \cup {"capture", "camera_init"} \cup Leaves
         /\ main' \in Before => main # "setup"
         /\ main' \in Leaves /\ main # "parse" => ret' = "failure"
         /\ ret' \in {ret, "failure"}
         /\ setup_frame' = setup_frame \/ setup_frame'
         /\ main' = "camera_init" => setup_frame' = TRUE
         /\ handler' = handler \/ main = "log_init"
<1> USE DEF succeeds_to, fails_to, goto, configVars, setupVars, stopVars, Before, Leaves
<1>1. CASE parse_cmd_line_args
  BY <1>1 DEF parse_cmd_line_args
<1>2. CASE install_signal_handler
  BY <1>2 DEF install_signal_handler
<1>3. CASE print_platform_info
  BY <1>3 DEF print_platform_info
<1>4. CASE count_frame_buffers
  <2>1. /\ UNCHANGED <<vars, handler, setup_frame, timer, signals, told, threadVars, frameVars>>
        /\ main = "acc_count"
        /\ \/ main' = "log_exit" /\ ret' = "failure"
           \/ main' = "reset" /\ ret' = ret
    BY <1>4 DEF count_frame_buffers
  <2> QED
    BY <2>1
<1>5. CASE reset_stop \/ acq_queue_init
  BY <1>5 DEF reset_stop, acq_queue_init
<1>6. CASE init_queues \/ init_sem
  BY <1>6 DEF init_queues, init_sem
<1>7. CASE exits
  BY <1>7 DEF exits
<1>8. CASE setup
  BY <1>8 DEF setup
<1> QED
  BY <1>1, <1>2, <1>3, <1>4, <1>5, <1>6, <1>7, <1>8

(* Of these steps two are about the semaphore and the flag.                  *)
LEMMA StartStops ==
  ASSUME \/ parse_cmd_line_args \/ install_signal_handler \/ print_platform_info
         \/ count_frame_buffers \/ reset_stop \/ acq_queue_init \/ init_queues
         \/ init_sem \/ exits \/ setup
  PROVE  \/ UNCHANGED <<sem, data_stop>>
         \/ main = "reset" /\ UNCHANGED sem
         \/ sem' = [state |-> "live", count |-> 0] /\ main' = "setup"
BY DEF parse_cmd_line_args, install_signal_handler, print_platform_info,
       count_frame_buffers, reset_stop, acq_queue_init, init_queues, init_sem, exits,
       setup, succeeds_to, fails_to, goto, stopVars

(* Main after the set up.                                                    *)
LEMMA ExitMoves ==
  ASSUME frame_acq_exit \/ destroy \/ close_camera \/ log_exit
  PROVE  /\ UNCHANGED <<configVars, setupVars, signals, told, data_stop, threadVars>>
         /\ main \in {"frame_acq_exit", "destroy", "camera_exit", "log_exit"}
         /\ main' \in {"destroy", "camera_exit", "log_exit", "done"}
         /\ ret' \in {ret, "failure"}
         /\ sem' = sem \/ sem' = [state |-> "destroyed", count |-> 0]
         /\ held' \in {held, {}}
<1> USE DEF succeeds_to, fails_to, goto, stopVars
<1>1. CASE frame_acq_exit
  BY <1>1 DEF frame_acq_exit, camera_stream_stop, vars
<1>2. CASE destroy
  BY <1>2 DEF destroy, vars
<1>3. CASE close_camera
  BY <1>3 DEF close_camera, camera_exit, vars
<1>4. CASE log_exit
  BY <1>4 DEF log_exit, vars
<1> QED
  BY <1>1, <1>2, <1>3, <1>4

(* frame_acq_init gets no frame.                                             *)
LEMMA NoFrameGot ==
  ASSUME frame_acq_init
  PROVE  held' = held
<1>1. \/ camera_init \/ camera_init_fails \/ set_camera_format \/ camera_init_buffer
      \/ camera_stream_start
  BY DEF frame_acq_init, frame_acq_init_streams, CAMERA_RUN
<1> QED
  BY <1>1
  DEF camera_init, camera_init_fails, set_camera_format, camera_set_mode,
      camera_init_buffer, camera_stream_start

LEMMA GarbageStep ==
  ASSUME ProgramInv, SetupInv, [ProgramNext]_allVars
  PROVE  GarbageInv'
<1> USE ThreadIs DEF SetupInv, GarbageInv
<1>1. CASE UNCHANGED allVars
  BY <1>1 DEF allVars, configVars, setupVars, threadVars
<1>2. CASE \/ parse_cmd_line_args \/ install_signal_handler \/ print_platform_info
           \/ count_frame_buffers \/ reset_stop \/ acq_queue_init \/ init_queues
           \/ init_sem \/ exits \/ setup
  <2>1. /\ UNCHANGED <<timer, thread, garbage>> /\ ret' \in {ret, "failure"}
        /\ main \in Before
        /\ main' \in Before \cup {"capture", "camera_init"} \cup Leaves
        /\ main' = "camera_init" => setup_frame' = TRUE
        /\ setup_frame' = setup_frame \/ setup_frame'
    BY <1>2, StartMoves DEF threadVars
  <2>2. timer = Off /\ garbage = {} /\ \A t \in Thread : thread[t] = "none"
    BY <2>1 DEF Unthreaded, ProgramInv, PlaceInv
  <2> QED
    BY <2>1, <2>2 DEF Unthreaded, Before, CameraPlace, Leaves
<1>3. CASE frame_acq_init
  BY <1>3, FrameAcqInit
  DEF configVars, setupVars, threadVars, Unthreaded, Before, CameraPlace
<1>4. CASE thread_create
  <2>1. /\ UNCHANGED <<timer, garbage, handler>> /\ main = "create"
        /\ \/ main' = "create" /\ UNCHANGED <<ret, setup_frame>>
           \/ /\ main' = "join_select" /\ ret' = "failure" /\ setup_frame' = FALSE
              /\ UNCHANGED thread
    BY <1>4 DEF thread_create, succeeds_to, fails_to, goto, configVars
  <2>2. timer = Off /\ garbage = {} /\ setup_frame
    BY <2>1
  <2> QED
    BY <2>1, <2>2 DEF Unthreaded, Before, CameraPlace
<1>5. CASE time_add_timer
  <2>1. /\ UNCHANGED <<thread, garbage, handler, ret>> /\ main = "create" /\ main' = "join_select"
        /\ setup_frame' = FALSE
        /\ \A t \in Thread : thread[t] # "created"
    BY <1>5 DEF time_add_timer, succeeds_to, goto, configVars, threadVars
  <2>2. garbage = {}
    BY <2>1
  <2> QED
    BY <2>1, <2>2 DEF Unthreaded, Before, CameraPlace
<1>6. CASE synchronome_wait
  BY <1>6, WaitMoves
  DEF JoinPlace, configVars, setupVars, Unthreaded, Before, CameraPlace
<1>7. CASE frame_acq_exit \/ destroy \/ close_camera \/ log_exit
  BY <1>7, ExitMoves
  DEF configVars, setupVars, threadVars, Unthreaded, Before, CameraPlace
<1>8. CASE Services
  <2>1. /\ UNCHANGED <<ret, handler, setup_frame, timer>>
        /\ UNCHANGED main \/ main' = "crashed"
        /\ \A t \in Thread : thread'[t] = "created" => thread[t] = "created"
    BY <1>8, ServiceMoves DEF ProgramInv, ThreadInv, PlaceInv, configVars, setupVars
  <2>2. UNCHANGED garbage
        \/ \E t \in Thread : /\ thread[t] = "created"
                             /\ garbage' = IF setup_frame THEN garbage ELSE garbage \cup {t}
    <3>1. CASE \E t \in Thread : thread_starts(t)
      BY <3>1 DEF thread_starts
    <3>2. CASE frame_acq_run
      BY <3>2
      DEF frame_acq_run, capture_waits, capture_returns_frame, capture_returned_frames,
          capture_gets_frame, capture_fails, capture_aborts, threadVars
    <3>3. CASE \/ frame_acq_return_frame \/ select_ends \/ service_fails \/ service_ends
               \/ \E t \in DOMAIN consumer_of : service_hangs(t)
      BY <3>3
      DEF frame_acq_return_frame, select_ends, service_fails, service_hangs, service_ends,
          threadVars
    <3> QED
      BY <1>8, <3>1, <3>2, <3>3 DEF Services
  <2>3. CASE UNCHANGED garbage
    BY <2>1, <2>3 DEF Unthreaded, Before, CameraPlace
  <2>4. CASE \E t \in Thread : /\ thread[t] = "created"
                               /\ garbage' = IF setup_frame THEN garbage ELSE garbage \cup {t}
    <3>1. timer = Off /\ main \notin Unthreaded /\ handler
      BY <2>4 DEF ProgramInv, PlaceInv
    <3>2. setup_frame => garbage' = {}
      BY <2>4
    <3>3. ~setup_frame => ret = "failure" /\ main \notin CameraPlace \cup {"create"}
      BY <2>4
    <3> QED
      BY <2>1, <3>1, <3>2, <3>3 DEF Unthreaded, Before, CameraPlace
  <2> QED
    BY <2>2, <2>3, <2>4
<1>9. CASE \/ sequencer \/ killed \/ synchronome_stop \/ synchronome_stop_blocks
           \/ push_start_interrupted \/ use_camera \/ capture_returns \/ convert_image
  <2>1. /\ UNCHANGED <<handler, setup_frame, timer, thread, garbage>>
        /\ ret' \in {ret, "failure"}
        /\ \/ UNCHANGED main
           \/ main' \in {"killed", "blocked", "exited"}
           \/ main = "parse" /\ main' = "image"
           \/ main = "capture" /\ main' = "done"
    BY <1>9, OthersMove
    DEF configVars, setupVars, threadVars, ProgramInv, CameraInv, Buffers, Believed
  <2> QED
    BY <2>1 DEF Unthreaded, Before, CameraPlace
<1> QED
  BY <1>1, <1>2, <1>3, <1>4, <1>5, <1>6, <1>7, <1>8, <1>9
  DEF ProgramNext, MainSteps, synchronome_setup, Environment, Finished

LEMMA AsleepStep ==
  ASSUME ProgramInv, SetupInv, [ProgramNext]_allVars
  PROVE  AsleepInv'
<1> USE ThreadIs DEF SetupInv, AsleepInv
<1>0. UNCHANGED timer => armed' = armed
  BY DEF armed
<1>1. CASE UNCHANGED allVars
  BY <1>0, <1>1 DEF allVars, vars, configVars, setupVars, stopVars, threadVars
<1>2. CASE \/ parse_cmd_line_args \/ install_signal_handler \/ print_platform_info
           \/ count_frame_buffers \/ reset_stop \/ acq_queue_init \/ init_queues
           \/ init_sem \/ exits \/ setup
  <2>1. /\ UNCHANGED <<timer, thread, held>>
        /\ main \in Before
        /\ main' \in Before => main # "setup"
        /\ handler' = handler \/ main = "log_init"
        /\ main' \in Before \cup {"capture", "camera_init"} \cup Leaves
    BY <1>2, StartMoves DEF threadVars, vars
  <2>2. \/ UNCHANGED <<sem, data_stop>>
        \/ main = "reset" /\ UNCHANGED sem
        \/ sem' = [state |-> "live", count |-> 0] /\ main' = "setup"
    BY <1>2, StartStops
  <2>3. main = "log_init" => held = {}
    BY NoBuffers DEF ProgramInv, PlaceInv, CameraInv, Buffers, Believed, Before
  <2>4. sem'.state = "live" => main' \notin Before \ {"setup"}
    BY <2>1, <2>2 DEF Before, Leaves
  <2>5. sem'.state = "live" /\ sem'.count > 0 /\ ~armed => data_stop'
    <3>1. CASE UNCHANGED <<sem, data_stop>>
      BY <3>1
    <3>2. CASE main = "reset" /\ UNCHANGED sem
      BY <3>2 DEF Before
    <3>3. CASE sem' = [state |-> "live", count |-> 0]
      BY <3>3
    <3> QED
      BY <2>2, <3>1, <3>2, <3>3
  <2> QED
    BY <1>0, <2>1, <2>3, <2>4, <2>5
<1>3. CASE frame_acq_init
  <2>1. main' \notin Before /\ UNCHANGED <<sem, data_stop, timer, thread, handler>>
    BY <1>3, FrameAcqInit
    DEF configVars, setupVars, stopVars, threadVars, Before, CameraPlace
  <2> QED
    BY <1>0, <1>3, <2>1, NoFrameGot
<1>4. CASE thread_create
  <2>1. /\ UNCHANGED <<timer, sem, data_stop, handler, held>>
        /\ main = "create" /\ main' \in {"create", "join_select"}
    BY <1>4 DEF thread_create, succeeds_to, fails_to, goto, stopVars, configVars, vars
  <2>2. UNCHANGED thread
        \/ \E t, state : /\ thread' = [thread EXCEPT ![t] = state]
                         /\ state \in {"created", "running"}
    BY <1>4 DEF thread_create
  <2>3. thread["capture"] \notin {"returning", "getting"} =>
          thread'["capture"] \notin {"returning", "getting"}
    BY <2>2 DEF ProgramInv, ThreadInv
  <2> QED
    BY <1>0, <2>1, <2>3 DEF Before
<1>5. CASE time_add_timer
  <2>1. /\ UNCHANGED <<thread, sem, data_stop, handler, held>>
        /\ main = "create" /\ main' = "join_select"
    BY <1>5
    DEF time_add_timer, succeeds_to, goto, threadVars, stopVars, configVars, vars
  <2>2. ~armed
    BY <2>1 DEF GarbageInv, armed
  <2> QED
    BY <2>1, <2>2 DEF Before
<1>6. CASE synchronome_wait
  <2>1. /\ UNCHANGED <<timer, thread, handler, held>> /\ main' \notin Before
    BY <1>6, WaitMoves
    DEF JoinPlace, configVars, setupVars, vars, Before
  <2>2. UNCHANGED <<sem, data_stop>> \/ data_stop' = TRUE
    BY <1>6 DEF synchronome_wait, stop_capture, thread_join_ret
  <2> QED
    BY <1>0, <2>1, <2>2
<1>7. CASE frame_acq_exit \/ destroy \/ close_camera \/ log_exit
  <2>1. /\ UNCHANGED <<timer, thread, handler, data_stop>>
        /\ main' \notin Before
        /\ sem' = sem \/ sem' = [state |-> "destroyed", count |-> 0]
        /\ held' \in {held, {}}
    BY <1>7, ExitMoves DEF configVars, setupVars, threadVars, Before
  <2> QED
    BY <1>0, <2>1
<1>8. CASE Services
  <2>1. /\ UNCHANGED <<timer, handler, data_stop>>
        /\ UNCHANGED main \/ main' = "crashed"
        /\ sem' = sem \/ capture_waits
    BY <1>8, ServiceMoves
    DEF ProgramInv, ThreadInv, PlaceInv, configVars, setupVars
  <2>2. CASE ~armed
    <3>1. thread["capture"] \notin {"returning", "getting"}
      BY <2>2
    <3>2. /\ held' = held
          /\ thread'["capture"] \notin {"returning", "getting"}
      <4>1. CASE \E t \in Thread : thread_starts(t)
        BY <3>1, <4>1 DEF thread_starts, ProgramInv, ThreadInv, vars
      <4>2. CASE capture_waits
        <5>1. thread' = [thread EXCEPT !["capture"] = "ended"]
          BY <2>2, <4>2 DEF capture_waits, becomes
        <5> QED
          BY <4>2, <5>1 DEF capture_waits, vars, ProgramInv, ThreadInv
      <4>3. CASE capture_returns_frame \/ capture_returned_frames \/ capture_gets_frame
                 \/ capture_fails \/ capture_aborts
        BY <3>1, <4>3
        DEF capture_returns_frame, capture_returned_frames, capture_gets_frame,
            capture_fails, capture_aborts, becomes, gives_up
      <4>4. CASE frame_acq_return_frame
        BY <3>1, <4>4 DEF frame_acq_return_frame, vars, threadVars
      <4>5. CASE \/ select_ends \/ service_fails \/ service_ends
                 \/ \E t \in DOMAIN consumer_of : service_hangs(t)
        BY <3>1, <4>5
        DEF select_ends, service_fails, service_hangs, service_ends, becomes, gives_up,
            vars, ProgramInv, ThreadInv
      <4> QED
        BY <1>8, <4>1, <4>2, <4>3, <4>4, <4>5 DEF Services, frame_acq_run
    <3>3. sem'.state = sem.state /\ (sem'.count > 0 => sem.count > 0)
      <4>1. CASE sem' = sem
        BY <4>1
      <4>2. CASE capture_waits
        <5>1. sem.count \in Nat /\ sem.count > 0 /\ sem' = [sem EXCEPT !.count = sem.count - 1]
          BY <4>2 DEF capture_waits, ProgramInv, ThreadInv
        <5> QED
          BY <5>1 DEF ProgramInv, ThreadInv
      <4> QED
        BY <2>1, <4>1, <4>2
    <3> QED
      BY <1>0, <2>1, <2>2, <3>2, <3>3 DEF Before
  <2>3. CASE armed
    <3>1. sem'.state = sem.state
      BY <2>1 DEF capture_waits, ProgramInv, ThreadInv
    <3> QED
      BY <1>0, <2>1, <2>3, <3>1 DEF Before
  <2> QED
    BY <2>2, <2>3
<1>9. CASE \/ sequencer \/ killed \/ synchronome_stop \/ synchronome_stop_blocks
           \/ push_start_interrupted \/ use_camera \/ capture_returns \/ convert_image
  <2>1. /\ UNCHANGED <<timer, thread, handler>>
        /\ \/ UNCHANGED main
           \/ main' \in {"killed", "blocked", "exited"}
           \/ main = "parse" /\ main' = "image"
           \/ main = "capture" /\ main' = "done"
        /\ held' = held \/ ~handler
    <3>1. main = "capture" => ~handler
      BY DEF ProgramInv, PlaceInv
    <3> QED
      BY <1>9, <3>1, OthersMove
      DEF setupVars, threadVars, configVars, vars, ProgramInv, CameraInv, Buffers, Believed
  <2>2. /\ sem'.state = sem.state
        /\ UNCHANGED <<sem, data_stop>> \/ data_stop' = TRUE \/ armed
    BY <1>9
    DEF sequencer, killed, synchronome_stop, synchronome_stop_blocks,
        push_start_interrupted, use_camera, capture_returns, convert_image, stopVars,
        ProgramInv, ThreadInv
  <2> QED
    BY <1>0, <2>1, <2>2 DEF Before
<1> QED
  BY <1>1, <1>2, <1>3, <1>4, <1>5, <1>6, <1>7, <1>8, <1>9
  DEF ProgramNext, MainSteps, synchronome_setup, Environment, Finished

(* What main has counted and joined stays as it was.                         *)
LEMMA SameOutcome ==
  ASSUME SetupInv, UNCHANGED <<args, handler, thread, failed>>, ret' \in {ret, "failure"},
         quiet(main') \subseteq quiet(main),
         main' \in AfterSetup => main \in AfterSetup,
         main' \in AfterSetup \ {"join_select"} => main # "join_select",
         main' \in Unthreaded \cup CameraPlace \cup {"create"} =>
           main \in Unthreaded \cup CameraPlace \cup {"create"}
  PROVE  OutcomeInv'
<1>1. created' = created /\ Wanted' = Wanted
  BY DEF created, Wanted
<1> QED
  BY <1>1 DEF SetupInv, OutcomeInv

(* A service gives up only with a frame, with garbage, or when S1 is awake.   *)
LEMMA Failures ==
  ASSUME ProgramInv, SetupInv, Services
  PROVE  /\ \A t \in failed' \ failed : /\ t \in Thread /\ thread'[t] = "ended"
                                        /\ thread[t] \notin {"none", "ended"}
         /\ failed \subseteq failed'
         /\ main \in Unthreaded \cup CameraPlace \cup {"create"} => failed' = failed
<1>1. armed => main \notin Unthreaded \cup CameraPlace \cup {"create"}
  BY DEF armed, SetupInv, GarbageInv
<1>2. CASE capture_gets_frame \/ capture_fails
  <2>1. thread["capture"] = "getting"
    BY <1>2 DEF capture_gets_frame, capture_fails, becomes, gives_up
  <2>2. armed
    BY <2>1 DEF SetupInv, AsleepInv
  <2> QED
    BY <1>1, <1>2, <2>2, ThreadIs
    DEF capture_gets_frame, capture_fails, becomes, gives_up, ProgramInv, ThreadInv
<1>3. CASE select_ends
  <2>1. CASE UNCHANGED failed
    BY <2>1
  <2>2. CASE gives_up("select", "running") /\ (window # {} \/ "select" \in garbage)
    <3>1. handler
      BY <2>2, ThreadIs DEF gives_up, ProgramInv, PlaceInv
    <3>2. window # {} => armed
      BY <3>1 DEF SetupInv, AsleepInv, ProgramInv, FrameInv
    <3>3. main \in Unthreaded \cup CameraPlace \cup {"create"} => garbage = {}
      BY DEF SetupInv, GarbageInv
    <3>4. main \notin Unthreaded \cup CameraPlace \cup {"create"}
      BY <1>1, <2>2, <3>2, <3>3
    <3> QED
      BY <2>2, <3>4, ThreadIs DEF gives_up, ProgramInv, ThreadInv
  <2> QED
    BY <1>3, <2>1, <2>2 DEF select_ends, becomes
<1>4. CASE service_fails
  <2>1. PICK t \in {"convert", "storage", "compressor"} : gives_up(t, "running")
    BY <1>4 DEF service_fails
  <2>2. main \notin Unthreaded \cup CameraPlace \cup {"create"}
    BY <1>1, <1>4 DEF service_fails
  <2> QED
    BY <2>1, <2>2, ThreadIs DEF gives_up, ProgramInv, ThreadInv
<1>5. CASE ~(capture_gets_frame \/ capture_fails \/ select_ends \/ service_fails)
  <2>1. UNCHANGED failed
    <3>1. CASE \E t \in Thread : thread_starts(t)
      BY <3>1 DEF thread_starts
    <3>2. CASE frame_acq_run
      BY <1>5, <3>2
      DEF frame_acq_run, capture_waits, capture_returns_frame, capture_returned_frames,
          capture_aborts, becomes, threadVars
    <3>3. CASE \/ frame_acq_return_frame \/ service_ends
               \/ \E t \in DOMAIN consumer_of : service_hangs(t)
      BY <3>3 DEF frame_acq_return_frame, service_ends, service_hangs, becomes, threadVars
    <3> QED
      BY <1>5, <3>1, <3>2, <3>3 DEF Services
  <2> QED
    BY <2>1
<1> QED
  BY <1>2, <1>3, <1>4, <1>5

(* write_to_storage.c:75-87: the compressor fails over a frame of the writer, *)
(* which waits for it, or has failed already.                                *)
LEMMA WriterWaits ==
  ASSUME ProgramInv, SetupInv, Services, "compressor" \in failed'
  PROVE  thread'["storage"] \in {"running", "stuck"} \/ "storage" \in failed'
<1> USE ThreadIs
<1>0. thread \in [Thread -> ThreadState]
  BY DEF ProgramInv, ThreadInv
<1>1. "compressor" \in failed =>
        thread["storage"] \in {"running", "stuck"} \/ "storage" \in failed
  BY DEF SetupInv, OutcomeInv
<1>2. failed \subseteq failed'
  BY Failures
<1>3. CASE UNCHANGED failed /\ thread'["storage"] = thread["storage"]
  BY <1>1, <1>3
<1>4. CASE \E t \in Thread : thread_starts(t)
  BY <1>0, <1>1, <1>4 DEF thread_starts
<1>5. CASE frame_acq_run \/ frame_acq_return_frame \/ select_ends
  <2>1. failed' \subseteq failed \cup {"capture", "select"}
        /\ thread'["storage"] = thread["storage"]
    BY <1>0, <1>5
    DEF frame_acq_run, capture_waits, capture_returns_frame, capture_returned_frames,
        capture_gets_frame, capture_fails, capture_aborts, frame_acq_return_frame,
        select_ends, becomes, gives_up, threadVars
  <2> QED
    BY <1>1, <1>2, <2>1
<1>6. CASE service_fails
  BY <1>0, <1>1, <1>6 DEF service_fails, gives_up
<1>7. CASE \E t \in DOMAIN consumer_of : service_hangs(t)
  BY <1>0, <1>1, <1>7 DEF service_hangs, becomes, consumer_of
<1>8. CASE service_ends
  BY <1>0, <1>1, <1>8 DEF service_ends, becomes
<1> QED
  BY <1>4, <1>5, <1>6, <1>7, <1>8 DEF Services

(* A successful join is of a thread that did not fail; of the compressor,     *)
(* whose own record always says so, if the writer did not.                   *)
LEMMA OutcomeOfJoin ==
  ASSUME ProgramInv, SetupInv, NEW t \in Thread, NEW from, NEW to, NEW also,
         thread_join_ret(t, from, to, also),
         \A u \in quiet(to) : u \in quiet(from) \/ u = t \/ thread[u] = "none",
         t = "compressor" => "storage" \in quiet(from),
         t = "select" \/ from # "join_select",
         from \in AfterSetup, to \notin Unthreaded \cup CameraPlace \cup {"create"}
  PROVE  OutcomeInv'
<1>1. /\ UNCHANGED <<args, handler, thread, failed>> /\ main = from
      /\ \/ main' = to /\ UNCHANGED ret /\ (t \in failed => t = "compressor")
            /\ thread[t] = "ended"
         \/ main' = to /\ ret' = "failure"
         \/ main' = "crashed" /\ ret' = "failure"
  BY DEF thread_join_ret, fails_visibly, succeeds_to, fails_to, goto, configVars, threadVars
<1>2. created' = created /\ Wanted' = Wanted
  BY <1>1 DEF created, Wanted
<1>3. main' \notin Unthreaded \cup CameraPlace \cup {"create"}
  BY <1>1 DEF Unthreaded, CameraPlace, Before
<1>4. ret' = "success" => failed \cap quiet(main') = {}
  <2> SUFFICES ASSUME ret' = "success" PROVE failed \cap quiet(to) = {}
    BY <1>1
  <2>1. (t \in failed => t = "compressor") /\ failed \cap quiet(from) = {}
    BY <1>1 DEF SetupInv, OutcomeInv
  <2>2. \A u \in failed : thread[u] = "ended"
    BY DEF SetupInv, OutcomeInv
  <2>3. t \notin failed
    <3> SUFFICES ASSUME t \in failed PROVE FALSE
      OBVIOUS
    <3>1. t = "compressor" /\ "storage" \in quiet(from)
      BY <2>1
    <3>2. thread["storage"] \in {"none", "ended"} /\ "storage" \notin failed
      BY <1>1, <2>1, <3>1 DEF ProgramInv, ThreadInv
    <3> QED
      BY <3>1, <3>2 DEF SetupInv, OutcomeInv
  <2> QED
    BY <2>1, <2>2, <2>3
<1>5. ret' = "success" /\ handler => created = Wanted /\ thread["select"] = "ended"
  BY <1>1 DEF SetupInv, OutcomeInv
<1> QED
  BY <1>1, <1>2, <1>3, <1>4, <1>5 DEF SetupInv, OutcomeInv

LEMMA OutcomeOfWait ==
  ASSUME ProgramInv, SetupInv, synchronome_wait
  PROVE  OutcomeInv'
<1> USE ThreadIs DEF quiet, AfterSetup, Unthreaded, Before, CameraPlace
<1>1. CASE thread_join_ret("select", "join_select", "stop_capture", {})
  BY <1>1, OutcomeOfJoin
<1>2. CASE stop_capture
  <2>1. /\ UNCHANGED <<args, handler, thread, failed, ret>>
        /\ main = "stop_capture" /\ main' = "join_convert"
    BY <1>2 DEF stop_capture, succeeds_to, goto, configVars, threadVars
  <2> QED
    BY <2>1, SameOutcome
<1>3. CASE thread_join_ret("convert", "join_convert", "join_storage", {"storage"})
  BY <1>3, OutcomeOfJoin
<1>4. CASE thread_join_ret("storage", "join_storage", "join_compressor", {"compressor"})
  BY <1>4, OutcomeOfJoin
<1>5. CASE ~args.compress /\ thread_join_ret("storage", "join_storage", "join_capture", {})
  <2>1. thread["compressor"] = "none"
    BY <1>5 DEF ProgramInv, ThreadInv
  <2> QED
    BY <1>5, <2>1, OutcomeOfJoin
<1>6. CASE thread_join_ret("compressor", "join_compressor", "join_capture", {})
  BY <1>6, OutcomeOfJoin
<1>7. CASE thread_join_ret("capture", "join_capture", "join_log", {"log"})
  BY <1>7, OutcomeOfJoin
<1>8. CASE thread_join_ret("log", "join_log", "frame_acq_exit", {})
  BY <1>8, OutcomeOfJoin
<1> QED
  BY <1>1, <1>2, <1>3, <1>4, <1>5, <1>6, <1>7, <1>8 DEF synchronome_wait

LEMMA OutcomeStep ==
  ASSUME ProgramInv, SetupInv, [ProgramNext]_allVars
  PROVE  OutcomeInv'
<1>1. CASE UNCHANGED allVars
  BY <1>1, SameOutcome DEF allVars, configVars, threadVars
<1>2. CASE \/ parse_cmd_line_args \/ install_signal_handler \/ print_platform_info
           \/ count_frame_buffers \/ reset_stop \/ acq_queue_init \/ init_queues
           \/ init_sem \/ exits \/ setup
  <2>1. /\ UNCHANGED <<failed, thread>> /\ main \in Before
        /\ main' \in Before \cup {"capture", "camera_init"} \cup Leaves
        /\ main' \in Leaves /\ main # "parse" => ret' = "failure"
        /\ handler' = handler \/ main = "log_init"
    BY <1>2, StartMoves DEF threadVars
  <2>2. failed = {} /\ (main = "parse" => ~handler)
    BY <2>1 DEF SetupInv, OutcomeInv, ProgramInv, PlaceInv, Unthreaded
  <2>3. main' \in AfterSetup => main' \in Leaves
    BY <2>1 DEF AfterSetup, Leaves, Before
  <2>4. main' \in AfterSetup /\ handler' => ret' = "failure"
    BY <2>1, <2>2, <2>3
  <2> QED
    BY <2>1, <2>2, <2>4 DEF OutcomeInv
<1>3. CASE frame_acq_init
  <2>1. /\ UNCHANGED <<failed, thread>> /\ main \in CameraPlace
        /\ main' \in CameraPlace \cup {"create"}
    BY <1>3, FrameAcqInit DEF threadVars
  <2>2. failed = {}
    BY <2>1 DEF SetupInv, OutcomeInv
  <2>3. main' \notin AfterSetup
    BY <2>1 DEF CameraPlace, AfterSetup
  <2> QED
    BY <2>1, <2>2, <2>3 DEF OutcomeInv
<1>4. CASE thread_create
  <2>1. /\ UNCHANGED failed /\ main = "create"
        /\ \/ main' = "create"
           \/ main' = "join_select" /\ ret' = "failure"
    BY <1>4 DEF thread_create, succeeds_to, fails_to, goto
  <2>2. failed = {}
    BY <2>1 DEF SetupInv, OutcomeInv
  <2> QED
    BY <2>1, <2>2 DEF OutcomeInv, AfterSetup
<1>5. CASE time_add_timer
  <2>1. /\ UNCHANGED <<failed, thread, args>> /\ main = "create" /\ created = Wanted
    BY <1>5 DEF time_add_timer, succeeds_to, goto, threadVars, configVars
  <2>2. failed = {}
    BY <2>1 DEF SetupInv, OutcomeInv
  <2>3. created' = created /\ Wanted' = Wanted
    BY <2>1 DEF created, Wanted
  <2>4. main' = "join_select"
    BY <1>5 DEF time_add_timer, succeeds_to, goto
  <2> QED
    BY <2>1, <2>2, <2>3, <2>4 DEF OutcomeInv, AfterSetup
<1>6. CASE frame_acq_exit \/ destroy \/ close_camera \/ log_exit
  <2>1. /\ UNCHANGED <<args, handler, thread, failed>> /\ ret' \in {ret, "failure"}
        /\ main \in {"frame_acq_exit", "destroy", "camera_exit", "log_exit"}
        /\ main' \in {"destroy", "camera_exit", "log_exit", "done"}
    BY <1>6, ExitMoves DEF configVars, threadVars
  <2> QED
    BY <2>1, SameOutcome DEF quiet, AfterSetup, Unthreaded, Before, CameraPlace
<1>7. CASE Services
  <2>1. /\ UNCHANGED <<ret, args, handler>>
        /\ UNCHANGED main \/ main' = "crashed"
        /\ \A t \in Thread : thread'[t] = "none" <=> thread[t] = "none"
        /\ \A t \in Thread : thread[t] = "ended" => thread'[t] = "ended"
    BY <1>7, ServiceMoves DEF ProgramInv, ThreadInv, PlaceInv, configVars
  <2>2. {t \in Thread : thread'[t] # "none"} = {t \in Thread : thread[t] # "none"}
    <3>1. \A t \in Thread : thread'[t] # "none" <=> thread[t] # "none"
      BY <2>1
    <3> QED
      BY <3>1, Zenon
  <2>3. created' = created /\ Wanted' = Wanted
    BY <2>1, <2>2 DEF created, Wanted
  <2>4. /\ failed' \subseteq Thread /\ \A t \in failed' : thread'[t] = "ended"
        /\ "compressor" \in failed' =>
             thread'["storage"] \in {"running", "stuck"} \/ "storage" \in failed'
    BY <1>7, <2>1, Failures, WriterWaits DEF SetupInv, OutcomeInv
  <2>5. ret' = "success" => failed' \cap quiet(main') = {}
    <3>1. \A t \in quiet(main) : thread[t] \in {"none", "ended"}
      BY DEF ProgramInv, ThreadInv
    <3>2. \A t \in failed' \ failed : t \notin quiet(main)
      BY <1>7, <3>1, Failures
    <3>3. quiet("crashed") = {}
      BY DEF quiet
    <3> QED
      BY <2>1, <3>2, <3>3 DEF SetupInv, OutcomeInv
  <2>6. main' \in Unthreaded \cup CameraPlace \cup {"create"} => failed' = {}
    <3>1. "crashed" \notin Unthreaded \cup CameraPlace \cup {"create"}
      BY DEF Unthreaded, Before, CameraPlace
    <3> QED
      BY <1>7, <2>1, <3>1, Failures DEF SetupInv, OutcomeInv
  <2>7. main' \in AfterSetup => UNCHANGED main
    BY <2>1 DEF AfterSetup
  <2>8. thread["select"] = "ended" => thread'["select"] = "ended"
    BY <2>1, ThreadIs
  <2>9. main' \in AfterSetup /\ handler' /\ ret' = "success" =>
          created' = Wanted' /\ (main' # "join_select" => thread'["select"] = "ended")
    BY <2>1, <2>3, <2>7, <2>8 DEF SetupInv, OutcomeInv
  <2> QED
    BY <2>4, <2>5, <2>6, <2>9, Zenon DEF OutcomeInv
<1>8. CASE \/ sequencer \/ killed \/ synchronome_stop \/ synchronome_stop_blocks
           \/ push_start_interrupted \/ use_camera \/ capture_returns \/ convert_image
  <2>1. /\ UNCHANGED <<args, handler, thread, failed>> /\ ret' \in {ret, "failure"}
        /\ \/ UNCHANGED main
           \/ main' \in {"killed", "blocked", "exited"}
           \/ main = "parse" /\ main' = "image"
           \/ main = "capture" /\ main' = "done"
    BY <1>8, OthersMove
    DEF configVars, threadVars, ProgramInv, CameraInv, Buffers, Believed
  <2>2. CASE main = "capture" /\ main' = "done"
    <3>1. ~handler /\ failed = {}
      BY <2>2 DEF ProgramInv, PlaceInv, SetupInv, OutcomeInv, Unthreaded
    <3> QED
      BY <2>1, <2>2, <3>1 DEF OutcomeInv
  <2>3. CASE main' # "done" \/ UNCHANGED main
    <3>1. quiet(main') \subseteq quiet(main)
      BY <2>1, <2>3 DEF quiet
    <3> QED
      BY <2>1, <2>3, <3>1, SameOutcome DEF AfterSetup, Unthreaded, Before, CameraPlace
  <2> QED
    BY <2>1, <2>2, <2>3
<1> QED
  BY <1>1, <1>2, <1>3, <1>4, <1>5, <1>6, <1>7, <1>8, OutcomeOfWait
  DEF ProgramNext, MainSteps, synchronome_setup, Environment, Finished

LEMMA SetupHolds == ProgramSpec => []SetupInv
<1>1. ASSUME ProgramInv, SetupInv, [ProgramNext]_allVars
      PROVE  SetupInv'
  BY <1>1, GarbageStep, AsleepStep, OutcomeStep DEF SetupInv
<1>2. ProgramInv /\ SetupInv /\ [ProgramNext]_allVars => SetupInv'
  BY <1>1
<1> QED
  BY SetupInit, <1>2, ProgramHolds, PTL DEF ProgramSpec

(* main.c:388-451: when a thread reads its parameters from a stack frame that *)
(* is gone, no frame has been or will be captured, no timer runs, and main   *)
(* will report the failure.                                                  *)
THEOREM GarbageCapturesNothing == ProgramSpec => []GarbageIsHarmless
<1>1. ProgramInv /\ SetupInv => GarbageIsHarmless
  <2> SUFFICES ASSUME ProgramInv, SetupInv, garbage # {}
               PROVE  held = {} /\ ret = "failure" /\ timer = Off
    BY DEF GarbageIsHarmless
  <2>1. ret = "failure" /\ timer = Off /\ handler
    BY DEF SetupInv, GarbageInv
  <2>2. held = {}
    BY <2>1 DEF SetupInv, AsleepInv, armed
  <2> QED
    BY <2>1, <2>2
<1> QED
  BY <1>1, ProgramHolds, SetupHolds, PTL

(* S2 ends without a failure only when it is told to, or with a frame.       *)
WokenInv ==
  /\ signals \in Nat
  /\ acq_stop => signals > 0
  /\ thread["select"] = "ended" /\ "select" \notin failed /\ signals = 0 =>
       armed /\ dumpster # "raw"

LEMMA WokenInit == ProgramInit => WokenInv
  BY ThreadIs DEF ProgramInit, WokenInv

(* The timer is never changed once it is set, the dumpster never goes back,   *)
(* signals are counted, and S2 ends by itself.                               *)
LEMMA OnlySelectEnds ==
  ASSUME ProgramInv, SetupInv, WokenInv, ~select_ends, [ProgramNext]_allVars
  PROVE  /\ UNCHANGED timer \/ ~armed
         /\ dumpster' = "raw" => dumpster = "raw"
         /\ signals' \in Nat /\ signals' >= signals
         /\ acq_stop' => acq_stop \/ signals' > 0
         /\ failed \subseteq failed'
         /\ thread'["select"] = "ended" => thread["select"] = "ended"
<1> USE ThreadIs
<1>0. signals \in Nat /\ thread \in [Thread -> ThreadState] /\ "select" \notin told
  BY DEF WokenInv, ProgramInv, ThreadInv, PlaceInv
<1>1. CASE UNCHANGED allVars
  BY <1>0, <1>1 DEF allVars, setupVars, stopVars, threadVars, frameVars
<1>2. CASE \/ parse_cmd_line_args \/ install_signal_handler \/ print_platform_info
           \/ count_frame_buffers \/ reset_stop \/ acq_queue_init \/ init_queues
           \/ init_sem \/ exits \/ setup
  <2>1. UNCHANGED acq_stop \/ acq_stop' = FALSE
    BY <1>2
    DEF parse_cmd_line_args, install_signal_handler, print_platform_info,
        count_frame_buffers, reset_stop, acq_queue_init, init_queues, init_sem, exits,
        setup, stopVars
  <2>2. UNCHANGED <<timer, signals, thread, failed, dumpster>>
    BY <1>2, StartMoves DEF threadVars, frameVars
  <2> QED
    BY <1>0, <2>1, <2>2
<1>3. CASE frame_acq_init
  <2>1. dumpster' \in {dumpster, "live"}
    BY <1>3 DEF frame_acq_init, frame_acq_init_streams, CAMERA_RUN, frameVars
  <2> QED
    BY <1>0, <1>3, <2>1, FrameAcqInit DEF setupVars, stopVars, threadVars
<1>4. CASE thread_create
  <2>1. UNCHANGED thread
        \/ \E t, state : /\ thread' = [thread EXCEPT ![t] = state]
                         /\ state \in {"created", "running"}
    BY <1>4 DEF thread_create
  <2> QED
    BY <1>0, <1>4, <2>1 DEF thread_create, stopVars, frameVars
<1>5. CASE time_add_timer
  <2>1. ~armed
    BY <1>5 DEF time_add_timer, succeeds_to, goto, SetupInv, GarbageInv, armed
  <2> QED
    BY <1>0, <1>5, <2>1 DEF time_add_timer, stopVars, threadVars, frameVars
<1>6. CASE synchronome_wait
  <2>1. UNCHANGED <<setupVars, thread, failed, frameVars, signals>>
    BY <1>6, WaitMoves
  <2>2. acq_stop' = acq_stop
    BY <1>6 DEF synchronome_wait, stop_capture, thread_join_ret
  <2> QED
    BY <1>0, <2>1, <2>2 DEF setupVars, frameVars
<1>7. CASE frame_acq_exit \/ destroy \/ close_camera \/ log_exit
  <2>1. UNCHANGED <<setupVars, signals, threadVars>>
    BY <1>7, ExitMoves
  <2>2. acq_stop' = acq_stop /\ dumpster' \in {dumpster, "destroyed"}
    BY <1>7 DEF frame_acq_exit, destroy, close_camera, log_exit, stopVars, frameVars
  <2> QED
    BY <1>0, <2>1, <2>2 DEF setupVars, threadVars
<1>8. CASE Services
  <2>1. /\ UNCHANGED <<setupVars, signals, acq_stop, dumpster>> /\ failed \subseteq failed'
    BY <1>8, ServiceMoves, Failures DEF ProgramInv, ThreadInv, PlaceInv
  <2>2. thread'["select"] = "ended" => thread["select"] = "ended"
    <3>1. CASE \E t \in Thread : thread_starts(t)
      BY <1>0, <3>1 DEF thread_starts
    <3>2. CASE frame_acq_run \/ frame_acq_return_frame
      BY <1>0, <3>2
      DEF frame_acq_run, capture_waits, capture_returns_frame, capture_returned_frames,
          capture_gets_frame, capture_fails, capture_aborts, frame_acq_return_frame,
          becomes, gives_up, threadVars
    <3>3. CASE service_fails
      BY <1>0, <3>3 DEF service_fails, gives_up
    <3>4. CASE \E t \in DOMAIN consumer_of : service_hangs(t)
      BY <1>0, <3>4 DEF service_hangs, becomes
    <3>5. CASE service_ends
      BY <1>0, <3>5 DEF service_ends, becomes
    <3> QED
      BY <1>8, <3>1, <3>2, <3>3, <3>4, <3>5 DEF Services
  <2> QED
    BY <1>0, <2>1, <2>2 DEF setupVars
<1>9. CASE \/ sequencer \/ killed \/ synchronome_stop \/ synchronome_stop_blocks
           \/ push_start_interrupted \/ use_camera \/ capture_returns \/ convert_image
  <2>1. UNCHANGED <<setupVars, threadVars, frameVars>>
    BY <1>9, OthersMove DEF ProgramInv, CameraInv, Buffers, Believed
  <2>2. \/ UNCHANGED <<signals, acq_stop>>
        \/ signals' = signals + 1
    BY <1>9
    DEF sequencer, killed, synchronome_stop, synchronome_stop_blocks,
        push_start_interrupted, use_camera, capture_returns, convert_image, stopVars
  <2>3. signals' \in Nat /\ signals' >= signals /\ (acq_stop' => acq_stop \/ signals' > 0)
    BY <1>0, <2>2
  <2> QED
    BY <2>1, <2>3 DEF setupVars, threadVars, frameVars
<1> QED
  BY <1>1, <1>2, <1>3, <1>4, <1>5, <1>6, <1>7, <1>8, <1>9
  DEF ProgramNext, MainSteps, synchronome_setup, Environment, Finished

LEMMA WokenStep ==
  ASSUME ProgramInv, SetupInv, WokenInv, [ProgramNext]_allVars
  PROVE  WokenInv'
<1>0. UNCHANGED timer => armed' = armed
  BY DEF armed
<1>1. CASE ~select_ends
  BY <1>0, <1>1, OnlySelectEnds DEF WokenInv
<1>2. CASE select_ends
  <2>1. UNCHANGED <<signals, acq_stop, timer, dumpster>> /\ thread["select"] = "running"
    BY <1>2 DEF select_ends, becomes, gives_up, stopVars, setupVars, frameVars
  <2>2. acq_stop \/ window # {} \/ "select" \in failed'
    BY <1>2 DEF select_ends, gives_up
  <2>3. window # {} => armed /\ dumpster = "live"
    <3>1. handler /\ main # "destroy"
      BY <2>1, ThreadRuns, ThreadIs
    <3> QED
      BY <3>1 DEF ProgramInv, FrameInv, SetupInv, AsleepInv
  <2> QED
    BY <1>0, <2>1, <2>2, <2>3 DEF WokenInv
<1> QED
  BY <1>1, <1>2

LEMMA WokenHolds == ProgramSpec => []WokenInv
<1>1. ProgramInv /\ SetupInv /\ WokenInv /\ [ProgramNext]_allVars => WokenInv'
  BY WokenStep
<1> QED
  BY WokenInit, <1>1, ProgramHolds, SetupHolds, PTL DEF ProgramSpec

(* main.c:215-272: main returns success only if every thread was created and  *)
(* none of them, joined in whatever order they end, failed; and without       *)
(* SIGINT only if a timer and the dumpster had been set up, whose failures    *)
(* nobody looks at (main.c:360, main.c:452).                                 *)
THEOREM SuccessIsEarned == ProgramSpec => []SuccessMeansSetUp
<1>1. SetupInv /\ WokenInv => SuccessMeansSetUp
  <2> SUFFICES ASSUME SetupInv, WokenInv, main = "done", ret = "success", handler
               PROVE  /\ created = Wanted /\ failed = {} /\ garbage = {}
                      /\ signals = 0 => armed /\ dumpster # "raw"
    BY DEF SuccessMeansSetUp
  <2>1. quiet(main) = Thread
    BY DEF quiet
  <2>2. /\ failed \subseteq Thread /\ failed \cap quiet(main) = {}
        /\ created = Wanted /\ thread["select"] = "ended"
    BY DEF SetupInv, OutcomeInv, AfterSetup
  <2>3. garbage = {}
    BY DEF SetupInv, GarbageInv
  <2>4. failed = {}
    BY <2>1, <2>2
  <2>5. signals = 0 => armed /\ dumpster # "raw"
    BY <2>2, <2>4 DEF WokenInv
  <2> QED
    BY <2>2, <2>3, <2>4, <2>5
<1> QED
  BY <1>1, SetupHolds, WokenHolds, PTL

-------------------------------------------------------------------------------
(* Types, and the bound of the semaphore. *)

(* Has synchronome_wait posted the semaphore?                                *)
posted(place) ==
  IF place \in {"setup", "camera_init", "set_format", "init_buffer", "stream_start",
                "create", "join_select", "stop_capture"} \cup Unthreaded
  THEN 0 ELSE 1

TypesInv ==
  /\ frame_buffer_count \in {"unset", "fits", "garbage"}
  /\ handler \in BOOLEAN /\ setup_frame \in BOOLEAN
  /\ data_stop \in BOOLEAN /\ acq_stop \in BOOLEAN
  /\ signals \in 0 .. MaxSignals
  /\ garbage \subseteq WithParameters
  /\ \A t \in Thread : thread[t] = "created" => t \in WithParameters
  /\ dumpster \in {"raw", "live", "destroyed"}
  /\ sem.count <= MaxPosts + signals + posted(main)

LEMMA TypesInit == ProgramInit => TypesInv
<1> SUFFICES ASSUME ProgramInit PROVE TypesInv
  OBVIOUS
<1> DEFINE zero == 0
<1>1. zero \in Nat /\ signals = zero /\ sem.count = zero /\ posted(main) = 0
  BY DEF ProgramInit, posted, Unthreaded, Before
<1>2. sem.count <= MaxPosts + signals + posted(main) /\ signals \in 0 .. MaxSignals
  BY <1>1, BoundAssumption
<1>3. \A t \in Thread : thread[t] # "created"
  BY DEF ProgramInit
<1> QED
  BY <1>2, <1>3 DEF ProgramInit, TypesInv

(* The semaphore is posted no more than before.                              *)
LEMMA NotPosted ==
  ASSUME ProgramInv, TypesInv, UNCHANGED signals, sem'.count \in Nat,
         sem'.count <= sem.count, posted(main) <= posted(main')
  PROVE  sem'.count <= MaxPosts + signals' + posted(main')
<1>1. /\ sem.count \in Nat /\ signals \in Nat /\ MaxPosts \in Nat
      /\ posted(main) \in Nat /\ posted(main') \in Nat
  BY BoundAssumption DEF ProgramInv, ThreadInv, TypesInv, posted
<1>2. sem.count <= MaxPosts + signals + posted(main)
  BY DEF TypesInv
<1> HIDE DEF posted
<1> QED
  BY <1>1, <1>2

LEMMA TypesOfMain ==
  ASSUME ProgramInv, TypesInv,
         \/ parse_cmd_line_args \/ install_signal_handler \/ print_platform_info
         \/ count_frame_buffers \/ reset_stop \/ acq_queue_init \/ init_queues
         \/ init_sem \/ exits \/ setup
  PROVE  TypesInv'
<1>1. /\ UNCHANGED <<signals, thread, garbage, dumpster>>
      /\ setup_frame' = setup_frame \/ setup_frame'
      /\ main \in Before
  BY StartMoves DEF threadVars, frameVars
<1>2. /\ frame_buffer_count' \in {"unset", "fits", "garbage"}
      /\ handler' \in BOOLEAN
  <2>1. CASE count_frame_buffers
    <3>1. PICK tick \in Fraction :
            \E count \in select_get_frame_acc_count(args.acq_interval, tick) :
              IF count = "refused"
              THEN fails_to("acc_count", "log_exit") /\ UNCHANGED frame_buffer_count
              ELSE succeeds_to("acc_count", "reset") /\ frame_buffer_count' = count
      BY <2>1 DEF count_frame_buffers
    <3>2. \A count \in select_get_frame_acc_count(args.acq_interval, tick) :
            count \in {"refused", "fits", "garbage"}
      BY DEF select_get_frame_acc_count
    <3>3. frame_buffer_count' \in {"unset", "fits", "garbage"}
      BY <3>1, <3>2 DEF TypesInv
    <3> QED
      BY <2>1, <3>3 DEF count_frame_buffers, TypesInv
  <2>2. CASE ~count_frame_buffers
    BY <2>2
    DEF parse_cmd_line_args, install_signal_handler, print_platform_info, reset_stop,
        acq_queue_init, init_queues, init_sem, exits, setup, configVars, TypesInv
  <2> QED
    BY <2>1, <2>2
<1>3. data_stop' \in BOOLEAN /\ acq_stop' \in BOOLEAN /\ setup_frame' \in BOOLEAN
  BY DEF parse_cmd_line_args, install_signal_handler, print_platform_info,
         count_frame_buffers, reset_stop, acq_queue_init, init_queues, init_sem, exits,
         setup, stopVars, setupVars, TypesInv
<1>4. sem'.count \in Nat /\ sem'.count <= sem.count
  <2>1. sem.count \in Nat
    BY DEF ProgramInv, ThreadInv
  <2>2. sem' = sem \/ sem' = [state |-> "live", count |-> 0]
    BY StartStops
  <2>3. sem'.count = sem.count \/ sem'.count = 0
    BY <2>2
  <2> QED
    BY <2>1, <2>3
<1>5. posted(main) <= posted(main')
  BY <1>1 DEF posted, Unthreaded
<1>6. sem'.count <= MaxPosts + signals' + posted(main')
  BY <1>1, <1>4, <1>5, NotPosted
<1> QED
  BY <1>1, <1>2, <1>3, <1>6 DEF TypesInv

LEMMA TypesOfSetup ==
  ASSUME ProgramInv, TypesInv, frame_acq_init \/ thread_create \/ time_add_timer
  PROVE  TypesInv'
<1>1. /\ UNCHANGED <<frame_buffer_count, handler, signals, data_stop, acq_stop, sem, garbage>>
      /\ setup_frame' \in {setup_frame, FALSE}
      /\ main \in CameraPlace \cup {"create"}
      /\ main' \in CameraPlace \cup {"create", "join_select"}
  <2>1. CASE frame_acq_init
    BY <2>1, FrameAcqInit DEF configVars, setupVars, stopVars, threadVars
  <2>2. CASE thread_create \/ time_add_timer
    BY <2>2
    DEF thread_create, time_add_timer, succeeds_to, fails_to, goto, configVars, stopVars,
        threadVars
  <2> QED
    BY <2>1, <2>2
<1>2. dumpster' \in {"raw", "live", "destroyed"}
  BY DEF frame_acq_init, frame_acq_init_streams, CAMERA_RUN, thread_create,
         time_add_timer, frameVars, TypesInv
<1>3. \A t \in Thread : thread'[t] = "created" => t \in WithParameters
  <2>1. CASE UNCHANGED thread
    BY <2>1 DEF TypesInv
  <2>2. CASE \E t : thread' = [thread EXCEPT ![t] =
                               IF t \in WithParameters THEN "created" ELSE "running"]
    BY <2>2 DEF TypesInv, ProgramInv, ThreadInv
  <2>3. frame_acq_init => UNCHANGED thread
    BY FrameAcqInit DEF threadVars
  <2> QED
    BY <2>1, <2>2, <2>3 DEF thread_create, time_add_timer, threadVars
<1>4. posted(main) <= posted(main')
  BY <1>1 DEF posted, CameraPlace
<1>5. sem'.count <= MaxPosts + signals' + posted(main')
  <2>1. sem'.count \in Nat /\ sem'.count <= sem.count
    BY <1>1 DEF ProgramInv, ThreadInv
  <2> QED
    BY <1>1, <1>4, <2>1, NotPosted
<1> QED
  BY <1>1, <1>2, <1>3, <1>5 DEF TypesInv

LEMMA TypesOfWait ==
  ASSUME ProgramInv, TypesInv, synchronome_wait
  PROVE  TypesInv'
<1>1. UNCHANGED <<frame_buffer_count, handler, setup_frame, signals, garbage, thread, dumpster>>
  BY WaitMoves DEF configVars, setupVars, frameVars
<1>2. sem.count \in Nat /\ signals \in Nat /\ MaxPosts \in Nat
  BY BoundAssumption DEF ProgramInv, ThreadInv, TypesInv
<1>3. ASSUME NEW t, NEW from, NEW to, NEW also, thread_join_ret(t, from, to, also),
             posted(from) <= posted(to)
      PROVE  TypesInv'
  <2>1. /\ UNCHANGED <<data_stop, acq_stop, sem>> /\ main = from
        /\ main' = to \/ main' = "crashed"
    BY <1>3 DEF thread_join_ret, succeeds_to, fails_to, goto
  <2>2. posted(main) <= posted(main')
    BY <1>3, <2>1 DEF posted, Unthreaded, Before
  <2>3. sem'.count <= MaxPosts + signals' + posted(main')
    BY <1>1, <1>2, <2>1, <2>2, NotPosted
  <2> QED
    BY <1>1, <2>1, <2>3 DEF TypesInv
<1>4. CASE stop_capture
  <2>1. /\ main = "stop_capture" /\ main' = "join_convert" /\ data_stop' = TRUE
        /\ acq_stop' = acq_stop /\ sem' = [sem EXCEPT !.count = @ + 1]
    BY <1>4 DEF stop_capture, succeeds_to, goto
  <2>2. sem'.count = sem.count + 1
    BY <2>1 DEF ProgramInv, ThreadInv
  <2>3. posted(main) = 0 /\ posted(main') = 1
    BY <2>1 DEF posted, Unthreaded, Before
  <2>4. sem'.count <= MaxPosts + signals' + posted(main')
    <3>1. sem.count <= MaxPosts + signals + posted(main)
      BY DEF TypesInv
    <3> QED
      BY <1>1, <1>2, <2>2, <2>3, <3>1
  <2> QED
    BY <1>1, <2>1, <2>4 DEF TypesInv
<1>5. /\ posted("join_select") = 0 /\ posted("stop_capture") = 0
      /\ posted("join_convert") = 1 /\ posted("join_storage") = 1
      /\ posted("join_compressor") = 1 /\ posted("join_capture") = 1
      /\ posted("join_log") = 1 /\ posted("frame_acq_exit") = 1
  BY DEF posted, Unthreaded, Before
<1>6. CASE thread_join_ret("select", "join_select", "stop_capture", {})
  <2>1. posted("join_select") <= posted("stop_capture")
    BY <1>5
  <2> QED
    BY <1>3, <1>6, <2>1, Zenon
<1>7. CASE ~stop_capture /\ ~thread_join_ret("select", "join_select", "stop_capture", {})
  <2>1. \E t, from, to, also :
          thread_join_ret(t, from, to, also) /\ posted(from) = 1 /\ posted(to) = 1
    BY <1>5, <1>7, Zenon DEF synchronome_wait
  <2>2. PICK t, from, to, also :
          thread_join_ret(t, from, to, also) /\ posted(from) = 1 /\ posted(to) = 1
    BY <2>1
  <2>3. posted(from) <= posted(to)
    BY <2>2
  <2> QED
    BY <1>3, <2>2, <2>3, Zenon
<1> QED
  BY <1>4, <1>6, <1>7

LEMMA TypesOfServices ==
  ASSUME ProgramInv, TypesInv, Services
  PROVE  TypesInv'
<1>1. /\ UNCHANGED <<frame_buffer_count, handler, setup_frame, signals, data_stop, acq_stop,
                     dumpster>>
      /\ sem' = sem \/ capture_waits
      /\ UNCHANGED main \/ main' = "crashed"
      /\ \A t \in Thread : thread'[t] = "created" => thread[t] = "created"
  BY ServiceMoves DEF ProgramInv, ThreadInv, PlaceInv, configVars, setupVars
<1>2. garbage' \subseteq WithParameters
  <2>1. CASE \E t \in Thread : thread_starts(t)
    BY <2>1 DEF thread_starts, TypesInv
  <2>2. CASE ~\E t \in Thread : thread_starts(t)
    <3>1. garbage' = garbage
      BY <2>2
      DEF Services, frame_acq_run, capture_waits, capture_returns_frame,
          capture_returned_frames, capture_gets_frame, capture_fails, capture_aborts,
          frame_acq_return_frame, select_ends, service_fails, service_hangs, service_ends,
          threadVars
    <3> QED
      BY <3>1 DEF TypesInv
  <2> QED
    BY <2>1, <2>2
<1>3. sem'.count \in Nat /\ sem'.count <= sem.count
  <2>1. sem \in [state : {"raw", "live", "destroyed"}, count : Nat]
    BY DEF ProgramInv, ThreadInv
  <2>2. CASE capture_waits
    <3>1. sem.count > 0 /\ sem' = [sem EXCEPT !.count = @ - 1]
      BY <2>2 DEF capture_waits
    <3> QED
      BY <2>1, <3>1
  <2> QED
    BY <1>1, <2>1, <2>2
<1>4. posted(main) <= posted(main')
  BY <1>1 DEF posted, Unthreaded, Before
<1>5. sem'.count <= MaxPosts + signals' + posted(main')
  BY <1>1, <1>3, <1>4, NotPosted
<1> QED
  BY <1>1, <1>2, <1>5 DEF TypesInv

LEMMA TypesOfExit ==
  ASSUME ProgramInv, TypesInv, frame_acq_exit \/ destroy \/ close_camera \/ log_exit
  PROVE  TypesInv'
<1>1. /\ UNCHANGED <<frame_buffer_count, handler, setup_frame, signals, data_stop, thread,
                     garbage>>
      /\ main \in {"frame_acq_exit", "destroy", "camera_exit", "log_exit"}
      /\ main' \in {"destroy", "camera_exit", "log_exit", "done"}
      /\ sem' = sem \/ sem' = [state |-> "destroyed", count |-> 0]
  BY ExitMoves DEF configVars, setupVars, threadVars
<1>2. acq_stop' = acq_stop /\ dumpster' \in {dumpster, "destroyed"}
  BY DEF frame_acq_exit, destroy, close_camera, log_exit, stopVars, frameVars
<1>3. sem'.count \in Nat /\ sem'.count <= sem.count
  <2>1. sem.count \in Nat
    BY DEF ProgramInv, ThreadInv
  <2>2. sem'.count = sem.count \/ sem'.count = 0
    BY <1>1
  <2> QED
    BY <2>1, <2>2
<1>4. posted(main) <= posted(main')
  BY <1>1 DEF posted, Unthreaded, Before
<1>5. sem'.count <= MaxPosts + signals' + posted(main')
  BY <1>1, <1>3, <1>4, NotPosted
<1> QED
  BY <1>1, <1>2, <1>5 DEF TypesInv

LEMMA TypesOfOthers ==
  ASSUME ProgramInv, TypesInv,
         \/ sequencer \/ killed \/ synchronome_stop \/ synchronome_stop_blocks
         \/ push_start_interrupted \/ use_camera \/ capture_returns \/ convert_image
  PROVE  TypesInv'
<1>1. /\ UNCHANGED <<frame_buffer_count, handler, setup_frame, thread, garbage, dumpster>>
      /\ \/ main' \in {main, "killed", "blocked", "exited"}
         \/ main = "parse" /\ main' = "image"
         \/ main = "capture" /\ main' = "done"
  BY OthersMove
  DEF configVars, setupVars, threadVars, frameVars, ProgramInv, CameraInv, Buffers, Believed
<1>2. posted(main) <= posted(main') /\ posted(main) \in Nat /\ posted(main') \in Nat
  BY <1>1 DEF posted, Unthreaded, Before
<1>3. /\ sem \in [state : {"raw", "live", "destroyed"}, count : Nat]
      /\ signals \in Nat /\ MaxPosts \in Nat /\ MaxSignals \in Nat
  BY BoundAssumption DEF ProgramInv, ThreadInv, TypesInv
<1>4. sem.count <= MaxPosts + signals + posted(main)
  BY DEF TypesInv
<1>5. CASE sequencer
  <2>1. /\ UNCHANGED <<main, signals, data_stop, acq_stop>>
        /\ sem.count < MaxPosts /\ sem' = [sem EXCEPT !.count = @ + 1]
    BY <1>5 DEF sequencer
  <2>2. sem'.count = sem.count + 1
    BY <1>3, <2>1
  <2>3. sem'.count <= MaxPosts + signals' + posted(main')
    BY <1>2, <1>3, <2>1, <2>2
  <2> QED
    BY <1>1, <2>1, <2>3 DEF TypesInv
<1>6. CASE synchronome_stop
  <2>1. /\ UNCHANGED main /\ data_stop' = TRUE /\ acq_stop' = TRUE
        /\ signals < MaxSignals /\ signals' = signals + 1
        /\ sem' = [sem EXCEPT !.count = IF sem.state = "destroyed" THEN 0 ELSE @ + 1]
    BY <1>6 DEF synchronome_stop
  <2>2. sem'.count = 0 \/ sem'.count = sem.count + 1
    BY <1>3, <2>1
  <2>3. sem'.count <= MaxPosts + signals' + posted(main')
    BY <1>2, <1>3, <1>4, <2>1, <2>2
  <2>4. signals' \in 0 .. MaxSignals
    BY <1>3, <2>1
  <2> QED
    BY <1>1, <2>1, <2>3, <2>4 DEF TypesInv
<1>7. CASE killed \/ push_start_interrupted \/ use_camera \/ capture_returns \/ convert_image
  <2>1. UNCHANGED <<signals, data_stop, acq_stop, sem>>
    BY <1>7
    DEF killed, push_start_interrupted, use_camera, capture_returns, convert_image, stopVars
  <2>2. sem'.count <= MaxPosts + signals' + posted(main')
    BY <1>2, <1>3, <2>1, NotPosted
  <2> QED
    BY <1>1, <2>1, <2>2 DEF TypesInv
<1>8. CASE synchronome_stop_blocks
  <2>1. /\ UNCHANGED <<data_stop, acq_stop, sem>>
        /\ signals < MaxSignals /\ signals' = signals + 1
    BY <1>8 DEF synchronome_stop_blocks
  <2>2. signals' \in 0 .. MaxSignals /\ sem'.count <= MaxPosts + signals' + posted(main')
    BY <1>2, <1>3, <1>4, <2>1
  <2> QED
    BY <1>1, <2>1, <2>2 DEF TypesInv
<1> QED
  BY <1>5, <1>6, <1>7, <1>8

LEMMA TypesHold == ProgramSpec => []TypesInv
<1>1. ASSUME ProgramInv, TypesInv, [ProgramNext]_allVars
      PROVE  TypesInv'
  <2>1. CASE UNCHANGED allVars
    <3>1. UNCHANGED <<main, frame_buffer_count, handler, setup_frame, signals, data_stop,
                      acq_stop, sem, thread, garbage, dumpster>>
      BY <2>1 DEF allVars, configVars, setupVars, stopVars, threadVars, frameVars
    <3> QED
      BY <1>1, <3>1 DEF TypesInv, posted
  <2> QED
    BY <1>1, <2>1, TypesOfMain, TypesOfSetup, TypesOfWait, TypesOfServices, TypesOfExit,
       TypesOfOthers
    DEF ProgramNext, MainSteps, synchronome_setup, Environment, Finished
<1>2. ProgramInv /\ TypesInv /\ [ProgramNext]_allVars => TypesInv'
  BY <1>1
<1> QED
  BY TypesInit, <1>2, ProgramHolds, PTL DEF ProgramSpec

(* main.c:179-347, thread.c:12-93: every variable keeps its type.  What       *)
(* takes more than a look at each step: the semaphore is never negative and   *)
(* holds no more than the posts of the timer, one for every SIGINT and the    *)
(* one of synchronome_wait; the frames S2 holds are buffers of the camera;    *)
(* and only threads with parameters ever read them when they are gone.       *)
THEOREM ProgramTypes == ProgramSpec => []ProgramTypeOK
<1>1. TimerInv /\ ProgramInv /\ SetupInv /\ TypesInv => ProgramTypeOK
  <2> SUFFICES ASSUME TimerInv, ProgramInv, SetupInv, TypesInv
               PROVE  ProgramTypeOK
    OBVIOUS
  <2>0. TypeOK
    BY CameraHolds DEF ProgramInv
  <2>1. sem.state \in {"raw", "live", "destroyed"} /\ sem.count \in 0 .. MaxPosts + MaxSignals + 1
    <3>1. /\ sem.state \in {"raw", "live", "destroyed"} /\ sem.count \in Nat
          /\ sem.count <= MaxPosts + signals + posted(main)
          /\ signals \in 0 .. MaxSignals
      BY DEF ProgramInv, ThreadInv, TypesInv
    <3>2. posted(main) \in 0 .. 1
      BY DEF posted
    <3> HIDE DEF posted
    <3> QED
      BY <3>1, <3>2, BoundAssumption
  <2>2. timer = Off \/ timer \in timespec
    BY DEF TimerInv, TimerPeriodValid, normal
  <2>3. window \subseteq Buffer /\ dumped \subseteq Buffer
    BY <2>0 DEF TypeOK, ProgramInv, FrameInv
  <2>4. told \subseteq Thread /\ failed \subseteq Thread /\ garbage \subseteq WithParameters
    BY DEF ProgramInv, PlaceInv, SetupInv, OutcomeInv, TypesInv
  <2>5. /\ ret \in {"success", "failure"} /\ args \in Args
        /\ thread \in [Thread -> {"none", "created", "running", "returning", "getting",
                                 "stuck", "ended"}]
    BY DEF ProgramInv, PlaceInv, TimerInv, ThreadInv, ThreadState
  <2> QED
    BY <2>0, <2>1, <2>2, <2>3, <2>4, <2>5 DEF ProgramTypeOK, TypesInv
<1> QED
  BY <1>1, TimerHolds, ProgramHolds, SetupHolds, TypesHold, PTL

-------------------------------------------------------------------------------
(* What lib/image.c touches, for any geometry. *)

(* The pixels of a line that are converted.                                  *)
row(f) == IF f.pixelformat = "YUYV" THEN 2 * (f.width \div 2) ELSE f.width

LEMMA Geometry ==
  ASSUME NEW f \in img_format_t, check_format(f)
  PROVE  /\ f.width \in Nat \ {0} /\ f.height \in Nat \ {0}
         /\ f.bytesperline \in Nat /\ f.sizeimage \in Nat
         /\ f.bytesperline * f.height <= f.sizeimage
         /\ format_pixel_size[f.pixelformat] \in 1 .. 4
         /\ f.width * format_pixel_size[f.pixelformat] <= f.bytesperline
         /\ f.pixelformat = "YUYV" => 2 * f.width <= f.bytesperline
         /\ row(f) \in 0 .. f.width
         /\ f.width \div 2 \in Nat /\ 2 * (f.width \div 2) <= f.width
         /\ Pixels(f) = (0 .. row(f) - 1) \X (0 .. f.height - 1)
<1>1. /\ f.pixelformat \in DOMAIN format_pixel_size /\ f.width \in 1 .. MaxWidth
      /\ f.height \in 1 .. MaxHeight
      /\ f.bytesperline \in 0 .. 4 * MaxWidth + MaxPadding
      /\ f.sizeimage \in 0 .. (4 * MaxWidth + MaxPadding) * MaxHeight
  BY DEF img_format_t
<1>2. f.width \in Nat \ {0} /\ f.height \in Nat \ {0}
      /\ f.bytesperline \in Nat /\ f.sizeimage \in Nat
  BY <1>1
<1>3. /\ format_pixel_size[f.pixelformat] \in 1 .. 4
      /\ f.pixelformat = "YUYV" => format_pixel_size[f.pixelformat] = 2
  BY <1>1 DEF format_pixel_size, check_format
<1>4. f.width \div 2 \in Nat /\ 2 * (f.width \div 2) <= f.width
  BY <1>2
<1>5. row(f) \in 0 .. f.width
  BY <1>2, <1>4 DEF row
<1>6. Pixels(f) = (0 .. row(f) - 1) \X (0 .. f.height - 1)
  BY DEF Pixels, row
<1>7. f.pixelformat = "YUYV" => 2 * f.width <= f.bytesperline
  BY <1>2, <1>3 DEF check_format
<1> QED
  BY <1>2, <1>3, <1>4, <1>5, <1>6, <1>7 DEF check_format

(* Place r of line y in h lines of n places.                                 *)
LEMMA LinesFit ==
  ASSUME NEW n \in Nat, NEW h \in Nat, NEW y \in 0 .. h - 1, NEW r \in 0 .. n - 1
  PROVE  y * n + r \in 0 .. h * n - 1
<1> DEFINE k == h - 1 - y
<1>1. k \in Nat /\ h = k + 1 + y
  OBVIOUS
<1> HIDE DEF k
<1>2. k * n \in Nat /\ y * n \in Nat
  BY <1>1
<1>3. h * n = k * n + n + y * n
  BY <1>1
<1> QED
  BY <1>2, <1>3

LEMMA ReadsInside ==
  ASSUME NEW f \in img_format_t, check_format(f), NEW p \in Pixels(f)
  PROVE  read_pos(f, p) \subseteq 0 .. f.sizeimage - 1
<1> DEFINE x == p[1]
           y == p[2]
           n == f.bytesperline
           s == format_pixel_size[f.pixelformat]
<1>1. x \in 0 .. row(f) - 1 /\ y \in 0 .. f.height - 1
  BY Geometry
<1>2. ASSUME NEW r \in 0 .. n - 1 PROVE y * n + r \in 0 .. f.sizeimage - 1
  <2>1. /\ n \in Nat /\ f.height \in Nat /\ f.sizeimage \in Nat
        /\ n * f.height <= f.sizeimage
    BY Geometry
  <2> HIDE DEF n, y
  <2>2. y * n + r \in 0 .. f.height * n - 1
    BY <1>1, <1>2, <2>1, LinesFit
  <2>3. f.height * n = n * f.height /\ n * f.height \in Nat
    BY <2>1
  <2> QED
    BY <2>1, <2>2, <2>3
<1>3. CASE f.pixelformat = "YUYV"
  <2>1. ASSUME NEW i \in 0 .. 3 PROVE (x \div 2) * 4 + i \in 0 .. n - 1
    <3>1. /\ f.width \in Nat /\ n \in Nat /\ 2 * f.width <= n /\ f.width \div 2 \in Nat
          /\ 2 * (f.width \div 2) <= f.width
      BY <1>3, Geometry
    <3>2. x < 2 * (f.width \div 2)
      BY <1>1, <1>3, <3>1 DEF row
    <3> HIDE DEF x, n
    <3>3. x \div 2 \in Nat /\ x \div 2 + 1 <= f.width \div 2
      BY <1>1, <3>1, <3>2
    <3> QED
      BY <3>1, <3>3
  <2>2. ASSUME NEW i \in 0 .. 3 PROVE y * n + (x \div 2) * 4 + i \in 0 .. f.sizeimage - 1
    <3> DEFINE r == (x \div 2) * 4 + i
    <3>1. y * n + r \in 0 .. f.sizeimage - 1
      BY <1>2, <2>1
    <3>2. y * n \in Int /\ (x \div 2) * 4 \in Int
      BY <1>1, Geometry
    <3> QED
      BY <3>1, <3>2
  <2> QED
    BY <1>3, <2>2 DEF read_pos
<1>4. CASE f.pixelformat # "YUYV"
  <2>1. ASSUME NEW i \in 0 .. s - 1 PROVE x * s + i \in 0 .. n - 1
    <3>1. /\ f.width \in Nat /\ n \in Nat /\ s \in 1 .. 4 /\ f.width * s <= n
      BY Geometry
    <3>2. x \in 0 .. f.width - 1
      BY <1>1, <1>4 DEF row
    <3> HIDE DEF x, n, s
    <3>3. x * s + i \in 0 .. f.width * s - 1
      BY <3>1, <3>2, LinesFit
    <3>4. f.width * s \in Nat
      BY <3>1
    <3> QED
      BY <3>1, <3>3, <3>4
  <2>2. ASSUME NEW i \in 0 .. s - 1 PROVE y * n + x * s + i \in 0 .. f.sizeimage - 1
    <3> DEFINE r == x * s + i
    <3>1. y * n + r \in 0 .. f.sizeimage - 1
      BY <1>2, <2>1
    <3>2. y * n \in Int /\ x * s \in Int
      BY <1>1, Geometry
    <3> QED
      BY <3>1, <3>2
  <2> QED
    BY <1>4, <2>2 DEF read_pos
<1> QED
  BY <1>3, <1>4

(* The place of a written byte, as a number of the pixel's place.            *)
LEMMA PlaceOf ==
  ASSUME NEW f \in img_format_t, check_format(f), NEW p \in Pixels(f)
  PROVE  /\ p[2] * f.width + p[1] \in 0 .. f.height * f.width - 1
         /\ write_pos(f, p) \subseteq 0 .. image_rgb_size(f.width, f.height) - 1
<1> DEFINE q == p[2] * f.width + p[1]
           size == f.height * f.width
<1>1. /\ p[2] \in 0 .. f.height - 1 /\ p[1] \in 0 .. f.width - 1
      /\ f.width \in Nat /\ f.height \in Nat
  BY Geometry
<1>2. q \in 0 .. size - 1 /\ size \in Nat
  BY <1>1, LinesFit
<1>3. image_rgb_size(f.width, f.height) = size * 3
  BY <1>1 DEF image_rgb_size
<1>4. write_pos(f, p) = {q * 3 + i : i \in 0 .. 2}
  BY DEF write_pos
<1>5. q \in 0 .. size - 1
  BY <1>2
<1> HIDE DEF q, size
<1>6. \A i \in 0 .. 2 : q * 3 + i \in 0 .. size * 3 - 1
  BY <1>2
<1>7. write_pos(f, p) \subseteq 0 .. image_rgb_size(f.width, f.height) - 1
  BY <1>3, <1>4, <1>6
<1> QED
  BY <1>5, <1>7 DEF q, size

(* No byte is written for two pixels.                                        *)
LEMMA WritesApart ==
  ASSUME NEW f \in img_format_t, check_format(f), NEW p \in Pixels(f), NEW q \in Pixels(f),
         NEW i \in 0 .. 2, NEW j \in 0 .. 2,
         (p[2] * f.width + p[1]) * 3 + i = (q[2] * f.width + q[1]) * 3 + j
  PROVE  p = q /\ i = j
<1>1. /\ f.width \in Nat \ {0} /\ f.height \in Nat /\ row(f) \in 0 .. f.width
      /\ p \in (0 .. row(f) - 1) \X (0 .. f.height - 1)
      /\ q \in (0 .. row(f) - 1) \X (0 .. f.height - 1)
  BY Geometry
<1>2. /\ p[2] \in Nat /\ p[1] \in 0 .. f.width - 1
      /\ q[2] \in Nat /\ q[1] \in 0 .. f.width - 1
  BY <1>1
<1> DEFINE a == p[2] * f.width + p[1]
           b == q[2] * f.width + q[1]
<1>3. a \in Nat /\ b \in Nat
  BY <1>1, <1>2
<1>4. a * 3 + i = b * 3 + j
  OBVIOUS
<1>5. a % f.width = p[1] /\ a \div f.width = p[2] /\ b % f.width = q[1] /\ b \div f.width = q[2]
  BY <1>1, <1>2, DivModUnique
<1> HIDE DEF a, b
<1>6. a = b /\ i = j
  BY <1>3, <1>4
<1>7. p[1] = q[1] /\ p[2] = q[2]
  BY <1>5, <1>6
<1>8. p = q
  BY <1>1, <1>7
<1> QED
  BY <1>6, <1>8

LEMMA LineOf ==
  ASSUME NEW n \in Nat
  PROVE  IsFiniteSet(0 .. n - 1) /\ Cardinality(0 .. n - 1) = n
<1> DEFINE m == n - 1
<1>1. m \in Int /\ 0 \in Int
  OBVIOUS
<1>2. Cardinality(0 .. m) = (IF 0 > m THEN 0 ELSE m - 0 + 1) /\ IsFiniteSet(0 .. m)
  BY <1>1, FS_Interval
<1>3. (IF 0 > m THEN 0 ELSE m - 0 + 1) = n
  OBVIOUS
<1> QED
  BY <1>2, <1>3

(* As many bytes are written as the pixels that are converted need.          *)
LEMMA BytesWritten ==
  ASSUME NEW f \in img_format_t, check_format(f)
  PROVE  Cardinality(UNION Range([p \in Pixels(f) |-> write_pos(f, p)]))
           = 3 * Cardinality(Pixels(f))
<1> DEFINE P == Pixels(f)
           B == P \X (0 .. 2)
           W == UNION Range([p \in P |-> write_pos(f, p)])
           place == [c \in B |-> (c[1][2] * f.width + c[1][1]) * 3 + c[2]]
<1>1. ASSUME NEW c \in B PROVE place[c] \in W
  <2>1. c[1] \in P /\ c[2] \in 0 .. 2
    OBVIOUS
  <2>2. place[c] \in write_pos(f, c[1])
    BY <2>1 DEF write_pos
  <2> QED
    BY <2>1, <2>2 DEF Range
<1>2. ASSUME NEW w \in W PROVE \E c \in B : place[c] = w
  <2>1. PICK p \in P : w \in write_pos(f, p)
    BY DEF Range
  <2>2. PICK i \in 0 .. 2 : w = (p[2] * f.width + p[1]) * 3 + i
    BY <2>1 DEF write_pos
  <2>3. <<p, i>> \in B /\ place[<<p, i>>] = w
    BY <2>2
  <2> QED
    BY <2>3
<1>3. ASSUME NEW c \in B, NEW d \in B, place[c] = place[d] PROVE c = d
  <2>1. c[1] \in P /\ c[2] \in 0 .. 2 /\ d[1] \in P /\ d[2] \in 0 .. 2
    OBVIOUS
  <2>2. (c[1][2] * f.width + c[1][1]) * 3 + c[2] = (d[1][2] * f.width + d[1][1]) * 3 + d[2]
    BY <1>3
  <2>3. c[1] = d[1] /\ c[2] = d[2]
    BY <2>1, <2>2, WritesApart
  <2> QED
    BY <2>3
<1>4. place \in Bijection(B, W)
  <2> DEFINE g == place
  <2>1. g \in [B -> W]
    BY <1>1
  <2>2. \A c \in B, d \in B : g[c] = g[d] => c = d
    BY <1>3
  <2>3. \A w \in W : \E c \in B : g[c] = w
    BY <1>2
  <2>4. DOMAIN g = B
    OBVIOUS
  <2> HIDE DEF g, B, W
  <2> QED
    BY <2>1, <2>2, <2>3, <2>4 DEF Bijection, Injection, Surjection, IsInjective, g
<1>5. IsFiniteSet(P) /\ IsFiniteSet(0 .. 2) /\ Cardinality(0 .. 2) = 3
  <2>1. P = (0 .. row(f) - 1) \X (0 .. f.height - 1) /\ row(f) \in Nat /\ f.height \in Nat
    BY Geometry
  <2>2. IsFiniteSet(0 .. row(f) - 1) /\ IsFiniteSet(0 .. f.height - 1)
    BY <2>1, LineOf
  <2>3. IsFiniteSet(P)
    BY <2>1, <2>2, FS_Product
  <2>4. IsFiniteSet(0 .. 2) /\ Cardinality(0 .. 2) = 3
    <3>1. 3 \in Nat /\ 3 - 1 = 2
      OBVIOUS
    <3>2. IsFiniteSet(0 .. 3 - 1) /\ Cardinality(0 .. 3 - 1) = 3
      BY <3>1, LineOf
    <3> QED
      BY <3>1, <3>2
  <2> QED
    BY <2>3, <2>4
<1>6. IsFiniteSet(B) /\ Cardinality(B) = Cardinality(P) * 3
  BY <1>5, FS_Product
<1>7. Cardinality(W) = Cardinality(B)
  <2> HIDE DEF B, W, place
  <2> QED
    BY <1>4, <1>6, FS_Bijection DEF ExistsBijection
<1>8. Cardinality(P) \in Nat
  BY <1>5, FS_CardinalityType
<1> QED
  BY <1>6, <1>7, <1>8

(* But for the last column of an odd YUYV image these are all.               *)
LEMMA AllBytesWritten ==
  ASSUME NEW f \in img_format_t, check_format(f),
         ~(f.pixelformat = "YUYV" /\ f.width % 2 = 1)
  PROVE  3 * Cardinality(Pixels(f)) = image_rgb_size(f.width, f.height)
<1>1. /\ f.width \in Nat /\ f.height \in Nat
      /\ Pixels(f) = (0 .. row(f) - 1) \X (0 .. f.height - 1)
  BY Geometry
<1>2. row(f) = f.width
  <2>1. CASE f.pixelformat = "YUYV"
    <3>1. f.width % 2 # 1
      BY <2>1
    <3>2. 2 * (f.width \div 2) = f.width
      BY <1>1, <3>1
    <3> QED
      BY <2>1, <3>2 DEF row
  <2>2. CASE f.pixelformat # "YUYV"
    BY <2>2 DEF row
  <2> QED
    BY <2>1, <2>2
<1>3. /\ IsFiniteSet(0 .. f.width - 1) /\ Cardinality(0 .. f.width - 1) = f.width
      /\ IsFiniteSet(0 .. f.height - 1) /\ Cardinality(0 .. f.height - 1) = f.height
  BY <1>1, LineOf
<1>4. Cardinality(Pixels(f)) = f.width * f.height
  <2> DEFINE X == 0 .. f.width - 1
             Y == 0 .. f.height - 1
  <2>1. /\ IsFiniteSet(X) /\ IsFiniteSet(Y)
        /\ Cardinality(X) = f.width /\ Cardinality(Y) = f.height /\ Pixels(f) = X \X Y
    BY <1>1, <1>2, <1>3
  <2> HIDE DEF X, Y
  <2>2. Cardinality(X \X Y) = Cardinality(X) * Cardinality(Y)
    BY <2>1, FS_Product
  <2> QED
    BY <2>1, <2>2
<1>5. f.width * f.height \in Nat
  BY <1>1
<1> QED
  BY <1>4, <1>5 DEF image_rgb_size

LEMMA Conversion ==
  ASSUME NEW f \in img_format_t, NEW size \in Nat,
         image_convert_to_rgb(f, size).ok
  PROVE  ConversionInBounds(f, size, image_convert_to_rgb(f, size))
<1> DEFINE P == Pixels(f)
           w == [p \in P |-> write_pos(f, p)]
           read == UNION {read_pos(f, p) : p \in P}
           result == [ok |-> TRUE, read |-> read, written |-> w]
<1>1. /\ check_format(f) /\ size >= image_rgb_size(f.width, f.height)
      /\ image_convert_to_rgb(f, size) = result
  BY DEF image_convert_to_rgb
<1>2. result.read = read /\ result.written = w /\ DOMAIN w = P
  OBVIOUS
<1>3. read \subseteq 0 .. f.sizeimage - 1
  BY <1>1, ReadsInside
<1>4. UNION Range(w) \subseteq 0 .. size - 1
  <2>1. ASSUME NEW p \in P PROVE write_pos(f, p) \subseteq 0 .. size - 1
    <3>1. write_pos(f, p) \subseteq 0 .. image_rgb_size(f.width, f.height) - 1
      BY <1>1, PlaceOf
    <3>2. image_rgb_size(f.width, f.height) \in Int
      BY <1>1, Geometry DEF image_rgb_size
    <3> QED
      BY <1>1, <3>1, <3>2
  <2> QED
    BY <2>1 DEF Range
<1>5. Cardinality(UNION Range(w)) = 3 * Cardinality(P)
  BY <1>1, BytesWritten
<1>6. \/ f.pixelformat = "YUYV" /\ f.width % 2 = 1
      \/ 3 * Cardinality(P) = image_rgb_size(f.width, f.height)
  BY <1>1, AllBytesWritten
<1> HIDE DEF P, w, read, result
<1> QED
  BY <1>1, <1>2, <1>3, <1>4, <1>5, <1>6 DEF ConversionInBounds

LEMMA Comparison ==
  ASSUME NEW f \in img_format_t, f.pixelformat = "YUYV"
  PROVE  DiffSeesEveryPixel(f)
<1> DEFINE n == f.bytesperline
           h == f.height
           w == f.width
<1>1. /\ w \in Nat \ {0} /\ h \in Nat \ {0} /\ n \in Nat
      /\ Pixels(f) = (0 .. 2 * (w \div 2) - 1) \X (0 .. h - 1)
  BY DEF img_format_t, Pixels
<1>2. ASSUME NEW p \in Pixels(f) PROVE p[2] * n + p[1] * 2 \in image_diff(f)
  <2> DEFINE x == p[1] \div 2
             i == 2 * (p[1] % 2)
             a == p[2] * n
             b == p[1]
  <2>1. b \in 0 .. w - 1 /\ p[2] \in 0 .. h - 1
    <3>1. b \in 0 .. 2 * (w \div 2) - 1 /\ p[2] \in 0 .. h - 1
      BY <1>1
    <3> HIDE DEF b, w
    <3> QED
      BY <1>1, <3>1
  <2>2. x \in 0 .. w - 1 /\ i \in {0, 2} /\ x * 4 + i = b * 2
    BY <1>1, <2>1
  <2>3. a \in Int
    BY <1>1, <2>1
  <2>4. a + x * 4 + i = a + b * 2
    <3> HIDE DEF a, b, x, i, w
    <3> QED
      BY <1>1, <2>1, <2>2, <2>3
  <2>5. p[2] * n + x * 4 + i \in image_diff(f)
    BY <2>1, <2>2 DEF image_diff
  <2> QED
    BY <2>4, <2>5
<1> DEFINE last == (h - 1) * n
<1>3. ASSUME NEW x \in 0 .. w - 1, NEW y \in 0 .. h - 1, NEW i \in {0, 2}
      PROVE  y * n + x * 4 + i < last + 4 * w
  <2> DEFINE a == y * n
             k == h - 1 - y
             b == k * n
  <2>1. a \in Nat /\ k \in Nat /\ h - 1 = k + y
    BY <1>1
  <2>2. b \in Nat /\ last = b + a
    <3> HIDE DEF k, n
    <3> QED
      BY <1>1, <2>1
  <2>3. x * 4 + i < 4 * w
    BY <1>1
  <2> HIDE DEF a, b, last, w
  <2>4. a + x * 4 + i < last + 4 * w
    BY <1>1, <2>1, <2>2, <2>3
  <2> QED
    BY <2>4 DEF a
<1>4. last \in Nat
  BY <1>1
<1>5. check_format(f) => last + 4 * w <= f.sizeimage + n
  <2> SUFFICES ASSUME check_format(f) PROVE last + 4 * w <= f.sizeimage + n
    OBVIOUS
  <2>1. n * h <= f.sizeimage /\ 2 * w <= n /\ f.sizeimage \in Nat
    BY Geometry
  <2>2. n * h = last + n
    <3>1. h = (h - 1) + 1 /\ h - 1 \in Nat
      BY <1>1
    <3> DEFINE m == h - 1
    <3> HIDE DEF m, n
    <3>2. n * (m + 1) = m * n + n
      BY <1>1, <3>1 DEF m
    <3> QED
      BY <3>1, <3>2 DEF m
  <2> HIDE DEF last, n, h, w
  <2> QED
    BY <1>1, <1>4, <2>1, <2>2
<1>6. {p[2] * n + p[1] * 2 : p \in Pixels(f)} \subseteq image_diff(f)
  BY <1>2
<1>7. \A c \in image_diff(f) : c \in Int /\ c < last + 4 * w
  BY <1>1, <1>3 DEF image_diff
<1>8. \A c \in image_diff(f) : check_format(f) => c < f.sizeimage + n
  <2> HIDE DEF last, n, h, w
  <2>1. f.sizeimage \in Int
    BY DEF img_format_t
  <2> QED
    BY <1>1, <1>4, <1>5, <1>7, <2>1
<1> QED
  BY <1>6, <1>7, <1>8 DEF DiffSeesEveryPixel

(* What a conversion leaves behind is what image_convert_to_rgb returned.    *)
ImageInv == \A c \in image :
  /\ c.format \in img_format_t /\ c.dst_size \in Nat
  /\ c.result = image_convert_to_rgb(c.format, c.dst_size)

LEMMA OnlyConversions ==
  ASSUME [ProgramNext]_allVars, ~convert_image
  PROVE  UNCHANGED image
<1>1. CASE UNCHANGED allVars
  BY <1>1 DEF allVars
<1>2. CASE MainSteps
  <2>1. CASE synchronome_wait
    BY <2>1 DEF synchronome_wait, thread_join_ret, stop_capture
  <2>2. CASE synchronome_setup
    BY <2>2 DEF synchronome_setup, setup, frame_acq_init, frame_acq_init_streams,
                CAMERA_RUN, thread_create, time_add_timer
  <2> QED
    BY <1>2, <2>1, <2>2
    DEF MainSteps, install_signal_handler, print_platform_info, count_frame_buffers,
        reset_stop, acq_queue_init, init_queues, init_sem, exits, frame_acq_exit, destroy,
        close_camera, log_exit
<1>3. CASE Services
  BY <1>3
  DEF Services, thread_starts, frame_acq_run, capture_waits, capture_returns_frame,
      capture_returned_frames, capture_gets_frame, capture_fails, capture_aborts,
      frame_acq_return_frame, select_ends, service_fails, service_hangs, service_ends
<1>4. CASE Environment
  BY <1>4
  DEF Environment, parse_cmd_line_args, sequencer, killed, synchronome_stop,
      synchronome_stop_blocks, push_start_interrupted, use_camera, capture_returns
<1> QED
  BY <1>1, <1>2, <1>3, <1>4 DEF ProgramNext, Finished

LEMMA ConversionsKept ==
  ASSUME ImageInv, [ProgramNext]_allVars
  PROVE  ImageInv'
<1>1. CASE convert_image
  <2> PICK f \in img_format_t :
        \E size \in {image_rgb_size(f.width, f.height), 3} :
          image' = {[format |-> f, dst_size |-> size,
                     result |-> image_convert_to_rgb(f, size)]}
    BY <1>1 DEF convert_image
  <2>1. PICK size \in {image_rgb_size(f.width, f.height), 3} :
          image' = {[format |-> f, dst_size |-> size,
                     result |-> image_convert_to_rgb(f, size)]}
    OBVIOUS
  <2>2. f.width \in Nat /\ f.height \in Nat
    BY DEF img_format_t
  <2>3. size \in Nat
    BY <2>2 DEF image_rgb_size
  <2> QED
    BY <2>1, <2>3 DEF ImageInv
<1>2. CASE ~convert_image
  BY <1>2, OnlyConversions DEF ImageInv
<1> QED
  BY <1>1, <1>2

(* image.c:395-559, 601-632: whatever geometry the driver chooses (as long as  *)
(* width * height * 3 fits into an unsigned int), a frame is converted only   *)
(* if check_format admits it, and within its bytes and within the buffer for  *)
(* the result, every byte of which is written once, but for the last column  *)
(* of an odd YUYV image.  image_diff, which asks nothing, looks at the        *)
(* brightness of every pixel of whatever frame and reads less than four bytes *)
(* a pixel from the start of the last line: at most one line past the end of  *)
(* a frame that check_format would admit, possibly more of another.          *)
THEOREM ImagesFit == ProgramSpec => []ImagesInBounds
<1>1. ProgramInit => ImageInv
  BY DEF ProgramInit, ImageInv
<1>2. ImageInv /\ [ProgramNext]_allVars => ImageInv'
  BY ConversionsKept
<1>3. ImageInv => ImagesInBounds
  <2> SUFFICES ASSUME ImageInv, NEW c \in image
               PROVE  /\ c.result.ok => ConversionInBounds(c.format, c.dst_size, c.result)
                      /\ c.format.pixelformat = "YUYV" => DiffSeesEveryPixel(c.format)
    BY DEF ImagesInBounds
  <2>1. /\ c.format \in img_format_t /\ c.dst_size \in Nat
        /\ c.result = image_convert_to_rgb(c.format, c.dst_size)
    BY DEF ImageInv
  <2> QED
    BY <2>1, Conversion, Comparison
<1> QED
  BY <1>1, <1>2, <1>3, PTL DEF ProgramSpec
===============================================================================
