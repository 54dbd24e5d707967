--------------------------------- MODULE Program ---------------------------------
(***************************************************************************)
(* The program from main() to its return: exe/synchronome.c,                 *)
(* exe/synchronome/main.c and lib/thread.c.  What it sets up, in which order, *)
(* with every call that may fail; the threads it creates, the memory,        *)
(* semaphores and camera they use, and what is torn down; SIGINT at any time. *)
(*                                                                         *)
(* S1 and S2 are here with the camera (module Camera) and the dumpster.  The   *)
(* other services are threads that end when they are told, fail over a frame, *)
(* or wait for ever for one that has failed: their queues are in Synchronome. *)
(***************************************************************************)
EXTENDS Camera, TimeSpec, Image

CONSTANTS
  MsecPerSec,              \* 1000
  UintSize,                \* 2^32
  MaxNumerator,            \* bounds: the fractions on the command line
  MaxDenominator,
  MaxPosts,                \* bound: posts of the timer S1 has not seen
  MaxSignals               \* bound: how many SIGINTs arrive

ASSUME BoundAssumption ==
  /\ MaxNumerator \in Nat \ {0} /\ MaxDenominator \in Nat \ {0}
  /\ MaxPosts \in Nat \ {0} /\ MaxSignals \in Nat
ASSUME ScaleAssumption == MsecPerSec \in Nat \ {0} /\ MsecPerSec <= UsecPerSec
ASSUME WidthAssumption == UintSize \in Nat \ {0}

VARIABLES
  main,              \* where the main thread is
  ret,               \* what it is going to return
  args,              \* synchronome_args_t
  frame_buffer_count,
  handler,           \* is signal_handler installed?
  signals,           \* SIGINTs so far
  data_stop, acq_stop,   \* data.stop, and acq_queue's
  sem,               \* camera_thread.sem
  told,              \* other services that have been told to stop
  thread,            \* the state of each thread
  failed,            \* those that returned RET_FAILURE
  setup_frame,       \* is the stack frame of synchronome_setup alive?
  garbage,           \* threads that read their parameters when it was not
  timer,             \* its period, Off, or not armed
  dumpster,          \* frame_dumpster
  window, dumped,    \* frames with S2, and on their way back
  image              \* a conversion: geometry and outcome

configVars == <<args, frame_buffer_count, handler>>
setupVars == <<setup_frame, timer>>
stopVars == <<signals, data_stop, acq_stop, sem, told>>
threadVars == <<thread, failed, garbage>>
frameVars == <<dumpster, window, dumped>>
allVars == <<vars, main, ret, configVars, setupVars, stopVars, threadVars,
             frameVars, image>>

(* In the order of their creation.                                           *)
Order == <<"log", "capture", "select", "convert", "storage", "compressor">>
Thread == Range(Order)
WithParameters == {"capture", "select", "storage", "compressor"}

Fraction == [numerator : 0 .. MaxNumerator, denominator : 0 .. MaxDenominator]
Args == [acq_interval : Fraction, compress : BOOLEAN]

(* 1/3 of a second, as far as the bounds allow.                              *)
synchronome_def_args ==
  [acq_interval |-> [numerator |-> 1,
                     denominator |-> IF MaxDenominator < 3 THEN MaxDenominator ELSE 3],
   compress |-> FALSE]

Off == [tv_sec |-> -1, tv_nsec |-> 0]   \* no timer

(* The threads and the timer are running with a period that is not zero.     *)
armed == timer # Off /\ nanoseconds(timer) > 0

Ended == main \in {"done", "killed", "exited", "crashed"}

ProgramTypeOK ==
  /\ TypeOK
  /\ ret \in {"success", "failure"}
  /\ args \in Args
  /\ frame_buffer_count \in {"unset", "fits", "garbage"}
  /\ handler \in BOOLEAN /\ setup_frame \in BOOLEAN
  /\ signals \in 0 .. MaxSignals
  /\ data_stop \in BOOLEAN /\ acq_stop \in BOOLEAN
  /\ sem.state \in {"raw", "live", "destroyed"}
  /\ sem.count \in 0 .. MaxPosts + MaxSignals + 1
  /\ told \subseteq Thread /\ failed \subseteq Thread /\ garbage \subseteq WithParameters
  /\ thread \in [Thread -> {"none", "created", "running", "returning", "getting", "stuck",
                          "ended"}]
  /\ timer = Off \/ timer \in timespec
  /\ dumpster \in {"raw", "live", "destroyed"}
  /\ window \subseteq Buffer /\ dumped \subseteq Buffer

(* Static storage is zero.                                                   *)
ProgramInit ==
  /\ Init
  /\ main = "parse"
  /\ ret = "success"
  /\ args = synchronome_def_args
  /\ frame_buffer_count = "unset"
  /\ handler = FALSE
  /\ signals = 0
  /\ data_stop = FALSE
  /\ acq_stop = FALSE
  /\ sem = [state |-> "raw", count |-> 0]
  /\ told = {}
  /\ thread = [t \in Thread |-> "none"]
  /\ failed = {}
  /\ setup_frame = FALSE
  /\ garbage = {}
  /\ timer = Off
  /\ dumpster = "raw"
  /\ window = {}
  /\ dumped = {}
  /\ image = {}

(* A step of main from one place to another.                                 *)
goto(from, to) == main = from /\ main' = to

fails_to(from, to) == goto(from, to) /\ ret' = "failure"

succeeds_to(from, to) == goto(from, to) /\ UNCHANGED ret

-------------------------------------------------------------------------------
(* exe/synchronome.c, main *)

(* parse_2_toks takes any two numbers for a fraction, zero included.         *)
parse_cmd_line_args ==
  /\ \/ succeeds_to("parse", "done")   \* --help
        /\ UNCHANGED args
     \/ fails_to("parse", "done")
        /\ UNCHANGED args
     \/ succeeds_to("parse", "log_init")
        /\ args' \in Args
     \/ succeeds_to("parse", "capture")
        /\ UNCHANGED args
  /\ UNCHANGED <<vars, frame_buffer_count, handler, setupVars, stopVars, threadVars,
                 frameVars, image>>

install_signal_handler ==
  /\ \/ succeeds_to("log_init", "platform_info") /\ handler' = TRUE
     \/ fails_to("log_init", "done") /\ UNCHANGED handler
  /\ UNCHANGED <<vars, args, frame_buffer_count, setupVars, stopVars, threadVars,
                 frameVars, image>>

print_platform_info ==
  /\ succeeds_to("platform_info", "acc_count") \/ fails_to("platform_info", "done")
  /\ UNCHANGED <<vars, configVars, setupVars, stopVars, threadVars, frameVars, image>>

(* The quotient of two floats as an int: 0 if the divisor is infinite; if the  *)
(* quotient is (Huge), or if both are (0, or negative), it depends on the     *)
(* machine.                                                                  *)
Huge == MaxNumerator * MaxDenominator + 1

sampling_resolution(acq, tick) ==
  IF acq.denominator = 0 THEN 0
  ELSE IF acq.numerator = 0 \/ tick.denominator = 0 THEN Huge
  ELSE (tick.numerator * acq.denominator) \div (tick.denominator * acq.numerator)

(* (A plausible bug: the intervals are not looked at.)                       *)
acc_count_any_interval(acq, tick) ==
  LET resolution == sampling_resolution(acq, tick)
  IN IF resolution = Huge THEN {"fits", "refused"}
     ELSE IF resolution >= 3 THEN {"fits"} ELSE {"refused"}

(* The quotient, a float, is more than the double 0.001, as 1/1000 as a float  *)
(* is.  (So are a few fractions just below it whose denominator exceeds 2^24.) *)
above_threshold(f) == MsecPerSec * f.numerator >= f.denominator

(* Three assertions; an infinite clock_tick_interval may pass them all.      *)
select_get_frame_acc_count(acq, tick) ==
  LET resolution == sampling_resolution(acq, tick)
  IN IF ~above_threshold(acq) \/ ~above_threshold(tick) THEN {"refused"}
     ELSE IF resolution = Huge THEN {"garbage", "refused"}
     ELSE IF resolution >= 3 THEN {"fits"} ELSE {"refused"}

(* args.clock_tick_interval is any fraction.                                 *)
count_frame_buffers ==
  /\ main = "acc_count"
  /\ \E tick \in Fraction :
     \E count \in select_get_frame_acc_count(args.acq_interval, tick) :
       IF count = "refused"
       THEN /\ fails_to("acc_count", "log_exit")
            /\ UNCHANGED frame_buffer_count
       ELSE /\ succeeds_to("acc_count", "reset")
            /\ frame_buffer_count' = count
  /\ UNCHANGED <<vars, args, handler, setupVars, stopVars, threadVars, frameVars, image>>

log_exit ==
  /\ succeeds_to("log_exit", "done")
  /\ UNCHANGED <<vars, configVars, setupVars, stopVars, threadVars, frameVars, image>>

-------------------------------------------------------------------------------
(* synchronome_init *)

(* CALLOC, or sem_init of a queue, fails.                                    *)
exits ==
  /\ main \in {"init_acq", "init_queues"}
  /\ main' = "exited"
  /\ ret' = "failure"
  /\ UNCHANGED <<vars, configVars, setupVars, stopVars, threadVars, frameVars, image>>

reset_stop ==
  /\ succeeds_to("reset", "init_acq")
  /\ data_stop' = FALSE
  /\ UNCHANGED <<vars, configVars, setupVars, signals, acq_stop, sem, told, threadVars,
                 frameVars, image>>

acq_queue_init ==
  /\ succeeds_to("init_acq", "init_queues")
  /\ acq_stop' = FALSE
  /\ UNCHANGED <<vars, configVars, setupVars, signals, data_stop, sem, told, threadVars,
                 frameVars, image>>

init_queues ==
  /\ succeeds_to("init_queues", "init_sem") \/ fails_to("init_queues", "frame_acq_exit")
  /\ UNCHANGED <<vars, configVars, setupVars, stopVars, threadVars, frameVars, image>>

(* (A plausible bug: the flags are reset last.)                              *)
init_sem_resets_stop ==
  /\ succeeds_to("init_sem", "setup")
  /\ sem' = [state |-> "live", count |-> 0]
  /\ acq_stop' = FALSE
  /\ UNCHANGED <<vars, configVars, setupVars, signals, data_stop, told, threadVars,
                 frameVars, image>>

init_sem ==
  /\ \/ succeeds_to("init_sem", "setup") /\ sem' = [state |-> "live", count |-> 0]
     \/ fails_to("init_sem", "frame_acq_exit") /\ UNCHANGED sem
  /\ UNCHANGED <<vars, configVars, setupVars, signals, data_stop, acq_stop, told,
                 threadVars, frameVars, image>>

-------------------------------------------------------------------------------
(* synchronome_setup *)

(* There are fewer than 4 cores, or synchronome_setup goes on.               *)
setup ==
  /\ \/ fails_to("setup", "join_select") /\ UNCHANGED setup_frame
     \/ succeeds_to("setup", "camera_init") /\ setup_frame' = TRUE
  /\ UNCHANGED <<vars, configVars, timer, stopVars, threadVars, frameVars, image>>

(* A call of frame_acq_init: if it fails, the others are left out, and       *)
(* synchronome_setup carries on.                                             *)
CAMERA_RUN(call, from, to) ==
  /\ main = from
  /\ call
  /\ main' = IF client' = "failed" THEN "create" ELSE to
  /\ UNCHANGED <<ret, configVars, setupVars, stopVars, threadVars, frameVars, image>>

(* (A plausible bug: the dumpster is left as it is.)                         *)
frame_acq_init_forgets == CAMERA_RUN(camera_stream_start, "stream_start", "create")

frame_acq_init_streams ==
  /\ main = "stream_start"
  /\ camera_stream_start
  /\ main' = "create"
  /\ dumpster' = IF client' = "failed" THEN dumpster ELSE "live"
  /\ UNCHANGED <<ret, configVars, setupVars, stopVars, threadVars, window, dumped, image>>

frame_acq_init ==
  \/ CAMERA_RUN(camera_init \/ camera_init_fails, "camera_init", "set_format")
  \/ CAMERA_RUN(set_camera_format, "set_format", "init_buffer")
  \/ /\ CAMERA_RUN(camera_init_buffer, "init_buffer", "stream_start")
     /\ frame_buffer_count = "garbage" => fails   \* no driver grants as many
  \/ frame_acq_init_streams

created == Cardinality({t \in Thread : thread[t] # "none"})
Wanted == IF args.compress THEN Len(Order) ELSE Len(Order) - 1

(* Of the attributes, the scheduling policy or the thread itself is refused. *)
thread_create ==
  /\ created < Wanted
  /\ \/ /\ succeeds_to("create", "create")
        /\ thread' = [thread EXCEPT ![Order[created + 1]] =
                        IF Order[created + 1] \in WithParameters THEN "created"
                                                                 ELSE "running"]
        /\ UNCHANGED setup_frame
     \/ /\ fails_to("create", "join_select")
        /\ setup_frame' = FALSE
        /\ UNCHANGED thread
  /\ UNCHANGED <<vars, configVars, timer, stopVars, failed, garbage, frameVars, image>>

(* The product is an unsigned int; the timer's argument is a long.           *)
period_us ==
  ((UsecPerSec * args.acq_interval.numerator) % UintSize)
    \div args.acq_interval.denominator

(* (A plausible bug: setup does not wait for the threads.)                   *)
time_add_timer_at_once ==
  /\ succeeds_to("create", "join_select")
  /\ created = Wanted
  /\ timer' = nsec_to_timespec(period_us * NsecPerUsec)
  /\ setup_frame' = FALSE
  /\ UNCHANGED <<vars, configVars, stopVars, threadVars, frameVars, image>>

(* sleep(1): by then every thread has got hold of its parameters.  That the   *)
(* timer could not be set goes unnoticed.                                    *)
time_add_timer ==
  /\ succeeds_to("create", "join_select")
  /\ created = Wanted
  /\ \A t \in Thread : thread[t] # "created"
  /\ timer' \in {Off, nsec_to_timespec(period_us * NsecPerUsec)}
  /\ setup_frame' = FALSE
  /\ UNCHANGED <<vars, configVars, stopVars, threadVars, frameVars, image>>

synchronome_setup ==
  \/ setup
  \/ frame_acq_init
  \/ thread_create
  \/ time_add_timer

-------------------------------------------------------------------------------
(* The threads *)

(* thread_run: the parameters are read; they may be gone.                    *)
thread_starts(t) ==
  /\ thread[t] = "created"
  /\ thread' = [thread EXCEPT ![t] = "running"]
  /\ garbage' = IF setup_frame THEN garbage ELSE garbage \cup {t}
  /\ UNCHANGED <<vars, main, ret, configVars, setupVars, stopVars, failed, frameVars,
                 image>>

becomes(t, from, to) ==
  /\ thread[t] = from
  /\ thread' = [thread EXCEPT ![t] = to]
  /\ UNCHANGED failed

gives_up(t, from) ==
  /\ thread[t] = from
  /\ thread' = [thread EXCEPT ![t] = "ended"]
  /\ failed' = failed \cup {t}

capture_waits ==
  /\ sem.state = "live" /\ sem.count > 0
  /\ sem' = [sem EXCEPT !.count = @ - 1]
  /\ becomes("capture", "running", IF data_stop THEN "ended" ELSE "returning")
  /\ UNCHANGED <<vars, main, ret, configVars, setupVars, signals, data_stop, acq_stop,
                 told, garbage, frameVars, image>>

(* The frames in the dumpster go back to the camera; one it does not take is  *)
(* gone all the same.                                                        *)
capture_returns_frame ==
  /\ thread["capture"] = "returning"
  /\ \E b \in dumped : /\ camera_return(b) \/ UNCHANGED vars
                       /\ dumped' = dumped \ {b}
  /\ UNCHANGED <<main, ret, configVars, setupVars, stopVars, threadVars, dumpster,
                 window, image>>

capture_returned_frames ==
  /\ dumped = {}
  /\ becomes("capture", "returning", "getting")
  /\ UNCHANGED <<vars, main, ret, configVars, setupVars, stopVars, garbage, frameVars,
                 image>>

(* acq_queue_push_start has room.                                            *)
room == Cardinality(window) < BufferCount

(* The frame may be later than the deadline.                                 *)
capture_gets_frame ==
  /\ room
  /\ camera_get_frame
  /\ window' = window \cup (held' \ held)
  /\ becomes("capture", "getting", "running") \/ gives_up("capture", "getting")
  /\ UNCHANGED <<main, ret, configVars, setupVars, stopVars, garbage, dumpster, dumped,
                 image>>

capture_fails ==
  /\ room
  /\ camera_get_frame_fails
  /\ gives_up("capture", "getting")
  /\ UNCHANGED <<main, ret, configVars, setupVars, stopVars, garbage, frameVars, image>>

capture_aborts ==
  /\ room
  /\ thread["capture"] = "getting"
  /\ camera_get_frame_aborts
  /\ main' = "crashed"
  /\ UNCHANGED <<ret, configVars, setupVars, stopVars, threadVars, frameVars, image>>

frame_acq_run ==
  \/ capture_waits
  \/ capture_returns_frame
  \/ capture_returned_frames
  \/ capture_gets_frame
  \/ capture_fails
  \/ capture_aborts

(* S2 is done with a frame.                                                  *)
frame_acq_return_frame ==
  /\ thread["select"] = "running"
  /\ thread["capture"] # "returning"   \* holds frame_dumpster.mutex
  /\ \E b \in window : window' = window \ {b} /\ dumped' = dumped \cup {b}
  /\ UNCHANGED <<vars, main, ret, configVars, setupVars, stopVars, threadVars, dumpster,
                 image>>

(* It is told to stop, has selected its frames, or a call fails; with garbage *)
(* for parameters its first call may.                                        *)
select_ends ==
  /\ \/ (acq_stop \/ window # {}) /\ becomes("select", "running", "ended")
     \/ (window # {} \/ "select" \in garbage) /\ gives_up("select", "running")
  /\ UNCHANGED <<vars, main, ret, configVars, setupVars, stopVars, garbage, frameVars,
                 image>>

(* A call fails over a frame; the compressor's, over one the writer has given  *)
(* it and waits for.                                                         *)
service_fails ==
  /\ armed /\ dumpster = "live"
  /\ \/ gives_up("convert", "running")
     \/ gives_up("storage", "running")
     \/ /\ gives_up("compressor", "running")
        /\ thread["storage"] = "running" \/ "storage" \in failed
  /\ UNCHANGED <<vars, main, ret, configVars, setupVars, stopVars, garbage, frameVars,
                 image>>

consumer_of == [select |-> "convert", convert |-> "storage", storage |-> "compressor"]

(* What takes its entries has failed, or waits for ever itself: S2 and S3     *)
(* wait for room, the writer for the compressor's sem_post.                  *)
service_hangs(t) ==
  /\ consumer_of[t] \in failed \/ thread[consumer_of[t]] = "stuck"
  /\ t = "select" => window # {}
  /\ becomes(t, "running", "stuck")
  /\ UNCHANGED <<vars, main, ret, configVars, setupVars, stopVars, garbage, frameVars,
                 image>>

(* Told to stop, and with an empty queue.                                    *)
service_ends ==
  /\ \E t \in told : /\ t = "storage" => "compressor" \notin failed
                     /\ becomes(t, "running", "ended")
  /\ UNCHANGED <<vars, main, ret, configVars, setupVars, stopVars, garbage, frameVars,
                 image>>

(* The timer goes off; posting a semaphore that is gone does nothing here.   *)
sequencer ==
  /\ armed
  /\ sem.state = "live" /\ sem.count < MaxPosts
  /\ sem' = [sem EXCEPT !.count = @ + 1]
  /\ UNCHANGED <<vars, main, ret, configVars, setupVars, signals, data_stop, acq_stop,
                 told, threadVars, frameVars, image>>

Services ==
  \/ \E t \in Thread : thread_starts(t)
  \/ frame_acq_run
  \/ frame_acq_return_frame
  \/ select_ends
  \/ service_fails
  \/ \E t \in DOMAIN consumer_of : service_hangs(t)
  \/ service_ends

-------------------------------------------------------------------------------
(* synchronome_wait, synchronome_exit *)

(* (A plausible bug: main goes on before the thread has ended.)              *)
thread_join_at_once(t, from, to, also_told) ==
  /\ succeeds_to(from, to)
  /\ told' = told \cup also_told
  /\ UNCHANGED <<vars, configVars, setupVars, signals, data_stop, acq_stop, sem,
                 threadVars, frameVars, image>>

(* (A plausible bug: what the thread has returned is not looked at.)         *)
thread_join_any_ret(t, from, to, also_told) ==
  /\ \/ thread[t] = "ended" /\ succeeds_to(from, to)
     \/ thread[t] = "none" /\ fails_to(from, to)
  /\ told' = told \cup also_told
  /\ UNCHANGED <<vars, configVars, setupVars, signals, data_stop, acq_stop, sem,
                 threadVars, frameVars, image>>

(* The compressor leaves its result in write_to_storage_thread.ret, its own    *)
(* record says success.                                                      *)
fails_visibly(t) == t \in failed /\ t # "compressor"

(* To join a thread that was never created is undefined: pthread_join reports *)
(* it, or reads through a null pointer.                                      *)
thread_join_ret(t, from, to, also_told) ==
  /\ \/ thread[t] = "ended" /\ ~fails_visibly(t) /\ succeeds_to(from, to)
     \/ thread[t] = "ended" /\ fails_visibly(t) /\ fails_to(from, to)
     \/ thread[t] = "none" /\ (fails_to(from, to) \/ fails_to(from, "crashed"))
  /\ told' = told \cup also_told
  /\ UNCHANGED <<vars, configVars, setupVars, signals, data_stop, acq_stop, sem,
                 threadVars, frameVars, image>>

stop_capture ==
  /\ succeeds_to("stop_capture", "join_convert")
  /\ data_stop' = TRUE
  /\ sem' = [sem EXCEPT !.count = @ + 1]
  /\ told' = told \cup {"convert"}
  /\ UNCHANGED <<vars, configVars, setupVars, signals, acq_stop, threadVars, frameVars,
                 image>>

synchronome_wait ==
  \/ thread_join_ret("select", "join_select", "stop_capture", {})
  \/ stop_capture
  \/ thread_join_ret("convert", "join_convert", "join_storage", {"storage"})
  \/ /\ args.compress
     /\ thread_join_ret("storage", "join_storage", "join_compressor", {"compressor"})
  \/ /\ ~args.compress
     /\ thread_join_ret("storage", "join_storage", "join_capture", {})
  \/ thread_join_ret("compressor", "join_compressor", "join_capture", {})
  \/ thread_join_ret("capture", "join_capture", "join_log", {"log"})
  \/ thread_join_ret("log", "join_log", "frame_acq_exit", {})

(* Whether the camera stops or not; its result is not looked at.             *)
frame_acq_exit ==
  /\ succeeds_to("frame_acq_exit", "destroy")
  /\ \/ client \notin {"capturing", "failed"} /\ UNCHANGED <<vars, dumpster>>
     \/ camera_stream_stop /\ dumpster' = IF streaming' THEN dumpster ELSE "destroyed"
  /\ UNCHANGED <<configVars, setupVars, stopVars, threadVars, window, dumped, image>>

(* The semaphores, and the queues with all their entries.                    *)
destroy ==
  /\ succeeds_to("destroy", "camera_exit") \/ fails_to("destroy", "camera_exit")
  /\ sem' = [state |-> "destroyed", count |-> 0]
  /\ window' = {}
  /\ dumped' = {}
  /\ UNCHANGED <<vars, configVars, setupVars, signals, data_stop, acq_stop, told,
                 threadVars, dumpster, image>>

close_camera ==
  /\ succeeds_to("camera_exit", "log_exit")
  /\ IF dev_file THEN camera_exit ELSE UNCHANGED vars
  /\ UNCHANGED <<configVars, setupVars, stopVars, threadVars, frameVars, image>>

-------------------------------------------------------------------------------
(* SIGINT *)

(* Before the handler is installed; with the capture command, always.        *)
killed ==
  /\ ~handler
  /\ main' = "killed"
  /\ UNCHANGED <<vars, ret, configVars, setupVars, stopVars, threadVars, frameVars,
                 image>>

synchronome_stop ==
  /\ handler
  /\ signals < MaxSignals
  /\ signals' = signals + 1
  /\ acq_stop' = TRUE
  /\ data_stop' = TRUE
  /\ sem' = [sem EXCEPT !.count = IF sem.state = "destroyed" THEN 0 ELSE @ + 1]
  /\ UNCHANGED <<vars, main, ret, configVars, setupVars, told, threadVars, frameVars,
                 image>>

(* It logs before it sets a flag: handled by a thread that holds queue_mutex,  *)
(* it waits for ever, and every other thread does at its next message.       *)
synchronome_stop_blocks ==
  /\ handler
  /\ signals < MaxSignals
  /\ thread["log"] = "running"
  /\ signals' = signals + 1
  /\ main' = "blocked"
  /\ UNCHANGED <<vars, ret, configVars, setupVars, data_stop, acq_stop, sem, told,
                 threadVars, frameVars, image>>

(* A signal, SIGALRM or SIGINT, ends the wait of S1, S2 or S3 in push_start,  *)
(* which is an error.  (How full their queues are is in Synchronome.)        *)
push_start_interrupted ==
  /\ armed
  /\ \/ thread["capture"] = "getting" /\ ~room
     \/ thread["select"] \in {"running", "stuck"} /\ window # {}
     \/ thread["convert"] \in {"running", "stuck"} /\ dumpster = "live"
  /\ main' = "exited"
  /\ ret' = "failure"
  /\ UNCHANGED <<vars, configVars, setupVars, stopVars, threadVars, frameVars, image>>

-------------------------------------------------------------------------------
(* The capture command, the tests and the statistics tool: one thread that    *)
(* uses the camera as it likes and converts frames of any geometry.          *)

use_camera ==
  /\ main = "capture"
  /\ Next
  /\ UNCHANGED <<main, ret, configVars, setupVars, stopVars, threadVars, frameVars,
                 image>>

(* capture_single: with success after camera_exit; at the first call that     *)
(* fails, with failure and the camera as it is then.                         *)
capture_returns ==
  /\ client # "aborted"
  /\ \/ fails_to("capture", "done")
     \/ client = "uninitialized" /\ mode # NoMode /\ succeeds_to("capture", "done")
  /\ UNCHANGED <<vars, configVars, setupVars, stopVars, threadVars, frameVars, image>>

convert_image ==
  /\ goto("parse", "image")
  /\ device_mode = CHOOSE m \in Mode : TRUE   \* there is no device
  /\ \E f \in img_format_t :
       \E dst_size \in {image_rgb_size(f.width, f.height), 3} :
         image' = {[format |-> f, dst_size |-> dst_size,
                    result |-> image_convert_to_rgb(f, dst_size)]}
  /\ UNCHANGED <<vars, ret, configVars, setupVars, stopVars, threadVars, frameVars>>

-------------------------------------------------------------------------------
MainSteps ==
  \/ install_signal_handler
  \/ print_platform_info
  \/ count_frame_buffers
  \/ reset_stop
  \/ acq_queue_init
  \/ init_queues
  \/ init_sem
  \/ exits
  \/ synchronome_setup
  \/ synchronome_wait
  \/ frame_acq_exit
  \/ destroy
  \/ close_camera
  \/ log_exit

Environment ==
  \/ parse_cmd_line_args
  \/ sequencer
  \/ killed
  \/ synchronome_stop
  \/ synchronome_stop_blocks
  \/ push_start_interrupted
  \/ use_camera
  \/ capture_returns
  \/ convert_image

Running == ~Ended /\ main \notin {"image", "blocked"}

Finished == ~Running /\ UNCHANGED allVars

ProgramNext ==
  \/ Running /\ (MainSteps \/ Services \/ Environment)
  \/ Finished

(* The threads and main run, and the writer of a compressor that has failed   *)
(* fails too or waits; nobody has to press ^C, no other call has to fail.    *)
ProgramSpec ==
  /\ ProgramInit
  /\ [][ProgramNext]_allVars
  /\ WF_allVars(Running /\ MainSteps)
  /\ WF_allVars(Running /\ frame_acq_run)
  /\ WF_allVars(Running /\ select_ends)
  /\ WF_allVars(Running /\ service_ends)
  /\ WF_allVars(Running /\ service_hangs("storage"))
  /\ WF_allVars(Running /\ \E t \in Thread : thread_starts(t))

-------------------------------------------------------------------------------
(* Properties. *)

(* A thread that runs has what it uses: S1 its semaphore, and nothing is torn *)
(* down before every thread that was created has ended, however far the set  *)
(* up got (main.c:206, main.c:327-347).                                      *)
NoThreadOutlivesItsData ==
  /\ thread["capture"] \in {"running", "returning", "getting"} => sem.state = "live"
  /\ main \in {"frame_acq_exit", "destroy", "camera_exit", "log_exit", "done"} =>
       \A t \in Thread : thread[t] \in {"none", "ended"}

(* The result of frame_acq_init is ignored (main.c:360), and S1 locks the     *)
(* mutex of frame_dumpster and looks into it on every wake-up all the same   *)
(* (frame_acq.c:132).  Before frame_acq_init has initialized both they are    *)
(* static storage, an unlocked mutex and no frames: no frame ever is with S2 *)
(* or on its way back then.  And while S1 runs, they are not destroyed.      *)
FramesNeedDumpster ==
  /\ window # {} \/ dumped # {} =>
       \/ dumpster = "live"
       \/ main = "destroy" /\ thread["capture"] = "ended"
  /\ thread["capture"] \in {"running", "returning", "getting"} => dumpster # "destroyed"

(* Parameters on a stack that is gone (main.c:392) are read only after a      *)
(* failed set up: then no frame is captured with them, and main reports it.  *)
GarbageIsHarmless ==
  garbage # {} => held = {} /\ ret = "failure" /\ timer = Off

(* Of the intervals any fraction is accepted that select.c:316 does not       *)
(* refuse.  The timer gets a valid timespec then, and its period is the      *)
(* interval, to the microsecond and never zero, as long as the product of    *)
(* main.c:454 is below 2^32, that is, for numerators below 4295.  From there  *)
(* on the period is a wrong one, or zero, as for 4295/32705: no timer runs.  *)
TimerPeriodValid ==
  timer # Off =>
    /\ normal(timer)
    /\ UsecPerSec * args.acq_interval.numerator < UintSize =>
         LET ns == nanoseconds(timer)
             interval == args.acq_interval
         IN /\ ns > 0
            /\ ns * interval.denominator <= NSEC_PER_SEC * interval.numerator
            /\ NSEC_PER_SEC * interval.numerator
                 < (ns + NsecPerUsec) * interval.denominator

(* Success means that every thread was created, read its parameters in time   *)
(* and did not fail, the compressor included, whose result no join sees      *)
(* (main.c:530).  The camera and the timer may have failed unnoticed (main.c: *)
(* 360, main.c:452), but then S2 never gets a frame, and only SIGINT ends it: *)
(* success without SIGINT means that they were set up, too.                  *)
SuccessMeansSetUp ==
  main = "done" /\ ret = "success" /\ handler =>
    /\ created = Wanted /\ failed = {} /\ garbage = {}
    /\ signals = 0 => armed /\ dumpster # "raw"

(* test_camera.c:46-49: a camera that is closed has no buffers, and, however  *)
(* far its initialization got, no mapping is left behind.  And whatever      *)
(* failed, the run command returns with the camera closed.  The capture      *)
(* command does if it succeeds; its calls that fail return past camera_exit  *)
(* (simple_capture/main.c:60-123).                                           *)
ReturnsClosed ==
  /\ ~dev_file => buffers = <<>> /\ mappings = 0
  /\ main = "done" /\ (handler \/ ret = "success") => ~dev_file

(* After synchronome_init one SIGINT whose handler runs to its end ends the    *)
(* program wherever it is, set up that is half done included, with a result  *)
(* or by exit(1) in push_start.  But not if S1 waits for room in acq_queue    *)
(* that S2 no longer makes (main.c:258); if a service has failed and the one *)
(* that feeds it waits for ever for room or for the compressor's sem_post    *)
(* (write_to_storage.c:86); or if another SIGINT is handled by a thread that  *)
(* holds queue_mutex (main.c:276).                                           *)
SigintEndsProgram ==
  acq_stop /\ main \notin {"parse", "log_init", "platform_info", "acc_count", "reset",
                           "init_acq"}
    ~> \/ Ended
       \/ thread["capture"] = "getting" /\ ~room
       \/ \E t \in DOMAIN consumer_of : thread[t] = "stuck"
       \/ main = "blocked"

(* A conversion reads within the image the device delivered, writes within    *)
(* the buffer, no byte for two pixels, and, but for the last column of an odd *)
(* YUYV image, every byte of the result.                                     *)
ConversionInBounds(f, dst_size, result) ==
  LET written == UNION Range(result.written)
      pixels == Cardinality(DOMAIN result.written)
  IN /\ result.read \subseteq 0 .. f.sizeimage - 1
     /\ written \subseteq 0 .. dst_size - 1
     /\ Cardinality(written) = 3 * pixels
     /\ \/ f.pixelformat = "YUYV" /\ f.width % 2 = 1
        \/ 3 * pixels = image_rgb_size(f.width, f.height)

(* S2 compares the brightness of every pixel of two frames, of whatever        *)
(* geometry: image_diff does not call check_format.  It reads as if a line    *)
(* had four bytes for each pixel, not two: if check_format admits the frame,  *)
(* at most one line past its end, if not, it may be further.                 *)
DiffSeesEveryPixel(f) ==
  /\ {p[2] * f.bytesperline + p[1] * 2 : p \in Pixels(f)} \subseteq image_diff(f)
  /\ \A i \in image_diff(f) :
       /\ i < (f.height - 1) * f.bytesperline + 4 * f.width
       /\ check_format(f) => i < f.sizeimage + f.bytesperline

(* What is done with the bytes of a frame stays within the bounds above,       *)
(* whatever geometry the driver chose: image_convert_to_rgb refuses those     *)
(* that check_format does, image_diff takes them all.                        *)
ImagesInBounds ==
  \A c \in image :
    /\ c.result.ok => ConversionInBounds(c.format, c.dst_size, c.result)
    /\ c.format.pixelformat = "YUYV" => DiffSeesEveryPixel(c.format)
===============================================================================
