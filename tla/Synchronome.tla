------------------------------ MODULE Synchronome ------------------------------
(***************************************************************************)
(* main.c: the five services, the queues between them and the thread that   *)
(* starts, joins and stops them.                                             *)
(*                                                                         *)
(*   sequencer -> capture -> acq_queue -> select -> select_queue -> convert  *)
(*     -> rgb_queue -> storage -> rgb_consumers_queue -> compressor          *)
(*                        ^--------- rgb_consumers_done -----'               *)
(*                                                                         *)
(* The operations of the queues are those of SpscQueue, one step each; what *)
(* the entries hold is left to FrameCycle, which frames S2 selects to        *)
(* TickParser.  Here it is about who waits for whom: while the pipeline      *)
(* runs, when it is stopped by SIGINT or by S2, and when a service fails or  *)
(* misses its deadline.                                                      *)
(***************************************************************************)
EXTENDS Integers, FiniteSets

CONSTANTS
  MaxAcc,        \* max_frame_acc_count
  SelectCount,   \* select_queue_count
  RgbCount,      \* rgb_queue_count
  FileCount,     \* file_queue_count
  MaxBehind,     \* frames asked for by the sequencer that S2 has not read
  MaxSignals,    \* how many SIGINTs arrive
  Compress,      \* compress_bundle_size > 0
  PackageSize,   \* compress_bundle_size
  MayFail,       \* services in which a call may fail
  MayMiss        \* services that may miss their deadline

Queue == {"acq", "select", "rgb", "consumers"}
Service == {"capture", "select", "convert", "storage", "compressor"}

ASSUME CountAssumption ==
  /\ MaxAcc \in Nat \ {0}
  /\ SelectCount \in Nat \ {0}
  /\ RgbCount \in Nat \ {0}
  /\ FileCount \in Nat \ {0}
  /\ MaxBehind \in Nat \ {0}
  /\ MaxSignals \in Nat
  /\ PackageSize \in Nat \ {0}
ASSUME FailAssumption ==
  /\ Compress \in BOOLEAN
  /\ MayFail \subseteq Service
  /\ MayMiss \subseteq {"capture", "select", "convert"}

VARIABLES
  main,             \* where synchronome_wait is
  pc,               \* where each service is
  queue,            \* the four queues
  sem,              \* camera_thread.sem
  stop,             \* data.stop
  done_sem,         \* rgb_consumers_done
  frame_acc_count,  \* of select_run
  archive,          \* files in data.zip_archive, of compressor_run; 0 if it is NULL
  failed,           \* services that returned RET_FAILURE
  missed,           \* services that did so for a missed deadline
  ret,              \* of synchronome_wait
  signals           \* SIGINTs so far

serviceVars == <<pc, failed, missed>>
mainVars == <<main, ret, signals>>
vars == <<mainVars, serviceVars, queue, sem, stop, done_sem, frame_acc_count, archive>>

(* frame_buffer_count: select_get_frame_acc_count and a safety margin.       *)
frame_buffer_count == MaxAcc + 2

max_count ==
  [q \in Queue |-> CASE q = "acq" -> frame_buffer_count
                     [] q = "select" -> SelectCount
                     [] q = "rgb" -> RgbCount
                     [] q = "consumers" -> FileCount]

(* The services that are created: the compressor only on demand.             *)
Started == IF Compress THEN Service ELSE Service \ {"compressor"}

TypeOK ==
  /\ main \in {"join_select", "stop_capture", "stop_convert", "join_convert",
               "stop_storage", "join_storage", "stop_compressor",
               "join_compressor", "join_capture", "done", "crashed", "exited"}
  /\ pc \in [Service -> {"wait", "check", "cleanup", "process", "push_start",
                         "work", "push_end", "wait_done", "read_stop_dump",
                         "post_done", "deadline", "done"}]
  /\ \A q \in Queue :
       /\ queue[q].count \in 0 .. max_count[q]
       /\ queue[q].write_sem \in 0 .. max_count[q]
       /\ queue[q].read_sem \in 0 .. max_count[q] + MaxSignals + 1
       /\ queue[q].stop \in BOOLEAN
  /\ sem \in 0 .. MaxBehind + MaxSignals + 1
  /\ stop \in BOOLEAN
  /\ done_sem \in 0 .. FileCount
  /\ frame_acc_count \in 0 .. MaxAcc
  /\ archive \in 0 .. PackageSize - 1
  /\ missed \subseteq failed /\ failed \subseteq Started
  /\ ret \in {"success", "failure"}
  /\ signals \in 0 .. MaxSignals

(* synchronome_init, then synchronome_setup has created every thread.        *)
Init ==
  /\ main = "join_select"
  /\ pc = [s \in Service |-> IF s \notin Started THEN "done"
                             ELSE IF s = "select" THEN "cleanup" ELSE "wait"]
  /\ queue = [q \in Queue |-> [count |-> 0, read_sem |-> 0,
                               write_sem |-> max_count[q], stop |-> FALSE]]
  /\ sem = 0
  /\ stop = FALSE
  /\ done_sem = 0
  /\ frame_acc_count = 0
  /\ archive = 0
  /\ failed = {}
  /\ missed = {}
  /\ ret = "success"
  /\ signals = 0

-------------------------------------------------------------------------------
(* spsc_queue.h *)

(* What an operation adds to the entries and to the semaphores of a queue.   *)
change(q, count, read_sem, write_sem) ==
  queue' = [queue EXCEPT ![q] = [count |-> queue[q].count + count,
                                 read_sem |-> queue[q].read_sem + read_sem,
                                 write_sem |-> queue[q].write_sem + write_sem,
                                 stop |-> queue[q].stop]]

push_start(q) == queue[q].write_sem > 0 /\ change(q, 1, 0, -1)

push_end(q) == change(q, 0, 1, 0)

(* An entry is filled without fail between push_start and push_end.          *)
push(q) == queue[q].write_sem > 0 /\ change(q, 1, 1, -1)

read_start(q) == queue[q].read_sem > 0 /\ change(q, 0, -1, 0)

(* (A plausible bug: the entry is still counted.)                            *)
read_stop_dump_keeps_count(q) == change(q, 0, 0, 1)

read_stop_dump(q) == change(q, -1, 0, 1)

set_should_stop(q) ==
  queue' = [queue EXCEPT ![q] = [count |-> queue[q].count,
                                 read_sem |-> queue[q].read_sem + 1,
                                 write_sem |-> queue[q].write_sem,
                                 stop |-> TRUE]]

(* (A plausible bug: to leave without draining the queue.)                   *)
should_leave_at_once(q) == queue[q].stop

(* What S3, S4 and the compressor test before they leave.                    *)
should_leave(q) == queue[q].stop /\ queue[q].count = 0

-------------------------------------------------------------------------------
(* A step of service s from one place to another. *)

goto(s, from, to) ==
  /\ pc[s] = from
  /\ pc' = [pc EXCEPT ![s] = to]
  /\ UNCHANGED <<failed, missed>>

fails(s, from) ==
  /\ s \in MayFail
  /\ pc[s] = from
  /\ pc' = [pc EXCEPT ![s] = "done"]
  /\ failed' = failed \cup {s}
  /\ UNCHANGED missed

misses_deadline(s, from) ==
  /\ s \in MayMiss
  /\ pc[s] = from
  /\ pc' = [pc EXCEPT ![s] = "done"]
  /\ failed' = failed \cup {s}
  /\ missed' = missed \cup {s}

-------------------------------------------------------------------------------
(* S1, frame_acq_run *)

unread == queue["acq"].count - frame_acc_count

behind == sem + unread + (IF pc["capture"] \in {"check", "push_start"} THEN 1 ELSE 0)

sequencer ==
  /\ behind < MaxBehind
  /\ sem' = sem + 1
  /\ UNCHANGED <<mainVars, serviceVars, queue, stop, done_sem, frame_acc_count, archive>>

capture_waits ==
  /\ sem > 0
  /\ sem' = sem - 1
  /\ goto("capture", "wait", "check")
  /\ UNCHANGED <<mainVars, queue, stop, done_sem, frame_acc_count, archive>>

capture_checks_stop ==
  /\ goto("capture", "check", IF stop THEN "done" ELSE "push_start")
  /\ UNCHANGED <<mainVars, queue, sem, stop, done_sem, frame_acc_count, archive>>

capture_push_start ==
  /\ push_start("acq")
  /\ goto("capture", "push_start", "work")
  /\ UNCHANGED <<mainVars, sem, stop, done_sem, frame_acc_count, archive>>

capture_push_end ==
  /\ push_end("acq")
  /\ goto("capture", "work", "deadline")
  /\ UNCHANGED <<mainVars, sem, stop, done_sem, frame_acc_count, archive>>

(* camera_get_frame fails, or the frame was later than its deadline.          *)
capture_returns ==
  /\ \/ goto("capture", "deadline", "wait")
     \/ misses_deadline("capture", "deadline")
     \/ fails("capture", "work")
  /\ UNCHANGED <<mainVars, queue, sem, stop, done_sem, frame_acc_count, archive>>

frame_acq_run ==
  \/ capture_waits
  \/ capture_checks_stop
  \/ capture_push_start
  \/ capture_push_end
  \/ capture_returns

-------------------------------------------------------------------------------
(* S2, select_run *)

cleanup_frames ==
  /\ goto("select", "cleanup", "wait")
  /\ \/ /\ frame_acc_count >= MaxAcc
        /\ read_stop_dump("acq")
        /\ frame_acc_count' = frame_acc_count - 1
     \/ /\ frame_acc_count < MaxAcc
        /\ UNCHANGED <<queue, frame_acc_count>>
  /\ UNCHANGED <<mainVars, sem, stop, done_sem, archive>>

select_reads ==
  /\ read_start("acq")
  /\ goto("select", "wait", "check")
  /\ UNCHANGED <<mainVars, sem, stop, done_sem, frame_acc_count, archive>>

(* On stop the frames still in acq_queue are left there.                     *)
select_checks_stop ==
  /\ \/ /\ queue["acq"].stop
        /\ goto("select", "check", "done")
        /\ UNCHANGED frame_acc_count
     \/ /\ ~queue["acq"].stop
        /\ goto("select", "check", "process")
        /\ frame_acc_count' = frame_acc_count + 1
  /\ UNCHANGED <<mainVars, queue, sem, stop, done_sem, archive>>

(* No frame is selected, one is, all have been, or a call failed.            *)
select_processes ==
  /\ \/ goto("select", "process", "deadline")
     \/ frame_acc_count = MaxAcc /\ goto("select", "process", "push_start")
     \/ goto("select", "process", "done")
     \/ fails("select", "process")
  /\ UNCHANGED <<mainVars, queue, sem, stop, done_sem, frame_acc_count, archive>>

select_pushes ==
  /\ push("select")
  /\ goto("select", "push_start", "deadline")
  /\ UNCHANGED <<mainVars, sem, stop, done_sem, frame_acc_count, archive>>

select_deadline ==
  /\ \/ goto("select", "deadline", "cleanup")
     \/ misses_deadline("select", "deadline")
  /\ UNCHANGED <<mainVars, queue, sem, stop, done_sem, frame_acc_count, archive>>

select_run ==
  \/ cleanup_frames
  \/ select_reads
  \/ select_checks_stop
  \/ select_processes
  \/ select_pushes
  \/ select_deadline

-------------------------------------------------------------------------------
(* S3, convert_run *)

convert_reads ==
  /\ read_start("select")
  /\ goto("convert", "wait", "check")
  /\ UNCHANGED <<mainVars, sem, stop, done_sem, frame_acc_count, archive>>

convert_checks_stop ==
  /\ goto("convert", "check", IF should_leave("select") THEN "done" ELSE "push_start")
  /\ UNCHANGED <<mainVars, queue, sem, stop, done_sem, frame_acc_count, archive>>

convert_push_start ==
  /\ push_start("rgb")
  /\ goto("convert", "push_start", "work")
  /\ UNCHANGED <<mainVars, sem, stop, done_sem, frame_acc_count, archive>>

convert_push_end ==
  /\ push_end("rgb")
  /\ goto("convert", "work", "read_stop_dump")
  /\ UNCHANGED <<mainVars, sem, stop, done_sem, frame_acc_count, archive>>

convert_dumps ==
  /\ read_stop_dump("select")
  /\ goto("convert", "read_stop_dump", "deadline")
  /\ UNCHANGED <<mainVars, sem, stop, done_sem, frame_acc_count, archive>>

(* image_convert_to_rgb fails with an entry of rgb_queue half pushed.        *)
convert_returns ==
  /\ \/ goto("convert", "deadline", "wait")
     \/ misses_deadline("convert", "deadline")
     \/ fails("convert", "work")
  /\ UNCHANGED <<mainVars, queue, sem, stop, done_sem, frame_acc_count, archive>>

convert_run ==
  \/ convert_reads
  \/ convert_checks_stop
  \/ convert_push_start
  \/ convert_push_end
  \/ convert_dumps
  \/ convert_returns

-------------------------------------------------------------------------------
(* write_to_storage_run *)

storage_reads ==
  /\ read_start("rgb")
  /\ goto("storage", "wait", "check")
  /\ UNCHANGED <<mainVars, sem, stop, done_sem, frame_acc_count, archive>>

storage_checks_stop ==
  /\ goto("storage", "check", IF should_leave("rgb") THEN "done"
                              ELSE IF Compress THEN "push_start" ELSE "work")
  /\ UNCHANGED <<mainVars, queue, sem, stop, done_sem, frame_acc_count, archive>>

(* The compressor gets a pointer into rgb_queue.                             *)
storage_pushes ==
  /\ push("consumers")
  /\ goto("storage", "push_start", "work")
  /\ UNCHANGED <<mainVars, sem, stop, done_sem, frame_acc_count, archive>>

storage_saves ==
  /\ \/ goto("storage", "work", IF Compress THEN "wait_done" ELSE "read_stop_dump")
     \/ fails("storage", "work")
  /\ UNCHANGED <<mainVars, queue, sem, stop, done_sem, frame_acc_count, archive>>

(* (A plausible bug: the other consumers are not waited for.)                *)
storage_does_not_wait ==
  /\ goto("storage", "wait_done", "read_stop_dump")
  /\ UNCHANGED <<mainVars, queue, sem, stop, done_sem, frame_acc_count, archive>>

storage_waits ==
  /\ done_sem > 0
  /\ done_sem' = done_sem - 1
  /\ goto("storage", "wait_done", "read_stop_dump")
  /\ UNCHANGED <<mainVars, queue, sem, stop, frame_acc_count, archive>>

storage_dumps ==
  /\ read_stop_dump("rgb")
  /\ goto("storage", "read_stop_dump", "wait")
  /\ UNCHANGED <<mainVars, sem, stop, done_sem, frame_acc_count, archive>>

write_to_storage_run ==
  \/ storage_reads
  \/ storage_checks_stop
  \/ storage_pushes
  \/ storage_saves
  \/ storage_waits
  \/ storage_dumps

-------------------------------------------------------------------------------
(* compressor_run *)

compressor_reads ==
  /\ read_start("consumers")
  /\ goto("compressor", "wait", "check")
  /\ UNCHANGED <<mainVars, sem, stop, done_sem, frame_acc_count, archive>>

(* Before it leaves it closes the archive, however few files that has.       *)
compressor_checks_stop ==
  /\ \/ /\ should_leave("consumers")
        /\ goto("compressor", "check", "done")
        /\ archive' = 0
     \/ /\ ~should_leave("consumers")
        /\ goto("compressor", "check", "work")
        /\ UNCHANGED archive
  /\ UNCHANGED <<mainVars, queue, sem, stop, done_sem, frame_acc_count>>

(* The frame is added to an archive, which is closed once it is full.        *)
compressor_dumps ==
  /\ read_stop_dump("consumers")
  /\ goto("compressor", "work", "post_done")
  /\ archive' = (archive + 1) % PackageSize
  /\ UNCHANGED <<mainVars, sem, stop, done_sem, frame_acc_count>>

compressor_posts ==
  /\ done_sem' = done_sem + 1
  /\ goto("compressor", "post_done", "wait")
  /\ UNCHANGED <<mainVars, queue, sem, stop, frame_acc_count, archive>>

(* (A plausible bug: to return without compressor_cleanup.)                  *)
compressor_returns_at_once ==
  /\ fails("compressor", "work") \/ fails("compressor", "post_done")
  /\ UNCHANGED <<mainVars, queue, sem, stop, done_sem, frame_acc_count, archive>>

(* The archive cannot be created, the frame not be added, a full archive not *)
(* be closed at once: compressor_cleanup closes what there is.               *)
compressor_returns ==
  /\ fails("compressor", "work") \/ fails("compressor", "post_done")
  /\ archive' = 0
  /\ UNCHANGED <<mainVars, queue, sem, stop, done_sem, frame_acc_count>>

(* compressor_cleanup calls itself when the archive cannot be closed: again   *)
(* and again, until that succeeds or the stack is exhausted.                 *)
compressor_cleanup_crashes ==
  /\ "compressor" \in MayFail
  /\ \/ pc["compressor"] \in {"work", "post_done"}
     \/ pc["compressor"] = "check" /\ should_leave("consumers") /\ archive > 0
  /\ main' = "crashed"
  /\ failed' = failed \cup {"compressor"}
  /\ UNCHANGED <<ret, signals, pc, missed, queue, sem, stop, done_sem, frame_acc_count,
                 archive>>

compressor_run ==
  \/ compressor_reads
  \/ compressor_checks_stop
  \/ compressor_dumps
  \/ compressor_posts
  \/ compressor_returns
  \/ compressor_cleanup_crashes

-------------------------------------------------------------------------------
(* The timer's signal, or SIGINT, is handled by a producer that waits for     *)
(* room.  push_start does not try again: the process exits on the spot.      *)

producer_of == [acq |-> "capture", select |-> "select", rgb |-> "convert",
                consumers |-> "storage"]

push_start_interrupted ==
  /\ main # "done"
  /\ \E q \in Queue : pc[producer_of[q]] = "push_start" /\ queue[q].write_sem = 0
  /\ main' = "exited"
  /\ UNCHANGED <<ret, signals, serviceVars, queue, sem, stop, done_sem, frame_acc_count,
                 archive>>

-------------------------------------------------------------------------------
(* synchronome_wait, and synchronome_stop in the handler of SIGINT. *)

(* (A plausible bug: only the latest result counts.)                         *)
returned_forgets(s) == IF s \in failed /\ s # "compressor" THEN "failure" ELSE "success"

(* A result that is not RET_SUCCESS is the result of main.  The compressor   *)
(* leaves its own in write_to_storage_thread.ret, which main has read by     *)
(* then, or which is a failure anyway.                                       *)
returned(s) == IF s \in failed /\ s # "compressor" THEN "failure" ELSE ret

join(s, from, to) ==
  /\ main = from
  /\ pc[s] = "done"
  /\ ret' = returned(s)
  /\ main' = to
  /\ UNCHANGED <<signals, serviceVars, queue, sem, stop, done_sem, frame_acc_count, archive>>

stop_queue(q, from, to) ==
  /\ main = from
  /\ set_should_stop(q)
  /\ main' = to
  /\ UNCHANGED <<ret, signals, serviceVars, sem, stop, done_sem, frame_acc_count, archive>>

(* (Plausible bugs: not to wake S1, and to wait for no service.)             *)
stop_capture_silent ==
  /\ main = "stop_capture"
  /\ stop' = TRUE
  /\ main' = "stop_convert"
  /\ UNCHANGED <<ret, signals, serviceVars, queue, sem, done_sem, frame_acc_count, archive>>

join_storage_at_once ==
  /\ main = "join_storage"
  /\ main' = IF Compress THEN "stop_compressor" ELSE "join_capture"
  /\ UNCHANGED <<ret, signals, serviceVars, queue, sem, stop, done_sem,
                 frame_acc_count, archive>>

stop_capture ==
  /\ main = "stop_capture"
  /\ stop' = TRUE
  /\ sem' = sem + 1
  /\ main' = "stop_convert"
  /\ UNCHANGED <<ret, signals, serviceVars, queue, done_sem, frame_acc_count, archive>>

join_storage ==
  join("storage", "join_storage",
       IF Compress THEN "stop_compressor" ELSE "join_capture")

synchronome_wait ==
  \/ join("select", "join_select", "stop_capture")
  \/ stop_capture
  \/ stop_queue("select", "stop_convert", "join_convert")
  \/ join("convert", "join_convert", "stop_storage")
  \/ stop_queue("rgb", "stop_storage", "join_storage")
  \/ join_storage
  \/ stop_queue("consumers", "stop_compressor", "join_compressor")
  \/ join("compressor", "join_compressor", "join_capture")
  \/ join("capture", "join_capture", "done")

synchronome_stop ==
  /\ main # "done"
  /\ signals < MaxSignals
  /\ signals' = signals + 1
  /\ set_should_stop("acq")
  /\ stop' = TRUE
  /\ sem' = sem + 1
  /\ UNCHANGED <<main, ret, serviceVars, done_sem, frame_acc_count, archive>>

Terminated == main \in {"done", "crashed", "exited"} /\ UNCHANGED vars

alive == main \notin {"crashed", "exited"}

Next ==
  \/ alive /\ main # "done" /\ sequencer
  \/ alive /\ frame_acq_run
  \/ alive /\ select_run
  \/ alive /\ convert_run
  \/ alive /\ write_to_storage_run
  \/ alive /\ compressor_run
  \/ alive /\ synchronome_wait
  \/ alive /\ synchronome_stop
  \/ alive /\ push_start_interrupted
  \/ Terminated

(* The timer keeps firing and no thread that can run is starved for ever:    *)
(* SCHED_FIFO threads that share a core block between two frames, the others *)
(* are on cores of their own.  Nobody has to press ^C, and no signal has to   *)
(* be handled by a producer: the kernel would rather give it to main.        *)
Fairness ==
  /\ WF_vars(alive /\ main # "done" /\ sequencer)
  /\ WF_vars(alive /\ frame_acq_run)
  /\ WF_vars(alive /\ select_run)
  /\ WF_vars(alive /\ convert_run)
  /\ WF_vars(alive /\ write_to_storage_run)
  /\ WF_vars(alive /\ compressor_run)
  /\ WF_vars(alive /\ synchronome_wait)

Spec == Init /\ [][Next]_vars
FairSpec == Spec /\ Fairness

-------------------------------------------------------------------------------
(* Properties. *)

(* main stops a queue only when its producer has returned: what the test     *)
(* "stop and empty" of its consumer relies on.                               *)
StopAfterProducer ==
  /\ queue["select"].stop => pc["select"] = "done"
  /\ queue["rgb"].stop => pc["convert"] = "done"
  /\ queue["consumers"].stop => pc["storage"] = "done"

(* While the compressor has a pointer into rgb_queue, the writer has not     *)
(* released that entry, so S3 cannot overwrite it.                           *)
EntryHeldWhileCompressed ==
  queue["consumers"].count > 0 =>
    /\ queue["consumers"].count = 1
    /\ pc["storage"] \in {"work", "wait_done"} \/ "storage" \in failed

(* When synchronome_wait returns and nothing failed, every frame that was     *)
(* selected has been converted, saved and compressed.                        *)
NothingLeftBehind ==
  main = "done" /\ failed = {} =>
    /\ \A q \in {"select", "rgb", "consumers"} : queue[q].count = 0
    /\ done_sem = 0

(* An archive with images the compressor has acknowledged is open only while  *)
(* the compressor runs, which will close it: on every path on which it        *)
(* returns, a failure included, it has closed it, and so none is open when    *)
(* synchronome_wait returns.  Two endings give the compressor no chance: the  *)
(* exit(1) of push_start (spsc_queue.h:188) and the stack overflow of         *)
(* compressor_cleanup (compressor.c:172); both may leave an archive open.    *)
AcknowledgedAreArchived ==
  archive > 0 => pc["compressor"] # "done" /\ main # "done"

(* If a service failed and synchronome_wait returns all the same, it says so. *)
FailureReported == main = "done" /\ failed # {} => ret = "failure"

(* Once S2 has selected its frames or SIGINT has arrived, every service      *)
(* returns and synchronome_wait does, unless a service fails or a producer    *)
(* that waits for room is interrupted and ends the process by exit(1).       *)
ShutdownCompletes ==
  stop \/ pc["select"] = "done" ~> main \in {"done", "exited"} \/ failed # {}

(* doc/2_scheduling-and-timing-analysis.md:92: "a missed deadline in S1, S2  *)
(* and S3 is considered fatal and the program will fail with a non-zero exit *)
(* code".                                                                    *)
MissedDeadlineIsFatal == missed # {} ~> main = "done" /\ ret = "failure"
===============================================================================
