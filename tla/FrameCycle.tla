------------------------------- MODULE FrameCycle -------------------------------
(***************************************************************************)
(* The cycle of the camera's buffers through the services: frame_acq.c     *)
(* (S1) takes a filled buffer from the camera and pushes it to acq_queue;  *)
(* select.c (S2) keeps the latest frames of that queue as its window, sends *)
(* some of them on to convert.c (S3) by reference, and dumps the oldest    *)
(* into frame_acq's dumpster, from which S1 returns it to the camera.      *)
(*                                                                         *)
(* A buffer is never copied before S3 has converted it, so three threads   *)
(* and the device share it; nothing but the pace of the services keeps the *)
(* device from filling a buffer that is still being read.  That pace is    *)
(* the environment here: MaxBehind bounds how far S2 is behind the         *)
(* sequencer, ConvertSlack how long S3 takes for a frame.                  *)
(*                                                                         *)
(* The queue's own steps are those of SpscQueue; here push_start, push_end, *)
(* read_start and read_stop_dump are one step each.                        *)
(***************************************************************************)
EXTENDS Integers, Sequences, FiniteSets, Functions

CONSTANTS
  Frame,         \* the buffers of the camera, frame_buffer_count of them
  MaxAcc,        \* max_frame_acc_count: the window of select_run
  MinSelected,   \* least window index tick_parser selects
  SelectCount,   \* select_queue_count
  MaxBehind,     \* S1's released, running or unread frames
  ConvertSlack   \* frames S2 may accept while S3 works on a frame

FrameCount == Cardinality(Frame)

ASSUME FrameAssumption == IsFiniteSet(Frame)
ASSUME MaxAccAssumption == MaxAcc \in Nat \ {0} /\ FrameCount >= MaxAcc + 2
ASSUME BoundAssumption ==
  /\ MinSelected \in Nat
  /\ SelectCount \in Nat \ {0}
  /\ MaxBehind \in Nat \ {0}
  /\ ConvertSlack \in Nat

VARIABLES
  sem,               \* camera_thread.sem
  camera_pc,         \* where frame_acq_run is
  owned,             \* buffers the device may write to
  currently_owned_frames,
  grabbed,           \* the buffer frame_acq_run got from the camera, as a set
  acq_queue,         \* the entries from read_pos on
  write_sem,         \* of acq_queue
  dumpster,          \* frame_dumpster.frames
  select_pc,         \* where select_run is
  frame_acc_count,
  select_queue       \* frames S3 has not finished, with the number of frames
                     \* S2 has accepted since it selected them

cameraVars == <<camera_pc, owned, currently_owned_frames, grabbed>>
selectVars == <<select_pc, frame_acc_count, select_queue>>
vars == <<sem, cameraVars, acq_queue, write_sem, dumpster, selectVars>>

(* Entries pushed to acq_queue that S2 has not read: acq_queue's read_sem.  *)
unread == Len(acq_queue) - frame_acc_count

(* Frames the sequencer has asked for that S2 has not accepted yet.         *)
behind == sem + (IF camera_pc = "sem_wait" THEN 0 ELSE 1) + unread

TypeOK ==
  /\ sem \in 0 .. MaxBehind
  /\ camera_pc \in {"sem_wait", "drain", "push_start", "get_frame", "push_end",
                    "aborted"}
  /\ owned \subseteq Frame
  /\ currently_owned_frames \in 0 .. FrameCount
  /\ grabbed \subseteq Frame
  /\ acq_queue \in Seq(Frame)
  /\ write_sem \in 0 .. FrameCount
  /\ dumpster \in Seq(Frame)
  /\ select_pc \in {"cleanup", "read_stop_dump", "read_start", "process"}
  /\ frame_acc_count \in 0 .. MaxAcc
  /\ select_queue \in Seq([frame : Frame, age : Nat])

(* frame_acq_init: camera_stream_start has given every buffer to the camera. *)
Init ==
  /\ sem = 0
  /\ camera_pc = "sem_wait"
  /\ owned = Frame
  /\ currently_owned_frames = FrameCount
  /\ grabbed = {}
  /\ acq_queue = <<>>
  /\ write_sem = FrameCount
  /\ dumpster = <<>>
  /\ select_pc = "cleanup"
  /\ frame_acc_count = 0
  /\ select_queue = <<>>

-------------------------------------------------------------------------------
(* Plausible bugs, each of which breaks one of the properties below.         *)

(* The dumpster is not emptied after its frames have been returned.         *)
frame_acq_drain_no_pop ==
  /\ camera_pc = "drain"
  /\ owned' = owned \cup Range(dumpster)
  /\ currently_owned_frames' = currently_owned_frames + Len(dumpster)
  /\ camera_pc' = "push_start"
  /\ UNCHANGED <<sem, grabbed, acq_queue, write_sem, dumpster, selectVars>>

(* The dumpster is emptied but its frames are not given to the camera.      *)
frame_acq_drain_no_return ==
  /\ camera_pc = "drain"
  /\ dumpster' = <<>>
  /\ camera_pc' = "push_start"
  /\ UNCHANGED <<sem, owned, currently_owned_frames, grabbed, acq_queue,
                 write_sem, selectVars>>

(* The window is one frame larger than the buffers are counted for.         *)
window_full_late == frame_acc_count > MaxAcc

(* read_stop_dump before dump_frame: index 0 is then the second oldest.     *)
cleanup_frames_dump_late ==
  /\ select_pc = "cleanup"
  /\ frame_acc_count >= MaxAcc
  /\ dumpster' = Append(dumpster, acq_queue[2])
  /\ select_pc' = "read_stop_dump"
  /\ UNCHANGED <<sem, cameraVars, acq_queue, write_sem, frame_acc_count,
                 select_queue>>

(* The oldest frame of the window is selected.                              *)
select_frame_oldest ==
  /\ select_pc = "process"
  /\ frame_acc_count = MaxAcc
  /\ Len(select_queue) < SelectCount
  /\ select_queue' = Append(select_queue, [frame |-> Head(acq_queue), age |-> 0])
  /\ select_pc' = "cleanup"
  /\ UNCHANGED <<sem, cameraVars, acq_queue, write_sem, dumpster,
                 frame_acc_count>>

-------------------------------------------------------------------------------
(* The sequencer and S1. *)

sequencer ==
  /\ behind < MaxBehind
  /\ sem' = sem + 1
  /\ UNCHANGED <<cameraVars, acq_queue, write_sem, dumpster, selectVars>>

frame_acq_wait ==
  /\ camera_pc = "sem_wait"
  /\ sem > 0
  /\ sem' = sem - 1
  /\ camera_pc' = "drain"
  /\ UNCHANGED <<owned, currently_owned_frames, grabbed, acq_queue, write_sem,
                 dumpster, selectVars>>

(* Under frame_dumpster.mutex: return every dumped frame to the camera.     *)
frame_acq_drain ==
  /\ camera_pc = "drain"
  /\ owned' = owned \cup Range(dumpster)
  /\ currently_owned_frames' = currently_owned_frames + Len(dumpster)
  /\ dumpster' = <<>>
  /\ camera_pc' = "push_start"
  /\ UNCHANGED <<sem, grabbed, acq_queue, write_sem, selectVars>>

acq_queue_push_start ==
  /\ camera_pc = "push_start"
  /\ write_sem > 0
  /\ write_sem' = write_sem - 1
  /\ camera_pc' = "get_frame"
  /\ UNCHANGED <<sem, owned, currently_owned_frames, grabbed, acq_queue,
                 dumpster, selectVars>>

(* The device hands out one of the buffers it has filled.                   *)
camera_get_frame ==
  /\ camera_pc = "get_frame"
  /\ currently_owned_frames > 0
  /\ \E f \in owned :
       /\ owned' = owned \ {f}
       /\ grabbed' = {f}
  /\ currently_owned_frames' = currently_owned_frames - 1
  /\ camera_pc' = "push_end"
  /\ UNCHANGED <<sem, acq_queue, write_sem, dumpster, selectVars>>

(* assert( camera->currently_owned_frames > 0 )                             *)
camera_get_frame_aborts ==
  /\ camera_pc = "get_frame"
  /\ currently_owned_frames = 0
  /\ camera_pc' = "aborted"
  /\ UNCHANGED <<sem, owned, currently_owned_frames, grabbed, acq_queue,
                 write_sem, dumpster, selectVars>>

acq_queue_push_end ==
  /\ camera_pc = "push_end"
  /\ \E f \in grabbed : acq_queue' = Append(acq_queue, f)
  /\ grabbed' = {}
  /\ camera_pc' = "sem_wait"
  /\ UNCHANGED <<sem, owned, currently_owned_frames, write_sem, dumpster,
                 selectVars>>

frame_acq_run ==
  \/ frame_acq_wait
  \/ frame_acq_drain
  \/ acq_queue_push_start
  \/ camera_get_frame
  \/ camera_get_frame_aborts
  \/ acq_queue_push_end

-------------------------------------------------------------------------------
(* S2. *)

window_full == frame_acc_count >= MaxAcc

(* dump_frame: the oldest frame goes to the dumpster before its entry of    *)
(* the queue is given back.                                                 *)
cleanup_frames_dump ==
  /\ select_pc = "cleanup"
  /\ window_full
  /\ dumpster' = Append(dumpster, Head(acq_queue))
  /\ select_pc' = "read_stop_dump"
  /\ UNCHANGED <<sem, cameraVars, acq_queue, write_sem, frame_acc_count,
                 select_queue>>

cleanup_frames_release ==
  /\ select_pc = "read_stop_dump"
  /\ acq_queue' = Tail(acq_queue)
  /\ write_sem' = write_sem + 1
  /\ frame_acc_count' = frame_acc_count - 1
  /\ select_pc' = "read_start"
  /\ UNCHANGED <<sem, cameraVars, dumpster, select_queue>>

cleanup_frames_nothing ==
  /\ select_pc = "cleanup"
  /\ ~window_full
  /\ select_pc' = "read_start"
  /\ UNCHANGED <<sem, cameraVars, acq_queue, write_sem, dumpster,
                 frame_acc_count, select_queue>>

(* S2 accepts the next frame; S3 is not more than ConvertSlack behind.      *)
acq_queue_read_start ==
  /\ select_pc = "read_start"
  /\ unread > 0
  /\ \A i \in 1 .. Len(select_queue) : select_queue[i].age < ConvertSlack
  /\ frame_acc_count' = frame_acc_count + 1
  /\ select_queue' = [i \in 1 .. Len(select_queue) |->
                        [frame |-> select_queue[i].frame,
                         age |-> select_queue[i].age + 1]]
  /\ select_pc' = "process"
  /\ UNCHANGED <<sem, cameraVars, acq_queue, write_sem, dumpster>>

(* No tick: image_diff has read the two latest frames of the window.        *)
select_nothing ==
  /\ select_pc = "process"
  /\ select_pc' = "cleanup"
  /\ UNCHANGED <<sem, cameraVars, acq_queue, write_sem, dumpster,
                 frame_acc_count, select_queue>>

(* A frame between two ticks of a full window goes to S3, by reference.     *)
select_frame ==
  /\ select_pc = "process"
  /\ frame_acc_count = MaxAcc
  /\ Len(select_queue) < SelectCount
  /\ \E index \in MinSelected .. frame_acc_count - 2 :
       select_queue' = Append(select_queue,
                              [frame |-> acq_queue[index + 1], age |-> 0])
  /\ select_pc' = "cleanup"
  /\ UNCHANGED <<sem, cameraVars, acq_queue, write_sem, dumpster,
                 frame_acc_count>>

select_run ==
  \/ cleanup_frames_dump
  \/ cleanup_frames_release
  \/ cleanup_frames_nothing
  \/ acq_queue_read_start
  \/ select_nothing
  \/ select_frame

-------------------------------------------------------------------------------
(* S3 is done with the oldest selected frame. *)

convert_run ==
  /\ select_queue # <<>>
  /\ select_queue' = Tail(select_queue)
  /\ UNCHANGED <<sem, cameraVars, acq_queue, write_sem, dumpster, select_pc,
                 frame_acc_count>>

(* A failed assertion ends the process.                                     *)
running == camera_pc # "aborted"

Next == running /\ (sequencer \/ frame_acq_run \/ select_run \/ convert_run)

(* The timer keeps firing, and the kernel runs every service that can run;  *)
(* the four are on cores of their own but S2 and S3, which both block.      *)
Fairness ==
  /\ WF_vars(running /\ sequencer)
  /\ WF_vars(running /\ frame_acq_run)
  /\ WF_vars(running /\ select_run)
  /\ WF_vars(running /\ convert_run)

Spec == Init /\ [][Next]_vars
FairSpec == Spec /\ Fairness

-------------------------------------------------------------------------------
(* Properties. *)

(* The assertions of camera.c:589 and ring_buffer.h:129 hold: S1 never asks *)
(* a camera without buffers for a frame, and the dumpster never overflows.  *)
AssertionsHold ==
  /\ camera_pc # "aborted"
  /\ select_pc = "cleanup" => Len(dumpster) < FrameCount

(* A buffer is in exactly one place: with the device, in the hand of S1, in *)
(* acq_queue or in the dumpster; while S2 dumps the oldest frame that one    *)
(* is both in the queue and beyond it.  currently_owned_frames is exact.    *)
FramesConserved ==
  /\ currently_owned_frames = Cardinality(owned)
  /\ LET window == IF select_pc = "read_stop_dump" THEN Tail(acq_queue)
                                                   ELSE acq_queue
         places == <<owned, grabbed, Range(window), Range(dumpster)>>
     IN /\ \A i, j \in 1 .. 4 : i # j => places[i] \cap places[j] = {}
        /\ UNION Range(places) = Frame
        /\ IsInjective(window) /\ IsInjective(dumpster)

(* While S2 looks at its window the device cannot write to any frame of it. *)
WindowStable ==
  select_pc = "process" =>
    \A i \in 1 .. frame_acc_count : acq_queue[i] \notin owned \cup grabbed

(* A frame that S3 has not finished is still in the window or at worst in   *)
(* the dumpster: the device cannot write to it while it is converted.       *)
SelectedStable ==
  \A i \in 1 .. Len(select_queue) : select_queue[i].frame \notin owned \cup grabbed

(* Every frame S2 dumps gets back to the camera, so that S1 goes on getting *)
(* frames for ever from the handful of buffers there is.                    *)
BuffersCirculate ==
  /\ []<>(camera_pc = "push_end")
  /\ \A f \in Frame : f \in Range(dumpster) ~> f \in owned
===============================================================================
