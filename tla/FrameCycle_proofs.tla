--------------------------- MODULE FrameCycle_proofs ---------------------------
(***************************************************************************)
(* Proofs about the cycle of the camera's buffers, for every number of     *)
(* buffers, every window and every lag.                                    *)
(*                                                                         *)
(* The assertion of camera.c:589 is about a counter; it holds because the  *)
(* buffers are counted (Conservation), because acq_queue cannot hold more  *)
(* than the window and the frames S2 is behind (Window, Lag), and because  *)
(* S1 empties the dumpster before it asks for a frame (CameraHasFrames).    *)
(***************************************************************************)
EXTENDS FrameCycle, TLAPS, FiniteSetTheorems

USE MaxAccAssumption, BoundAssumption

bit(b) == IF b THEN 1 ELSE 0
inHand == bit(camera_pc = "push_end")
dumping == bit(select_pc = "read_stop_dump")
pushing == bit(camera_pc \in {"get_frame", "push_end", "aborted"})
busy == bit(camera_pc # "sem_wait")

(* Every buffer is counted once; the one being dumped, twice.               *)
Conservation ==
  currently_owned_frames + inHand + Len(acq_queue) + Len(dumpster)
    = FrameCount + dumping

(* write_sem counts the entries of acq_queue that are free.                 *)
Slots == write_sem + pushing + Len(acq_queue) = FrameCount

(* S2's window is within acq_queue and within its bound.                    *)
Window ==
  /\ unread >= 0
  /\ select_pc = "read_start" => frame_acc_count < MaxAcc
  /\ select_pc \in {"process", "read_stop_dump"} => frame_acc_count >= 1
  /\ select_pc = "cleanup" => frame_acc_count >= 1 \/ Len(dumpster) = 0

(* S2 is at most MaxBehind frames behind the sequencer.                     *)
Lag == sem + busy + unread <= MaxBehind

CInv == TypeOK /\ Conservation /\ Slots /\ Window /\ Lag

(* From the moment S1 has emptied the dumpster until it has a frame, the    *)
(* camera has one to give.                                                  *)
CameraHasFrames ==
  /\ camera_pc \in {"push_start", "get_frame"} => currently_owned_frames >= 1
  /\ camera_pc # "aborted"

LEMMA FrameCountType == FrameCount \in Nat
  BY FrameAssumption, FS_CardinalityType DEF FrameCount

LEMMA Bits ==
  /\ inHand \in 0 .. 1 /\ dumping \in 0 .. 1
  /\ pushing \in 0 .. 1 /\ busy \in 0 .. 1
  BY DEF inHand, dumping, pushing, busy, bit

LEMMA CInvInit == Init => CInv
<1> SUFFICES ASSUME Init PROVE CInv
  OBVIOUS
<1> USE FrameCountType
<1>1. TypeOK
  BY DEF Init, TypeOK
<1>2. /\ inHand = 0 /\ dumping = 0 /\ pushing = 0 /\ busy = 0
      /\ Len(acq_queue) = 0 /\ Len(dumpster) = 0
      /\ sem = 0 /\ frame_acc_count = 0 /\ write_sem = FrameCount
      /\ currently_owned_frames = FrameCount /\ select_pc = "cleanup"
  BY DEF Init, inHand, dumping, pushing, busy, bit
<1>3. Conservation /\ Slots /\ Window /\ Lag
  BY <1>2 DEF Conservation, Slots, Window, Lag, unread
<1> QED
  BY <1>1, <1>3 DEF CInv

LEMMA CInvStep == CInv /\ [Next]_vars => CInv'
<1> SUFFICES ASSUME CInv, [Next]_vars PROVE CInv'
  OBVIOUS
<1> USE FrameCountType DEF cameraVars, selectVars
<1>0. TypeOK /\ Conservation /\ Slots /\ Window /\ Lag
  BY DEF CInv
<1>l. /\ Len(acq_queue) \in Nat /\ Len(dumpster) \in Nat
      /\ frame_acc_count \in Nat /\ unread \in Int
  BY <1>0 DEF TypeOK, unread
<1>1. CASE sequencer
  <2>1. /\ UNCHANGED <<inHand, dumping, pushing, busy>>
    BY <1>1 DEF sequencer, inHand, dumping, pushing, busy, bit
  <2>2. /\ Len(acq_queue') = Len(acq_queue) /\ Len(dumpster') = Len(dumpster)
    BY <1>0, <1>l, <1>1 DEF sequencer, TypeOK
  <2>3. (Conservation /\ Slots)'
    BY <1>0, <1>l, <1>1, <2>1, <2>2, Bits
       DEF sequencer, Conservation, Slots, TypeOK
  <2>4. /\ unread' = unread
        /\ frame_acc_count' = frame_acc_count
    BY <1>0, <1>l, <1>1, <2>2 DEF sequencer, unread, TypeOK
  <2>5. (Window /\ Lag)'
    BY <1>0, <1>l, <1>1, <2>1, <2>2, <2>4, Bits
       DEF sequencer, Window, Lag, TypeOK, window_full, behind, busy, bit
  <2>6. TypeOK'
    BY <1>0, <1>l, <1>1, <2>1, <2>2, <2>3, <2>4, <2>5, Bits
       DEF sequencer, TypeOK, Conservation, Slots, Window, Lag, unread, window_full
  <2> QED
    BY <2>3, <2>5, <2>6 DEF CInv
<1>2. CASE frame_acq_wait
  <2>1. /\ busy = 0 /\ busy' = 1
        /\ UNCHANGED <<inHand, dumping, pushing>>
    BY <1>2 DEF frame_acq_wait, inHand, dumping, pushing, busy, bit
  <2>2. /\ Len(acq_queue') = Len(acq_queue) /\ Len(dumpster') = Len(dumpster)
    BY <1>0, <1>l, <1>2 DEF frame_acq_wait, TypeOK
  <2>3. (Conservation /\ Slots)'
    BY <1>0, <1>l, <1>2, <2>1, <2>2, Bits
       DEF frame_acq_wait, Conservation, Slots, TypeOK
  <2>4. /\ unread' = unread
        /\ frame_acc_count' = frame_acc_count
    BY <1>0, <1>l, <1>2, <2>2 DEF frame_acq_wait, unread, TypeOK
  <2>5. (Window /\ Lag)'
    BY <1>0, <1>l, <1>2, <2>1, <2>2, <2>4, Bits
       DEF frame_acq_wait, Window, Lag, TypeOK, window_full
  <2>6. TypeOK'
    BY <1>0, <1>l, <1>2, <2>1, <2>2, <2>3, <2>4, <2>5, Bits
       DEF frame_acq_wait, TypeOK, Conservation, Slots, Window, Lag, unread, window_full
  <2> QED
    BY <2>3, <2>5, <2>6 DEF CInv
<1>3. CASE frame_acq_drain
  <2>1. /\ UNCHANGED <<inHand, dumping, pushing, busy>>
    BY <1>3 DEF frame_acq_drain, inHand, dumping, pushing, busy, bit
  <2>2. /\ Len(acq_queue') = Len(acq_queue) /\ Len(dumpster') = 0
    BY <1>0, <1>l, <1>3 DEF frame_acq_drain, TypeOK
  <2>3. (Conservation /\ Slots)'
    BY <1>0, <1>l, <1>3, <2>1, <2>2, Bits
       DEF frame_acq_drain, Conservation, Slots, TypeOK
  <2>4. /\ unread' = unread
        /\ frame_acc_count' = frame_acc_count
    BY <1>0, <1>l, <1>3, <2>2 DEF frame_acq_drain, unread, TypeOK
  <2>5. (Window /\ Lag)'
    BY <1>0, <1>l, <1>3, <2>1, <2>2, <2>4, Bits
       DEF frame_acq_drain, Window, Lag, TypeOK, window_full
  <2>6. TypeOK'
    <3>1. owned' \subseteq Frame
      BY <1>0, <1>3 DEF frame_acq_drain, TypeOK, Range
    <3>2. currently_owned_frames' \in 0 .. FrameCount
      <4>1. dumping = 1 => Len(acq_queue) >= 1
        BY <1>0, <1>l DEF dumping, bit, Window, unread
      <4> QED
        BY <1>0, <1>l, <1>3, <4>1, Bits DEF frame_acq_drain, TypeOK, Conservation
    <3> QED
      BY <1>0, <1>3, <3>1, <3>2 DEF frame_acq_drain, TypeOK
  <2> QED
    BY <2>3, <2>5, <2>6 DEF CInv
<1>4. CASE acq_queue_push_start
  <2>1. /\ pushing = 0 /\ pushing' = 1
        /\ UNCHANGED <<inHand, dumping, busy>>
    BY <1>4 DEF acq_queue_push_start, inHand, dumping, pushing, busy, bit
  <2>2. /\ Len(acq_queue') = Len(acq_queue) /\ Len(dumpster') = Len(dumpster)
    BY <1>0, <1>l, <1>4 DEF acq_queue_push_start, TypeOK
  <2>3. (Conservation /\ Slots)'
    BY <1>0, <1>l, <1>4, <2>1, <2>2, Bits
       DEF acq_queue_push_start, Conservation, Slots, TypeOK
  <2>4. /\ unread' = unread
        /\ frame_acc_count' = frame_acc_count
    BY <1>0, <1>l, <1>4, <2>2 DEF acq_queue_push_start, unread, TypeOK
  <2>5. (Window /\ Lag)'
    BY <1>0, <1>l, <1>4, <2>1, <2>2, <2>4, Bits
       DEF acq_queue_push_start, Window, Lag, TypeOK, window_full
  <2>6. TypeOK'
    BY <1>0, <1>l, <1>4, <2>1, <2>2, <2>3, <2>4, <2>5, Bits
       DEF acq_queue_push_start, TypeOK, Conservation, Slots, Window, Lag, unread, window_full
  <2> QED
    BY <2>3, <2>5, <2>6 DEF CInv
<1>5. CASE camera_get_frame
  <2>1. /\ inHand = 0 /\ inHand' = 1
        /\ UNCHANGED <<dumping, pushing, busy>>
    BY <1>5 DEF camera_get_frame, inHand, dumping, pushing, busy, bit
  <2>2. /\ Len(acq_queue') = Len(acq_queue) /\ Len(dumpster') = Len(dumpster)
    BY <1>0, <1>l, <1>5 DEF camera_get_frame, TypeOK
  <2>3. (Conservation /\ Slots)'
    BY <1>0, <1>l, <1>5, <2>1, <2>2, Bits
       DEF camera_get_frame, Conservation, Slots, TypeOK
  <2>4. /\ unread' = unread
        /\ frame_acc_count' = frame_acc_count
    BY <1>0, <1>l, <1>5, <2>2 DEF camera_get_frame, unread, TypeOK
  <2>5. (Window /\ Lag)'
    BY <1>0, <1>l, <1>5, <2>1, <2>2, <2>4, Bits
       DEF camera_get_frame, Window, Lag, TypeOK, window_full
  <2>6. TypeOK'
    BY <1>0, <1>l, <1>5, <2>1, <2>2, <2>3, <2>4, <2>5, Bits
       DEF camera_get_frame, TypeOK, Conservation, Slots, Window, Lag, unread, window_full
  <2> QED
    BY <2>3, <2>5, <2>6 DEF CInv
<1>6. CASE camera_get_frame_aborts
  <2>1. /\ UNCHANGED <<inHand, dumping, pushing, busy>>
    BY <1>6 DEF camera_get_frame_aborts, inHand, dumping, pushing, busy, bit
  <2>2. /\ Len(acq_queue') = Len(acq_queue) /\ Len(dumpster') = Len(dumpster)
    BY <1>0, <1>l, <1>6 DEF camera_get_frame_aborts, TypeOK
  <2>3. (Conservation /\ Slots)'
    BY <1>0, <1>l, <1>6, <2>1, <2>2, Bits
       DEF camera_get_frame_aborts, Conservation, Slots, TypeOK
  <2>4. /\ unread' = unread
        /\ frame_acc_count' = frame_acc_count
    BY <1>0, <1>l, <1>6, <2>2 DEF camera_get_frame_aborts, unread, TypeOK
  <2>5. (Window /\ Lag)'
    BY <1>0, <1>l, <1>6, <2>1, <2>2, <2>4, Bits
       DEF camera_get_frame_aborts, Window, Lag, TypeOK, window_full
  <2>6. TypeOK'
    BY <1>0, <1>l, <1>6, <2>1, <2>2, <2>3, <2>4, <2>5, Bits
       DEF camera_get_frame_aborts, TypeOK, Conservation, Slots, Window, Lag, unread, window_full
  <2> QED
    BY <2>3, <2>5, <2>6 DEF CInv
<1>7. CASE acq_queue_push_end
  <2>1. /\ inHand = 1 /\ inHand' = 0
        /\ pushing = 1 /\ pushing' = 0
        /\ busy = 1 /\ busy' = 0
        /\ UNCHANGED <<dumping>>
    BY <1>7 DEF acq_queue_push_end, inHand, dumping, pushing, busy, bit
  <2>2. /\ Len(acq_queue') = Len(acq_queue) + 1 /\ Len(dumpster') = Len(dumpster)
    BY <1>0, <1>l, <1>7 DEF acq_queue_push_end, TypeOK
  <2>3. (Conservation /\ Slots)'
    BY <1>0, <1>l, <1>7, <2>1, <2>2, Bits
       DEF acq_queue_push_end, Conservation, Slots, TypeOK
  <2>4. /\ unread' = unread + 1
        /\ frame_acc_count' = frame_acc_count
    BY <1>0, <1>l, <1>7, <2>2 DEF acq_queue_push_end, unread, TypeOK
  <2>5. (Window /\ Lag)'
    BY <1>0, <1>l, <1>7, <2>1, <2>2, <2>4, Bits
       DEF acq_queue_push_end, Window, Lag, TypeOK, window_full
  <2>6. TypeOK'
    BY <1>0, <1>l, <1>7, <2>1, <2>2, <2>3, <2>4, <2>5, Bits
       DEF acq_queue_push_end, TypeOK, Conservation, Slots, Window, Lag, unread, window_full
  <2> QED
    BY <2>3, <2>5, <2>6 DEF CInv
<1>8. CASE cleanup_frames_dump
  <2>1. /\ dumping = 0 /\ dumping' = 1
        /\ UNCHANGED <<inHand, pushing, busy>>
    BY <1>8 DEF cleanup_frames_dump, inHand, dumping, pushing, busy, bit
  <2>2. /\ Len(acq_queue') = Len(acq_queue) /\ Len(dumpster') = Len(dumpster) + 1
    BY <1>0, <1>l, <1>8 DEF cleanup_frames_dump, TypeOK
  <2>3. (Conservation /\ Slots)'
    BY <1>0, <1>l, <1>8, <2>1, <2>2, Bits
       DEF cleanup_frames_dump, Conservation, Slots, TypeOK
  <2>4. /\ unread' = unread
        /\ frame_acc_count' = frame_acc_count
    BY <1>0, <1>l, <1>8, <2>2 DEF cleanup_frames_dump, unread, TypeOK
  <2>5. (Window /\ Lag)'
    BY <1>0, <1>l, <1>8, <2>1, <2>2, <2>4, Bits
       DEF cleanup_frames_dump, Window, Lag, TypeOK, window_full
  <2>6. TypeOK'
    BY <1>0, <1>l, <1>8, <2>1, <2>2, <2>3, <2>4, <2>5, Bits
       DEF cleanup_frames_dump, TypeOK, Conservation, Slots, Window, Lag, unread, window_full
  <2> QED
    BY <2>3, <2>5, <2>6 DEF CInv
<1>9. CASE cleanup_frames_release
  <2>1. /\ dumping = 1 /\ dumping' = 0
        /\ UNCHANGED <<inHand, pushing, busy>>
    BY <1>9 DEF cleanup_frames_release, inHand, dumping, pushing, busy, bit
  <2>2. /\ Len(acq_queue') = Len(acq_queue) - 1 /\ Len(dumpster') = Len(dumpster)
    <3>1. acq_queue \in Seq(Frame) /\ acq_queue # <<>>
      BY <1>0, <1>l, <1>9 DEF cleanup_frames_release, TypeOK, Window, unread
    <3> QED
      BY <1>9, <3>1 DEF cleanup_frames_release
  <2>3. (Conservation /\ Slots)'
    <3>1. /\ write_sem' = write_sem + 1 /\ write_sem \in Nat
          /\ currently_owned_frames' = currently_owned_frames
          /\ currently_owned_frames \in Nat
      BY <1>0, <1>9 DEF cleanup_frames_release, TypeOK
    <3> QED
      BY <1>0, <1>l, <2>1, <2>2, <3>1, Bits DEF Conservation, Slots
  <2>4. /\ unread' = unread
        /\ frame_acc_count' = frame_acc_count - 1
    BY <1>0, <1>l, <1>9, <2>2 DEF cleanup_frames_release, unread, TypeOK
  <2>5. (Window /\ Lag)'
    BY <1>0, <1>l, <1>9, <2>1, <2>2, <2>4, Bits
       DEF cleanup_frames_release, Window, Lag, TypeOK, window_full
  <2>6. TypeOK'
    BY <1>0, <1>l, <1>9, <2>1, <2>2, <2>3, <2>4, <2>5, Bits
       DEF cleanup_frames_release, TypeOK, Conservation, Slots, Window, Lag, unread, window_full
  <2> QED
    BY <2>3, <2>5, <2>6 DEF CInv
<1>10. CASE cleanup_frames_nothing
  <2>1. /\ UNCHANGED <<inHand, dumping, pushing, busy>>
    BY <1>10 DEF cleanup_frames_nothing, inHand, dumping, pushing, busy, bit
  <2>2. /\ Len(acq_queue') = Len(acq_queue) /\ Len(dumpster') = Len(dumpster)
    BY <1>0, <1>l, <1>10 DEF cleanup_frames_nothing, TypeOK
  <2>3. (Conservation /\ Slots)'
    BY <1>0, <1>l, <1>10, <2>1, <2>2, Bits
       DEF cleanup_frames_nothing, Conservation, Slots, TypeOK
  <2>4. /\ unread' = unread
        /\ frame_acc_count' = frame_acc_count
    BY <1>0, <1>l, <1>10, <2>2 DEF cleanup_frames_nothing, unread, TypeOK
  <2>5. (Window /\ Lag)'
    BY <1>0, <1>l, <1>10, <2>1, <2>2, <2>4, Bits
       DEF cleanup_frames_nothing, Window, Lag, TypeOK, window_full
  <2>6. TypeOK'
    BY <1>0, <1>l, <1>10, <2>1, <2>2, <2>3, <2>4, <2>5, Bits
       DEF cleanup_frames_nothing, TypeOK, Conservation, Slots, Window, Lag, unread, window_full
  <2> QED
    BY <2>3, <2>5, <2>6 DEF CInv
<1>11. CASE acq_queue_read_start
  <2>1. /\ UNCHANGED <<inHand, dumping, pushing, busy>>
    BY <1>11 DEF acq_queue_read_start, inHand, dumping, pushing, busy, bit
  <2>2. /\ Len(acq_queue') = Len(acq_queue) /\ Len(dumpster') = Len(dumpster)
    BY <1>0, <1>l, <1>11 DEF acq_queue_read_start, TypeOK
  <2>3. (Conservation /\ Slots)'
    BY <1>0, <1>l, <1>11, <2>1, <2>2, Bits
       DEF acq_queue_read_start, Conservation, Slots, TypeOK
  <2>4. /\ unread' = unread - 1
        /\ frame_acc_count' = frame_acc_count + 1
    BY <1>0, <1>l, <1>11, <2>2 DEF acq_queue_read_start, unread, TypeOK
  <2>5. (Window /\ Lag)'
    <3>1. /\ unread > 0 /\ select_pc' = "process"
          /\ sem \in Nat /\ sem' = sem
      BY <1>0, <1>11 DEF acq_queue_read_start, TypeOK
    <3> QED
      BY <1>0, <1>l, <2>1, <2>2, <2>4, <3>1, Bits DEF Window, Lag
  <2>6. TypeOK'
    <3>1. select_queue' \in Seq([frame : Frame, age : Nat])
      <4> DEFINE older(i) == [frame |-> select_queue[i].frame,
                            age |-> select_queue[i].age + 1]
      <4>1. select_queue \in Seq([frame : Frame, age : Nat])
        BY <1>0 DEF TypeOK
      <4>2. \A i \in 1 .. Len(select_queue) : older(i) \in [frame : Frame, age : Nat]
        <5> TAKE i \in 1 .. Len(select_queue)
        <5> DEFINE Selected == [frame : Frame, age : Nat]
        <5>1. select_queue \in Seq(Selected)
          BY <4>1
        <5> HIDE DEF Selected
        <5>2. select_queue[i] \in Selected
          BY <5>1
        <5>3. select_queue[i] \in [frame : Frame, age : Nat]
          BY <5>2 DEF Selected
        <5> QED
          BY <5>3
      <4>3. select_queue' = [i \in 1 .. Len(select_queue) |-> older(i)]
        BY <1>11 DEF acq_queue_read_start
      <4> HIDE DEF older
      <4>4. [i \in 1 .. Len(select_queue) |-> older(i)]
              \in Seq([frame : Frame, age : Nat])
        BY <4>1, <4>2
      <4> QED
        BY <4>3, <4>4
    <3>2. frame_acc_count' \in 0 .. MaxAcc
      BY <1>0, <1>l, <1>11, <2>4 DEF acq_queue_read_start, Window, TypeOK
    <3> QED
      BY <1>0, <1>11, <3>1, <3>2 DEF acq_queue_read_start, TypeOK
  <2> QED
    BY <2>3, <2>5, <2>6 DEF CInv
<1>12. CASE select_nothing
  <2>1. /\ UNCHANGED <<inHand, dumping, pushing, busy>>
    BY <1>12 DEF select_nothing, inHand, dumping, pushing, busy, bit
  <2>2. /\ Len(acq_queue') = Len(acq_queue) /\ Len(dumpster') = Len(dumpster)
    BY <1>0, <1>l, <1>12 DEF select_nothing, TypeOK
  <2>3. (Conservation /\ Slots)'
    BY <1>0, <1>l, <1>12, <2>1, <2>2, Bits
       DEF select_nothing, Conservation, Slots, TypeOK
  <2>4. /\ unread' = unread
        /\ frame_acc_count' = frame_acc_count
    BY <1>0, <1>l, <1>12, <2>2 DEF select_nothing, unread, TypeOK
  <2>5. (Window /\ Lag)'
    BY <1>0, <1>l, <1>12, <2>1, <2>2, <2>4, Bits
       DEF select_nothing, Window, Lag, TypeOK, window_full
  <2>6. TypeOK'
    BY <1>0, <1>l, <1>12, <2>1, <2>2, <2>3, <2>4, <2>5, Bits
       DEF select_nothing, TypeOK, Conservation, Slots, Window, Lag, unread, window_full
  <2> QED
    BY <2>3, <2>5, <2>6 DEF CInv
<1>13. CASE select_frame
  <2>1. /\ UNCHANGED <<inHand, dumping, pushing, busy>>
    BY <1>13 DEF select_frame, inHand, dumping, pushing, busy, bit
  <2>2. /\ Len(acq_queue') = Len(acq_queue) /\ Len(dumpster') = Len(dumpster)
    BY <1>0, <1>l, <1>13 DEF select_frame, TypeOK
  <2>3. (Conservation /\ Slots)'
    BY <1>0, <1>l, <1>13, <2>1, <2>2, Bits
       DEF select_frame, Conservation, Slots, TypeOK
  <2>4. /\ unread' = unread
        /\ frame_acc_count' = frame_acc_count
    BY <1>0, <1>l, <1>13, <2>2 DEF select_frame, unread, TypeOK
  <2>5. (Window /\ Lag)'
    BY <1>0, <1>l, <1>13, <2>1, <2>2, <2>4, Bits
       DEF select_frame, Window, Lag, TypeOK, window_full
  <2>6. TypeOK'
    BY <1>0, <1>l, <1>13, <2>1, <2>2, <2>3, <2>4, <2>5, Bits
       DEF select_frame, TypeOK, Conservation, Slots, Window, Lag, unread, window_full
  <2> QED
    BY <2>3, <2>5, <2>6 DEF CInv
<1>14. CASE convert_run
  <2>1. /\ UNCHANGED <<inHand, dumping, pushing, busy>>
    BY <1>14 DEF convert_run, inHand, dumping, pushing, busy, bit
  <2>2. /\ Len(acq_queue') = Len(acq_queue) /\ Len(dumpster') = Len(dumpster)
    BY <1>0, <1>l, <1>14 DEF convert_run, TypeOK
  <2>3. (Conservation /\ Slots)'
    BY <1>0, <1>l, <1>14, <2>1, <2>2, Bits
       DEF convert_run, Conservation, Slots, TypeOK
  <2>4. /\ unread' = unread
        /\ frame_acc_count' = frame_acc_count
    BY <1>0, <1>l, <1>14, <2>2 DEF convert_run, unread, TypeOK
  <2>5. (Window /\ Lag)'
    BY <1>0, <1>l, <1>14, <2>1, <2>2, <2>4, Bits
       DEF convert_run, Window, Lag, TypeOK, window_full
  <2>6. TypeOK'
    BY <1>0, <1>l, <1>14, <2>1, <2>2, <2>3, <2>4, <2>5, Bits
       DEF convert_run, TypeOK, Conservation, Slots, Window, Lag, unread, window_full
  <2> QED
    BY <2>3, <2>5, <2>6 DEF CInv
<1>15. CASE UNCHANGED vars
  BY <1>0, <1>15 DEF vars, CInv, TypeOK, Conservation, Slots, Window, Lag,
     unread, inHand, dumping, pushing, busy
<1> QED
  BY <1>1, <1>2, <1>3, <1>4, <1>5, <1>6, <1>7, <1>8, <1>9,
     <1>10, <1>11, <1>12, <1>13, <1>14, <1>15
     DEF Next, frame_acq_run, select_run

LEMMA CInvHolds == Spec => []CInv
  BY CInvInit, CInvStep, PTL DEF Spec

(* Every variable keeps its type: currently_owned_frames, a uint in the     *)
(* code, never passes below zero, and neither do the counts of acq_queue.   *)
THEOREM TypeCorrect == Spec => []TypeOK
<1>1. CInv => TypeOK
  BY DEF CInv
<1> QED
  BY <1>1, CInvHolds, PTL

(* If S2 is never more frames behind than there are buffers outside its     *)
(* window, S1 never runs into the assertion of camera.c:589 and S2 never    *)
(* into the one of ring_buffer.h:129.  main.c:190 adds two buffers, so this *)
(* is a lag of two frames.                                                  *)
THEOREM NoAssertionFails ==
  MaxBehind <= FrameCount - MaxAcc => (Spec => []AssertionsHold)
<1> SUFFICES ASSUME MaxBehind <= FrameCount - MaxAcc
             PROVE  Spec => []AssertionsHold
  OBVIOUS
<1> USE FrameCountType DEF cameraVars, selectVars
<1>1. Init => CameraHasFrames
  BY DEF Init, CameraHasFrames
<1>2. CInv /\ CameraHasFrames /\ [Next]_vars => CameraHasFrames'
  <2> SUFFICES ASSUME CInv, CameraHasFrames, [Next]_vars
               PROVE  CameraHasFrames'
    OBVIOUS
  <2>0. TypeOK /\ Conservation /\ Window /\ Lag
    BY DEF CInv
  <2>1. CASE frame_acq_drain
    <3>1. busy = 1 /\ inHand = 0
      BY <2>1 DEF frame_acq_drain, busy, inHand, bit
    <3>2. Len(acq_queue) \in Nat /\ Len(dumpster) \in Nat /\ unread \in Int
      BY <2>0 DEF TypeOK, unread
    <3>3. Len(acq_queue) = frame_acc_count + unread
      BY <2>0, <3>2 DEF unread, TypeOK
    <3>4. Len(acq_queue) <= MaxAcc + MaxBehind - 1
      BY <2>0, <3>1, <3>2, <3>3 DEF Lag, TypeOK
    <3>5. currently_owned_frames + Len(dumpster) >= 1
      BY <2>0, <3>1, <3>2, <3>4, Bits DEF Conservation, TypeOK
    <3> QED
      BY <2>1, <3>5 DEF frame_acq_drain, CameraHasFrames
  <2>2. CASE camera_get_frame_aborts
    BY <2>0, <2>2 DEF camera_get_frame_aborts, CameraHasFrames, TypeOK
  <2>3. CASE UNCHANGED vars
    BY <2>3 DEF vars, CameraHasFrames
  <2> QED
    BY <2>1, <2>2, <2>3
       DEF CameraHasFrames, Next, frame_acq_run, select_run, sequencer,
           frame_acq_wait, acq_queue_push_start, camera_get_frame,
           acq_queue_push_end, cleanup_frames_dump, cleanup_frames_release,
           cleanup_frames_nothing, acq_queue_read_start, select_nothing,
           select_frame, convert_run
<1>3. CInv /\ CameraHasFrames => AssertionsHold
  <2> SUFFICES ASSUME CInv, CameraHasFrames, select_pc = "cleanup"
               PROVE  Len(dumpster) < FrameCount
    BY DEF AssertionsHold, CameraHasFrames
  <2>1. TypeOK /\ Conservation /\ Window
    BY DEF CInv
  <2>2. dumping = 0
    BY DEF dumping, bit
  <2>3. Len(dumpster) \in Nat /\ Len(acq_queue) \in Nat
    BY <2>1 DEF TypeOK
  <2>4. CASE frame_acc_count >= 1
    BY <2>1, <2>2, <2>3, <2>4, Bits DEF Conservation, Window, unread, TypeOK
  <2>5. CASE Len(dumpster) = 0
    BY <2>3, <2>5
  <2> QED
    BY <2>1, <2>4, <2>5 DEF Window
<1> QED
  BY <1>1, <1>2, <1>3, CInvHolds, PTL DEF Spec
-------------------------------------------------------------------------------
(* Where the buffers are. *)

LEMMA AppendsOne ==
  ASSUME NEW s \in Seq(Frame), NEW f \in Frame
  PROVE  /\ Append(s, f) \in Seq(Frame)
         /\ Range(Append(s, f)) = Range(s) \cup {f}
         /\ IsInjective(s) /\ f \notin Range(s) => IsInjective(Append(s, f))
<1> DEFINE t == Append(s, f)
           n == Len(s)
<1>1. /\ n \in Nat /\ t \in Seq(Frame) /\ Len(t) = n + 1
      /\ DOMAIN s = 1 .. n /\ DOMAIN t = 1 .. n + 1
      /\ t[n + 1] = f /\ \A i \in 1 .. n : t[i] = s[i]
  OBVIOUS
<1> HIDE DEF t, n
<1>2. Range(t) = Range(s) \cup {f}
  BY <1>1 DEF Range
<1>3. IsInjective(s) /\ f \notin Range(s) => IsInjective(t)
  BY <1>1 DEF Range, IsInjective
<1> QED BY <1>1, <1>2, <1>3 DEF t

LEMMA TakesOne ==
  ASSUME NEW s \in Seq(Frame), s # <<>>
  PROVE  /\ Head(s) \in Frame /\ Tail(s) \in Seq(Frame)
         /\ Range(s) = {Head(s)} \cup Range(Tail(s))
         /\ IsInjective(s) => IsInjective(Tail(s)) /\ Head(s) \notin Range(Tail(s))
<1> DEFINE t == Tail(s)
           n == Len(s)
           f == Head(s)
<1>1. /\ n \in Nat \ {0} /\ t \in Seq(Frame) /\ f \in Frame
      /\ DOMAIN s = 1 .. n /\ DOMAIN t = 1 .. n - 1
      /\ f = s[1] /\ \A i \in 1 .. n - 1 : t[i] = s[i + 1]
  OBVIOUS
<1> HIDE DEF t, n, f
<1>2. \A i \in 2 .. n : i - 1 \in 1 .. n - 1 /\ t[i - 1] = s[i]
  BY <1>1
<1>3. Range(s) = {f} \cup Range(t)
  <2>1. ASSUME NEW i \in 1 .. n PROVE s[i] \in {f} \cup Range(t)
    <3>1. CASE i = 1
      BY <1>1, <3>1
    <3>2. CASE i # 1
      <4>1. i \in 2 .. n
        BY <1>1, <3>2
      <4> QED BY <1>1, <1>2, <4>1 DEF Range
    <3> QED BY <3>1, <3>2
  <2>2. ASSUME NEW i \in 1 .. n - 1 PROVE t[i] \in Range(s)
    <3>1. i + 1 \in 1 .. n
      BY <1>1
    <3> QED BY <1>1, <3>1 DEF Range
  <2>3. f \in Range(s)
    BY <1>1 DEF Range
  <2> QED BY <1>1, <2>1, <2>2, <2>3 DEF Range
<1>4. ASSUME IsInjective(s)
      PROVE  IsInjective(t) /\ f \notin Range(t)
  <2>1. \A i, j \in 1 .. n : s[i] = s[j] => i = j
    BY <1>1, <1>4 DEF IsInjective
  <2>2. \A i \in 1 .. n - 1 : i + 1 \in 1 .. n /\ i + 1 # 1 /\ 1 \in 1 .. n
    BY <1>1
  <2>3. \A i, j \in 1 .. n - 1 : t[i] = t[j] => i = j
    BY <1>1, <2>1, <2>2
  <2>4. \A i \in 1 .. n - 1 : t[i] # f
    BY <1>1, <2>1, <2>2
  <2> QED BY <1>1, <2>3, <2>4 DEF IsInjective, Range
<1> QED BY <1>1, <1>3, <1>4 DEF t, f

LEMMA CountsOnce ==
  ASSUME NEW s \in Seq(Frame), IsInjective(s)
  PROVE  IsFiniteSet(Range(s)) /\ Cardinality(Range(s)) = Len(s)
<1>1. Len(s) \in Nat /\ DOMAIN s = 1 .. Len(s)
  OBVIOUS
<1>2. s \in [1 .. Len(s) -> Range(s)]
  BY <1>1 DEF Range
<1>3. s \in Surjection(1 .. Len(s), Range(s)) /\ s \in Injection(1 .. Len(s), Range(s))
  BY <1>1, <1>2 DEF Surjection, Injection, Range
<1>4. IsFiniteSet(1 .. Len(s)) /\ Cardinality(1 .. Len(s)) = Len(s)
  <2> DEFINE n == Len(s)
             one == 1
  <2>1. n \in Int /\ one \in Int
    BY <1>1
  <2>2. n = IF one > n THEN 0 ELSE n - one + 1
    BY <1>1
  <2>3. IsFiniteSet(one .. n) /\ Cardinality(one .. n) = n
    <3> HIDE DEF n, one
    <3> QED BY <2>1, <2>2, FS_Interval, Zenon
  <2> QED BY <2>3
<1> QED BY <1>3, <1>4, FS_Surjection

(* The entries of acq_queue that are not also in the dumpster or beyond it.  *)
window ==
  IF select_pc = "read_stop_dump" THEN Tail(acq_queue) ELSE acq_queue

Places ==
  /\ owned \cap grabbed = {} /\ owned \cap Range(window) = {}
  /\ owned \cap Range(dumpster) = {} /\ grabbed \cap Range(window) = {}
  /\ grabbed \cap Range(dumpster) = {} /\ Range(window) \cap Range(dumpster) = {}
  /\ owned \cup grabbed \cup Range(window) \cup Range(dumpster) = Frame
  /\ IsInjective(window) /\ IsInjective(dumpster)
  /\ currently_owned_frames = Cardinality(owned)
  /\ IF camera_pc = "push_end" THEN \E f \in Frame : grabbed = {f}
                               ELSE grabbed = {}

LEMMA WindowType ==
  ASSUME CInv
  PROVE  /\ acq_queue \in Seq(Frame) /\ dumpster \in Seq(Frame)
         /\ window \in Seq(Frame)
         /\ IsFiniteSet(owned)
         /\ select_pc = "read_stop_dump" => acq_queue # <<>>
         /\ select_pc = "cleanup" /\ window_full => acq_queue # <<>>
<1>1. /\ acq_queue \in Seq(Frame) /\ dumpster \in Seq(Frame)
      /\ frame_acc_count \in Nat /\ Len(acq_queue) \in Nat
      /\ owned \subseteq Frame
  BY DEF CInv, TypeOK
<1>2. IsFiniteSet(owned)
  BY <1>1, FrameAssumption, FS_Subset
<1>3. /\ select_pc = "read_stop_dump" => Len(acq_queue) >= 1
      /\ select_pc = "cleanup" /\ window_full => Len(acq_queue) >= 1
  BY <1>1 DEF CInv, Window, unread, window_full
<1>4. acq_queue # <<>> => Tail(acq_queue) \in Seq(Frame)
  BY <1>1
<1> QED BY <1>1, <1>2, <1>3, <1>4 DEF window

LEMMA PlacesInit == Init => Places
<1> SUFFICES ASSUME Init PROVE Places
  OBVIOUS
<1>1. window = <<>> /\ dumpster = <<>> /\ grabbed = {} /\ owned = Frame
      /\ currently_owned_frames = Cardinality(Frame) /\ camera_pc = "sem_wait"
  BY DEF Init, window, FrameCount
<1>2. Range(<<>>) = {} /\ IsInjective(<<>>)
  BY DEF Range, IsInjective
<1> QED BY <1>1, <1>2 DEF Places

LEMMA PlacesStep ==
  ASSUME CInv, Places, [Next]_vars
  PROVE  Places'
<1> USE DEF cameraVars, selectVars
<1>1. /\ acq_queue \in Seq(Frame) /\ dumpster \in Seq(Frame)
      /\ window \in Seq(Frame) /\ IsFiniteSet(owned)
      /\ owned \subseteq Frame /\ grabbed \subseteq Frame
  BY WindowType DEF CInv, TypeOK
<1>2. ASSUME UNCHANGED <<owned, grabbed, currently_owned_frames, window, dumpster>>,
             camera_pc' = "push_end" <=> camera_pc = "push_end"
      PROVE  Places'
  BY <1>2 DEF Places
<1>3. CASE frame_acq_drain
  <2>1. /\ owned' = owned \cup Range(dumpster) /\ dumpster' = <<>>
        /\ currently_owned_frames' = currently_owned_frames + Len(dumpster)
        /\ camera_pc = "drain" /\ camera_pc' = "push_start"
        /\ grabbed' = grabbed /\ window' = window
    BY <1>3 DEF frame_acq_drain, window
  <2>2. IsFiniteSet(Range(dumpster)) /\ Cardinality(Range(dumpster)) = Len(dumpster)
    BY <1>1, CountsOnce DEF Places
  <2>3. Cardinality(owned \cup Range(dumpster))
          = Cardinality(owned) + Len(dumpster)
    <3>1. /\ Cardinality(owned \cup Range(dumpster))
               = Cardinality(owned) + Cardinality(Range(dumpster))
                   - Cardinality(owned \cap Range(dumpster))
      BY <1>1, <2>2, FS_Union
    <3>2. Cardinality(owned \cap Range(dumpster)) = 0
      BY FS_EmptySet DEF Places
    <3>3. Cardinality(owned) \in Nat /\ Len(dumpster) \in Nat
      BY <1>1, FS_CardinalityType
    <3> QED BY <2>2, <3>1, <3>2, <3>3
  <2>4. Range(<<>>) = {} /\ IsInjective(<<>>)
    BY DEF Range, IsInjective
  <2>5. Range(dumpster') = {} /\ IsInjective(dumpster')
    BY <2>1, <2>4
  <2> QED BY <2>1, <2>3, <2>5 DEF Places
<1>4. CASE camera_get_frame
  <2>1. PICK f \in owned : owned' = owned \ {f} /\ grabbed' = {f}
    BY <1>4 DEF camera_get_frame
  <2>2. /\ currently_owned_frames' = currently_owned_frames - 1
        /\ camera_pc = "get_frame" /\ camera_pc' = "push_end"
        /\ dumpster' = dumpster /\ window' = window
    BY <1>4 DEF camera_get_frame, window
  <2>3. Cardinality(owned \ {f}) = Cardinality(owned) - 1
    BY <1>1, <2>1, FS_RemoveElement
  <2>4. f \in Frame
    BY <1>1, <2>1
  <2> QED BY <2>1, <2>2, <2>3, <2>4 DEF Places
<1>5. CASE acq_queue_push_end
  <2>1. PICK f \in grabbed : acq_queue' = Append(acq_queue, f)
    BY <1>5 DEF acq_queue_push_end
  <2>2. /\ grabbed' = {} /\ camera_pc = "push_end" /\ camera_pc' = "sem_wait"
        /\ UNCHANGED <<owned, currently_owned_frames, dumpster, select_pc>>
    BY <1>5 DEF acq_queue_push_end
  <2>3. f \in Frame /\ grabbed = {f}
    BY <1>1, <2>1, <2>2 DEF Places
  <2>4. window' = Append(window, f)
    <3>1. select_pc = "read_stop_dump" =>
            Tail(Append(acq_queue, f)) = Append(Tail(acq_queue), f)
      BY <1>1, <2>3, WindowType
    <3> QED BY <2>1, <2>2, <3>1 DEF window
  <2>5. /\ Range(window') = Range(window) \cup {f}
        /\ IsInjective(window')
    BY <1>1, <2>3, <2>4, AppendsOne DEF Places
  <2> QED BY <2>2, <2>3, <2>5 DEF Places
<1>6. CASE cleanup_frames_dump
  <2>1. /\ select_pc = "cleanup" /\ window_full
        /\ dumpster' = Append(dumpster, Head(acq_queue))
        /\ UNCHANGED <<owned, grabbed, currently_owned_frames, camera_pc>>
        /\ window = acq_queue /\ window' = Tail(acq_queue)
    BY <1>6 DEF cleanup_frames_dump, window
  <2>2. acq_queue # <<>>
    BY <2>1, WindowType
  <2>3. /\ Head(acq_queue) \in Frame
        /\ Range(window) = {Head(acq_queue)} \cup Range(window')
        /\ IsInjective(window') /\ Head(acq_queue) \notin Range(window')
    BY <1>1, <2>1, <2>2, TakesOne DEF Places
  <2>4. Head(acq_queue) \notin Range(dumpster)
    BY <2>3 DEF Places
  <2>5. /\ Range(dumpster') = Range(dumpster) \cup {Head(acq_queue)}
        /\ IsInjective(dumpster')
    BY <1>1, <2>1, <2>3, <2>4, AppendsOne DEF Places
  <2> QED BY <2>1, <2>3, <2>5 DEF Places
<1>7. CASE cleanup_frames_release
  BY <1>2, <1>7 DEF cleanup_frames_release, window
<1>8. CASE sequencer \/ frame_acq_wait \/ acq_queue_push_start
           \/ camera_get_frame_aborts \/ convert_run
  BY <1>2, <1>8
     DEF sequencer, frame_acq_wait, acq_queue_push_start,
         camera_get_frame_aborts, convert_run, window
<1>9. CASE cleanup_frames_nothing \/ acq_queue_read_start \/ select_nothing
           \/ select_frame
  BY <1>2, <1>9
     DEF cleanup_frames_nothing, acq_queue_read_start, select_nothing,
         select_frame, window
<1>10. CASE UNCHANGED vars
  BY <1>2, <1>10 DEF vars, window
<1> QED
  BY <1>3, <1>4, <1>5, <1>6, <1>7, <1>8, <1>9, <1>10
     DEF Next, frame_acq_run, select_run

LEMMA PlacesHold == Spec => []Places
<1>1. CInv /\ Places /\ [Next]_vars => Places'
  BY PlacesStep
<1> QED BY <1>1, PlacesInit, CInvHolds, PTL DEF Spec

(* Whatever the services do, a buffer is with the device, in the hand of S1,  *)
(* in acq_queue or in the dumpster, in one of them and only once, and          *)
(* currently_owned_frames is the number of those with the device.              *)
THEOREM Conserved == Spec => []FramesConserved
<1>1. Places => FramesConserved
  <2> SUFFICES ASSUME Places PROVE FramesConserved
    OBVIOUS
  <2> DEFINE places == <<owned, grabbed, Range(window), Range(dumpster)>>
  <2>1. /\ places[1] = owned /\ places[2] = grabbed
        /\ places[3] = Range(window) /\ places[4] = Range(dumpster)
        /\ DOMAIN places = 1 .. 4
    OBVIOUS
  <2> HIDE DEF places
  <2>2. \A i, j \in 1 .. 4 : i # j => places[i] \cap places[j] = {}
    <3>1. \A i \in 1 .. 4 : i = 1 \/ i = 2 \/ i = 3 \/ i = 4
      OBVIOUS
    <3> QED BY <2>1, <3>1 DEF Places
  <2>3. Range(places) = {owned, grabbed, Range(window), Range(dumpster)}
    <3>1. 1 .. 4 = {1, 2, 3, 4}
      OBVIOUS
    <3>2. Range(places) = {places[x] : x \in {1, 2, 3, 4}}
      BY <2>1, <3>1 DEF Range
    <3> QED BY <2>1, <3>2
  <2>4. UNION Range(places) = Frame
    BY <2>3 DEF Places
  <2> QED BY <2>2, <2>4 DEF Places, FramesConserved, window, places
<1> QED BY <1>1, PlacesHold, PTL

(* While S2 compares frames of its window the device has none of them.         *)
THEOREM WindowIsStable == Spec => []WindowStable
<1>1. CInv /\ Places => WindowStable
  <2> SUFFICES ASSUME CInv, Places, select_pc = "process",
                      NEW i \in 1 .. frame_acc_count
               PROVE  acq_queue[i] \notin owned \cup grabbed
    BY DEF WindowStable
  <2>1. i \in 1 .. Len(acq_queue) /\ acq_queue \in Seq(Frame)
    BY DEF CInv, TypeOK, Window, unread
  <2>2. acq_queue[i] \in Range(window)
    BY <2>1 DEF window, Range
  <2> QED BY <2>2 DEF Places
<1> QED BY <1>1, CInvHolds, PlacesHold, PTL

(* A frame S3 works on moves towards the front of the window by one each time *)
(* S2 gives an entry back: with every frame S2 accepts, and once more between *)
(* giving back and accepting.                                                *)
givenBack == bit(select_pc = "read_start")

SelectedInWindow ==
  \A k \in 1 .. Len(select_queue) :
    /\ select_queue[k].age <= ConvertSlack
    /\ \E i \in 1 .. frame_acc_count :
         /\ acq_queue[i] = select_queue[k].frame
         /\ i >= MinSelected + 1 - select_queue[k].age - givenBack

LEMMA Ages ==
  ASSUME CInv, NEW k \in 1 .. Len(select_queue)
  PROVE  select_queue[k].age \in Nat
<1> DEFINE Selected == [frame : Frame, age : Nat]
<1>1. select_queue[k] \in Selected
  <2>1. select_queue \in Seq(Selected)
    BY DEF CInv, TypeOK
  <2> HIDE DEF Selected
  <2> QED BY <2>1
<1> QED BY <1>1

(* Steps of the others leave the window and its positions alone.             *)
LEMMA SelectedFrame ==
  ASSUME CInv, SelectedInWindow,
         UNCHANGED <<select_pc, frame_acc_count, select_queue>>,
         \A i \in 1 .. frame_acc_count : acq_queue'[i] = acq_queue[i]
  PROVE  SelectedInWindow'
<1>1. givenBack' = givenBack
  BY DEF givenBack, bit
<1> QED BY <1>1 DEF SelectedInWindow

LEMMA SelectedStep ==
  ASSUME ConvertSlack < MinSelected, CInv, CInv', SelectedInWindow, [Next]_vars
  PROVE  SelectedInWindow'
<1> USE DEF cameraVars, selectVars
<1>1. /\ acq_queue \in Seq(Frame) /\ Len(acq_queue) \in Nat
      /\ frame_acc_count \in Nat /\ frame_acc_count <= Len(acq_queue)
      /\ select_queue \in Seq([frame : Frame, age : Nat])
      /\ Len(select_queue) \in Nat
  BY DEF CInv, TypeOK, Window, unread
<1>2. CASE acq_queue_push_end
  <2>1. PICK f \in grabbed : acq_queue' = Append(acq_queue, f)
    BY <1>2 DEF acq_queue_push_end
  <2>2. \A i \in 1 .. frame_acc_count : acq_queue'[i] = acq_queue[i]
    BY <1>1, <2>1 DEF CInv, TypeOK
  <2> QED BY <1>2, <2>2, SelectedFrame DEF acq_queue_push_end
<1>3. CASE sequencer \/ frame_acq_wait \/ frame_acq_drain \/ acq_queue_push_start
           \/ camera_get_frame \/ camera_get_frame_aborts
  <2>1. UNCHANGED <<select_pc, frame_acc_count, select_queue, acq_queue>>
    BY <1>3 DEF sequencer, frame_acq_wait, frame_acq_drain, acq_queue_push_start,
         camera_get_frame, camera_get_frame_aborts
  <2> QED BY <2>1, SelectedFrame
<1>4. CASE UNCHANGED vars
  BY <1>4, SelectedFrame DEF vars
<1>5. CASE cleanup_frames_dump \/ cleanup_frames_nothing \/ select_nothing
  <2>1. /\ UNCHANGED <<frame_acc_count, select_queue, acq_queue>>
        /\ givenBack = 0 /\ givenBack' \in 0 .. 1
    BY <1>5 DEF cleanup_frames_dump, cleanup_frames_nothing, select_nothing,
         givenBack, bit
  <2>2. ASSUME NEW k \in 1 .. Len(select_queue), NEW i \in 1 .. frame_acc_count,
               i >= MinSelected + 1 - select_queue[k].age - 0
        PROVE  i >= MinSelected + 1 - select_queue[k].age - givenBack'
    BY <1>1, <2>1, <2>2, Ages
  <2> QED BY <2>1, <2>2 DEF SelectedInWindow
<1>6. CASE cleanup_frames_release
  <2>1. /\ acq_queue' = Tail(acq_queue) /\ select_queue' = select_queue
        /\ frame_acc_count' = frame_acc_count - 1
        /\ givenBack = 0 /\ givenBack' = 1
    BY <1>6 DEF cleanup_frames_release, givenBack, bit
  <2>2. ASSUME NEW k \in 1 .. Len(select_queue)
        PROVE  /\ select_queue[k].age <= ConvertSlack
               /\ \E i \in 1 .. frame_acc_count' :
                    /\ acq_queue'[i] = select_queue[k].frame
                    /\ i >= MinSelected + 1 - select_queue[k].age - 1
    <3>1. select_queue[k].age \in Nat
      BY <2>2, Ages
    <3>2. PICK i \in 1 .. frame_acc_count :
            /\ acq_queue[i] = select_queue[k].frame
            /\ i >= MinSelected + 1 - select_queue[k].age - givenBack
      BY <2>2, Zenon DEF SelectedInWindow
    <3>3. select_queue[k].age <= ConvertSlack
      BY <2>2, Zenon DEF SelectedInWindow
    <3>4. i >= MinSelected + 1 - select_queue[k].age
      BY <2>1, <3>1, <3>2
    <3>5. i - 1 \in 1 .. frame_acc_count' /\ acq_queue'[i - 1] = acq_queue[i]
      BY <1>1, <2>1, <3>1, <3>2, <3>3, <3>4
    <3>6. i - 1 >= MinSelected + 1 - select_queue[k].age - 1
      BY <1>1, <3>1, <3>4
    <3> QED BY <3>2, <3>3, <3>5, <3>6
  <2> QED BY <2>1, <2>2 DEF SelectedInWindow
<1>7. CASE acq_queue_read_start
  <2>1. /\ acq_queue' = acq_queue
        /\ frame_acc_count' = frame_acc_count + 1
        /\ givenBack = 1 /\ givenBack' = 0
        /\ Len(select_queue') = Len(select_queue)
        /\ \A k \in 1 .. Len(select_queue) :
             /\ select_queue[k].age < ConvertSlack
             /\ select_queue'[k].frame = select_queue[k].frame
             /\ select_queue'[k].age = select_queue[k].age + 1
    BY <1>1, <1>7 DEF acq_queue_read_start, givenBack, bit
  <2>2. ASSUME NEW k \in 1 .. Len(select_queue)
        PROVE  /\ select_queue'[k].age <= ConvertSlack
               /\ \E i \in 1 .. frame_acc_count' :
                    /\ acq_queue'[i] = select_queue'[k].frame
                    /\ i >= MinSelected + 1 - select_queue'[k].age - 0
    <3>1. PICK i \in 1 .. frame_acc_count :
            /\ acq_queue[i] = select_queue[k].frame
            /\ i >= MinSelected + 1 - select_queue[k].age - 1
      BY <1>1, <2>1, <2>2 DEF SelectedInWindow
    <3>2. select_queue[k].age \in Nat
      BY <2>2, Ages
    <3> DEFINE age == select_queue[k].age
    <3>3. age < ConvertSlack /\ select_queue'[k].age = age + 1
      BY <2>1, <2>2, Zenon
    <3> HIDE DEF age
    <3>4. /\ age + 1 <= ConvertSlack
          /\ i \in 1 .. frame_acc_count'
          /\ i >= MinSelected + 1 - (age + 1) - 0
      <4>1. age \in Nat
        BY <3>2 DEF age
      <4>2. i >= MinSelected + 1 - age - 1
        BY <3>1, Zenon DEF age
      <4>3. ConvertSlack \in Nat /\ MinSelected \in Nat
        BY BoundAssumption
      <4> QED
        BY <1>1, <2>1, <3>3, <4>1, <4>2, <4>3
    <3>5. acq_queue'[i] = select_queue'[k].frame
      BY <2>1, <2>2, <3>1
    <3> QED BY <3>3, <3>4, <3>5
  <2> QED BY <2>1, <2>2 DEF SelectedInWindow
<1>8. CASE select_frame
  <2>1. PICK index \in MinSelected .. frame_acc_count - 2 :
          select_queue' = Append(select_queue,
                                 [frame |-> acq_queue[index + 1], age |-> 0])
    BY <1>8 DEF select_frame
  <2>2. /\ UNCHANGED <<acq_queue, frame_acc_count>>
        /\ givenBack = 0 /\ givenBack' = 0
    BY <1>8 DEF select_frame, givenBack, bit
  <2>3. index + 1 \in 1 .. frame_acc_count /\ acq_queue[index + 1] \in Frame
    BY <1>1, <2>1
  <2> DEFINE entry == [frame |-> acq_queue[index + 1], age |-> 0]
             n == Len(select_queue)
  <2>4. entry \in [frame : Frame, age : Nat]
    BY <2>3
  <2>5. /\ entry.age = 0 /\ entry.frame = acq_queue[index + 1]
    OBVIOUS
  <2> HIDE DEF entry
  <2>6. /\ Len(select_queue') = n + 1 /\ select_queue'[n + 1] = entry
        /\ \A k \in 1 .. n : select_queue'[k] = select_queue[k]
    BY <1>1, <2>1, <2>4 DEF entry
  <2>7. /\ entry.age <= ConvertSlack
        /\ index + 1 >= MinSelected + 1 - entry.age - 0
    BY <2>1, <2>5
  <2>8. ASSUME NEW k \in 1 .. n + 1
        PROVE  /\ select_queue'[k].age <= ConvertSlack
               /\ \E i \in 1 .. frame_acc_count :
                    /\ acq_queue[i] = select_queue'[k].frame
                    /\ i >= MinSelected + 1 - select_queue'[k].age - 0
    <3>1. CASE k = n + 1
      BY <2>3, <2>5, <2>6, <2>7, <3>1
    <3>2. CASE k # n + 1
      <4>1. k \in 1 .. n
        BY <1>1, <3>2
      <4> QED BY <2>2, <2>6, <4>1 DEF SelectedInWindow
    <3> QED BY <3>1, <3>2
  <2> QED BY <2>2, <2>6, <2>8 DEF SelectedInWindow
<1>9. CASE convert_run
  <2>1. /\ select_queue # <<>> /\ select_queue' = Tail(select_queue)
        /\ UNCHANGED <<acq_queue, frame_acc_count>>
        /\ givenBack' = givenBack
    BY <1>9 DEF convert_run, givenBack, bit
  <2>2. /\ Len(select_queue') = Len(select_queue) - 1
        /\ \A k \in 1 .. Len(select_queue') :
             /\ k + 1 \in 1 .. Len(select_queue)
             /\ select_queue'[k] = select_queue[k + 1]
    BY <1>1, <2>1
  <2> QED BY <2>1, <2>2 DEF SelectedInWindow
<1> QED
  BY <1>2, <1>3, <1>4, <1>5, <1>6, <1>7, <1>8, <1>9
     DEF Next, frame_acq_run, select_run

(* S3 converts from the device's buffer.  If it lags by fewer frames than     *)
(* tick_parser leaves before a frame it selects, the device cannot write to   *)
(* the buffer before S3 is done with it.                                     *)
THEOREM SelectedIsStable ==
  ConvertSlack < MinSelected => (Spec => []SelectedStable)
<1> SUFFICES ASSUME ConvertSlack < MinSelected
             PROVE  Spec => []SelectedStable
  OBVIOUS
<1>1. Init => SelectedInWindow
  BY DEF Init, SelectedInWindow
<1>2. CInv /\ CInv' /\ SelectedInWindow /\ [Next]_vars => SelectedInWindow'
  BY SelectedStep
<1>3. CInv /\ Places /\ SelectedInWindow => SelectedStable
  <2> SUFFICES ASSUME CInv, Places, SelectedInWindow,
                      NEW k \in 1 .. Len(select_queue)
               PROVE  select_queue[k].frame \notin owned \cup grabbed
    BY DEF SelectedStable
  <2>1. /\ acq_queue \in Seq(Frame) /\ Len(acq_queue) \in Nat
        /\ frame_acc_count \in Nat /\ frame_acc_count <= Len(acq_queue)
        /\ select_queue[k].age \in Nat
    BY Ages DEF CInv, TypeOK, Window, unread
  <2>2. PICK i \in 1 .. frame_acc_count :
          /\ acq_queue[i] = select_queue[k].frame
          /\ i >= MinSelected + 1 - select_queue[k].age - givenBack
          /\ select_queue[k].age <= ConvertSlack
    BY DEF SelectedInWindow
  <2>3. i \in 1 .. Len(acq_queue)
    BY <2>1, <2>2
  <2>4. acq_queue[i] \in Range(window)
    <3>1. CASE select_pc # "read_stop_dump"
      BY <2>1, <2>3, <3>1 DEF window, Range
    <3>2. CASE select_pc = "read_stop_dump"
      <4>1. givenBack = 0
        BY <3>2 DEF givenBack, bit
      <4>2. i >= 2
        BY <2>1, <2>2, <4>1
      <4>3. /\ i - 1 \in DOMAIN Tail(acq_queue)
            /\ Tail(acq_queue)[i - 1] = acq_queue[i]
        BY <2>1, <2>3, <4>2
      <4> QED BY <3>2, <4>3 DEF window, Range
    <3> QED BY <3>1, <3>2
  <2> QED BY <2>2, <2>4 DEF Places
<1> QED BY <1>1, <1>2, <1>3, CInvHolds, PlacesHold, PTL DEF Spec
===============================================================================
