------------------------------- MODULE TickParser -------------------------------
(***************************************************************************)
(* The frame selection of select.c (S2), one step per frame: after the      *)
(* statistics of the image differences are stable and the external clock    *)
(* has ticked SyncThreshold times at the expected interval, an internal     *)
(* clock that counts frames takes over.  One frame after each of its ticks  *)
(* tick_parser sends a frame from between the last two ticks to S3, and     *)
(* moves the internal clock by a frame when the detected ticks have voted    *)
(* for it AdjustmentInertia times.                                           *)
(*                                                                         *)
(* Whether a tick is detected in a frame is a parameter of the step: here    *)
(* it is arbitrary, in ClockDrift a drifting, jittering clock decides.       *)
(* Times are multiples of the acquisition interval, so that synchronize's    *)
(* test on floats, |delta / clock_tick_interval - 1| < 1/(2 s), is delta = s. *)
(***************************************************************************)
EXTENDS Integers

CONSTANTS
  SamplingResolution,  \* frames per internal tick
  MaxFrames,           \* max_frames: how many frames to select
  DiffBufferCount,     \* diff_buffer_max_count
  SyncThreshold,       \* sync_threshold
  AdjustmentInertia    \* adjustment_inertia

ASSUME SamplingAssumption == SamplingResolution \in Nat /\ SamplingResolution >= 3
ASSUME MaxFramesAssumption == MaxFrames \in Nat
(* update_img_diff sorts the buffer and takes sorted[diff_buffer_max_count-3]. *)
ASSUME ThresholdAssumption ==
  /\ DiffBufferCount \in Nat /\ DiffBufferCount >= 2
  /\ SyncThreshold \in Nat /\ SyncThreshold >= 2
  /\ AdjustmentInertia \in Nat \ {0}

VARIABLES
  status,              \* of select_run
  frame_acc_count,     \* frames in the window
  diff_count,          \* entries of diff_buffer
  sync_status,
  since_tick,          \* frame_time - last_tick_time, at most s + 1
  last_tick_index,     \* window index of the latest internal tick
  state,               \* tick_parser_state
  selected             \* how many frames were selected, and how many frames
                       \* ago the latest of them was acquired

syncVars == <<sync_status, since_tick>>
parserVars == <<last_tick_index, state, selected>>
vars == <<status, frame_acc_count, diff_count, syncVars, parserVars>>

(* select_get_frame_acc_count: one frame to select, one for further          *)
(* processing, two of headroom.                                              *)
max_frame_acc_count == SamplingResolution + 1 + 1 + 2

tick_count(index) == index \div SamplingResolution
phase(index) == index % SamplingResolution

tick_parser_init ==
  [frame_index |-> 0, measured_tick_count |-> 0,
   requested_drift_correction |-> 0, select_prefer_latest |-> 0,
   sleep_one_frame |-> FALSE]

Init ==
  /\ status = "running"
  /\ frame_acc_count = 0
  /\ diff_count = 0
  /\ sync_status = 0
  /\ since_tick = 0
  /\ last_tick_index = 0
  /\ state = [tick_parser_init EXCEPT !.measured_tick_count = -1]
  /\ selected = [count |-> 0, age |-> 0]

-------------------------------------------------------------------------------
(* Until the internal clock runs. *)

(* cleanup_frames, then the frame that was waited for.                       *)
accumulate ==
  frame_acc_count' =
    frame_acc_count
    - (IF frame_acc_count >= max_frame_acc_count THEN 1 ELSE 0) + 1

first_frame ==
  /\ frame_acc_count' < 2
  /\ UNCHANGED <<status, diff_count, syncVars, parserVars>>

update_img_diff_collects ==
  /\ frame_acc_count' >= 2
  /\ diff_count + 1 < DiffBufferCount
  /\ diff_count' = diff_count + 1
  /\ UNCHANGED <<status, syncVars, parserVars>>

update_img_diff_stable ==
  /\ frame_acc_count' >= 2
  /\ diff_count + 1 >= DiffBufferCount
  /\ diff_count' = DiffBufferCount

elapsed == IF since_tick > SamplingResolution THEN since_tick ELSE since_tick + 1

(* A plausible bug: a regular clock is never in sync.                         *)
in_sync_off_by_one == elapsed = SamplingResolution - 1

in_sync == elapsed = SamplingResolution

(* A tick out of sync restarts the count: the next one is then the first.    *)
synchronize(tick_detected) ==
  /\ sync_status < SyncThreshold
  /\ \/ /\ ~tick_detected
        /\ since_tick' = elapsed
        /\ UNCHANGED <<sync_status, parserVars>>
     \/ /\ tick_detected /\ (sync_status = 0 \/ in_sync)
        /\ sync_status' = sync_status + 1
        /\ since_tick' = 0
        /\ \/ /\ sync_status' < SyncThreshold
              /\ UNCHANGED parserVars
           \/ /\ sync_status' = SyncThreshold
              /\ state' = tick_parser_init
              /\ last_tick_index' = frame_acc_count' - 1 - 1
              /\ UNCHANGED selected
     \/ /\ tick_detected /\ sync_status > 0 /\ ~in_sync
        /\ sync_status' = 0
        /\ since_tick' = 0
        /\ UNCHANGED parserVars
  /\ UNCHANGED status

-------------------------------------------------------------------------------
(* tick_parser *)

(* Step 1: what a detected tick says about the internal clock.               *)
(* (A plausible bug: only early ticks vote.)                                  *)
vote_early_only(s) ==
  IF /\ s.measured_tick_count = tick_count(s.frame_index)
     /\ phase(s.frame_index) = SamplingResolution - 1
  THEN -1 ELSE 0

vote(s) ==
  LET ticks == tick_count(s.frame_index)
      requested == s.requested_drift_correction
  IN CASE s.measured_tick_count = ticks - 1 /\ phase(s.frame_index) = 0 ->
            (IF requested < 0 THEN 1 ELSE IF requested > 0 THEN -1 ELSE 0)
       [] s.measured_tick_count = ticks - 1 /\ phase(s.frame_index) = 1 -> 1
       [] /\ s.measured_tick_count = ticks
          /\ phase(s.frame_index) = SamplingResolution - 1 -> -1
       [] OTHER -> 0

is_late(s) ==
  /\ s.measured_tick_count = tick_count(s.frame_index) - 1
  /\ phase(s.frame_index) = 1

register_tick(s, tick_detected) ==
  IF tick_detected
  THEN [s EXCEPT !.measured_tick_count = @ + 1,
                 !.requested_drift_correction = @ + vote(s),
                 !.select_prefer_latest = IF is_late(s) THEN 1 ELSE @]
  ELSE s

abs(x) == IF x < 0 THEN -x ELSE x

even(s) == s.measured_tick_count = tick_count(s.frame_index)

(* Plausible bugs of the adjustment: the repeated phase is not skipped, the   *)
(* clock is moved the other way.                                             *)
adjust_no_sleep(s) ==
  IF ~even(s)
  THEN [s EXCEPT !.measured_tick_count = tick_count(s.frame_index),
                 !.requested_drift_correction = 0]
  ELSE IF abs(s.requested_drift_correction) < AdjustmentInertia THEN s
  ELSE [s EXCEPT !.frame_index =
                   @ + (IF s.requested_drift_correction < 0 THEN 1 ELSE -1),
                 !.requested_drift_correction = 0]

adjust_other_way(s) ==
  IF ~even(s)
  THEN [s EXCEPT !.measured_tick_count = tick_count(s.frame_index),
                 !.requested_drift_correction = 0]
  ELSE IF abs(s.requested_drift_correction) < AdjustmentInertia THEN s
  ELSE [s EXCEPT !.frame_index =
                   @ + (IF s.requested_drift_correction > 0 THEN 1 ELSE -1),
                 !.sleep_one_frame = s.requested_drift_correction < 0,
                 !.requested_drift_correction = 0]

(* Step 2: the stock taken one frame after a tick.                           *)
adjust(s) ==
  IF ~even(s)
  THEN [s EXCEPT !.measured_tick_count = tick_count(s.frame_index),
                 !.requested_drift_correction = 0]
  ELSE IF abs(s.requested_drift_correction) < AdjustmentInertia
  THEN s
  ELSE [s EXCEPT !.frame_index =
                   @ + (IF s.requested_drift_correction < 0 THEN 1 ELSE -1),
                 !.sleep_one_frame = s.requested_drift_correction > 0,
                 !.requested_drift_correction = 0]

(* A plausible bug: only the newer end is halved.                            *)
selected_frame_index_precedence(s, acc_count) ==
  last_tick_index + (acc_count - 2) \div 2
  + (IF even(s) /\ s.requested_drift_correction # 0
     THEN s.select_prefer_latest ELSE 0)

selected_frame_index(s, acc_count) ==
  (last_tick_index + acc_count - 2) \div 2
  + (IF even(s) /\ s.requested_drift_correction # 0
     THEN s.select_prefer_latest ELSE 0)

(* select_queue_push_start, _end.                                            *)
push_selected(index) ==
  selected' = [count |-> selected.count + 1, age |-> frame_acc_count' - 1 - index]

no_selection ==
  selected' = [selected EXCEPT !.age = IF selected.count > 0 THEN @ + 1 ELSE 0]

tick_parser_between(s) ==
  /\ phase(s.frame_index) # 1
  /\ state' = s
  /\ last_tick_index' = last_tick_index - 1
  /\ no_selection
  /\ UNCHANGED status

tick_parser_sleeps(s) ==
  /\ phase(s.frame_index) = 1
  /\ s.sleep_one_frame
  /\ state' = [s EXCEPT !.sleep_one_frame = FALSE]
  /\ last_tick_index' = last_tick_index - 1
  /\ no_selection
  /\ UNCHANGED status

takes_stock(s) == phase(s.frame_index) = 1 /\ ~s.sleep_one_frame

tick_parser_finishes(s) ==
  /\ takes_stock(s)
  /\ tick_count(s.frame_index) > MaxFrames
  /\ state' = adjust(s)
  /\ status' = "finished"
  /\ no_selection
  /\ UNCHANGED last_tick_index

tick_parser_tick_0(s) ==
  /\ takes_stock(s)
  /\ tick_count(s.frame_index) = 0
  /\ state' = [adjust(s) EXCEPT !.select_prefer_latest = 0]
  /\ last_tick_index' = last_tick_index - 1
  /\ no_selection
  /\ UNCHANGED status

(* The assertions reject an index that is not in the window.                 *)
index_allowed(index) == 0 <= index /\ index < frame_acc_count' - 1

(* A plausible bug: the latest tick is not remembered.                       *)
tick_parser_selects_stale_tick(s) ==
  LET index == selected_frame_index(s, frame_acc_count') IN
  /\ takes_stock(s)
  /\ tick_count(s.frame_index) \in 1 .. MaxFrames
  /\ IF index_allowed(index)
     THEN push_selected(index) /\ UNCHANGED status
     ELSE no_selection /\ status' = "failed"
  /\ state' = [adjust(s) EXCEPT !.select_prefer_latest = 0]
  /\ last_tick_index' = last_tick_index - 1

(* The frame is sent to S3; after a failed assertion nothing is looked at.   *)
tick_parser_selects(s) ==
  LET index == selected_frame_index(s, frame_acc_count') IN
  /\ takes_stock(s)
  /\ tick_count(s.frame_index) \in 1 .. MaxFrames
  /\ IF index_allowed(index)
     THEN push_selected(index) /\ UNCHANGED status
     ELSE no_selection /\ status' = "failed"
  /\ state' = [adjust(s) EXCEPT !.select_prefer_latest = 0]
  /\ last_tick_index' = frame_acc_count' - 2 - 1

tick_parser(tick_detected) ==
  LET s == register_tick([state EXCEPT !.frame_index = @ + 1], tick_detected) IN
  /\ sync_status >= SyncThreshold
  /\ \/ tick_parser_between(s)
     \/ tick_parser_sleeps(s)
     \/ tick_parser_finishes(s)
     \/ tick_parser_tick_0(s)
     \/ tick_parser_selects(s)
  /\ UNCHANGED syncVars

-------------------------------------------------------------------------------
select_run(tick_detected) ==
  /\ status = "running"
  /\ accumulate
  /\ \/ first_frame
     \/ update_img_diff_collects
     \/ /\ update_img_diff_stable
        /\ synchronize(tick_detected) \/ tick_parser(tick_detected)

Terminated == status # "running" /\ UNCHANGED vars

Next == (\E tick_detected \in BOOLEAN : select_run(tick_detected)) \/ Terminated

Spec == Init /\ [][Next]_vars

-------------------------------------------------------------------------------
(* Properties. *)

Synchronized == sync_status = SyncThreshold

(* select.c:608-609: the frame tick_parser selects is in the window.         *)
AssertionsHold == status # "failed"

(* However the detection errs and however often the internal clock is moved  *)
(* by a frame, S3 gets one frame per internal tick: no tick is skipped, none *)
(* is served twice, and the run ends with max_frames frames.                 *)
OneSelectionPerTick ==
  /\ status = "running" /\ Synchronized =>
       selected.count =
         IF state.sleep_one_frame \/ state.frame_index = 0
         THEN tick_count(state.frame_index)
         ELSE tick_count(state.frame_index - 1)
  /\ status = "finished" => selected.count = MaxFrames

(* A frame is selected from a full window, after the previous internal tick  *)
(* and not after the latest, and at least (s + 3) \div 2 frames are dumped    *)
(* before it: what FrameCycle needs to know of tick_parser.                  *)
SelectedHasHeadroom ==
  [][selected'.count > selected.count =>
       LET index == frame_acc_count' - 1 - selected'.age IN
       /\ frame_acc_count' = max_frame_acc_count
       /\ index > last_tick_index
       /\ index \in (SamplingResolution + 3) \div 2 .. frame_acc_count' - 2]_vars
===============================================================================
