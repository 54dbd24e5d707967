------------------------------- MODULE ClockDrift -------------------------------
(***************************************************************************)
(* TickParser composed with the clock in front of the camera.  The clock    *)
(* ticks at an interval that is off by a fixed Drift from                     *)
(* SamplingResolution acquisition intervals, in units of 1 / SubSamples of   *)
(* an acquisition interval; frames are acquired at the interval, exactly or  *)
(* give or take MaxJitter.  A tick is detected in the first frame that shows *)
(* it.                                                                       *)
(***************************************************************************)
EXTENDS TickParser, SequencesExt

CONSTANTS SubSamples, MaxDrift, MaxJitter

ASSUME SubSamplesAssumption == SubSamples \in Nat \ {0}
ASSUME DriftAssumption == MaxDrift \in Nat /\ MaxJitter \in Nat

VARIABLES
  drift,          \* of this clock
  jitter,         \* of this camera
  since_shown,    \* since the latest tick that was shown, in sub-samples
  window_ticks,   \* the ticks shown so far, for every frame of the window,
                  \* and whether the frame is the first that shows one
  shown           \* the ticks shown by the latest selected frame

clockVars == <<drift, jitter, since_shown, window_ticks, shown>>

tick_interval == SubSamples * SamplingResolution + drift

ClockInit ==
  /\ Init
  /\ drift \in -MaxDrift .. MaxDrift
  /\ jitter \in {0, MaxJitter}
  /\ since_shown \in 0 .. tick_interval - 1
  /\ window_ticks = <<>>
  /\ shown = 0

(* Seconds are counted from the end of the synchronization.                  *)
second_shown(tick) ==
  IF sync_status < SyncThreshold THEN 0
  ELSE Last(window_ticks).second + (IF tick THEN 1 ELSE 0)

show(tick) ==
  window_ticks' =
    LET kept == IF frame_acc_count >= max_frame_acc_count
                THEN Tail(window_ticks) ELSE window_ticks
    IN Append(kept, [second |-> second_shown(tick), dirty |-> tick])

selected_entry == window_ticks'[frame_acc_count' - selected'.age]

acquire(deviation) ==
  LET now == since_shown + SubSamples
      tick == now + deviation >= tick_interval
  IN /\ select_run(tick)
     /\ since_shown' = IF tick THEN now - tick_interval ELSE now
     /\ show(tick)
     /\ shown' = IF selected'.count > selected.count
                 THEN selected_entry.second ELSE shown
     /\ UNCHANGED <<drift, jitter>>

ClockNext ==
  \/ \E deviation \in -jitter .. jitter : acquire(deviation)
  \/ Terminated /\ UNCHANGED clockVars

clockAll == <<vars, clockVars>>

(* S1 goes on delivering frames.                                             *)
ClockSpec == ClockInit /\ [][ClockNext]_clockAll /\ WF_clockAll(ClockNext)

-------------------------------------------------------------------------------
(* Properties. *)

(* The images S3 gets show consecutive seconds: none twice, none left out.   *)
OneSelectionPerSecond ==
  [][selected'.count > selected.count /\ selected.count > 0 =>
       shown' = shown + 1]_clockAll

(* No selected frame is one in which the clock's hand moves.                 *)
SelectedIsClean ==
  [][selected'.count > selected.count => ~selected_entry.dirty]_clockAll

(* The detected ticks keep up with the internal ones: stock is never taken   *)
(* with a superfluous or a missing tick, so that no warning is logged and no *)
(* vote is lost.                                                             *)
InternalClockFollows ==
  [][Synchronized /\ phase(state.frame_index + 1) = 1 /\ ~state.sleep_one_frame =>
       state.measured_tick_count + (IF Last(window_ticks').dirty THEN 1 ELSE 0)
         = tick_count(state.frame_index + 1)]_clockAll

(* With a camera that does not jitter the parser synchronizes, whatever the  *)
(* drift, and delivers all max_frames.                                       *)
SelectsAllFrames == jitter = 0 ~> status = "finished"
===============================================================================
