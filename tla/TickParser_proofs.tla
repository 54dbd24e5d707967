----------------------------- MODULE TickParser_proofs -----------------------------
(***************************************************************************)
(* Proofs about tick_parser of select.c, for every sampling resolution of at *)
(* least three frames, every number of frames to select and whatever ticks   *)
(* are detected.                                                             *)
(*                                                                         *)
(* What has to be known is where the latest internal tick lies in the window *)
(* when a frame is selected: it moves towards the front by one each frame,   *)
(* and the internal clock may have been moved by a frame in either direction *)
(* since that tick was put at the same place.  LatestTick is the bound.      *)
(*                                                                         *)
(* The second half is about ClockDrift: when the jitter and the drift are    *)
(* Precise enough, the votes keep the internal clock in step with the one in *)
(* front of the camera.  Followed bounds how late a detected tick can be by   *)
(* the votes that are pending, and Ticked says how many frames ago the last   *)
(* two ticks were detected, between which the selected frame lies.           *)
(***************************************************************************)
EXTENDS ClockDrift, ModArith

State == [frame_index : Nat, measured_tick_count : Int,
          requested_drift_correction : Int, select_prefer_latest : {0, 1},
          sleep_one_frame : BOOLEAN]

Typed ==
  /\ status \in {"running", "finished", "failed"}
  /\ frame_acc_count \in 0 .. max_frame_acc_count
  /\ diff_count \in Nat
  /\ sync_status \in 0 .. SyncThreshold
  /\ since_tick \in 0 .. SamplingResolution + 1
  /\ last_tick_index \in Int
  /\ state \in State
  /\ selected \in [count : Nat, age : Int]

(* The window grows with every frame until it is full.                       *)
Filling ==
  /\ diff_count > 0 => frame_acc_count >= 2
  /\ sync_status > 0 => diff_count = DiffBufferCount
  /\ sync_status \in 1 .. SyncThreshold - 1 =>
       \/ frame_acc_count = max_frame_acc_count
       \/ frame_acc_count >= 3 + since_tick

(* Nothing is selected before the internal clock runs.                        *)
NotYet == ~Synchronized => status = "running" /\ selected.count = 0

(* Frames of the internal clock since it was one frame past its tick.        *)
since_stock(index) ==
  IF phase(index) = 0 THEN SamplingResolution - 1 ELSE phase(index) - 1

(* Where the latest internal tick is in the window: where tick_parser has put *)
(* it, less a frame for each frame since, give or take the one by which the  *)
(* internal clock was moved.                                                 *)
LatestTick ==
  Synchronized /\ status = "running" =>
    /\ state.frame_index = 0 =>
         /\ ~state.sleep_one_frame
         /\ state.measured_tick_count = 0
         /\ state.requested_drift_correction = 0
         /\ frame_acc_count >= SamplingResolution + 3
         /\ last_tick_index = frame_acc_count - 2
    /\ state.frame_index > 0 => frame_acc_count = max_frame_acc_count
    /\ state.frame_index > 0 /\ ~state.sleep_one_frame =>
         last_tick_index + since_stock(state.frame_index)
           \in SamplingResolution .. SamplingResolution + 2
    /\ state.sleep_one_frame =>
         /\ phase(state.frame_index) = 0
         /\ last_tick_index = SamplingResolution + 1

IInv ==
  /\ Typed /\ Filling /\ NotYet /\ LatestTick
  /\ AssertionsHold /\ OneSelectionPerTick
  /\ status = "running" => selected.count <= MaxFrames

-------------------------------------------------------------------------------
(* The tick and the phase of a frame of the internal clock. *)

LEMMA PhaseRange ==
  ASSUME NEW f \in Nat
  PROVE  /\ phase(f) \in 0 .. SamplingResolution - 1
         /\ tick_count(f) \in Nat
         /\ f = tick_count(f) * SamplingResolution + phase(f)
<1>1. SamplingResolution \in Nat \ {0}
  BY SamplingAssumption
<1> QED BY <1>1, ModRange, DivModExists DEF phase, tick_count

LEMMA NextFrame ==
  ASSUME NEW f \in Nat
  PROVE  \/ /\ phase(f) = SamplingResolution - 1
            /\ phase(f + 1) = 0
            /\ tick_count(f + 1) = tick_count(f) + 1
         \/ /\ phase(f) < SamplingResolution - 1
            /\ phase(f + 1) = phase(f) + 1
            /\ tick_count(f + 1) = tick_count(f)
<1> DEFINE n == SamplingResolution
           k == tick_count(f)
           p == phase(f)
<1>1. n \in Nat \ {0} /\ k \in Nat /\ p \in 0 .. n - 1 /\ f = k * n + p
  BY PhaseRange, SamplingAssumption
<1>2. CASE p = n - 1
  <2>1. f + 1 = (k + 1) * n + 0
    BY <1>1, <1>2
  <2>2. /\ ((k + 1) * n + 0) % n = 0
        /\ ((k + 1) * n + 0) \div n = k + 1
    <3>1. k + 1 \in Nat /\ 0 \in 0 .. n - 1
      BY <1>1
    <3> HIDE DEF n, k, p
    <3> QED BY <1>1, <3>1, DivModUnique
  <2> QED BY <1>2, <2>1, <2>2 DEF phase, tick_count
<1>3. CASE p < n - 1
  <2>1. f + 1 = k * n + (p + 1)
    BY <1>1
  <2>2. /\ (k * n + (p + 1)) % n = p + 1
        /\ (k * n + (p + 1)) \div n = k
    <3>1. p + 1 \in 0 .. n - 1
      BY <1>1, <1>3
    <3> HIDE DEF n, k, p
    <3> QED BY <1>1, <3>1, DivModUnique
  <2> QED BY <1>3, <2>1, <2>2 DEF phase, tick_count
<1> QED BY <1>1, <1>2, <1>3

LEMMA FirstFrames ==
  /\ phase(0) = 0 /\ tick_count(0) = 0
  /\ phase(1) = 1 /\ tick_count(1) = 0
<1>1. /\ 0 = tick_count(0) * SamplingResolution + phase(0)
      /\ tick_count(0) \in Nat /\ phase(0) \in Nat
  BY PhaseRange
<1>2. tick_count(0) * SamplingResolution \in Nat
      /\ (tick_count(0) > 0 => tick_count(0) * SamplingResolution > 0)
  BY <1>1, SamplingAssumption
<1>3. phase(0) = 0 /\ tick_count(0) = 0
  BY <1>1, <1>2
<1> QED BY <1>3, NextFrame, SamplingAssumption

(* A frame of tick 0 is at its phase.                                        *)
LEMMA TickZero ==
  ASSUME NEW f \in Nat, tick_count(f) = 0
  PROVE  f = phase(f)
  BY PhaseRange, SamplingAssumption

LEMMA Registered ==
  ASSUME NEW s \in State, NEW tick_detected \in BOOLEAN
  PROVE  /\ register_tick(s, tick_detected) \in State
         /\ register_tick(s, tick_detected).frame_index = s.frame_index
         /\ register_tick(s, tick_detected).sleep_one_frame = s.sleep_one_frame
<1>1. CASE ~tick_detected
  BY <1>1 DEF register_tick
<1>2. CASE tick_detected
  <2> DEFINE measured == s.measured_tick_count + 1
             requested == s.requested_drift_correction + vote(s)
             latest == IF is_late(s) THEN 1 ELSE s.select_prefer_latest
  <2>1. measured \in Int /\ requested \in Int /\ latest \in {0, 1}
    <3>1. vote(s) \in Int
      BY SamplingAssumption DEF vote, State
    <3> QED BY <3>1 DEF State
  <2>2. register_tick(s, tick_detected) =
          [s EXCEPT !.measured_tick_count = measured,
                    !.requested_drift_correction = requested,
                    !.select_prefer_latest = latest]
    BY <1>2 DEF register_tick
  <2> HIDE DEF measured, requested, latest
  <2> QED BY <2>1, <2>2 DEF State
<1> QED BY <1>1, <1>2

(* The internal clock is moved by at most a frame, and it repeats a phase     *)
(* exactly if it was moved back.                                             *)
LEMMA Adjusted ==
  ASSUME NEW s \in State, s.frame_index > 0, ~s.sleep_one_frame
  PROVE  /\ adjust(s) \in State
         /\ adjust(s).frame_index - s.frame_index \in {-1, 0, 1}
         /\ adjust(s).sleep_one_frame <=> adjust(s).frame_index = s.frame_index - 1
         /\ ~even(s) \/ s.requested_drift_correction = 0 =>
              adjust(s).frame_index = s.frame_index
<1> DEFINE r == s.requested_drift_correction
           ticks == tick_count(s.frame_index)
           index == s.frame_index + (IF r < 0 THEN 1 ELSE -1)
           back == r > 0
           zero == 0
<1>1. zero \in Int /\ ticks \in Int /\ r \in Int /\ s.frame_index \in Nat
  BY PhaseRange DEF State
<1>2. CASE ~even(s)
  <2>1. adjust(s) = [s EXCEPT !.measured_tick_count = ticks,
                              !.requested_drift_correction = zero]
    BY <1>2 DEF adjust
  <2>2. /\ adjust(s) \in State
        /\ adjust(s).frame_index = s.frame_index
        /\ adjust(s).sleep_one_frame = s.sleep_one_frame
    <3> HIDE DEF zero, ticks
    <3> QED BY <1>1, <2>1 DEF State
  <2> QED BY <1>1, <2>2 DEF State
<1>3. CASE even(s) /\ abs(r) < AdjustmentInertia
  BY <1>3 DEF adjust, State
<1>4. CASE even(s) /\ ~(abs(r) < AdjustmentInertia)
  <2>1. r # 0
    BY <1>1, <1>4, ThresholdAssumption DEF abs
  <2>2. zero \in Int /\ index \in Nat /\ back \in BOOLEAN
    BY <1>1, <2>1
  <2>5. /\ index = s.frame_index + 1 \/ index = s.frame_index - 1
        /\ back <=> index = s.frame_index - 1
    BY <1>1, <2>1
  <2>3. adjust(s) = [s EXCEPT !.frame_index = index, !.sleep_one_frame = back,
                              !.requested_drift_correction = zero]
    BY <1>4 DEF adjust
  <2>4. /\ adjust(s) \in State
        /\ adjust(s).frame_index = index
        /\ adjust(s).sleep_one_frame = back
    <3> HIDE DEF zero, index, back
    <3> QED BY <2>2, <2>3 DEF State
  <2> HIDE DEF index, back
  <2> QED BY <1>1, <1>4, <2>1, <2>2, <2>4, <2>5
<1> QED BY <1>2, <1>3, <1>4

(* Before it has served a tick the internal clock is not moved.              *)
LEMMA NotMovedAtStart ==
  ASSUME NEW s \in State, NEW tick_detected \in BOOLEAN,
         s.frame_index = 1, s.measured_tick_count = 0,
         s.requested_drift_correction = 0, ~s.sleep_one_frame
  PROVE  LET r == register_tick(s, tick_detected) IN
         /\ adjust(r).frame_index = 1
         /\ ~adjust(r).sleep_one_frame
<1> DEFINE r == register_tick(s, tick_detected)
<1>1. r \in State /\ r.frame_index = 1 /\ ~r.sleep_one_frame
  BY Registered
<1>2. r.requested_drift_correction = 0
  <2>1. vote(s) = 0
    BY FirstFrames, SamplingAssumption DEF vote
  <2> QED BY <2>1 DEF register_tick, State
<1> HIDE DEF r
<1>3. adjust(r).frame_index = 1 /\ ~adjust(r).sleep_one_frame
  BY <1>1, <1>2, Adjusted
<1> QED BY <1>3 DEF r

(* Between two stocks the clock and the window advance together.             *)
LEMMA SinceStock ==
  ASSUME NEW f \in Nat, phase(f + 1) # 1
  PROVE  since_stock(f + 1) = since_stock(f) + 1 /\ phase(f) # 0
<1>1. phase(f) \in 0 .. SamplingResolution - 1
  BY PhaseRange
<1>2. CASE phase(f) = SamplingResolution - 1
  <2>1. phase(f + 1) = 0
    BY <1>1, <1>2, NextFrame
  <2> QED BY <1>1, <1>2, <2>1, SamplingAssumption DEF since_stock
<1>3. CASE phase(f) < SamplingResolution - 1
  <2>1. phase(f + 1) = phase(f) + 1
    BY <1>1, <1>3, NextFrame
  <2> QED BY <1>1, <1>3, <2>1, SamplingAssumption DEF since_stock
<1> QED BY <1>1, <1>2, <1>3, SamplingAssumption

-------------------------------------------------------------------------------
LEMMA Accumulates ==
  ASSUME Typed, accumulate
  PROVE  frame_acc_count' = IF frame_acc_count < max_frame_acc_count
                            THEN frame_acc_count + 1 ELSE max_frame_acc_count
  BY SamplingAssumption DEF Typed, accumulate, max_frame_acc_count

LEMMA Initially == Init => IInv
<1> SUFFICES ASSUME Init PROVE IInv
  OBVIOUS
<1>1. state \in State
  <2>1. tick_parser_init \in State
    BY DEF tick_parser_init, State
  <2> QED BY <2>1 DEF Init, State
<1> QED
  BY <1>1, SamplingAssumption, ThresholdAssumption, MaxFramesAssumption
     DEF Init, IInv, Typed, Filling, NotYet, LatestTick, AssertionsHold,
         OneSelectionPerTick, Synchronized, max_frame_acc_count

LEMMA FirstFrameStep ==
  ASSUME IInv, status = "running", accumulate, first_frame
  PROVE  IInv'
<1>1. frame_acc_count = 0 /\ frame_acc_count' = 1
  BY Accumulates, SamplingAssumption
     DEF IInv, Typed, first_frame, max_frame_acc_count
<1>2. ~Synchronized /\ sync_status = 0
  BY <1>1, SamplingAssumption, ThresholdAssumption
     DEF IInv, Typed, Filling, LatestTick, Synchronized, max_frame_acc_count, State
<1> QED
  BY <1>1, <1>2, SamplingAssumption, ThresholdAssumption
     DEF IInv, Typed, Filling, NotYet, LatestTick, AssertionsHold,
         OneSelectionPerTick, Synchronized, max_frame_acc_count, first_frame,
         syncVars, parserVars

LEMMA CollectsStep ==
  ASSUME IInv, status = "running", accumulate, update_img_diff_collects
  PROVE  IInv'
<1>1. sync_status = 0 /\ ~Synchronized
  BY ThresholdAssumption
     DEF IInv, Typed, Filling, Synchronized, update_img_diff_collects
<1> QED
  BY <1>1, Accumulates, SamplingAssumption, ThresholdAssumption
     DEF IInv, Typed, Filling, NotYet, LatestTick, AssertionsHold,
         OneSelectionPerTick, Synchronized, max_frame_acc_count,
         update_img_diff_collects, syncVars, parserVars

LEMMA SynchronizeStep ==
  ASSUME IInv, status = "running", accumulate, update_img_diff_stable,
         NEW tick_detected \in BOOLEAN, synchronize(tick_detected)
  PROVE  IInv'
<1> USE SamplingAssumption, ThresholdAssumption
<1> DEFINE max == max_frame_acc_count
<1>1. /\ sync_status < SyncThreshold /\ ~Synchronized
      /\ selected.count = 0 /\ status' = "running" /\ selected' = selected
  BY DEF IInv, Typed, NotYet, Synchronized, synchronize, parserVars
<1>2. /\ frame_acc_count' \in 3 .. max
      /\ \/ frame_acc_count' = max
         \/ frame_acc_count' = frame_acc_count + 1
  <2>1. frame_acc_count >= 2
    BY DEF IInv, Typed, Filling, update_img_diff_stable
  <2> QED BY <2>1, Accumulates DEF IInv, Typed, max_frame_acc_count
<1>3. /\ elapsed \in 1 .. SamplingResolution + 1
      /\ elapsed <= since_tick + 1
      /\ in_sync => since_tick = SamplingResolution - 1
  BY DEF IInv, Typed, elapsed, in_sync
<1>4. CASE /\ ~tick_detected
           /\ since_tick' = elapsed
           /\ UNCHANGED <<sync_status, parserVars>>
  <2>1. Typed'
    BY <1>1, <1>2, <1>3, <1>4
       DEF IInv, Typed, update_img_diff_stable, parserVars, max_frame_acc_count
  <2>2. Filling'
    BY <1>1, <1>2, <1>3, <1>4
       DEF IInv, Typed, Filling, update_img_diff_stable, max_frame_acc_count
  <2>3. ~Synchronized'
    BY <1>1, <1>4 DEF Synchronized
  <2>4. NotYet' /\ LatestTick' /\ AssertionsHold' /\ OneSelectionPerTick'
        /\ selected'.count <= MaxFrames
    BY <1>1, <2>3, MaxFramesAssumption
       DEF NotYet, LatestTick, AssertionsHold, OneSelectionPerTick
  <2> QED BY <2>1, <2>2, <2>4 DEF IInv
<1>5. CASE tick_detected /\ sync_status > 0 /\ ~in_sync
  <2>1. Typed'
    BY <1>1, <1>2, <1>3, <1>5
       DEF IInv, Typed, synchronize, update_img_diff_stable, parserVars, max_frame_acc_count
  <2>2. Filling'
    BY <1>1, <1>2, <1>3, <1>5
       DEF IInv, Typed, Filling, synchronize, update_img_diff_stable, max_frame_acc_count
  <2>3. ~Synchronized'
    BY <1>1, <1>5, ThresholdAssumption DEF Synchronized, synchronize
  <2>4. NotYet' /\ LatestTick' /\ AssertionsHold' /\ OneSelectionPerTick'
        /\ selected'.count <= MaxFrames
    BY <1>1, <2>3, MaxFramesAssumption
       DEF NotYet, LatestTick, AssertionsHold, OneSelectionPerTick
  <2> QED BY <2>1, <2>2, <2>4 DEF IInv
<1>6. CASE /\ tick_detected /\ (sync_status = 0 \/ in_sync)
           /\ sync_status' = sync_status + 1 /\ since_tick' = 0
           /\ sync_status' < SyncThreshold
           /\ UNCHANGED parserVars
  <2>1. Typed'
    BY <1>1, <1>2, <1>3, <1>6
       DEF IInv, Typed, update_img_diff_stable, parserVars, max_frame_acc_count
  <2>2. Filling'
    BY <1>1, <1>2, <1>3, <1>6
       DEF IInv, Typed, Filling, update_img_diff_stable, max_frame_acc_count
  <2>3. ~Synchronized'
    BY <1>1, <1>6 DEF Synchronized
  <2>4. NotYet' /\ LatestTick' /\ AssertionsHold' /\ OneSelectionPerTick'
        /\ selected'.count <= MaxFrames
    BY <1>1, <2>3, MaxFramesAssumption
       DEF NotYet, LatestTick, AssertionsHold, OneSelectionPerTick
  <2> QED BY <2>1, <2>2, <2>4 DEF IInv
<1>7. CASE /\ tick_detected /\ (sync_status = 0 \/ in_sync)
           /\ sync_status' = sync_status + 1 /\ since_tick' = 0
           /\ sync_status' = SyncThreshold
           /\ state' = tick_parser_init
           /\ last_tick_index' = frame_acc_count' - 1 - 1
  <2>1. since_tick = SamplingResolution - 1
    BY <1>1, <1>3, <1>7 DEF IInv, Typed
  <2>2. frame_acc_count' >= SamplingResolution + 3
    BY <1>1, <1>2, <1>7, <2>1 DEF IInv, Typed, Filling, max_frame_acc_count
  <2>3. /\ state' \in State
        /\ state'.frame_index = 0 /\ ~state'.sleep_one_frame
        /\ state'.measured_tick_count = 0
        /\ state'.requested_drift_correction = 0
    BY <1>7 DEF tick_parser_init, State
  <2>4. tick_count(state'.frame_index) = 0
    BY <2>3, FirstFrames
  <2>5. Typed' /\ Filling'
    BY <1>1, <1>2, <1>7, <2>3
       DEF IInv, Typed, Filling, update_img_diff_stable, max_frame_acc_count
  <2>7. NotYet'
    BY <1>7 DEF NotYet, Synchronized
  <2>8. LatestTick'
    <3>1. /\ last_tick_index' = frame_acc_count' - 2
          /\ ~(state'.frame_index > 0)
      BY <1>2, <1>7, <2>3
    <3> QED BY <2>2, <2>3, <3>1 DEF LatestTick
  <2>6. AssertionsHold' /\ OneSelectionPerTick' /\ selected'.count <= MaxFrames
    BY <1>1, <2>3, <2>4, MaxFramesAssumption
       DEF AssertionsHold, OneSelectionPerTick
  <2> QED BY <2>5, <2>6, <2>7, <2>8 DEF IInv
<1> QED
  BY <1>4, <1>5, <1>6, <1>7 DEF synchronize

-------------------------------------------------------------------------------
(* The internal clock runs: the window is full, and the latest tick is at one *)
(* of three places when stock is taken.                                      *)
LEMMA Window ==
  ASSUME IInv, Synchronized, status = "running", accumulate
  PROVE  /\ frame_acc_count' = max_frame_acc_count
         /\ \/ /\ state.frame_index = 0 /\ ~state.sleep_one_frame
               /\ last_tick_index \in SamplingResolution + 1
                                      .. SamplingResolution + 2
            \/ state.frame_index > 0
  BY Accumulates, SamplingAssumption
     DEF IInv, Typed, LatestTick, Synchronized, max_frame_acc_count, State

(* When stock is taken: the tick is over, it is the next one to be served,    *)
(* and the latest tick is one of the first three frames but one.             *)
LEMMA Stock ==
  ASSUME IInv, Synchronized, status = "running",
         phase(state.frame_index + 1) = 1, ~state.sleep_one_frame
  PROVE  /\ phase(state.frame_index) = 0
         /\ tick_count(state.frame_index + 1) = tick_count(state.frame_index)
         /\ \/ state.frame_index = 0 /\ selected.count = 0
            \/ /\ state.frame_index > 0
               /\ selected.count = tick_count(state.frame_index) - 1
               /\ last_tick_index \in 1 .. 3
<1> DEFINE n == state.frame_index
<1>1. n \in Nat
  BY DEF IInv, Typed, State
<1>2. phase(n) = 0 /\ tick_count(n + 1) = tick_count(n)
  <2>1. phase(n) \in 0 .. SamplingResolution - 1
    BY <1>1, PhaseRange
  <2> QED BY <1>1, <2>1, NextFrame, SamplingAssumption
<1>3. CASE n = 0
  BY <1>2, <1>3, FirstFrames DEF IInv, OneSelectionPerTick, Synchronized
<1>4. CASE n > 0
  <2>1. n - 1 \in Nat /\ (n - 1) + 1 = n
    BY <1>1, <1>4
  <2>2. tick_count(n) = tick_count(n - 1) + 1
    BY <1>2, <2>1, NextFrame, PhaseRange
  <2>3. selected.count = tick_count(n) - 1
    BY <1>4, <2>1, <2>2, PhaseRange DEF IInv, OneSelectionPerTick
  <2>4. last_tick_index + (SamplingResolution - 1)
          \in SamplingResolution .. SamplingResolution + 2
    BY <1>2, <1>4 DEF IInv, LatestTick, since_stock
  <2> QED BY <1>2, <1>4, <2>3, <2>4, SamplingAssumption DEF IInv, Typed
<1> QED BY <1>1, <1>3, <1>4

LEMMA TickParserStep ==
  ASSUME IInv, status = "running", accumulate, update_img_diff_stable,
         NEW tick_detected \in BOOLEAN, tick_parser(tick_detected)
  PROVE  IInv' /\ (selected'.count > selected.count =>
                     LET index == frame_acc_count' - 1 - selected'.age IN
                     /\ frame_acc_count' = max_frame_acc_count
                     /\ index > last_tick_index
                     /\ index \in (SamplingResolution + 3) \div 2
                                  .. frame_acc_count' - 2)
<1> USE SamplingAssumption, MaxFramesAssumption
<1> DEFINE n == state.frame_index
           f == n + 1
           t == [state EXCEPT !.frame_index = @ + 1]
           s == register_tick(t, tick_detected)
           a == adjust(s)
           index == frame_acc_count' - 1 - selected'.age
           Headroom ==
             /\ frame_acc_count' = max_frame_acc_count
             /\ index > last_tick_index
             /\ index \in (SamplingResolution + 3) \div 2 .. frame_acc_count' - 2
<1>1. state \in State /\ n \in Nat /\ f \in Nat /\ Synchronized
  <2>1. sync_status >= SyncThreshold
    BY DEF tick_parser
  <2> QED BY <2>1, ThresholdAssumption DEF IInv, Typed, State, Synchronized
<1>2. /\ t \in State /\ t.frame_index = f
      /\ t.sleep_one_frame = state.sleep_one_frame
      /\ t.measured_tick_count = state.measured_tick_count
      /\ t.requested_drift_correction = state.requested_drift_correction
  BY <1>1 DEF State
<1>3. /\ s \in State /\ s.frame_index = f
      /\ s.sleep_one_frame = state.sleep_one_frame
  <2> HIDE DEF t, f
  <2> QED BY <1>2, Registered
<1>4. /\ frame_acc_count' = max_frame_acc_count
      /\ \/ /\ n = 0 /\ ~state.sleep_one_frame
            /\ last_tick_index \in SamplingResolution + 1 .. SamplingResolution + 2
         \/ n > 0
  BY <1>1, Window
<1>5. /\ phase(f) \in 0 .. SamplingResolution - 1 /\ tick_count(f) \in Nat
      /\ phase(n) \in 0 .. SamplingResolution - 1 /\ tick_count(n) \in Nat
  BY <1>1, PhaseRange
<1>6. /\ sync_status' = sync_status /\ since_tick' = since_tick
      /\ Synchronized' /\ sync_status = SyncThreshold
      /\ diff_count' = DiffBufferCount
  BY <1>1 DEF tick_parser, syncVars, Synchronized, update_img_diff_stable
<1>7. takes_stock(s) =>
        /\ phase(n) = 0 /\ tick_count(f) = tick_count(n)
        /\ \/ n = 0 /\ selected.count = 0
           \/ /\ n > 0
              /\ selected.count = tick_count(n) - 1
              /\ last_tick_index \in 1 .. 3
  BY <1>1, <1>3, Stock DEF takes_stock
<1>8. takes_stock(s) =>
        /\ a \in State
        /\ a.frame_index \in {n, f, f + 1}
        /\ a.sleep_one_frame <=> a.frame_index = n
  <2> SUFFICES ASSUME takes_stock(s)
               PROVE  /\ a \in State
                      /\ a.frame_index \in {n, f, f + 1}
                      /\ a.sleep_one_frame <=> a.frame_index = n
    OBVIOUS
  <2>1. ~s.sleep_one_frame /\ s.frame_index > 0
    BY <1>1, <1>3 DEF takes_stock
  <2>2. /\ a \in State
        /\ a.frame_index - f \in {-1, 0, 1}
        /\ a.sleep_one_frame <=> a.frame_index = f - 1
    <3> HIDE DEF s
    <3> QED BY <1>3, <2>1, Adjusted
  <2>3. a.frame_index \in Nat
    BY <2>2 DEF State
  <2> HIDE DEF a, s
  <2> QED BY <1>1, <2>2, <2>3
<1>9. ASSUME state' \in State, selected' \in [count : Nat, age : Int],
             last_tick_index' \in Int, status' \in {"running", "finished"}
      PROVE  Typed' /\ Filling' /\ NotYet' /\ AssertionsHold'
  BY <1>1, <1>4, <1>6, <1>9, ThresholdAssumption
     DEF IInv, Typed, Filling, NotYet, AssertionsHold, Synchronized,
         max_frame_acc_count
<1>10. no_selection =>
         /\ selected' \in [count : Nat, age : Int]
         /\ selected'.count = selected.count
  BY DEF IInv, Typed, no_selection
<1>11. selected \in [count : Nat, age : Int] /\ last_tick_index \in Int
       /\ selected.count <= MaxFrames
  BY DEF IInv, Typed
<1>12. CASE tick_parser_between(s)
  <2>1. /\ phase(f) # 1 /\ state' = s /\ last_tick_index' = last_tick_index - 1
        /\ no_selection /\ status' = "running"
    BY <1>3, <1>12 DEF tick_parser_between
  <2>2. n > 0 /\ ~state.sleep_one_frame
    <3>1. n # 0
      BY <2>1, FirstFrames
    <3>2. phase(n) # 0
      BY <1>1, <2>1, SinceStock
    <3> QED BY <1>1, <3>1, <3>2 DEF IInv, LatestTick
  <2>3. since_stock(f) = since_stock(n) + 1 /\ phase(n) # 0
    BY <1>1, <2>1, SinceStock
  <2>4. tick_count(n) = tick_count(n - 1)
    <3>1. n - 1 \in Nat /\ (n - 1) + 1 = n
      BY <1>1, <2>2
    <3> QED BY <2>3, <3>1, NextFrame
  <2> HIDE DEF s
  <2>5. Typed' /\ Filling' /\ NotYet' /\ AssertionsHold'
    BY <1>3, <1>9, <1>10, <1>11, <2>1
  <2>6. LatestTick'
    <3>1. last_tick_index + since_stock(n)
            \in SamplingResolution .. SamplingResolution + 2
      BY <1>1, <2>2 DEF IInv, LatestTick
    <3>2. since_stock(n) \in Int
      BY <1>5 DEF since_stock
    <3>3. last_tick_index' + since_stock(f) = last_tick_index + since_stock(n)
      BY <1>11, <2>1, <2>3, <3>2
    <3>4. state'.frame_index = f /\ ~state'.sleep_one_frame
      BY <1>3, <2>1, <2>2
    <3> QED BY <1>1, <1>4, <3>1, <3>3, <3>4 DEF LatestTick
  <2>7. OneSelectionPerTick'
    <3>1. selected.count = tick_count(n - 1)
      BY <1>1, <2>2 DEF IInv, OneSelectionPerTick
    <3>2. state'.frame_index = f /\ ~state'.sleep_one_frame /\ f - 1 = n /\ f # 0
      BY <1>1, <1>3, <2>1, <2>2
    <3> QED BY <1>10, <2>1, <2>4, <3>1, <3>2 DEF OneSelectionPerTick
  <2> QED BY <1>10, <1>11, <2>1, <2>5, <2>6, <2>7 DEF IInv
<1>13. CASE tick_parser_sleeps(s)
  <2>1. /\ phase(f) = 1 /\ state.sleep_one_frame
        /\ state' = [s EXCEPT !.sleep_one_frame = FALSE]
        /\ last_tick_index' = last_tick_index - 1
        /\ no_selection /\ status' = "running"
    BY <1>3, <1>13 DEF tick_parser_sleeps
  <2>2. /\ state' \in State /\ state'.frame_index = f /\ ~state'.sleep_one_frame
    <3> HIDE DEF s, f
    <3> QED BY <1>3, <2>1 DEF State
  <2> HIDE DEF s
  <2>3. Typed' /\ Filling' /\ NotYet' /\ AssertionsHold'
    BY <1>9, <1>10, <1>11, <2>1, <2>2
  <2>4. n > 0 /\ last_tick_index = SamplingResolution + 1
    BY <1>1, <2>1 DEF IInv, LatestTick
  <2>5. LatestTick'
    <3>1. since_stock(f) = 0
      BY <2>1 DEF since_stock
    <3>2. last_tick_index' = SamplingResolution
      BY <2>1, <2>4
    <3> QED BY <1>1, <1>4, <2>2, <3>1, <3>2 DEF LatestTick
  <2>6. OneSelectionPerTick'
    <3>1. selected.count = tick_count(n)
      BY <1>1, <2>1 DEF IInv, OneSelectionPerTick
    <3>2. f - 1 = n /\ f # 0
      BY <1>1
    <3> QED BY <1>10, <2>1, <2>2, <3>1, <3>2 DEF OneSelectionPerTick
  <2> QED BY <1>10, <1>11, <2>1, <2>3, <2>5, <2>6 DEF IInv
<1>14. CASE tick_parser_finishes(s)
  <2>1. /\ takes_stock(s) /\ tick_count(f) > MaxFrames /\ state' = a
        /\ status' = "finished" /\ no_selection
        /\ last_tick_index' = last_tick_index
    BY <1>3, <1>14 DEF tick_parser_finishes
  <2> HIDE DEF s, a
  <2>2. Typed' /\ Filling' /\ NotYet' /\ AssertionsHold'
    BY <1>8, <1>9, <1>10, <1>11, <2>1
  <2>3. selected.count = MaxFrames
    <3>1. n # 0
      BY <2>1, FirstFrames
    <3> QED BY <1>5, <1>7, <1>11, <2>1, <3>1
  <2> QED
    BY <1>10, <2>1, <2>2, <2>3 DEF IInv, LatestTick, OneSelectionPerTick
<1>15. CASE tick_parser_tick_0(s)
  <2> DEFINE zero == 0
  <2>1. /\ takes_stock(s) /\ tick_count(f) = 0
        /\ state' = [a EXCEPT !.select_prefer_latest = zero]
        /\ last_tick_index' = last_tick_index - 1
        /\ no_selection /\ status' = "running"
    BY <1>3, <1>15 DEF tick_parser_tick_0
  <2>2. n = 0 /\ f = 1
    <3>1. f = phase(f)
      BY <1>1, <2>1, TickZero
    <3>2. phase(f) = 1
      BY <1>3, <2>1 DEF takes_stock
    <3> QED BY <1>1, <3>1, <3>2
  <2>3. a.frame_index = 1 /\ ~a.sleep_one_frame
    <3>1. /\ t.frame_index = 1 /\ t.measured_tick_count = 0
          /\ t.requested_drift_correction = 0 /\ ~t.sleep_one_frame
      BY <1>1, <1>2, <2>2 DEF IInv, LatestTick
    <3> HIDE DEF t
    <3> QED BY <1>2, <3>1, NotMovedAtStart
  <2>4. /\ state' \in State /\ state'.frame_index = 1 /\ ~state'.sleep_one_frame
    <3>1. zero \in {0, 1} /\ a \in State
      BY <1>8, <2>1
    <3> HIDE DEF zero, a
    <3> QED BY <2>1, <2>3, <3>1 DEF State
  <2> HIDE DEF s, a, zero
  <2>5. Typed' /\ Filling' /\ NotYet' /\ AssertionsHold'
    BY <1>9, <1>10, <1>11, <2>1, <2>4
  <2>6. LatestTick'
    <3>1. since_stock(1) = 0
      BY FirstFrames DEF since_stock
    <3>2. last_tick_index' \in SamplingResolution .. SamplingResolution + 2
      BY <1>4, <1>11, <2>1, <2>2
    <3> QED BY <1>4, <2>4, <3>1, <3>2 DEF LatestTick
  <2>7. OneSelectionPerTick'
    <3>1. selected.count = 0
      BY <1>7, <2>1, <2>2
    <3>2. tick_count(1 - 1) = 0
      BY FirstFrames
    <3> QED BY <1>10, <2>1, <2>4, <3>1, <3>2 DEF OneSelectionPerTick
  <2> QED BY <1>10, <1>11, <2>1, <2>5, <2>6, <2>7 DEF IInv
<1>16. CASE tick_parser_selects(s)
  <2> DEFINE zero == 0
             chosen == selected_frame_index(s, frame_acc_count')
  <2>1. /\ takes_stock(s) /\ tick_count(f) \in 1 .. MaxFrames
        /\ IF index_allowed(chosen)
           THEN push_selected(chosen) /\ status' = status
           ELSE no_selection /\ status' = "failed"
        /\ state' = [a EXCEPT !.select_prefer_latest = zero]
        /\ last_tick_index' = frame_acc_count' - 2 - 1
    BY <1>3, <1>16 DEF tick_parser_selects
  <2>2. /\ n > 0 /\ last_tick_index \in 1 .. 3
        /\ selected.count = tick_count(f) - 1
        /\ phase(n) = 0 /\ phase(f) = 1 /\ tick_count(f) = tick_count(n)
    <3>1. n # 0
      BY <1>7, <2>1, FirstFrames
    <3> QED BY <1>7, <2>1, <3>1, <1>3 DEF takes_stock
  <2>3. frame_acc_count' = SamplingResolution + 4
    BY <1>4 DEF max_frame_acc_count
  <2>4. \E plus \in {0, 1} :
          chosen = (last_tick_index + (SamplingResolution + 4) - 2) \div 2 + plus
    <3>1. s.select_prefer_latest \in {0, 1}
      BY <1>3 DEF State
    <3> HIDE DEF s
    <3> QED BY <2>3, <3>1 DEF selected_frame_index
  <2> HIDE DEF chosen
  <2>5. /\ chosen \in (SamplingResolution + 3) \div 2 .. SamplingResolution + 2
        /\ chosen > last_tick_index
    BY <2>2, <2>4
  <2>6. index_allowed(chosen)
    BY <2>3, <2>5 DEF index_allowed
  <2>7. /\ status' = "running"
        /\ selected' = [count |-> selected.count + 1,
                        age |-> frame_acc_count' - 1 - chosen]
    BY <2>1, <2>6 DEF push_selected
  <2>8. /\ selected' \in [count : Nat, age : Int]
        /\ selected'.count = tick_count(f)
        /\ index = chosen
    BY <1>5, <2>2, <2>3, <2>5, <2>7
  <2>9. Headroom
    BY <1>4, <2>3, <2>5, <2>8
  <2>10. /\ state' \in State
         /\ state'.frame_index = a.frame_index
         /\ state'.sleep_one_frame = a.sleep_one_frame
    <3>1. zero \in {0, 1} /\ a \in State
      BY <1>8, <2>1
    <3> HIDE DEF zero, a
    <3> QED BY <2>1, <3>1 DEF State
  <2>11. /\ state'.frame_index \in {n, f, f + 1}
         /\ state'.sleep_one_frame <=> state'.frame_index = n
    BY <1>8, <2>1, <2>10
  <2> HIDE DEF s, a, zero
  <2>12. /\ phase(f + 1) = 2 /\ tick_count(f + 1) = tick_count(f)
    BY <1>1, <2>2, NextFrame
  <2>13. last_tick_index' = SamplingResolution + 1
    BY <2>1, <2>3
  <2>14. Typed' /\ Filling' /\ NotYet' /\ AssertionsHold'
    BY <1>9, <2>7, <2>8, <2>10, <2>13
  <2>15. LatestTick'
    <3>1. since_stock(f) = 0 /\ since_stock(f + 1) = 1
      BY <2>2, <2>12 DEF since_stock
    <3>2. state'.frame_index > 0
      BY <1>1, <2>2, <2>11
    <3>3. CASE state'.frame_index = n
      BY <1>4, <2>2, <2>11, <2>13, <3>2, <3>3 DEF LatestTick
    <3>4. CASE state'.frame_index = f
      BY <1>1, <1>4, <2>11, <2>13, <3>1, <3>2, <3>4 DEF LatestTick
    <3>5. CASE state'.frame_index = f + 1
      BY <1>1, <1>4, <2>11, <2>13, <3>1, <3>2, <3>5 DEF LatestTick
    <3> QED BY <2>11, <3>3, <3>4, <3>5
  <2>16. OneSelectionPerTick'
    <3>1. CASE state'.frame_index = n
      BY <2>2, <2>7, <2>8, <2>11, <3>1 DEF OneSelectionPerTick
    <3>2. CASE state'.frame_index = f
      <4>1. f - 1 = n /\ f # 0 /\ f # n
        BY <1>1
      <4> QED BY <2>2, <2>7, <2>8, <2>11, <3>2, <4>1 DEF OneSelectionPerTick
    <3>3. CASE state'.frame_index = f + 1
      <4>1. (f + 1) - 1 = f /\ f + 1 # 0 /\ f + 1 # n
        BY <1>1
      <4> QED BY <2>7, <2>8, <2>11, <3>3, <4>1 DEF OneSelectionPerTick
    <3> QED BY <2>11, <3>1, <3>2, <3>3
  <2>17. selected'.count <= MaxFrames
    BY <2>1, <2>8
  <2> QED BY <2>9, <2>14, <2>15, <2>16, <2>17 DEF IInv
<1> QED
  BY <1>12, <1>13, <1>14, <1>15, <1>16 DEF tick_parser

-------------------------------------------------------------------------------
Headroom ==
  selected'.count > selected.count =>
    LET index == frame_acc_count' - 1 - selected'.age IN
    /\ frame_acc_count' = max_frame_acc_count
    /\ index > last_tick_index
    /\ index \in (SamplingResolution + 3) \div 2 .. frame_acc_count' - 2

LEMMA Invariance ==
  ASSUME IInv, [Next]_vars
  PROVE  IInv' /\ Headroom
<1>1. CASE UNCHANGED vars
  <2>1. IInv'
    BY <1>1
       DEF IInv, Typed, Filling, NotYet, LatestTick, AssertionsHold,
           OneSelectionPerTick, Synchronized, vars, syncVars, parserVars
  <2>2. selected' = selected /\ selected.count \in Nat
    BY <1>1 DEF IInv, Typed, vars, parserVars
  <2> QED BY <2>1, <2>2 DEF Headroom
<1>2. ASSUME NEW tick_detected \in BOOLEAN, select_run(tick_detected)
      PROVE  IInv' /\ Headroom
  <2>1. status = "running" /\ accumulate /\ selected.count \in Nat
    BY <1>2 DEF select_run, IInv, Typed
  <2>2. CASE first_frame
    <3>1. IInv'
      BY <2>1, <2>2, FirstFrameStep
    <3> QED BY <2>1, <2>2, <3>1 DEF Headroom, first_frame, parserVars
  <2>3. CASE update_img_diff_collects
    <3>1. IInv'
      BY <2>1, <2>3, CollectsStep
    <3> QED BY <2>1, <2>3, <3>1 DEF Headroom, update_img_diff_collects, parserVars
  <2>4. CASE update_img_diff_stable /\ synchronize(tick_detected)
    <3>1. IInv'
      BY <2>1, <2>4, SynchronizeStep
    <3> QED BY <2>1, <2>4, <3>1 DEF Headroom, synchronize, parserVars
  <2>5. CASE update_img_diff_stable /\ tick_parser(tick_detected)
    BY <2>1, <2>5, TickParserStep DEF Headroom
  <2> QED BY <1>2, <2>2, <2>3, <2>4, <2>5 DEF select_run
<1> QED
  BY <1>1, <1>2 DEF Next, Terminated

(* The invariant that the theorems below are read off from.                  *)
LEMMA Inductive == Spec => []IInv
<1>1. Init => IInv
  BY Initially
<1>2. IInv /\ [Next]_vars => IInv'
  BY Invariance
<1> QED BY <1>1, <1>2, PTL DEF Spec

(* The index tick_parser computes always passes the assertions of             *)
(* select.c:608-609, so selection never fails.                               *)
THEOREM SelectionNeverFails == Spec => []AssertionsHold
<1>1. IInv => AssertionsHold
  BY DEF IInv
<1> QED BY <1>1, Inductive, PTL

(* However often the internal clock is moved by a frame, S3 gets exactly one  *)
(* frame for each of its ticks, and max_frames of them in all.                *)
THEOREM OneFramePerTick == Spec => []OneSelectionPerTick
<1>1. IInv => OneSelectionPerTick
  BY DEF IInv
<1> QED BY <1>1, Inductive, PTL

(* The frame tick_parser selects is newer than the previous internal tick,    *)
(* and older frames, at least (s + 3) \div 2 of them, are still in the window. *)
THEOREM SelectionHeadroom == Spec => SelectedHasHeadroom
<1>1. IInv /\ [Next]_vars => [Headroom]_vars
  BY Invariance
<1> QED BY <1>1, Inductive, PTL DEF Spec, SelectedHasHeadroom, Headroom

-------------------------------------------------------------------------------
(* ClockDrift. *)

(* What the environment has to be like: a second is at least four frames,    *)
(* and the jitter, back and forth, and the drift until the votes are counted *)
(* make less than a frame.                                                   *)
Precise ==
  /\ SamplingResolution >= 4
  /\ 2 * MaxJitter + AdjustmentInertia * MaxDrift <= SubSamples

faster == IF drift < 0 THEN -drift ELSE 0
slower == IF drift > 0 THEN drift ELSE 0

(* Frames since the internal tick that belongs to the latest detected one,   *)
(* and by how many sub-samples that one came late (early, if negative).      *)
lead(s) == s.frame_index - s.measured_tick_count * SamplingResolution
offset(s, since) == SubSamples * lead(s) - since

(* How late the clock can be when there are that many votes: a vote is cast  *)
(* by a tick that is late by a frame, or early by one, and taken back by one *)
(* in time.                                                                  *)
latest(votes) ==
  IF votes >= 0 THEN jitter + slower * votes
  ELSE jitter - SubSamples + slower * (AdjustmentInertia + votes)
earliest(votes) ==
  IF votes <= 0 THEN faster * votes - SubSamples - jitter
  ELSE -jitter - faster * (AdjustmentInertia - votes)

Clock ==
  /\ drift \in -MaxDrift .. MaxDrift
  /\ jitter \in 0 .. MaxJitter
  /\ since_shown \in Int
  /\ -jitter <= since_shown
  /\ since_shown < tick_interval + jitter

Tracks(s, since) ==
  LET votes == s.requested_drift_correction IN
  /\ s.measured_tick_count \in Nat
  /\ lead(s) \in -1 .. SamplingResolution
  /\ votes \in -AdjustmentInertia .. AdjustmentInertia
  /\ earliest(votes) < offset(s, since)
  /\ offset(s, since) <= latest(votes)

Followed ==
  Synchronized /\ status = "running" =>
    /\ Tracks(state, since_shown)
    /\ state.requested_drift_correction < AdjustmentInertia
    /\ state.requested_drift_correction = -AdjustmentInertia => lead(state) <= 0
    /\ state.sleep_one_frame =>
         lead(state) = 0 /\ state.requested_drift_correction = 0
    /\ state.select_prefer_latest = 0

DriftInv == Clock /\ Followed

-------------------------------------------------------------------------------
(* A product with a factor that is not negative.                             *)
LEMMA TimesMonotone ==
  ASSUME NEW a \in Nat, NEW b \in Int, NEW c \in Int, b <= c
  PROVE  a * b <= a * c
  BY SMT

LEMMA TimesPlus ==
  ASSUME NEW a \in Int, NEW b \in Int, NEW c \in Int
  PROVE  a * (b + c) = a * b + a * c
  BY SMT

LEMMA Constants ==
  /\ SamplingResolution \in Nat /\ AdjustmentInertia \in Nat \ {0}
  /\ SubSamples \in Nat \ {0} /\ MaxDrift \in Nat /\ MaxJitter \in Nat
  BY SamplingAssumption, ThresholdAssumption, SubSamplesAssumption, DriftAssumption

LEMMA DriftBound ==
  ASSUME Precise, Clock
  PROVE  /\ faster \in Nat /\ slower \in Nat /\ drift = slower - faster
         /\ jitter \in Nat
         /\ 2 * jitter + slower * AdjustmentInertia <= SubSamples
         /\ 2 * jitter + faster * AdjustmentInertia <= SubSamples
         /\ slower <= SubSamples /\ faster <= SubSamples
<1> DEFINE most == AdjustmentInertia * MaxDrift
<1>1. /\ faster \in 0 .. MaxDrift /\ slower \in 0 .. MaxDrift
      /\ drift = slower - faster /\ jitter \in 0 .. MaxJitter
  BY Constants DEF Clock, faster, slower
<1>2. /\ AdjustmentInertia * faster <= most
      /\ AdjustmentInertia * slower <= most
  BY <1>1, Constants, TimesMonotone
<1>3. /\ AdjustmentInertia * faster = faster * AdjustmentInertia
      /\ AdjustmentInertia * slower = slower * AdjustmentInertia
  BY <1>1, Constants
<1>4. /\ faster * 1 <= faster * AdjustmentInertia
      /\ slower * 1 <= slower * AdjustmentInertia
  BY <1>1, Constants, TimesMonotone
<1>5. /\ faster * AdjustmentInertia \in Int
      /\ slower * AdjustmentInertia \in Int
      /\ most \in Int
  BY <1>1, Constants
<1>6. 2 * MaxJitter + most <= SubSamples
  BY DEF Precise
<1> HIDE DEF most
<1>7. 2 * jitter <= 2 * MaxJitter
  BY <1>1, Constants
<1> DEFINE fi == faster * AdjustmentInertia
           si == slower * AdjustmentInertia
<1>8. fi \in Int /\ si \in Int /\ fi <= most /\ si <= most /\ faster <= fi /\ slower <= si
  BY <1>1, <1>2, <1>3, <1>4, <1>5
<1> HIDE DEF fi, si
<1>9. /\ 2 * jitter + si <= SubSamples /\ 2 * jitter + fi <= SubSamples
      /\ slower <= SubSamples /\ faster <= SubSamples
  BY <1>1, <1>5, <1>6, <1>7, <1>8, Constants
<1> QED BY <1>1, <1>9 DEF fi, si

(* The bounds, vote by vote.                                                 *)
LEMMA Latest ==
  ASSUME Precise, Clock, NEW r \in -AdjustmentInertia .. AdjustmentInertia
  PROVE  /\ latest(r) \in Int
         /\ latest(r) <= SubSamples - jitter
         /\ latest(r) >= jitter - SubSamples
         /\ r >= 0 => latest(r) >= jitter
         /\ r < 0 => latest(r) + drift <= -jitter
         /\ r < AdjustmentInertia => latest(r) + drift <= latest(r + 1)
         /\ r = -AdjustmentInertia => latest(r) = jitter - SubSamples
<1> DEFINE I == AdjustmentInertia
           S == SubSamples
           w == slower
           p == w * r
           i == w * I
<1>1. /\ I \in Nat \ {0} /\ S \in Nat \ {0} /\ r \in Int /\ w \in Nat
      /\ jitter \in Nat /\ drift \in Int /\ drift <= w
  BY Constants, DriftBound
<1>2. 2 * jitter + i <= S /\ i \in Int /\ p \in Int
  BY <1>1, DriftBound
<1>3. /\ w * (r + 1) = p + w
      /\ w * (I + r) = i + p
      /\ w * (I + (r + 1)) = i + p + w
  BY <1>1
<1>4. /\ r >= 0 => p >= 0
      /\ p <= i
      /\ i + p >= 0
      /\ r < 0 => p + w <= 0
      /\ r = -I => p = -i
      /\ i >= 0
  <2>1. p <= i
    BY <1>1, TimesMonotone
  <2>2. w * (-I) <= p /\ w * (-I) = -i
    BY <1>1, TimesMonotone
  <2>3. r >= 0 => w * 0 <= p
    BY <1>1, TimesMonotone
  <2>4. r < 0 => w * (r + 1) <= w * 0
    BY <1>1, TimesMonotone
  <2>5. w * 0 = 0 /\ w * 0 <= w * I
    BY <1>1, TimesMonotone
  <2>6. r = -I => p = -i
    BY <2>2
  <2> QED BY <1>1, <1>2, <1>3, <2>1, <2>2, <2>3, <2>4, <2>5, <2>6
<1>5. /\ latest(r) = IF r >= 0 THEN jitter + p ELSE jitter - S + (i + p)
      /\ latest(r + 1) = IF r + 1 >= 0 THEN jitter + (p + w)
                         ELSE jitter - S + (i + p + w)
  BY <1>3 DEF latest
<1> HIDE DEF I, S, w, p, i
<1> SUFFICES /\ latest(r) \in Int
             /\ latest(r) <= S - jitter
             /\ latest(r) >= jitter - S
             /\ r >= 0 => latest(r) >= jitter
             /\ r < 0 => latest(r) + drift <= -jitter
             /\ r < I => latest(r) + drift <= latest(r + 1)
             /\ r = -I => latest(r) = jitter - S
  BY DEF I, S
<1> QED BY <1>1, <1>2, <1>4, <1>5

LEMMA Earliest ==
  ASSUME Precise, Clock, NEW r \in -AdjustmentInertia .. AdjustmentInertia
  PROVE  /\ earliest(r) \in Int
         /\ earliest(r) >= jitter - 2 * SubSamples
         /\ earliest(r) <= -jitter
         /\ r <= 0 => earliest(r) <= -SubSamples - jitter
         /\ r > 0 => earliest(r) + drift >= jitter - SubSamples
         /\ r > -AdjustmentInertia => earliest(r - 1) <= earliest(r) + drift
<1> DEFINE I == AdjustmentInertia
           S == SubSamples
           w == faster
           p == w * r
           i == w * I
<1>1. /\ I \in Nat \ {0} /\ S \in Nat \ {0} /\ r \in Int /\ w \in Nat
      /\ jitter \in Nat /\ drift \in Int /\ -w <= drift
  BY Constants, DriftBound
<1>2. 2 * jitter + i <= S /\ i \in Int /\ p \in Int
  BY <1>1, DriftBound
<1>3. /\ w * (r - 1) = p - w
      /\ w * (I - r) = i - p
      /\ w * (I - (r - 1)) = i - p + w
  BY <1>1
<1>4. /\ r <= 0 => p <= 0
      /\ p <= i
      /\ i + p >= 0
      /\ r > 0 => p - w >= 0
      /\ i >= 0
  <2>1. p <= i
    BY <1>1, TimesMonotone
  <2>2. w * (-I) <= p /\ w * (-I) = -i
    BY <1>1, TimesMonotone
  <2>3. r <= 0 => p <= w * 0
    BY <1>1, TimesMonotone
  <2>4. r > 0 => w * 0 <= w * (r - 1)
    BY <1>1, TimesMonotone
  <2>5. w * 0 = 0 /\ w * 0 <= w * I
    BY <1>1, TimesMonotone
  <2> QED BY <1>1, <1>2, <1>3, <2>1, <2>2, <2>3, <2>4, <2>5
<1>5. /\ earliest(r) = IF r <= 0 THEN p - S - jitter ELSE -jitter - (i - p)
      /\ earliest(r - 1) = IF r - 1 <= 0 THEN p - w - S - jitter
                           ELSE -jitter - (i - p + w)
  BY <1>3 DEF earliest
<1> HIDE DEF I, S, w, p, i
<1> SUFFICES /\ earliest(r) \in Int
             /\ earliest(r) >= jitter - 2 * S
             /\ earliest(r) <= -jitter
             /\ r <= 0 => earliest(r) <= -S - jitter
             /\ r > 0 => earliest(r) + drift >= jitter - S
             /\ r > -I => earliest(r - 1) <= earliest(r) + drift
  BY DEF I, S
<1> QED BY <1>1, <1>2, <1>4, <1>5

-------------------------------------------------------------------------------
(* One frame. *)

(* The frame and the tick it may show: how many frames late it is by the      *)
(* internal clock, and how many sub-samples.                                 *)
next_lead(s) == lead(s) + 1 - SamplingResolution
next_offset == offset(state, since_shown) + drift

detects(deviation) == since_shown + SubSamples + deviation >= tick_interval
next_since(tick) ==
  IF tick THEN since_shown + SubSamples - tick_interval
  ELSE since_shown + SubSamples

Running ==
  /\ Precise /\ Clock
  /\ state \in State
  /\ Tracks(state, since_shown)
  /\ state.requested_drift_correction < AdjustmentInertia
  /\ state.requested_drift_correction = -AdjustmentInertia => lead(state) <= 0

LEMMA OffsetType ==
  ASSUME NEW s \in State, NEW since \in Int
  PROVE  /\ lead(s) \in Int /\ offset(s, since) \in Int
         /\ since = SubSamples * lead(s) - offset(s, since)
         /\ s.measured_tick_count * SamplingResolution \in Int
         /\ s.frame_index = s.measured_tick_count * SamplingResolution + lead(s)
<1> DEFINE product == s.measured_tick_count * SamplingResolution
           l == lead(s)
           scaled == SubSamples * l
<1>1. product \in Int /\ s.frame_index \in Int
  BY Constants DEF State
<1>2. l = s.frame_index - product
  BY DEF lead
<1> HIDE DEF product, l
<1>3. l \in Int
  BY <1>1, <1>2
<1>4. scaled \in Int
  BY <1>3, Constants
<1>5. offset(s, since) = scaled - since
  BY DEF offset, l
<1> HIDE DEF scaled
<1>6. /\ offset(s, since) \in Int /\ since = scaled - offset(s, since)
      /\ s.frame_index = product + l
  BY <1>1, <1>2, <1>3, <1>4, <1>5
<1> QED BY <1>1, <1>3, <1>6 DEF product, l, scaled

(* A tick is detected when it is one frame early, in time or one frame late,  *)
(* and the votes say which of these it can be.                               *)
LEMMA Detection ==
  ASSUME Running, NEW deviation \in -jitter .. jitter
  PROVE  LET votes == state.requested_drift_correction IN
         /\ next_lead(state) \in Int /\ next_offset \in Int
         /\ next_lead(state) <= 1
         /\ detects(deviation) =>
              /\ next_lead(state) \in -1 .. 1
              /\ votes > -AdjustmentInertia
              /\ next_lead(state) = -1 =>
                   /\ next_offset <= jitter - SubSamples
                   /\ votes <= 0
              /\ next_lead(state) = 0 =>
                   /\ -SubSamples - jitter < next_offset
                   /\ next_offset <= jitter
              /\ next_lead(state) = 1 =>
                   /\ -jitter < next_offset
                   /\ votes >= 0
         /\ ~detects(deviation) => next_lead(state) <= 0
<1> DEFINE votes == state.requested_drift_correction
           S == SubSamples
           I == AdjustmentInertia
           l == lead(state)
           q == next_lead(state)
           u == offset(state, since_shown)
           x == next_offset
           sl == S * l
           ss == S * SamplingResolution
           sq == S * q
           most == latest(votes)
           least == earliest(votes)
<1>1. /\ since_shown \in Int /\ l \in Int /\ u \in Int /\ since_shown = sl - u
      /\ since_shown < tick_interval + jitter
  BY OffsetType DEF Running, Clock
<1>2. /\ votes \in -I .. I /\ votes < I /\ I \in Nat \ {0}
      /\ least < u /\ u <= most
      /\ votes = -I => l <= 0
      /\ S \in Nat \ {0} /\ SamplingResolution \in Int /\ SamplingResolution >= 4
  BY Constants DEF Running, Tracks, Precise
<1>3. /\ drift \in Int /\ jitter \in Nat
      /\ drift <= S /\ -S <= drift /\ 2 * jitter <= S
  <2>1. /\ slower \in Nat /\ faster \in Nat /\ jitter \in Nat /\ drift = slower - faster
        /\ slower <= S /\ faster <= S
        /\ slower * I \in Nat /\ 2 * jitter + slower * I <= S
    BY DriftBound, Constants DEF Running
  <2> HIDE DEF S, I
  <2> QED BY <1>2, <2>1
<1>4. /\ most \in Int
      /\ most <= S - jitter
      /\ votes < 0 => most + drift <= -jitter
      /\ most + drift <= latest(votes + 1)
      /\ latest(votes + 1) \in Int
      /\ latest(votes + 1) <= S - jitter
  <2>1. votes + 1 \in -I .. I
    BY <1>2
  <2> QED BY <1>2, <2>1, Latest DEF Running
<1>5. /\ least \in Int
      /\ least >= jitter - 2 * S
      /\ votes > 0 => least + drift >= jitter - S
      /\ votes > -I => least + drift >= jitter - 2 * S
  <2>1. votes > -I => votes - 1 \in -I .. I
    BY <1>2
  <2>2. votes > -I => earliest(votes - 1) >= jitter - 2 * S
    BY <2>1, Earliest DEF Running
  <2>3. votes > -I => earliest(votes - 1) \in Int
    BY <2>1, Earliest DEF Running
  <2>4. /\ least \in Int
        /\ least >= jitter - 2 * S
        /\ votes > 0 => least + drift >= jitter - S
        /\ votes > -I => earliest(votes - 1) <= least + drift
    BY <1>2, Earliest DEF Running
  <2> HIDE DEF S, I, votes, least
  <2> QED BY <1>2, <1>3, <2>2, <2>3, <2>4
<1>6. /\ q \in Int /\ q = l + 1 - SamplingResolution
      /\ sl \in Int /\ ss \in Int /\ sq \in Int
      /\ sq = sl + S - ss
      /\ x \in Int /\ x = u + drift
      /\ tick_interval = ss + drift
  BY <1>1, <1>2, <1>3 DEF next_lead, next_offset, tick_interval
<1>7. /\ q <= -2 => sq <= -(2 * S)
      /\ q <= -3 => sq <= -(3 * S)
      /\ q >= 2 => sq >= 2 * S
      /\ q = -1 => sq = -S
      /\ q = 0 => sq = 0
      /\ q = 1 => sq = S
  <2>1. /\ q <= -2 => S * q <= S * (-2)
        /\ q <= -3 => S * q <= S * (-3)
        /\ q >= 2 => S * 2 <= S * q
    BY <1>2, <1>6, TimesMonotone
  <2> QED BY <1>2, <1>6, <2>1
<1>8. detects(deviation) <=> sq + deviation >= x
  <2>1. deviation \in Int
    BY <1>3
  <2>2. detects(deviation) <=> since_shown + S + deviation >= tick_interval
    BY DEF detects
  <2> HIDE DEF sl, ss, sq, x, u, S, q, l
  <2> QED BY <1>1, <1>2, <1>3, <1>6, <2>1, <2>2
<1>9. deviation \in Int /\ -jitter <= deviation /\ deviation <= jitter
  BY <1>3
<1>10. x > sq - S - jitter
  BY <1>1, <1>2, <1>3, <1>6
<1> HIDE DEF sl, ss, sq, x, u, S, q, l, votes, most, least, I
<1>11. x <= S - jitter /\ (votes < 0 => x <= -jitter)
  BY <1>1, <1>2, <1>3, <1>4, <1>6
<1>12. /\ votes > -I => x > jitter - 2 * S
       /\ votes > 0 => x > jitter - S
       /\ x > jitter - 3 * S
  BY <1>1, <1>2, <1>3, <1>5, <1>6
<1>13. q <= 1
  BY <1>2, <1>3, <1>6, <1>7, <1>10, <1>11
<1>14. ASSUME detects(deviation)
       PROVE  /\ q \in -1 .. 1
              /\ votes > -I
              /\ q = -1 => x <= jitter - S /\ votes <= 0
              /\ q = 0 => -S - jitter < x /\ x <= jitter
              /\ q = 1 => -jitter < x /\ votes >= 0
  <2>1. x <= sq + jitter
    BY <1>3, <1>6, <1>8, <1>9, <1>14
  <2>2. votes > -I
    <3> SUFFICES ASSUME votes = -I PROVE FALSE
      BY <1>2
    <3>1. q <= -3
      BY <1>1, <1>2, <1>6
    <3> QED BY <1>2, <1>3, <1>6, <1>7, <1>12, <2>1, <3>1
  <2>3. q >= -1
    BY <1>2, <1>3, <1>6, <1>7, <1>12, <2>1, <2>2
  <2>4. q = -1 => x <= jitter - S /\ votes <= 0
    BY <1>2, <1>3, <1>6, <1>7, <1>12, <2>1
  <2>5. q = 0 => -S - jitter < x /\ x <= jitter
    BY <1>2, <1>3, <1>6, <1>7, <1>10, <2>1
  <2>6. q = 1 => -jitter < x /\ votes >= 0
    BY <1>2, <1>3, <1>6, <1>7, <1>10, <1>11
  <2> QED BY <1>6, <1>13, <2>2, <2>3, <2>4, <2>5, <2>6
<1>15. ASSUME ~detects(deviation) PROVE q <= 0
  <2>1. x > sq - jitter
    BY <1>3, <1>6, <1>8, <1>9, <1>15
  <2> QED BY <1>2, <1>3, <1>6, <1>7, <1>11, <1>13, <2>1
<1> QED BY <1>6, <1>13, <1>14, <1>15 DEF q, x, S, I, votes

(* The vote a tick casts depends on how late it is only.                     *)
LEMMA Votes ==
  ASSUME SamplingResolution >= 4, NEW s \in State, s.measured_tick_count \in Nat,
         NEW q \in -1 .. 1, lead(s) = SamplingResolution + q
  PROVE  /\ q = -1 => vote(s) = -1
         /\ q = 0 => vote(s) = IF s.requested_drift_correction < 0 THEN 1
                               ELSE IF s.requested_drift_correction > 0 THEN -1
                               ELSE 0
         /\ q = 1 => vote(s) = 1
         /\ is_late(s) <=> q = 1
<1> DEFINE m == s.measured_tick_count
           n == SamplingResolution
           f == s.frame_index
<1>1. m \in Nat /\ n \in Nat \ {0} /\ n >= 4
  BY Constants
<1>2. f = m * n + lead(s)
  BY OffsetType DEF Running
<1>3. CASE q = -1
  <2>1. f = m * n + (n - 1)
    BY <1>1, <1>2, <1>3
  <2>2. (m * n + (n - 1)) % n = n - 1 /\ (m * n + (n - 1)) \div n = m
    <3>1. n - 1 \in 0 .. n - 1
      BY <1>1
    <3> HIDE DEF n, m
    <3> QED BY <1>1, <3>1, DivModUnique
  <2>3. phase(f) = n - 1 /\ tick_count(f) = m
    BY <2>1, <2>2 DEF phase, tick_count
  <2> QED BY <1>1, <1>3, <2>3 DEF vote, is_late
<1>4. CASE q = 0
  <2>1. f = (m + 1) * n + 0
    BY <1>1, <1>2, <1>4
  <2>2. ((m + 1) * n + 0) % n = 0 /\ ((m + 1) * n + 0) \div n = m + 1
    <3>1. m + 1 \in Nat /\ 0 \in 0 .. n - 1
      BY <1>1
    <3> HIDE DEF n, m
    <3> QED BY <1>1, <3>1, DivModUnique
  <2>3. phase(f) = 0 /\ tick_count(f) = m + 1
    BY <2>1, <2>2 DEF phase, tick_count
  <2> QED BY <1>1, <1>4, <2>3 DEF vote, is_late
<1>5. CASE q = 1
  <2>1. f = (m + 1) * n + 1
    BY <1>1, <1>2, <1>5
  <2>2. ((m + 1) * n + 1) % n = 1 /\ ((m + 1) * n + 1) \div n = m + 1
    <3>1. m + 1 \in Nat /\ 1 \in 0 .. n - 1
      BY <1>1
    <3> HIDE DEF n, m
    <3> QED BY <1>1, <3>1, DivModUnique
  <2>3. phase(f) = 1 /\ tick_count(f) = m + 1
    BY <2>1, <2>2 DEF phase, tick_count
  <2> QED BY <1>1, <1>5, <2>3 DEF vote, is_late
<1> QED BY <1>3, <1>4, <1>5

(* The state after step 1 of tick_parser, and where its frame is in the tick. *)
next_state(tick) ==
  register_tick([state EXCEPT !.frame_index = @ + 1], tick)

LEMMA NextState ==
  ASSUME Running, NEW deviation \in -jitter .. jitter,
         NEW tick \in BOOLEAN, tick <=> detects(deviation)
  PROVE  LET s == next_state(tick)
             votes == state.requested_drift_correction
         IN /\ s \in State
            /\ s.frame_index = state.frame_index + 1
            /\ s.sleep_one_frame = state.sleep_one_frame
            /\ s.measured_tick_count =
                 state.measured_tick_count + (IF tick THEN 1 ELSE 0)
            /\ lead(s) = IF tick THEN next_lead(state) ELSE lead(state) + 1
            /\ offset(s, next_since(tick)) =
                 IF tick THEN next_offset ELSE offset(state, since_shown)
            /\ s.requested_drift_correction =
                 IF ~tick THEN votes
                 ELSE IF next_lead(state) = -1 THEN votes - 1
                 ELSE IF next_lead(state) = 1 THEN votes + 1
                 ELSE IF votes < 0 THEN votes + 1
                 ELSE IF votes > 0 THEN votes - 1
                 ELSE 0
            /\ s.select_prefer_latest =
                 IF tick /\ next_lead(state) = 1 THEN 1
                 ELSE state.select_prefer_latest
<1> DEFINE t == [state EXCEPT !.frame_index = @ + 1]
           s == next_state(tick)
           m == state.measured_tick_count
           votes == state.requested_drift_correction
           q == next_lead(state)
           n == SamplingResolution
           sn == SubSamples * n
           sl == SubSamples * lead(state)
<1>1. /\ state \in State /\ m \in Nat /\ votes \in Int /\ n \in Nat
      /\ state.frame_index \in Nat
      /\ since_shown \in Int /\ drift \in Int /\ SubSamples \in Nat \ {0}
  BY Constants DEF Running, Tracks, State, Clock
<1>2. /\ t \in State /\ t.frame_index = state.frame_index + 1
      /\ t.measured_tick_count = m
      /\ t.requested_drift_correction = votes
      /\ t.sleep_one_frame = state.sleep_one_frame
      /\ t.select_prefer_latest = state.select_prefer_latest
  BY <1>1 DEF State
<1>3. s = register_tick(t, tick)
  BY DEF next_state
<1>4. /\ s \in State /\ s.frame_index = t.frame_index
      /\ s.sleep_one_frame = t.sleep_one_frame
  <2> HIDE DEF t, s
  <2> QED BY <1>2, <1>3, Registered
<1>5. /\ lead(state) \in Int /\ m * n \in Int
      /\ lead(t) = lead(state) + 1
      /\ offset(state, since_shown) = sl - since_shown
      /\ sn \in Int /\ sl \in Int
  <2>1. lead(state) = state.frame_index - m * n /\ m * n \in Int
    BY <1>1 DEF lead
  <2>2. lead(t) = t.frame_index - m * n
    BY <1>2 DEF lead
  <2>3. lead(t) = lead(state) + 1 /\ lead(state) \in Int
    <3> HIDE DEF t
    <3> QED BY <1>1, <1>2, <2>1, <2>2
  <2>4. sn \in Int /\ sl \in Int
    BY <1>1, <2>3
  <2> QED BY <2>1, <2>3, <2>4 DEF offset
<1>6. tick_interval = sn + drift
  BY DEF tick_interval
<1>7. CASE ~tick
  <2>1. s = t
    BY <1>3, <1>7 DEF register_tick
  <2>2. SubSamples * (lead(state) + 1) = sl + SubSamples
    BY <1>1, <1>5
  <2>3. offset(t, next_since(tick)) = offset(state, since_shown)
    BY <1>1, <1>5, <1>7, <2>2 DEF offset, next_since
  <2> HIDE DEF t, s
  <2> QED BY <1>1, <1>2, <1>5, <1>7, <2>1, <2>3 DEF s
<1>8. CASE tick
  <2>1. q \in -1 .. 1
    BY <1>8, Detection
  <2>2. q = lead(state) + 1 - n
    BY DEF next_lead
  <2>3. lead(t) = n + q
    <3> HIDE DEF t, q
    <3> QED BY <1>1, <1>5, <2>1, <2>2
  <2>4. /\ q = -1 => vote(t) = -1
        /\ q = 0 => vote(t) = IF votes < 0 THEN 1
                              ELSE IF votes > 0 THEN -1 ELSE 0
        /\ q = 1 => vote(t) = 1
        /\ is_late(t) <=> q = 1
    <3>1. SamplingResolution >= 4
      BY DEF Running, Precise
    <3> HIDE DEF t, q
    <3> QED BY <1>1, <1>2, <2>1, <2>3, <3>1, Votes
  <2>5. /\ s.measured_tick_count = m + 1
        /\ s.requested_drift_correction = votes + vote(t)
        /\ s.select_prefer_latest = IF is_late(t) THEN 1 ELSE t.select_prefer_latest
    <3>1. s = [t EXCEPT !.measured_tick_count = t.measured_tick_count + 1,
                        !.requested_drift_correction =
                          t.requested_drift_correction + vote(t),
                        !.select_prefer_latest =
                          IF is_late(t) THEN 1 ELSE t.select_prefer_latest]
      BY <1>3, <1>8 DEF register_tick
    <3> HIDE DEF t, s
    <3> QED BY <1>2, <3>1 DEF State
  <2>6. lead(s) = q
    <3>1. lead(s) = s.frame_index - (m + 1) * n
      BY <2>5 DEF lead
    <3>2. (m + 1) * n = m * n + n
      BY <1>1
    <3>3. lead(state) = state.frame_index - m * n
      BY DEF lead
    <3> HIDE DEF t, s, q
    <3> QED BY <1>1, <1>2, <1>4, <1>5, <2>2, <3>1, <3>2, <3>3
  <2>7. offset(s, next_since(tick)) = next_offset
    <3>1. SubSamples * q = sl + SubSamples - sn
      BY <1>1, <1>5, <2>2
    <3>2. next_since(tick) = since_shown + SubSamples - (sn + drift)
      BY <1>6, <1>8 DEF next_since
    <3>3. next_offset = sl - since_shown + drift
      BY <1>5 DEF next_offset
    <3>4. offset(s, next_since(tick)) = SubSamples * q - next_since(tick)
      BY <2>6 DEF offset
    <3> HIDE DEF s, sn, sl, q
    <3> QED BY <1>1, <1>5, <3>1, <3>2, <3>3, <3>4
  <2> HIDE DEF t, s, q, m
  <2>8. s.requested_drift_correction =
          IF q = -1 THEN votes - 1
          ELSE IF q = 1 THEN votes + 1
          ELSE IF votes < 0 THEN votes + 1
          ELSE IF votes > 0 THEN votes - 1
          ELSE 0
    BY <1>1, <2>1, <2>4, <2>5
  <2>9. s.select_prefer_latest = IF q = 1 THEN 1 ELSE state.select_prefer_latest
    BY <1>2, <2>4, <2>5
  <2> QED BY <1>2, <1>4, <1>8, <2>5, <2>6, <2>7, <2>8, <2>9 DEF m, q, s
<1> QED BY <1>7, <1>8

(* The tick keeps the clock within the bounds of the votes that are left.    *)
LEMMA NextTracks ==
  ASSUME Running, NEW deviation \in -jitter .. jitter,
         NEW tick \in BOOLEAN, tick <=> detects(deviation)
  PROVE  LET s == next_state(tick) IN
         /\ Tracks(s, next_since(tick))
         /\ s.requested_drift_correction = -AdjustmentInertia =>
              \/ ~tick /\ state.requested_drift_correction = -AdjustmentInertia
              \/ lead(s) = -1
         /\ s.requested_drift_correction = AdjustmentInertia =>
              lead(s) = 1 /\ offset(s, next_since(tick)) > -jitter
<1> DEFINE s == next_state(tick)
           votes == state.requested_drift_correction
           r == s.requested_drift_correction
           I == AdjustmentInertia
           S == SubSamples
           q == next_lead(state)
           x == next_offset
           u == offset(state, since_shown)
           since == next_since(tick)
<1>1. /\ s \in State /\ s.measured_tick_count \in Nat
      /\ lead(s) = IF tick THEN q ELSE lead(state) + 1
      /\ offset(s, since) = IF tick THEN x ELSE u
      /\ r = IF ~tick THEN votes
             ELSE IF q = -1 THEN votes - 1
             ELSE IF q = 1 THEN votes + 1
             ELSE IF votes < 0 THEN votes + 1
             ELSE IF votes > 0 THEN votes - 1
             ELSE 0
  <2>1. s.measured_tick_count = state.measured_tick_count + (IF tick THEN 1 ELSE 0)
        /\ state.measured_tick_count \in Nat
    BY NextState DEF Running, Tracks
  <2>2. s.measured_tick_count \in Nat
    <3> HIDE DEF s
    <3> QED BY <2>1
  <2> QED BY <2>2, NextState
<1>2. /\ votes \in -I .. I /\ votes < I /\ I \in Nat \ {0}
      /\ lead(state) \in -1 .. SamplingResolution
      /\ q = lead(state) + 1 - SamplingResolution
      /\ SamplingResolution \in Nat /\ SamplingResolution >= 4
      /\ earliest(votes) < u /\ u <= latest(votes)
  BY Constants DEF Running, Tracks, Precise, next_lead
<1>3. u \in Int /\ x \in Int /\ x = u + drift /\ drift \in Int /\ jitter \in Nat
      /\ S \in Nat \ {0}
  BY OffsetType, Constants DEF Running, Clock, next_offset
<1>4. CASE ~tick
  <2>1. q <= 0
    BY <1>4, Detection
  <2> HIDE DEF s, u, q, x, since, I
  <2>2. lead(s) \in -1 .. SamplingResolution /\ r = votes /\ offset(s, since) = u
    BY <1>1, <1>2, <1>4, <2>1
  <2> QED BY <1>1, <1>2, <1>4, <2>2 DEF Tracks, s, since, I
<1>5. CASE tick
  <2>1. /\ q \in -1 .. 1
        /\ votes > -I
        /\ q = -1 => x <= jitter - S /\ votes <= 0
        /\ q = 0 => -S - jitter < x /\ x <= jitter
        /\ q = 1 => -jitter < x /\ votes >= 0
    BY <1>5, Detection
  <2>2. r \in -I .. I
    <3> HIDE DEF s, q, I, x
    <3> QED BY <1>1, <1>2, <1>5, <2>1
  <2>3. /\ latest(r) \in Int
        /\ r >= 0 => latest(r) >= jitter
        /\ latest(r) >= jitter - S
        /\ latest(votes) \in Int
        /\ latest(votes) + drift <= latest(votes + 1)
    BY <1>2, <2>2, Latest DEF Running
  <2>4. /\ earliest(r) \in Int
        /\ earliest(r) <= -jitter
        /\ r <= 0 => earliest(r) <= -S - jitter
        /\ earliest(votes) \in Int
        /\ earliest(votes - 1) <= earliest(votes) + drift
    BY <1>2, <2>1, <2>2, Earliest DEF Running
  <2>5. /\ latest(votes + 1) \in Int /\ earliest(votes - 1) \in Int
    <3>1. votes + 1 \in -I .. I /\ votes - 1 \in -I .. I
      BY <1>2, <2>1
    <3> QED BY <3>1, Latest, Earliest DEF Running
  <2>6. x <= latest(votes + 1) /\ earliest(votes - 1) < x
    <3> HIDE DEF x, u, votes
    <3> QED BY <1>2, <1>3, <2>3, <2>4, <2>5
  <2>7. x <= latest(r) /\ earliest(r) < x
    <3>1. CASE q = -1
      <4>1. r = votes - 1
        BY <1>1, <1>5, <3>1
      <4> HIDE DEF x, r, q, votes, S
      <4> QED BY <1>3, <2>1, <2>3, <2>6, <3>1, <4>1
    <3>2. CASE q = 0
      <4>1. \/ r = votes + 1 /\ votes < 0
            \/ r = votes - 1 /\ votes > 0
            \/ r = 0
        <5>1. r = IF votes < 0 THEN votes + 1
                  ELSE IF votes > 0 THEN votes - 1 ELSE 0
          <6> HIDE DEF s, q, r, votes
          <6> QED BY <1>1, <1>5, <3>2
        <5> HIDE DEF r, votes
        <5> QED BY <1>2, <5>1
      <4> HIDE DEF x, r, q, votes, S
      <4>2. x <= jitter /\ -S - jitter < x
        BY <2>1, <3>2
      <4>3. CASE r = votes + 1 /\ votes < 0
        BY <1>2, <1>3, <2>3, <2>4, <2>6, <4>2, <4>3
      <4>4. CASE r = votes - 1 /\ votes > 0
        BY <1>2, <1>3, <2>3, <2>4, <2>6, <4>2, <4>4
      <4>5. CASE r = 0
        BY <1>3, <2>3, <2>4, <4>2, <4>5
      <4> QED BY <4>1, <4>3, <4>4, <4>5
    <3>3. CASE q = 1
      <4>1. r = votes + 1
        BY <1>1, <1>5, <3>3
      <4> HIDE DEF x, r, q, votes, S
      <4> QED BY <1>3, <2>1, <2>3, <2>4, <2>6, <3>3, <4>1
    <3> QED BY <2>1, <3>1, <3>2, <3>3
  <2>8. lead(s) = q /\ offset(s, since) = x
    BY <1>1, <1>5
  <2>9. lead(s) \in -1 .. SamplingResolution
    <3> HIDE DEF s, q
    <3> QED BY <1>2, <2>1, <2>8
  <2>10. Tracks(s, since)
    BY <1>1, <2>2, <2>7, <2>8, <2>9 DEF Tracks
  <2>11. r = -I => q = -1
    <3> HIDE DEF s, q, I, x
    <3> QED BY <1>1, <1>2, <1>5, <2>1
  <2>12. r = I => q = 1
    <3> HIDE DEF s, q, I, x
    <3> QED BY <1>1, <1>2, <1>5, <2>1
  <2> QED BY <2>1, <2>8, <2>10, <2>11, <2>12
<1> QED BY <1>4, <1>5

(* One frame past its tick the internal clock is one frame past the detected *)
(* tick.                                                                     *)
LEMMA PhaseOfLead ==
  ASSUME SamplingResolution >= 4, NEW s \in State, s.measured_tick_count \in Nat,
         lead(s) \in -1 .. SamplingResolution
  PROVE  /\ phase(s.frame_index) = 1 <=> lead(s) = 1
         /\ lead(s) = 1 => even(s)
<1> DEFINE m == s.measured_tick_count
           n == SamplingResolution
           f == s.frame_index
           l == lead(s)
<1>1. m \in Nat /\ n \in Nat \ {0} /\ n >= 4 /\ f \in Nat
  BY Constants DEF State
<1>2. f = m * n + l /\ m * n \in Nat
  <2>1. m * n \in Nat
    BY <1>1
  <2> QED BY <2>1, OffsetType
<1>3. CASE l = -1
  <2>1. m - 1 \in Nat
    <3>1. m # 0
      BY <1>1, <1>2, <1>3
    <3> QED BY <1>1, <3>1
  <2>2. f = (m - 1) * n + (n - 1)
    BY <1>1, <1>2, <1>3
  <2>3. ((m - 1) * n + (n - 1)) % n = n - 1
    <3>1. n - 1 \in 0 .. n - 1
      BY <1>1
    <3> HIDE DEF n, m
    <3> QED BY <1>1, <2>1, <3>1, DivModUnique
  <2>4. phase(f) = n - 1
    BY <2>2, <2>3 DEF phase
  <2> QED BY <1>1, <1>3, <2>4
<1>4. CASE l \in 0 .. n - 1
  <2>1. (m * n + l) % n = l /\ (m * n + l) \div n = m
    <3> HIDE DEF n, m, l
    <3> QED BY <1>1, <1>4, DivModUnique
  <2>2. phase(f) = l /\ tick_count(f) = m
    BY <1>2, <2>1 DEF phase, tick_count
  <2> QED BY <2>2 DEF even
<1>5. CASE l = n
  <2>1. f = (m + 1) * n + 0
    BY <1>1, <1>2, <1>5
  <2>2. ((m + 1) * n + 0) % n = 0
    <3>1. m + 1 \in Nat /\ 0 \in 0 .. n - 1
      BY <1>1
    <3> HIDE DEF n, m
    <3> QED BY <1>1, <3>1, DivModUnique
  <2>3. phase(f) = 0
    BY <2>1, <2>2 DEF phase
  <2> QED BY <1>1, <1>5, <2>3
<1>6. l = -1 \/ l \in 0 .. n - 1 \/ l = n
  BY <1>1
<1> QED BY <1>3, <1>4, <1>5, <1>6

(* Moving the internal clock by a frame moves the bounds as the votes have it. *)
LEMMA AdjustTracks ==
  ASSUME Precise, Clock, NEW s \in State, NEW since \in Int, Tracks(s, since),
         s.frame_index > 0, lead(s) = 1, ~s.sleep_one_frame,
         s.requested_drift_correction = AdjustmentInertia =>
           offset(s, since) > -jitter
  PROVE  LET a == adjust(s)
             votes == a.requested_drift_correction
         IN /\ a \in State
            /\ Tracks(a, since)
            /\ a.measured_tick_count = s.measured_tick_count
            /\ a.select_prefer_latest = s.select_prefer_latest
            /\ votes < AdjustmentInertia /\ votes > -AdjustmentInertia
            /\ a.sleep_one_frame => lead(a) = 0 /\ votes = 0
            /\ lead(a) \in 0 .. 2
            /\ LET before == s.requested_drift_correction IN
               \/ a = s /\ before # AdjustmentInertia /\ before # -AdjustmentInertia
               \/ /\ before = AdjustmentInertia /\ votes = 0
                  /\ lead(a) = 0 /\ a.sleep_one_frame
               \/ /\ before = -AdjustmentInertia /\ votes = 0
                  /\ lead(a) = 2 /\ ~a.sleep_one_frame
                  /\ a.frame_index = s.frame_index + 1
<1> DEFINE r == s.requested_drift_correction
           I == AdjustmentInertia
           S == SubSamples
           a == adjust(s)
           u == offset(s, since)
           m == s.measured_tick_count
           f == s.frame_index
           index == f + (IF r < 0 THEN 1 ELSE -1)
           back == r > 0
           zero == 0
<1>1. /\ m \in Nat /\ r \in -I .. I /\ r \in Int /\ f \in Nat /\ I \in Nat \ {0}
      /\ S \in Nat \ {0} /\ u \in Int /\ jitter \in Nat
      /\ earliest(r) < u /\ u <= latest(r)
      /\ s.select_prefer_latest \in {0, 1}
  <2>1. jitter \in Nat
    BY DriftBound
  <2>2. u \in Int
    BY OffsetType
  <2> QED BY <2>1, <2>2, Constants DEF Tracks, State
<1>2. even(s)
  BY PhaseOfLead DEF Tracks, Precise
<1>3. CASE abs(r) < I
  <2>1. a = s
    BY <1>2, <1>3 DEF adjust
  <2>2. r < I /\ r > -I
    BY <1>1, <1>3 DEF abs
  <2> HIDE DEF a
  <2> QED BY <1>1, <2>1, <2>2 DEF a
<1>4. CASE ~(abs(r) < I)
  <2>1. r = I \/ r = -I
    BY <1>1, <1>4 DEF abs
  <2>2. a = [s EXCEPT !.frame_index = index, !.sleep_one_frame = back,
                      !.requested_drift_correction = zero]
    BY <1>2, <1>4 DEF adjust
  <2>3. zero \in Int /\ index \in Nat /\ back \in BOOLEAN
    BY <1>1
  <2>4. /\ a \in State /\ a.frame_index = index /\ a.sleep_one_frame = back
        /\ a.requested_drift_correction = zero
        /\ a.measured_tick_count = m
        /\ a.select_prefer_latest = s.select_prefer_latest
    <3> HIDE DEF zero, index, back, a
    <3> QED BY <2>2, <2>3 DEF State
  <2>5. /\ r = I => index = f - 1 /\ back
        /\ r = -I => index = f + 1 /\ ~back
    BY <1>1
  <2> DEFINE product == m * SamplingResolution
  <2>6. product \in Int /\ f = product + 1
    <3>1. product \in Int
      BY <1>1, Constants
    <3> QED BY <1>1, <3>1, OffsetType
  <2>7. lead(a) = index - product
    BY <2>4 DEF lead
  <2>8. /\ r = I => lead(a) = 0
        /\ r = -I => lead(a) = 2
    <3> HIDE DEF a, index, product, r
    <3> QED BY <1>1, <2>5, <2>6, <2>7
  <2>9. /\ r = I => offset(a, since) = u - S
        /\ r = -I => offset(a, since) = u + S
    <3>1. u = S * 1 - since
      BY DEF offset
    <3>2. offset(a, since) = S * lead(a) - since
      BY DEF offset
    <3>3. S * 0 = 0 /\ S * 1 = S /\ S * 2 = S + S
      BY <1>1
    <3> HIDE DEF a, u, r
    <3> QED BY <1>1, <2>8, <3>1, <3>2, <3>3
  <2>10. earliest(0) < offset(a, since) /\ offset(a, since) <= latest(0)
    <3>1. 0 \in -I .. I
      BY <1>1
    <3>2. /\ earliest(0) \in Int /\ earliest(0) <= -S - jitter
          /\ latest(0) \in Int /\ latest(0) >= jitter
      BY <3>1, Latest, Earliest
    <3>3. CASE r = I
      <4>1. u > -jitter
        BY <3>3
      <4>2. u <= S - jitter
        <5>1. latest(r) <= S - jitter /\ latest(r) \in Int
          BY <1>1, Latest
        <5> HIDE DEF u, r
        <5> QED BY <1>1, <5>1
      <4> HIDE DEF u, r, a
      <4> QED BY <1>1, <2>9, <3>2, <3>3, <4>1, <4>2
    <3>4. CASE r = -I
      <4>1. u <= jitter - S
        <5>1. latest(r) = jitter - S
          BY <1>1, <3>4, Latest
        <5> HIDE DEF u, r
        <5> QED BY <1>1, <5>1
      <4>2. u > jitter - 2 * S
        <5>1. earliest(r) >= jitter - 2 * S /\ earliest(r) \in Int
          BY <1>1, Earliest
        <5> HIDE DEF u, r
        <5> QED BY <1>1, <5>1
      <4>3. 2 * jitter <= S
        <5>1. slower \in Nat /\ 2 * jitter + slower * I <= S
          BY DriftBound
        <5>2. slower * I \in Nat
          BY <1>1, <5>1
        <5> QED BY <1>1, <5>1, <5>2
      <4> HIDE DEF u, r, a
      <4> QED BY <1>1, <2>9, <3>2, <3>4, <4>1, <4>2, <4>3
    <3> QED BY <2>1, <3>3, <3>4
  <2>11. lead(a) \in 0 .. 2 /\ lead(a) \in -1 .. SamplingResolution
    BY <2>1, <2>8, Constants DEF Precise
  <2>12. Tracks(a, since)
    <3>1. a.requested_drift_correction = 0 /\ 0 \in -I .. I
      BY <1>1, <2>4
    <3> QED BY <1>1, <2>4, <2>10, <2>11, <3>1 DEF Tracks
  <2>13. a.sleep_one_frame => lead(a) = 0
    <3>1. r = -I => ~back
      BY <2>5
    <3> QED BY <2>1, <2>4, <2>8, <3>1
  <2>14. 0 < I /\ 0 > -I
    BY <1>1
  <2>15. \/ /\ r = I /\ a.requested_drift_correction = zero
            /\ lead(a) = 0 /\ a.sleep_one_frame
         \/ /\ r = -I /\ a.requested_drift_correction = zero
            /\ lead(a) = 2 /\ ~a.sleep_one_frame
            /\ a.frame_index = f + 1
    <3> HIDE DEF index, back, a, r, zero
    <3> QED BY <2>1, <2>4, <2>5, <2>8
  <2> HIDE DEF index, back
  <2> QED BY <2>4, <2>11, <2>12, <2>13, <2>14, <2>15 DEF a, m
<1> QED BY <1>3, <1>4

-------------------------------------------------------------------------------
(* The steps of the composition. *)

(* An entry for every frame of the window.                                   *)
Windowed ==
  /\ window_ticks \in Seq([second : Nat, dirty : BOOLEAN])
  /\ Len(window_ticks) = frame_acc_count

LEMMA ShowStep ==
  ASSUME IInv, Windowed, status = "running", accumulate,
         NEW tick \in BOOLEAN, show(tick)
  PROVE  /\ Windowed'
         /\ second_shown(tick) \in Nat
         /\ window_ticks'[frame_acc_count'] =
              [second |-> second_shown(tick), dirty |-> tick]
         /\ Last(window_ticks') = window_ticks'[frame_acc_count']
         /\ \A a \in 1 .. frame_acc_count' - 1 :
              window_ticks'[frame_acc_count' - a]
                = window_ticks[frame_acc_count - (a - 1)]
<1> DEFINE Entry == [second : Nat, dirty : BOOLEAN]
           w == window_ticks
           k == frame_acc_count
           full == k >= max_frame_acc_count
           kept == IF full THEN Tail(w) ELSE w
           e == [second |-> second_shown(tick), dirty |-> tick]
<1>1. /\ w \in Seq(Entry) /\ Len(w) = k /\ k \in Nat
      /\ max_frame_acc_count \in Nat \ {0}
      /\ k <= max_frame_acc_count
  BY SamplingAssumption DEF Windowed, IInv, Typed, max_frame_acc_count
<1>2. k' = IF full THEN k ELSE k + 1
  BY <1>1, Accumulates DEF IInv
<1>3. second_shown(tick) \in Nat
  <2>1. CASE sync_status < SyncThreshold
    BY <2>1 DEF second_shown
  <2>2. CASE ~(sync_status < SyncThreshold)
    <3>1. k >= 2
      BY <2>2, ThresholdAssumption DEF IInv, Typed, Filling
    <3>2. Last(w) = w[k]
      BY <1>1 DEF Last
    <3>3. w[k] \in Entry
      <4> HIDE DEF Entry, w
      <4>1. k \in 1 .. Len(w)
        BY <1>1, <3>1
      <4> QED BY <1>1, <4>1
    <3>4. second_shown(tick) = w[k].second + (IF tick THEN 1 ELSE 0)
      BY <2>2, <3>2 DEF second_shown
    <3> HIDE DEF w, k
    <3> QED BY <3>3, <3>4
  <2> QED BY <2>1, <2>2
<1>4. e \in Entry
  BY <1>3
<1>5. w' = Append(kept, e)
  BY DEF show
<1> HIDE DEF e, Entry
<1>6. /\ kept \in Seq(Entry)
      /\ Len(kept) = IF full THEN k - 1 ELSE k
      /\ \A i \in 1 .. Len(kept) : kept[i] = IF full THEN w[i + 1] ELSE w[i]
  <2>1. CASE full
    <3>1. w # << >>
      BY <1>1, <2>1
    <3>2. Tail(w) \in Seq(Entry) /\ Len(Tail(w)) = k - 1
      BY <1>1, <3>1
    <3>3. \A i \in 1 .. k - 1 : Tail(w)[i] = w[i + 1]
      BY <1>1, <3>1
    <3>4. kept = Tail(w)
      BY <2>1
    <3> QED BY <2>1, <3>2, <3>3, <3>4
  <2>2. CASE ~full
    BY <1>1, <2>2
  <2> QED BY <2>1, <2>2
<1> HIDE DEF kept
<1>7. /\ w' \in Seq(Entry) /\ Len(w') = Len(kept) + 1
      /\ w'[Len(kept) + 1] = e
      /\ \A i \in 1 .. Len(kept) : w'[i] = kept[i]
  BY <1>4, <1>5, <1>6
<1>8. Len(w') = k' /\ Len(kept) = k' - 1 /\ k' \in Nat
  <2> HIDE DEF w
  <2> QED BY <1>1, <1>2, <1>6, <1>7
<1>9. Last(w') = w'[k']
  BY <1>8 DEF Last
<1>10. \A a \in 1 .. k' - 1 : w'[k' - a] = w[k - (a - 1)]
  <2> SUFFICES ASSUME NEW a \in 1 .. k' - 1
               PROVE  w'[k' - a] = w[k - (a - 1)]
    OBVIOUS
  <2> DEFINE i == k' - a
  <2>1. i \in 1 .. Len(kept) /\ i \in Int
    <3> DEFINE last == Len(kept)
               next == k'
    <3>1. last = next - 1 /\ next \in Nat /\ a \in 1 .. next - 1
      BY <1>8
    <3>2. i = next - a
      OBVIOUS
    <3> HIDE DEF last, next, i
    <3>3. i \in 1 .. last /\ i \in Int
      BY <3>1, <3>2
    <3> QED BY <3>3 DEF last
  <2>2. w'[i] = IF full THEN w[i + 1] ELSE w[i]
    BY <1>6, <1>7, <2>1
  <2>3. k - (a - 1) = IF full THEN i + 1 ELSE i
    <3> HIDE DEF w
    <3> QED BY <1>1, <1>2, <1>8
  <2> HIDE DEF w, i, full
  <2>4. w'[i] = w[k - (a - 1)]
    BY <2>2, <2>3
  <2> QED BY <2>4 DEF i
<1>11. w'[k'] = e
  <2>1. Len(kept) + 1 = k'
    <3> DEFINE last == Len(kept)
               next == k'
    <3>1. last = next - 1 /\ next \in Nat
      BY <1>8
    <3> HIDE DEF last, next
    <3>2. last + 1 = next
      BY <3>1
    <3> QED BY <3>2 DEF last, next
  <2> QED BY <1>7, <2>1
<1> QED BY <1>3, <1>7, <1>8, <1>9, <1>10, <1>11 DEF e, Entry, Windowed

LEMMA ClockStep ==
  ASSUME Precise, Clock, NEW deviation \in -jitter .. jitter, acquire(deviation)
  PROVE  /\ Clock'
         /\ since_shown' = next_since(detects(deviation))
         /\ detects(deviation) => since_shown' < SubSamples + jitter
         /\ select_run(detects(deviation)) /\ show(detects(deviation))
<1> DEFINE interval == tick_interval
           S == SubSamples
           ss == S * SamplingResolution
<1>1. /\ since_shown' = IF detects(deviation)
                        THEN since_shown + S - interval
                        ELSE since_shown + S
      /\ drift' = drift /\ jitter' = jitter
      /\ select_run(detects(deviation)) /\ show(detects(deviation))
  <2>1. since_shown' = IF detects(deviation)
                       THEN since_shown + S - interval
                       ELSE since_shown + S
    <3> DEFINE now == since_shown + SubSamples
               shows == now + deviation >= tick_interval
    <3>1. since_shown' = IF shows THEN now - tick_interval ELSE now
      BY Zenon DEF acquire
    <3>2. since_shown \in Int /\ S \in Int /\ interval \in Int
      BY Constants DEF Clock, tick_interval
    <3>3. shows = detects(deviation)
      BY DEF detects
    <3>4. now - tick_interval = since_shown + S - interval
      <4> HIDE DEF interval
      <4> QED BY <3>2 DEF interval
    <3> HIDE DEF shows
    <3> QED BY <3>1, <3>3, <3>4
  <2>2. drift' = drift /\ jitter' = jitter
    BY Zenon DEF acquire
  <2>3. select_run(detects(deviation))
    BY Zenon DEF acquire, detects
  <2>4. show(detects(deviation))
    BY Zenon DEF acquire, detects
  <2> QED BY <2>1, <2>2, <2>3, <2>4
<1>2. interval \in Int /\ interval >= S /\ S \in Nat \ {0}
  <2>1. ss \in Int /\ ss >= S * 2 /\ S * 2 = S + S /\ S \in Nat \ {0}
    <3>1. S * 2 <= ss
      BY Constants, TimesMonotone DEF Precise
    <3> QED BY <3>1, Constants
  <2>2. interval = ss + drift
    BY DEF tick_interval
  <2>3. drift \in Int /\ -S <= drift
    BY DriftBound, Constants
  <2> HIDE DEF ss, S, interval
  <2> QED BY <2>1, <2>2, <2>3
<1>3. interval' = interval
  BY <1>1 DEF tick_interval
<1>4. /\ since_shown \in Int /\ since_shown < interval + jitter
      /\ -jitter <= since_shown
      /\ jitter \in Nat /\ deviation \in Int /\ deviation <= jitter
      /\ -jitter <= deviation
      /\ drift \in -MaxDrift .. MaxDrift /\ jitter \in 0 .. MaxJitter
  BY DriftBound DEF Clock
<1>5. detects(deviation) <=> since_shown + S + deviation >= interval
  BY DEF detects
<1> HIDE DEF interval, S, ss
<1>6. /\ since_shown' \in Int /\ -jitter <= since_shown'
      /\ since_shown' < interval + jitter
      /\ detects(deviation) => since_shown' < S + jitter
  BY <1>1, <1>2, <1>4, <1>5
<1>7. Clock'
  BY <1>1, <1>3, <1>4, <1>6 DEF Clock, interval
<1> QED BY <1>1, <1>6, <1>7 DEF next_since, S, interval

LEMMA TracksPrimed ==
  ASSUME drift' = drift, jitter' = jitter, Tracks(state', since_shown')
  PROVE  Tracks(state, since_shown)'
  BY DEF Tracks, latest, earliest, slower, faster, offset, lead

LEMMA ClockInitially ==
  ClockInit => IInv /\ Clock /\ Followed /\ Windowed
<1> SUFFICES ASSUME ClockInit PROVE IInv /\ Clock /\ Followed /\ Windowed
  OBVIOUS
<1>1. IInv
  BY Initially DEF ClockInit
<1>2. Clock
  <2> DEFINE interval == tick_interval
             product == SubSamples * SamplingResolution
  <2>1. product \in Int
    BY Constants
  <2>2. interval = product + drift
    BY DEF tick_interval
  <2>3. /\ drift \in -MaxDrift .. MaxDrift /\ drift \in Int
        /\ jitter \in {0, MaxJitter} /\ since_shown \in 0 .. interval - 1
    BY Constants DEF ClockInit
  <2> HIDE DEF interval, product
  <2>4. /\ drift \in -MaxDrift .. MaxDrift /\ jitter \in 0 .. MaxJitter
        /\ since_shown \in Int /\ -jitter <= since_shown
        /\ since_shown < interval + jitter
    BY <2>1, <2>2, <2>3, Constants
  <2> QED BY <2>4 DEF Clock, interval
<1>3. Followed
  BY ThresholdAssumption DEF ClockInit, Init, Followed, Synchronized
<1>4. Windowed
  BY DEF ClockInit, Init, Windowed
<1> QED BY <1>1, <1>2, <1>3, <1>4

(* The detected ticks are in step with the internal clock when it starts ... *)
LEMMA FollowedAtSync ==
  ASSUME Precise, Clock, NEW deviation \in -jitter .. jitter, acquire(deviation),
         detects(deviation), state' = tick_parser_init
  PROVE  Followed'
<1> DEFINE a == tick_parser_init
           x == since_shown'
<1>1. /\ drift' = drift /\ jitter' = jitter
      /\ x \in Int /\ x < SubSamples + jitter /\ -jitter <= x
  <2>1. /\ Clock' /\ x < SubSamples + jitter
    BY ClockStep
  <2>2. drift' = drift /\ jitter' = jitter
    BY Zenon DEF acquire
  <2> QED BY <2>1, <2>2 DEF Clock
<1>2. /\ a.frame_index = 0 /\ a.measured_tick_count = 0
      /\ a.requested_drift_correction = 0 /\ a.sleep_one_frame = FALSE
      /\ a.select_prefer_latest = 0
  BY DEF tick_parser_init
<1> HIDE DEF a
<1>3. lead(a) = 0 /\ offset(a, x) = -x
  <2>1. 0 * SamplingResolution = 0 /\ SubSamples * 0 = 0
    BY Constants
  <2>2. lead(a) = 0
    BY <1>2, <2>1 DEF lead
  <2> HIDE DEF x
  <2> QED BY <1>1, <2>1, <2>2 DEF offset
<1>4. earliest(0) <= -SubSamples - jitter /\ latest(0) >= jitter
      /\ earliest(0) \in Int /\ latest(0) \in Int
      /\ 0 \in -AdjustmentInertia .. AdjustmentInertia
      /\ jitter \in Int
  <2>1. 0 \in -AdjustmentInertia .. AdjustmentInertia
    BY Constants
  <2> QED BY <2>1, Latest, Earliest, DriftBound
<1> HIDE DEF x
<1>5. earliest(0) < offset(a, x) /\ offset(a, x) <= latest(0)
  BY <1>1, <1>3, <1>4, Constants
<1>6. Tracks(a, x)
  BY <1>2, <1>3, <1>4, <1>5, Constants DEF Tracks
<1>7. state' = a
  BY DEF a
<1>8. Tracks(state, since_shown)'
  BY <1>1, <1>6, <1>7, TracksPrimed DEF x
<1>9. /\ state'.requested_drift_correction = 0
      /\ ~state'.sleep_one_frame /\ state'.select_prefer_latest = 0
  BY <1>2, <1>7
<1>10. 0 < AdjustmentInertia /\ -AdjustmentInertia # 0
  BY Constants
<1> QED BY <1>8, <1>9, <1>10 DEF Followed

(* ... and stay so.                                                          *)
LEMMA FollowedStep ==
  ASSUME Precise, IInv, Clock, Followed, Synchronized, status = "running",
         NEW deviation \in -jitter .. jitter, acquire(deviation),
         accumulate, tick_parser(detects(deviation))
  PROVE  /\ Running
         /\ LET s == next_state(detects(deviation)) IN
            \/ tick_parser_between(s) /\ lead(s) # 1
            \/ tick_parser_sleeps(s) /\ lead(s) = 1 /\ ~detects(deviation)
            \/ /\ lead(s) = 1 /\ even(s) /\ ~state.sleep_one_frame
               /\ \/ tick_parser_finishes(s)
                  \/ tick_parser_tick_0(s)
                  \/ tick_parser_selects(s)
         /\ Followed'
<1> DEFINE tick == detects(deviation)
           s == next_state(tick)
           since == next_since(tick)
           a == adjust(s)
           votes == state.requested_drift_correction
           r == s.requested_drift_correction
           I == AdjustmentInertia
<1>1. Running
  BY DEF Running, Followed, IInv, Typed
<1>2. /\ since_shown' = since /\ Clock'
      /\ since \in Int
      /\ drift' = drift /\ jitter' = jitter
      /\ tick \in BOOLEAN
  <2>1. since_shown' = since /\ Clock'
    BY ClockStep
  <2>2. drift' = drift /\ jitter' = jitter
    BY Zenon DEF acquire
  <2>3. since_shown' \in Int
    BY <2>1 DEF Clock
  <2> QED BY <2>1, <2>2, <2>3 DEF detects
<1>3. /\ s \in State /\ s.frame_index = state.frame_index + 1
      /\ s.sleep_one_frame = state.sleep_one_frame
      /\ s.select_prefer_latest =
            IF tick /\ next_lead(state) = 1 THEN 1 ELSE state.select_prefer_latest
      /\ lead(s) = IF tick THEN next_lead(state) ELSE lead(state) + 1
      /\ ~tick => r = votes
  BY <1>1, <1>2, NextState
<1>4. /\ Tracks(s, since)
      /\ r = -I => (~tick /\ votes = -I) \/ lead(s) = -1
      /\ r = I => lead(s) = 1 /\ offset(s, since) > -jitter
  BY <1>1, <1>2, NextTracks
<1>5. /\ phase(s.frame_index) = 1 <=> lead(s) = 1
      /\ lead(s) = 1 => even(s)
  BY <1>3, <1>4, PhaseOfLead DEF Tracks, Precise
<1>6. /\ state.sleep_one_frame => lead(state) = 0 /\ votes = 0
      /\ votes = -I => lead(state) <= 0
      /\ state.select_prefer_latest = 0 /\ votes < I
      /\ lead(state) \in -1 .. SamplingResolution
      /\ I \in Nat \ {0} /\ SamplingResolution >= 4 /\ SamplingResolution \in Nat
      /\ state.frame_index \in Nat
      /\ votes \in -I .. I
  BY Constants DEF Followed, Tracks, Precise, IInv, Typed, State
<1>7. /\ next_lead(state) = lead(state) + 1 - SamplingResolution
      /\ tick => next_lead(state) \in -1 .. 1
  BY <1>1, Detection DEF next_lead
<1>8. state.sleep_one_frame => ~tick /\ lead(s) = 1
  <2> HIDE DEF s, tick
  <2> QED BY <1>3, <1>6, <1>7
<1>9. s = register_tick([state EXCEPT !.frame_index = @ + 1], tick)
  BY DEF next_state
<1>10. \/ tick_parser_between(s)
       \/ tick_parser_sleeps(s)
       \/ tick_parser_finishes(s)
       \/ tick_parser_tick_0(s)
       \/ tick_parser_selects(s)
  BY <1>9, Zenon DEF tick_parser
<1>11. CASE tick_parser_between(s)
  <2>1. lead(s) # 1 /\ state' = s
    BY <1>5, <1>11 DEF tick_parser_between
  <2>2. ~state.sleep_one_frame
    BY <1>8, <2>1
  <2>3. /\ r < I
        /\ r = -I => lead(s) <= 0
        /\ s.select_prefer_latest = 0
    <3>1. r \in -I .. I
      BY <1>4 DEF Tracks
    <3>2. r # I
      BY <1>4, <2>1
    <3>3. r = -I /\ ~tick /\ votes = -I => lead(s) <= 0
      <4> HIDE DEF s, tick, votes, I
      <4>1. lead(s) \in Int
        BY <1>3, OffsetType
      <4> QED BY <1>3, <1>6, <2>1, <4>1
    <3>4. s.select_prefer_latest = 0
      BY <1>3, <1>6, <2>1
    <3> HIDE DEF s, I, tick, votes
    <3> QED BY <1>4, <1>6, <3>1, <3>2, <3>3, <3>4
  <2>4. Tracks(state, since_shown)'
    BY <1>2, <1>4, <2>1, TracksPrimed
  <2>5. lead(state)' = lead(s)
    <3> HIDE DEF s
    <3> QED BY <2>1 DEF lead
  <2>6. Followed'
    <3>1. /\ state' = s /\ ~s.sleep_one_frame
      BY <1>3, <2>1, <2>2
    <3>2. /\ state'.requested_drift_correction < I
          /\ state'.requested_drift_correction = -I => lead(state)' <= 0
          /\ ~state'.sleep_one_frame /\ state'.select_prefer_latest = 0
      BY <2>3, <2>5, <3>1
    <3> QED BY <2>4, <3>2 DEF Followed
  <2> QED BY <1>1, <1>11, <2>1, <2>6
<1>12. CASE tick_parser_sleeps(s)
  <2>1. /\ lead(s) = 1 /\ s.sleep_one_frame /\ ~tick
        /\ state' = [s EXCEPT !.sleep_one_frame = FALSE]
    BY <1>3, <1>5, <1>8, <1>12 DEF tick_parser_sleeps
  <2>2. /\ state'.requested_drift_correction = r
        /\ state'.frame_index = s.frame_index
        /\ state'.measured_tick_count = s.measured_tick_count
        /\ state'.select_prefer_latest = s.select_prefer_latest
        /\ ~state'.sleep_one_frame
    <3> HIDE DEF s
    <3> QED BY <1>3, <2>1 DEF State
  <2>3. r = 0 /\ s.select_prefer_latest = 0
    BY <1>3, <1>6, <2>1
  <2>4. Tracks(state', since_shown')
    <3> HIDE DEF s, since
    <3>1. lead(state') = lead(s)
      BY <2>2 DEF lead
    <3>2. offset(state', since) = offset(s, since)
      BY <3>1 DEF offset
    <3> QED BY <1>2, <1>4, <2>2, <3>1, <3>2 DEF Tracks
  <2>5. Tracks(state, since_shown)'
    BY <1>2, <2>4, TracksPrimed
  <2>6. 0 < I /\ 0 # -I
    BY <1>6
  <2>7. Followed'
    BY <2>2, <2>3, <2>5, <2>6 DEF Followed
  <2> QED BY <1>1, <1>12, <2>1, <2>7
<1>13. CASE takes_stock(s) /\ state' \in {a, [a EXCEPT !.select_prefer_latest = 0]}
                          /\ (status' = "running" =>
                                state' = [a EXCEPT !.select_prefer_latest = 0])
  <2>1. lead(s) = 1 /\ even(s) /\ ~s.sleep_one_frame
    BY <1>5, <1>13 DEF takes_stock
  <2>2. s.frame_index > 0
    <3> HIDE DEF s
    <3> QED BY <1>3, <1>6
  <2>3. /\ a \in State /\ Tracks(a, since)
        /\ a.requested_drift_correction < I
        /\ a.requested_drift_correction > -I
        /\ a.sleep_one_frame => lead(a) = 0 /\ a.requested_drift_correction = 0
    <3> HIDE DEF s, since
    <3> QED BY <1>2, <1>3, <1>4, <2>1, <2>2, AdjustTracks
  <2>4. Followed'
    <3> SUFFICES ASSUME Synchronized', status' = "running" PROVE Followed'
      BY DEF Followed
    <3> DEFINE zero == 0
    <3>1. state' = [a EXCEPT !.select_prefer_latest = zero]
      BY <1>13
    <3>2. /\ state'.requested_drift_correction = a.requested_drift_correction
          /\ state'.frame_index = a.frame_index
          /\ state'.measured_tick_count = a.measured_tick_count
          /\ state'.sleep_one_frame = a.sleep_one_frame
          /\ state'.select_prefer_latest = zero
      <4> HIDE DEF a, zero
      <4> QED BY <2>3, <3>1 DEF State
    <3> HIDE DEF a, since
    <3>3. lead(state') = lead(a)
      BY <3>2 DEF lead
    <3>4. offset(state', since) = offset(a, since)
      BY <3>3 DEF offset
    <3>5. Tracks(state', since_shown')
      BY <1>2, <2>3, <3>2, <3>3, <3>4 DEF Tracks
    <3>6. Tracks(state, since_shown)'
      BY <1>2, <3>5, TracksPrimed
    <3>7. lead(state)' = lead(a)
      BY <3>3 DEF lead
    <3>8. a.requested_drift_correction # -I
      <4>1. a.requested_drift_correction \in Int
        BY <2>3 DEF State
      <4> QED BY <1>6, <2>3, <4>1
    <3> QED BY <2>3, <3>2, <3>6, <3>7, <3>8 DEF Followed
  <2>5. ~tick_parser_between(s) /\ ~tick_parser_sleeps(s)
    BY <1>5, <2>1 DEF tick_parser_between, tick_parser_sleeps
  <2>6. ~state.sleep_one_frame
    BY <1>3, <2>1
  <2> QED BY <1>1, <1>10, <2>1, <2>4, <2>5, <2>6
<1>14. CASE tick_parser_finishes(s)
  BY <1>13, <1>14 DEF tick_parser_finishes
<1>15. CASE tick_parser_tick_0(s)
  BY <1>13, <1>15 DEF tick_parser_tick_0
<1>16. CASE tick_parser_selects(s)
  BY <1>13, <1>16 DEF tick_parser_selects
<1> QED BY <1>10, <1>11, <1>12, <1>14, <1>15, <1>16

LEMMA AcquireStep ==
  ASSUME Precise, IInv, Clock, Followed, Windowed,
         NEW deviation \in -jitter .. jitter, acquire(deviation)
  PROVE  /\ IInv' /\ Clock' /\ Followed' /\ Windowed'
         /\ status = "running" /\ accumulate /\ show(detects(deviation))
         /\ \/ ~Synchronized /\ ~Synchronized' /\ selected' = selected
            \/ /\ ~Synchronized /\ Synchronized' /\ selected' = selected
               /\ detects(deviation) /\ state' = tick_parser_init
            \/ Synchronized /\ Synchronized' /\ tick_parser(detects(deviation))
<1> DEFINE tick == detects(deviation)
<1>1. /\ tick \in BOOLEAN /\ select_run(tick) /\ show(tick) /\ Clock'
  BY ClockStep DEF detects
<1> HIDE DEF tick
<1>2. status = "running" /\ accumulate
  BY <1>1 DEF select_run
<1>3. IInv'
  BY <1>1, Invariance DEF Next
<1>4. Windowed'
  BY <1>1, <1>2, ShowStep
<1>5. CASE first_frame \/ update_img_diff_collects
  <2>1. ~Synchronized' /\ sync_status' = sync_status /\ selected' = selected
    <3>1. sync_status' = sync_status /\ selected' = selected
      BY <1>5 DEF first_frame, update_img_diff_collects, syncVars, parserVars
    <3>2. sync_status' > 0 => frame_acc_count' >= 2 /\ diff_count' = DiffBufferCount
      BY <1>3, ThresholdAssumption DEF IInv, Typed, Filling
    <3>3. ~(sync_status' > 0)
      <4>1. CASE first_frame
        <5>1. ~(frame_acc_count' >= 2)
          BY <1>3, <4>1 DEF first_frame, IInv, Typed
        <5> QED BY <3>2, <5>1
      <4>2. CASE update_img_diff_collects
        <5>1. diff_count' # DiffBufferCount
          BY <4>2, ThresholdAssumption DEF update_img_diff_collects, IInv, Typed
        <5> QED BY <3>2, <5>1
      <4> QED BY <1>5, <4>1, <4>2
    <3> QED BY <3>1, <3>3, ThresholdAssumption DEF Synchronized
  <2>2. ~Synchronized
    BY <2>1 DEF Synchronized
  <2>3. Followed'
    BY <2>1 DEF Followed
  <2> QED BY <1>1, <1>2, <1>3, <1>4, <2>1, <2>2, <2>3 DEF tick
<1>6. CASE synchronize(tick)
  <2>1. ~Synchronized /\ selected' = selected
    BY <1>6, ThresholdAssumption DEF synchronize, parserVars, Synchronized
  <2>2. CASE ~Synchronized'
    <3>1. Followed'
      BY <2>2 DEF Followed
    <3> QED BY <1>1, <1>2, <1>3, <1>4, <2>1, <2>2, <3>1 DEF tick
  <2>3. CASE Synchronized'
    <3>1. tick /\ state' = tick_parser_init
      BY <1>6, <2>1, <2>3, ThresholdAssumption DEF synchronize, Synchronized, IInv, Typed
    <3>2. Followed'
      BY <3>1, FollowedAtSync DEF tick
    <3> QED BY <1>1, <1>2, <1>3, <1>4, <2>1, <2>3, <3>1, <3>2 DEF tick
  <2> QED BY <2>2, <2>3
<1>7. CASE tick_parser(tick)
  <2>1. Synchronized /\ Synchronized'
    <3>1. sync_status >= SyncThreshold /\ sync_status' = sync_status
      BY <1>7 DEF tick_parser, syncVars
    <3> QED BY <3>1, ThresholdAssumption DEF IInv, Typed, Synchronized
  <2>2. Followed'
    BY <1>2, <1>7, <2>1, FollowedStep DEF tick
  <2> QED BY <1>1, <1>2, <1>3, <1>4, <1>7, <2>1, <2>2 DEF tick
<1> QED BY <1>1, <1>2, <1>5, <1>6, <1>7 DEF select_run, tick

LEMMA NothingAcquired ==
  ASSUME IInv, Clock, Followed, Windowed, UNCHANGED clockAll
  PROVE  IInv' /\ Clock' /\ Followed' /\ Windowed'
<1>1. /\ UNCHANGED vars /\ drift' = drift /\ jitter' = jitter
      /\ since_shown' = since_shown /\ window_ticks' = window_ticks
      /\ state' = state /\ status' = status /\ sync_status' = sync_status
      /\ frame_acc_count' = frame_acc_count
  BY DEF clockAll, clockVars, vars, syncVars, parserVars
<1>2. IInv'
  BY <1>1, Invariance
<1>3. Clock'
  BY <1>1 DEF Clock, tick_interval
<1>4. Followed'
  <2> SUFFICES ASSUME Synchronized', status' = "running" PROVE Followed'
    BY DEF Followed
  <2>1. Synchronized /\ status = "running"
    BY <1>1 DEF Synchronized
  <2>2. Tracks(state, since_shown)'
    <3>1. Tracks(state', since_shown')
      BY <1>1, <2>1 DEF Followed
    <3> QED BY <1>1, <3>1, TracksPrimed
  <2> QED BY <1>1, <2>1, <2>2 DEF Followed, lead
<1>5. Windowed'
  BY <1>1 DEF Windowed
<1> QED BY <1>2, <1>3, <1>4, <1>5

Follows ==
  Synchronized /\ phase(state.frame_index + 1) = 1 /\ ~state.sleep_one_frame =>
    state.measured_tick_count + (IF Last(window_ticks').dirty THEN 1 ELSE 0)
      = tick_count(state.frame_index + 1)

LEMMA AcquireFollows ==
  ASSUME Precise, IInv, Clock, Followed, Windowed,
         NEW deviation \in -jitter .. jitter, acquire(deviation)
  PROVE  Follows
<1> SUFFICES ASSUME Synchronized, phase(state.frame_index + 1) = 1,
                    ~state.sleep_one_frame
             PROVE  state.measured_tick_count
                      + (IF Last(window_ticks').dirty THEN 1 ELSE 0)
                      = tick_count(state.frame_index + 1)
  BY DEF Follows
<1> DEFINE tick == detects(deviation)
           s == next_state(tick)
<1>1. /\ status = "running" /\ accumulate /\ show(tick) /\ tick_parser(tick)
      /\ tick \in BOOLEAN
  BY AcquireStep DEF detects
<1>2. Last(window_ticks').dirty = tick
  <2> HIDE DEF tick
  <2>1. Last(window_ticks') = [second |-> second_shown(tick), dirty |-> tick]
    BY <1>1, ShowStep, Zenon
  <2> QED BY <2>1
<1>3. /\ Running
      /\ \/ tick_parser_between(s)
         \/ tick_parser_sleeps(s)
         \/ even(s)
  BY <1>1, FollowedStep
<1>4. /\ s.frame_index = state.frame_index + 1
      /\ s.sleep_one_frame = state.sleep_one_frame
      /\ s.measured_tick_count = state.measured_tick_count + (IF tick THEN 1 ELSE 0)
  BY <1>1, <1>3, NextState
<1> HIDE DEF s, tick
<1>5. even(s)
  BY <1>3, <1>4 DEF tick_parser_between, tick_parser_sleeps
<1> QED BY <1>2, <1>4, <1>5 DEF even

-------------------------------------------------------------------------------
(* The frames of a second. *)

(* The frames of these ages show that tick, and none is the first to.        *)
Show(window, count, first, last, tick) ==
  \A a \in first .. last : a < count =>
    window[count - a] = [second |-> tick, dirty |-> FALSE]

(* The latest detected tick was detected b frames ago, the one before it c    *)
(* frames ago.                                                               *)
ShowsTicks(window, count, ticks, b, c) ==
  /\ window[count].second = ticks
  /\ Show(window, count, 0, b - 1, ticks)
  /\ ticks > 0 => Show(window, count, b + 1, c - 1, ticks - 1)

(* By how many frames they were late, as the internal clock is now, and what  *)
(* the votes tell of it.                                                     *)
late(s, b) == lead(s) - b
late_before(s, c) == lead(s) + SamplingResolution - c

Voted(s, b, c) ==
  LET votes == s.requested_drift_correction IN
  /\ b < c
  /\ late(s, b) \in -1 .. 1 /\ late_before(s, c) \in -1 .. 1
  /\ late(s, b) = -1 => votes < 0
  /\ late(s, b) = 1 => votes > 0
  /\ late_before(s, c) = -1 => votes <= 0
  /\ late_before(s, c) = 1 => votes >= 0
  /\ votes = -AdjustmentInertia => late(s, b) = -1
  /\ votes = AdjustmentInertia => late(s, b) = 1

(* Whether the internal clock was moved when stock was taken last.           *)
moved ==
  last_tick_index + since_stock(state.frame_index) # SamplingResolution + 1

Ticked(b, c) ==
  /\ ShowsTicks(window_ticks, frame_acc_count, state.measured_tick_count, b, c)
  /\ Voted(state, b, c)
  /\ state.sleep_one_frame \/ state.frame_index = 0 => late(state, b) = 0
  /\ state.frame_index > 0 /\ ~state.sleep_one_frame /\ moved =>
       IF lead(state) > 0 THEN late(state, b) = 0 ELSE late_before(state, c) = 0

Ticking ==
  Synchronized /\ status = "running" => \E b, c \in Nat : Ticked(b, c)

Shown == selected.count > 0 => shown = selected.count - 1

(* A tick that is detected now was detected no frame ago.                    *)
next_b(tick, b) == IF tick THEN 0 ELSE b + 1
next_c(tick, b, c) == IF tick THEN b + 1 ELSE c + 1

LEMMA NextShowsTicks ==
  ASSUME IInv, Windowed, status = "running", accumulate,
         NEW tick \in BOOLEAN, show(tick), Synchronized,
         NEW m \in Nat, NEW b \in Nat, NEW c \in Nat,
         ShowsTicks(window_ticks, frame_acc_count, m, b, c)
  PROVE  ShowsTicks(window_ticks', frame_acc_count',
                    m + (IF tick THEN 1 ELSE 0), next_b(tick, b), next_c(tick, b, c))
<1> DEFINE w == window_ticks
           k == frame_acc_count
           next == w'
           size == k'
           ticks == m + (IF tick THEN 1 ELSE 0)
           clean(x) == [second |-> x, dirty |-> FALSE]
<1>1. /\ k \in Nat /\ k > 0 /\ size \in Nat
      /\ size <= k + 1
  BY Accumulates, SamplingAssumption, ThresholdAssumption
     DEF IInv, Typed, Filling, Synchronized, max_frame_acc_count
<1>2. second_shown(tick) = ticks
  <2>1. Last(w) = w[k]
    BY Zenon DEF Last, Windowed
  <2>2. ~(sync_status < SyncThreshold)
    BY ThresholdAssumption DEF Synchronized
  <2>3. w[k].second = m
    BY DEF ShowsTicks
  <2> QED BY <2>1, <2>2, <2>3 DEF second_shown
<1>3. /\ next[size] = [second |-> ticks, dirty |-> tick]
      /\ \A a \in 1 .. size - 1 : next[size - a] = w[k - (a - 1)]
  BY <1>2, ShowStep
<1>4. /\ w[k].second = m
      /\ \A a \in 0 .. b - 1 : a < k => w[k - a] = clean(m)
      /\ m > 0 => \A a \in b + 1 .. c - 1 : a < k => w[k - a] = clean(m - 1)
  BY DEF ShowsTicks, Show
<1> HIDE DEF w, k, next, size, clean
<1>5. \A a \in 1 .. b : a < size => next[size - a] = clean(m)
  <2> SUFFICES ASSUME NEW a \in 1 .. b, a < size
               PROVE  next[size - a] = clean(m)
    OBVIOUS
  <2>1. a \in 1 .. size - 1 /\ a - 1 \in 0 .. b - 1 /\ a - 1 < k
    BY <1>1
  <2>2. w[k - (a - 1)] = clean(m)
    BY <1>4, <2>1
  <2> QED BY <1>3, <2>1, <2>2
<1>6. m > 0 => \A a \in b + 2 .. c : a < size => next[size - a] = clean(m - 1)
  <2> SUFFICES ASSUME m > 0, NEW a \in b + 2 .. c, a < size
               PROVE  next[size - a] = clean(m - 1)
    OBVIOUS
  <2>1. a \in 1 .. size - 1 /\ a - 1 \in b + 1 .. c - 1 /\ a - 1 < k
    BY <1>1
  <2>2. w[k - (a - 1)] = clean(m - 1)
    BY <1>4, <2>1
  <2> QED BY <1>3, <2>1, <2>2
<1>7. CASE tick
  <2>1. ticks = m + 1 /\ next[size].second = m + 1 /\ m + 1 - 1 = m /\ m + 1 > 0
    BY <1>3, <1>7
  <2>2. Show(next, size, 0, 0 - 1, m + 1)
    BY DEF Show
  <2>3. Show(next, size, 0 + 1, b + 1 - 1, m)
    <3>1. 0 + 1 = 1 /\ b + 1 - 1 = b
      OBVIOUS
    <3> QED BY <1>5, <3>1 DEF Show, clean
  <2>4. ShowsTicks(next, size, m + 1, 0, b + 1)
    BY <2>1, <2>2, <2>3 DEF ShowsTicks
  <2> QED BY <1>7, <2>1, <2>4 DEF next_b, next_c, next, size, w, k
<1>8. CASE ~tick
  <2>1. ticks = m /\ next[size] = clean(m) /\ next[size].second = m
    <3>1. ticks = m /\ tick = FALSE
      BY <1>8
    <3>2. next[size] = [second |-> m, dirty |-> FALSE]
      BY <1>3, <3>1
    <3> QED BY <3>1, <3>2 DEF clean
  <2>2. Show(next, size, 0, b + 1 - 1, m)
    <3> SUFFICES ASSUME NEW a \in 0 .. b + 1 - 1, a < size
                 PROVE  next[size - a] = clean(m)
      BY DEF Show, clean
    <3>1. CASE a = 0
      <4>1. size - a = size
        BY <1>1, <3>1
      <4> QED BY <2>1, <4>1
    <3>2. CASE a \in 1 .. b
      BY <1>5, <3>2
    <3> QED BY <3>1, <3>2
  <2>3. m > 0 => Show(next, size, b + 1 + 1, c + 1 - 1, m - 1)
    <3>1. b + 1 + 1 = b + 2 /\ c + 1 - 1 = c
      OBVIOUS
    <3> QED BY <1>6, <3>1 DEF Show, clean
  <2>4. ShowsTicks(next, size, m, b + 1, c + 1)
    BY <2>1, <2>2, <2>3 DEF ShowsTicks
  <2> QED BY <1>8, <2>1, <2>4 DEF next_b, next_c, next, size, w, k
<1> QED BY <1>7, <1>8

LEMMA NextVoted ==
  ASSUME Running, NEW deviation \in -jitter .. jitter,
         NEW tick \in BOOLEAN, tick <=> detects(deviation),
         NEW b \in Nat, NEW c \in Nat, Voted(state, b, c)
  PROVE  LET s == next_state(tick) IN
         /\ Voted(s, next_b(tick, b), next_c(tick, b, c))
         /\ late(s, next_b(tick, b)) = IF tick THEN lead(s) ELSE late(state, b)
         /\ late_before(s, next_c(tick, b, c)) =
              IF tick THEN late(state, b) ELSE late_before(state, c)
<1> DEFINE s == next_state(tick)
           votes == state.requested_drift_correction
           r == s.requested_drift_correction
           I == AdjustmentInertia
           n == SamplingResolution
           q == next_lead(state)
           l == lead(state)
           next == lead(s)
           d == late(state, b)
           e == late_before(state, c)
           b1 == next_b(tick, b)
           c1 == next_c(tick, b, c)
<1>1. /\ next = IF tick THEN q ELSE l + 1
      /\ q = l + 1 - n
      /\ r = IF ~tick THEN votes
             ELSE IF q = -1 THEN votes - 1
             ELSE IF q = 1 THEN votes + 1
             ELSE IF votes < 0 THEN votes + 1
             ELSE IF votes > 0 THEN votes - 1
             ELSE 0
  BY NextState DEF next_lead
<1>2. /\ l \in Int /\ n \in Nat /\ I \in Nat \ {0} /\ votes \in -I .. I /\ votes < I
      /\ d = l - b /\ e = l + n - c
  <2>1. l \in Int
    BY OffsetType DEF Running, Clock
  <2> QED BY <2>1, Constants DEF Running, Tracks, late, late_before
<1>3. /\ b < c /\ d \in -1 .. 1 /\ e \in -1 .. 1
      /\ d = -1 => votes < 0
      /\ d = 1 => votes > 0
      /\ e = -1 => votes <= 0
      /\ e = 1 => votes >= 0
      /\ votes = -I => d = -1
  BY DEF Voted
<1>4. /\ b1 = IF tick THEN 0 ELSE b + 1
      /\ c1 = IF tick THEN b + 1 ELSE c + 1
      /\ late(s, b1) = next - b1
      /\ late_before(s, c1) = next + n - c1
  BY DEF next_b, next_c, late, late_before
<1>5. tick =>
        /\ q \in -1 .. 1 /\ votes > -I
        /\ q = -1 => votes <= 0
        /\ q = 1 => votes >= 0
  BY Detection
<1> DEFINE d1 == late(s, b1)
           e1 == late_before(s, c1)
<1> HIDE DEF s, votes, r, I, n, q, l, next, d, e, b1, c1, d1, e1
<1>6. /\ b1 < c1
      /\ d1 = IF tick THEN next ELSE d
      /\ e1 = IF tick THEN d ELSE e
      /\ tick => next = q
  <2>1. d1 = next - b1 /\ e1 = next + n - c1
    BY <1>4 DEF d1, e1
  <2>2. CASE tick
    BY <1>1, <1>2, <1>4, <1>5, <2>1, <2>2
  <2>3. CASE ~tick
    BY <1>1, <1>2, <1>3, <1>4, <2>1, <2>3
  <2> QED BY <2>2, <2>3
<1>7. /\ d1 \in -1 .. 1 /\ e1 \in -1 .. 1
      /\ d1 = -1 => r < 0
      /\ d1 = 1 => r > 0
      /\ e1 = -1 => r <= 0
      /\ e1 = 1 => r >= 0
      /\ r = -I => d1 = -1
      /\ r = I => d1 = 1
  <2>1. CASE ~tick
    BY <1>1, <1>2, <1>3, <1>6, <2>1
  <2>2. CASE tick /\ q = -1
    BY <1>1, <1>2, <1>3, <1>5, <1>6, <2>2
  <2>3. CASE tick /\ q = 0
    BY <1>1, <1>2, <1>3, <1>5, <1>6, <2>3
  <2>4. CASE tick /\ q = 1
    BY <1>1, <1>2, <1>3, <1>5, <1>6, <2>4
  <2> QED BY <1>5, <2>1, <2>2, <2>3, <2>4
<1>8. Voted(s, b1, c1)
  BY <1>6, <1>7 DEF Voted, d1, e1, r, I
<1> QED BY <1>6, <1>8 DEF s, next, d, e, b1, c1, d1, e1

LEMMA AdjustVoted ==
  ASSUME Precise, Clock, NEW s \in State, NEW since \in Int, Tracks(s, since),
         s.frame_index > 0, lead(s) = 1, ~s.sleep_one_frame,
         s.requested_drift_correction = AdjustmentInertia =>
           offset(s, since) > -jitter,
         NEW b \in Nat, NEW c \in Nat, Voted(s, b, c)
  PROVE  LET a == adjust(s) IN
         /\ Voted(a, b, c)
         /\ a.measured_tick_count = s.measured_tick_count
         /\ \/ a = s
            \/ a.sleep_one_frame /\ late(a, b) = 0
            \/ /\ ~a.sleep_one_frame /\ late(a, b) = 0 /\ lead(a) = 2
               /\ a.frame_index = s.frame_index + 1
<1> DEFINE a == adjust(s)
           votes == a.requested_drift_correction
           r == s.requested_drift_correction
           I == AdjustmentInertia
           n == SamplingResolution
           d == late(s, b)
           e == late_before(s, c)
           d1 == late(a, b)
           e1 == late_before(a, c)
           l1 == lead(a)
<1>1. /\ a.measured_tick_count = s.measured_tick_count
      /\ \/ a = s
         \/ r = I /\ votes = 0 /\ l1 = 0 /\ a.sleep_one_frame
         \/ /\ r = -I /\ votes = 0 /\ l1 = 2 /\ ~a.sleep_one_frame
            /\ a.frame_index = s.frame_index + 1
  BY AdjustTracks
<1>2. /\ d = 1 - b /\ e = 1 + n - c /\ d1 = l1 - b /\ e1 = l1 + n - c
      /\ n \in Nat /\ I \in Nat \ {0}
  BY Constants DEF late, late_before
<1>3. /\ b < c /\ d \in -1 .. 1 /\ e \in -1 .. 1
      /\ e = -1 => r <= 0
      /\ e = 1 => r >= 0
      /\ r = -I => d = -1
      /\ r = I => d = 1
  BY DEF Voted
<1>4. CASE a = s
  BY <1>4
<1>5. CASE r = I /\ votes = 0 /\ l1 = 0 /\ a.sleep_one_frame
  <2>1. d1 = 0 /\ e1 \in -1 .. 0
    <3> HIDE DEF a, votes, r, I, n, d, e, d1, e1, l1
    <3> QED BY <1>2, <1>3, <1>5
  <2>2. 0 # I /\ 0 # -I
    BY <1>2
  <2>3. Voted(a, b, c)
    <3> HIDE DEF a, I
    <3> QED BY <1>3, <1>5, <2>1, <2>2 DEF Voted, I
  <2> QED BY <1>1, <1>5, <2>1, <2>3
<1>6. CASE /\ r = -I /\ votes = 0 /\ l1 = 2 /\ ~a.sleep_one_frame
           /\ a.frame_index = s.frame_index + 1
  <2>1. d1 = 0 /\ e1 \in 0 .. 1
    <3> HIDE DEF a, votes, r, I, n, d, e, d1, e1, l1
    <3> QED BY <1>2, <1>3, <1>6
  <2>2. 0 # I /\ 0 # -I
    BY <1>2
  <2>3. Voted(a, b, c)
    <3> HIDE DEF a, I
    <3> QED BY <1>3, <1>6, <2>1, <2>2 DEF Voted, I
  <2> QED BY <1>1, <1>6, <2>1, <2>3
<1> QED BY <1>1, <1>4, <1>5, <1>6

(* The frame halfway between two internal ticks is between two detected ones. *)
LEMMA Halfway ==
  ASSUME NEW n \in Nat, n >= 4, NEW last \in 1 .. 3, NEW plus \in {0, 1},
         NEW b \in Nat, NEW c \in Nat,
         b <= 2, plus = 1 => b = 0,
         c \in n .. n + 2, last # 2 => c = n + 1
  PROVE  LET a == n + 4 - 1 - ((last + (n + 4) - 2) \div 2 + plus) IN
         a \in b + 1 .. c - 1 /\ a < n + 4
<1> DEFINE h == (last + (n + 4) - 2) \div 2
           a == n + 4 - 1 - (h + plus)
<1>1. h \in Int /\ 2 * h <= last + n + 2 /\ last + n + 1 <= 2 * h
  OBVIOUS
<1> HIDE DEF h
<1>2. CASE plus = 0
  <2>1. a = n + 3 - h
    BY <1>1, <1>2
  <2> HIDE DEF a
  <2>2. a > 2 /\ a < c /\ a < n + 4
    <3>1. CASE last = 2
      BY <1>1, <2>1, <3>1
    <3>2. CASE last # 2
      BY <1>1, <2>1, <3>2
    <3> QED BY <3>1, <3>2
  <2>3. a \in b + 1 .. c - 1 /\ a < n + 4
    BY <1>1, <2>1, <2>2
  <2> QED BY <2>3 DEF a, h
<1>3. CASE plus = 1
  <2>1. a = n + 2 - h
    BY <1>1, <1>3
  <2> HIDE DEF a
  <2>2. a > 0 /\ a < c /\ a < n + 4
    <3>1. CASE last = 2
      BY <1>1, <2>1, <3>1
    <3>2. CASE last # 2
      BY <1>1, <2>1, <3>2
    <3> QED BY <3>1, <3>2
  <2>3. a \in b + 1 .. c - 1 /\ a < n + 4
    BY <1>1, <1>3, <2>1, <2>2
  <2> QED BY <2>3 DEF a, h
<1> QED BY <1>2, <1>3

(* The second of a selected frame, by the number of frames selected.         *)
SelectsClean ==
  selected'.count > selected.count =>
    selected_entry = [second |-> selected'.count - 1, dirty |-> FALSE]

LEMMA BetweenTicked ==
  ASSUME Precise, IInv, Clock, Followed, Synchronized, status = "running",
         NEW deviation \in -jitter .. jitter, NEW tick \in BOOLEAN,
         tick <=> detects(deviation), NEW b \in Nat, NEW c \in Nat, Ticked(b, c),
         Running, tick_parser_between(next_state(tick)), lead(next_state(tick)) # 1,
         ShowsTicks(window_ticks', frame_acc_count',
                    next_state(tick).measured_tick_count,
                    next_b(tick, b), next_c(tick, b, c))
  PROVE  Ticked(next_b(tick, b), next_c(tick, b, c))'
<1> DEFINE s == next_state(tick)
           b1 == next_b(tick, b)
           c1 == next_c(tick, b, c)
           n == state.frame_index
           l == lead(state)
           q == next_lead(state)
<1>1. /\ s \in State /\ s.frame_index = n + 1 /\ n \in Nat
      /\ s.sleep_one_frame = state.sleep_one_frame
      /\ lead(s) = IF tick THEN q ELSE l + 1
      /\ q = l + 1 - SamplingResolution
      /\ tick => q \in -1 .. 1
      /\ l \in Int /\ SamplingResolution \in Nat /\ SamplingResolution >= 4
  <2>1. n \in Nat
    BY DEF IInv, Typed, State
  <2>2. l \in Int
    BY OffsetType DEF Running, Clock
  <2> QED BY <2>1, <2>2, NextState, Detection, Constants DEF next_lead, Precise
<1>2. /\ Voted(s, b1, c1)
      /\ late(s, b1) = IF tick THEN lead(s) ELSE late(state, b)
      /\ late_before(s, c1) = IF tick THEN late(state, b) ELSE late_before(state, c)
  BY NextVoted DEF Ticked
<1>3. /\ phase(n + 1) # 1 /\ state' = s
      /\ last_tick_index' = last_tick_index - 1
  BY <1>1 DEF tick_parser_between
<1>4. n > 0 /\ ~state.sleep_one_frame
  <2>1. n # 0
    BY <1>3, FirstFrames
  <2>2. phase(n) # 0
    BY <1>1, <1>3, SinceStock
  <2> QED BY <1>1, <2>1, <2>2 DEF IInv, LatestTick
<1>5. last_tick_index' + since_stock(n + 1) = last_tick_index + since_stock(n)
  <2>1. since_stock(n + 1) = since_stock(n) + 1
    BY <1>1, <1>3, SinceStock
  <2>2. since_stock(n) \in Int /\ last_tick_index \in Int
    <3>1. phase(n) \in Int
      BY <1>1, PhaseRange
    <3> QED BY <3>1, Constants DEF since_stock, IInv, Typed
  <2> QED BY <1>3, <2>1, <2>2
<1>6. moved <=> moved'
  <2>1. state'.frame_index = n + 1
    BY <1>1, <1>3
  <2> QED BY <1>5, <2>1 DEF moved
<1>7. moved => IF l > 0 THEN late(state, b) = 0 ELSE late_before(state, c) = 0
  BY <1>4 DEF Ticked
<1>8. moved => IF lead(s) > 0 THEN late(s, b1) = 0 ELSE late_before(s, c1) = 0
  <2>1. lead(s) # 1
    OBVIOUS
  <2> HIDE DEF s, b1, c1, q, l
  <2>2. CASE tick
    BY <1>1, <1>2, <1>7, <2>1, <2>2
  <2>3. CASE ~tick
    BY <1>1, <1>2, <1>7, <2>1, <2>3
  <2> QED BY <2>2, <2>3
<1>9. ~s.sleep_one_frame /\ s.frame_index # 0
  <2> HIDE DEF s
  <2> QED BY <1>1, <1>4
<1>10. ShowsTicks(window_ticks', frame_acc_count', s.measured_tick_count, b1, c1)
  OBVIOUS
<1> HIDE DEF s, b1, c1
<1> SUFFICES Ticked(b1, c1)'
  BY DEF b1, c1
<1>11. b1' = b1 /\ c1' = c1
  BY DEF b1, c1, next_b, next_c
<1>12. /\ Voted(state, b1, c1)' /\ lead(state)' = lead(s)
       /\ late(state, b1)' = late(s, b1)
       /\ late_before(state, c1)' = late_before(s, c1)
  BY <1>2, <1>3, <1>11 DEF Voted, late, late_before, lead
<1> QED BY <1>3, <1>6, <1>8, <1>9, <1>10, <1>11, <1>12 DEF Ticked

LEMMA SleepsTicked ==
  ASSUME Precise, IInv, Clock, Followed, Synchronized, status = "running",
         NEW deviation \in -jitter .. jitter, NEW tick \in BOOLEAN,
         tick <=> detects(deviation), NEW b \in Nat, NEW c \in Nat, Ticked(b, c),
         Running, tick_parser_sleeps(next_state(tick)), lead(next_state(tick)) = 1,
         ~tick,
         ShowsTicks(window_ticks', frame_acc_count',
                    next_state(tick).measured_tick_count,
                    next_b(tick, b), next_c(tick, b, c))
  PROVE  Ticked(next_b(tick, b), next_c(tick, b, c))'
<1> DEFINE s == next_state(tick)
           b1 == next_b(tick, b)
           c1 == next_c(tick, b, c)
<1>1. /\ s \in State /\ s.frame_index \in Nat /\ s.frame_index # 0
      /\ s.sleep_one_frame = state.sleep_one_frame
  <2>1. s \in State /\ s.frame_index = state.frame_index + 1
        /\ s.sleep_one_frame = state.sleep_one_frame
    BY NextState
  <2>2. state.frame_index \in Nat
    BY DEF IInv, Typed, State
  <2> HIDE DEF s
  <2> QED BY <2>1, <2>2
<1>2. s.sleep_one_frame /\ state' = [s EXCEPT !.sleep_one_frame = FALSE]
  BY DEF tick_parser_sleeps
<1>3. Voted(s, b1, c1) /\ late(s, b1) = 0
  <2>1. /\ Voted(s, b1, c1)
        /\ late(s, b1) = late(state, b)
    BY NextVoted DEF Ticked
  <2>2. late(state, b) = 0
    BY <1>1, <1>2 DEF Ticked
  <2> QED BY <2>1, <2>2
<1>4. ShowsTicks(window_ticks', frame_acc_count', s.measured_tick_count, b1, c1)
  OBVIOUS
<1>5. lead(s) = 1
  OBVIOUS
<1> HIDE DEF s, b1, c1
<1>6. /\ state'.frame_index = s.frame_index
      /\ state'.measured_tick_count = s.measured_tick_count
      /\ state'.requested_drift_correction = s.requested_drift_correction
      /\ ~state'.sleep_one_frame
  BY <1>1, <1>2 DEF State
<1> SUFFICES Ticked(b1, c1)'
  BY DEF b1, c1
<1>7. b1' = b1 /\ c1' = c1
  BY DEF b1, c1, next_b, next_c
<1>8. lead(state)' = lead(s)
  BY <1>6 DEF lead
<1>9. late(state, b1)' = late(s, b1) /\ late_before(state, c1)' = late_before(s, c1)
  BY <1>7, <1>8 DEF late, late_before
<1>10. Voted(state, b1, c1)'
  BY <1>3, <1>6, <1>7, <1>9 DEF Voted
<1>11. lead(state)' > 0
  BY <1>5, <1>8
<1> QED BY <1>1, <1>3, <1>4, <1>6, <1>7, <1>9, <1>10, <1>11 DEF Ticked

(* Where stock is taken: the frame in question, after step 1.                *)
AtStock(s, since, b, c) ==
  /\ s \in State /\ Tracks(s, since) /\ Voted(s, b, c)
  /\ s.frame_index > 0 /\ lead(s) = 1 /\ ~s.sleep_one_frame
  /\ s.requested_drift_correction = AdjustmentInertia =>
       offset(s, since) > -jitter

LEMMA StockTicked ==
  ASSUME Precise, Clock, NEW s, NEW since \in Int, NEW b \in Nat, NEW c \in Nat,
         AtStock(s, since, b, c),
         ShowsTicks(window_ticks', frame_acc_count', s.measured_tick_count, b, c),
         state' = [adjust(s) EXCEPT !.select_prefer_latest = 0],
         phase(s.frame_index) = 1,
         last_tick_index' = SamplingResolution + 1 \/ late(s, b) = 0
  PROVE  Ticked(b, c)'
<1> DEFINE a == adjust(s)
           zero == 0
           f == s.frame_index
<1>1. /\ a \in State
      /\ Voted(a, b, c)
      /\ a.measured_tick_count = s.measured_tick_count
      /\ \/ a = s
         \/ a.sleep_one_frame /\ late(a, b) = 0
         \/ /\ ~a.sleep_one_frame /\ late(a, b) = 0 /\ lead(a) = 2
            /\ a.frame_index = s.frame_index + 1
  BY AdjustTracks, AdjustVoted DEF AtStock
<1>2. /\ f \in Nat /\ f > 0 /\ lead(s) = 1 /\ ~s.sleep_one_frame
  BY DEF AtStock, State
<1>3. state' = [a EXCEPT !.select_prefer_latest = zero]
  OBVIOUS
<1> HIDE DEF a, zero
<1>4. /\ state'.frame_index = a.frame_index
      /\ state'.measured_tick_count = a.measured_tick_count
      /\ state'.requested_drift_correction = a.requested_drift_correction
      /\ state'.sleep_one_frame = a.sleep_one_frame
  BY <1>1, <1>3 DEF State
<1>5. lead(state)' = lead(a)
  BY <1>4 DEF lead
<1>6. late(state, b)' = late(a, b) /\ late_before(state, c)' = late_before(a, c)
  BY <1>5 DEF late, late_before
<1>7. Voted(state, b, c)'
  BY <1>1, <1>4, <1>6 DEF Voted
<1>8. ShowsTicks(window_ticks', frame_acc_count', state'.measured_tick_count, b, c)
  BY <1>1, <1>4
<1>9. CASE a = s
  <2>1. a.frame_index = f /\ f # 0 /\ ~a.sleep_one_frame /\ lead(a) > 0
    BY <1>2, <1>9
  <2>2. late(a, b) = 0 \/ ~moved'
    <3>1. CASE last_tick_index' = SamplingResolution + 1
      <4>1. since_stock(f) = 0
        BY DEF since_stock
      <4>2. last_tick_index' + since_stock(f) = SamplingResolution + 1
        BY <3>1, <4>1, Constants
      <4> QED BY <1>4, <2>1, <4>2 DEF moved
    <3> QED BY <1>9, <3>1
  <2> QED BY <1>4, <1>5, <1>6, <1>7, <1>8, <2>1, <2>2 DEF Ticked
<1>10. CASE a.sleep_one_frame /\ late(a, b) = 0
  BY <1>4, <1>6, <1>7, <1>8, <1>10 DEF Ticked
<1>11. CASE /\ ~a.sleep_one_frame /\ late(a, b) = 0 /\ lead(a) = 2
            /\ a.frame_index = f + 1
  BY <1>2, <1>4, <1>5, <1>6, <1>7, <1>8, <1>11 DEF Ticked
<1> QED BY <1>1, <1>9, <1>10, <1>11

LEMMA SelectsTicked ==
  ASSUME Precise, IInv, IInv', Clock, Followed, Synchronized, status = "running",
         NEW deviation \in -jitter .. jitter, NEW tick \in BOOLEAN,
         tick <=> detects(deviation), NEW b \in Nat, NEW c \in Nat, Ticked(b, c),
         Running, accumulate, tick_parser_selects(next_state(tick)),
         even(next_state(tick)),
         AtStock(next_state(tick), next_since(tick), next_b(tick, b), next_c(tick, b, c)),
         ShowsTicks(window_ticks', frame_acc_count',
                    next_state(tick).measured_tick_count,
                    next_b(tick, b), next_c(tick, b, c))
  PROVE  SelectsClean /\ last_tick_index' = SamplingResolution + 1
<1> DEFINE s == next_state(tick)
           b1 == next_b(tick, b)
           c1 == next_c(tick, b, c)
           n == state.frame_index
           l == lead(state)
           q == next_lead(state)
           m == s.measured_tick_count
           size == frame_acc_count'
           votes == state.requested_drift_correction
           r == s.requested_drift_correction
           samples == SamplingResolution
           chosen == selected_frame_index(s, size)
           late_plus == IF even(s) /\ r # 0 THEN s.select_prefer_latest ELSE 0
<1>1. /\ s \in State /\ s.frame_index = n + 1 /\ n \in Nat
      /\ s.sleep_one_frame = state.sleep_one_frame
      /\ lead(s) = 1
      /\ lead(s) = IF tick THEN q ELSE l + 1
      /\ q = l + 1 - samples
      /\ l \in Int /\ samples \in Nat /\ samples >= 4
      /\ s.select_prefer_latest =
           IF tick /\ q = 1 THEN 1 ELSE state.select_prefer_latest
      /\ tick /\ q = 1 => r = votes + 1
      /\ tick /\ q = 1 => votes >= 0
      /\ votes \in Int
      /\ state.select_prefer_latest = 0
  <2>1. n \in Nat /\ votes \in Int /\ state.select_prefer_latest = 0
    BY DEF IInv, Typed, State, Followed
  <2>2. l \in Int
    BY OffsetType DEF Running, Clock
  <2>3. lead(s) = 1
    BY DEF AtStock
  <2>4. tick => q \in -1 .. 1
    BY Detection
  <2>5. tick /\ q = 1 => votes >= 0
    BY Detection
  <2>6. tick /\ q = 1 => r = votes + 1
    BY NextState
  <2> QED BY <2>1, <2>2, <2>3, <2>5, <2>6, NextState, Constants DEF next_lead, Precise
<1>2. /\ takes_stock(s) /\ tick_count(s.frame_index) \in 1 .. MaxFrames
      /\ IF index_allowed(chosen) THEN push_selected(chosen)
         ELSE status' = "failed"
      /\ last_tick_index' = size - 2 - 1
  BY DEF tick_parser_selects
<1>3. phase(n + 1) = 1 /\ ~state.sleep_one_frame
  BY <1>1, <1>2 DEF takes_stock
<1>4. /\ size = samples + 4
      /\ last_tick_index' = samples + 1
  <2>1. size = samples + 4
    BY Window, Constants DEF max_frame_acc_count
  <2> QED BY <1>1, <1>2, <2>1
<1>5. /\ n > 0 /\ phase(n) = 0
      /\ selected.count = tick_count(n + 1) - 1
      /\ last_tick_index \in 1 .. 3
      /\ tick_count(n + 1) = m /\ m \in Nat /\ m > 0
  <2>1. tick_count(n + 1) = m /\ m > 0 /\ m \in Nat
    <3>1. tick_count(n + 1) = m /\ tick_count(n + 1) \in 1 .. MaxFrames
      BY <1>1, <1>2 DEF even
    <3> QED BY <3>1, MaxFramesAssumption
  <2>2. n # 0
    BY <2>1, FirstFrames
  <2> QED BY <1>3, <2>1, <2>2, Stock
<1>6. push_selected(chosen)
  BY <1>2 DEF IInv, AssertionsHold
<1>7. chosen = (last_tick_index + (samples + 4) - 2) \div 2 + late_plus
  BY <1>4 DEF selected_frame_index
<1>8. /\ late_plus = IF tick THEN 1 ELSE 0
  <2>1. tick => q = 1 /\ s.select_prefer_latest = 1 /\ r # 0
    <3> HIDE DEF s, q, r, votes
    <3> QED BY <1>1
  <2>2. ~tick => s.select_prefer_latest = 0
    BY <1>1
  <2> QED BY <2>1, <2>2
<1> DEFINE d == late(state, b)
           e == late_before(state, c)
<1>9. /\ late(s, b1) = IF tick THEN 1 ELSE d
      /\ late_before(s, c1) = IF tick THEN d ELSE e
      /\ late(s, b1) \in -1 .. 1 /\ late_before(s, c1) \in -1 .. 1
      /\ late(s, b1) = 1 - b1 /\ late_before(s, c1) = 1 + samples - c1
      /\ b1 \in Nat /\ c1 \in Nat
      /\ tick => b1 = 0
  <2>1. Voted(s, b1, c1)
    BY DEF AtStock
  <2>2. /\ late(s, b1) = IF tick THEN lead(s) ELSE d
        /\ late_before(s, c1) = IF tick THEN d ELSE e
    BY NextVoted DEF Ticked
  <2> QED BY <1>1, <2>1, <2>2 DEF Voted, late, late_before, next_b, next_c
<1>10. last_tick_index # 2 => c1 = samples + 1
  <2> SUFFICES ASSUME last_tick_index # 2 PROVE c1 = samples + 1
    OBVIOUS
  <2>1. moved
    <3>1. since_stock(n) = samples - 1
      BY <1>5 DEF since_stock
    <3> QED BY <1>1, <1>5, <3>1 DEF moved
  <2>2. IF l > 0 THEN d = 0 ELSE e = 0
    BY <1>3, <1>5, <2>1 DEF Ticked
  <2>3. late_before(s, c1) = 0
    <3> HIDE DEF s, c1, b1, d, e, l, q
    <3>1. CASE tick
      BY <1>1, <1>9, <2>2, <3>1
    <3>2. CASE ~tick
      BY <1>1, <1>9, <2>2, <3>2
    <3> QED BY <3>1, <3>2
  <2> HIDE DEF s, c1, b1
  <2> QED BY <1>1, <1>9, <2>3
<1> DEFINE plus == IF tick THEN 1 ELSE 0
           a == samples + 4 - 1 - ((last_tick_index + (samples + 4) - 2) \div 2 + plus)
<1>11. a \in b1 + 1 .. c1 - 1 /\ a < samples + 4
  <2>1. /\ b1 <= 2 /\ (plus = 1 => b1 = 0)
        /\ c1 \in samples .. samples + 2
        /\ plus \in {0, 1}
    <3> HIDE DEF s, b1, c1
    <3> QED BY <1>1, <1>9
  <2> HIDE DEF b1, c1, plus
  <2> QED BY <1>1, <1>5, <1>9, <1>10, <2>1, Halfway
<1>12. /\ selected'.count = m
       /\ selected'.age = a
  <2>1. selected' = [count |-> selected.count + 1, age |-> size - 1 - chosen]
    BY <1>6 DEF push_selected
  <2>2. selected'.count = m
    <3> HIDE DEF s, m, n
    <3>1. selected'.count = selected.count + 1
      BY <2>1
    <3> QED BY <1>5, <3>1
  <2>3. selected'.age = size - 1 - chosen
    BY <2>1
  <2>4. chosen = (last_tick_index + (samples + 4) - 2) \div 2 + plus
    BY <1>7, <1>8
  <2> DEFINE half == (last_tick_index + (samples + 4) - 2) \div 2
  <2>5. half \in Int /\ plus \in Int
    BY <1>1, <1>5
  <2> HIDE DEF chosen, m, plus, half
  <2>6. size - 1 - chosen = a
    <3>1. chosen = half + plus
      BY <2>4 DEF half
    <3>2. a = samples + 4 - 1 - (half + plus)
      BY DEF half
    <3> HIDE DEF a
    <3> QED BY <1>1, <1>4, <2>5, <3>1, <3>2
  <2> QED BY <2>2, <2>3, <2>6
<1> HIDE DEF a
<1>13. window_ticks'[size - a] = [second |-> m - 1, dirty |-> FALSE]
  <2>1. Show(window_ticks', size, b1 + 1, c1 - 1, m - 1)
    BY <1>5 DEF ShowsTicks
  <2> HIDE DEF b1, c1, m
  <2> QED BY <1>4, <1>11, <2>1 DEF Show
<1>14. SelectsClean
  BY <1>12, <1>13 DEF SelectsClean, selected_entry
<1> QED BY <1>4, <1>14

LEMMA TickingStep ==
  ASSUME Precise, IInv, IInv', Clock, Followed, Windowed, Synchronized,
         status = "running", accumulate,
         NEW deviation \in -jitter .. jitter, acquire(deviation),
         NEW tick \in BOOLEAN, tick <=> detects(deviation), show(tick),
         tick_parser(tick), NEW b \in Nat, NEW c \in Nat, Ticked(b, c)
  PROVE  /\ status' = "running" => Ticked(next_b(tick, b), next_c(tick, b, c))'
         /\ SelectsClean
<1> DEFINE s == next_state(tick)
           b1 == next_b(tick, b)
           c1 == next_c(tick, b, c)
           since == next_since(tick)
<1>1. tick = detects(deviation)
  BY DEF detects
<1>2. /\ Running
      /\ \/ tick_parser_between(s) /\ lead(s) # 1
         \/ tick_parser_sleeps(s) /\ lead(s) = 1 /\ ~tick
         \/ /\ lead(s) = 1 /\ even(s) /\ ~state.sleep_one_frame
            /\ \/ tick_parser_finishes(s)
               \/ tick_parser_tick_0(s)
               \/ tick_parser_selects(s)
  <2>1. tick_parser(detects(deviation))
    BY <1>1, Zenon
  <2> HIDE DEF s
  <2>2. s = next_state(detects(deviation))
    BY <1>1 DEF s
  <2> QED BY <1>1, <2>1, <2>2, FollowedStep
<1>3. ShowsTicks(window_ticks', frame_acc_count', s.measured_tick_count, b1, c1)
  <2>1. s.measured_tick_count = state.measured_tick_count + (IF tick THEN 1 ELSE 0)
        /\ state.measured_tick_count \in Nat
    BY <1>2, NextState DEF Running, Tracks
  <2> HIDE DEF s
  <2> QED BY <2>1, NextShowsTicks DEF Ticked
<1>4. selected.count \in Nat /\ (no_selection => selected'.count = selected.count)
  BY DEF IInv, Typed, no_selection
<1>5. no_selection => SelectsClean
  BY <1>4 DEF SelectsClean
<1>6. CASE tick_parser_between(s) /\ lead(s) # 1
  <2>1. Ticked(b1, c1)'
    BY <1>2, <1>3, <1>6, BetweenTicked
  <2> QED BY <1>5, <1>6, <2>1 DEF tick_parser_between
<1>7. CASE tick_parser_sleeps(s) /\ lead(s) = 1 /\ ~tick
  <2>1. Ticked(b1, c1)'
    BY <1>2, <1>3, <1>7, SleepsTicked
  <2> QED BY <1>5, <1>7, <2>1 DEF tick_parser_sleeps
<1>8. ASSUME lead(s) = 1, ~state.sleep_one_frame
      PROVE  /\ AtStock(s, since, b1, c1)
             /\ s.frame_index = state.frame_index + 1
             /\ late(s, b1) = IF tick THEN 1 ELSE late(state, b)
             /\ since \in Int /\ b1 \in Nat /\ c1 \in Nat
  <2>1. /\ s \in State /\ s.frame_index = state.frame_index + 1
        /\ ~s.sleep_one_frame
    BY <1>2, <1>8, NextState
  <2>2. s.frame_index > 0
    <3>1. state.frame_index \in Nat
      BY DEF IInv, Typed, State
    <3> HIDE DEF s
    <3> QED BY <2>1, <3>1
  <2>3. /\ Tracks(s, since)
        /\ s.requested_drift_correction = AdjustmentInertia =>
             offset(s, since) > -jitter
    BY <1>2, NextTracks
  <2>4. /\ Voted(s, b1, c1)
        /\ late(s, b1) = IF tick THEN lead(s) ELSE late(state, b)
    BY <1>2, NextVoted DEF Ticked
  <2>5. since \in Int
    BY Constants DEF next_since, Clock, tick_interval
  <2>6. b1 \in Nat /\ c1 \in Nat
    BY DEF next_b, next_c
  <2> HIDE DEF s, since, b1, c1
  <2> QED BY <1>8, <2>1, <2>2, <2>3, <2>4, <2>5, <2>6 DEF AtStock
<1>9. CASE lead(s) = 1 /\ tick_parser_finishes(s)
  BY <1>5, <1>9 DEF tick_parser_finishes
<1>10. CASE lead(s) = 1 /\ ~state.sleep_one_frame /\ tick_parser_tick_0(s)
  <2>1. /\ tick_count(s.frame_index) = 0 /\ phase(s.frame_index) = 1
        /\ state' = [adjust(s) EXCEPT !.select_prefer_latest = 0]
        /\ no_selection
    BY <1>10 DEF tick_parser_tick_0, takes_stock
  <2>2. state.frame_index = 0 /\ state.measured_tick_count = 0
    <3>1. state.frame_index \in Nat
      BY DEF IInv, Typed, State
    <3>2. s.frame_index = state.frame_index + 1
      BY <1>8, <1>10
    <3>3. state.frame_index = 0
      <4> HIDE DEF s
      <4>1. s.frame_index \in Nat
        BY <3>1, <3>2
      <4>2. s.frame_index = phase(s.frame_index)
        BY <2>1, <4>1, TickZero
      <4> QED BY <2>1, <3>1, <3>2, <4>2
    <3> QED BY <3>3 DEF IInv, LatestTick
  <2>3. lead(state) = 0
    <3>1. 0 * SamplingResolution = 0
      BY Constants
    <3> QED BY <2>2, <3>1 DEF lead
  <2>4. ~tick
    <3>1. tick => lead(s) = next_lead(state)
      BY <1>2, NextState
    <3>2. next_lead(state) # 1
      BY <2>3, Constants DEF next_lead, Precise
    <3> QED BY <1>10, <3>1, <3>2
  <2>5. late(s, b1) = 0
    <3>1. late(state, b) = 0
      BY <2>2 DEF Ticked
    <3> QED BY <1>8, <1>10, <2>4, <3>1
  <2>6. Ticked(b1, c1)'
    <3> HIDE DEF s, since, b1, c1
    <3>1. AtStock(s, since, b1, c1) /\ since \in Int /\ b1 \in Nat /\ c1 \in Nat
      BY <1>8, <1>10
    <3> QED BY <1>3, <2>1, <2>5, <3>1, StockTicked
  <2> QED BY <1>5, <2>1, <2>6
<1>11. CASE /\ lead(s) = 1 /\ even(s) /\ ~state.sleep_one_frame
            /\ tick_parser_selects(s)
  <2>1. /\ AtStock(s, since, b1, c1)
        /\ since \in Int /\ b1 \in Nat /\ c1 \in Nat
    BY <1>8, <1>11
  <2>2. SelectsClean /\ last_tick_index' = SamplingResolution + 1
    BY <1>2, <1>3, <1>11, <2>1, SelectsTicked
  <2>3. /\ phase(s.frame_index) = 1
        /\ state' = [adjust(s) EXCEPT !.select_prefer_latest = 0]
    BY <1>11 DEF tick_parser_selects, takes_stock
  <2>4. Ticked(b1, c1)'
    <3> HIDE DEF s, since
    <3> QED BY <1>3, <2>1, <2>2, <2>3, StockTicked
  <2> QED BY <2>2, <2>4
<1> QED BY <1>2, <1>6, <1>7, <1>9, <1>10, <1>11

LEMMA TickingAtSync ==
  ASSUME Precise, IInv, Windowed, status = "running", accumulate,
         ~Synchronized, show(TRUE), state' = tick_parser_init
  PROVE  Ticking'
<1> DEFINE a == tick_parser_init
           n == SamplingResolution
           w == window_ticks'
           k == frame_acc_count'
<1>1. /\ a.frame_index = 0 /\ a.measured_tick_count = 0
      /\ a.requested_drift_correction = 0 /\ a.sleep_one_frame = FALSE
  BY DEF tick_parser_init
<1> HIDE DEF a
<1>2. lead(a) = 0
  <2>1. 0 * SamplingResolution = 0
    BY Constants
  <2> QED BY <1>1, <2>1 DEF lead
<1>3. n \in Nat /\ n >= 4 /\ 0 # AdjustmentInertia /\ 0 # -AdjustmentInertia
  BY Constants DEF Precise
<1>4. late(a, 0) = 0 /\ late_before(a, n) = 0
  BY <1>2, <1>3 DEF late, late_before
<1>5. Voted(a, 0, n)
  BY <1>1, <1>3, <1>4 DEF Voted
<1>6. ShowsTicks(w, k, 0, 0, n)
  <2>1. w[k] = [second |-> second_shown(TRUE), dirty |-> TRUE]
    BY ShowStep
  <2>2. second_shown(TRUE) = 0
    <3>1. sync_status < SyncThreshold
      BY ThresholdAssumption DEF IInv, Typed, Synchronized
    <3> QED BY <3>1 DEF second_shown
  <2>3. w[k].second = 0
    <3> HIDE DEF w, k
    <3>1. w[k] = [second |-> 0, dirty |-> TRUE]
      BY <2>1, <2>2, Zenon
    <3> QED BY <3>1
  <2>4. Show(w, k, 0, 0 - 1, 0)
    BY DEF Show
  <2> QED BY <2>3, <2>4 DEF ShowsTicks
<1>7. state' = a
  BY DEF a
<1>8. lead(state)' = lead(a)
  BY <1>7 DEF lead
<1>9. late(state, 0)' = late(a, 0) /\ late_before(state, n)' = late_before(a, n)
  BY <1>8 DEF late, late_before
<1>10. Voted(state, 0, n)'
  BY <1>5, <1>7, <1>9 DEF Voted
<1>11. Ticked(0, n)'
  BY <1>1, <1>4, <1>6, <1>7, <1>9, <1>10 DEF Ticked
<1>12. 0 \in Nat /\ n \in Nat
  BY <1>3
<1> HIDE DEF n
<1> QED BY <1>11, <1>12 DEF Ticking

LEMMA CountStep ==
  ASSUME IInv, NEW tick \in BOOLEAN, tick_parser(tick)
  PROVE  selected'.count = selected.count \/ selected'.count = selected.count + 1
<1> DEFINE s == register_tick([state EXCEPT !.frame_index = @ + 1], tick)
<1>1. \/ tick_parser_between(s)
      \/ tick_parser_sleeps(s)
      \/ tick_parser_finishes(s)
      \/ tick_parser_tick_0(s)
      \/ tick_parser_selects(s)
  BY Zenon DEF tick_parser
<1> HIDE DEF s
<1>2. selected.count \in Nat /\ (no_selection => selected'.count = selected.count)
  BY DEF IInv, Typed, no_selection
<1>3. ASSUME NEW index, push_selected(index)
      PROVE  selected'.count = selected.count + 1
  BY <1>3 DEF push_selected
<1> QED
  BY <1>1, <1>2, <1>3
     DEF tick_parser_between, tick_parser_sleeps, tick_parser_finishes,
         tick_parser_tick_0, tick_parser_selects

-------------------------------------------------------------------------------
ClockInv ==
  IInv /\ Clock /\ Followed /\ Windowed /\ Ticking /\ Shown

SelectsNextSecond ==
  /\ selected'.count > selected.count /\ selected.count > 0 =>
       shown' = shown + 1
  /\ selected'.count > selected.count => ~selected_entry.dirty

LEMMA SecondsStep ==
  ASSUME Precise, ClockInv,
         NEW deviation \in -jitter .. jitter, acquire(deviation)
  PROVE  ClockInv' /\ SelectsNextSecond
<1> DEFINE detected == detects(deviation)
<1>1. PICK tick \in BOOLEAN : tick = detected
  <2>1. detected \in BOOLEAN
    BY DEF detects
  <2> HIDE DEF detected
  <2> QED BY <2>1, Zenon
<1>2. /\ IInv' /\ Clock' /\ Followed' /\ Windowed'
      /\ status = "running" /\ accumulate /\ show(detected)
      /\ \/ ~Synchronized /\ ~Synchronized' /\ selected' = selected
         \/ /\ ~Synchronized /\ Synchronized' /\ selected' = selected
            /\ detected /\ state' = tick_parser_init
         \/ Synchronized /\ Synchronized' /\ tick_parser(detected)
  BY AcquireStep DEF ClockInv
<1>3. /\ shown' = IF selected'.count > selected.count
                  THEN selected_entry.second ELSE shown
  BY Zenon DEF acquire
<1>4. selected.count \in Nat /\ (selected.count > 0 => shown = selected.count - 1)
  BY DEF ClockInv, IInv, Typed, Shown
<1> HIDE DEF detected
<1>5. ASSUME Ticking', SelectsClean,
             selected'.count = selected.count \/ selected'.count = selected.count + 1
      PROVE  ClockInv' /\ SelectsNextSecond
  <2>1. CASE selected'.count = selected.count
    <3>1. ~(selected'.count > selected.count)
      BY <1>4, <2>1
    <3>2. Shown'
      BY <1>3, <1>4, <2>1, <3>1 DEF Shown
    <3> QED BY <1>2, <1>5, <3>1, <3>2 DEF ClockInv, SelectsNextSecond
  <2>2. CASE selected'.count = selected.count + 1
    <3>1. selected'.count > selected.count
      BY <1>4, <2>2
    <3>2. selected_entry = [second |-> selected'.count - 1, dirty |-> FALSE]
      BY <1>5, <3>1 DEF SelectsClean
    <3>3. selected_entry.second = selected'.count - 1 /\ ~selected_entry.dirty
      <4> DEFINE entry == selected_entry
      <4> HIDE DEF entry
      <4>1. entry = [second |-> selected'.count - 1, dirty |-> FALSE]
        BY <3>2 DEF entry
      <4>2. entry.second = selected'.count - 1 /\ ~entry.dirty
        BY <4>1
      <4> QED BY <4>2 DEF entry
    <3>4. shown' = selected'.count - 1
      BY <1>3, <3>1, <3>3
    <3>5. Shown'
      BY <3>4 DEF Shown
    <3>6. selected.count > 0 => shown' = shown + 1
      BY <1>4, <2>2, <3>4
    <3> QED BY <1>2, <1>5, <3>3, <3>5, <3>6 DEF ClockInv, SelectsNextSecond
  <2> QED BY <1>5, <2>1, <2>2
<1>6. CASE selected' = selected /\ (Synchronized' => detected /\ state' = tick_parser_init)
           /\ ~Synchronized
  <2>1. Ticking'
    <3>1. CASE Synchronized'
      <4>1. detected = TRUE
        BY <1>2, <1>6, <3>1
      <4>2. show(TRUE)
        BY <1>2, <4>1, Zenon
      <4> QED BY <1>2, <1>6, <3>1, <4>2, TickingAtSync DEF ClockInv
    <3>2. CASE ~Synchronized'
      BY <3>2 DEF Ticking
    <3> QED BY <3>1, <3>2
  <2>2. SelectsClean
    BY <1>4, <1>6 DEF SelectsClean
  <2> QED BY <1>5, <1>6, <2>1, <2>2
<1>7. CASE Synchronized /\ tick_parser(detected)
  <2>1. PICK b, c \in Nat : Ticked(b, c)
    BY <1>2, <1>7 DEF ClockInv, Ticking
  <2>2. tick <=> detects(deviation)
    BY <1>1 DEF detected
  <2>3. show(tick) /\ tick_parser(tick)
    BY <1>1, <1>2, <1>7, Zenon
  <2>4. /\ status' = "running" => Ticked(next_b(tick, b), next_c(tick, b, c))'
        /\ SelectsClean
    BY <1>2, <1>7, <2>1, <2>2, <2>3, TickingStep DEF ClockInv
  <2>5. Ticking'
    <3> DEFINE b1 == next_b(tick, b)
               c1 == next_c(tick, b, c)
    <3>1. b1 \in Nat /\ c1 \in Nat
      BY DEF next_b, next_c
    <3>2. status' = "running" => Ticked(b1, c1)'
      BY <2>4
    <3>3. b1' = b1 /\ c1' = c1
      BY DEF next_b, next_c
    <3> HIDE DEF b1, c1
    <3> QED BY <3>1, <3>2, <3>3 DEF Ticking
  <2>6. selected'.count = selected.count \/ selected'.count = selected.count + 1
    BY <2>3, CountStep DEF ClockInv
  <2> QED BY <1>5, <2>4, <2>5, <2>6
<1> QED BY <1>2, <1>6, <1>7

LEMMA ClockInvariance ==
  ASSUME Precise, ClockInv, [ClockNext]_clockAll
  PROVE  /\ ClockInv'
         /\ clockAll' = clockAll \/ (Follows /\ SelectsNextSecond)
<1>1. ASSUME UNCHANGED clockAll PROVE ClockInv'
  <2>1. IInv' /\ Clock' /\ Followed' /\ Windowed'
    BY <1>1, NothingAcquired DEF ClockInv
  <2>2. /\ state' = state /\ status' = status /\ sync_status' = sync_status
        /\ frame_acc_count' = frame_acc_count /\ window_ticks' = window_ticks
        /\ last_tick_index' = last_tick_index
        /\ shown' = shown /\ selected' = selected
    BY <1>1 DEF clockAll, clockVars, vars, syncVars, parserVars
  <2>3. Ticking'
    <3> SUFFICES ASSUME Synchronized', status' = "running"
                 PROVE  \E b, c \in Nat : Ticked(b, c)'
      BY DEF Ticking
    <3>1. PICK b, c \in Nat : Ticked(b, c)
      BY <2>2 DEF ClockInv, Ticking, Synchronized
    <3>2. Ticked(b, c)'
      BY <2>2, <3>1
         DEF Ticked, ShowsTicks, Show, Voted, late, late_before, lead, moved
    <3> QED BY <3>2
  <2>4. Shown'
    BY <2>2 DEF ClockInv, Shown
  <2> QED BY <2>1, <2>3, <2>4 DEF ClockInv
<1>2. CASE UNCHANGED clockAll
  BY <1>1, <1>2
<1>3. CASE Terminated /\ UNCHANGED clockVars
  <2>1. UNCHANGED clockAll
    BY <1>3 DEF Terminated, clockAll
  <2> QED BY <1>1, <2>1
<1>4. ASSUME NEW deviation \in -jitter .. jitter, acquire(deviation)
      PROVE  ClockInv' /\ Follows /\ SelectsNextSecond
  BY <1>4, SecondsStep, AcquireFollows DEF ClockInv
<1> QED BY <1>2, <1>3, <1>4 DEF ClockNext

LEMMA ClockInductive ==
  Precise => (ClockSpec => []ClockInv /\ [][Follows /\ SelectsNextSecond]_clockAll)
<1> SUFFICES ASSUME Precise
             PROVE  ClockSpec =>
                      []ClockInv /\ [][Follows /\ SelectsNextSecond]_clockAll
  OBVIOUS
<1>1. ClockInit => ClockInv
  <2>1. ClockInit => Ticking /\ Shown
    BY ThresholdAssumption DEF ClockInit, Init, Ticking, Synchronized, Shown
  <2> QED BY <2>1, ClockInitially DEF ClockInv
<1>2. ClockInv /\ [ClockNext]_clockAll => ClockInv'
  BY ClockInvariance
<1>3. ClockInv /\ [ClockNext]_clockAll =>
        [Follows /\ SelectsNextSecond]_clockAll
  BY ClockInvariance
<1> QED BY <1>1, <1>2, <1>3, PTL DEF ClockSpec

(* With a precise clock and camera the votes keep the internal clock in step: *)
(* stock is never taken with a superfluous or a missing tick.                *)
THEOREM ClockIsFollowed == Precise => (ClockSpec => InternalClockFollows)
<1>1. [Follows /\ SelectsNextSecond]_clockAll => [Follows]_clockAll
  OBVIOUS
<1> QED BY <1>1, ClockInductive, PTL DEF InternalClockFollows, Follows

(* ... the images S3 gets show consecutive seconds ...                       *)
THEOREM SecondsAreConsecutive == Precise => (ClockSpec => OneSelectionPerSecond)
<1>1. [Follows /\ SelectsNextSecond]_clockAll =>
        [selected'.count > selected.count /\ selected.count > 0 =>
           shown' = shown + 1]_clockAll
  BY DEF SelectsNextSecond
<1> QED BY <1>1, ClockInductive, PTL DEF OneSelectionPerSecond

(* ... and none of them is one in which the clock's hand moves.              *)
THEOREM SelectionIsClean == Precise => (ClockSpec => SelectedIsClean)
<1>1. [Follows /\ SelectsNextSecond]_clockAll =>
        [selected'.count > selected.count => ~selected_entry.dirty]_clockAll
  BY DEF SelectsNextSecond
<1> QED BY <1>1, ClockInductive, PTL DEF SelectedIsClean
===============================================================================
