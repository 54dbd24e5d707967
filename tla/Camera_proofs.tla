------------------------------ MODULE Camera_proofs ------------------------------
(***************************************************************************)
(* Proofs about lib/camera.c for any device, any modes and any number of    *)
(* buffers.                                                                *)
(*                                                                         *)
(* OwnedAreQueued counts the buffers of the driver; that it stays true as    *)
(* frames come and go takes Buffers: the driver and the client never hold    *)
(* the same buffer, what the camera believes the driver owns and what the    *)
(* client holds are together no more than was requested, and what the client *)
(* thinks of the camera tells which buffers there are.  ModeAsRequested takes *)
(* Modes: a camera that is not open has been asked for nothing.              *)
(***************************************************************************)
EXTENDS Camera, FiniteSetTheorems, WellFoundedInduction, TLAPS

ClientState == {"uninitialized", "initialized", "ready", "capturing", "failed",
                "aborted"}

(* The buffers that are mapped.                                              *)
MappedOf(bs) == {b \in DOMAIN bs : bs[b]}

(* Who has the buffers, and how many.                                        *)
Shared ==
  /\ held \subseteq DOMAIN buffers /\ queued \subseteq DOMAIN buffers
  /\ held \cap queued = {}
  /\ currently_owned_frames \in Nat
  /\ currently_owned_frames + Cardinality(held) <= BufferCount
  /\ mappings = Cardinality(MappedOf(buffers))
  /\ streaming \/ held # {} => all_mapped(buffers)
  /\ streaming => currently_owned_frames <= Cardinality(queued)

(* What the client knows when it believes the camera to be in a state.       *)
Believed ==
  /\ client \in ClientState
  /\ client \in {"initialized", "ready", "capturing"} => dev_file
  /\ client = "uninitialized" => ~dev_file
  /\ ~dev_file \/ client = "initialized" => buffers = <<>>
  /\ client \in {"ready", "capturing"} =>
       Len(buffers) >= BufferCount /\ all_mapped(buffers)
  /\ streaming => dev_file /\ client \in {"capturing", "failed", "aborted"}

Buffers ==
  /\ dev_file \in BOOLEAN /\ streaming \in BOOLEAN
  /\ buffers \in Seq(BOOLEAN) /\ Len(buffers) <= MaxGranted
  /\ Shared
  /\ Believed

Modes ==
  /\ mode \in Mode \cup {NoMode}
  /\ request \in Request
  /\ device_mode \in Mode
  /\ ~dev_file => request = AnyMode
  /\ ModeAsRequested

CameraInv == Buffers /\ Modes

-------------------------------------------------------------------------------
(* Sets of buffers. *)

(* Any set of buffers is finite and can be counted.                          *)
LEMMA BufferSets ==
  ASSUME NEW bs \in Seq(BOOLEAN)
  PROVE  /\ DOMAIN bs = 1 .. Len(bs)
         /\ Cardinality(DOMAIN bs) = Len(bs)
         /\ \A S \in SUBSET DOMAIN bs :
              /\ IsFiniteSet(S)
              /\ Cardinality(S) \in Nat
              /\ Cardinality(S) <= Len(bs)
<1>1. DOMAIN bs = 1 .. Len(bs) /\ Len(bs) \in Nat
  OBVIOUS
<1> DEFINE n == Len(bs)
<1> HIDE DEF n
<1>2. n \in Nat
  BY <1>1 DEF n
<1>3. IsFiniteSet(1 .. n) /\ Cardinality(1 .. n) = n
  <2>1. 1 \in Int /\ n \in Int
    BY <1>2
  <2>2. IsFiniteSet(1 .. n) /\ Cardinality(1 .. n) = IF 1 > n THEN 0 ELSE n - 1 + 1
    BY <2>1, FS_Interval, Zenon
  <2> QED
    BY <1>2, <2>2
<1>4. ASSUME NEW S \in SUBSET (1 .. n)
      PROVE  IsFiniteSet(S) /\ Cardinality(S) \in Nat /\ Cardinality(S) <= n
  BY <1>3, FS_Subset, FS_CardinalityType
<1> QED
  BY <1>1, <1>3, <1>4 DEF n

(* Without buffers nobody holds any.                                         *)
LEMMA NoBuffers ==
  ASSUME Shared, buffers = <<>>
  PROVE  held = {} /\ queued = {} /\ mappings = 0 /\ Cardinality(held) = 0
<1>1. DOMAIN buffers = {}
  OBVIOUS
<1>2. held = {} /\ queued = {} /\ MappedOf(buffers) = {}
  BY <1>1 DEF Shared, MappedOf
<1> QED
  BY <1>2, FS_EmptySet DEF Shared

LEMMA EmptyListing ==
  /\ <<>> \in Seq(BOOLEAN) /\ Len(<<>>) <= MaxGranted
  /\ DOMAIN <<>> = {} /\ MappedOf(<<>>) = {}
  /\ Cardinality({}) = 0
<1>1. <<>> \in Seq(BOOLEAN) /\ Len(<<>>) = 0 /\ DOMAIN <<>> = {}
  OBVIOUS
<1>2. MappedOf(<<>>) = {}
  BY <1>1 DEF MappedOf
<1> QED
  BY <1>1, <1>2, FS_EmptySet, BufferAssumption

LEMMA TheFirst ==
  ASSUME NEW count \in Nat, NEW k \in 0 .. count
  PROVE  LET bs == [b \in 1 .. count |-> b <= k]
         IN bs \in Seq(BOOLEAN) /\ Len(bs) = count /\ Cardinality(MappedOf(bs)) = k
<1> DEFINE bs == [b \in 1 .. count |-> b <= k]
<1>1. bs \in [1 .. count -> BOOLEAN]
  OBVIOUS
<1>2. bs \in Seq(BOOLEAN) /\ Len(bs) = count
  BY <1>1
<1>3. MappedOf(bs) = 1 .. k
  <2>1. DOMAIN bs = 1 .. count /\ \A b \in 1 .. count : bs[b] <=> b <= k
    OBVIOUS
  <2>2. \A b \in 1 .. count : b <= k <=> b \in 1 .. k
    OBVIOUS
  <2>3. 1 .. k \subseteq 1 .. count
    OBVIOUS
  <2> QED
    BY <2>1, <2>2, <2>3 DEF MappedOf
<1>4. Cardinality(1 .. k) = k
  <2>1. 1 \in Int /\ k \in Int
    OBVIOUS
  <2>2. Cardinality(1 .. k) = IF 1 > k THEN 0 ELSE k - 1 + 1
    BY <2>1, FS_Interval, Zenon
  <2> QED
    BY <2>2
<1> QED
  BY <1>2, <1>3, <1>4
-------------------------------------------------------------------------------
(* The buffers. *)

LEMMA BuffersInit == Init => Buffers
<1> SUFFICES ASSUME Init PROVE Buffers
  OBVIOUS
<1>1. buffers = <<>> /\ held = {} /\ queued = {} /\ mappings = 0
  BY DEF Init
<1>2. currently_owned_frames = 0 /\ streaming = FALSE
  BY DEF Init
<1>3. Cardinality(held) = 0 /\ Cardinality(MappedOf(buffers)) = 0
  BY <1>1, EmptyListing
<1>4. Shared
  BY <1>1, <1>2, <1>3, BufferAssumption DEF Shared
<1>5. Believed
  BY <1>1 DEF Init, Believed, ClientState
<1> QED
  BY <1>1, <1>4, <1>5, EmptyListing DEF Init, Buffers

(* The buffers stay as they are, and the client thinks no more of the camera  *)
(* than before.                                                             *)
LEMMA Untouched ==
  ASSUME Buffers,
         UNCHANGED <<dev_file, buffers, currently_owned_frames, held, queued,
                     streaming, mappings>>,
         client' \in {client, "failed", "aborted"}
  PROVE  Buffers'
BY DEF Buffers, Shared, Believed, ClientState, all_mapped

LEMMA OpensBuffers ==
  ASSUME Buffers, camera_init
  PROVE  Buffers'
<1>1. buffers = <<>> /\ ~dev_file
  BY DEF camera_init, Buffers, Believed
<1>2. held = {} /\ queued = {} /\ mappings = 0 /\ Cardinality(held) = 0
  BY <1>1, NoBuffers DEF Buffers
<1>3. ~streaming
  BY DEF camera_init, Buffers, Believed
<1>4. UNCHANGED <<buffers, held, queued, streaming, mappings>>
  BY <1>1 DEF camera_init, deviceVars
<1>5. dev_file' = TRUE /\ currently_owned_frames' = 0 /\ client' = "initialized"
  BY DEF camera_init
<1>6. Shared'
  <2>1. Cardinality(held') = 0 /\ ~streaming' /\ held' = {} /\ queued' = {}
    BY <1>2, <1>3, <1>4
  <2>2. mappings' = Cardinality(MappedOf(buffers'))
    BY <1>4 DEF Buffers, Shared
  <2> QED
    BY <1>5, <2>1, <2>2, BufferAssumption DEF Shared
<1>7. Believed'
  BY <1>1, <1>3, <1>4, <1>5 DEF Believed, ClientState
<1> QED
  BY <1>1, <1>4, <1>5, <1>6, <1>7 DEF Buffers

(* private_camera_exit leaves nothing behind.                                *)
LEMMA ClosesBuffers ==
  ASSUME Buffers, private_camera_exit, held' = {}, currently_owned_frames' \in Nat,
         currently_owned_frames' <= BufferCount, client' \in {"uninitialized", "failed"}
  PROVE  Buffers'
<1>1. dev_file' = FALSE /\ buffers' = <<>> /\ queued' = {} /\ streaming' = FALSE
  BY DEF private_camera_exit
<1>2. mappings' = 0
  <2>1. mappings = Cardinality(MappedOf(buffers)) /\ mappings \in Nat
    <3>1. MappedOf(buffers) \in SUBSET DOMAIN buffers
      BY DEF MappedOf
    <3> QED
      BY <3>1, BufferSets DEF Buffers, Shared
  <2>2. mappings' = mappings - Cardinality(MappedOf(buffers))
    BY DEF private_camera_exit, MappedOf
  <2> QED
    BY <2>1, <2>2
<1>3. Cardinality(held') = 0 /\ Cardinality(MappedOf(buffers')) = 0
  BY <1>1, EmptyListing
<1>5. Shared'
  BY <1>1, <1>2, <1>3, BufferAssumption DEF Shared
<1>6. Believed'
  BY <1>1 DEF Believed, ClientState
<1> QED
  BY <1>1, <1>5, <1>6, EmptyListing DEF Buffers

LEMMA MapsBuffers ==
  ASSUME Buffers, camera_init_buffer
  PROVE  Buffers'
<1>1. CASE fails /\ UNCHANGED <<buffers, mappings, currently_owned_frames>>
  BY <1>1, Untouched DEF camera_init_buffer, fails
<1>2. CASE \E count \in BufferCount .. MaxGranted : \E mapped \in 0 .. count :
             /\ buffers' = [b \in 1 .. count |-> b <= mapped]
             /\ mappings' = mappings + mapped
             /\ IF all_mapped(buffers')
                THEN /\ client' = "ready"
                     /\ currently_owned_frames' = BufferCount
                ELSE fails /\ UNCHANGED currently_owned_frames
  <2>1. PICK count \in BufferCount .. MaxGranted : \E mapped \in 0 .. count :
             /\ buffers' = [b \in 1 .. count |-> b <= mapped]
             /\ mappings' = mappings + mapped
             /\ IF all_mapped(buffers')
                THEN /\ client' = "ready"
                     /\ currently_owned_frames' = BufferCount
                ELSE fails /\ UNCHANGED currently_owned_frames
    BY <1>2
  <2>2. PICK k \in 0 .. count :
             /\ buffers' = [b \in 1 .. count |-> b <= k]
             /\ mappings' = mappings + k
             /\ IF all_mapped(buffers')
                THEN /\ client' = "ready"
                     /\ currently_owned_frames' = BufferCount
                ELSE fails /\ UNCHANGED currently_owned_frames
    BY <2>1
  <2>3. count \in Nat /\ BufferCount <= count /\ count <= MaxGranted
    BY BufferAssumption
  <2>4. /\ buffers' \in Seq(BOOLEAN) /\ Len(buffers') = count
        /\ Cardinality(MappedOf(buffers')) = k
    BY <2>2, <2>3, TheFirst
  <2>5. UNCHANGED <<dev_file, held, queued, streaming>> /\ client = "initialized"
    BY DEF camera_init_buffer
  <2>6. dev_file /\ buffers = <<>> /\ ~streaming
    BY <2>5 DEF Buffers, Believed
  <2>7. held = {} /\ queued = {} /\ mappings = 0 /\ Cardinality(held) = 0
    BY <2>6, NoBuffers DEF Buffers
  <2>8. currently_owned_frames' \in Nat /\ currently_owned_frames' <= BufferCount
    BY <2>2, <2>7, BufferAssumption DEF Buffers, Shared
  <2>9. mappings' = k
    BY <2>2, <2>7
  <2>10. Shared'
    BY <2>4, <2>5, <2>6, <2>7, <2>8, <2>9, BufferAssumption DEF Shared
  <2>11. Believed'
    BY <2>2, <2>3, <2>4, <2>5, <2>6, BufferAssumption DEF Believed, ClientState, fails
  <2> QED
    BY <2>3, <2>4, <2>5, <2>6, <2>10, <2>11 DEF Buffers
<1> QED
  BY <1>1, <1>2 DEF camera_init_buffer

LEMMA StartsBuffers ==
  ASSUME Buffers, camera_stream_start
  PROVE  Buffers'
<1>1. /\ UNCHANGED <<dev_file, buffers, currently_owned_frames, held, mappings>>
      /\ client = "ready" /\ held = {}
  BY DEF camera_stream_start, cameraVars
<1>2. dev_file /\ ~streaming /\ all_mapped(buffers) /\ Len(buffers) >= BufferCount
  BY <1>1 DEF Buffers, Believed
<1>3. queued' \subseteq DOMAIN buffers
  <2>1. \A n \in 0 .. Len(buffers) : 1 .. n \subseteq DOMAIN buffers
    BY BufferSets DEF Buffers
  <2> QED
    BY <2>1 DEF camera_stream_start, Buffers, Shared
<1>4. CASE client' = "failed" /\ UNCHANGED streaming
  <2>1. Shared'
    BY <1>1, <1>2, <1>3, <1>4 DEF Buffers, Shared
  <2>2. Believed'
    BY <1>1, <1>2, <1>4 DEF Believed, ClientState
  <2> QED
    BY <1>1, <2>1, <2>2, <1>4 DEF Buffers
<1>5. CASE client' = "capturing" /\ queued' = DOMAIN buffers /\ streaming'
  <2>1. currently_owned_frames <= Cardinality(queued')
    <3>1. currently_owned_frames <= BufferCount
      BY <1>1, FS_EmptySet, BufferAssumption DEF Buffers, Shared
    <3>2. Cardinality(queued') = Len(buffers) /\ Len(buffers) \in Nat
      BY <1>5, BufferSets DEF Buffers
    <3> QED
      BY <1>2, <3>1, <3>2, BufferAssumption DEF Buffers, Shared
  <2>2. Shared'
    BY <1>1, <1>2, <1>3, <1>5, <2>1 DEF Buffers, Shared, all_mapped
  <2>3. Believed'
    BY <1>1, <1>2, <1>5 DEF Believed, ClientState, all_mapped
  <2>4. streaming' \in BOOLEAN
    BY DEF camera_stream_start, Buffers
  <2> QED
    BY <1>1, <2>2, <2>3, <2>4 DEF Buffers
<1> QED
  BY <1>4, <1>5 DEF camera_stream_start, fails

LEMMA StopsBuffers ==
  ASSUME Buffers, camera_stream_stop
  PROVE  Buffers'
<1>1. CASE fails /\ UNCHANGED <<queued, streaming>>
  BY <1>1, Untouched DEF camera_stream_stop, fails, cameraVars
<1>2. CASE /\ client' = IF client = "capturing" THEN "ready" ELSE "failed"
           /\ queued' = {}
           /\ streaming' = FALSE
  <2>1. UNCHANGED <<dev_file, buffers, currently_owned_frames, held, mappings>>
    BY DEF camera_stream_stop, cameraVars
  <2>2. Shared'
    BY <1>2, <2>1 DEF Buffers, Shared
  <2>3. Believed'
    BY <1>2, <2>1 DEF camera_stream_stop, Buffers, Believed, ClientState
  <2> QED
    BY <1>2, <2>1, <2>2, <2>3 DEF Buffers
<1> QED
  BY <1>1, <1>2 DEF camera_stream_stop

(* A frame changes hands.                                                    *)
LEMMA FrameChangesHands ==
  ASSUME Buffers, NEW b,
         UNCHANGED <<dev_file, buffers, client, streaming, mappings>>,
         \/ /\ b \in queued /\ streaming /\ currently_owned_frames > 0
            /\ queued' = queued \ {b} /\ held' = held \cup {b}
            /\ currently_owned_frames' = currently_owned_frames - 1
         \/ /\ b \in held
            /\ queued' = queued \cup {b} /\ held' = held \ {b}
            /\ currently_owned_frames' = currently_owned_frames + 1
  PROVE  Buffers'
<1>1. /\ IsFiniteSet(held) /\ IsFiniteSet(queued)
      /\ Cardinality(held) \in Nat /\ Cardinality(queued) \in Nat
  BY BufferSets DEF Buffers, Shared
<1>2. CASE /\ b \in queued /\ streaming /\ currently_owned_frames > 0
           /\ queued' = queued \ {b} /\ held' = held \cup {b}
           /\ currently_owned_frames' = currently_owned_frames - 1
  <2>1. b \notin held
    BY <1>2 DEF Buffers, Shared
  <2>2. /\ Cardinality(queued') = Cardinality(queued) - 1
        /\ Cardinality(held') = Cardinality(held) + 1
    BY <1>1, <1>2, <2>1, FS_AddElement, FS_RemoveElement
  <2>3. Shared'
    BY <1>1, <1>2, <2>1, <2>2, BufferAssumption DEF Buffers, Shared, all_mapped
  <2> QED
    BY <2>3 DEF Buffers, Believed, all_mapped
<1>3. CASE /\ b \in held
           /\ queued' = queued \cup {b} /\ held' = held \ {b}
           /\ currently_owned_frames' = currently_owned_frames + 1
  <2>1. b \notin queued
    BY <1>3 DEF Buffers, Shared
  <2>2. /\ Cardinality(queued') = Cardinality(queued) + 1
        /\ Cardinality(held') = Cardinality(held) - 1
    BY <1>1, <1>3, <2>1, FS_AddElement, FS_RemoveElement
  <2>3. Shared'
    BY <1>1, <1>3, <2>1, <2>2, BufferAssumption DEF Buffers, Shared, all_mapped
  <2> QED
    BY <2>3 DEF Buffers, Believed, all_mapped
<1> QED
  BY <1>2, <1>3

LEMMA GetsFrame ==
  ASSUME Buffers, camera_get_frame
  PROVE  Buffers'
<1>1. PICK b \in queued : queued' = queued \ {b} /\ held' = held \cup {b}
  BY DEF camera_get_frame
<1> QED
  BY <1>1, FrameChangesHands DEF camera_get_frame

LEMMA ReturnsFrame ==
  ASSUME Buffers, NEW b \in held, camera_return(b)
  PROVE  Buffers'
BY FrameChangesHands DEF camera_return

LEMMA BuffersStep ==
  ASSUME Buffers, Next
  PROVE  Buffers'
<1>1. CASE camera_init
  BY <1>1, OpensBuffers
<1>2. CASE camera_init_fails
  <2>1. held' = {}
    <3>1. buffers = <<>>
      BY <1>2 DEF camera_init_fails, Buffers, Believed
    <3> QED
      BY <1>2, <3>1, NoBuffers DEF camera_init_fails, Buffers
  <2> QED
    BY <1>2, <2>1, ClosesBuffers, BufferAssumption DEF camera_init_fails, fails
<1>3. CASE camera_exit
  <2>1. currently_owned_frames <= BufferCount
    BY FS_CardinalityType, BufferSets, BufferAssumption DEF Buffers, Shared
  <2> QED
    BY <1>3, <2>1, ClosesBuffers DEF camera_exit, Buffers, Shared
<1>4. CASE camera_exit_uninitialized
  BY <1>4
  DEF camera_exit_uninitialized, cameraVars, deviceVars, Buffers, Shared, Believed,
      ClientState, all_mapped
<1>5. CASE set_camera_format \/ capture_set_mode
  <2>1. ASSUME NEW req, camera_set_mode(req)
        PROVE  /\ UNCHANGED <<dev_file, buffers, currently_owned_frames, held, queued,
                              streaming, mappings>>
               /\ client' \in {client, "failed", "aborted"}
    BY <2>1 DEF camera_set_mode, fails
  <2>2. \/ \E req : camera_set_mode(req)
        \/ fails /\ UNCHANGED <<cameraVars, request, held, deviceVars>>
    BY <1>5 DEF set_camera_format, capture_set_mode
  <2> QED
    BY <2>1, <2>2, Untouched DEF fails, cameraVars, deviceVars
<1>6. CASE camera_init_buffer
  BY <1>6, MapsBuffers
<1>7. CASE camera_stream_start
  BY <1>7, StartsBuffers
<1>8. CASE camera_stream_stop
  BY <1>8, StopsBuffers
<1>9. CASE camera_get_frame
  BY <1>9, GetsFrame
<1>10. CASE camera_get_frame_fails \/ camera_get_frame_aborts \/ Aborted
  BY <1>10, Untouched
  DEF camera_get_frame_fails, camera_get_frame_aborts, Aborted, fails, vars, cameraVars,
      deviceVars
<1>11. CASE camera_return_frame
  BY <1>11, ReturnsFrame DEF camera_return_frame
<1> QED
  BY <1>1, <1>2, <1>3, <1>4, <1>5, <1>6, <1>7, <1>8, <1>9, <1>10, <1>11 DEF Next

-------------------------------------------------------------------------------
(* The mode. *)

(* The least interval of a listing, or 0/0, is a number.                     *)
LEMMA SelectedInterval ==
  ASSUME NEW list \in SUBSET Interval
  PROVE  /\ selected_interval(list) \in Interval \cup {Unset}
         /\ selected_interval(list) \in Nat
<1>1. CASE list = {}
  BY <1>1 DEF selected_interval, Unset
<1>2. CASE list # {}
  <2>1. list \subseteq Nat
    BY IntervalAssumption
  <2>2. PICK x \in list : \A y \in list : ~ (<<y, x>> \in OpToRel(<, Nat))
    BY <1>2, <2>1, NatLessThanWellFounded, WFMin
  <2>3. \A y \in list : x <= y
    <3> SUFFICES ASSUME NEW y \in list PROVE x <= y
      OBVIOUS
    <3>1. x \in Nat /\ y \in Nat /\ <<y, x>> \in Nat \X Nat
      BY <2>1
    <3>2. ~(y < x)
      BY <2>2, <3>1, Zenon DEF OpToRel
    <3> QED
      BY <3>1, <3>2
  <2>4. Min(list) \in list
    BY <2>3 DEF Min
  <2> QED
    BY <1>2, <2>1, <2>4 DEF selected_interval
<1> QED
  BY <1>1, <1>2

(* Whatever the driver answers, a mode that negotiate_format accepts is one   *)
(* that was asked for.                                                       *)
LEMMA Negotiated ==
  ASSUME device_mode \in Mode, mode \in Mode \cup {NoMode}, NEW req \in Request,
         NEW outcome \in negotiate_format(req)
  PROVE  /\ outcome.mode \in Mode \cup {NoMode} /\ outcome.device \in Mode
         /\ outcome.ok =>
              /\ fulfills(outcome.mode, req) /\ fulfills(outcome.device, req)
              /\ outcome.mode.format = outcome.device.format
              /\ outcome.mode.size = outcome.device.size
              /\ req.interval # Interval => outcome.mode.interval = outcome.device.interval
<1>1. CASE outcome \in {[ok |-> FALSE, device |-> device_mode, mode |-> mode]}
  BY <1>1
<1>2. CASE /\ fulfills(device_mode, req)
           /\ outcome \in {[ok |-> TRUE, device |-> device_mode, mode |-> device_mode]}
  BY <1>2
<1>3. CASE \E m \in Mode : outcome \in after_S_FMT(req, m)
  <2>1. PICK m \in Mode : outcome \in after_S_FMT(req, m)
    BY <1>3
  <2>2. CASE req.interval = Interval
    <3> DEFINE m1 == [m EXCEPT !.interval = device_mode.interval]
    <3>1. /\ m1 \in Mode /\ m1.format = m.format /\ m1.size = m.size
          /\ m1.interval \in Interval
      BY DEF Mode
    <3>2. outcome = [ok |-> fulfills(m, req), device |-> m, mode |-> m1]
      BY <2>1, <2>2 DEF after_S_FMT
    <3>3. DOMAIN m = {"format", "size", "interval"} /\ DOMAIN m1 = DOMAIN m
      BY DEF Mode
    <3>4. fulfills(m, req) => fulfills(m1, req)
      BY <2>2, <3>1, <3>3 DEF fulfills
    <3> QED
      BY <2>2, <3>1, <3>2, <3>4
  <2>3. CASE req.interval # Interval
    <3>1. CASE outcome = [ok |-> FALSE, device |-> m, mode |-> mode]
      BY <3>1
    <3>2. CASE \E i \in Interval :
                 outcome = [ok |-> fulfills([m EXCEPT !.interval = i], req),
                            device |-> [m EXCEPT !.interval = i],
                            mode |-> [m EXCEPT !.interval = i]]
      <4>1. PICK i \in Interval :
              outcome = [ok |-> fulfills([m EXCEPT !.interval = i], req),
                         device |-> [m EXCEPT !.interval = i],
                         mode |-> [m EXCEPT !.interval = i]]
        BY <3>2
      <4> DEFINE m2 == [m EXCEPT !.interval = i]
      <4>2. m2 \in Mode
        BY DEF Mode
      <4> HIDE DEF m2
      <4>3. outcome = [ok |-> fulfills(m2, req), device |-> m2, mode |-> m2]
        BY <4>1 DEF m2
      <4> QED
        BY <4>2, <4>3
    <3> QED
      BY <2>1, <2>3, <3>1, <3>2 DEF after_S_FMT
  <2> QED
    BY <2>2, <2>3
<1> QED
  BY <1>1, <1>2, <1>3 DEF negotiate_format

LEMMA AnyModeWillDo ==
  AnyMode \in Request /\ \A m \in Mode : fulfills(m, AnyMode)
<1>1. AnyMode \in Request
  BY DEF AnyMode, Request
<1>2. ASSUME NEW m \in Mode PROVE fulfills(m, AnyMode)
  BY DEF Mode, AnyMode, fulfills
<1> QED
  BY <1>1, <1>2

LEMMA ModesInit == Init => Modes
  BY AnyModeWillDo DEF Init, Modes, ModeAsRequested, Configured

(* Nothing about the mode changes, and no camera is configured or closed.    *)
LEMMA SameMode ==
  ASSUME Modes, UNCHANGED <<mode, request, device_mode>>, dev_file' = dev_file,
         Configured' => Configured
  PROVE  Modes'
BY DEF Modes, ModeAsRequested

LEMMA SetsMode ==
  ASSUME Buffers, Modes, NEW req \in Request, camera_set_mode(req),
         \/ req.interval = Interval
         \/ \E i \in Nat : req.interval = {i} /\ i <= AcqInterval
  PROVE  Modes'
<1>1. PICK outcome \in negotiate_format(req) :
        /\ mode' = outcome.mode
        /\ device_mode' = outcome.device
        /\ IF outcome.ok THEN UNCHANGED client ELSE fails
  BY DEF camera_set_mode
<1>2. /\ outcome.mode \in Mode \cup {NoMode} /\ outcome.device \in Mode
      /\ outcome.ok =>
           /\ fulfills(outcome.mode, req) /\ fulfills(outcome.device, req)
           /\ outcome.mode.format = outcome.device.format
           /\ outcome.mode.size = outcome.device.size
           /\ req.interval # Interval => outcome.mode.interval = outcome.device.interval
  BY Negotiated DEF Modes
<1>3. request' = req /\ dev_file' = dev_file /\ dev_file
  BY DEF camera_set_mode, Buffers, Believed
<1>4. CASE ~outcome.ok
  BY <1>1, <1>2, <1>3, <1>4 DEF Modes, ModeAsRequested, Configured, fails
<1>5. CASE outcome.ok
  <2>1. req.interval # Interval => outcome.device.interval <= AcqInterval
    <3>1. "interval" \in DOMAIN outcome.device
      BY <1>2 DEF Mode
    <3>2. outcome.device.interval \in req.interval
      BY <1>2, <1>5, <3>1 DEF fulfills
    <3> QED
      BY <3>2
  <2> QED
    BY <1>1, <1>2, <1>3, <1>5, <2>1 DEF Modes, ModeAsRequested
<1> QED
  BY <1>4, <1>5

LEMMA ModesStep ==
  ASSUME Buffers, Modes, Next
  PROVE  Modes'
<1>1. CASE camera_init
  <2>1. request = AnyMode
    BY <1>1 DEF camera_init, Buffers, Believed, Modes
  <2>2. mode' = device_mode /\ UNCHANGED <<request, device_mode>> /\ dev_file'
    BY <1>1 DEF camera_init, deviceVars
  <2>3. device_mode \in Mode /\ fulfills(device_mode, AnyMode)
    BY AnyModeWillDo DEF Modes
  <2>4. AnyMode.interval = Interval
    BY DEF AnyMode
  <2> QED
    BY <2>1, <2>2, <2>3, <2>4 DEF Modes, ModeAsRequested
<1>2. CASE camera_init_fails
  <2>1. ~dev_file
    BY <1>2 DEF camera_init_fails, Buffers, Believed
  <2> QED
    BY <1>2, <2>1
    DEF camera_init_fails, fails, Modes, ModeAsRequested, Configured
<1>3. CASE camera_exit
  BY <1>3, AnyModeWillDo DEF camera_exit, Modes, ModeAsRequested, Configured
<1>4. CASE camera_exit_uninitialized
  BY <1>4, SameMode DEF camera_exit_uninitialized, cameraVars, deviceVars, Configured
<1>5. CASE set_camera_format
  <2>1. PICK format \in Format, size \in Size, list \in camera_list_frame_intervals :
          IF selected_interval(list) > AcqInterval
          THEN /\ client = "initialized"
               /\ fails
               /\ UNCHANGED <<cameraVars, request, held, deviceVars>>
          ELSE camera_set_mode([format |-> {format}, size |-> {size},
                                interval |-> {selected_interval(list)}])
    BY <1>5 DEF set_camera_format
  <2> DEFINE i == selected_interval(list)
             req == [format |-> {format}, size |-> {size}, interval |-> {i}]
  <2>2. i \in Interval \cup {Unset} /\ i \in Nat
    BY SelectedInterval DEF camera_list_frame_intervals
  <2> HIDE DEF i
  <2>3. CASE i > AcqInterval
    BY <2>1, <2>3, SameMode DEF i, fails, cameraVars, deviceVars, Configured
  <2>4. CASE ~(i > AcqInterval)
    <3>1. camera_set_mode(req)
      BY <2>1, <2>4 DEF i
    <3>2. req \in Request
      BY <2>2 DEF Request
    <3>3. req.interval = {i} /\ i <= AcqInterval
      BY <2>2, <2>4, IntervalAssumption
    <3> HIDE DEF req
    <3> QED
      BY <2>2, <3>1, <3>2, <3>3, SetsMode
  <2> QED
    BY <2>3, <2>4
<1>6. CASE capture_set_mode
  <2>1. PICK format \in Format, size \in Size :
          camera_set_mode([format |-> {format}, size |-> {size}, interval |-> Interval])
    BY <1>6 DEF capture_set_mode
  <2> DEFINE req == [format |-> {format}, size |-> {size}, interval |-> Interval]
  <2>2. req \in Request /\ req.interval = Interval
    BY DEF Request
  <2> HIDE DEF req
  <2> QED
    BY <2>1, <2>2, SetsMode DEF req
<1>7. CASE camera_init_buffer
  BY <1>7, SameMode DEF camera_init_buffer, Configured
<1>8. CASE camera_stream_start \/ camera_stream_stop
  BY <1>8, SameMode
  DEF camera_stream_start, camera_stream_stop, fails, cameraVars, Configured
<1>9. CASE camera_get_frame_fails \/ camera_get_frame_aborts \/ camera_get_frame
  BY <1>9, SameMode
  DEF camera_get_frame_fails, camera_get_frame_aborts, camera_get_frame, fails,
      cameraVars, deviceVars, Configured
<1>10. CASE camera_return_frame \/ Aborted
  BY <1>10, SameMode
  DEF camera_return_frame, camera_return, Aborted, vars, cameraVars, deviceVars, Configured
<1> QED
  BY <1>1, <1>2, <1>3, <1>4, <1>5, <1>6, <1>7, <1>8, <1>9, <1>10 DEF Next

-------------------------------------------------------------------------------
(* What follows. *)

LEMMA CameraHolds ==
  ASSUME CameraInv
  PROVE  TypeOK /\ OwnedAreQueued /\ ModeAsRequested
<1>1. /\ currently_owned_frames <= BufferCount /\ mappings \in 0 .. MaxGranted
      /\ held \subseteq Buffer
  <2>1. Cardinality(held) \in Nat /\ DOMAIN buffers = 1 .. Len(buffers)
    BY BufferSets DEF CameraInv, Buffers, Shared
  <2>2. currently_owned_frames <= BufferCount
    BY <2>1, BufferAssumption DEF CameraInv, Buffers, Shared
  <2>3. MappedOf(buffers) \in SUBSET DOMAIN buffers
    BY DEF MappedOf
  <2>4. Cardinality(MappedOf(buffers)) \in Nat /\ Cardinality(MappedOf(buffers)) <= Len(buffers)
    BY <2>3, BufferSets DEF CameraInv, Buffers
  <2>5. Len(buffers) \in Nat /\ Len(buffers) <= MaxGranted
    BY DEF CameraInv, Buffers
  <2> QED
    BY <2>1, <2>2, <2>4, <2>5, BufferAssumption DEF CameraInv, Buffers, Shared, Buffer
<1>2. TypeOK
  <2>1. queued \subseteq 1 .. Len(buffers)
    BY BufferSets DEF CameraInv, Buffers, Shared
  <2> QED
    BY <1>1, <2>1, BufferAssumption
    DEF CameraInv, Buffers, Shared, Believed, ClientState, Modes, TypeOK
<1>3. OwnedAreQueued
  <2>1. ASSUME streaming
        PROVE  currently_owned_frames <= Cardinality({b \in queued : buffers[b]})
    <3>1. {b \in queued : buffers[b]} = queued
      BY <2>1 DEF CameraInv, Buffers, Shared, all_mapped
    <3> QED
      BY <2>1, <3>1 DEF CameraInv, Buffers, Shared
  <2>2. \A b \in held : buffers[b]
    BY DEF CameraInv, Buffers, Shared, all_mapped
  <2> QED
    BY <2>1, <2>2 DEF OwnedAreQueued
<1> QED
  BY <1>2, <1>3 DEF CameraInv, Modes

(* What happens to the camera is all that CameraInv speaks of.               *)
LEMMA CameraUnchanged ==
  ASSUME CameraInv, UNCHANGED vars
  PROVE  CameraInv'
BY DEF CameraInv, Buffers, Shared, Believed, ClientState, all_mapped, MappedOf, Modes,
       ModeAsRequested, Configured, fulfills, vars, cameraVars, deviceVars

LEMMA CameraStep ==
  ASSUME CameraInv, [Next]_vars
  PROVE  CameraInv'
BY BuffersStep, ModesStep, CameraUnchanged DEF CameraInv

(* camera.c for any client that uses it in the order camera.h documents: it   *)
(* never waits for a frame of a device that has no mapped buffer to fill, and *)
(* a camera that is in use delivers what was asked for.                      *)
THEOREM CameraCorrect == Spec => [](TypeOK /\ OwnedAreQueued /\ ModeAsRequested)
<1>1. Init => CameraInv
  BY BuffersInit, ModesInit DEF CameraInv
<1>2. CameraInv /\ [Next]_vars => CameraInv'
  BY CameraStep
<1>3. CameraInv => TypeOK /\ OwnedAreQueued /\ ModeAsRequested
  BY CameraHolds
<1> QED
  BY <1>1, <1>2, <1>3, PTL DEF Spec
===============================================================================
