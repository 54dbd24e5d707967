--------------------------------- MODULE Camera ---------------------------------
(***************************************************************************)
(* lib/camera.c: a V4L2 camera and the buffers it shares with its client,    *)
(* used by one thread at a time.  The client goes through the states that    *)
(* camera.h documents (uninitialized, initialized, ready, capturing) the way *)
(* frame_acq.c and simple_capture do: after a call has failed it configures  *)
(* nothing more, but it may still ask for a frame (main.c:360 ignores the    *)
(* result of frame_acq_init), stop the stream and exit.                      *)
(*                                                                         *)
(* The device is external: every ioctl may fail, S_FMT and S_PARM set what   *)
(* the driver likes, and REQBUFS grants as many buffers as it likes.  A mode *)
(* is what the client tells apart: pixel format, size and frame interval.    *)
(***************************************************************************)
EXTENDS Integers, FiniteSets, FiniteSetsExt, Functions, Sequences

CONSTANTS
  Format, Size,    \* what the device offers
  Interval,        \* its frame intervals, as numbers
  AcqInterval,     \* the longest interval the client can use
  BUFFER_SIZE,     \* entries of the array a listing has room for
  BufferCount,     \* buffers the client requests
  MaxGranted       \* bound: buffers the driver may grant

ASSUME IntervalAssumption == Interval \subseteq Nat \ {0} /\ AcqInterval \in Nat
ASSUME BufferAssumption ==
  /\ BUFFER_SIZE \in Nat \ {0}
  /\ BufferCount \in Nat \ {0} /\ MaxGranted \in Nat /\ MaxGranted >= BufferCount

Unset == 0   \* the fraction 0/0

Mode == [format : Format, size : Size, interval : Interval]
NoMode == [format |-> "unset", size |-> "unset", interval |-> Unset]

(* A request names the values that will do: one (.._EXACT) or all (.._ANY).  *)
AnyMode == [format |-> Format, size |-> Size, interval |-> Interval]
Request == [format : SUBSET Format, size : SUBSET Size,
            interval : SUBSET (Interval \cup {Unset})]

VARIABLES
  dev_file,                \* is it open?
  buffers,                 \* which of buffer_container's are mapped; <<>> is NULL
  mode,                    \* camera->format and camera->frame_interval
  currently_owned_frames,
  client,                  \* the state the client thinks the camera is in
  request,                 \* the mode the client has asked for
  held,                    \* frames the client has got and not returned
  device_mode,             \* of the device
  queued,                  \* buffers in the driver's queues
  streaming,
  mappings                 \* mapped buffers of the process

cameraVars == <<dev_file, buffers, mode, currently_owned_frames>>
deviceVars == <<device_mode, queued, streaming, mappings>>
vars == <<cameraVars, client, request, held, deviceVars>>

Buffer == 1 .. MaxGranted

TypeOK ==
  /\ dev_file \in BOOLEAN
  /\ buffers \in Seq(BOOLEAN) /\ Len(buffers) <= MaxGranted
  /\ mode \in Mode \cup {NoMode}
  /\ currently_owned_frames \in 0 .. BufferCount
  /\ client \in {"uninitialized", "initialized", "ready", "capturing", "failed",
                 "aborted"}
  /\ request \in Request
  /\ held \subseteq Buffer
  /\ device_mode \in Mode
  /\ queued \subseteq 1 .. Len(buffers)
  /\ streaming \in BOOLEAN
  /\ mappings \in 0 .. MaxGranted

(* camera_zero; the device is in the mode somebody left it in.               *)
Init ==
  /\ dev_file = FALSE
  /\ buffers = <<>>
  /\ mode = NoMode
  /\ currently_owned_frames = 0
  /\ client = "uninitialized"
  /\ request = AnyMode
  /\ held = {}
  /\ device_mode \in Mode
  /\ queued = {}
  /\ streaming = FALSE
  /\ mappings = 0

fails == client' = "failed"

-------------------------------------------------------------------------------
(* negotiate_format *)

fulfills(m, req) == \A field \in DOMAIN m : m[field] \in req[field]

(* A plausible bug: the driver's answer is not looked at.                    *)
after_S_FMT_assumes(req, m) ==
  {[ok |-> TRUE, device |-> m, mode |-> asked] :
     asked \in {a \in Mode : fulfills(a, req)}}

(* The mode after S_FMT is the driver's choice; unless the interval is set   *)
(* as well, the one that was read before S_FMT is recorded.                  *)
after_S_FMT(req, m) ==
  IF req.interval = Interval   \* FRAME_INTERVAL_ANY
  THEN {[ok |-> fulfills(m, req), device |-> m,
         mode |-> [m EXCEPT !.interval = device_mode.interval]]}
  ELSE {[ok |-> FALSE, device |-> m, mode |-> mode]}
       \cup {LET m2 == [m EXCEPT !.interval = i]
             IN [ok |-> fulfills(m2, req), device |-> m2, mode |-> m2] :
             i \in Interval}

(* The possible outcomes, the ioctls that fail among them.                   *)
negotiate_format(req) ==
  {[ok |-> FALSE, device |-> device_mode, mode |-> mode]}
  \cup IF fulfills(device_mode, req)
       THEN {[ok |-> TRUE, device |-> device_mode, mode |-> device_mode]}
       ELSE UNION {after_S_FMT(req, m) : m \in Mode}

-------------------------------------------------------------------------------
(* Opening and closing. *)

(* A plausible bug: when close fails, nothing else is released.              *)
private_camera_exit_returns_early ==
  /\ dev_file' = FALSE
  /\ \/ buffers' = <<>> /\ mappings' = 0
     \/ UNCHANGED <<buffers, mappings>>
  /\ queued' = {}
  /\ streaming' = FALSE

(* Whether close reports an error or not, everything is released.  Closing   *)
(* the device stops the stream and gives up the driver's queues.             *)
private_camera_exit ==
  /\ dev_file' = FALSE
  /\ buffers' = <<>>
  /\ mappings' = mappings - Cardinality({b \in DOMAIN buffers : buffers[b]})
  /\ queued' = {}
  /\ streaming' = FALSE

(* The device is missing, is none that captures and streams (negotiate_caps), *)
(* or an ioctl fails.                                                        *)
camera_init_fails ==
  /\ client = "uninitialized"
  /\ fails
  /\ currently_owned_frames' = 0
  /\ private_camera_exit
  /\ mode' = NoMode
  /\ UNCHANGED <<request, held, device_mode>>

(* camera.format is that of the device.                                      *)
camera_init ==
  /\ client = "uninitialized"
  /\ client' = "initialized"
  /\ dev_file' = TRUE
  /\ buffers' = <<>>
  /\ mode' = device_mode
  /\ currently_owned_frames' = 0
  /\ UNCHANGED <<request, held, deviceVars>>

camera_exit ==
  /\ client # "aborted"
  /\ dev_file
  /\ private_camera_exit
  /\ client' = "uninitialized"
  /\ request' = AnyMode
  /\ held' = {}
  /\ UNCHANGED <<mode, currently_owned_frames, device_mode>>

-------------------------------------------------------------------------------
(* Choosing a mode. *)

camera_set_mode(req) ==
  /\ client = "initialized"
  /\ \E outcome \in negotiate_format(req) :
       /\ mode' = outcome.mode
       /\ device_mode' = outcome.device
       /\ IF outcome.ok THEN UNCHANGED client ELSE fails
  /\ request' = req
  /\ UNCHANGED <<dev_file, buffers, currently_owned_frames, held, queued,
                 streaming, mappings>>

(* What the driver enumerates for a format and a size, up to the room there   *)
(* is; nothing, if it does not know them.                                    *)
camera_list_frame_intervals ==
  {list \in SUBSET Interval : Cardinality(list) <= BUFFER_SIZE}

(* The least interval of the list, 0/0 if it is empty.                       *)
selected_interval(list) == IF list = {} THEN Unset ELSE Min(list)

(* frame_acq.c: nothing is compared with 0/0, a NaN, when the list is empty. *)
set_camera_format ==
  \E format \in Format, size \in Size, list \in camera_list_frame_intervals :
    IF selected_interval(list) > AcqInterval
    THEN /\ client = "initialized"
         /\ fails
         /\ UNCHANGED <<cameraVars, request, held, deviceVars>>
    ELSE camera_set_mode([format |-> {format}, size |-> {size},
                          interval |-> {selected_interval(list)}])

(* simple_capture: any interval will do.                                     *)
capture_set_mode ==
  \E format \in Format, size \in Size :
    camera_set_mode([format |-> {format}, size |-> {size}, interval |-> Interval])

-------------------------------------------------------------------------------
(* Buffers and streaming. *)

all_mapped(bs) == \A b \in DOMAIN bs : bs[b]

(* The driver refuses, or grants too few; a buffer cannot be mapped, and the *)
(* mapped ones stay until camera_exit; or all is well.                       *)
camera_init_buffer ==
  /\ client = "initialized"
  /\ \/ /\ fails
        /\ UNCHANGED <<buffers, mappings, currently_owned_frames>>
     \/ \E count \in BufferCount .. MaxGranted : \E mapped \in 0 .. count :
          /\ buffers' = [b \in 1 .. count |-> b <= mapped]
          /\ mappings' = mappings + mapped
          /\ IF all_mapped(buffers')
             THEN /\ client' = "ready"
                  /\ currently_owned_frames' = BufferCount
             ELSE fails /\ UNCHANGED currently_owned_frames
  /\ UNCHANGED <<dev_file, mode, request, held, device_mode, queued, streaming>>

(* A plausible bug: a buffer that QBUF refuses is skipped.                   *)
camera_stream_start_skips ==
  /\ client = "ready"
  /\ held = {}
  /\ client' = "capturing"
  /\ queued' \in SUBSET DOMAIN buffers
  /\ streaming' = TRUE
  /\ UNCHANGED <<cameraVars, request, held, device_mode, mappings>>

(* QBUF fails for a buffer that is queued already, or for another reason     *)
(* after the first few; then STREAMON.  The client keeps no frame from an    *)
(* earlier stream.                                                           *)
camera_stream_start ==
  /\ client = "ready"
  /\ held = {}
  /\ \/ /\ fails
        /\ \E n \in 0 .. Len(buffers) :
             /\ n > 0 => queued \cap 1 .. n = {}
             /\ queued' = queued \cup 1 .. n
        /\ UNCHANGED streaming
     \/ /\ queued = {}
        /\ client' = "capturing"
        /\ queued' = DOMAIN buffers
        /\ streaming' = TRUE
  /\ UNCHANGED <<cameraVars, request, held, device_mode, mappings>>

(* STREAMOFF takes every buffer out of the driver's queues.                  *)
camera_stream_stop ==
  /\ client \in {"capturing", "failed"}
  /\ \/ /\ fails
        /\ UNCHANGED <<queued, streaming>>
     \/ /\ dev_file
        /\ buffers # <<>>
        /\ client' = IF client = "capturing" THEN "ready" ELSE "failed"
        /\ queued' = {}
        /\ streaming' = FALSE
  /\ UNCHANGED <<cameraVars, request, held, device_mode, mappings>>

camera_get_frame_fails ==
  /\ client \in {"capturing", "failed"}
  /\ dev_file /\ buffers # <<>> => currently_owned_frames > 0
  /\ fails
  /\ UNCHANGED <<cameraVars, request, held, deviceVars>>

(* assert( camera->currently_owned_frames > 0 )                              *)
camera_get_frame_aborts ==
  /\ client \in {"capturing", "failed"}
  /\ dev_file
  /\ buffers # <<>>
  /\ currently_owned_frames = 0
  /\ client' = "aborted"
  /\ UNCHANGED <<cameraVars, request, held, deviceVars>>

(* Where it waits for ever if the driver has no buffer to fill.              *)
camera_get_frame ==
  /\ client \in {"capturing", "failed"}
  /\ dev_file
  /\ currently_owned_frames > 0
  /\ streaming
  /\ \E b \in queued : queued' = queued \ {b} /\ held' = held \cup {b}
  /\ currently_owned_frames' = currently_owned_frames - 1
  /\ UNCHANGED <<dev_file, buffers, mode, client, request, device_mode,
                 streaming, mappings>>

(* A plausible bug: the frame is counted before QBUF has taken it.           *)
camera_return_counts_first(b) ==
  /\ client # "aborted"
  /\ currently_owned_frames' = currently_owned_frames + 1
  /\ \/ UNCHANGED <<held, queued>>
     \/ held' = held \ {b} /\ queued' = queued \cup {b}
  /\ UNCHANGED <<dev_file, buffers, mode, client, request, device_mode,
                 streaming, mappings>>

(* If QBUF fails the frame stays with the client, who may try again.         *)
camera_return(b) ==
  /\ client # "aborted"
  /\ held' = held \ {b}
  /\ queued' = queued \cup {b}
  /\ currently_owned_frames' = currently_owned_frames + 1
  /\ UNCHANGED <<dev_file, buffers, mode, client, request, device_mode,
                 streaming, mappings>>

camera_return_frame == \E b \in held : camera_return(b)

Aborted == client = "aborted" /\ UNCHANGED vars

(* synchronome_exit calls camera_exit although camera_init has failed.       *)
camera_exit_uninitialized ==
  /\ client = "failed"
  /\ ~dev_file
  /\ client' = "uninitialized"
  /\ UNCHANGED <<cameraVars, request, held, deviceVars>>

Next ==
  \/ camera_init
  \/ camera_init_fails
  \/ camera_exit
  \/ camera_exit_uninitialized
  \/ set_camera_format
  \/ capture_set_mode
  \/ camera_init_buffer
  \/ camera_stream_start
  \/ camera_stream_stop
  \/ camera_get_frame
  \/ camera_get_frame_fails
  \/ camera_get_frame_aborts
  \/ camera_return_frame
  \/ Aborted

Spec == Init /\ [][Next]_vars

-------------------------------------------------------------------------------
(* Properties. *)

Configured == client \in {"initialized", "ready", "capturing"}

(* While S1 captures, camera_get_frame either finds a mapped buffer in the    *)
(* driver's queue or aborts: it never waits for a device that has nothing to *)
(* fill, and never gets a frame without memory behind it.                    *)
OwnedAreQueued ==
  /\ streaming => currently_owned_frames <= Cardinality({b \in queued : buffers[b]})
  /\ \A b \in held : buffers[b]

(* Frames are interpreted in the format the device delivers them in, a camera *)
(* that is in use has every property that was asked for, and one that S1 set *)
(* up is at least as fast as the sequencer.  (With FRAME_INTERVAL_ANY the    *)
(* interval on record may be the one of before S_FMT, camera.c:886, which    *)
(* simple_capture only prints.)                                              *)
ModeAsRequested ==
  Configured =>
    /\ fulfills(mode, request) /\ fulfills(device_mode, request)
    /\ mode.format = device_mode.format /\ mode.size = device_mode.size
    /\ request.interval # Interval =>
         mode.interval = device_mode.interval /\ device_mode.interval <= AcqInterval
===============================================================================
