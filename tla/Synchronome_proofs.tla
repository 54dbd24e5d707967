--------------------------- MODULE Synchronome_proofs ---------------------------
(***************************************************************************)
(* Proofs about main.c and the services it joins and stops, for queues of   *)
(* every length, every number of signals, with and without a compressor, and *)
(* whichever services may fail or miss their deadlines.                      *)
(*                                                                         *)
(* The invariants of Synchronome speak about the end of main's wait or of a   *)
(* service; none is inductive.  IInv adds what leads there: how many entries *)
(* of each queue are spoken for, who owns the entry the compressor works on, *)
(* and what main knows of the services it has joined.                       *)
(***************************************************************************)
EXTENDS Synchronome, TLAPS

bit(b) == IF b THEN 1 ELSE 0

Place == {"join_select", "stop_capture", "stop_convert", "join_convert",
          "stop_storage", "join_storage", "stop_compressor",
          "join_compressor", "join_capture", "done", "crashed", "exited"}
ServicePlace == {"wait", "check", "cleanup", "process", "push_start", "work",
                 "push_end", "wait_done", "read_stop_dump", "post_done",
                 "deadline", "done"}
QueueRecord == [count : Nat, read_sem : Nat, write_sem : Nat, stop : BOOLEAN]

Typed ==
  /\ main \in Place
  /\ pc \in [Service -> ServicePlace]
  /\ queue \in [Queue -> QueueRecord]
  /\ sem \in Nat /\ done_sem \in Nat /\ frame_acc_count \in Nat
  /\ stop \in BOOLEAN
  /\ archive \in 0 .. PackageSize - 1
  /\ missed \subseteq failed /\ failed \subseteq Started
  /\ ret \in {"success", "failure"}
  /\ signals \in 0 .. MaxSignals

(* An entry is free or counted.                                              *)
Room == \A q \in Queue : queue[q].write_sem + queue[q].count = max_count[q]

(* Every wake-up of a consumer, one that it has taken and not used up, one a  *)
(* producer is about to post, stands for a counted entry or for a stop.      *)
Wakeups ==
  /\ queue["acq"].read_sem + bit(pc["select"] = "check") + frame_acc_count
       + bit(pc["capture"] = "work") <= queue["acq"].count + signals
  /\ queue["select"].read_sem
       + bit(pc["convert"] \in {"check", "push_start", "work", "read_stop_dump"})
       <= queue["select"].count + bit(queue["select"].stop)
  /\ queue["rgb"].read_sem
       + bit(pc["storage"] \in {"check", "push_start", "work", "wait_done",
                                "read_stop_dump"})
       + bit(pc["convert"] = "work") <= queue["rgb"].count + bit(queue["rgb"].stop)
  /\ queue["consumers"].read_sem + bit(pc["compressor"] \in {"check", "work"})
       <= queue["consumers"].count + bit(queue["consumers"].stop)

(* A consumer that did not leave has an entry.                               *)
Consuming ==
  /\ frame_acc_count <= queue["acq"].count
  /\ pc["convert"] \in {"push_start", "work", "read_stop_dump"} =>
       queue["select"].count >= 1
  /\ pc["storage"] \in {"push_start", "work", "wait_done", "read_stop_dump"} =>
       queue["rgb"].count >= 1
  /\ pc["compressor"] = "work" => queue["consumers"].count >= 1

(* S2's window, and how often S1 has been called.                            *)
Window ==
  /\ frame_acc_count <= MaxAcc
  /\ pc["select"] \in {"wait", "check"} => frame_acc_count < MaxAcc
  /\ queue["acq"].stop <=> signals > 0
  /\ sem <= MaxBehind + signals
            + bit(main \notin {"join_select", "stop_capture"})

(* The writer hands one entry at a time to the compressor: it is queued, or   *)
(* the compressor is about to say that it is done, or it has said so.        *)
storage_waits_for_it == pc["storage"] \in {"work", "wait_done"} \/ "storage" \in failed

Handshake ==
  /\ queue["consumers"].count + bit(pc["compressor"] = "post_done") + done_sem
       <= bit(storage_waits_for_it)
  /\ "compressor" \in failed /\ main # "crashed" =>
       done_sem = 0 /\ storage_waits_for_it /\ pc["compressor"] = "done"
  /\ ~Compress => /\ pc["compressor"] = "done" /\ pc["storage"] # "push_start"
                  /\ queue["consumers"].count = 0 /\ done_sem = 0
  /\ pc["compressor"] = "done" => archive = 0

(* The places of main at which it has joined a service.                      *)
JoinedSelect == Place \ {"join_select", "crashed", "exited"}
JoinedConvert == JoinedSelect \ {"stop_capture", "stop_convert", "join_convert"}
JoinedStorage == JoinedConvert \ {"stop_storage", "join_storage"}

Joined ==
  /\ main \in JoinedSelect =>
       pc["select"] = "done" /\ ("select" \in failed => ret = "failure")
  /\ main \in JoinedConvert =>
       pc["convert"] = "done" /\ ("convert" \in failed => ret = "failure")
  /\ main \in JoinedStorage =>
       pc["storage"] = "done" /\ ("storage" \in failed => ret = "failure")
  /\ main \in {"join_capture", "done"} => pc["compressor"] = "done"
  /\ main = "done" => pc["capture"] = "done" /\ ("capture" \in failed => ret = "failure")

(* main stops a queue once, after it has joined the producer.                *)
Stopped ==
  /\ StopAfterProducer
  /\ main \in {"join_select", "stop_capture", "stop_convert"} => ~queue["select"].stop
  /\ main \in {"join_select", "stop_capture", "stop_convert", "join_convert",
               "stop_storage"} => ~queue["rgb"].stop
  /\ main \in Place \ {"join_compressor", "join_capture", "done", "crashed", "exited"} =>
       ~queue["consumers"].stop

(* A consumer that has returned without a failure has left an empty queue.   *)
Drained ==
  /\ pc["convert"] = "done" /\ "convert" \notin failed =>
       queue["select"].stop /\ queue["select"].count = 0
  /\ pc["storage"] = "done" /\ "storage" \notin failed =>
       queue["rgb"].stop /\ queue["rgb"].count = 0

(* A service that has failed has returned.                                   *)
FailedAreDone == \A s \in failed \ {"compressor"} : pc[s] = "done"

IInv ==
  Typed /\ Room /\ Wakeups /\ Consuming /\ Window /\ Handshake /\ Joined
  /\ Stopped /\ Drained /\ FailedAreDone

-------------------------------------------------------------------------------
(* What the operations of a queue do to its numbers, and to the others.      *)

Numbers(q, count, read_sem, write_sem) ==
  /\ queue' \in [Queue -> QueueRecord]
  /\ queue'[q].count = queue[q].count + count
  /\ queue'[q].read_sem = queue[q].read_sem + read_sem
  /\ queue'[q].write_sem = queue[q].write_sem + write_sem
  /\ \A r \in Queue \ {q} : queue'[r] = queue[r]

(* No operation loses an entry.                                              *)
LEMMA RoomKept ==
  ASSUME Typed, Room, NEW q \in Queue, NEW count \in Int, NEW read_sem \in Int,
         NEW write_sem \in Int, Numbers(q, count, read_sem, write_sem),
         count + write_sem = 0
  PROVE  Room'
<1> SUFFICES ASSUME NEW r \in Queue
             PROVE  queue'[r].write_sem + queue'[r].count = max_count[r]
  BY DEF Room
<1>1. queue[r].write_sem + queue[r].count = max_count[r]
  BY DEF Room
<1>2. CASE r = q
  BY <1>1, <1>2 DEF Numbers, Typed, QueueRecord
<1>3. CASE r # q
  BY <1>1, <1>3 DEF Numbers
<1> QED BY <1>2, <1>3

LEMMA PushStart ==
  ASSUME Typed, Room, NEW q \in Queue, push_start(q)
  PROVE  Numbers(q, 1, 0, -1) /\ queue'[q].stop = queue[q].stop /\ Room'
<1>1. Numbers(q, 1, 0, -1) /\ queue'[q].stop = queue[q].stop
  BY DEF Typed, push_start, change, Numbers, QueueRecord
<1> QED BY <1>1, RoomKept

LEMMA PushEnd ==
  ASSUME Typed, Room, NEW q \in Queue, push_end(q)
  PROVE  Numbers(q, 0, 1, 0) /\ queue'[q].stop = queue[q].stop /\ Room'
<1>1. Numbers(q, 0, 1, 0) /\ queue'[q].stop = queue[q].stop
  BY DEF Typed, push_end, change, Numbers, QueueRecord
<1> QED BY <1>1, RoomKept

LEMMA Push ==
  ASSUME Typed, Room, NEW q \in Queue, push(q)
  PROVE  Numbers(q, 1, 1, -1) /\ queue'[q].stop = queue[q].stop /\ Room'
<1>1. Numbers(q, 1, 1, -1) /\ queue'[q].stop = queue[q].stop
  BY DEF Typed, push, change, Numbers, QueueRecord
<1> QED BY <1>1, RoomKept

LEMMA ReadStart ==
  ASSUME Typed, Room, NEW q \in Queue, read_start(q)
  PROVE  Numbers(q, 0, -1, 0) /\ queue'[q].stop = queue[q].stop /\ Room'
<1>1. Numbers(q, 0, -1, 0) /\ queue'[q].stop = queue[q].stop
  BY DEF Typed, read_start, change, Numbers, QueueRecord
<1> QED BY <1>1, RoomKept

LEMMA ReadStopDump ==
  ASSUME Typed, Room, NEW q \in Queue, read_stop_dump(q), queue[q].count >= 1
  PROVE  Numbers(q, -1, 0, 1) /\ queue'[q].stop = queue[q].stop /\ Room'
<1>1. Numbers(q, -1, 0, 1) /\ queue'[q].stop = queue[q].stop
  BY DEF Typed, read_stop_dump, change, Numbers, QueueRecord
<1> QED BY <1>1, RoomKept

LEMMA SetShouldStop ==
  ASSUME Typed, Room, NEW q \in Queue, set_should_stop(q)
  PROVE  Numbers(q, 0, 1, 0) /\ queue'[q].stop /\ Room'
<1>1. Numbers(q, 0, 1, 0) /\ queue'[q].stop
  BY DEF Typed, set_should_stop, Numbers, QueueRecord
<1> QED BY <1>1, RoomKept

(* A service other than the compressor returns with a failure.               *)
failing(s) ==
  /\ pc[s] \in {"process", "work", "deadline"}
  /\ pc' = [pc EXCEPT ![s] = "done"]
  /\ failed' = failed \cup {s}
  /\ missed' \in {missed, missed \cup {s}}
  /\ UNCHANGED <<mainVars, queue, sem, stop, done_sem, frame_acc_count, archive>>

LEMMA Failing ==
  ASSUME IInv, NEW s \in Service \ {"compressor"}, failing(s)
  PROVE  IInv'
<1> USE
   DEF IInv, failing, mainVars, Service, bit, Typed, QueueRecord, Queue,
       ServicePlace, Place, JoinedSelect, JoinedConvert, JoinedStorage,
       StopAfterProducer, storage_waits_for_it
<1>1. Typed'
  BY DEF Started
<1>2. Room'
  BY DEF Room
<1>3. Wakeups' /\ Consuming' /\ Window'
  BY DEF Wakeups, Consuming, Window
<1>4. Handshake'
  BY DEF Handshake
<1>5. Joined'
  BY DEF Joined
<1>6. Stopped'
  BY DEF Stopped
<1>7. Drained' /\ FailedAreDone'
  BY DEF Drained, FailedAreDone
<1> QED BY <1>1, <1>2, <1>3, <1>4, <1>5, <1>6, <1>7

(* S1, S2, S3, the writer and the compressor: every step keeps IInv.           *)
LEMMA CaptureStep ==
  ASSUME IInv, alive, frame_acq_run
  PROVE  IInv'
<1> USE CountAssumption, FailAssumption
   DEF IInv, goto, fails, misses_deadline, mainVars, serviceVars, Service, bit,
       alive, Typed, QueueRecord, Queue, ServicePlace, Place, JoinedSelect,
       JoinedConvert, JoinedStorage, StopAfterProducer, storage_waits_for_it
<1>1. CASE capture_waits
  <2>2. Typed'
    BY <1>1 DEF capture_waits
  <2>3. Room'
    BY <1>1 DEF capture_waits, Room
  <2>4. Wakeups' /\ Consuming' /\ Window'
    BY <1>1 DEF capture_waits, Wakeups, Consuming, Window
  <2>5. Handshake'
    BY <1>1 DEF capture_waits, Handshake
  <2>6. Joined' /\ Stopped' /\ Drained' /\ FailedAreDone'
    BY <1>1 DEF capture_waits, Joined, Stopped, Drained, FailedAreDone
  <2> QED BY <2>2, <2>3, <2>4, <2>5, <2>6
<1>2. CASE capture_checks_stop
  <2>2. Typed'
    BY <1>2 DEF capture_checks_stop
  <2>3. Room'
    BY <1>2 DEF capture_checks_stop, Room
  <2>4. Wakeups' /\ Consuming' /\ Window'
    BY <1>2 DEF capture_checks_stop, Wakeups, Consuming, Window
  <2>5. Handshake'
    BY <1>2 DEF capture_checks_stop, Handshake
  <2>6. Joined' /\ Stopped' /\ Drained' /\ FailedAreDone'
    BY <1>2 DEF capture_checks_stop, Joined, Stopped, Drained, FailedAreDone
  <2> QED BY <2>2, <2>3, <2>4, <2>5, <2>6
<1>3. CASE capture_push_start
  <2>1. Numbers("acq", 1, 0, -1) /\ queue'["acq"].stop = queue["acq"].stop
      /\ Room'
    BY <1>3, PushStart, Zenon DEF capture_push_start
  <2>2. Typed'
    BY <1>3, <2>1 DEF capture_push_start, Numbers
  <2>3. Wakeups' /\ Consuming' /\ Window'
    BY <1>3, <2>1 DEF capture_push_start, Wakeups, Consuming, Window, Numbers
  <2>4. Handshake'
    BY <1>3, <2>1 DEF capture_push_start, Handshake, Numbers
  <2>5. Joined' /\ Stopped' /\ Drained' /\ FailedAreDone'
    BY <1>3, <2>1
       DEF capture_push_start, Joined, Stopped, Drained, FailedAreDone, Numbers
  <2> QED BY <2>1, <2>2, <2>3, <2>4, <2>5
<1>4. CASE capture_push_end
  <2>1. Numbers("acq", 0, 1, 0) /\ queue'["acq"].stop = queue["acq"].stop /\
      Room'
    BY <1>4, PushEnd, Zenon DEF capture_push_end
  <2>2. Typed'
    BY <1>4, <2>1 DEF capture_push_end, Numbers
  <2>3. Wakeups' /\ Consuming' /\ Window'
    BY <1>4, <2>1 DEF capture_push_end, Wakeups, Consuming, Window, Numbers
  <2>4. Handshake'
    BY <1>4, <2>1 DEF capture_push_end, Handshake, Numbers
  <2>5. Joined' /\ Stopped' /\ Drained' /\ FailedAreDone'
    BY <1>4, <2>1
       DEF capture_push_end, Joined, Stopped, Drained, FailedAreDone, Numbers
  <2> QED BY <2>1, <2>2, <2>3, <2>4, <2>5
<1>5. CASE capture_returns
  <2>1. CASE goto("capture", "deadline", "wait")
    <3>1. Typed'
      BY <1>5, <2>1 DEF capture_returns
    <3>2. Room'
      BY <1>5, <2>1 DEF capture_returns, Room
    <3>3. Wakeups' /\ Consuming' /\ Window'
      BY <1>5, <2>1 DEF capture_returns, Wakeups, Consuming, Window
    <3>4. Handshake'
      BY <1>5, <2>1 DEF capture_returns, Handshake
    <3>5. Joined' /\ Stopped' /\ Drained' /\ FailedAreDone'
      BY <1>5, <2>1
         DEF capture_returns, Joined, Stopped, Drained, FailedAreDone
    <3> QED BY <3>1, <3>2, <3>3, <3>4, <3>5
  <2>2. CASE misses_deadline("capture", "deadline")
    <3>1. "capture" \in Service \ {"compressor"}
      BY DEF Service
    <3>2. failing("capture")
      BY <1>5, <2>2 DEF capture_returns, failing
    <3> QED BY <3>1, <3>2, Failing, Zenon
  <2>3. CASE fails("capture", "work")
    <3>1. "capture" \in Service \ {"compressor"}
      BY DEF Service
    <3>2. failing("capture")
      BY <1>5, <2>3 DEF capture_returns, failing
    <3> QED BY <3>1, <3>2, Failing, Zenon
  <2> QED BY <1>5, <2>1, <2>2, <2>3 DEF capture_returns
<1> QED BY <1>1, <1>2, <1>3, <1>4, <1>5 DEF frame_acq_run

LEMMA SelectStep ==
  ASSUME IInv, alive, select_run
  PROVE  IInv'
<1> USE CountAssumption, FailAssumption
   DEF IInv, goto, fails, misses_deadline, mainVars, serviceVars, Service, bit,
       alive, Typed, QueueRecord, Queue, ServicePlace, Place, JoinedSelect,
       JoinedConvert, JoinedStorage, StopAfterProducer, storage_waits_for_it
<1>1. CASE cleanup_frames
  <2>1. CASE frame_acc_count >= MaxAcc
    <3>1. Numbers("acq", -1, 0, 1) /\ queue'["acq"].stop = queue["acq"].stop
        /\ Room'
      <4>1. queue["acq"].count >= 1
        BY <2>1 DEF Consuming
      <4>2. read_stop_dump("acq")
        BY <1>1, <2>1 DEF cleanup_frames
      <4> QED BY <4>1, <4>2, ReadStopDump, Zenon
    <3>2. Typed'
      BY <1>1, <2>1, <3>1 DEF cleanup_frames, Numbers
    <3>3. Wakeups' /\ Consuming' /\ Window'
      BY <1>1, <2>1, <3>1
         DEF cleanup_frames, Wakeups, Consuming, Window, Numbers
    <3>4. Handshake'
      BY <1>1, <2>1, <3>1 DEF cleanup_frames, Handshake, Numbers
    <3>5. Joined' /\ Stopped' /\ Drained' /\ FailedAreDone'
      BY <1>1, <2>1, <3>1
         DEF cleanup_frames, Joined, Stopped, Drained, FailedAreDone, Numbers
    <3> QED BY <3>1, <3>2, <3>3, <3>4, <3>5
  <2>2. CASE frame_acc_count < MaxAcc
    <3>1. Typed'
      BY <1>1, <2>2 DEF cleanup_frames
    <3>2. Room'
      BY <1>1, <2>2 DEF cleanup_frames, Room
    <3>3. Wakeups' /\ Consuming' /\ Window'
      BY <1>1, <2>2 DEF cleanup_frames, Wakeups, Consuming, Window
    <3>4. Handshake'
      BY <1>1, <2>2 DEF cleanup_frames, Handshake
    <3>5. Joined' /\ Stopped' /\ Drained' /\ FailedAreDone'
      BY <1>1, <2>2 DEF cleanup_frames, Joined, Stopped, Drained, FailedAreDone
    <3> QED BY <3>1, <3>2, <3>3, <3>4, <3>5
  <2> QED BY <1>1, <2>1, <2>2 DEF cleanup_frames
<1>2. CASE select_reads
  <2>1. Numbers("acq", 0, -1, 0) /\ queue'["acq"].stop = queue["acq"].stop
      /\ Room'
    BY <1>2, ReadStart, Zenon DEF select_reads
  <2>2. Typed'
    BY <1>2, <2>1 DEF select_reads, Numbers
  <2>3. Wakeups' /\ Consuming' /\ Window'
    BY <1>2, <2>1 DEF select_reads, Wakeups, Consuming, Window, Numbers
  <2>4. Handshake'
    BY <1>2, <2>1 DEF select_reads, Handshake, Numbers
  <2>5. Joined' /\ Stopped' /\ Drained' /\ FailedAreDone'
    BY <1>2, <2>1
       DEF select_reads, Joined, Stopped, Drained, FailedAreDone, Numbers
  <2> QED BY <2>1, <2>2, <2>3, <2>4, <2>5
<1>3. CASE select_checks_stop
  <2>1. CASE queue["acq"].stop
    <3>1. Typed'
      BY <1>3, <2>1 DEF select_checks_stop
    <3>2. Room'
      BY <1>3, <2>1 DEF select_checks_stop, Room
    <3>3. Wakeups' /\ Consuming' /\ Window'
      BY <1>3, <2>1 DEF select_checks_stop, Wakeups, Consuming, Window
    <3>4. Handshake'
      BY <1>3, <2>1 DEF select_checks_stop, Handshake
    <3>5. Joined'
      BY <1>3, <2>1 DEF select_checks_stop, Joined
    <3>6. Stopped'
      BY <1>3, <2>1 DEF select_checks_stop, Stopped
    <3>7. Drained'
      BY <1>3, <2>1 DEF select_checks_stop, Drained
    <3>8. FailedAreDone'
      BY <1>3, <2>1 DEF select_checks_stop, FailedAreDone, Started
    <3> QED BY <3>1, <3>2, <3>3, <3>4, <3>5, <3>6, <3>7, <3>8
  <2>2. CASE ~queue["acq"].stop
    <3>1. Typed'
      BY <1>3, <2>2 DEF select_checks_stop
    <3>2. Room'
      BY <1>3, <2>2 DEF select_checks_stop, Room
    <3>3. Wakeups' /\ Consuming' /\ Window'
      BY <1>3, <2>2 DEF select_checks_stop, Wakeups, Consuming, Window
    <3>4. Handshake'
      BY <1>3, <2>2 DEF select_checks_stop, Handshake
    <3>5. Joined'
      BY <1>3, <2>2 DEF select_checks_stop, Joined
    <3>6. Stopped'
      BY <1>3, <2>2 DEF select_checks_stop, Stopped
    <3>7. Drained'
      BY <1>3, <2>2 DEF select_checks_stop, Drained
    <3>8. FailedAreDone'
      <4>1. /\ failed' = failed /\ pc["select"] = "check"
            /\ \A s \in Service \ {"select"} : pc'[s] = pc[s]
        BY <1>3, <2>2 DEF select_checks_stop
      <4>2. "select" \notin failed
        BY <4>1 DEF FailedAreDone
      <4>3. failed \subseteq Service
        BY DEF Started
      <4> QED
        BY <4>1, <4>2, <4>3, Zenon DEF FailedAreDone
    <3> QED BY <3>1, <3>2, <3>3, <3>4, <3>5, <3>6, <3>7, <3>8
  <2> QED BY <1>3, <2>1, <2>2 DEF select_checks_stop
<1>4. CASE select_processes
  <2>1. CASE goto("select", "process", "deadline")
    <3>1. Typed'
      BY <1>4, <2>1 DEF select_processes
    <3>2. Room'
      BY <1>4, <2>1 DEF select_processes, Room
    <3>3. Wakeups' /\ Consuming' /\ Window'
      BY <1>4, <2>1 DEF select_processes, Wakeups, Consuming, Window
    <3>4. Handshake'
      BY <1>4, <2>1 DEF select_processes, Handshake
    <3>5. Joined' /\ Stopped' /\ Drained' /\ FailedAreDone'
      BY <1>4, <2>1
         DEF select_processes, Joined, Stopped, Drained, FailedAreDone
    <3> QED BY <3>1, <3>2, <3>3, <3>4, <3>5
  <2>2. CASE frame_acc_count = MaxAcc /\ goto("select", "process",
      "push_start")
    <3>1. Typed'
      BY <1>4, <2>2 DEF select_processes
    <3>2. Room'
      BY <1>4, <2>2 DEF select_processes, Room
    <3>3. Wakeups' /\ Consuming' /\ Window'
      BY <1>4, <2>2 DEF select_processes, Wakeups, Consuming, Window
    <3>4. Handshake'
      BY <1>4, <2>2 DEF select_processes, Handshake
    <3>5. Joined' /\ Stopped' /\ Drained' /\ FailedAreDone'
      BY <1>4, <2>2
         DEF select_processes, Joined, Stopped, Drained, FailedAreDone
    <3> QED BY <3>1, <3>2, <3>3, <3>4, <3>5
  <2>3. CASE goto("select", "process", "done")
    <3>1. Typed'
      BY <1>4, <2>3 DEF select_processes
    <3>2. Room'
      BY <1>4, <2>3 DEF select_processes, Room
    <3>3. Wakeups' /\ Consuming' /\ Window'
      BY <1>4, <2>3 DEF select_processes, Wakeups, Consuming, Window
    <3>4. Handshake'
      BY <1>4, <2>3 DEF select_processes, Handshake
    <3>5. Joined' /\ Stopped' /\ Drained' /\ FailedAreDone'
      BY <1>4, <2>3
         DEF select_processes, Joined, Stopped, Drained, FailedAreDone
    <3> QED BY <3>1, <3>2, <3>3, <3>4, <3>5
  <2>4. CASE fails("select", "process")
    <3>1. "select" \in Service \ {"compressor"}
      BY DEF Service
    <3>2. failing("select")
      BY <1>4, <2>4 DEF select_processes, failing
    <3> QED BY <3>1, <3>2, Failing, Zenon
  <2> QED BY <1>4, <2>1, <2>2, <2>3, <2>4 DEF select_processes
<1>5. CASE select_pushes
  <2>1. Numbers("select", 1, 1, -1) /\ queue'["select"].stop =
      queue["select"].stop /\ Room'
    BY <1>5, Push, Zenon DEF select_pushes
  <2>2. Typed'
    BY <1>5, <2>1 DEF select_pushes, Numbers
  <2>3. Wakeups' /\ Consuming' /\ Window'
    BY <1>5, <2>1 DEF select_pushes, Wakeups, Consuming, Window, Numbers
  <2>4. Handshake'
    BY <1>5, <2>1 DEF select_pushes, Handshake, Numbers
  <2>5. Joined' /\ Stopped' /\ Drained' /\ FailedAreDone'
    BY <1>5, <2>1
       DEF select_pushes, Joined, Stopped, Drained, FailedAreDone, Numbers
  <2> QED BY <2>1, <2>2, <2>3, <2>4, <2>5
<1>6. CASE select_deadline
  <2>1. CASE goto("select", "deadline", "cleanup")
    <3>1. Typed'
      BY <1>6, <2>1 DEF select_deadline
    <3>2. Room'
      BY <1>6, <2>1 DEF select_deadline, Room
    <3>3. Wakeups' /\ Consuming' /\ Window'
      BY <1>6, <2>1 DEF select_deadline, Wakeups, Consuming, Window
    <3>4. Handshake'
      BY <1>6, <2>1 DEF select_deadline, Handshake
    <3>5. Joined' /\ Stopped' /\ Drained' /\ FailedAreDone'
      BY <1>6, <2>1
         DEF select_deadline, Joined, Stopped, Drained, FailedAreDone
    <3> QED BY <3>1, <3>2, <3>3, <3>4, <3>5
  <2>2. CASE misses_deadline("select", "deadline")
    <3>1. "select" \in Service \ {"compressor"}
      BY DEF Service
    <3>2. failing("select")
      BY <1>6, <2>2 DEF select_deadline, failing
    <3> QED BY <3>1, <3>2, Failing, Zenon
  <2> QED BY <1>6, <2>1, <2>2 DEF select_deadline
<1> QED BY <1>1, <1>2, <1>3, <1>4, <1>5, <1>6 DEF select_run

LEMMA ConvertStep ==
  ASSUME IInv, alive, convert_run
  PROVE  IInv'
<1> USE CountAssumption, FailAssumption
   DEF IInv, goto, fails, misses_deadline, mainVars, serviceVars, Service, bit,
       alive, Typed, QueueRecord, Queue, ServicePlace, Place, JoinedSelect,
       JoinedConvert, JoinedStorage, StopAfterProducer, storage_waits_for_it
<1>1. CASE convert_reads
  <2>1. Numbers("select", 0, -1, 0) /\ queue'["select"].stop =
      queue["select"].stop /\ Room'
    BY <1>1, ReadStart, Zenon DEF convert_reads
  <2>2. Typed'
    BY <1>1, <2>1 DEF convert_reads, Numbers
  <2>3. Wakeups' /\ Consuming' /\ Window'
    BY <1>1, <2>1 DEF convert_reads, Wakeups, Consuming, Window, Numbers
  <2>4. Handshake'
    BY <1>1, <2>1 DEF convert_reads, Handshake, Numbers
  <2>5. Joined' /\ Stopped' /\ Drained' /\ FailedAreDone'
    BY <1>1, <2>1
       DEF convert_reads, Joined, Stopped, Drained, FailedAreDone, Numbers
  <2> QED BY <2>1, <2>2, <2>3, <2>4, <2>5
<1>2. CASE convert_checks_stop
  <2>2. Typed'
    BY <1>2 DEF convert_checks_stop, should_leave
  <2>3. Room'
    BY <1>2 DEF convert_checks_stop, Room, should_leave
  <2>4. Wakeups' /\ Consuming' /\ Window'
    BY <1>2 DEF convert_checks_stop, Wakeups, Consuming, Window, should_leave
  <2>5. Handshake'
    BY <1>2 DEF convert_checks_stop, Handshake, should_leave
  <2>6. Joined' /\ Stopped' /\ Drained' /\ FailedAreDone'
    BY <1>2
       DEF convert_checks_stop, Joined, Stopped, Drained, FailedAreDone,
           should_leave
  <2> QED BY <2>2, <2>3, <2>4, <2>5, <2>6
<1>3. CASE convert_push_start
  <2>1. Numbers("rgb", 1, 0, -1) /\ queue'["rgb"].stop = queue["rgb"].stop
      /\ Room'
    BY <1>3, PushStart, Zenon DEF convert_push_start
  <2>2. Typed'
    BY <1>3, <2>1 DEF convert_push_start, Numbers
  <2>3. Wakeups' /\ Consuming' /\ Window'
    BY <1>3, <2>1 DEF convert_push_start, Wakeups, Consuming, Window, Numbers
  <2>4. Handshake'
    BY <1>3, <2>1 DEF convert_push_start, Handshake, Numbers
  <2>5. Joined' /\ Stopped' /\ Drained' /\ FailedAreDone'
    BY <1>3, <2>1
       DEF convert_push_start, Joined, Stopped, Drained, FailedAreDone, Numbers
  <2> QED BY <2>1, <2>2, <2>3, <2>4, <2>5
<1>4. CASE convert_push_end
  <2>1. Numbers("rgb", 0, 1, 0) /\ queue'["rgb"].stop = queue["rgb"].stop /\
      Room'
    BY <1>4, PushEnd, Zenon DEF convert_push_end
  <2>2. Typed'
    BY <1>4, <2>1 DEF convert_push_end, Numbers
  <2>3. Wakeups' /\ Consuming' /\ Window'
    BY <1>4, <2>1 DEF convert_push_end, Wakeups, Consuming, Window, Numbers
  <2>4. Handshake'
    BY <1>4, <2>1 DEF convert_push_end, Handshake, Numbers
  <2>5. Joined' /\ Stopped' /\ Drained' /\ FailedAreDone'
    BY <1>4, <2>1
       DEF convert_push_end, Joined, Stopped, Drained, FailedAreDone, Numbers
  <2> QED BY <2>1, <2>2, <2>3, <2>4, <2>5
<1>5. CASE convert_dumps
  <2>1. Numbers("select", -1, 0, 1) /\ queue'["select"].stop =
      queue["select"].stop /\ Room'
    BY <1>5, ReadStopDump, Zenon DEF convert_dumps, Consuming
  <2>2. Typed'
    BY <1>5, <2>1 DEF convert_dumps, Numbers
  <2>3. Wakeups' /\ Consuming' /\ Window'
    BY <1>5, <2>1 DEF convert_dumps, Wakeups, Consuming, Window, Numbers
  <2>4. Handshake'
    BY <1>5, <2>1 DEF convert_dumps, Handshake, Numbers
  <2>5. Joined' /\ Stopped' /\ Drained' /\ FailedAreDone'
    BY <1>5, <2>1
       DEF convert_dumps, Joined, Stopped, Drained, FailedAreDone, Numbers
  <2> QED BY <2>1, <2>2, <2>3, <2>4, <2>5
<1>6. CASE convert_returns
  <2>1. CASE goto("convert", "deadline", "wait")
    <3>1. Typed'
      BY <1>6, <2>1 DEF convert_returns
    <3>2. Room'
      BY <1>6, <2>1 DEF convert_returns, Room
    <3>3. Wakeups' /\ Consuming' /\ Window'
      BY <1>6, <2>1 DEF convert_returns, Wakeups, Consuming, Window
    <3>4. Handshake'
      BY <1>6, <2>1 DEF convert_returns, Handshake
    <3>5. Joined' /\ Stopped' /\ Drained' /\ FailedAreDone'
      BY <1>6, <2>1
         DEF convert_returns, Joined, Stopped, Drained, FailedAreDone
    <3> QED BY <3>1, <3>2, <3>3, <3>4, <3>5
  <2>2. CASE misses_deadline("convert", "deadline")
    <3>1. "convert" \in Service \ {"compressor"}
      BY DEF Service
    <3>2. failing("convert")
      BY <1>6, <2>2 DEF convert_returns, failing
    <3> QED BY <3>1, <3>2, Failing, Zenon
  <2>3. CASE fails("convert", "work")
    <3>1. "convert" \in Service \ {"compressor"}
      BY DEF Service
    <3>2. failing("convert")
      BY <1>6, <2>3 DEF convert_returns, failing
    <3> QED BY <3>1, <3>2, Failing, Zenon
  <2> QED BY <1>6, <2>1, <2>2, <2>3 DEF convert_returns
<1> QED BY <1>1, <1>2, <1>3, <1>4, <1>5, <1>6 DEF convert_run

LEMMA StorageStep ==
  ASSUME IInv, alive, write_to_storage_run
  PROVE  IInv'
<1> USE CountAssumption, FailAssumption
   DEF IInv, goto, fails, misses_deadline, mainVars, serviceVars, Service, bit,
       alive, Typed, QueueRecord, Queue, ServicePlace, Place, JoinedSelect,
       JoinedConvert, JoinedStorage, StopAfterProducer, storage_waits_for_it
<1>1. CASE storage_reads
  <2>1. Numbers("rgb", 0, -1, 0) /\ queue'["rgb"].stop = queue["rgb"].stop
      /\ Room'
    BY <1>1, ReadStart, Zenon DEF storage_reads
  <2>2. Typed'
    BY <1>1, <2>1 DEF storage_reads, Numbers
  <2>3. Wakeups' /\ Consuming' /\ Window'
    BY <1>1, <2>1 DEF storage_reads, Wakeups, Consuming, Window, Numbers
  <2>4. Handshake'
    BY <1>1, <2>1 DEF storage_reads, Handshake, Numbers
  <2>5. Joined' /\ Stopped' /\ Drained' /\ FailedAreDone'
    BY <1>1, <2>1
       DEF storage_reads, Joined, Stopped, Drained, FailedAreDone, Numbers
  <2> QED BY <2>1, <2>2, <2>3, <2>4, <2>5
<1>2. CASE storage_checks_stop
  <2>2. Typed'
    BY <1>2 DEF storage_checks_stop, should_leave
  <2>3. Room'
    BY <1>2 DEF storage_checks_stop, Room, should_leave
  <2>4. Wakeups' /\ Consuming' /\ Window'
    BY <1>2 DEF storage_checks_stop, Wakeups, Consuming, Window, should_leave
  <2>5. Handshake'
    BY <1>2 DEF storage_checks_stop, Handshake, should_leave
  <2>6. Joined' /\ Stopped' /\ Drained' /\ FailedAreDone'
    BY <1>2
       DEF storage_checks_stop, Joined, Stopped, Drained, FailedAreDone,
           should_leave
  <2> QED BY <2>2, <2>3, <2>4, <2>5, <2>6
<1>3. CASE storage_pushes
  <2>1. Numbers("consumers", 1, 1, -1) /\ queue'["consumers"].stop =
      queue["consumers"].stop /\ Room'
    BY <1>3, Push, Zenon DEF storage_pushes
  <2>2. Typed'
    BY <1>3, <2>1 DEF storage_pushes, Numbers, FailedAreDone
  <2>3. Wakeups' /\ Consuming' /\ Window'
    BY <1>3, <2>1
       DEF storage_pushes, Wakeups, Consuming, Window, Numbers, FailedAreDone
  <2>4. Handshake'
    BY <1>3, <2>1 DEF storage_pushes, Handshake, Numbers, FailedAreDone
  <2>5. Joined' /\ Stopped' /\ Drained' /\ FailedAreDone'
    BY <1>3, <2>1
       DEF storage_pushes, Joined, Stopped, Drained, FailedAreDone, Numbers
  <2> QED BY <2>1, <2>2, <2>3, <2>4, <2>5
<1>4. CASE storage_saves
  <2>1. CASE goto("storage", "work", IF Compress THEN "wait_done" ELSE
      "read_stop_dump")
    <3>1. Typed'
      BY <1>4, <2>1 DEF storage_saves, FailedAreDone, Started
    <3>2. Room'
      BY <1>4, <2>1 DEF storage_saves, Room, FailedAreDone, Started
    <3>3. Wakeups' /\ Consuming' /\ Window'
      BY <1>4, <2>1
         DEF storage_saves, Wakeups, Consuming, Window, FailedAreDone, Started
    <3>4. Handshake'
      BY <1>4, <2>1 DEF storage_saves, Handshake, FailedAreDone, Started
    <3>5. Joined' /\ Stopped' /\ Drained' /\ FailedAreDone'
      BY <1>4, <2>1
         DEF storage_saves, Joined, Stopped, Drained, FailedAreDone, Started
    <3> QED BY <3>1, <3>2, <3>3, <3>4, <3>5
  <2>2. CASE fails("storage", "work")
    <3>1. "storage" \in Service \ {"compressor"}
      BY DEF Service
    <3>2. failing("storage")
      BY <1>4, <2>2 DEF storage_saves, failing
    <3> QED BY <3>1, <3>2, Failing, Zenon
  <2> QED BY <1>4, <2>1, <2>2 DEF storage_saves
<1>5. CASE storage_waits
  <2>2. Typed'
    BY <1>5 DEF storage_waits, FailedAreDone
  <2>3. Room'
    BY <1>5 DEF storage_waits, Room, FailedAreDone
  <2>4. Wakeups' /\ Consuming' /\ Window'
    BY <1>5 DEF storage_waits, Wakeups, Consuming, Window, FailedAreDone
  <2>5. Handshake'
    BY <1>5 DEF storage_waits, Handshake, FailedAreDone
  <2>6. Joined' /\ Stopped' /\ Drained' /\ FailedAreDone'
    BY <1>5 DEF storage_waits, Joined, Stopped, Drained, FailedAreDone
  <2> QED BY <2>2, <2>3, <2>4, <2>5, <2>6
<1>6. CASE storage_dumps
  <2>1. Numbers("rgb", -1, 0, 1) /\ queue'["rgb"].stop = queue["rgb"].stop
      /\ Room'
    BY <1>6, ReadStopDump, Zenon DEF storage_dumps, Consuming
  <2>2. Typed'
    BY <1>6, <2>1 DEF storage_dumps, Numbers
  <2>3. Wakeups' /\ Consuming' /\ Window'
    BY <1>6, <2>1 DEF storage_dumps, Wakeups, Consuming, Window, Numbers
  <2>4. Handshake'
    BY <1>6, <2>1 DEF storage_dumps, Handshake, Numbers
  <2>5. Joined' /\ Stopped' /\ Drained' /\ FailedAreDone'
    BY <1>6, <2>1
       DEF storage_dumps, Joined, Stopped, Drained, FailedAreDone, Numbers
  <2> QED BY <2>1, <2>2, <2>3, <2>4, <2>5
<1> QED BY <1>1, <1>2, <1>3, <1>4, <1>5, <1>6 DEF write_to_storage_run

LEMMA CompressorStep ==
  ASSUME IInv, alive, compressor_run
  PROVE  IInv'
<1> USE CountAssumption, FailAssumption
   DEF IInv, goto, fails, misses_deadline, mainVars, serviceVars, Service, bit,
       alive, Typed, QueueRecord, Queue, ServicePlace, Place, JoinedSelect,
       JoinedConvert, JoinedStorage, StopAfterProducer, storage_waits_for_it
<1>1. CASE compressor_reads
  <2>1. Numbers("consumers", 0, -1, 0) /\ queue'["consumers"].stop =
      queue["consumers"].stop /\ Room'
    BY <1>1, ReadStart, Zenon DEF compressor_reads
  <2>2. Typed'
    BY <1>1, <2>1 DEF compressor_reads, Numbers
  <2>3. Wakeups' /\ Consuming' /\ Window'
    BY <1>1, <2>1 DEF compressor_reads, Wakeups, Consuming, Window, Numbers
  <2>4. Handshake'
    BY <1>1, <2>1 DEF compressor_reads, Handshake, Numbers
  <2>5. Joined' /\ Stopped' /\ Drained' /\ FailedAreDone'
    BY <1>1, <2>1
       DEF compressor_reads, Joined, Stopped, Drained, FailedAreDone, Numbers
  <2> QED BY <2>1, <2>2, <2>3, <2>4, <2>5
<1>2. CASE compressor_checks_stop
  <2>1. CASE should_leave("consumers")
    <3>1. Typed'
      BY <1>2, <2>1 DEF compressor_checks_stop, should_leave
    <3>2. Room'
      BY <1>2, <2>1 DEF compressor_checks_stop, Room, should_leave
    <3>3. Wakeups' /\ Consuming' /\ Window'
      BY <1>2, <2>1
         DEF compressor_checks_stop, Wakeups, Consuming, Window, should_leave
    <3>4. Handshake'
      BY <1>2, <2>1 DEF compressor_checks_stop, Handshake, should_leave
    <3>5. Joined'
      BY <1>2, <2>1 DEF compressor_checks_stop, Joined, should_leave
    <3>6. Stopped'
      BY <1>2, <2>1 DEF compressor_checks_stop, Stopped, should_leave
    <3>7. Drained'
      BY <1>2, <2>1 DEF compressor_checks_stop, Drained, should_leave
    <3>8. FailedAreDone'
      <4>1. failed' = failed /\ \A s \in Service \ {"compressor"} : pc'[s] =
          pc[s]
        BY <1>2, <2>1 DEF compressor_checks_stop
      <4> QED BY <4>1 DEF FailedAreDone, Started
    <3> QED BY <3>1, <3>2, <3>3, <3>4, <3>5, <3>6, <3>7, <3>8
  <2>2. CASE ~should_leave("consumers")
    <3>1. Typed'
      BY <1>2, <2>2 DEF compressor_checks_stop, should_leave
    <3>2. Room'
      BY <1>2, <2>2 DEF compressor_checks_stop, Room, should_leave
    <3>3. Wakeups' /\ Consuming' /\ Window'
      BY <1>2, <2>2
         DEF compressor_checks_stop, Wakeups, Consuming, Window, should_leave
    <3>4. Handshake'
      BY <1>2, <2>2 DEF compressor_checks_stop, Handshake, should_leave
    <3>5. Joined'
      BY <1>2, <2>2 DEF compressor_checks_stop, Joined, should_leave
    <3>6. Stopped'
      BY <1>2, <2>2 DEF compressor_checks_stop, Stopped, should_leave
    <3>7. Drained'
      BY <1>2, <2>2 DEF compressor_checks_stop, Drained, should_leave
    <3>8. FailedAreDone'
      <4>1. failed' = failed /\ \A s \in Service \ {"compressor"} : pc'[s] =
          pc[s]
        BY <1>2, <2>2 DEF compressor_checks_stop
      <4> QED BY <4>1 DEF FailedAreDone, Started
    <3> QED BY <3>1, <3>2, <3>3, <3>4, <3>5, <3>6, <3>7, <3>8
  <2> QED BY <1>2, <2>1, <2>2 DEF compressor_checks_stop
<1>3. CASE compressor_dumps
  <2>1. Numbers("consumers", -1, 0, 1) /\ queue'["consumers"].stop =
      queue["consumers"].stop /\ Room'
    BY <1>3, ReadStopDump, Zenon DEF compressor_dumps, Consuming
  <2>2. Typed'
    BY <1>3, <2>1 DEF compressor_dumps, Numbers
  <2>3. Wakeups' /\ Consuming' /\ Window'
    BY <1>3, <2>1 DEF compressor_dumps, Wakeups, Consuming, Window, Numbers
  <2>4. Handshake'
    BY <1>3, <2>1 DEF compressor_dumps, Handshake, Numbers
  <2>5. Joined' /\ Stopped' /\ Drained' /\ FailedAreDone'
    BY <1>3, <2>1
       DEF compressor_dumps, Joined, Stopped, Drained, FailedAreDone, Numbers
  <2> QED BY <2>1, <2>2, <2>3, <2>4, <2>5
<1>4. CASE compressor_posts
  <2>2. Typed'
    BY <1>4 DEF compressor_posts, FailedAreDone
  <2>3. Room'
    BY <1>4 DEF compressor_posts, Room, FailedAreDone
  <2>4. Wakeups' /\ Consuming' /\ Window'
    BY <1>4 DEF compressor_posts, Wakeups, Consuming, Window, FailedAreDone
  <2>5. Handshake'
    BY <1>4 DEF compressor_posts, Handshake, FailedAreDone
  <2>6. Joined' /\ Stopped' /\ Drained' /\ FailedAreDone'
    BY <1>4 DEF compressor_posts, Joined, Stopped, Drained, FailedAreDone
  <2> QED BY <2>2, <2>3, <2>4, <2>5, <2>6
<1>5. CASE compressor_returns
  <2>1. CASE fails("compressor", "work")
    <3>1. Typed'
      BY <1>5, <2>1 DEF compressor_returns, Started, Handshake, Consuming
    <3>2. Room'
      BY <1>5, <2>1 DEF compressor_returns, Room, Started, Handshake, Consuming
    <3>3. Wakeups' /\ Consuming' /\ Window'
      BY <1>5, <2>1
         DEF compressor_returns, Wakeups, Consuming, Window, Started, Handshake
    <3>4. Handshake'
      BY <1>5, <2>1 DEF compressor_returns, Handshake, Started, Consuming
    <3>5. Joined'
      BY <1>5, <2>1
         DEF compressor_returns, Joined, Started, Handshake, Consuming
    <3>6. Stopped'
      BY <1>5, <2>1
         DEF compressor_returns, Stopped, Started, Handshake, Consuming
    <3>7. Drained'
      BY <1>5, <2>1
         DEF compressor_returns, Drained, Started, Handshake, Consuming
    <3>8. FailedAreDone'
      BY <1>5, <2>1
         DEF compressor_returns, FailedAreDone, Started, Handshake, Consuming
    <3> QED BY <3>1, <3>2, <3>3, <3>4, <3>5, <3>6, <3>7, <3>8
  <2>2. CASE fails("compressor", "post_done")
    <3>1. Typed'
      BY <1>5, <2>2 DEF compressor_returns, Started, Handshake, Consuming
    <3>2. Room'
      BY <1>5, <2>2 DEF compressor_returns, Room, Started, Handshake, Consuming
    <3>3. Wakeups' /\ Consuming' /\ Window'
      BY <1>5, <2>2
         DEF compressor_returns, Wakeups, Consuming, Window, Started, Handshake
    <3>4. Handshake'
      BY <1>5, <2>2 DEF compressor_returns, Handshake, Started, Consuming
    <3>5. Joined'
      BY <1>5, <2>2
         DEF compressor_returns, Joined, Started, Handshake, Consuming
    <3>6. Stopped'
      BY <1>5, <2>2
         DEF compressor_returns, Stopped, Started, Handshake, Consuming
    <3>7. Drained'
      BY <1>5, <2>2
         DEF compressor_returns, Drained, Started, Handshake, Consuming
    <3>8. FailedAreDone'
      BY <1>5, <2>2
         DEF compressor_returns, FailedAreDone, Started, Handshake, Consuming
    <3> QED BY <3>1, <3>2, <3>3, <3>4, <3>5, <3>6, <3>7, <3>8
  <2> QED BY <1>5, <2>1, <2>2 DEF compressor_returns
<1>6. CASE compressor_cleanup_crashes
  <2>2. Typed'
    BY <1>6
       DEF compressor_cleanup_crashes, Started, Handshake, Consuming,
           should_leave
  <2>3. Room'
    BY <1>6
       DEF compressor_cleanup_crashes, Room, Started, Handshake, Consuming,
           should_leave
  <2>4. Wakeups' /\ Consuming' /\ Window'
    BY <1>6
       DEF compressor_cleanup_crashes, Wakeups, Consuming, Window, Started,
           Handshake, should_leave
  <2>5. Handshake'
    BY <1>6
       DEF compressor_cleanup_crashes, Handshake, Started, Consuming,
           should_leave
  <2>6. Joined'
    BY <1>6
       DEF compressor_cleanup_crashes, Joined, Started, Handshake, Consuming,
           should_leave
  <2>7. Stopped'
    BY <1>6
       DEF compressor_cleanup_crashes, Stopped, Started, Handshake, Consuming,
           should_leave
  <2>8. Drained'
    BY <1>6
       DEF compressor_cleanup_crashes, Drained, Started, Handshake, Consuming,
           should_leave
  <2>9. FailedAreDone'
    BY <1>6
       DEF compressor_cleanup_crashes, FailedAreDone, Started, Handshake,
           Consuming, should_leave
  <2> QED BY <2>2, <2>3, <2>4, <2>5, <2>6, <2>7, <2>8, <2>9
<1> QED BY <1>1, <1>2, <1>3, <1>4, <1>5, <1>6 DEF compressor_run

(* synchronome_wait, the handler of SIGINT, the sequencer.                    *)
LEMMA MainStep ==
  ASSUME IInv, synchronome_wait
  PROVE  IInv'
<1> USE CountAssumption, FailAssumption
   DEF IInv, join, join_storage, returned, stop_queue, stop_capture, mainVars,
       serviceVars, Service, bit, Typed, QueueRecord, Queue, ServicePlace, Place,
       JoinedSelect, JoinedConvert, JoinedStorage, StopAfterProducer,
       storage_waits_for_it
<1>1. CASE join("select", "join_select", "stop_capture")
  <2>1. Typed'
    BY <1>1 DEF Started
  <2>2. Room'
    BY <1>1 DEF Room, Started
  <2>3. Wakeups' /\ Consuming' /\ Window'
    BY <1>1 DEF Wakeups, Consuming, Window, Started, Stopped
  <2>4. Handshake'
    BY <1>1 DEF Handshake, Started
  <2>5. Joined' /\ Stopped' /\ Drained' /\ FailedAreDone'
    BY <1>1 DEF Joined, Stopped, Drained, FailedAreDone, Started, Handshake
  <2> QED BY <2>1, <2>2, <2>3, <2>4, <2>5
<1>2. CASE stop_capture
  <2>1. Typed'
    BY <1>2 DEF Started
  <2>2. Room'
    BY <1>2 DEF Room, Started
  <2>3. Wakeups' /\ Consuming' /\ Window'
    BY <1>2 DEF Wakeups, Consuming, Window, Started, Stopped
  <2>4. Handshake'
    BY <1>2 DEF Handshake, Started
  <2>5. Joined' /\ Stopped' /\ Drained' /\ FailedAreDone'
    BY <1>2 DEF Joined, Stopped, Drained, FailedAreDone, Started, Handshake
  <2> QED BY <2>1, <2>2, <2>3, <2>4, <2>5
<1>3. CASE stop_queue("select", "stop_convert", "join_convert")
  <2>1. Numbers("select", 0, 1, 0) /\ queue'["select"].stop /\ Room'
    BY <1>3, SetShouldStop, Zenon
  <2>2. Typed'
    BY <1>3, <2>1 DEF Started, Numbers
  <2>3. Wakeups' /\ Consuming' /\ Window'
    BY <1>3, <2>1 DEF Wakeups, Consuming, Window, Started, Stopped, Numbers
  <2>4. Handshake'
    BY <1>3, <2>1 DEF Handshake, Started, Numbers
  <2>5. Joined' /\ Stopped' /\ Drained' /\ FailedAreDone'
    BY <1>3, <2>1
       DEF Joined, Stopped, Drained, FailedAreDone, Started, Handshake, Numbers
  <2> QED BY <2>1, <2>2, <2>3, <2>4, <2>5
<1>4. CASE join("convert", "join_convert", "stop_storage")
  <2>1. Typed'
    BY <1>4 DEF Started
  <2>2. Room'
    BY <1>4 DEF Room, Started
  <2>3. Wakeups' /\ Consuming' /\ Window'
    BY <1>4 DEF Wakeups, Consuming, Window, Started, Stopped
  <2>4. Handshake'
    BY <1>4 DEF Handshake, Started
  <2>5. Joined' /\ Stopped' /\ Drained' /\ FailedAreDone'
    BY <1>4 DEF Joined, Stopped, Drained, FailedAreDone, Started, Handshake
  <2> QED BY <2>1, <2>2, <2>3, <2>4, <2>5
<1>5. CASE stop_queue("rgb", "stop_storage", "join_storage")
  <2>1. Numbers("rgb", 0, 1, 0) /\ queue'["rgb"].stop /\ Room'
    BY <1>5, SetShouldStop, Zenon
  <2>2. Typed'
    BY <1>5, <2>1 DEF Started, Numbers
  <2>3. Wakeups' /\ Consuming' /\ Window'
    BY <1>5, <2>1 DEF Wakeups, Consuming, Window, Started, Stopped, Numbers
  <2>4. Handshake'
    BY <1>5, <2>1 DEF Handshake, Started, Numbers
  <2>5. Joined' /\ Stopped' /\ Drained' /\ FailedAreDone'
    BY <1>5, <2>1
       DEF Joined, Stopped, Drained, FailedAreDone, Started, Handshake, Numbers
  <2> QED BY <2>1, <2>2, <2>3, <2>4, <2>5
<1>6. CASE join_storage
  <2>1. Typed'
    BY <1>6 DEF Started
  <2>2. Room'
    BY <1>6 DEF Room, Started
  <2>3. Wakeups' /\ Consuming' /\ Window'
    BY <1>6 DEF Wakeups, Consuming, Window, Started, Stopped
  <2>4. Handshake'
    BY <1>6 DEF Handshake, Started
  <2>5. Joined' /\ Stopped' /\ Drained' /\ FailedAreDone'
    BY <1>6 DEF Joined, Stopped, Drained, FailedAreDone, Started, Handshake
  <2> QED BY <2>1, <2>2, <2>3, <2>4, <2>5
<1>7. CASE stop_queue("consumers", "stop_compressor", "join_compressor")
  <2>1. Numbers("consumers", 0, 1, 0) /\ queue'["consumers"].stop /\ Room'
    BY <1>7, SetShouldStop, Zenon
  <2>2. Typed'
    BY <1>7, <2>1 DEF Started, Numbers
  <2>3. Wakeups' /\ Consuming' /\ Window'
    BY <1>7, <2>1 DEF Wakeups, Consuming, Window, Started, Stopped, Numbers
  <2>4. Handshake'
    BY <1>7, <2>1 DEF Handshake, Started, Numbers
  <2>5. Joined' /\ Stopped' /\ Drained' /\ FailedAreDone'
    BY <1>7, <2>1
       DEF Joined, Stopped, Drained, FailedAreDone, Started, Handshake, Numbers
  <2> QED BY <2>1, <2>2, <2>3, <2>4, <2>5
<1>8. CASE join("compressor", "join_compressor", "join_capture")
  <2>1. Typed'
    BY <1>8 DEF Started
  <2>2. Room'
    BY <1>8 DEF Room, Started
  <2>3. Wakeups' /\ Consuming' /\ Window'
    BY <1>8 DEF Wakeups, Consuming, Window, Started, Stopped
  <2>4. Handshake'
    BY <1>8 DEF Handshake, Started
  <2>5. Joined' /\ Stopped' /\ Drained' /\ FailedAreDone'
    BY <1>8 DEF Joined, Stopped, Drained, FailedAreDone, Started, Handshake
  <2> QED BY <2>1, <2>2, <2>3, <2>4, <2>5
<1>9. CASE join("capture", "join_capture", "done")
  <2>1. Typed'
    BY <1>9 DEF Started
  <2>2. Room'
    BY <1>9 DEF Room, Started
  <2>3. Wakeups' /\ Consuming' /\ Window'
    BY <1>9 DEF Wakeups, Consuming, Window, Started, Stopped
  <2>4. Handshake'
    BY <1>9 DEF Handshake, Started
  <2>5. Joined' /\ Stopped' /\ Drained' /\ FailedAreDone'
    BY <1>9 DEF Joined, Stopped, Drained, FailedAreDone, Started, Handshake
  <2> QED BY <2>1, <2>2, <2>3, <2>4, <2>5
<1> QED BY <1>1, <1>2, <1>3, <1>4, <1>5, <1>6, <1>7, <1>8, <1>9
   DEF synchronome_wait

LEMMA SignalStep ==
  ASSUME IInv, alive, synchronome_stop
  PROVE  IInv'
<1> USE CountAssumption, FailAssumption
   DEF IInv, mainVars, serviceVars, Service, bit, synchronome_stop, Typed,
       QueueRecord, Queue, ServicePlace, Place, JoinedSelect, JoinedConvert,
       JoinedStorage, StopAfterProducer, storage_waits_for_it
<1>1. Numbers("acq", 0, 1, 0) /\ queue'["acq"].stop /\ Room'
  BY SetShouldStop, Zenon
<1>2. Typed'
  BY <1>1 DEF Started, Numbers
<1>3. Wakeups' /\ Consuming' /\ Window'
  BY <1>1 DEF Wakeups, Consuming, Window, Started, Stopped, Numbers
<1>4. Handshake'
  BY <1>1 DEF Handshake, Started, Numbers
<1>5. Joined' /\ Stopped' /\ Drained' /\ FailedAreDone'
  BY <1>1
     DEF Joined, Stopped, Drained, FailedAreDone, Started, Handshake, Numbers
<1> QED BY <1>1, <1>2, <1>3, <1>4, <1>5

(* Nothing is known of main at a place it leaves nobody.                     *)
LEMMA InterruptedStep ==
  ASSUME IInv, alive, push_start_interrupted
  PROVE  IInv'
<1> USE DEF IInv, alive, mainVars, serviceVars, bit, push_start_interrupted, Place,
            JoinedSelect, JoinedConvert, JoinedStorage, StopAfterProducer,
            storage_waits_for_it
<1>1. Typed' /\ Room'
  BY DEF Typed, Room
<1>2. Wakeups' /\ Consuming'
  BY DEF Wakeups, Consuming
<1>3. Window'
  BY CountAssumption DEF Typed, Window
<1>4. Handshake'
  BY DEF Handshake
<1>5. Joined' /\ Stopped' /\ Drained' /\ FailedAreDone'
  BY DEF Joined, Stopped, Drained, FailedAreDone
<1> QED BY <1>1, <1>2, <1>3, <1>4, <1>5

LEMMA SequencerStep ==
  ASSUME IInv, sequencer
  PROVE  IInv'
<1> USE CountAssumption, FailAssumption
   DEF IInv, mainVars, serviceVars, Service, bit, sequencer, behind, unread,
       Typed, QueueRecord, Queue, ServicePlace, Place, JoinedSelect, JoinedConvert,
       JoinedStorage, StopAfterProducer, storage_waits_for_it
<1>1. Typed'
  BY DEF Started
<1>2. Room'
  BY DEF Room, Started
<1>3. Wakeups' /\ Consuming' /\ Window'
  BY DEF Wakeups, Consuming, Window, Started, Stopped
<1>4. Handshake'
  BY DEF Handshake, Started
<1>5. Joined' /\ Stopped' /\ Drained' /\ FailedAreDone'
  BY DEF Joined, Stopped, Drained, FailedAreDone, Started, Handshake
<1> QED BY <1>1, <1>2, <1>3, <1>4, <1>5

-------------------------------------------------------------------------------
LEMMA Initially == Init => IInv
<1> SUFFICES ASSUME Init PROVE IInv
  OBVIOUS
<1> USE CountAssumption, FailAssumption
   DEF Init, Queue, QueueRecord, Service, Started, max_count,
       frame_buffer_count, bit
<1>1. Typed
  <2>1. pc \in [Service -> ServicePlace]
    BY DEF ServicePlace
  <2>2. queue \in [Queue -> QueueRecord]
    <3>1. \A q \in Queue : max_count[q] \in Nat
      OBVIOUS
    <3> HIDE DEF max_count, Queue
    <3> QED BY <3>1
  <2>3. archive \in 0 .. PackageSize - 1 /\ signals \in 0 .. MaxSignals
    OBVIOUS
  <2> QED BY <2>1, <2>2, <2>3 DEF Typed, Place
<1>2. Room
  BY DEF Room
<1>3. Wakeups /\ Consuming /\ Window
  BY DEF Wakeups, Consuming, Window
<1>4. Handshake
  BY DEF Handshake, storage_waits_for_it
<1>5. Joined /\ Stopped /\ Drained /\ FailedAreDone
  BY DEF Joined, Place, JoinedSelect, JoinedConvert, JoinedStorage, Stopped,
         StopAfterProducer, Drained, FailedAreDone
<1> QED BY <1>1, <1>2, <1>3, <1>4, <1>5 DEF IInv

LEMMA Stuttering == ASSUME IInv, UNCHANGED vars PROVE IInv'
  BY DEF IInv, vars, mainVars, serviceVars, Typed, Room, Wakeups, Consuming,
         Window, Handshake, storage_waits_for_it, Joined, Stopped,
         StopAfterProducer, Drained, FailedAreDone

LEMMA Invariance == Spec => []IInv
<1>1. Init => IInv
  BY Initially
<1>2. IInv /\ [Next]_vars => IInv'
  <2> SUFFICES ASSUME IInv, [Next]_vars PROVE IInv'
    OBVIOUS
  <2> QED
    BY SequencerStep, CaptureStep, SelectStep, ConvertStep, StorageStep,
       CompressorStep, MainStep, SignalStep, InterruptedStep, Stuttering
       DEF Next, Terminated
<1> QED BY <1>1, <1>2, PTL DEF Spec

(* However many services fail and however the threads interleave, no counter *)
(* of a queue leaves its range: a semaphore of spsc_queue_t counts at most    *)
(* the entries and the stops, rgb_consumers_done at most the entries of       *)
(* rgb_consumers_queue.                                                      *)
THEOREM TypeCorrect == Spec => []TypeOK
<1>1. IInv => TypeOK
  <2> SUFFICES ASSUME IInv PROVE TypeOK
    OBVIOUS
  <2> USE CountAssumption DEF IInv, Typed, bit
  <2>1. \A q \in Queue : max_count[q] \in Nat \ {0}
    BY DEF max_count, frame_buffer_count, Queue
  <2>2. \A q \in Queue : /\ queue[q].count \in 0 .. max_count[q]
                         /\ queue[q].write_sem \in 0 .. max_count[q]
                         /\ queue[q].stop \in BOOLEAN
    BY <2>1 DEF Room, QueueRecord
  <2>3. \A q \in Queue : queue[q].read_sem <= queue[q].count + MaxSignals + 1
    BY DEF Wakeups, QueueRecord, Queue
  <2>4. \A q \in Queue : queue[q].read_sem \in 0 .. max_count[q] + MaxSignals + 1
    BY <2>1, <2>2, <2>3 DEF QueueRecord
  <2>5. sem \in 0 .. MaxBehind + MaxSignals + 1 /\ frame_acc_count \in 0 .. MaxAcc
    BY DEF Window
  <2>6. done_sem \in 0 .. FileCount
    BY DEF Handshake, QueueRecord, Queue
  <2> QED BY <2>2, <2>4, <2>5, <2>6 DEF TypeOK, Place, ServicePlace
<1> QED BY <1>1, Invariance, PTL

(* main stops a queue only when its producer has returned.                   *)
THEOREM StopsAfterProducer == Spec => []StopAfterProducer
<1>1. IInv => StopAfterProducer
  BY DEF IInv, Stopped
<1> QED BY <1>1, Invariance, PTL

(* The entry of rgb_queue that the compressor reads is not released.          *)
THEOREM EntryIsHeld == Spec => []EntryHeldWhileCompressed
<1>1. IInv => EntryHeldWhileCompressed
  BY DEF IInv, Typed, QueueRecord, Queue, Handshake, storage_waits_for_it,
         EntryHeldWhileCompressed, bit
<1> QED BY <1>1, Invariance, PTL

(* When synchronome_wait returns and nothing failed, every frame that was     *)
(* selected has been converted, saved and compressed.                        *)
THEOREM NothingIsLeftBehind == Spec => []NothingLeftBehind
<1>1. IInv => NothingLeftBehind
  BY DEF IInv, Typed, QueueRecord, Queue, Joined, JoinedSelect, JoinedConvert,
         JoinedStorage, Place, Drained, Handshake, storage_waits_for_it,
         NothingLeftBehind, bit
<1> QED BY <1>1, Invariance, PTL

(* compressor.c:65-194: the compressor returns on no path with an archive     *)
(* open, so every acknowledged image is in a closed archive once it has, and *)
(* when synchronome_wait returns.  (The exit(1) of push_start and the stack   *)
(* overflow of compressor_cleanup end the process with the compressor not yet *)
(* back: of the archive that is open then nothing is said.)                  *)
THEOREM AllAcknowledgedAreArchived == Spec => []AcknowledgedAreArchived
<1>1. IInv => AcknowledgedAreArchived
  BY DEF IInv, Typed, Joined, Handshake, AcknowledgedAreArchived
<1> QED BY <1>1, Invariance, PTL

(* If a service failed and synchronome_wait returns all the same, it says so: a *)
(* compressor whose result main does not read fails only along with the      *)
(* writer, which waits for it for ever.                                      *)
THEOREM FailureIsReported == Spec => []FailureReported
<1>1. IInv => FailureReported
  <2> SUFFICES ASSUME IInv, main = "done", failed # {} PROVE ret = "failure"
    BY DEF FailureReported
  <2> PICK s \in Service : s \in failed
    BY DEF IInv, Typed, Started
  <2> QED
    BY DEF IInv, Typed, Service, Joined, JoinedSelect, JoinedConvert, JoinedStorage,
           Place, Handshake, storage_waits_for_it
<1> QED BY <1>1, Invariance, PTL
=============================================================================
