------------------------------- MODULE SpscQueue -------------------------------
(***************************************************************************)
(* lib/spsc_queue.h: the single producer, single consumer blocking ring    *)
(* that connects the services (acq_queue, select_queue, rgb_queue and      *)
(* rgb_consumers_queue are its four instances), one step for every access  *)
(* to shared memory and every semaphore call.                              *)
(*                                                                         *)
(* The producer and the consumer follow the protocol of convert.c,         *)
(* write_to_storage.c and compressor.c: push_start, fill the entry,        *)
(* push_end; read_start, leave if stop && count == 0, use the entry,       *)
(* read_stop_dump.  The main thread calls set_should_stop once it has      *)
(* joined the producer (main.c:215-256).  A service may also return        *)
(* RET_FAILURE in the middle of an entry; MayFail says which of them do.   *)
(***************************************************************************)
EXTENDS Integers, Sequences

CONSTANTS
  MaxCount,  \* max_count, the number of entries of the ring
  MaxPush,   \* bound: the producer pushes at most this many entries
  MayFail    \* the threads that may give up while they hold an entry

ASSUME MaxCountAssumption == MaxCount \in Nat \ {0}
ASSUME MaxPushAssumption == MaxPush \in Nat
ASSUME MayFailAssumption == MayFail \subseteq {"producer", "consumer"}

VARIABLES
  entries,    \* the ring: 0 is an incomplete entry, v the v-th one pushed
  read_pos,
  write_pos,
  count,
  read_sem,
  write_sem,
  stop,
  ppc,        \* what the producer does next
  cpc,        \* what the consumer does next
  mpc,        \* what the main thread does next
  held,       \* the entry the consumer works on
  pushed,     \* number of entries the producer has completed
  taken       \* history: the entries the consumer has processed, in order

queueVars == <<entries, read_pos, write_pos, count, read_sem, write_sem, stop>>
vars == <<queueVars, ppc, cpc, mpc, held, pushed, taken>>

Slot == 0 .. MaxCount - 1
Incomplete == 0
Entry == 0 .. MaxPush
TypeOK ==
  /\ entries \in [Slot -> Entry]
  /\ read_pos \in Slot
  /\ write_pos \in Slot
  /\ count \in Nat
  /\ read_sem \in Nat
  /\ write_sem \in Nat
  /\ stop \in BOOLEAN
  /\ ppc \in {"push_start", "counting", "filling", "push_end", "posting",
              "returned", "failed"}
  /\ cpc \in {"read_start", "get_should_stop", "get_count", "using",
              "read_stop_dump", "posting", "uncounting", "returned", "failed"}
  /\ mpc \in {"joining", "posting", "done"}
  /\ held \in Entry
  /\ pushed \in 0 .. MaxPush
  /\ taken \in Seq(Entry)

-------------------------------------------------------------------------------
(* Plausible bugs, each of which breaks one of the properties below.         *)

(* write_sem starts with one token too many.                                *)
init_extra_token ==
  /\ entries = [s \in Slot |-> Incomplete]
  /\ read_pos = 0
  /\ write_pos = 0
  /\ count = 0
  /\ read_sem = 0
  /\ write_sem = MaxCount + 1
  /\ stop = FALSE

(* sem_wait instead of sem_wait_nointr: a signal lets the reader through.   *)
read_start_interrupted ==
  /\ cpc = "read_start"
  /\ read_sem' = IF read_sem > 0 THEN read_sem - 1 ELSE 0
  /\ cpc' = "get_should_stop"
  /\ UNCHANGED <<entries, read_pos, write_pos, count, write_sem, stop,
                 ppc, mpc, held, pushed, taken>>

(* read_stop_dump forgets count.                                            *)
read_stop_dump_keeps_count ==
  /\ cpc = "uncounting"
  /\ cpc' = "read_start"
  /\ UNCHANGED <<queueVars, ppc, mpc, held, pushed, taken>>

(* The service leaves as soon as it sees stop, as select.c does.            *)
get_should_stop_leaves ==
  /\ cpc = "get_should_stop"
  /\ cpc' = IF stop THEN "returned" ELSE "using"
  /\ UNCHANGED <<queueVars, ppc, mpc, held, pushed, taken>>

(* The service leaves with the entry it was woken for still queued.         *)
get_count_off_by_one ==
  /\ cpc = "get_count"
  /\ cpc' = IF count <= 1 THEN "returned" ELSE "using"
  /\ UNCHANGED <<queueVars, ppc, mpc, held, pushed, taken>>

(* set_should_stop does not wake the reader.                                *)
set_should_stop_silent ==
  /\ mpc = "posting"
  /\ mpc' = "done"
  /\ UNCHANGED <<queueVars, ppc, cpc, held, pushed, taken>>

-------------------------------------------------------------------------------
(* The ring. *)

advance(pos) == (pos + 1) % MaxCount

init ==
  /\ entries = [s \in Slot |-> Incomplete]
  /\ read_pos = 0
  /\ write_pos = 0
  /\ count = 0
  /\ read_sem = 0
  /\ write_sem = MaxCount
  /\ stop = FALSE

Init ==
  /\ init
  /\ ppc = "push_start"
  /\ cpc = "read_start"
  /\ mpc = "joining"
  /\ held = Incomplete
  /\ pushed = 0
  /\ taken = <<>>

-------------------------------------------------------------------------------
(* The producer. *)

push_start_wait ==
  /\ ppc = "push_start"
  /\ pushed < MaxPush
  /\ write_sem > 0
  /\ write_sem' = write_sem - 1
  /\ ppc' = "counting"
  /\ UNCHANGED <<entries, read_pos, write_pos, count, read_sem, stop,
                 cpc, mpc, held, pushed, taken>>

push_start_count ==
  /\ ppc = "counting"
  /\ count' = count + 1
  /\ ppc' = "filling"
  /\ UNCHANGED <<entries, read_pos, write_pos, read_sem, write_sem, stop,
                 cpc, mpc, held, pushed, taken>>

fill_entry ==
  /\ ppc = "filling"
  /\ entries' = [entries EXCEPT ![write_pos] = pushed + 1]
  /\ ppc' = "push_end"
  /\ UNCHANGED <<read_pos, write_pos, count, read_sem, write_sem, stop,
                 cpc, mpc, held, pushed, taken>>

(* The service returns RET_FAILURE without push_end: the entry stays counted. *)
fill_entry_fails ==
  /\ ppc = "filling"
  /\ "producer" \in MayFail
  /\ entries' = [entries EXCEPT ![write_pos] = Incomplete]
  /\ ppc' = "failed"
  /\ UNCHANGED <<read_pos, write_pos, count, read_sem, write_sem, stop,
                 cpc, mpc, held, pushed, taken>>

push_end_advance ==
  /\ ppc = "push_end"
  /\ write_pos' = advance(write_pos)
  /\ ppc' = "posting"
  /\ UNCHANGED <<entries, read_pos, count, read_sem, write_sem, stop,
                 cpc, mpc, held, pushed, taken>>

push_end_post ==
  /\ ppc = "posting"
  /\ read_sem' = read_sem + 1
  /\ pushed' = pushed + 1
  /\ ppc' = "push_start"
  /\ UNCHANGED <<entries, read_pos, write_pos, count, write_sem, stop,
                 cpc, mpc, held, taken>>

producer_returns ==
  /\ ppc = "push_start"
  /\ ppc' = "returned"
  /\ UNCHANGED <<queueVars, cpc, mpc, held, pushed, taken>>

Producer ==
  \/ push_start_wait
  \/ push_start_count
  \/ fill_entry
  \/ fill_entry_fails
  \/ push_end_advance
  \/ push_end_post
  \/ producer_returns

-------------------------------------------------------------------------------
(* The consumer. *)

read_start ==
  /\ cpc = "read_start"
  /\ read_sem > 0
  /\ read_sem' = read_sem - 1
  /\ cpc' = "get_should_stop"
  /\ UNCHANGED <<entries, read_pos, write_pos, count, write_sem, stop,
                 ppc, mpc, held, pushed, taken>>

get_should_stop ==
  /\ cpc = "get_should_stop"
  /\ cpc' = IF stop THEN "get_count" ELSE "using"
  /\ UNCHANGED <<queueVars, ppc, mpc, held, pushed, taken>>

get_count ==
  /\ cpc = "get_count"
  /\ cpc' = IF count = 0 THEN "returned" ELSE "using"
  /\ UNCHANGED <<queueVars, ppc, mpc, held, pushed, taken>>

read_get ==
  /\ cpc = "using"
  /\ held' = entries[read_pos]
  /\ cpc' = "read_stop_dump"
  /\ UNCHANGED <<queueVars, ppc, mpc, pushed, taken>>

consumer_fails ==
  /\ cpc = "using"
  /\ "consumer" \in MayFail
  /\ cpc' = "failed"
  /\ UNCHANGED <<queueVars, ppc, mpc, held, pushed, taken>>

read_stop_dump_advance ==
  /\ cpc = "read_stop_dump"
  /\ read_pos' = advance(read_pos)
  /\ cpc' = "posting"
  /\ UNCHANGED <<entries, write_pos, count, read_sem, write_sem, stop,
                 ppc, mpc, held, pushed, taken>>

read_stop_dump_post ==
  /\ cpc = "posting"
  /\ write_sem' = write_sem + 1
  /\ taken' = Append(taken, held)
  /\ cpc' = "uncounting"
  /\ UNCHANGED <<entries, read_pos, write_pos, count, read_sem, stop,
                 ppc, mpc, held, pushed>>

read_stop_dump_count ==
  /\ cpc = "uncounting"
  /\ count' = count - 1
  /\ cpc' = "read_start"
  /\ UNCHANGED <<entries, read_pos, write_pos, read_sem, write_sem, stop,
                 ppc, mpc, held, pushed, taken>>

Consumer ==
  \/ read_start
  \/ get_should_stop
  \/ get_count
  \/ read_get
  \/ consumer_fails
  \/ read_stop_dump_advance
  \/ read_stop_dump_post
  \/ read_stop_dump_count

-------------------------------------------------------------------------------
(* The main thread: join the producer, then set_should_stop. *)

set_should_stop_flag ==
  /\ mpc = "joining"
  /\ ppc \in {"returned", "failed"}
  /\ stop' = TRUE
  /\ mpc' = "posting"
  /\ UNCHANGED <<entries, read_pos, write_pos, count, read_sem, write_sem,
                 ppc, cpc, held, pushed, taken>>

set_should_stop_post ==
  /\ mpc = "posting"
  /\ read_sem' = read_sem + 1
  /\ mpc' = "done"
  /\ UNCHANGED <<entries, read_pos, write_pos, count, write_sem, stop,
                 ppc, cpc, held, pushed, taken>>

Main == set_should_stop_flag \/ set_should_stop_post

(* All three threads are done: the program goes on elsewhere. *)
Terminated ==
  /\ mpc = "done"
  /\ cpc = "returned"
  /\ UNCHANGED vars

Next == Producer \/ Consumer \/ Main \/ Terminated

Fairness == WF_vars(Producer) /\ WF_vars(Consumer) /\ WF_vars(Main)

Spec == Init /\ [][Next]_vars
FairSpec == Spec /\ Fairness

-------------------------------------------------------------------------------
(* Properties. *)

(* What each thread is in the middle of, as numbers.  The producer holds a  *)
(* write token from sem_wait(write_sem) to the post of read_sem, and the    *)
(* consumer a read token until it posts write_sem; either side moves its    *)
(* position before it posts, and count is not changed together with them.   *)
bit(b) == IF b THEN 1 ELSE 0
producerHolds == bit(ppc \in {"counting", "filling", "push_end", "posting", "failed"})
producerCounted == bit(ppc \in {"filling", "push_end", "posting", "failed"})
producerAdvanced == bit(ppc = "posting")
consumerHolds == bit(cpc \notin {"read_start", "uncounting"})
consumerAdvanced == bit(cpc = "posting")
consumerUncounts == bit(cpc = "uncounting")
stopPosted == bit(mpc = "done")

(* Number of completed entries that the consumer has not given back.        *)
pending == read_sem + consumerHolds - stopPosted

(* The two sides never touch the same entry: while the producer fills       *)
(* entries[write_pos] the consumer is not between read_start and the post   *)
(* of write_sem on that same index.                                         *)
SlotExclusion ==
  ~ /\ ppc \in {"filling", "push_end"}
    /\ cpc \in {"using", "read_stop_dump"}
    /\ write_pos = read_pos

(* While the producer has not given up, entries come out complete, in the   *)
(* order they went in, none lost and none twice; what the consumer works on *)
(* is the next one.                                                         *)
InOrder ==
  ppc # "failed" =>
    /\ taken = [i \in 1 .. Len(taken) |-> i]
    /\ cpc \in {"read_stop_dump", "posting"} => held = Len(taken) + 1

(* The count that get_count returns is exact up to the step each side may   *)
(* be in the middle of: a stopping consumer can rely on count == 0.         *)
CountExact ==
  count = pushed - Len(taken) + producerCounted + consumerUncounts

(* A consumer that leaves has processed everything that was ever pushed.    *)
StopDrains == cpc = "returned" => Len(taken) = pushed

(* A service that gives up in the middle of an entry can make the other     *)
(* side see at most one entry that was never completed, and only after      *)
(* every completed one.                                                     *)
GarbageOnlyAtEnd ==
  /\ Len(taken) <= pushed + 1
  /\ \A i \in 1 .. Len(taken) : taken[i] # i => i = pushed + 1

(* Unless a service gives up, every run of fair threads ends with the        *)
(* consumer having left.                                                     *)
ConsumerLeaves == <>(cpc = "returned" \/ "failed" \in {ppc, cpc})

(* The queue is a first-in first-out channel of the completed entries, left  *)
(* only when it is empty; giving up in the middle of an entry is a stutter.  *)
received == SubSeq(taken, 1, IF Len(taken) > pushed THEN pushed ELSE Len(taken))

Fifo == INSTANCE BoundedFifo WITH
          Capacity <- MaxCount,
          Entry <- 1 .. MaxPush,
          items <- [i \in 1 .. pushed - Len(received) |->
                      entries[(read_pos + i - 1 - consumerAdvanced) % MaxCount]],
          taken <- received,
          closed <- stop,
          left <- cpc = "returned"

FifoSpec == Fifo!Spec
===============================================================================
