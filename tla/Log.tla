---------------------------------- MODULE Log ----------------------------------
(***************************************************************************)
(* lib/output.c: messages of all threads go to syslog, directly or, while    *)
(* threaded_log is set, through a queue that the log thread empties.         *)
(* queue_mutex makes the many writers one producer of the queue.             *)
(*                                                                         *)
(* The writers are the services and main, which joins the services, calls    *)
(* log_stop, joins the log thread and says "done" (main.c:215-272); what it  *)
(* says before log_stop is like what a service says, and left out.  So are   *)
(* messages that log_config disables.  SIGINT may interrupt any thread, and  *)
(* its handler (synchronome_stop) logs as well.                              *)
(*                                                                         *)
(* SpscQueue shows what the queue does step by step; here push_start, filling *)
(* the entry and push_end are steps, as are read_start and read_stop_dump.   *)
(***************************************************************************)
EXTENDS Integers, FiniteSets, SequencesExt

CONSTANTS
  Service,
  LOG_QUEUE_COUNT,
  MaxMessages   \* bound: what a service logs

ASSUME CountAssumption == LOG_QUEUE_COUNT \in Nat /\ LOG_QUEUE_COUNT >= 2
ASSUME MaxMessagesAssumption == MaxMessages \in Nat
ASSUME ServiceAssumption == "main" \notin Service /\ "nobody" \notin Service

Thread == Service \cup {"main"}
Level == {"info", "error"}   \* log_error differs from all the others
Nobody == "nobody"

(* The text of a message is the thread and the number of the message; that   *)
(* of an entry that was never filled is what calloc leaves.                  *)
NoText == <<Nobody, 0>>
Text == Thread \X Nat \cup {NoText}
Line == [level : Level, msg : Text]
Slot == 0 .. LOG_QUEUE_COUNT - 1

VARIABLES
  threaded_log,
  queue_mutex,                                  \* the thread that holds it
  entries, read_pos, write_pos, count,          \* of log_queue
  read_sem, write_sem, stop,
  pc,                                           \* of the writers
  log_thread,                                   \* what the log thread does next
  syslog,                                       \* the lines written so far
  sent                                          \* the levels of what each logged

queueVars == <<entries, read_pos, write_pos, count, read_sem, write_sem, stop>>
vars == <<threaded_log, queue_mutex, queueVars, pc, log_thread, syslog, sent>>

Init ==
  /\ threaded_log = FALSE
  /\ queue_mutex = Nobody
  /\ entries = [s \in Slot |-> [level |-> "info", msg |-> NoText]]
  /\ read_pos = 0 /\ write_pos = 0 /\ count = 0
  /\ read_sem = 0 /\ write_sem = LOG_QUEUE_COUNT
  /\ stop = FALSE
  /\ pc = [t \in Thread |-> "running"]
  /\ log_thread = "created"
  /\ syslog = <<>>
  /\ sent = [t \in Thread |-> <<>>]

goto(t, label) == pc' = [pc EXCEPT ![t] = label]
latest(t) == [level |-> Last(sent[t]), msg |-> <<t, Len(sent[t])>>]

(* Where a thread goes on after a call of log_*: main has two calls of its   *)
(* own after log_stop, "wait for log" and "done".                            *)
resume(t) ==
  IF t \in Service THEN "running" ELSE <<"join_log", "returned">>[Len(sent[t])]

-------------------------------------------------------------------------------
(* log_time, log_verbose, log_info, log_warning and log_error *)

may_log(t) ==
  \/ t \in Service /\ pc[t] = "running" /\ Len(sent[t]) < MaxMessages
  \/ pc[t] \in {"stopped", "joined"}

log(t) ==
  /\ may_log(t)
  /\ \E level \in IF pc[t] = "running" THEN Level ELSE {"info"} :
       sent' = [sent EXCEPT ![t] = Append(@, level)]
  /\ goto(t, IF threaded_log THEN "lock" ELSE "syslog")
  /\ UNCHANGED <<threaded_log, queue_mutex, queueVars, log_thread, syslog>>

log_syslog(t) ==
  /\ pc[t] = "syslog"
  /\ syslog' = Append(syslog, latest(t))
  /\ goto(t, resume(t))
  /\ UNCHANGED <<threaded_log, queue_mutex, queueVars, log_thread, sent>>

(* A plausible bug: the writers do not exclude each other.                   *)
log_lock_nothing(t) ==
  /\ pc[t] = "lock"
  /\ queue_mutex' = t
  /\ goto(t, "push_start")
  /\ UNCHANGED <<threaded_log, queueVars, log_thread, syslog, sent>>

log_lock(t) ==
  /\ pc[t] = "lock"
  /\ queue_mutex = Nobody
  /\ queue_mutex' = t
  /\ goto(t, "push_start")
  /\ UNCHANGED <<threaded_log, queueVars, log_thread, syslog, sent>>

(* A plausible bug: instead of waiting for room the message goes to syslog.  *)
log_push_start_direct(t) ==
  /\ pc[t] = "push_start"
  /\ IF write_sem > 0
     THEN /\ write_sem' = write_sem - 1 /\ count' = count + 1
          /\ goto(t, "fill") /\ UNCHANGED queue_mutex
     ELSE /\ goto(t, "syslog") /\ queue_mutex' = Nobody
          /\ UNCHANGED <<write_sem, count>>
  /\ UNCHANGED <<threaded_log, entries, read_pos, write_pos, read_sem, stop,
                 log_thread, syslog, sent>>

(* It waits for room with the mutex locked.                                  *)
log_push_start(t) ==
  /\ pc[t] = "push_start"
  /\ write_sem > 0
  /\ write_sem' = write_sem - 1
  /\ count' = count + 1
  /\ goto(t, "fill")
  /\ UNCHANGED <<threaded_log, queue_mutex, entries, read_pos, write_pos,
                 read_sem, stop, log_thread, syslog, sent>>

(* log_error formats into a local buffer and leaves entry->msg as it was     *)
(* (output.c:245-247).                                                       *)
log_fill(t) ==
  /\ pc[t] = "fill"
  /\ entries' = [entries EXCEPT ![write_pos] =
                   IF Last(sent[t]) = "error"
                   THEN [level |-> "error", msg |-> entries[write_pos].msg]
                   ELSE latest(t)]
  /\ goto(t, "push_end")
  /\ UNCHANGED <<threaded_log, queue_mutex, read_pos, write_pos, count, read_sem,
                 write_sem, stop, log_thread, syslog, sent>>

log_push_end(t) ==
  /\ pc[t] = "push_end"
  /\ write_pos' = (write_pos + 1) % LOG_QUEUE_COUNT
  /\ read_sem' = read_sem + 1
  /\ queue_mutex' = Nobody
  /\ goto(t, resume(t))
  /\ UNCHANGED <<threaded_log, entries, read_pos, count, write_sem, stop,
                 log_thread, syslog, sent>>

(* SIGINT interrupts a thread that holds queue_mutex, and the handler's      *)
(* log_verbose locks it again.  (A thread that does not hold it is only held *)
(* up: the handler's message is one more of that thread.)                    *)
signal_handler(t) ==
  /\ queue_mutex = t
  /\ threaded_log
  /\ pc[t] # "deadlocked"
  /\ goto(t, "deadlocked")
  /\ UNCHANGED <<threaded_log, queue_mutex, queueVars, log_thread, syslog, sent>>

service_returns(t) ==
  /\ t \in Service
  /\ pc[t] = "running"
  /\ goto(t, "returned")
  /\ UNCHANGED <<threaded_log, queue_mutex, queueVars, log_thread, syslog, sent>>

-------------------------------------------------------------------------------
(* synchronome_wait and log_stop *)

join_services ==
  /\ pc["main"] = "running"
  /\ \A t \in Service : pc[t] = "returned"
  /\ goto("main", "log_stop")
  /\ UNCHANGED <<threaded_log, queue_mutex, queueVars, log_thread, syslog, sent>>

(* A plausible bug: the log thread is not woken.                             *)
log_stop_set_silent ==
  /\ pc["main"] = "log_stop"
  /\ stop' = TRUE
  /\ goto("main", "unthread")
  /\ UNCHANGED <<threaded_log, queue_mutex, entries, read_pos, write_pos, count,
                 read_sem, write_sem, log_thread, syslog, sent>>

log_stop_set ==
  /\ pc["main"] = "log_stop"
  /\ stop' = TRUE
  /\ read_sem' = read_sem + 1
  /\ goto("main", "unthread")
  /\ UNCHANGED <<threaded_log, queue_mutex, entries, read_pos, write_pos, count,
                 write_sem, log_thread, syslog, sent>>

log_stop_unthread ==
  /\ pc["main"] = "unthread"
  /\ threaded_log' = FALSE
  /\ goto("main", "stopped")
  /\ UNCHANGED <<queue_mutex, queueVars, log_thread, syslog, sent>>

join_log ==
  /\ pc["main"] = "join_log"
  /\ log_thread = "returned"
  /\ goto("main", "joined")
  /\ UNCHANGED <<threaded_log, queue_mutex, queueVars, log_thread, syslog, sent>>

-------------------------------------------------------------------------------
(* log_run *)

log_run_start ==
  /\ log_thread = "created"
  /\ log_thread' = "read_start"
  /\ threaded_log' = TRUE
  /\ UNCHANGED <<queue_mutex, queueVars, pc, syslog, sent>>

log_run_read_start ==
  /\ log_thread = "read_start"
  /\ read_sem > 0
  /\ read_sem' = read_sem - 1
  /\ log_thread' = "get_should_stop"
  /\ UNCHANGED <<threaded_log, queue_mutex, entries, read_pos, write_pos, count,
                 write_sem, stop, pc, syslog, sent>>

log_run_go_on ==
  /\ log_thread = "get_should_stop"
  /\ ~stop
  /\ log_thread' = "read_get"
  /\ UNCHANGED <<threaded_log, queue_mutex, queueVars, pc, syslog, sent>>

(* All that is pending, the newest first.                                    *)
log_run_flush ==
  /\ log_thread = "get_should_stop"
  /\ stop
  /\ syslog' = syslog \o Reverse([i \in 1 .. count |->
                            entries[(read_pos + i - 1) % LOG_QUEUE_COUNT]])
  /\ log_thread' = "returned"
  /\ UNCHANGED <<threaded_log, queue_mutex, queueVars, pc, sent>>

log_run_syslog ==
  /\ log_thread = "read_get"
  /\ syslog' = Append(syslog, entries[read_pos])
  /\ log_thread' = "read_stop_dump"
  /\ UNCHANGED <<threaded_log, queue_mutex, queueVars, pc, sent>>

log_run_read_stop_dump ==
  /\ log_thread = "read_stop_dump"
  /\ read_pos' = (read_pos + 1) % LOG_QUEUE_COUNT
  /\ write_sem' = write_sem + 1
  /\ count' = count - 1
  /\ log_thread' = "read_start"
  /\ UNCHANGED <<threaded_log, queue_mutex, entries, write_pos, read_sem, stop,
                 pc, syslog, sent>>

-------------------------------------------------------------------------------
WriterNext(t) ==
  \/ log(t)
  \/ log_syslog(t)
  \/ log_lock(t)
  \/ log_push_start(t)
  \/ log_fill(t)
  \/ log_push_end(t)
  \/ service_returns(t)

MainNext == join_services \/ log_stop_set \/ log_stop_unthread \/ join_log

LogThreadNext ==
  \/ log_run_start
  \/ log_run_read_start
  \/ log_run_go_on
  \/ log_run_flush
  \/ log_run_syslog
  \/ log_run_read_stop_dump

Next ==
  \/ \E t \in Thread : WriterNext(t) \/ signal_handler(t)
  \/ MainNext
  \/ LogThreadNext

Spec == Init /\ [][Next]_vars

(* Every thread that can run is run some day (SCHED_OTHER shares the rest of *)
(* the cores); nobody is forced to press Ctrl-C.                             *)
FairSpec ==
  /\ Spec
  /\ \A t \in Thread : WF_vars(WriterNext(t))
  /\ WF_vars(MainNext)
  /\ WF_vars(LogThreadNext)

-------------------------------------------------------------------------------
(* Properties. *)

Lines(line) == {i \in DOMAIN syslog : syslog[i] = line}
Calls == UNION {{t} \X DOMAIN sent[t] : t \in Thread}

(* "before stopping the logging loop, log all pending messages"              *)
(* (output.c:261): when the program ends, every message of a service is in   *)
(* syslog, once.  So are those of main, and there is a line for every call   *)
(* of log_error as well, unless the log thread came so late that it set      *)
(* threaded_log after log_stop had reset it.                                 *)
AllLogged ==
  pc["main"] = "returned" =>
    /\ \A t \in Thread : t \in Service \/ ~threaded_log =>
         \A n \in DOMAIN sent[t] : sent[t][n] = "info" =>
           Cardinality(Lines([level |-> "info", msg |-> <<t, n>>])) = 1
    /\ ~threaded_log => Len(syslog) = Cardinality(Calls)

(* Until log_stop, what a thread says is logged in the order it says it.     *)
InOrder ==
  ~stop => \A i, j \in DOMAIN syslog :
    /\ i < j
    /\ syslog[i].level = "info" /\ syslog[j].level = "info"
    /\ syslog[i].msg[1] = syslog[j].msg[1]
    => syslog[i].msg[2] < syslog[j].msg[2]

(* The queue may be full, and a writer waits for room with the mutex locked; *)
(* still the program ends, unless a thread that holds the mutex is           *)
(* interrupted by SIGINT.                                                    *)
Terminates ==
  <>(pc["main"] = "returned" \/ \E t \in Thread : pc[t] = "deadlocked")
===============================================================================
