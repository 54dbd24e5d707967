------------------------------- MODULE Log_proofs -------------------------------
(***************************************************************************)
(* Proofs about the log queue, for any number of services, any size of the   *)
(* queue and any number of messages.                                         *)
(*                                                                         *)
(* That lines come out in the order they were logged is inductive only with  *)
(* what is still on its way: who may touch the queue (Threads), that the two *)
(* sides of the ring never meet (Ring), and how the lines in syslog, those   *)
(* that wait in the ring, and the one a thread works on follow each other    *)
(* (Sequence).  After log_stop nothing is promised of the order.             *)
(*                                                                         *)
(* That no line is lost and none written twice is a matter of the calls that *)
(* are through (Delivered).  Until log_stop each of them has its line in      *)
(* syslog or in the ring, and there are as many lines as such calls (Kept);   *)
(* the order above makes each line the only one.  After log_stop the log     *)
(* thread has some lines left (Rest), and each step conserves them           *)
(* (Finishing), unless it comes too late: then no service has used the queue. *)
(***************************************************************************)
EXTENDS Log, ModArith, FiniteSetTheorems

USE CountAssumption, ServiceAssumption DEF Nobody

-------------------------------------------------------------------------------
(* The order of lines. *)

info(line) == line.level = "info"

(* If l and e are of the same thread, e is the later one.                    *)
before(l, e) == info(l) /\ info(e) /\ l.msg[1] = e.msg[1] => l.msg[2] < e.msg[2]

(* If l is of thread t, it is one of those before the n-th.                  *)
below(l, t, n) == info(l) /\ l.msg[1] = t => l.msg[2] < n

(* A message of log_error has no text of its own.                            *)
stamped(e, t, n) == info(e) => e.msg = <<t, n>>

LEMMA LineNumber ==
  ASSUME NEW l \in Line
  PROVE  l.msg[2] \in Nat
<1>1. l.msg \in Thread \X Nat \cup {<<Nobody, 0>>}
  BY DEF Line, Text, NoText
<1> QED
  BY <1>1

LEMMA StampIsLater ==
  ASSUME NEW l, NEW e, NEW t, NEW n, below(l, t, n), stamped(e, t, n)
  PROVE  before(l, e)
  BY DEF before, below, stamped

LEMMA BelowMore ==
  ASSUME NEW l \in Line, NEW t, NEW n \in Nat, NEW m \in Nat, n <= m, below(l, t, n)
  PROVE  below(l, t, m)
  BY LineNumber DEF below

LEMMA StampIsBelow ==
  ASSUME NEW e, NEW t, NEW n \in Nat, stamped(e, t, n), NEW u, NEW m, u = t => m = n + 1
  PROVE  below(e, u, m)
  BY DEF below, stamped

-------------------------------------------------------------------------------
(* The writers, main and the log thread. *)

Label == {"running", "syslog", "lock", "push_start", "fill", "push_end", "deadlocked",
          "returned", "log_stop"}
Locked == {"push_start", "fill", "push_end", "deadlocked"}
Reading == {"get_should_stop", "read_get", "read_stop_dump"}

(* Whoever is between push_start and push_end has queue_mutex; before the    *)
(* log thread has started nobody uses the queue.                             *)
Threads ==
  /\ pc \in [Thread -> Label]
  /\ pc["main"] \in {"running", "log_stop"}
  /\ queue_mutex \in Service \cup {Nobody}
  /\ log_thread \in {"created", "read_start"} \cup Reading
  /\ \A t \in Service : pc[t] \in Locked => queue_mutex = t
  /\ threaded_log <=> log_thread # "created"
  /\ ~threaded_log => \A t \in Service : pc[t] \notin Locked \cup {"lock"}

LEMMA Resumes == \A t \in Service : resume(t) = "running"
  BY DEF resume

LEMMA MainWaits ==
  ASSUME Threads, NEW t \in Thread, WriterNext(t) \/ signal_handler(t)
  PROVE  t \in Service
<1>1. ASSUME t = "main" PROVE FALSE
  <2>1. pc[t] \in {"running", "log_stop"}
    BY <1>1 DEF Threads
  <2>2. queue_mutex # t /\ t \notin Service
    BY <1>1 DEF Threads
  <2> QED
    BY <2>1, <2>2
    DEF WriterNext, signal_handler, log, may_log, log_syslog, log_lock, log_push_start,
        log_fill, log_push_end, service_returns
<1> QED
  BY <1>1 DEF Thread

LEMMA ThreadsOfWriters ==
  ASSUME Threads, NEW t \in Service, WriterNext(t) \/ signal_handler(t)
  PROVE  Threads'
<1>1. UNCHANGED <<threaded_log, log_thread>> /\ t \in Thread /\ t # "main" /\ t # Nobody
  BY DEF WriterNext, signal_handler, log, log_syslog, log_lock, log_push_start, log_fill,
         log_push_end, service_returns, queueVars, Thread
<1>2. ASSUME NEW label \in Label, pc' = [pc EXCEPT ![t] = label],
             \/ UNCHANGED queue_mutex /\ (label \in Locked => queue_mutex = t)
             \/ queue_mutex = Nobody /\ queue_mutex' = t
             \/ queue_mutex = t /\ queue_mutex' = Nobody /\ label \notin Locked,
             ~threaded_log => label \notin Locked \cup {"lock"}
      PROVE  Threads'
  <2>1. pc' \in [Thread -> Label] /\ pc'["main"] = pc["main"]
    BY <1>1, <1>2 DEF Threads
  <2>2. queue_mutex' \in Service \cup {Nobody}
    BY <1>2 DEF Threads
  <2>3. \A u \in Service : u # t => pc'[u] = pc[u]
    BY <1>2 DEF Threads, Thread
  <2>4. pc'[t] = label
    BY <1>1, <1>2 DEF Threads
  <2>5. \A u \in Service : pc'[u] \in Locked => queue_mutex' = u
    BY <1>1, <1>2, <2>3, <2>4 DEF Threads
  <2>6. ~threaded_log' => \A u \in Service : pc'[u] \notin Locked \cup {"lock"}
    BY <1>1, <1>2, <2>3, <2>4 DEF Threads
  <2> QED
    BY <1>1, <2>1, <2>2, <2>5, <2>6 DEF Threads
<1>3. pc[t] \in Locked => queue_mutex = t /\ threaded_log
  BY DEF Threads
<1>4. "running" \in Label /\ "running" \notin Locked \cup {"lock"}
  BY DEF Label, Locked
<1>5. CASE log(t)
  <2>1. /\ pc' = [pc EXCEPT ![t] = IF threaded_log THEN "lock" ELSE "syslog"]
        /\ UNCHANGED queue_mutex
    BY <1>5 DEF log, goto
  <2> QED
    BY <1>2, <2>1 DEF Label, Locked
<1>6. CASE log_syslog(t)
  <2>1. pc' = [pc EXCEPT ![t] = "running"] /\ UNCHANGED queue_mutex
    BY <1>6, Resumes DEF log_syslog, goto
  <2> QED
    BY <1>2, <1>4, <2>1
<1>7. CASE log_lock(t)
  <2>1. /\ pc[t] = "lock" /\ queue_mutex = Nobody /\ queue_mutex' = t
        /\ pc' = [pc EXCEPT ![t] = "push_start"]
    BY <1>7 DEF log_lock, goto
  <2>2. threaded_log
    BY <2>1 DEF Threads
  <2> QED
    BY <1>2, <2>1, <2>2 DEF Label
<1>8. CASE log_push_start(t)
  <2>1. pc[t] = "push_start" /\ UNCHANGED queue_mutex /\ pc' = [pc EXCEPT ![t] = "fill"]
    BY <1>8 DEF log_push_start, goto
  <2> QED
    BY <1>2, <1>3, <2>1 DEF Label, Locked
<1>9. CASE log_fill(t)
  <2>1. pc[t] = "fill" /\ UNCHANGED queue_mutex /\ pc' = [pc EXCEPT ![t] = "push_end"]
    BY <1>9 DEF log_fill, goto
  <2> QED
    BY <1>2, <1>3, <2>1 DEF Label, Locked
<1>10. CASE log_push_end(t)
  <2>1. pc[t] = "push_end" /\ queue_mutex' = Nobody /\ pc' = [pc EXCEPT ![t] = "running"]
    BY <1>10, Resumes DEF log_push_end, goto
  <2> QED
    BY <1>2, <1>3, <1>4, <2>1 DEF Locked
<1>11. CASE signal_handler(t)
  <2>1. /\ queue_mutex = t /\ threaded_log /\ UNCHANGED queue_mutex
        /\ pc' = [pc EXCEPT ![t] = "deadlocked"]
    BY <1>11 DEF signal_handler, goto
  <2> QED
    BY <1>2, <2>1 DEF Label
<1>12. CASE service_returns(t)
  <2>1. UNCHANGED queue_mutex /\ pc' = [pc EXCEPT ![t] = "returned"]
    BY <1>12 DEF service_returns, goto
  <2> QED
    BY <1>2, <2>1 DEF Label, Locked
<1> QED
  BY <1>5, <1>6, <1>7, <1>8, <1>9, <1>10, <1>11, <1>12 DEF WriterNext

LEMMA ThreadsStep ==
  ASSUME Threads, [Next]_vars, ~stop, ~stop'
  PROVE  Threads'
<1>1. CASE \E t \in Thread : WriterNext(t) \/ signal_handler(t)
  BY <1>1, MainWaits, ThreadsOfWriters
<1>2. CASE MainNext
  <2>1. pc["main"] = "running" /\ UNCHANGED <<threaded_log, queue_mutex, log_thread>>
        /\ pc' = [pc EXCEPT !["main"] = "log_stop"]
    BY <1>2
    DEF Threads, MainNext, join_services, log_stop_set, log_stop_unthread, join_log, goto
  <2>2. pc' \in [Thread -> Label] /\ pc'["main"] = "log_stop"
        /\ \A t \in Service : pc'[t] = pc[t]
    BY <2>1 DEF Threads, Thread, Label
  <2> QED
    BY <2>1, <2>2 DEF Threads
<1>3. CASE LogThreadNext
  <2>1. /\ UNCHANGED <<queue_mutex, pc>>
        /\ log_thread' \in {"read_start"} \cup Reading
        /\ \/ UNCHANGED threaded_log /\ log_thread # "created"
           \/ threaded_log' = TRUE
    BY <1>3
    DEF LogThreadNext, log_run_start, log_run_read_start, log_run_go_on, log_run_flush,
        log_run_syslog, log_run_read_stop_dump, Reading
  <2> QED
    BY <2>1 DEF Threads, Reading
<1>4. CASE UNCHANGED vars
  BY <1>4 DEF vars, Threads
<1> QED
  BY <1>1, <1>2, <1>3, <1>4 DEF Next

-------------------------------------------------------------------------------
(* The ring of the queue. *)

holding == IF log_thread \in Reading THEN 1 ELSE 0

(* What is in the ring, the entry that the log thread holds included, and    *)
(* the first entry that is not in syslog yet.                                *)
pending == read_sem + holding
from == IF log_thread = "read_stop_dump" THEN 1 ELSE 0
at(i) == entries[(read_pos + i) % LOG_QUEUE_COUNT]

Ring ==
  /\ entries \in [Slot -> Line]
  /\ read_pos \in Slot /\ write_pos \in Slot
  /\ read_sem \in Nat /\ write_sem \in Nat
  /\ write_sem + pending <= LOG_QUEUE_COUNT
  /\ \A t \in Service : pc[t] \in {"fill", "push_end"} =>
        write_sem + pending < LOG_QUEUE_COUNT
  /\ write_pos = (read_pos + pending) % LOG_QUEUE_COUNT
  /\ log_thread = "created" => read_sem = 0

LEMMA Positions ==
  ASSUME NEW i \in Nat, NEW p \in Slot
  PROVE  (p + i) % LOG_QUEUE_COUNT \in Slot
<1>1. LOG_QUEUE_COUNT \in Nat \ {0} /\ p + i \in Nat
  BY DEF Slot
<1> QED
  BY <1>1, ModRange DEF Slot

LEMMA RingTypes ==
  ASSUME Ring
  PROVE  /\ holding \in 0 .. 1 /\ pending \in Nat
         /\ from \in 0 .. 1
         /\ \A i \in Nat : at(i) \in Line
<1>1. holding \in 0 .. 1 /\ pending \in Nat /\ from \in 0 .. 1
  BY DEF Ring, holding, pending, from
<1>2. ASSUME NEW i \in Nat PROVE at(i) \in Line
  BY Positions DEF Ring, at
<1> QED
  BY <1>1, <1>2

(* The ring where nothing moves.                                             *)
LEMMA RingKept ==
  ASSUME Ring, UNCHANGED <<read_pos, write_pos, write_sem, pending>>,
         entries' \in [Slot -> Line], read_sem' \in Nat,
         log_thread' = "created" => read_sem' = 0,
         \A t \in Service : pc'[t] \in {"fill", "push_end"} =>
           pc[t] \in {"fill", "push_end"}
  PROVE  Ring'
  BY DEF Ring

(* push_start: the writer keeps the place that it took from write_sem.       *)
LEMMA RingPushStart ==
  ASSUME Threads, Ring, NEW t \in Service, log_push_start(t)
  PROVE  Ring'
<1>1. /\ write_sem > 0 /\ write_sem' = write_sem - 1
      /\ UNCHANGED <<entries, read_pos, write_pos, read_sem, log_thread>>
  BY DEF log_push_start
<1>2. pending' = pending /\ pending \in Nat
  BY <1>1, RingTypes DEF pending, holding
<1>3. write_sem' \in Nat /\ write_sem' + pending' < LOG_QUEUE_COUNT
  BY <1>1, <1>2 DEF Ring
<1> QED
  BY <1>1, <1>2, <1>3 DEF Ring

(* push_end: the place becomes an entry, and nobody else had one.            *)
LEMMA RingPushEnd ==
  ASSUME Threads, Ring, NEW t \in Service, log_push_end(t)
  PROVE  Ring' /\ pending' = pending + 1
<1>1. /\ pc[t] = "push_end" /\ write_pos' = (write_pos + 1) % LOG_QUEUE_COUNT
      /\ read_sem' = read_sem + 1 /\ pc' = [pc EXCEPT ![t] = resume(t)]
      /\ UNCHANGED <<entries, read_pos, write_sem, log_thread>>
  BY DEF log_push_end, goto
<1>2. pending' = pending + 1 /\ pending \in Nat
  BY <1>1, RingTypes DEF pending, holding, Ring
<1>3. write_sem' + pending' <= LOG_QUEUE_COUNT
  BY <1>1, <1>2 DEF Ring
<1>4. ASSUME NEW u \in Service PROVE pc'[u] \notin {"fill", "push_end"}
  <2>1. queue_mutex = t
    BY <1>1 DEF Threads, Locked
  <2>2. CASE u = t
    BY <1>1, <2>2, Resumes DEF Threads, Thread
  <2>3. CASE u # t
    <3>1. pc[u] \notin Locked /\ pc'[u] = pc[u]
      BY <1>1, <2>1, <2>3 DEF Threads, Thread
    <3> QED
      BY <3>1 DEF Locked
  <2> QED
    BY <2>2, <2>3
<1>5. write_pos' = (read_pos' + pending') % LOG_QUEUE_COUNT /\ write_pos' \in Slot
  <2> DEFINE a == read_pos + pending
  <2>1. a \in Nat /\ LOG_QUEUE_COUNT \in Nat \ {0} /\ write_pos = a % LOG_QUEUE_COUNT
        /\ read_pos' + pending' = a + 1
    BY <1>1, <1>2 DEF Ring, Slot
  <2> HIDE DEF a
  <2>2. write_pos' = (a + 1) % LOG_QUEUE_COUNT
    BY <1>1, <2>1, ModSucc
  <2> QED
    BY <2>1, <2>2, ModRange DEF Slot
<1>6. log_thread' # "created"
  <2>1. threaded_log
    BY <1>1 DEF Threads, Locked
  <2> QED
    BY <1>1, <2>1 DEF Threads
<1> QED
  BY <1>1, <1>2, <1>3, <1>4, <1>5, <1>6 DEF Ring

(* read_stop_dump: the entry that was held becomes a place.                  *)
LEMMA RingReadStop ==
  ASSUME Threads, Ring, log_run_read_stop_dump
  PROVE  /\ Ring' /\ pending' = pending - 1
         /\ \A i \in Nat : at(i)' = at(i + 1)
<1>1. /\ log_thread = "read_stop_dump" /\ log_thread' = "read_start"
      /\ read_pos' = (read_pos + 1) % LOG_QUEUE_COUNT /\ write_sem' = write_sem + 1
      /\ UNCHANGED <<entries, write_pos, read_sem, pc>>
  BY DEF log_run_read_stop_dump
<1>2. pending' = pending - 1 /\ pending \in Nat /\ pending' \in Nat
  BY <1>1 DEF pending, holding, Ring, Reading
<1>3. write_sem' + pending' = write_sem + pending /\ write_sem' \in Nat
  BY <1>1, <1>2 DEF Ring
<1>4. LOG_QUEUE_COUNT \in Nat \ {0} /\ read_pos \in Nat
  BY DEF Ring, Slot
<1>5. ASSUME NEW i \in Nat
      PROVE  (read_pos' + i) % LOG_QUEUE_COUNT = (read_pos + (i + 1)) % LOG_QUEUE_COUNT
  <2>1. (((read_pos + 1) % LOG_QUEUE_COUNT) + i) % LOG_QUEUE_COUNT
          = ((read_pos + 1) + i) % LOG_QUEUE_COUNT
    <3> DEFINE a == read_pos + 1
    <3>1. a \in Nat /\ i \in Int
      BY <1>4
    <3> HIDE DEF a
    <3>2. ((a % LOG_QUEUE_COUNT) + i) % LOG_QUEUE_COUNT = (a + i) % LOG_QUEUE_COUNT
      BY <1>4, <3>1, ModPlus
    <3> QED
      BY <3>2 DEF a
  <2>2. (read_pos + 1) + i = read_pos + (i + 1)
    BY <1>4
  <2> QED
    BY <1>1, <2>1, <2>2
<1>6. read_pos' \in Slot
  BY <1>1, Positions DEF Ring
<1>7. write_pos' = (read_pos' + pending') % LOG_QUEUE_COUNT
  <2>1. pending' + 1 = pending
    BY <1>2
  <2> QED
    BY <1>1, <1>2, <1>5, <2>1 DEF Ring
<1>8. \A i \in Nat : at(i)' = at(i + 1)
  BY <1>1, <1>5 DEF at
<1>9. Ring'
  BY <1>1, <1>3, <1>6, <1>7 DEF Ring
<1> QED
  BY <1>2, <1>8, <1>9

-------------------------------------------------------------------------------
(* What was said. *)

(* While a thread is at one of these, its last message is on its way.        *)
Busy == {"syslog", "lock", "push_start", "fill", "push_end"}
num(t) == Len(sent[t])

Said ==
  /\ syslog \in Seq(Line)
  /\ sent \in [Thread -> Seq(Level)]
  /\ \A t \in Service : pc[t] \in Busy => num(t) > 0

LEMMA NumberTypes ==
  ASSUME Said, NEW t \in Service
  PROVE  num(t) \in Nat
BY DEF Said, num, Thread

LEMMA LatestLine ==
  ASSUME Said, NEW t \in Service, pc[t] \in Busy
  PROVE  latest(t) \in Line /\ stamped(latest(t), t, num(t))
<1>1. sent[t] \in Seq(Level) /\ Len(sent[t]) \in Nat /\ Len(sent[t]) > 0
  BY DEF Said, num, Thread
<1>2. Last(sent[t]) \in Level
  BY <1>1 DEF Last
<1>3. <<t, Len(sent[t])>> \in Text
  BY <1>1 DEF Text, Thread
<1> QED
  BY <1>2, <1>3 DEF latest, Line, stamped, num

(* One more line in syslog.                                                  *)
Logged == {syslog[k] : k \in DOMAIN syslog}
Written == \A i, j \in DOMAIN syslog : i < j => before(syslog[i], syslog[j])

LEMMA LoggedLines ==
  ASSUME Said, NEW l \in Logged
  PROVE  l \in Line
BY DEF Said, Logged

LEMMA LineAppended ==
  ASSUME Said, Written, NEW e \in Line, syslog' = Append(syslog, e),
         \A l \in Logged : before(l, e)
  PROVE  Logged' = Logged \cup {e} /\ Written' /\ syslog' \in Seq(Line)
<1>1. syslog \in Seq(Line) /\ Len(syslog) \in Nat
  BY DEF Said
<1>2. /\ DOMAIN syslog = 1 .. Len(syslog)
      /\ DOMAIN syslog' = 1 .. Len(syslog) + 1
      /\ \A k \in 1 .. Len(syslog) : syslog'[k] = syslog[k]
      /\ syslog'[Len(syslog) + 1] = e
      /\ syslog' \in Seq(Line)
  BY <1>1
<1>3. Logged' = Logged \cup {e}
  <2>1. ASSUME NEW l \in Logged PROVE l \in Logged'
    <3>1. PICK k \in 1 .. Len(syslog) : l = syslog[k]
      BY <1>2 DEF Logged
    <3>2. k \in 1 .. Len(syslog) + 1 /\ l = syslog'[k]
      BY <1>1, <1>2, <3>1
    <3> QED
      BY <1>2, <3>2 DEF Logged
  <2>2. e \in Logged'
    BY <1>1, <1>2 DEF Logged
  <2>3. ASSUME NEW l \in Logged' PROVE l \in Logged \cup {e}
    <3>1. PICK k \in 1 .. Len(syslog) + 1 : l = syslog'[k]
      BY <1>2, <2>3 DEF Logged
    <3> QED
      BY <1>1, <1>2, <3>1 DEF Logged
  <2> QED
    BY <2>1, <2>2, <2>3
<1>4. ASSUME NEW i \in DOMAIN syslog', NEW j \in DOMAIN syslog', i < j
      PROVE  before(syslog'[i], syslog'[j])
  <2>1. i \in 1 .. Len(syslog) /\ syslog'[i] = syslog[i] /\ syslog[i] \in Logged
    BY <1>1, <1>2, <1>4 DEF Logged
  <2>2. CASE j = Len(syslog) + 1
    BY <1>2, <2>1, <2>2
  <2>3. CASE j # Len(syslog) + 1
    <3>1. j \in 1 .. Len(syslog) /\ syslog'[j] = syslog[j]
      BY <1>1, <1>2, <2>3
    <3> QED
      BY <1>2, <1>4, <2>1, <3>1 DEF Written
  <2> QED
    BY <2>2, <2>3
<1>5. Written'
  BY <1>4 DEF Written
<1> QED
  BY <1>2, <1>3, <1>5

LEMMA SaidStep ==
  ASSUME Threads, Ring, Said, Written, [Next]_vars, ~stop, ~stop'
  PROVE  Said'
<1>1. ASSUME syslog' \in Seq(Line), UNCHANGED sent,
             \A t \in Service : pc'[t] \in Busy => pc[t] \in Busy
      PROVE  Said'
  BY <1>1 DEF Said, num
<1>2. CASE \E t \in Thread : WriterNext(t) \/ signal_handler(t)
  <2>1. PICK t \in Service : WriterNext(t) \/ signal_handler(t)
    BY <1>2, MainWaits
  <2>2. \A u \in Service : u # t => pc'[u] = pc[u]
    BY <2>1
    DEF WriterNext, signal_handler, log, log_syslog, log_lock, log_push_start, log_fill,
        log_push_end, service_returns, goto, Threads, Thread
  <2>3. CASE log(t)
    <3>1. PICK level \in Level : sent' = [sent EXCEPT ![t] = Append(@, level)]
      BY <2>3 DEF log, Level
    <3>2. UNCHANGED syslog /\ t \in Thread
      BY <2>3 DEF log, Thread
    <3>3. sent' \in [Thread -> Seq(Level)] /\ sent'[t] = Append(sent[t], level)
      BY <3>1, <3>2 DEF Said
    <3>4. Len(sent'[t]) > 0
      <4>1. sent[t] \in Seq(Level)
        BY <3>2 DEF Said
      <4> QED
        BY <3>3, <4>1
    <3>5. \A u \in Service : u # t => sent'[u] = sent[u]
      BY <3>1 DEF Said, Thread
    <3> QED
      BY <2>2, <3>2, <3>3, <3>4, <3>5 DEF Said, num
  <2>4. CASE ~log(t)
    <3>1. UNCHANGED sent
      BY <2>1, <2>4
      DEF WriterNext, signal_handler, log_syslog, log_lock, log_push_start, log_fill,
          log_push_end, service_returns
    <3>2. pc'[t] \in Busy => pc[t] \in Busy
      BY <2>1, <2>4, Resumes
      DEF WriterNext, signal_handler, log_syslog, log_lock, log_push_start, log_fill,
          log_push_end, service_returns, goto, Busy, Threads, Thread
    <3>3. UNCHANGED syslog \/ (pc[t] = "syslog" /\ syslog' = Append(syslog, latest(t)))
      BY <2>1, <2>4
      DEF WriterNext, signal_handler, log_syslog, log_lock, log_push_start, log_fill,
          log_push_end, service_returns
    <3>4. syslog' \in Seq(Line)
      <4>1. CASE UNCHANGED syslog
        BY <4>1 DEF Said
      <4>2. CASE pc[t] = "syslog" /\ syslog' = Append(syslog, latest(t))
        <5>1. latest(t) \in Line
          BY <4>2, LatestLine DEF Busy
        <5> QED
          BY <4>2, <5>1 DEF Said
      <4> QED
        BY <3>3, <4>1, <4>2
    <3> QED
      BY <1>1, <2>2, <3>1, <3>2, <3>4
  <2> QED
    BY <2>3, <2>4
<1>3. CASE MainNext
  <2>1. UNCHANGED <<syslog, sent>> /\ pc' = [pc EXCEPT !["main"] = pc'["main"]]
    BY <1>3
    DEF Threads, MainNext, join_services, log_stop_set, log_stop_unthread, join_log, goto,
        Thread
  <2>2. \A t \in Service : pc'[t] = pc[t]
    BY <2>1 DEF Threads, Thread
  <2> QED
    BY <1>1, <2>1, <2>2 DEF Said
<1>4. CASE LogThreadNext
  <2>1. UNCHANGED <<pc, sent>>
    BY <1>4
    DEF LogThreadNext, log_run_start, log_run_read_start, log_run_go_on, log_run_flush,
        log_run_syslog, log_run_read_stop_dump
  <2>2. UNCHANGED syslog \/ syslog' = Append(syslog, entries[read_pos])
    BY <1>4
    DEF LogThreadNext, log_run_start, log_run_read_start, log_run_go_on, log_run_flush,
        log_run_syslog, log_run_read_stop_dump
  <2>3. entries[read_pos] \in Line
    BY DEF Ring
  <2>4. syslog' \in Seq(Line)
    BY <2>2, <2>3 DEF Said
  <2> QED
    BY <1>1, <2>1, <2>4
<1>5. CASE UNCHANGED vars
  BY <1>1, <1>5 DEF vars, Said
<1> QED
  BY <1>2, <1>3, <1>4, <1>5 DEF Next

-------------------------------------------------------------------------------
(* The lines of a thread: those in syslog, those in the ring, and the one    *)
(* the thread is about to write.                                             *)

Waiting == {at(i) : i \in from .. pending - 1}
next(t) == IF pc[t] \in Busy THEN num(t) ELSE num(t) + 1

Following == \A i, j \in from .. pending - 1 : i < j => before(at(i), at(j))
LoggedFirst == \A l \in Logged, w \in Waiting : before(l, w)
Numbered == \A l \in Logged \cup Waiting, t \in Service : below(l, t, next(t))
Stamped == \A t \in Service :
  pc[t] = "push_end" => stamped(entries[write_pos], t, num(t))
Alone == \A t \in Service :
  pc[t] = "syslog" => \A w \in Waiting : info(w) => w.msg[1] # t

Sequence == Written /\ Following /\ LoggedFirst /\ Numbered /\ Stamped /\ Alone

LEMMA WaitingLines ==
  ASSUME Ring, NEW w \in Waiting
  PROVE  w \in Line
<1>1. PICK i \in from .. pending - 1 : w = at(i)
  BY DEF Waiting
<1>2. i \in Nat
  BY <1>1, RingTypes
<1> QED
  BY <1>1, <1>2, RingTypes

LEMMA NextType ==
  ASSUME Said, NEW t \in Service
  PROVE  next(t) \in Nat
BY NumberTypes DEF next

(* No line is added and no message withdrawn.                                *)
LEMMA SequenceKept ==
  ASSUME Ring, Said, Said', Sequence, UNCHANGED <<syslog, from, pending>>,
         \A i \in from .. pending - 1 : at(i)' = at(i),
         \A t \in Service : next(t) <= next(t)',
         Stamped',
         \A t \in Service : pc'[t] = "syslog" => pc[t] = "syslog" \/ Waiting = {}
  PROVE  Sequence'
<1>1. Logged' = Logged /\ Waiting' = Waiting
  BY DEF Logged, Waiting
<1>2. Written'
  BY DEF Sequence, Written
<1>3. Following'
  BY DEF Sequence, Following
<1>4. LoggedFirst'
  BY <1>1 DEF Sequence, LoggedFirst
<1>5. ASSUME NEW l \in Logged \cup Waiting, NEW t \in Service
      PROVE  below(l, t, next(t)')
  <2>1. l \in Line
    BY LoggedLines, WaitingLines
  <2>2. next(t) \in Nat /\ next(t)' \in Nat
    BY NextType, NumberTypes DEF next, Said, num, Thread
  <2>3. below(l, t, next(t))
    BY DEF Sequence, Numbered
  <2> QED
    BY <2>1, <2>2, <2>3, BelowMore
<1>6. Numbered'
  BY <1>1, <1>5 DEF Numbered
<1>7. Alone'
  BY <1>1 DEF Sequence, Alone
<1> QED
  BY <1>2, <1>3, <1>4, <1>6, <1>7 DEF Sequence

(* A message on its way, but the ring and syslog as they were.               *)
LEMMA OnTheWay ==
  ASSUME Threads, Ring, Said, Said', Sequence, NEW t \in Service,
         UNCHANGED <<entries, read_pos, write_pos, syslog, from, pending>>,
         \A u \in Service : u # t => pc'[u] = pc[u] /\ num(u)' = num(u),
         next(t) <= next(t)', pc'[t] # "push_end",
         pc'[t] = "syslog" => Waiting = {}
  PROVE  Sequence'
<1>1. \A i \in from .. pending - 1 : at(i)' = at(i)
  BY DEF at
<1>2. ASSUME NEW u \in Service PROVE next(u) <= next(u)'
  <2>1. CASE u = t
    BY <2>1
  <2>2. CASE u # t
    <3>1. next(u)' = next(u)
      BY <2>2 DEF next
    <3>2. next(u) \in Nat
      BY NextType
    <3> QED
      BY <3>1, <3>2
  <2> QED
    BY <2>1, <2>2
<1>3. ASSUME NEW u \in Service, pc'[u] = "push_end"
      PROVE  stamped(entries[write_pos], u, num(u)')
  <2>1. u # t /\ pc[u] = "push_end" /\ num(u)' = num(u)
    BY <1>3
  <2> QED
    BY <2>1 DEF Sequence, Stamped
<1>4. Stamped'
  BY <1>3 DEF Stamped
<1>5. \A u \in Service : pc'[u] = "syslog" => pc[u] = "syslog" \/ Waiting = {}
  OBVIOUS
<1> QED
  BY <1>1, <1>2, <1>4, <1>5, SequenceKept

LEMMA OthersStay ==
  ASSUME Threads, Said, NEW t \in Service, WriterNext(t) \/ signal_handler(t)
  PROVE  \A u \in Service : u # t => pc'[u] = pc[u] /\ num(u)' = num(u)
<1>1. t \in Thread /\ pc \in [Thread -> Label] /\ Service \subseteq Thread
  BY DEF Threads, Thread
<1>2. \A u \in Service : u # t => pc'[u] = pc[u]
  BY <1>1 DEF WriterNext, signal_handler, log, log_syslog, log_lock, log_push_start,
              log_fill, log_push_end, service_returns, goto
<1>3. \A u \in Service : u # t => sent'[u] = sent[u]
  BY <1>1 DEF Said, WriterNext, signal_handler, log, log_syslog, log_lock, log_push_start,
              log_fill, log_push_end, service_returns
<1> QED
  BY <1>2, <1>3 DEF num

LEMMA LogStep ==
  ASSUME Threads, Ring, Said, Said', Sequence, NEW t \in Service, log(t)
  PROVE  Ring' /\ Sequence'
<1>1. /\ pc[t] = "running" /\ pc'[t] = IF threaded_log THEN "lock" ELSE "syslog"
      /\ pc' = [pc EXCEPT ![t] = IF threaded_log THEN "lock" ELSE "syslog"]
      /\ UNCHANGED <<entries, read_pos, write_pos, read_sem, write_sem, log_thread, syslog>>
  <2>1. t # "main" /\ t \in Thread /\ pc \in [Thread -> Label]
    BY DEF Threads, Thread
  <2>2. pc[t] = "running"
    <3>1. pc[t] \in Label /\ may_log(t)
      BY <2>1 DEF log
    <3> QED
      BY <3>1 DEF may_log, Label
  <2> QED
    BY <2>1, <2>2 DEF log, goto, queueVars
<1>2. pending' = pending /\ from' = from
  BY <1>1 DEF pending, holding, from
<1>3. num(t)' = num(t) + 1
  <2>1. PICK level \in Level : sent' = [sent EXCEPT ![t] = Append(@, level)]
    BY DEF log, Level
  <2>2. sent[t] \in Seq(Level) /\ sent'[t] = Append(sent[t], level)
    BY <2>1 DEF Said, Thread
  <2> QED
    BY <2>2 DEF num
<1>4. next(t)' = next(t) /\ next(t) \in Nat
  BY <1>1, <1>3, NextType DEF next, Busy
<1>5. pc'[t] = "syslog" => Waiting = {}
  <2>1. SUFFICES ASSUME ~threaded_log PROVE Waiting = {}
    BY <1>1
  <2>2. read_sem = 0 /\ holding = 0 /\ from = 0
    BY <2>1 DEF Threads, Ring, holding, from, Reading
  <2>3. from .. pending - 1 = {}
    BY <2>2 DEF pending
  <2> QED
    BY <2>3 DEF Waiting
<1>6. \A u \in Service : u # t => pc'[u] = pc[u] /\ num(u)' = num(u)
  BY OthersStay DEF WriterNext
<1>7. next(t) <= next(t)'
  BY <1>4
<1>8. Sequence'
  BY <1>1, <1>2, <1>5, <1>6, <1>7, OnTheWay
<1>9. \A u \in Service : pc'[u] \in {"fill", "push_end"} => pc[u] \in {"fill", "push_end"}
  BY <1>1, <1>6
<1>10. Ring'
  BY <1>1, <1>2, <1>9, RingKept DEF Ring
<1> QED
  BY <1>8, <1>10

(* log_lock, push_start, the handler of SIGINT and the end of a service.     *)
LEMMA MoveOnStep ==
  ASSUME Threads, Ring, Said, Said', Sequence, NEW t \in Service,
         log_lock(t) \/ log_push_start(t) \/ signal_handler(t) \/ service_returns(t)
  PROVE  Ring' /\ Sequence'
<1>1. /\ UNCHANGED <<entries, read_pos, write_pos, read_sem, log_thread, syslog, sent>>
      /\ \/ pc[t] = "lock" /\ pc' = [pc EXCEPT ![t] = "push_start"]
         \/ pc[t] = "push_start" /\ pc' = [pc EXCEPT ![t] = "fill"]
         \/ pc' = [pc EXCEPT ![t] = "deadlocked"]
         \/ pc[t] = "running" /\ pc' = [pc EXCEPT ![t] = "returned"]
  BY DEF log_lock, log_push_start, signal_handler, service_returns, goto, queueVars
<1>2. t \in Thread /\ pc \in [Thread -> Label]
  BY DEF Threads, Thread
<1>3. \A u \in Service : u # t => pc'[u] = pc[u] /\ num(u)' = num(u)
  BY OthersStay DEF WriterNext
<1>4. pending' = pending /\ from' = from /\ num(t)' = num(t) /\ num(t) \in Nat
  BY <1>1, NumberTypes DEF pending, holding, from, num
<1>5. pc'[t] \in Busy => pc[t] \in Busy
  BY <1>1, <1>2 DEF Busy
<1>6. next(t) <= next(t)'
  BY <1>4, <1>5 DEF next
<1>7. pc'[t] \notin {"push_end", "syslog"}
  BY <1>1, <1>2
<1>8. Sequence'
  BY <1>1, <1>3, <1>4, <1>6, <1>7, OnTheWay
<1>9. CASE log_push_start(t)
  BY <1>8, <1>9, RingPushStart
<1>10. CASE ~log_push_start(t)
  <2>1. UNCHANGED write_sem /\ pc'[t] # "fill"
    BY <1>2, <1>10 DEF log_lock, signal_handler, service_returns, goto, queueVars
  <2>2. \A u \in Service :
          pc'[u] \in {"fill", "push_end"} => pc[u] \in {"fill", "push_end"}
    BY <1>3, <1>7, <2>1
  <2>3. Ring'
    BY <1>1, <1>4, <2>1, <2>2, RingKept DEF Ring
  <2> QED
    BY <1>8, <2>3
<1> QED
  BY <1>9, <1>10

(* log_fill writes none of the entries that wait: the writer's place is at   *)
(* write_pos, less than a round after the first of them.                     *)
LEMMA FillStep ==
  ASSUME Threads, Ring, Said, Said', Sequence, NEW t \in Service, log_fill(t)
  PROVE  Ring' /\ Sequence'
<1> DEFINE e == IF Last(sent[t]) = "error"
                THEN [level |-> "error", msg |-> entries[write_pos].msg]
                ELSE latest(t)
<1>1. /\ pc[t] = "fill" /\ entries' = [entries EXCEPT ![write_pos] = e]
      /\ pc' = [pc EXCEPT ![t] = "push_end"]
      /\ UNCHANGED <<read_pos, write_pos, read_sem, write_sem, log_thread, syslog, sent>>
  BY DEF log_fill, goto
<1>2. t \in Thread /\ pc \in [Thread -> Label]
  BY DEF Threads, Thread
<1>3. latest(t) \in Line /\ stamped(latest(t), t, num(t))
  BY <1>1, LatestLine DEF Busy
<1>4. e \in Line /\ stamped(e, t, num(t))
  <2>1. CASE Last(sent[t]) = "error"
    <3>1. entries[write_pos].msg \in Text
      BY DEF Ring, Line
    <3>2. e = [level |-> "error", msg |-> entries[write_pos].msg]
      BY <2>1
    <3> HIDE DEF e
    <3> QED
      BY <3>1, <3>2 DEF Line, Level, stamped, info
  <2>2. CASE Last(sent[t]) # "error"
    BY <1>3, <2>2
  <2> QED
    BY <2>1, <2>2
<1> HIDE DEF e
<1>5. entries' \in [Slot -> Line] /\ entries'[write_pos] = e
      /\ \A s \in Slot : s # write_pos => entries'[s] = entries[s]
  BY <1>1, <1>4 DEF Ring
<1>6. pending' = pending /\ from' = from /\ num(t)' = num(t) /\ num(t) \in Nat
  BY <1>1, NumberTypes DEF pending, holding, from, num
<1>7. ASSUME NEW i \in from .. pending - 1 PROVE at(i)' = at(i)
  <2>1. i \in Nat /\ pending \in Nat /\ i < pending /\ pending < LOG_QUEUE_COUNT
    BY <1>1, RingTypes DEF Ring
  <2>2. (read_pos + i) % LOG_QUEUE_COUNT # (read_pos + pending) % LOG_QUEUE_COUNT
    <3>1. LOG_QUEUE_COUNT \in Nat \ {0} /\ read_pos + i \in Nat /\ read_pos + pending \in Nat
          /\ read_pos + i < read_pos + pending
          /\ (read_pos + pending) - (read_pos + i) < LOG_QUEUE_COUNT
      BY <2>1 DEF Ring, Slot
    <3> QED
      BY <3>1, ModDistinct
  <2>3. (read_pos + i) % LOG_QUEUE_COUNT \in Slot
    BY <2>1, Positions DEF Ring
  <2> QED
    BY <1>1, <1>5, <2>2, <2>3 DEF at, Ring
<1>8. \A u \in Service : u # t => pc'[u] = pc[u] /\ num(u)' = num(u)
  BY OthersStay DEF WriterNext
<1>9. \A u \in Service : next(u) <= next(u)'
  <2>1. ASSUME NEW u \in Service PROVE next(u)' = next(u) /\ next(u) \in Nat
    <3>1. CASE u = t
      BY <1>1, <1>2, <1>6, <3>1, NextType DEF next, Busy
    <3>2. CASE u # t
      BY <1>8, <3>2, NextType DEF next
    <3> QED
      BY <3>1, <3>2
  <2> QED
    BY <2>1
<1>10. ASSUME NEW u \in Service, pc'[u] = "push_end"
       PROVE  u = t
  <2>1. queue_mutex = t
    BY <1>1 DEF Threads, Locked
  <2>2. SUFFICES ASSUME u # t PROVE FALSE
    OBVIOUS
  <2>3. pc[u] = "push_end"
    BY <1>8, <1>10, <2>2
  <2> QED
    BY <2>1, <2>2, <2>3 DEF Threads, Locked
<1>11. Stamped'
  <2>1. stamped(entries'[write_pos'], t, num(t)')
    BY <1>1, <1>4, <1>5, <1>6
  <2> QED
    BY <1>10, <2>1 DEF Stamped
<1>12. \A u \in Service : pc'[u] = "syslog" => pc[u] = "syslog" \/ Waiting = {}
  <2>1. pc'[t] = "push_end"
    BY <1>1, <1>2
  <2> QED
    BY <1>8, <2>1
<1>13. Sequence'
  BY <1>1, <1>6, <1>7, <1>9, <1>11, <1>12, SequenceKept
<1>14. \A u \in Service : pc'[u] \in {"fill", "push_end"} => pc[u] \in {"fill", "push_end"}
  BY <1>1, <1>8
<1>15. Ring'
  BY <1>1, <1>5, <1>6, <1>14, RingKept DEF Ring
<1> QED
  BY <1>13, <1>15

(* push_end: what the writer filled is the last of the lines that wait.      *)
LEMMA PushEndStep ==
  ASSUME Threads, Ring, Said, Said', Sequence, NEW t \in Service, log_push_end(t)
  PROVE  Ring' /\ Sequence'
<1> DEFINE e == entries[write_pos]
<1>1. /\ pc[t] = "push_end" /\ pc' = [pc EXCEPT ![t] = "running"]
      /\ UNCHANGED <<entries, read_pos, write_sem, log_thread, syslog, sent>>
  BY Resumes DEF log_push_end, goto
<1>2. t \in Thread /\ pc \in [Thread -> Label]
  BY DEF Threads, Thread
<1>3. Ring' /\ pending' = pending + 1
  BY RingPushEnd
<1>4. pending \in Nat /\ from \in 0 .. 1 /\ from' = from /\ num(t)' = num(t)
      /\ num(t) \in Nat
  BY <1>1, RingTypes, NumberTypes DEF from, num
<1>5. from <= pending
  BY <1>4, RingTypes DEF from, pending, holding, Ring, Reading
<1>6. e \in Line /\ stamped(e, t, num(t)) /\ e = at(pending)
  BY <1>1 DEF Ring, Sequence, Stamped, at
<1> HIDE DEF e
<1>7. \A i \in Nat : at(i)' = at(i)
  BY <1>1 DEF at
<1>8. from' .. pending' - 1 = (from .. pending - 1) \cup {pending}
  BY <1>3, <1>4, <1>5
<1>9. Logged' = Logged /\ Waiting' = Waiting \cup {e}
  <2>1. Logged' = Logged
    BY <1>1 DEF Logged
  <2>2. Waiting' = {at(i) : i \in (from .. pending - 1) \cup {pending}}
    <3>1. \A i \in from' .. pending' - 1 : at(i)' = at(i)
      BY <1>4, <1>7, <1>8
    <3> QED
      BY <1>8, <3>1 DEF Waiting
  <2> QED
    BY <1>6, <2>1, <2>2 DEF Waiting
<1>10. next(t) = num(t) /\ next(t)' = num(t) + 1
  BY <1>1, <1>2, <1>4 DEF next, Busy
<1>11. \A u \in Service : u # t => pc'[u] = pc[u] /\ num(u)' = num(u) /\ next(u)' = next(u)
  BY OthersStay DEF WriterNext, next
<1>12. \A l \in Logged \cup Waiting : before(l, e)
  <2>1. \A l \in Logged \cup Waiting : below(l, t, num(t))
    BY <1>10 DEF Sequence, Numbered
  <2> QED
    BY <1>6, <2>1, StampIsLater
<1>13. Written'
  BY <1>1 DEF Sequence, Written
<1>14. Following'
  <2>1. ASSUME NEW i \in from' .. pending' - 1, NEW j \in from' .. pending' - 1, i < j
        PROVE  before(at(i)', at(j)')
    <3>1. i \in from .. pending - 1 /\ at(i) \in Waiting /\ at(i)' = at(i) /\ at(j)' = at(j)
      BY <1>4, <1>3, <1>7, <2>1 DEF Waiting
    <3>2. CASE j = pending
      BY <1>6, <1>12, <3>1, <3>2
    <3>3. CASE j # pending
      BY <1>8, <2>1, <3>1, <3>3 DEF Sequence, Following
    <3> QED
      BY <3>2, <3>3
  <2> QED
    BY <2>1 DEF Following
<1>15. LoggedFirst'
  BY <1>9, <1>12 DEF Sequence, LoggedFirst
<1>16. Numbered'
  <2>1. ASSUME NEW l \in Logged \cup Waiting, NEW u \in Service PROVE below(l, u, next(u)')
    <3>1. l \in Line /\ below(l, u, next(u))
      BY LoggedLines, WaitingLines DEF Sequence, Numbered
    <3>2. CASE u = t
      <4>1. num(t) + 1 \in Nat /\ num(t) <= num(t) + 1
        BY <1>4
      <4> QED
        BY <1>4, <1>10, <3>1, <3>2, <4>1, BelowMore
    <3>3. CASE u # t
      BY <1>11, <3>1, <3>3
    <3> QED
      BY <3>2, <3>3
  <2>2. ASSUME NEW u \in Service PROVE below(e, u, next(u)')
    <3>1. u = t => next(u)' = num(t) + 1
      BY <1>10
    <3> QED
      BY <1>4, <1>6, <3>1, StampIsBelow
  <2> QED
    BY <1>9, <2>1, <2>2 DEF Numbered
<1>17. Stamped'
  <2>1. ASSUME NEW u \in Service PROVE pc'[u] # "push_end"
    <3>1. CASE u = t
      BY <1>1, <1>2, <3>1
    <3>2. CASE u # t
      BY <1>1, <1>11, <3>2 DEF Threads, Locked
    <3> QED
      BY <3>1, <3>2
  <2> QED
    BY <2>1 DEF Stamped
<1>18. Alone'
  <2>1. ASSUME NEW u \in Service, pc'[u] = "syslog", NEW w \in Waiting \cup {e}, info(w)
        PROVE  w.msg[1] # u
    <3>1. u # t
      BY <1>1, <1>2, <2>1
    <3>2. CASE w \in Waiting
      BY <1>11, <2>1, <3>1, <3>2 DEF Sequence, Alone
    <3>3. CASE w = e
      BY <1>6, <2>1, <3>1, <3>3 DEF stamped
    <3> QED
      BY <2>1, <3>2, <3>3
  <2> QED
    BY <1>9, <2>1 DEF Alone
<1> QED
  BY <1>3, <1>13, <1>14, <1>15, <1>16, <1>17, <1>18 DEF Sequence

(* A thread that writes to syslog itself has no line that waits.             *)
LEMMA SyslogStep ==
  ASSUME Threads, Ring, Said, Said', Sequence, NEW t \in Service, log_syslog(t)
  PROVE  Ring' /\ Sequence'
<1> DEFINE e == latest(t)
<1>1. /\ pc[t] = "syslog" /\ syslog' = Append(syslog, e)
      /\ pc' = [pc EXCEPT ![t] = "running"]
      /\ UNCHANGED <<entries, read_pos, write_pos, read_sem, write_sem, log_thread, sent>>
  BY Resumes DEF log_syslog, goto, queueVars
<1>2. t \in Thread /\ pc \in [Thread -> Label]
  BY DEF Threads, Thread
<1>3. e \in Line /\ stamped(e, t, num(t))
  BY <1>1, LatestLine DEF Busy
<1> HIDE DEF e
<1>4. pending' = pending /\ from' = from /\ num(t)' = num(t) /\ num(t) \in Nat
  BY <1>1, NumberTypes DEF pending, holding, from, num
<1>5. next(t) = num(t) /\ next(t)' = num(t) + 1
  BY <1>1, <1>2, <1>4 DEF next, Busy
<1>6. \A u \in Service : u # t => pc'[u] = pc[u] /\ num(u)' = num(u) /\ next(u)' = next(u)
  BY OthersStay DEF WriterNext, next
<1>7. \A l \in Logged : before(l, e)
  <2>1. \A l \in Logged : below(l, t, num(t))
    BY <1>5 DEF Sequence, Numbered
  <2> QED
    BY <1>3, <2>1, StampIsLater
<1>8. Logged' = Logged \cup {e} /\ Written'
  BY <1>1, <1>3, <1>7, LineAppended DEF Sequence
<1>9. (\A i \in Nat : at(i)' = at(i)) /\ Waiting' = Waiting
  BY <1>1, <1>4 DEF at, Waiting
<1>10. Following'
  <2>1. \A i \in from .. pending - 1 : i \in Nat
    BY RingTypes
  <2> QED
    BY <1>4, <1>9, <2>1 DEF Sequence, Following
<1>11. LoggedFirst'
  <2>1. ASSUME NEW w \in Waiting PROVE before(e, w)
    <3>1. info(w) => w.msg[1] # t
      BY <1>1 DEF Sequence, Alone
    <3> QED
      BY <1>3, <3>1 DEF before, stamped
  <2> QED
    BY <1>8, <1>9, <2>1 DEF Sequence, LoggedFirst
<1>12. Numbered'
  <2>1. ASSUME NEW l \in Logged \cup Waiting, NEW u \in Service PROVE below(l, u, next(u)')
    <3>1. l \in Line /\ below(l, u, next(u))
      BY LoggedLines, WaitingLines DEF Sequence, Numbered
    <3>2. CASE u = t
      <4>1. num(t) + 1 \in Nat /\ num(t) <= num(t) + 1
        BY <1>4
      <4> QED
        BY <1>4, <1>5, <3>1, <3>2, <4>1, BelowMore
    <3>3. CASE u # t
      BY <1>6, <3>1, <3>3
    <3> QED
      BY <3>2, <3>3
  <2>2. ASSUME NEW u \in Service PROVE below(e, u, next(u)')
    <3>1. u = t => next(u)' = num(t) + 1
      BY <1>5
    <3> QED
      BY <1>3, <1>4, <3>1, StampIsBelow
  <2> QED
    BY <1>8, <1>9, <2>1, <2>2 DEF Numbered
<1>13. Stamped' /\ Alone'
  <2>1. pc'[t] = "running"
    BY <1>1, <1>2
  <2>2. Stamped'
    <3>1. ASSUME NEW u \in Service, pc'[u] = "push_end"
          PROVE  stamped(entries[write_pos], u, num(u)')
      BY <1>6, <2>1, <3>1 DEF Sequence, Stamped
    <3> QED
      BY <1>1, <3>1 DEF Stamped
  <2>3. Alone'
    BY <1>6, <1>9, <2>1 DEF Sequence, Alone
  <2> QED
    BY <2>2, <2>3
<1>14. \A u \in Service : pc'[u] \in {"fill", "push_end"} => pc[u] \in {"fill", "push_end"}
  BY <1>1, <1>2, <1>6
<1>15. Ring'
  BY <1>1, <1>4, <1>14, RingKept DEF Ring
<1> QED
  BY <1>8, <1>10, <1>11, <1>12, <1>13, <1>15 DEF Sequence

(* What the log thread does to the lines when no writer moves.               *)
LEMMA ReadersStep ==
  ASSUME Threads, Ring, Said, Said', Sequence, UNCHANGED <<entries, write_pos, pc, sent>>,
         Written', Following', LoggedFirst',
         Logged' \cup Waiting' \subseteq Logged \cup Waiting, Waiting' \subseteq Waiting
  PROVE  Sequence'
<1>1. \A u : num(u)' = num(u) /\ next(u)' = next(u)
  BY DEF num, next
<1>2. Numbered'
  BY <1>1 DEF Sequence, Numbered
<1>3. Stamped'
  BY <1>1 DEF Sequence, Stamped
<1>4. Alone'
  BY DEF Sequence, Alone
<1> QED
  BY <1>2, <1>3, <1>4 DEF Sequence

(* The log thread writes the first of the lines that wait.                   *)
LEMMA RunSyslogStep ==
  ASSUME Threads, Ring, Said, Said', Sequence, log_run_syslog
  PROVE  Ring' /\ Sequence'
<1>1. /\ log_thread = "read_get" /\ log_thread' = "read_stop_dump"
      /\ syslog' = Append(syslog, entries[read_pos])
      /\ UNCHANGED <<entries, read_pos, write_pos, read_sem, write_sem, pc, sent>>
  BY DEF log_run_syslog, queueVars
<1>2. pending' = pending /\ pending \in Nat /\ pending > 0 /\ from = 0 /\ from' = 1
  BY <1>1 DEF pending, holding, from, Reading, Ring
<1>3. at(0) = entries[read_pos]
  <2>1. LOG_QUEUE_COUNT \in Nat \ {0} /\ read_pos \in 0 .. LOG_QUEUE_COUNT - 1
        /\ read_pos + 0 = 0 * LOG_QUEUE_COUNT + read_pos /\ 0 \in Nat
    BY DEF Ring, Slot
  <2>2. (0 * LOG_QUEUE_COUNT + read_pos) % LOG_QUEUE_COUNT = read_pos
    BY <2>1, DivModUnique
  <2> QED
    BY <2>1, <2>2 DEF at
<1>4. 0 \in from .. pending - 1 /\ at(0) \in Waiting /\ at(0) \in Line
  <2>1. 0 \in from .. pending - 1
    BY <1>2
  <2>2. at(0) \in Waiting
    BY <2>1 DEF Waiting
  <2> QED
    BY <2>1, <2>2, WaitingLines
<1>5. \A l \in Logged : before(l, at(0))
  BY <1>4 DEF Sequence, LoggedFirst
<1>6. Logged' = Logged \cup {at(0)} /\ Written'
  <2> DEFINE e == at(0)
  <2>1. syslog' = Append(syslog, e) /\ e \in Line /\ \A l \in Logged : before(l, e)
    BY <1>1, <1>3, <1>4, <1>5
  <2> HIDE DEF e
  <2>2. Logged' = Logged \cup {e} /\ Written'
    BY <2>1, LineAppended DEF Sequence
  <2> QED
    BY <2>2 DEF e
<1>7. \A i \in from' .. pending' - 1 : at(i)' = at(i) /\ i \in from .. pending - 1 /\ 0 < i
  <2>1. \A i : at(i)' = at(i)
    BY <1>1 DEF at
  <2> QED
    BY <1>2, <2>1
<1>8. ASSUME NEW w \in Waiting'
      PROVE  \E i \in from .. pending - 1 : 0 < i /\ w = at(i)
  <2>1. PICK i \in from' .. pending' - 1 : w = at(i)'
    BY DEF Waiting
  <2> QED
    BY <1>7, <2>1
<1>9. Waiting' \subseteq Waiting
  BY <1>8 DEF Waiting
<1>10. Following'
  BY <1>7 DEF Sequence, Following
<1>11. LoggedFirst'
  <2>1. ASSUME NEW w \in Waiting' PROVE before(at(0), w)
    BY <1>4, <1>8 DEF Sequence, Following
  <2> QED
    BY <1>6, <1>9, <2>1 DEF Sequence, LoggedFirst
<1>12. Sequence'
  BY <1>1, <1>4, <1>6, <1>9, <1>10, <1>11, ReadersStep
<1>13. Ring'
  BY <1>1, <1>2 DEF Ring
<1> QED
  BY <1>12, <1>13

LEMMA ReadStopStep ==
  ASSUME Threads, Ring, Said, Said', Sequence, log_run_read_stop_dump
  PROVE  Ring' /\ Sequence'
<1>1. /\ log_thread = "read_stop_dump" /\ log_thread' = "read_start"
      /\ UNCHANGED <<entries, write_pos, pc, syslog, sent>>
  BY DEF log_run_read_stop_dump
<1>2. Ring' /\ pending' = pending - 1 /\ \A i \in Nat : at(i)' = at(i + 1)
  BY RingReadStop
<1>3. pending \in Nat /\ from = 1 /\ from' = 0
  BY <1>1, RingTypes DEF from
<1>4. \A i \in from' .. pending' - 1 : i + 1 \in from .. pending - 1 /\ at(i)' = at(i + 1)
  BY <1>2, <1>3
<1>5. Waiting' \subseteq Waiting
  <2>1. ASSUME NEW w \in Waiting' PROVE w \in Waiting
    <3>1. PICK i \in from' .. pending' - 1 : w = at(i)'
      BY DEF Waiting
    <3> QED
      BY <1>4, <3>1 DEF Waiting
  <2> QED
    BY <2>1
<1>6. Logged' = Logged /\ Written'
  BY <1>1 DEF Logged, Sequence, Written
<1>7. Following'
  <2>1. ASSUME NEW i \in from' .. pending' - 1, NEW j \in from' .. pending' - 1, i < j
        PROVE  before(at(i)', at(j)')
    <3>1. i + 1 < j + 1
      BY <1>2, <1>3, <2>1
    <3> QED
      BY <1>4, <3>1 DEF Sequence, Following
  <2> QED
    BY <2>1 DEF Following
<1>8. LoggedFirst'
  BY <1>5, <1>6 DEF Sequence, LoggedFirst
<1>9. Sequence'
  BY <1>1, <1>5, <1>6, <1>7, <1>8, ReadersStep
<1> QED
  BY <1>2, <1>9

(* The steps that touch neither the lines nor who waits for what.            *)
LEMMA IdleStep ==
  ASSUME Threads, Ring, Said, Said', Sequence, ~stop, ~stop',
         MainNext \/ log_run_start \/ log_run_read_start \/ log_run_go_on
           \/ log_run_flush \/ UNCHANGED vars
  PROVE  Ring' /\ Sequence'
<1>1. /\ UNCHANGED <<entries, read_pos, write_pos, write_sem, sent, syslog>>
      /\ \A t \in Service : pc'[t] = pc[t]
  BY DEF MainNext, join_services, log_stop_set, log_stop_unthread, join_log, goto,
         log_run_start, log_run_read_start, log_run_go_on, log_run_flush, queueVars, vars,
         Threads, Thread
<1>2. /\ pending' = pending /\ from' = from /\ read_sem' \in Nat
      /\ log_thread' = "created" => read_sem' = 0
  <2>1. CASE log_run_read_start
    BY <2>1 DEF log_run_read_start, pending, holding, from, Reading, Ring
  <2>2. CASE ~log_run_read_start
    <3>1. UNCHANGED read_sem
      BY <2>2 DEF MainNext, join_services, log_stop_set, log_stop_unthread, join_log,
                  log_run_start, log_run_go_on, log_run_flush, queueVars, vars
    <3>2. \/ UNCHANGED log_thread
          \/ log_thread = "created" /\ log_thread' = "read_start"
          \/ log_thread = "get_should_stop" /\ log_thread' = "read_get"
      BY <2>2 DEF MainNext, join_services, log_stop_set, log_stop_unthread, join_log,
                  log_run_start, log_run_go_on, log_run_flush, queueVars, vars
    <3>3. holding' = holding /\ from' = from
      BY <3>2 DEF holding, from, Reading
    <3> QED
      BY <3>1, <3>2, <3>3 DEF pending, Ring
  <2> QED
    BY <2>1, <2>2
<1>3. Ring'
  BY <1>1, <1>2, RingKept DEF Ring
<1>4. \A u \in Service : num(u)' = num(u) /\ next(u)' = next(u) /\ next(u) \in Nat
  BY <1>1, NextType DEF num, next
<1>5. Stamped'
  BY <1>1, <1>4 DEF Sequence, Stamped
<1>6. \A i \in from .. pending - 1 : at(i)' = at(i)
  BY <1>1 DEF at
<1>7. \A u \in Service : next(u) <= next(u)'
  BY <1>4
<1>8. Sequence'
  BY <1>1, <1>2, <1>5, <1>6, <1>7, SequenceKept
<1> QED
  BY <1>3, <1>8

-------------------------------------------------------------------------------
LogInv == ~stop => Threads /\ Ring /\ Said /\ Sequence

LEMMA LogInit == Init => LogInv
<1> SUFFICES ASSUME Init PROVE Threads /\ Ring /\ Said /\ Sequence
  BY DEF LogInv
<1>1. Threads
  BY DEF Init, Threads, Label, Locked, Thread, Reading
<1>2. pending = 0 /\ from = 0
  BY DEF Init, pending, holding, from, Reading
<1>3. Ring
  <2>1. entries \in [Slot -> Line]
    BY DEF Init, Line, Level, Text
  <2>2. 0 \in Slot /\ (0 + 0) % LOG_QUEUE_COUNT = 0
    <3>1. LOG_QUEUE_COUNT \in Nat \ {0}
      OBVIOUS
    <3> QED
      BY <3>1, ModZero DEF Slot
  <2>3. \A t \in Service : pc[t] = "running"
    BY DEF Init, Thread
  <2>4. write_sem + pending <= LOG_QUEUE_COUNT /\ read_sem \in Nat /\ write_sem \in Nat
    BY <1>2 DEF Init
  <2>5. read_pos = 0 /\ write_pos = 0 /\ read_sem = 0
    BY DEF Init
  <2> QED
    BY <1>2, <2>1, <2>2, <2>3, <2>4, <2>5 DEF Ring
<1>4. Said
  <2>1. \A t \in Service : pc[t] = "running"
    BY DEF Init, Thread
  <2>2. syslog \in Seq(Line) /\ sent \in [Thread -> Seq(Level)]
    BY DEF Init
  <2> QED
    BY <2>1, <2>2 DEF Said, Busy
<1>5. Sequence
  <2>1. Waiting = {} /\ from .. pending - 1 = {}
    BY <1>2 DEF Waiting
  <2>2. DOMAIN syslog = {}
    BY DEF Init
  <2>3. Logged = {} /\ Written
    BY <2>2 DEF Logged, Written
  <2>4. Stamped /\ Alone
    BY DEF Init, Stamped, Alone, Thread
  <2> QED
    BY <2>1, <2>3, <2>4 DEF Sequence, Following, LoggedFirst, Numbered
<1> QED
  BY <1>1, <1>3, <1>4, <1>5

LEMMA LogNext == LogInv /\ [Next]_vars => LogInv'
<1> SUFFICES ASSUME LogInv, [Next]_vars, ~stop'
             PROVE  Threads' /\ Ring' /\ Said' /\ Sequence'
  BY DEF LogInv
<1>1. ~stop
  BY DEF Next, WriterNext, signal_handler, log, log_syslog, log_lock, log_push_start,
         log_fill, log_push_end, service_returns, MainNext, join_services, log_stop_set,
         log_stop_unthread, join_log, LogThreadNext, log_run_start, log_run_read_start,
         log_run_go_on, log_run_flush, log_run_syslog, log_run_read_stop_dump, queueVars,
         vars
<1>2. Threads /\ Ring /\ Said /\ Sequence
  BY <1>1 DEF LogInv
<1>3. Threads'
  BY <1>1, <1>2, ThreadsStep
<1>4. Said'
  BY <1>1, <1>2, SaidStep DEF Sequence
<1>5. CASE \E t \in Thread : WriterNext(t) \/ signal_handler(t)
  <2>1. PICK t \in Service : WriterNext(t) \/ signal_handler(t)
    BY <1>2, <1>5, MainWaits
  <2>2. CASE log(t)
    BY <1>2, <1>3, <1>4, <2>2, LogStep
  <2>3. CASE log_syslog(t)
    BY <1>2, <1>3, <1>4, <2>3, SyslogStep
  <2>4. CASE log_fill(t)
    BY <1>2, <1>3, <1>4, <2>4, FillStep
  <2>5. CASE log_push_end(t)
    BY <1>2, <1>3, <1>4, <2>5, PushEndStep
  <2>6. CASE log_lock(t) \/ log_push_start(t) \/ signal_handler(t) \/ service_returns(t)
    BY <1>2, <1>3, <1>4, <2>6, MoveOnStep
  <2> QED
    BY <1>3, <1>4, <2>1, <2>2, <2>3, <2>4, <2>5, <2>6 DEF WriterNext
<1>6. CASE log_run_syslog
  BY <1>2, <1>3, <1>4, <1>6, RunSyslogStep
<1>7. CASE log_run_read_stop_dump
  BY <1>2, <1>3, <1>4, <1>7, ReadStopStep
<1>8. CASE MainNext \/ log_run_start \/ log_run_read_start \/ log_run_go_on
             \/ log_run_flush \/ UNCHANGED vars
  BY <1>1, <1>2, <1>3, <1>4, <1>8, IdleStep
<1> QED
  BY <1>5, <1>6, <1>7, <1>8 DEF Next, LogThreadNext

LEMMA LogInvHolds == Spec => []LogInv
BY LogInit, LogNext, PTL DEF Spec

(* Until log_stop, a thread's messages come out in syslog in the order in    *)
(* which it logged them, though some take the way through the queue and      *)
(* others do not: the switch of threaded_log by the log thread lets no later *)
(* message overtake an earlier one (output.c:88-115, 265-311).               *)
THEOREM LoggedInOrder == Spec => []InOrder
<1>1. LogInv => InOrder
  BY DEF LogInv, Sequence, Written, before, info, InOrder
<1> QED
  BY <1>1, LogInvHolds, PTL

-------------------------------------------------------------------------------
(* The calls that are through: their line is in syslog or waits in the ring.  *)

Undone == Busy \cup {"deadlocked"}
done(t) == IF pc[t] \in Undone THEN num(t) - 1 ELSE num(t)
Delivered == UNION {{t} \X (1 .. done(t)) : t \in Thread}
text(t, n) == [level |-> "info", msg |-> <<t, n>>]

LEMMA DeliveredSame ==
  ASSUME \A u \in Thread : done(u)' = done(u)
  PROVE  Delivered' = Delivered
BY DEF Delivered

LEMMA DeliveredMore ==
  ASSUME NEW t \in Thread, done(t) \in Nat, done(t)' = done(t) + 1,
         \A u \in Thread : u # t => done(u)' = done(u), IsFiniteSet(Delivered)
  PROVE  /\ IsFiniteSet(Delivered')
         /\ Cardinality(Delivered') = Cardinality(Delivered) + 1
         /\ Cardinality(Delivered) \in Nat
<1> DEFINE c == <<t, done(t) + 1>>
<1>1. c \notin Delivered
  <2>1. ASSUME NEW u \in Thread, c \in {u} \X (1 .. done(u)) PROVE FALSE
    <3>1. u = t /\ done(t) + 1 \in 1 .. done(t)
      BY <2>1
    <3> QED
      BY <3>1
  <2> QED
    BY <2>1 DEF Delivered
<1>2. Delivered' = Delivered \cup {c}
  <2>1. ASSUME NEW x \in Delivered' PROVE x \in Delivered \cup {c}
    <3>1. PICK u \in Thread : x \in {u} \X (1 .. done(u)')
      BY DEF Delivered
    <3>2. CASE u = t
      <4>1. x[2] \in 1 .. done(t) + 1 /\ x = <<t, x[2]>>
        BY <3>1, <3>2
      <4>2. CASE x[2] = done(t) + 1
        BY <4>1, <4>2
      <4>3. CASE x[2] # done(t) + 1
        <5>1. x[2] \in 1 .. done(t)
          BY <4>1, <4>3
        <5>2. x \in {t} \X (1 .. done(t))
          BY <4>1, <5>1
        <5> QED
          BY <5>2 DEF Delivered
      <4> QED
        BY <4>2, <4>3
    <3>3. CASE u # t
      BY <3>1, <3>3 DEF Delivered
    <3> QED
      BY <3>2, <3>3
  <2>2. ASSUME NEW u \in Thread, NEW x \in {u} \X (1 .. done(u)) PROVE x \in Delivered'
    <3>1. x \in {u} \X (1 .. done(u)')
      BY <2>2
    <3> QED
      BY <3>1 DEF Delivered
  <2>3. c \in Delivered'
    <3>1. c \in {t} \X (1 .. done(t)')
      OBVIOUS
    <3> QED
      BY <3>1 DEF Delivered
  <2> QED
    BY <2>1, <2>2, <2>3 DEF Delivered
<1> HIDE DEF c
<1> QED
  BY <1>1, <1>2, FS_AddElement, FS_CardinalityType

(* Nobody but t moves.                                                       *)
LEMMA OthersSame ==
  ASSUME NEW S, pc \in [Thread -> S], sent \in [Thread -> Seq(Level)],
         NEW t \in Thread, WriterNext(t) \/ signal_handler(t)
  PROVE  \A u \in Thread : u # t => /\ pc'[u] = pc[u] /\ sent'[u] = sent[u]
                                    /\ done(u)' = done(u)
<1>1. \A u \in Thread : u # t => pc'[u] = pc[u]
  BY DEF WriterNext, signal_handler, log, log_syslog, log_lock, log_push_start,
         log_fill, log_push_end, service_returns, goto
<1>2. \A u \in Thread : u # t => sent'[u] = sent[u]
  BY DEF WriterNext, signal_handler, log, log_syslog, log_lock, log_push_start,
         log_fill, log_push_end, service_returns
<1> QED
  BY <1>1, <1>2 DEF done, num

-------------------------------------------------------------------------------
(* Until log_stop. *)

(* Main calls log_stop after the services, and logs nothing before.          *)
Handed ==
  /\ pc["main"] = "log_stop" => \A t \in Service : pc[t] = "returned"
  /\ \A t \in Service : queue_mutex = t => pc[t] \in Locked
  /\ sent["main"] = <<>>

(* count is what log_run will find pending if main calls log_stop now.       *)
Counted ==
  /\ queue_mutex = Nobody => count = pending
  /\ \A t \in Service : queue_mutex = t =>
       /\ pc[t] = "push_start" => count = pending
       /\ pc[t] \in {"fill", "push_end"} => count = pending + 1

Unmarked ==
  /\ log_thread = "created" => \A s \in Slot : entries[s].msg[1] = Nobody
  /\ \A s \in Slot : entries[s].msg[1] # "main"
  /\ \A l \in Logged : l.msg[1] # "main"

Found ==
  \A t \in Service : \A n \in 1 .. done(t) :
    sent[t][n] = "info" => text(t, n) \in Logged \cup Waiting

Filled ==
  \A t \in Service : pc[t] = "push_end" /\ Last(sent[t]) = "info" =>
    entries[write_pos] = text(t, num(t))

(* As many lines as calls.                                                   *)
Tally ==
  /\ IsFiniteSet(Delivered)
  /\ Cardinality(Delivered) = Len(syslog) + pending - from

Kept == Handed /\ Counted /\ Unmarked /\ Found /\ Filled /\ Tally

LEMMA HandedStep ==
  ASSUME Threads, Said, Handed, [Next]_vars, ~stop, ~stop'
  PROVE  Handed'
<1> USE DEF Handed
<1>1. CASE \E t \in Thread : WriterNext(t) \/ signal_handler(t)
  <2>1. PICK t \in Service : WriterNext(t) \/ signal_handler(t)
    BY <1>1, MainWaits
  <2>2. t \in Thread /\ t # "main" /\ "main" \in Thread /\ pc \in [Thread -> Label] /\ t # Nobody
    BY DEF Thread, Threads
  <2>3. \A u \in Thread : u # t => pc'[u] = pc[u] /\ sent'[u] = sent[u]
    BY <2>1, <2>2, OthersSame DEF Said
  <2>4. sent'["main"] = <<>> /\ pc'["main"] = pc["main"]
    BY <2>2, <2>3
  <2>5. pc'["main"] # "log_stop"
    <3>1. pc[t] # "returned"
      BY <2>1 DEF WriterNext, signal_handler, log, may_log, log_syslog, log_lock,
           log_push_start, log_fill, log_push_end, service_returns, Locked
    <3> QED
      BY <2>4, <3>1
  <2>6. \/ UNCHANGED queue_mutex /\ (pc[t] \in Locked => pc'[t] \in Locked)
        \/ queue_mutex = Nobody /\ queue_mutex' = t /\ pc'[t] \in Locked
        \/ queue_mutex' = Nobody
    BY <2>1, <2>2 DEF WriterNext, signal_handler, log, may_log, log_syslog, log_lock,
           log_push_start, log_fill, log_push_end, service_returns, goto, Locked
  <2>7. ASSUME NEW u \in Service, queue_mutex' = u PROVE pc'[u] \in Locked
    <3>1. u # Nobody /\ u \in Thread
      BY DEF Thread
    <3> QED
      BY <2>2, <2>3, <2>6, <2>7, <3>1
  <2> QED
    BY <2>4, <2>5, <2>7
<1>2. CASE MainNext
  <2>1. /\ pc["main"] = "running" /\ UNCHANGED <<queue_mutex, sent>>
        /\ \A t \in Service : pc[t] = "returned"
        /\ pc' = [pc EXCEPT !["main"] = "log_stop"]
    BY <1>2
    DEF Threads, MainNext, join_services, log_stop_set, log_stop_unthread, join_log, goto
  <2>2. \A t \in Service : pc'[t] = pc[t]
    BY <2>1 DEF Threads, Thread
  <2> QED
    BY <2>1, <2>2
<1>3. CASE LogThreadNext \/ UNCHANGED vars
  <2>1. UNCHANGED <<queue_mutex, pc, sent>>
    BY <1>3
    DEF LogThreadNext, log_run_start, log_run_read_start, log_run_go_on, log_run_flush,
        log_run_syslog, log_run_read_stop_dump, vars
  <2> QED
    BY <2>1
<1> QED
  BY <1>1, <1>2, <1>3 DEF Next

LEMMA CountedStep ==
  ASSUME Threads, Ring, Handed, Counted, [Next]_vars, ~stop, ~stop'
  PROVE  Counted'
<1>1. CASE \E t \in Thread : WriterNext(t) \/ signal_handler(t)
  <2>1. PICK t \in Service : WriterNext(t) \/ signal_handler(t)
    BY <1>1, MainWaits
  <2>2. /\ t \in Thread /\ t # Nobody /\ pc \in [Thread -> Label]
        /\ \A u \in Service : u # Nobody /\ u \in Thread
    BY DEF Thread, Threads
  <2>3. UNCHANGED log_thread /\ pending \in Nat
    BY <2>1, RingTypes
    DEF WriterNext, signal_handler, log, log_syslog, log_lock, log_push_start,
        log_fill, log_push_end, service_returns
  <2>4. \A u \in Service : u # t => pc'[u] = pc[u]
    BY <2>1, <2>2 DEF WriterNext, signal_handler, log, log_syslog, log_lock, log_push_start,
        log_fill, log_push_end, service_returns, goto
  <2>5. ASSUME pc[t] \in Locked PROVE queue_mutex = t
    BY <2>5 DEF Threads
  <2>6. CASE log(t) \/ log_syslog(t) \/ service_returns(t)
    <3>1. UNCHANGED <<count, read_sem, queue_mutex>> /\ pc[t] \notin Locked
      BY <2>1, <2>2, <2>6 DEF log, may_log, log_syslog, service_returns, queueVars, Locked
    <3>2. pending' = pending /\ queue_mutex # t
      BY <2>3, <3>1 DEF pending, holding, Handed
    <3> QED
      BY <2>4, <3>1, <3>2 DEF Counted
  <2>7. CASE log_lock(t)
    <3>1. /\ UNCHANGED <<count, read_sem>> /\ queue_mutex = Nobody /\ queue_mutex' = t
          /\ pc'[t] = "push_start"
      BY <2>2, <2>7 DEF log_lock, queueVars, goto
    <3>2. pending' = pending
      BY <2>3, <3>1 DEF pending, holding
    <3> QED
      BY <2>2, <3>1, <3>2 DEF Counted
  <2>8. CASE log_push_start(t)
    <3>1. /\ count' = count + 1 /\ UNCHANGED <<read_sem, queue_mutex>>
          /\ pc[t] = "push_start" /\ pc'[t] = "fill"
      BY <2>2, <2>8 DEF log_push_start, goto
    <3>2. pending' = pending /\ queue_mutex = t
      BY <2>3, <2>5, <3>1 DEF pending, holding, Locked
    <3> QED
      BY <2>2, <3>1, <3>2 DEF Counted
  <2>9. CASE log_fill(t)
    <3>1. /\ UNCHANGED <<count, read_sem, queue_mutex>>
          /\ pc[t] = "fill" /\ pc'[t] = "push_end"
      BY <2>2, <2>9 DEF log_fill, goto
    <3>2. pending' = pending /\ queue_mutex = t
      BY <2>3, <2>5, <3>1 DEF pending, holding, Locked
    <3> QED
      BY <2>2, <3>1, <3>2 DEF Counted
  <2>10. CASE log_push_end(t)
    <3>1. /\ UNCHANGED count /\ read_sem' = read_sem + 1 /\ queue_mutex' = Nobody
          /\ pc[t] = "push_end"
      BY <2>2, <2>10 DEF log_push_end, goto
    <3>2. pending' = pending + 1 /\ queue_mutex = t
      BY <2>3, <2>5, <3>1 DEF pending, holding, Locked, Ring
    <3> QED
      BY <2>2, <3>1, <3>2 DEF Counted
  <2>11. CASE signal_handler(t)
    <3>1. /\ UNCHANGED <<count, read_sem, queue_mutex>> /\ queue_mutex = t
          /\ pc'[t] = "deadlocked"
      BY <2>2, <2>11 DEF signal_handler, goto, queueVars
    <3> QED
      BY <2>2, <3>1 DEF Counted
  <2> QED
    BY <2>1, <2>6, <2>7, <2>8, <2>9, <2>10, <2>11 DEF WriterNext
<1>2. CASE MainNext
  <2>1. /\ UNCHANGED <<queue_mutex, count, read_sem, log_thread>>
        /\ pc' = [pc EXCEPT !["main"] = "log_stop"]
    BY <1>2
    DEF Threads, MainNext, join_services, log_stop_set, log_stop_unthread, join_log, goto,
        queueVars
  <2>2. \A t \in Service : pc'[t] = pc[t]
    BY <2>1 DEF Threads, Thread
  <2> QED
    BY <2>1, <2>2 DEF Counted, pending, holding
<1>3. CASE log_run_read_stop_dump
  <2>1. UNCHANGED <<pc, queue_mutex>> /\ count' = count - 1
    BY <1>3 DEF log_run_read_stop_dump
  <2>2. pending' = pending - 1 /\ pending \in Nat
    BY <1>3, RingReadStop, RingTypes
  <2> QED
    BY <2>1, <2>2 DEF Counted
<1>4. CASE (LogThreadNext /\ ~log_run_read_stop_dump) \/ UNCHANGED vars
  <2>1. UNCHANGED <<pc, queue_mutex, count>>
    BY <1>4
    DEF LogThreadNext, log_run_start, log_run_read_start, log_run_go_on, log_run_flush,
        log_run_syslog, vars, queueVars
  <2>2. pending' = pending
    <3>1. CASE log_run_read_start
      BY <3>1 DEF log_run_read_start, pending, holding, Reading, Ring
    <3>2. CASE ~log_run_read_start
      BY <1>4, <3>2
      DEF LogThreadNext, log_run_start, log_run_go_on, log_run_flush,
          log_run_syslog, vars, queueVars, pending, holding, Reading
    <3> QED
      BY <3>1, <3>2
  <2> QED
    BY <2>1, <2>2 DEF Counted
<1> QED
  BY <1>1, <1>2, <1>3, <1>4 DEF Next, LogThreadNext

(* The steps that move no line.                                              *)
LEMMA LinesStay ==
  ASSUME Unmarked, Found, Filled, Tally,
         UNCHANGED <<entries, read_pos, write_pos, syslog, from, pending>>,
         log_thread' = "created" => log_thread = "created",
         \A u \in Thread : /\ done(u)' = done(u)
                           /\ \A n \in 1 .. done(u) : sent'[u][n] = sent[u][n],
         \A u \in Service : pc'[u] = "push_end" =>
           pc[u] = "push_end" /\ sent'[u] = sent[u]
  PROVE  Unmarked' /\ Found' /\ Filled' /\ Tally'
<1>1. Logged' = Logged /\ Waiting' = Waiting
  BY DEF Logged, Waiting, at
<1>2. Unmarked'
  BY <1>1 DEF Unmarked
<1>3. Found'
  BY <1>1 DEF Found, text, Thread
<1>4. Filled'
  BY DEF Filled, text, num
<1>5. Tally'
  BY DeliveredSame DEF Tally
<1> QED
  BY <1>2, <1>3, <1>4, <1>5

LEMMA DoneTypes ==
  ASSUME Threads, Said, Handed
  PROVE  /\ done("main") = 0
         /\ \A t \in Service : done(t) \in Int /\ (pc[t] \in Busy => done(t) \in Nat)
<1>1. done("main") = 0
  BY DEF Handed, Threads, done, num, Undone, Busy
<1>2. ASSUME NEW t \in Service
      PROVE  done(t) \in Int /\ (pc[t] \in Busy => done(t) \in Nat)
  <2>1. num(t) \in Nat /\ (pc[t] \in Busy => num(t) > 0)
    BY NumberTypes DEF Said
  <2> QED
    BY <2>1 DEF done, Undone
<1> QED
  BY <1>1, <1>2

LEMMA MoveOnKept ==
  ASSUME Threads, Ring, Said, Handed, Unmarked, Found, Filled, Tally, NEW t \in Service,
         \/ log(t) \/ log_lock(t) \/ log_push_start(t) \/ signal_handler(t)
         \/ service_returns(t)
  PROVE  Unmarked' /\ Found' /\ Filled' /\ Tally'
<1>1. /\ t \in Thread /\ pc \in [Thread -> Label] /\ sent \in [Thread -> Seq(Level)]
      /\ Service \subseteq Thread
  BY DEF Threads, Said, Thread
<1>2. \A u \in Thread : u # t => /\ pc'[u] = pc[u] /\ sent'[u] = sent[u]
                                 /\ done(u)' = done(u)
  BY <1>1, OthersSame DEF WriterNext
<1>3. UNCHANGED <<entries, read_pos, write_pos, syslog, read_sem, log_thread>>
  BY DEF log, log_lock, log_push_start, signal_handler, service_returns, queueVars
<1>4. UNCHANGED <<from, pending>>
  BY <1>3 DEF from, pending, holding
<1>5. pc'[t] # "push_end"
  BY <1>1 DEF log, log_lock, log_push_start, signal_handler, service_returns, goto
<1>6. sent[t] \in Seq(Level) /\ num(t) \in Nat
  BY <1>1, NumberTypes
<1>7. /\ done(t)' = done(t)
      /\ \A n \in 1 .. done(t) : sent'[t][n] = sent[t][n]
  <2>1. CASE log(t)
    <3>1. PICK level \in Level : sent' = [sent EXCEPT ![t] = Append(sent[t], level)]
      BY <2>1 DEF log, Level
    <3>2. sent'[t] = Append(sent[t], level) /\ pc[t] \in {"running", "stopped", "joined"}
          /\ pc'[t] \in {"lock", "syslog"}
      BY <1>1, <2>1, <3>1 DEF log, may_log, goto
    <3>3. num(t)' = num(t) + 1
      BY <1>6, <3>2 DEF num
    <3>4. done(t) = num(t) /\ done(t)' = num(t)
      BY <1>6, <3>2, <3>3 DEF done, Undone, Busy
    <3>5. \A n \in 1 .. num(t) : sent'[t][n] = sent[t][n]
      BY <1>6, <3>2 DEF num
    <3> QED
      BY <3>4, <3>5
  <2>2. CASE ~log(t)
    <3>1. UNCHANGED sent
      BY <2>2 DEF log_lock, log_push_start, signal_handler, service_returns
    <3>2. pc[t] \in Undone <=> pc'[t] \in Undone
      <4>1. CASE signal_handler(t)
        <5>1. pc[t] \in Locked /\ pc'[t] = "deadlocked"
          BY <1>1, <4>1 DEF signal_handler, goto, Handed
        <5> QED
          BY <5>1 DEF Undone, Busy, Locked
      <4>2. CASE ~signal_handler(t)
        BY <1>1, <2>2, <4>2
        DEF log_lock, log_push_start, service_returns, goto, Undone, Busy
      <4> QED
        BY <4>1, <4>2
    <3> QED
      BY <3>1, <3>2 DEF done, num
  <2> QED
    BY <2>1, <2>2
<1>8. /\ \A u \in Thread : /\ done(u)' = done(u)
                           /\ \A n \in 1 .. done(u) : sent'[u][n] = sent[u][n]
      /\ \A u \in Service : pc'[u] = "push_end" => pc[u] = "push_end" /\ sent'[u] = sent[u]
  BY <1>1, <1>2, <1>5, <1>7
<1> QED
  BY <1>3, <1>4, <1>8, LinesStay

LEMMA IdleKept ==
  ASSUME Threads, Ring, Handed, Unmarked, Found, Filled, Tally, ~stop, ~stop',
         MainNext \/ log_run_start \/ log_run_read_start \/ log_run_go_on
           \/ log_run_flush \/ UNCHANGED vars
  PROVE  Unmarked' /\ Found' /\ Filled' /\ Tally'
<1>1. /\ UNCHANGED <<entries, read_pos, write_pos, sent, syslog>>
      /\ \A t \in Service : pc'[t] = pc[t]
      /\ pc'["main"] \in {"running", "log_stop"}
  BY DEF MainNext, join_services, log_stop_set, log_stop_unthread, join_log, goto,
         log_run_start, log_run_read_start, log_run_go_on, log_run_flush, queueVars, vars,
         Threads, Thread
<1>2. UNCHANGED <<from, pending>> /\ (log_thread' = "created" => log_thread = "created")
  <2>1. CASE log_run_read_start
    BY <2>1 DEF log_run_read_start, pending, holding, from, Reading, Ring
  <2>2. CASE ~log_run_read_start
    <3>1. UNCHANGED read_sem
      BY <2>2 DEF MainNext, join_services, log_stop_set, log_stop_unthread, join_log,
                  log_run_start, log_run_go_on, log_run_flush, queueVars, vars
    <3>2. \/ UNCHANGED log_thread
          \/ log_thread = "created" /\ log_thread' = "read_start"
          \/ log_thread = "get_should_stop" /\ log_thread' = "read_get"
      BY <2>2 DEF MainNext, join_services, log_stop_set, log_stop_unthread, join_log,
                  log_run_start, log_run_go_on, log_run_flush, queueVars, vars
    <3> QED
      BY <3>1, <3>2 DEF pending, holding, from, Reading
  <2> QED
    BY <2>1, <2>2
<1>3. \A u \in Thread : done(u)' = done(u) /\ sent'[u] = sent[u]
  <2>1. ASSUME NEW u \in Service PROVE done(u)' = done(u)
    BY <1>1 DEF done, num
  <2>2. done("main")' = done("main")
    BY <1>1 DEF done, num, Undone, Busy, Threads
  <2> QED
    BY <1>1, <2>1, <2>2 DEF Thread
<1> QED
  BY <1>1, <1>2, <1>3, LinesStay

(* One more line in syslog, whatever was there.                              *)
LEMMA OneMoreLine ==
  ASSUME syslog \in Seq(Line), NEW e \in Line, syslog' = Append(syslog, e)
  PROVE  /\ syslog' \in Seq(Line) /\ Logged' = Logged \cup {e}
         /\ Len(syslog) \in Nat /\ Len(syslog') = Len(syslog) + 1
         /\ DOMAIN syslog = 1 .. Len(syslog)
         /\ DOMAIN syslog' = 1 .. Len(syslog) + 1
         /\ \A k \in 1 .. Len(syslog) : syslog'[k] = syslog[k]
         /\ syslog'[Len(syslog) + 1] = e
<1>1. /\ DOMAIN syslog = 1 .. Len(syslog) /\ Len(syslog) \in Nat
      /\ Len(syslog') = Len(syslog) + 1
      /\ DOMAIN syslog' = 1 .. Len(syslog) + 1
      /\ \A k \in 1 .. Len(syslog) : syslog'[k] = syslog[k]
      /\ syslog'[Len(syslog) + 1] = e
      /\ syslog' \in Seq(Line)
  OBVIOUS
<1>2. Logged' = Logged \cup {e}
  <2>1. ASSUME NEW l \in Logged PROVE l \in Logged'
    <3>1. PICK k \in 1 .. Len(syslog) : l = syslog[k]
      BY <1>1 DEF Logged
    <3>2. k \in 1 .. Len(syslog) + 1 /\ l = syslog'[k]
      BY <1>1, <3>1
    <3> QED
      BY <1>1, <3>2 DEF Logged
  <2>2. e \in Logged'
    BY <1>1 DEF Logged
  <2>3. ASSUME NEW l \in Logged' PROVE l \in Logged \cup {e}
    <3>1. PICK k \in 1 .. Len(syslog) + 1 : l = syslog'[k]
      BY <1>1, <2>3 DEF Logged
    <3> QED
      BY <1>1, <3>1 DEF Logged
  <2> QED
    BY <2>1, <2>2, <2>3
<1> QED
  BY <1>1, <1>2

(* A call that is through now: its line is in syslog or in the ring, where   *)
(* everything else is that was there.                                        *)
LEMMA OneMoreCall ==
  ASSUME Threads, Said, Handed, Found, NEW t \in Service, pc[t] \in Busy, UNCHANGED sent,
         done(t)' = done(t) + 1, \A u \in Service : u # t => done(u)' = done(u),
         Logged \cup Waiting \subseteq Logged' \cup Waiting',
         sent[t][num(t)] = "info" => text(t, num(t)) \in Logged' \cup Waiting'
  PROVE  Found'
<1>1. done(t) \in Nat /\ done(t) + 1 = num(t)
  BY DoneTypes, NumberTypes DEF done, Undone
<1>2. ASSUME NEW u \in Service, NEW n \in 1 .. done(u)', sent[u][n] = "info"
      PROVE  text(u, n) \in Logged' \cup Waiting'
  <2>1. CASE u = t /\ n = num(t)
    BY <1>2, <2>1
  <2>2. CASE ~(u = t /\ n = num(t))
    <3>1. n \in 1 .. done(u)
      <4>1. CASE u = t
        BY <1>1, <2>2, <4>1
      <4>2. CASE u # t
        BY <4>2
      <4> QED
        BY <4>1, <4>2
    <3> QED
      BY <1>2, <3>1 DEF Found
  <2> QED
    BY <2>1, <2>2
<1> QED
  BY <1>2 DEF Found, text

LEMMA LatestText ==
  ASSUME Said, NEW t \in Service, pc[t] \in Busy
  PROVE  /\ Last(sent[t]) = sent[t][num(t)] /\ latest(t).msg[1] = t
         /\ sent[t][num(t)] = "info" => latest(t) = text(t, num(t))
<1>1. sent[t] \in Seq(Level) /\ Len(sent[t]) \in Nat /\ Len(sent[t]) > 0
  BY DEF Said, num, Thread
<1>2. Last(sent[t]) = sent[t][num(t)]
  BY <1>1 DEF Last, num
<1> QED
  BY <1>2 DEF latest, text, num

LEMMA SyslogKept ==
  ASSUME Threads, Ring, Said, Handed, Unmarked, Found, Filled, Tally, NEW t \in Service,
         log_syslog(t)
  PROVE  Unmarked' /\ Found' /\ Filled' /\ Tally'
<1> DEFINE e == latest(t)
<1>1. /\ pc[t] = "syslog" /\ syslog' = Append(syslog, e)
      /\ pc' = [pc EXCEPT ![t] = "running"]
      /\ UNCHANGED <<entries, read_pos, write_pos, read_sem, write_sem, log_thread, sent>>
  BY Resumes DEF log_syslog, goto, queueVars
<1>2. /\ t \in Thread /\ pc \in [Thread -> Label] /\ sent \in [Thread -> Seq(Level)]
      /\ Service \subseteq Thread /\ t # "main"
  BY DEF Threads, Said, Thread
<1>3. /\ e \in Line /\ e.msg[1] = t
      /\ sent[t][num(t)] = "info" => e = text(t, num(t))
  BY <1>1, LatestLine, LatestText DEF Busy
<1> HIDE DEF e
<1>4. UNCHANGED <<from, pending>> /\ Waiting' = Waiting
  BY <1>1 DEF from, pending, holding, Waiting, at
<1>5. \A u \in Thread : u # t => /\ pc'[u] = pc[u] /\ sent'[u] = sent[u]
                                 /\ done(u)' = done(u)
  BY <1>2, OthersSame DEF WriterNext
<1>6. done(t)' = done(t) + 1 /\ done(t) \in Nat /\ num(t) \in Nat /\ done(t) + 1 = num(t)
  <2>1. done(t) \in Nat /\ num(t) \in Nat /\ pc'[t] = "running"
    BY <1>1, <1>2, DoneTypes, NumberTypes DEF Busy
  <2> QED
    BY <1>1, <2>1 DEF done, num, Undone, Busy
<1>7. Logged' = Logged \cup {e} /\ Len(syslog') = Len(syslog) + 1 /\ Len(syslog) \in Nat
  BY <1>1, <1>3, OneMoreLine DEF Said
<1>8. Unmarked'
  BY <1>1, <1>2, <1>3, <1>7 DEF Unmarked
<1>9. Found'
  <2>1. pc[t] \in Busy /\ UNCHANGED sent
    BY <1>1 DEF Busy
  <2>2. sent[t][num(t)] = "info" => text(t, num(t)) \in Logged' \cup Waiting'
    BY <1>3, <1>7
  <2>3. Logged \cup Waiting \subseteq Logged' \cup Waiting'
    BY <1>4, <1>7
  <2> QED
    BY <1>2, <1>5, <1>6, <2>1, <2>2, <2>3, OneMoreCall
<1>10. Filled'
  <2>1. pc'[t] = "running"
    BY <1>1, <1>2
  <2> QED
    BY <1>1, <1>2, <1>5, <2>1 DEF Filled, text, num
<1>11. Tally'
  <2>1. /\ IsFiniteSet(Delivered') /\ Cardinality(Delivered) \in Nat
        /\ Cardinality(Delivered') = Cardinality(Delivered) + 1
    BY <1>2, <1>5, <1>6, DeliveredMore DEF Tally
  <2>2. pending \in Nat /\ from \in 0 .. 1
    BY RingTypes
  <2> QED
    BY <1>4, <1>7, <2>1, <2>2 DEF Tally
<1> QED
  BY <1>8, <1>9, <1>10, <1>11

(* log_fill writes none of the entries that wait.                            *)
LEMMA PlaceIsFree ==
  ASSUME Ring, NEW t \in Service, pc[t] = "fill", NEW e,
         entries' = [entries EXCEPT ![write_pos] = e], UNCHANGED read_pos,
         NEW i \in from .. pending - 1
  PROVE  at(i)' = at(i)
<1>1. i \in Nat /\ pending \in Nat /\ i < pending /\ pending < LOG_QUEUE_COUNT
  BY RingTypes DEF Ring
<1>2. (read_pos + i) % LOG_QUEUE_COUNT # (read_pos + pending) % LOG_QUEUE_COUNT
  <2>1. LOG_QUEUE_COUNT \in Nat \ {0} /\ read_pos + i \in Nat /\ read_pos + pending \in Nat
        /\ read_pos + i < read_pos + pending
        /\ (read_pos + pending) - (read_pos + i) < LOG_QUEUE_COUNT
    BY <1>1 DEF Ring, Slot
  <2> QED
    BY <2>1, ModDistinct
<1>3. (read_pos + i) % LOG_QUEUE_COUNT \in Slot
  BY <1>1, Positions DEF Ring
<1> QED
  BY <1>2, <1>3 DEF at, Ring

LEMMA FillKept ==
  ASSUME Threads, Ring, Said, Handed, Unmarked, Found, Filled, Tally, NEW t \in Service,
         log_fill(t)
  PROVE  Unmarked' /\ Found' /\ Filled' /\ Tally'
<1> DEFINE e == IF Last(sent[t]) = "error"
                THEN [level |-> "error", msg |-> entries[write_pos].msg]
                ELSE latest(t)
<1>1. /\ pc[t] = "fill" /\ entries' = [entries EXCEPT ![write_pos] = e]
      /\ pc' = [pc EXCEPT ![t] = "push_end"]
      /\ UNCHANGED <<read_pos, write_pos, read_sem, write_sem, log_thread, syslog, sent>>
  BY DEF log_fill, goto
<1>2. /\ t \in Thread /\ pc \in [Thread -> Label] /\ sent \in [Thread -> Seq(Level)]
      /\ Service \subseteq Thread /\ t # "main" /\ write_pos \in Slot
  BY DEF Threads, Said, Thread, Ring
<1>3. /\ e.msg[1] = t \/ e.msg[1] = entries[write_pos].msg[1]
      /\ Last(sent[t]) = "info" => e = text(t, num(t))
  BY <1>1, LatestText DEF Busy
<1> HIDE DEF e
<1>4. UNCHANGED <<from, pending>> /\ Logged' = Logged
  BY <1>1 DEF from, pending, holding, Logged
<1>5. \A i \in from .. pending - 1 : at(i)' = at(i)
  BY <1>1, PlaceIsFree
<1>6. Waiting' = Waiting
  BY <1>4, <1>5 DEF Waiting
<1>7. \A u \in Thread : u # t => /\ pc'[u] = pc[u] /\ sent'[u] = sent[u]
                                 /\ done(u)' = done(u)
  BY <1>2, OthersSame DEF WriterNext
<1>8. \A u \in Thread : done(u)' = done(u)
  <2>1. done(t)' = done(t)
    BY <1>1, <1>2 DEF done, num, Undone, Busy
  <2> QED
    BY <1>7, <2>1
<1>9. entries'[write_pos] = e /\ \A s \in Slot : s # write_pos => entries'[s] = entries[s]
  BY <1>1, <1>2 DEF Ring
<1>10. Unmarked'
  <2>1. log_thread # "created"
    BY <1>1 DEF Threads, Locked
  <2> QED
    BY <1>1, <1>2, <1>3, <1>4, <1>9, <2>1 DEF Unmarked
<1>11. Found'
  BY <1>1, <1>2, <1>4, <1>6, <1>8 DEF Found, text
<1>12. Filled'
  <2>1. ASSUME NEW u \in Service, pc'[u] = "push_end" PROVE u = t
    <3>1. queue_mutex = t
      BY <1>1 DEF Threads, Locked
    <3>2. u # t => pc[u] = "push_end"
      BY <1>2, <1>7, <2>1
    <3> QED
      BY <3>1, <3>2 DEF Threads, Locked
  <2> QED
    BY <1>1, <1>3, <1>9, <2>1 DEF Filled, text, num
<1>13. Tally'
  BY <1>1, <1>4, <1>8, DeliveredSame DEF Tally
<1> QED
  BY <1>10, <1>11, <1>12, <1>13

LEMMA PushEndKept ==
  ASSUME Threads, Ring, Said, Handed, Unmarked, Found, Filled, Tally, NEW t \in Service,
         log_push_end(t)
  PROVE  Unmarked' /\ Found' /\ Filled' /\ Tally'
<1>1. /\ pc[t] = "push_end" /\ pc' = [pc EXCEPT ![t] = "running"]
      /\ UNCHANGED <<entries, read_pos, write_sem, log_thread, syslog, sent>>
  BY Resumes DEF log_push_end, goto
<1>2. /\ t \in Thread /\ pc \in [Thread -> Label] /\ sent \in [Thread -> Seq(Level)]
      /\ Service \subseteq Thread /\ t # "main"
  BY DEF Threads, Said, Thread
<1>3. pending' = pending + 1 /\ pending \in Nat /\ from \in 0 .. 1 /\ from' = from
  BY <1>1, RingPushEnd, RingTypes DEF from
<1>4. from <= pending
  BY <1>3, RingTypes DEF from, pending, holding, Ring, Reading
<1>5. Logged' = Logged /\ at(pending) \in Waiting' /\ Waiting \subseteq Waiting'
  <2>1. \A i \in Nat : at(i)' = at(i)
    BY <1>1 DEF at
  <2>2. pending \in from' .. pending' - 1 /\ from .. pending - 1 \subseteq from' .. pending' - 1
    BY <1>3, <1>4
  <2>3. \A i \in from' .. pending' - 1 : at(i)' = at(i)
    BY <1>3, <2>1
  <2>4. Waiting' = {at(i) : i \in from' .. pending' - 1}
    BY <2>3 DEF Waiting
  <2> QED
    BY <1>1, <2>2, <2>4 DEF Logged, Waiting
<1>6. sent[t][num(t)] = "info" => at(pending) = text(t, num(t))
  BY <1>1, LatestText DEF Busy, Filled, at, Ring
<1>7. \A u \in Thread : u # t => /\ pc'[u] = pc[u] /\ sent'[u] = sent[u]
                                 /\ done(u)' = done(u)
  BY <1>2, OthersSame DEF WriterNext
<1>8. done(t)' = done(t) + 1 /\ done(t) \in Nat
  <2>1. done(t) \in Nat /\ num(t) \in Nat /\ pc'[t] = "running"
    BY <1>1, <1>2, DoneTypes, NumberTypes DEF Busy
  <2> QED
    BY <1>1, <2>1 DEF done, num, Undone, Busy
<1>9. Unmarked'
  BY <1>1, <1>5 DEF Unmarked
<1>10. Found'
  <2>1. pc[t] \in Busy /\ UNCHANGED sent
    BY <1>1 DEF Busy
  <2>2. sent[t][num(t)] = "info" => text(t, num(t)) \in Logged' \cup Waiting'
    BY <1>5, <1>6
  <2>3. Logged \cup Waiting \subseteq Logged' \cup Waiting'
    BY <1>5
  <2> QED
    BY <1>2, <1>7, <1>8, <2>1, <2>2, <2>3, OneMoreCall
<1>11. Filled'
  <2>1. ASSUME NEW u \in Service PROVE pc'[u] # "push_end"
    <3>1. CASE u = t
      BY <1>1, <1>2, <3>1
    <3>2. CASE u # t
      BY <1>1, <1>2, <1>7, <3>2 DEF Threads, Locked
    <3> QED
      BY <3>1, <3>2
  <2> QED
    BY <2>1 DEF Filled
<1>12. Tally'
  <2>1. /\ IsFiniteSet(Delivered') /\ Cardinality(Delivered) \in Nat
        /\ Cardinality(Delivered') = Cardinality(Delivered) + 1
    BY <1>2, <1>7, <1>8, DeliveredMore DEF Tally
  <2>2. Len(syslog) \in Nat
    BY DEF Said
  <2> QED
    BY <1>1, <1>3, <2>1, <2>2 DEF Tally
<1> QED
  BY <1>9, <1>10, <1>11, <1>12

LEMMA ReadersKept ==
  ASSUME Threads, Ring, Said, Unmarked, Found, Filled, Tally,
         UNCHANGED <<entries, write_pos, pc, sent>>,
         log_thread' # "created", Logged' \subseteq Logged \cup Waiting,
         Logged \cup Waiting \subseteq Logged' \cup Waiting',
         Len(syslog') + pending' - from' = Len(syslog) + pending - from
  PROVE  Unmarked' /\ Found' /\ Filled' /\ Tally'
<1>1. \A u \in Thread : done(u)' = done(u)
  BY DEF done, num
<1>2. Unmarked'
  <2>1. ASSUME NEW w \in Waiting PROVE w.msg[1] # "main"
    <3>1. PICK i \in from .. pending - 1 : w = at(i)
      BY DEF Waiting
    <3>2. i \in Nat
      BY <3>1, RingTypes
    <3>3. (read_pos + i) % LOG_QUEUE_COUNT \in Slot
      BY <3>2, Positions DEF Ring
    <3> QED
      BY <3>1, <3>3 DEF Unmarked, at
  <2> QED
    BY <2>1 DEF Unmarked
<1>3. Found'
  BY <1>1 DEF Found, text, Thread
<1>4. Filled'
  BY DEF Filled, text, num
<1>5. Tally'
  BY <1>1, DeliveredSame DEF Tally
<1> QED
  BY <1>2, <1>3, <1>4, <1>5

LEMMA FirstEntry ==
  ASSUME read_pos \in Slot
  PROVE  at(0) = entries[read_pos]
<1>1. LOG_QUEUE_COUNT \in Nat \ {0} /\ read_pos \in 0 .. LOG_QUEUE_COUNT - 1
      /\ read_pos + 0 = 0 * LOG_QUEUE_COUNT + read_pos /\ 0 \in Nat
  BY DEF Slot
<1>2. (0 * LOG_QUEUE_COUNT + read_pos) % LOG_QUEUE_COUNT = read_pos
  BY <1>1, DivModUnique
<1> QED
  BY <1>1, <1>2 DEF at

LEMMA RunSyslogKept ==
  ASSUME Threads, Ring, Said, Unmarked, Found, Filled, Tally, log_run_syslog
  PROVE  Unmarked' /\ Found' /\ Filled' /\ Tally'
<1>1. /\ log_thread = "read_get" /\ log_thread' = "read_stop_dump"
      /\ syslog' = Append(syslog, entries[read_pos])
      /\ UNCHANGED <<entries, read_pos, write_pos, read_sem, write_sem, pc, sent>>
  BY DEF log_run_syslog, queueVars
<1>2. pending' = pending /\ pending \in Nat /\ pending > 0 /\ from = 0 /\ from' = 1
  BY <1>1 DEF pending, holding, from, Reading, Ring
<1>3. at(0) = entries[read_pos] /\ at(0) \in Line
  BY FirstEntry, RingTypes DEF Ring
<1>4. Logged' = Logged \cup {at(0)} /\ Len(syslog') = Len(syslog) + 1 /\ Len(syslog) \in Nat
  BY <1>1, <1>3, OneMoreLine DEF Said
<1>5. at(0) \in Waiting
  BY <1>2 DEF Waiting
<1>6. Waiting \subseteq Waiting' \cup {at(0)}
  <2>1. ASSUME NEW i \in from .. pending - 1 PROVE at(i) \in Waiting' \cup {at(0)}
    <3>1. CASE i = 0
      BY <3>1
    <3>2. CASE i # 0
      <4>1. i \in from' .. pending' - 1
        BY <1>2, <3>2
      <4>2. at(i)' = at(i)
        BY <1>1 DEF at
      <4> QED
        BY <4>1, <4>2 DEF Waiting
    <3> QED
      BY <3>1, <3>2
  <2> QED
    BY <2>1 DEF Waiting
<1> QED
  BY <1>1, <1>2, <1>4, <1>5, <1>6, ReadersKept

LEMMA ReadStopKept ==
  ASSUME Threads, Ring, Said, Unmarked, Found, Filled, Tally, log_run_read_stop_dump
  PROVE  Unmarked' /\ Found' /\ Filled' /\ Tally'
<1>1. /\ log_thread = "read_stop_dump" /\ log_thread' = "read_start"
      /\ UNCHANGED <<entries, write_pos, pc, syslog, sent>>
  BY DEF log_run_read_stop_dump
<1>2. Ring' /\ pending' = pending - 1 /\ \A i \in Nat : at(i)' = at(i + 1)
  BY RingReadStop
<1>3. pending \in Nat /\ from = 1 /\ from' = 0 /\ Len(syslog) \in Nat
  BY <1>1, RingTypes DEF from, Said
<1>4. Logged' = Logged
  BY <1>1 DEF Logged
<1>5. Waiting \subseteq Waiting'
  <2>1. ASSUME NEW i \in from .. pending - 1 PROVE at(i) \in Waiting'
    <3>1. i - 1 \in from' .. pending' - 1 /\ i - 1 \in Nat /\ (i - 1) + 1 = i
      BY <1>2, <1>3
    <3>2. at(i - 1)' = at(i)
      BY <1>2, <3>1
    <3> QED
      BY <3>1, <3>2 DEF Waiting
  <2> QED
    BY <2>1 DEF Waiting
<1> QED
  BY <1>1, <1>2, <1>3, <1>4, <1>5, ReadersKept

LEMMA KeptStep ==
  ASSUME Threads, Ring, Said, Kept, [Next]_vars, ~stop, ~stop'
  PROVE  Kept'
<1>1. Handed' /\ Counted'
  BY HandedStep, CountedStep DEF Kept
<1>2. CASE \E t \in Thread : WriterNext(t) \/ signal_handler(t)
  <2>1. PICK t \in Service : WriterNext(t) \/ signal_handler(t)
    BY <1>2, MainWaits
  <2>2. CASE log_syslog(t)
    BY <1>1, <2>2, SyslogKept DEF Kept
  <2>3. CASE log_fill(t)
    BY <1>1, <2>3, FillKept DEF Kept
  <2>4. CASE log_push_end(t)
    BY <1>1, <2>4, PushEndKept DEF Kept
  <2>5. CASE \/ log(t) \/ log_lock(t) \/ log_push_start(t) \/ signal_handler(t)
             \/ service_returns(t)
    BY <1>1, <2>5, MoveOnKept DEF Kept
  <2> QED
    BY <2>1, <2>2, <2>3, <2>4, <2>5 DEF WriterNext
<1>3. CASE log_run_syslog
  BY <1>1, <1>3, RunSyslogKept DEF Kept
<1>4. CASE log_run_read_stop_dump
  BY <1>1, <1>4, ReadStopKept DEF Kept
<1>5. CASE MainNext \/ log_run_start \/ log_run_read_start \/ log_run_go_on
             \/ log_run_flush \/ UNCHANGED vars
  BY <1>1, <1>5, IdleKept DEF Kept
<1> QED
  BY <1>2, <1>3, <1>4, <1>5 DEF Next, LogThreadNext

-------------------------------------------------------------------------------
(* After log_stop.  The services are gone; main logs twice more.  If the log *)
(* thread starts only after log_stop_unthread (late), main pushes to a queue  *)
(* that nobody may read; but then no service has used the queue.             *)

MainLabel == Undone \cup {"unthread", "stopped", "join_log", "joined", "returned"}
late == threaded_log /\ pc["main"] # "unthread"

MainCalls ==
  /\ \A n \in DOMAIN sent["main"] : sent["main"][n] = "info"
  /\ pc["main"] \in {"unthread", "stopped"} => num("main") = 0
  /\ pc["main"] \in Undone => num("main") \in 1 .. 2
  /\ pc["main"] \in {"join_log", "joined"} => num("main") = 1
  /\ pc["main"] = "returned" => num("main") = 2
  /\ pc["main"] = "joined" \/ num("main") = 2 => log_thread = "returned"

Stopped ==
  /\ pc \in [Thread -> MainLabel]
  /\ \A t \in Service : pc[t] = "returned"
  /\ sent \in [Thread -> Seq(Level)]
  /\ syslog \in Seq(Line)
  /\ entries \in [Slot -> Line] /\ read_pos \in Slot /\ write_pos \in Slot
  /\ count \in Nat
  /\ queue_mutex \in {Nobody, "main"}
  /\ queue_mutex = "main" => pc["main"] \in Locked
  /\ log_thread \in {"created", "read_start", "returned"} \cup Reading
  /\ pc["main"] \in Locked \cup {"lock"} => late
  /\ log_thread = "created" =>
       /\ ~threaded_log
       /\ count = 0
       /\ \A s \in Slot : entries[s].msg[1] = Nobody
  /\ log_thread \in {"read_get", "read_stop_dump"} => count > 0 /\ ~late

(* What log_run still writes to syslog.                                      *)
left == IF log_thread = "returned" THEN 0 ELSE count
Rest == {at(i) : i \in from .. left - 1}

Single(l) ==
  /\ \A i, j \in DOMAIN syslog : syslog[i] = l /\ syslog[j] = l => i = j
  /\ \A i, j \in from .. left - 1 : at(i) = l /\ at(j) = l => i = j
  /\ ~(l \in Logged /\ l \in Rest)

Exact ==
  \A t \in Thread, n \in Nat \ {0} :
    /\ Single(text(t, n))
    /\ n <= done(t) /\ sent[t][n] = "info" => text(t, n) \in Logged \cup Rest
    /\ n > done(t) => text(t, n) \notin Logged \cup Rest

TallyLeft ==
  /\ IsFiniteSet(Delivered)
  /\ Cardinality(Delivered) = Len(syslog) + left - from

Settled == ~late => Exact /\ TallyLeft

Once(l) == \E i \in DOMAIN syslog : \A j \in DOMAIN syslog : syslog[j] = l <=> j = i

SettledLate ==
  late =>
    /\ log_thread \in {"read_start", "get_should_stop", "returned"}
    /\ \A s \in Slot : entries[s].msg[1] \notin Service
    /\ \A t \in Service : \A n \in DOMAIN sent[t] :
         sent[t][n] = "info" => Once(text(t, n))

Finishing == MainCalls /\ Stopped /\ Settled /\ SettledLate

(* A service has returned, and of the writers only main moves.               *)
LEMMA OnlyMainLogs ==
  ASSUME Stopped, NEW t \in Thread, WriterNext(t) \/ signal_handler(t)
  PROVE  t = "main" /\ ~service_returns(t)
<1>1. ASSUME t \in Service PROVE FALSE
  <2>1. pc[t] = "returned" /\ queue_mutex # t
    BY <1>1 DEF Stopped
  <2> QED
    BY <2>1
    DEF WriterNext, signal_handler, log, may_log, log_syslog, log_lock, log_push_start,
        log_fill, log_push_end, service_returns
<1> QED
  BY <1>1 DEF Thread, service_returns

LEMMA MainLatest ==
  ASSUME MainCalls, Stopped, pc["main"] \in Undone
  PROVE  /\ latest("main") = text("main", num("main")) /\ latest("main") \in Line
         /\ Last(sent["main"]) = "info"
         /\ num("main") \in Nat /\ num("main") > 0
<1>1. /\ sent["main"] \in Seq(Level) /\ Len(sent["main"]) \in Nat
      /\ Len(sent["main"]) \in 1 .. 2
  BY DEF Stopped, MainCalls, num, Thread
<1>2. Last(sent["main"]) = sent["main"][num("main")]
  BY <1>1 DEF Last, num
<1>3. num("main") \in DOMAIN sent["main"]
  BY <1>1 DEF num
<1>4. Last(sent["main"]) = "info"
  BY <1>2, <1>3 DEF MainCalls
<1>5. <<"main", num("main")>> \in Text
  BY <1>1 DEF Text, Thread, num
<1>6. latest("main") = text("main", num("main"))
  BY <1>4 DEF latest, text, num
<1> QED
  BY <1>1, <1>4, <1>5, <1>6 DEF text, Line, Level, num

(* Where main goes on.                                                       *)
LEMMA MainResumes ==
  ASSUME num("main") \in 1 .. 2
  PROVE  /\ resume("main") \in {"join_log", "returned"}
         /\ resume("main") = "join_log" <=> num("main") = 1
<1>1. resume("main") = <<"join_log", "returned">>[num("main")]
  BY DEF resume, num
<1>2. CASE num("main") = 1
  BY <1>1, <1>2
<1>3. CASE num("main") = 2
  BY <1>1, <1>3
<1> QED
  BY <1>2, <1>3

LEMMA MainCallsStep ==
  ASSUME MainCalls, Stopped, stop, [Next]_vars
  PROVE  MainCalls'
<1> USE DEF MainCalls
<1>0. /\ "main" \in Thread /\ "main" \notin Service /\ pc \in [Thread -> MainLabel]
      /\ sent \in [Thread -> Seq(Level)]
  BY DEF Stopped, Thread
<1>1. CASE \E t \in Thread : WriterNext(t) \/ signal_handler(t)
  <2>1. WriterNext("main") \/ signal_handler("main")
    BY <1>1, OnlyMainLogs
  <2>2. UNCHANGED log_thread
    BY <2>1
    DEF WriterNext, signal_handler, log, log_syslog, log_lock, log_push_start,
        log_fill, log_push_end, service_returns
  <2>3. CASE log("main")
    <3>1. /\ pc["main"] \in {"stopped", "joined"} /\ pc'["main"] \in {"lock", "syslog"}
          /\ sent'["main"] = Append(sent["main"], "info")
      BY <1>0, <2>3 DEF log, may_log, goto
    <3>2. sent["main"] \in Seq(Level) /\ Len(sent["main"]) \in Nat
      BY <1>0
    <3>3. num("main")' = num("main") + 1
          /\ \A n \in DOMAIN sent'["main"] : sent'["main"][n] = "info"
      <4>1. DOMAIN sent'["main"] = 1 .. Len(sent["main"]) + 1
            /\ sent'["main"][Len(sent["main"]) + 1] = "info"
            /\ \A n \in 1 .. Len(sent["main"]) : sent'["main"][n] = sent["main"][n]
            /\ Len(sent'["main"]) = Len(sent["main"]) + 1
            /\ DOMAIN sent["main"] = 1 .. Len(sent["main"])
        BY <3>1, <3>2
      <4> QED
        BY <3>2, <4>1 DEF num
    <3>4. num("main") \in 0 .. 1 /\ (num("main") = 1 => log_thread = "returned")
      BY <3>1
    <3>5. pc'["main"] \in Undone
      BY <3>1 DEF Undone, Busy
    <3> QED
      BY <2>2, <3>1, <3>3, <3>4, <3>5
  <2>4. CASE log_syslog("main") \/ log_push_end("main")
    <3>1. /\ pc["main"] \in {"syslog", "push_end"} /\ pc'["main"] = resume("main")
          /\ UNCHANGED sent
      BY <1>0, <2>4 DEF log_syslog, log_push_end, goto
    <3>2. num("main") \in 1 .. 2 /\ num("main")' = num("main")
      BY <3>1 DEF Undone, Busy, num
    <3> QED
      BY <2>2, <3>1, <3>2, MainResumes DEF Undone, Busy
  <2>5. CASE \/ log_lock("main") \/ log_push_start("main") \/ log_fill("main")
             \/ signal_handler("main")
    <3>1. /\ pc["main"] \in Undone /\ UNCHANGED sent
          /\ pc'["main"] \in {"push_start", "fill", "push_end", "deadlocked"}
      BY <1>0, <2>5 DEF log_lock, log_push_start, log_fill, signal_handler, goto, Stopped,
                        Locked, Undone, Busy
    <3>2. num("main") \in 1 .. 2 /\ num("main")' = num("main")
      BY <3>1 DEF num
    <3> QED
      BY <2>2, <3>1, <3>2 DEF Undone, Busy
  <2> QED
    BY <1>0, <2>1, <2>3, <2>4, <2>5 DEF WriterNext, service_returns
<1>2. CASE MainNext
  <2>1. /\ \/ pc["main"] = "unthread" /\ pc'["main"] = "stopped"
           \/ pc["main"] = "join_log" /\ pc'["main"] = "joined" /\ log_thread = "returned"
        /\ UNCHANGED <<sent, log_thread>>
    BY <1>0, <1>2
    DEF MainNext, join_services, log_stop_set, log_stop_unthread, join_log, goto,
        MainLabel, Undone, Busy
  <2> QED
    BY <2>1 DEF num, Undone, Busy
<1>3. CASE LogThreadNext \/ UNCHANGED vars
  <2>1. UNCHANGED <<pc, sent>> /\ (log_thread = "returned" => log_thread' = "returned")
    BY <1>3
    DEF LogThreadNext, log_run_start, log_run_read_start, log_run_go_on, log_run_flush,
        log_run_syslog, log_run_read_stop_dump, vars
  <2> QED
    BY <2>1 DEF num
<1> QED
  BY <1>1, <1>2, <1>3 DEF Next

LEMMA MainMovesStopped ==
  ASSUME MainCalls, Stopped, stop, WriterNext("main") \/ signal_handler("main"),
         ~service_returns("main")
  PROVE  Stopped'
<1> DEFINE m == pc["main"]
<1>1. /\ "main" \in Thread /\ "main" \notin Service /\ pc \in [Thread -> MainLabel]
      /\ sent \in [Thread -> Seq(Level)] /\ Service \subseteq Thread
  BY DEF Stopped, Thread
<1>3. UNCHANGED <<threaded_log, log_thread, read_pos>>
  BY DEF WriterNext, signal_handler, log, log_syslog, log_lock, log_push_start,
         log_fill, log_push_end, queueVars
<1>4. m \in Undone \cup {"stopped", "joined"} /\ (m \notin Undone => log("main"))
  BY <1>1 DEF WriterNext, signal_handler, log, may_log, log_syslog, log_lock, log_push_start,
         log_fill, log_push_end, Stopped, Undone, Busy, Locked
<1>5. pc' = [pc EXCEPT !["main"] = pc'["main"]] /\ pc'["main"] \in MainLabel \ {"unthread"}
  <2>1. m \in Undone => resume("main") \in {"join_log", "returned"}
    BY MainResumes DEF MainCalls
  <2>2. "main" \in DOMAIN pc
    BY <1>1
  <2> QED
    BY <1>4, <2>1, <2>2 DEF WriterNext, signal_handler, log, log_syslog, log_lock,
       log_push_start, log_fill, log_push_end, goto, MainLabel, Undone, Busy
<1>6. pc' \in [Thread -> MainLabel] /\ \A t \in Service : pc'[t] = "returned"
  BY <1>1, <1>5 DEF Stopped
<1>7. late' <=> late
  BY <1>3, <1>4, <1>5 DEF late, Undone, Busy
<1>8. pc'["main"] \in Locked \cup {"lock"} => late
  <2>1. CASE log("main")
    BY <1>1, <1>4, <2>1 DEF log, may_log, goto, late, Locked, Undone, Busy
  <2>2. CASE log_syslog("main") \/ log_push_end("main")
    <3>1. pc'["main"] = resume("main") /\ m \in Undone
      BY <1>1, <2>2 DEF log_syslog, log_push_end, goto, Undone, Busy
    <3> QED
      BY <3>1, MainResumes DEF MainCalls, Locked
  <2>3. CASE \/ log_lock("main") \/ log_push_start("main") \/ log_fill("main")
             \/ signal_handler("main")
    <3>1. m \in Locked \cup {"lock"}
      BY <2>3 DEF log_lock, log_push_start, log_fill, signal_handler, Stopped, Locked
    <3> QED
      BY <3>1 DEF Stopped
  <2> QED
    BY <2>1, <2>2, <2>3 DEF WriterNext
<1>9. sent' \in [Thread -> Seq(Level)]
  <2>1. CASE log("main")
    <3>1. PICK level \in Level : sent' = [sent EXCEPT !["main"] = Append(sent["main"], level)]
      BY <2>1 DEF log, Level
    <3>2. Append(sent["main"], level) \in Seq(Level)
      BY <1>1
    <3> QED
      BY <1>1, <3>1, <3>2
  <2>2. CASE ~log("main")
    BY <1>1, <2>2 DEF WriterNext, signal_handler, log_syslog, log_lock, log_push_start,
         log_fill, log_push_end
  <2> QED
    BY <2>1, <2>2
<1>10. syslog' \in Seq(Line)
  <2>1. CASE log_syslog("main")
    <3>1. latest("main") \in Line /\ syslog' = Append(syslog, latest("main"))
      BY <2>1, MainLatest DEF log_syslog, Undone, Busy
    <3> QED
      BY <3>1 DEF Stopped
  <2>2. CASE ~log_syslog("main")
    BY <2>2 DEF WriterNext, signal_handler, log, log_lock, log_push_start,
         log_fill, log_push_end, Stopped
  <2> QED
    BY <2>1, <2>2
<1>11. entries' \in [Slot -> Line] /\ (entries' = entries \/ late)
  <2>1. CASE log_fill("main")
    <3>1. /\ latest("main") \in Line /\ Last(sent["main"]) = "info" /\ m \in Locked
          /\ entries' = [entries EXCEPT ![write_pos] =
                           IF Last(sent["main"]) = "error"
                           THEN [level |-> "error", msg |-> entries[write_pos].msg]
                           ELSE latest("main")]
      BY <2>1, MainLatest DEF log_fill, Undone, Busy, Locked
    <3>2. entries' = [entries EXCEPT ![write_pos] = latest("main")]
      BY <3>1
    <3> QED
      BY <3>1, <3>2 DEF Stopped
  <2>2. CASE ~log_fill("main")
    BY <2>2 DEF WriterNext, signal_handler, log, log_syslog, log_lock, log_push_start,
         log_push_end, Stopped, queueVars
  <2> QED
    BY <2>1, <2>2
<1>12. write_pos' \in Slot
  <2>1. (write_pos + 1) % LOG_QUEUE_COUNT \in Slot
    BY Positions DEF Stopped
  <2> QED
    BY <2>1 DEF WriterNext, signal_handler, log, log_syslog, log_lock, log_push_start,
         log_fill, log_push_end, Stopped, queueVars
<1>13. count' \in Nat /\ (count' = count \/ late)
  <2>1. CASE log_push_start("main")
    BY <2>1 DEF log_push_start, Stopped, Locked
  <2>2. CASE ~log_push_start("main")
    BY <2>2 DEF WriterNext, signal_handler, log, log_syslog, log_lock, log_fill,
         log_push_end, Stopped, queueVars
  <2> QED
    BY <2>1, <2>2
<1>14. queue_mutex' \in {Nobody, "main"} /\ (queue_mutex' = "main" => pc'["main"] \in Locked)
  BY <1>1 DEF WriterNext, signal_handler, log, may_log, log_syslog, log_lock, log_push_start,
         log_fill, log_push_end, goto, Locked, Stopped
<1>15. late => log_thread # "created"
  BY DEF Stopped, late
<1> QED
  BY <1>3, <1>6, <1>7, <1>8, <1>9, <1>10, <1>11, <1>12, <1>13, <1>14, <1>15 DEF Stopped

LEMMA StoppedStep ==
  ASSUME MainCalls, Stopped, stop, [Next]_vars
  PROVE  Stopped'
<1>1. /\ "main" \in Thread /\ "main" \notin Service /\ pc \in [Thread -> MainLabel]
      /\ Service \subseteq Thread
  BY DEF Stopped, Thread
<1>2. CASE \E t \in Thread : WriterNext(t) \/ signal_handler(t)
  BY <1>2, OnlyMainLogs, MainMovesStopped
<1>3. CASE MainNext
  <2>1. /\ pc' = [pc EXCEPT !["main"] = pc'["main"]]
        /\ \/ pc["main"] = "unthread" /\ pc'["main"] = "stopped" /\ threaded_log' = FALSE
           \/ pc["main"] = "join_log" /\ pc'["main"] = "joined" /\ UNCHANGED threaded_log
        /\ UNCHANGED <<queue_mutex, entries, read_pos, write_pos, count, log_thread, syslog, sent>>
    BY <1>1, <1>3
    DEF MainNext, join_services, log_stop_set, log_stop_unthread, join_log, goto, queueVars,
        MainLabel, Undone, Busy
  <2>2. /\ pc' \in [Thread -> MainLabel] /\ \A t \in Service : pc'[t] = "returned"
        /\ pc'["main"] \notin Locked \cup {"lock"} /\ pc["main"] \notin Locked
    BY <1>1, <2>1 DEF Stopped, MainLabel, Locked
  <2>3. late' => late
    BY <2>1 DEF late
  <2> QED
    BY <2>1, <2>2, <2>3 DEF Stopped
<1>4. CASE log_run_start
  <2>1. /\ log_thread = "created" /\ log_thread' = "read_start" /\ threaded_log' = TRUE
        /\ UNCHANGED <<queue_mutex, entries, read_pos, write_pos, count, pc, syslog, sent>>
    BY <1>4 DEF log_run_start, queueVars
  <2>2. pc["main"] \notin Locked \cup {"lock"}
    BY <2>1 DEF Stopped, late
  <2> QED
    BY <2>1, <2>2 DEF Stopped
<1>5. CASE log_run_read_start \/ log_run_go_on \/ UNCHANGED vars
  <2>1. /\ UNCHANGED <<threaded_log, queue_mutex, entries, read_pos, write_pos, count, pc,
                       syslog, sent>>
        /\ \/ log_thread = "read_start" /\ log_thread' = "get_should_stop"
           \/ UNCHANGED log_thread
    BY <1>5 DEF log_run_read_start, log_run_go_on, vars, queueVars
  <2>2. late' <=> late
    BY <2>1 DEF late
  <2> QED
    BY <2>1, <2>2 DEF Stopped, Reading
<1>6. CASE log_run_flush
  <2> DEFINE r == [i \in 1 .. count |-> entries[(read_pos + i - 1) % LOG_QUEUE_COUNT]]
  <2>1. /\ syslog' = syslog \o Reverse(r)
        /\ log_thread' = "returned"
        /\ UNCHANGED <<threaded_log, queue_mutex, entries, read_pos, write_pos, count, pc, sent>>
    BY <1>6 DEF log_run_flush, queueVars
  <2>2. late' <=> late
    BY <2>1 DEF late
  <2>3. syslog' \in Seq(Line)
    <3>1. ASSUME NEW i \in 1 .. count
          PROVE  entries[(read_pos + i - 1) % LOG_QUEUE_COUNT] \in Line
      <4>1. i - 1 \in Nat /\ (read_pos + i) - 1 = read_pos + (i - 1) /\ read_pos \in Slot
        BY DEF Stopped, Slot
      <4>2. (read_pos + (i - 1)) % LOG_QUEUE_COUNT \in Slot
        BY <4>1, Positions
      <4> QED
        BY <4>1, <4>2 DEF Stopped
    <3>2. r \in Seq(Line) /\ count \in Nat
      BY <3>1 DEF Stopped
    <3> HIDE DEF r
    <3>3. Reverse(r) \in Seq(Line)
      BY <3>2 DEF Reverse
    <3> QED
      BY <2>1, <3>3 DEF Stopped
  <2> QED
    BY <2>1, <2>2, <2>3 DEF Stopped, Reading
<1>7. CASE log_run_syslog
  <2>1. /\ log_thread = "read_get" /\ log_thread' = "read_stop_dump"
        /\ syslog' = Append(syslog, entries[read_pos])
        /\ UNCHANGED <<threaded_log, queue_mutex, entries, read_pos, write_pos, count, pc, sent>>
    BY <1>7 DEF log_run_syslog, queueVars
  <2>2. late' <=> late
    BY <2>1 DEF late
  <2>3. entries[read_pos] \in Line
    BY DEF Stopped
  <2>4. syslog' \in Seq(Line)
    BY <2>1, <2>3 DEF Stopped
  <2> QED
    BY <2>1, <2>2, <2>4 DEF Stopped, Reading
<1>8. CASE log_run_read_stop_dump
  <2>1. /\ log_thread = "read_stop_dump" /\ log_thread' = "read_start"
        /\ read_pos' = (read_pos + 1) % LOG_QUEUE_COUNT /\ count' = count - 1
        /\ UNCHANGED <<threaded_log, queue_mutex, entries, write_pos, pc, syslog, sent>>
    BY <1>8 DEF log_run_read_stop_dump
  <2>2. late' <=> late
    BY <2>1 DEF late
  <2>3. read_pos' \in Slot
    BY <2>1, Positions DEF Stopped
  <2> QED
    BY <2>1, <2>2, <2>3 DEF Stopped
<1> QED
  BY <1>2, <1>3, <1>4, <1>5, <1>6, <1>7, <1>8 DEF Next, LogThreadNext

-------------------------------------------------------------------------------
(* What the steps after log_stop do to the lines: none gets lost, none comes *)
(* twice.                                                                    *)

Conserved(l) == /\ Single(l) => Single(l)'
                /\ l \in Logged \cup Rest <=> l \in Logged' \cup Rest'

LEMMA SettledSame ==
  ASSUME Exact, TallyLeft,
         \A u \in Thread : /\ done(u)' = done(u)
                           /\ \A n \in 1 .. done(u) : sent'[u][n] = sent[u][n],
         \A u \in Thread : done(u) \in Int,
         \A u \in Thread, n \in Nat \ {0} : Conserved(text(u, n)),
         Len(syslog') + left' - from' = Len(syslog) + left - from
  PROVE  Exact' /\ TallyLeft'
<1>1. ASSUME NEW u \in Thread, NEW n \in Nat \ {0}
      PROVE  /\ Single(text(u, n))'
             /\ n <= done(u)' /\ sent'[u][n] = "info" => text(u, n) \in Logged' \cup Rest'
             /\ n > done(u)' => text(u, n) \notin Logged' \cup Rest'
  <2>1. /\ Single(text(u, n))
        /\ n <= done(u) /\ sent[u][n] = "info" => text(u, n) \in Logged \cup Rest
        /\ n > done(u) => text(u, n) \notin Logged \cup Rest
    BY DEF Exact
  <2>2. Single(text(u, n)) => Single(text(u, n))'
    BY DEF Conserved
  <2>3. text(u, n) \in Logged \cup Rest <=> text(u, n) \in Logged' \cup Rest'
    BY DEF Conserved
  <2>4. n <= done(u) => n \in 1 .. done(u)
    OBVIOUS
  <2> QED
    BY <2>1, <2>2, <2>3, <2>4
<1>2. \A u, n : text(u, n)' = text(u, n)
  BY DEF text
<1>3. Exact'
  BY <1>1, <1>2 DEF Exact
<1>4. TallyLeft'
  BY DeliveredSame DEF TallyLeft
<1> QED
  BY <1>3, <1>4

LEMMA NothingMoved ==
  ASSUME UNCHANGED <<entries, read_pos, syslog, from, left>>
  PROVE  \A l : Conserved(l)
<1>1. Logged' = Logged /\ Rest' = Rest
  BY DEF Logged, Rest, at
<1>2. ASSUME NEW l PROVE Single(l) => Single(l)'
  BY <1>1 DEF Single, at
<1> QED
  BY <1>1, <1>2 DEF Conserved

(* Main's own line.                                                          *)
LEMMA LineAdded ==
  ASSUME syslog \in Seq(Line), NEW e \in Line, syslog' = Append(syslog, e),
         UNCHANGED <<entries, read_pos, from, left>>
  PROVE  /\ Logged' \cup Rest' = Logged \cup Rest \cup {e}
         /\ \A l : Single(l) /\ (l = e => l \notin Logged \cup Rest) => Single(l)'
<1>1. /\ Logged' = Logged \cup {e}
      /\ Len(syslog) \in Nat
      /\ DOMAIN syslog = 1 .. Len(syslog)
      /\ DOMAIN syslog' = 1 .. Len(syslog) + 1
      /\ \A k \in 1 .. Len(syslog) : syslog'[k] = syslog[k]
      /\ syslog'[Len(syslog) + 1] = e
  BY OneMoreLine
<1>2. Rest' = Rest /\ \A i : at(i)' = at(i)
  BY DEF Rest, at
<1>3. ASSUME NEW l, Single(l), l = e => l \notin Logged \cup Rest
      PROVE  Single(l)'
  <2>1. ASSUME NEW i \in DOMAIN syslog', NEW j \in DOMAIN syslog',
               syslog'[i] = l, syslog'[j] = l
        PROVE  i = j
    <3>1. CASE l = e
      <4>1. ASSUME NEW k \in DOMAIN syslog', syslog'[k] = l PROVE k = Len(syslog) + 1
        <5>1. SUFFICES ASSUME k \in 1 .. Len(syslog) PROVE FALSE
          BY <1>1
        <5>2. syslog[k] \in Logged /\ syslog[k] = l
          BY <1>1, <4>1, <5>1 DEF Logged
        <5> QED
          BY <1>3, <3>1, <5>2
      <4> QED
        BY <2>1, <4>1
    <3>2. CASE l # e
      <4>1. i \in 1 .. Len(syslog) /\ j \in 1 .. Len(syslog)
        BY <1>1, <2>1, <3>2
      <4>2. syslog[i] = l /\ syslog[j] = l
        BY <1>1, <2>1, <4>1
      <4> QED
        BY <1>1, <1>3, <4>1, <4>2 DEF Single
    <3> QED
      BY <3>1, <3>2
  <2>2. \A i, j \in from' .. left' - 1 : at(i)' = l /\ at(j)' = l => i = j
    BY <1>2, <1>3 DEF Single
  <2>3. ~(l \in Logged' /\ l \in Rest')
    BY <1>1, <1>2, <1>3 DEF Single
  <2> QED
    BY <2>1, <2>2, <2>3 DEF Single
<1> QED
  BY <1>1, <1>2, <1>3

(* log_run writes the first of the lines that are left.                      *)
LEMMA FirstMoved ==
  ASSUME syslog \in Seq(Line), entries \in [Slot -> Line], read_pos \in Slot,
         from = 0, from' = 1, left \in Nat, left > 0,
         UNCHANGED <<entries, read_pos, left>>, syslog' = Append(syslog, entries[read_pos])
  PROVE  \A l : Conserved(l)
<1> DEFINE e == at(0)
<1>1. e = entries[read_pos] /\ e \in Line
  BY FirstEntry
<1>2. /\ Logged' = Logged \cup {e}
      /\ Len(syslog) \in Nat
      /\ DOMAIN syslog = 1 .. Len(syslog)
      /\ DOMAIN syslog' = 1 .. Len(syslog) + 1
      /\ \A k \in 1 .. Len(syslog) : syslog'[k] = syslog[k]
      /\ syslog'[Len(syslog) + 1] = e
  <2>1. syslog' = Append(syslog, e)
    BY <1>1
  <2> HIDE DEF e
  <2> QED
    BY <1>1, <2>1, OneMoreLine
<1>3. \A i : at(i)' = at(i)
  BY DEF at
<1>4. 0 \in from .. left - 1 /\ \A i \in from' .. left' - 1 : i \in from .. left - 1 /\ i # 0
  OBVIOUS
<1>5. \A i \in from .. left - 1 : i = 0 \/ i \in from' .. left' - 1
  OBVIOUS
<1>6. e \in Rest /\ Rest' \subseteq Rest /\ Rest = Rest' \cup {e}
  <2>1. Rest' = {at(i) : i \in from' .. left' - 1}
    BY <1>3 DEF Rest
  <2> QED
    BY <1>4, <1>5, <2>1 DEF Rest
<1>7. ASSUME NEW l, Single(l) PROVE Single(l)'
  <2>1. ASSUME NEW i \in DOMAIN syslog', NEW j \in DOMAIN syslog',
               syslog'[i] = l, syslog'[j] = l
        PROVE  i = j
    <3>1. CASE l = e
      <4>1. ASSUME NEW k \in DOMAIN syslog', syslog'[k] = l PROVE k = Len(syslog) + 1
        <5>1. SUFFICES ASSUME k \in 1 .. Len(syslog) PROVE FALSE
          BY <1>2
        <5>2. syslog[k] \in Logged /\ syslog[k] = l
          BY <1>2, <4>1, <5>1 DEF Logged
        <5>3. l \in Logged /\ l \in Rest
          BY <1>6, <3>1, <5>2
        <5> QED
          BY <1>7, <5>3 DEF Single
      <4> QED
        BY <2>1, <4>1
    <3>2. CASE l # e
      <4> HIDE DEF e
      <4>1. i \in 1 .. Len(syslog) /\ j \in 1 .. Len(syslog)
        BY <1>2, <2>1, <3>2
      <4>2. syslog[i] = l /\ syslog[j] = l
        BY <1>2, <2>1, <4>1
      <4> QED
        BY <1>2, <1>7, <4>1, <4>2 DEF Single
    <3> QED
      BY <3>1, <3>2
  <2>2. ASSUME NEW i \in from' .. left' - 1, NEW j \in from' .. left' - 1,
               at(i)' = l, at(j)' = l
        PROVE  i = j
    <3>1. /\ i \in from .. left - 1 /\ j \in from .. left - 1
          /\ at(i) = l /\ at(j) = l
      BY <1>3, <1>4, <2>2
    <3> QED
      BY <1>7, <3>1 DEF Single
  <2>3. ASSUME l \in Logged', l \in Rest' PROVE FALSE
    <3>1. l = e
      <4> HIDE DEF e
      <4> QED
        BY <1>2, <1>6, <1>7, <2>3 DEF Single
    <3>2. PICK i \in from' .. left' - 1 : l = at(i)
      BY <1>3, <2>3 DEF Rest
    <3>3. i \in from .. left - 1 /\ i # 0 /\ 0 \in from .. left - 1 /\ at(0) = l /\ at(i) = l
      BY <1>4, <3>1, <3>2
    <3> QED
      BY <1>7, <3>3 DEF Single
  <2> QED
    BY <2>1, <2>2, <2>3 DEF Single
<1> HIDE DEF e
<1>8. Logged' \cup Rest' = Logged \cup Rest
  BY <1>2, <1>6
<1> QED
  BY <1>7, <1>8 DEF Conserved

LEMMA AtShifted ==
  ASSUME read_pos \in Slot, read_pos' = (read_pos + 1) % LOG_QUEUE_COUNT, UNCHANGED entries
  PROVE  \A i \in Nat : at(i)' = at(i + 1)
<1>1. LOG_QUEUE_COUNT \in Nat \ {0} /\ read_pos \in Nat
  BY DEF Slot
<1>2. ASSUME NEW i \in Nat
      PROVE  (read_pos' + i) % LOG_QUEUE_COUNT = (read_pos + (i + 1)) % LOG_QUEUE_COUNT
  <2> DEFINE a == read_pos + 1
  <2>1. a \in Nat /\ i \in Int /\ a + i = read_pos + (i + 1)
    BY <1>1
  <2>2. read_pos' = a % LOG_QUEUE_COUNT
    OBVIOUS
  <2> HIDE DEF a
  <2>3. ((a % LOG_QUEUE_COUNT) + i) % LOG_QUEUE_COUNT = (a + i) % LOG_QUEUE_COUNT
    BY <1>1, <2>1, ModPlus
  <2> QED
    BY <2>1, <2>2, <2>3
<1> QED
  BY <1>2 DEF at

(* log_run gives its entry back.                                             *)
LEMMA EntryGivenBack ==
  ASSUME from = 1, from' = 0, left \in Nat, left' = left - 1,
         \A i \in Nat : at(i)' = at(i + 1), UNCHANGED syslog
  PROVE  \A l : Conserved(l)
<1>1. \A i \in from' .. left' - 1 : i + 1 \in from .. left - 1 /\ at(i)' = at(i + 1)
  OBVIOUS
<1>2. \A i \in from .. left - 1 : i - 1 \in from' .. left' - 1 /\ (i - 1) + 1 = i
  OBVIOUS
<1>3. Logged' = Logged
  BY DEF Logged
<1>4. Rest' = Rest
  <2>1. ASSUME NEW w \in Rest' PROVE w \in Rest
    <3>1. PICK i \in from' .. left' - 1 : w = at(i)'
      BY DEF Rest
    <3> QED
      BY <1>1, <3>1 DEF Rest
  <2>2. ASSUME NEW w \in Rest PROVE w \in Rest'
    <3>1. PICK i \in from .. left - 1 : w = at(i)
      BY DEF Rest
    <3>2. i - 1 \in from' .. left' - 1 /\ at(i - 1)' = w
      BY <1>1, <1>2, <3>1
    <3> QED
      BY <3>2 DEF Rest
  <2> QED
    BY <2>1, <2>2
<1>5. ASSUME NEW l, Single(l) PROVE Single(l)'
  <2>1. ASSUME NEW i \in from' .. left' - 1, NEW j \in from' .. left' - 1,
               at(i)' = l, at(j)' = l
        PROVE  i = j
    <3>1. i + 1 \in from .. left - 1 /\ j + 1 \in from .. left - 1
          /\ at(i + 1) = l /\ at(j + 1) = l
      BY <1>1, <2>1
    <3>2. i + 1 = j + 1
      BY <1>5, <3>1 DEF Single
    <3> QED
      BY <3>2
  <2> QED
    BY <1>3, <1>4, <1>5, <2>1 DEF Single
<1> QED
  BY <1>3, <1>4, <1>5 DEF Conserved

(* log_run writes all that is left, the newest first.                        *)
LEMMA AllWritten ==
  ASSUME Stopped, log_run_flush
  PROVE  /\ Len(syslog') = Len(syslog) + count
         /\ DOMAIN syslog = 1 .. Len(syslog) /\ Len(syslog) \in Nat
         /\ DOMAIN syslog' = 1 .. Len(syslog) + count
         /\ \A k \in 1 .. Len(syslog) : syslog'[k] = syslog[k]
         /\ \A k \in 1 .. count : syslog'[Len(syslog) + k] = at(count - k)
         /\ count \in Nat /\ from = 0 /\ from' = 0 /\ left = count /\ left' = 0
<1> DEFINE r == [i \in 1 .. count |-> entries[(read_pos + i - 1) % LOG_QUEUE_COUNT]]
           q == Reverse(r)
<1>1. /\ log_thread = "get_should_stop" /\ log_thread' = "returned"
      /\ syslog' = syslog \o q /\ count \in Nat /\ syslog \in Seq(Line) /\ read_pos \in Nat
  BY DEF log_run_flush, Stopped, Slot
<1>2. /\ from = 0 /\ from' = 0 /\ left = count /\ left' = 0
  BY <1>1 DEF from, left
<1>3. ASSUME NEW i \in 1 .. count PROVE r[i] = at(i - 1) /\ r[i] \in Line
  <2>1. (read_pos + i) - 1 = read_pos + (i - 1) /\ i - 1 \in Nat
    BY <1>1
  <2>2. (read_pos + (i - 1)) % LOG_QUEUE_COUNT \in Slot
    BY <2>1, Positions DEF Stopped
  <2> QED
    BY <2>1, <2>2 DEF at, Stopped
<1>4. r \in Seq(Line) /\ Len(r) = count
  <2>1. /\ r \in [1 .. count -> Line] /\ DOMAIN r = 1 .. count
    BY <1>3
  <2> HIDE DEF r
  <2> QED
    BY <1>1, <2>1
<1> HIDE DEF r
<1>5. /\ q \in Seq(Line) /\ Len(q) = count
      /\ \A k \in 1 .. count : q[k] = r[count - k + 1]
  <2>1. q = [i \in 1 .. count |-> r[(count - i) + 1]]
    BY <1>4 DEF Reverse
  <2> HIDE DEF q
  <2>2. \A i \in 1 .. count : (count - i) + 1 \in 1 .. count
    BY <1>1
  <2> QED
    BY <1>1, <1>4, <2>1, <2>2
<1> HIDE DEF q
<1>6. \A k \in 1 .. count : q[k] = at(count - k)
  <2>1. ASSUME NEW k \in 1 .. count PROVE q[k] = at(count - k)
    <3>1. count - k + 1 \in 1 .. count /\ (count - k + 1) - 1 = count - k
      BY <1>1
    <3> QED
      BY <1>3, <1>5, <3>1
  <2> QED
    BY <2>1
<1>7. /\ Len(syslog') = Len(syslog) + count
      /\ DOMAIN syslog = 1 .. Len(syslog) /\ Len(syslog) \in Nat
      /\ DOMAIN syslog' = 1 .. Len(syslog) + count
      /\ \A k \in 1 .. Len(syslog) : syslog'[k] = syslog[k]
      /\ \A k \in 1 .. count : syslog'[Len(syslog) + k] = q[k]
  BY <1>1, <1>5
<1> QED
  BY <1>1, <1>2, <1>6, <1>7

LEMMA AllMoved ==
  ASSUME Stopped, log_run_flush
  PROVE  \A l : Conserved(l)
<1> DEFINE n == Len(syslog)
<1>1. /\ DOMAIN syslog = 1 .. n /\ n \in Nat
      /\ DOMAIN syslog' = 1 .. n + count
      /\ \A k \in 1 .. n : syslog'[k] = syslog[k]
      /\ \A k \in 1 .. count : syslog'[n + k] = at(count - k)
      /\ count \in Nat /\ from = 0 /\ from' = 0 /\ left = count /\ left' = 0
  BY AllWritten
<1> HIDE DEF n
<1>2. \A k \in 1 .. n + count :
        k \in 1 .. n \/ (k - n \in 1 .. count /\ n + (k - n) = k)
  BY <1>1
<1>3. ASSUME NEW k \in 1 .. n + count, k \notin 1 .. n
      PROVE  /\ count - (k - n) \in from .. left - 1
             /\ syslog'[k] = at(count - (k - n)) /\ syslog'[k] \in Rest
  <2>1. k - n \in 1 .. count /\ n + (k - n) = k
    BY <1>2, <1>3
  <2>2. count - (k - n) \in from .. left - 1
    BY <1>1, <2>1
  <2>3. syslog'[k] = at(count - (k - n))
    BY <1>1, <2>1
  <2> QED
    BY <2>2, <2>3 DEF Rest
<1>4. Rest' = {}
  BY <1>1 DEF Rest
<1>5. ASSUME NEW l \in Logged' PROVE l \in Logged \cup Rest
  <2>1. PICK k \in 1 .. n + count : l = syslog'[k]
    BY <1>1 DEF Logged
  <2>2. CASE k \in 1 .. n
    BY <1>1, <2>1, <2>2 DEF Logged
  <2>3. CASE k \notin 1 .. n
    BY <1>3, <2>1, <2>3
  <2> QED
    BY <2>2, <2>3
<1>6. ASSUME NEW l \in Logged PROVE l \in Logged'
  <2>1. PICK k \in 1 .. n : l = syslog[k]
    BY <1>1 DEF Logged
  <2>2. k \in 1 .. n + count /\ l = syslog'[k]
    BY <1>1, <2>1
  <2> QED
    BY <1>1, <2>2 DEF Logged
<1>7. ASSUME NEW l \in Rest PROVE l \in Logged'
  <2>1. PICK i \in from .. left - 1 : l = at(i)
    BY DEF Rest
  <2>2. /\ count - i \in 1 .. count /\ count - (count - i) = i
        /\ n + (count - i) \in 1 .. n + count
    BY <1>1, <2>1
  <2>3. l = syslog'[n + (count - i)]
    BY <1>1, <2>1, <2>2
  <2> QED
    BY <1>1, <2>2, <2>3 DEF Logged
<1>8. ASSUME NEW l, Single(l), NEW i \in 1 .. n + count, NEW j \in 1 .. n + count,
             syslog'[i] = l, syslog'[j] = l
      PROVE  i = j
  <2>1. CASE i \in 1 .. n /\ j \in 1 .. n
    BY <1>1, <1>8, <2>1 DEF Single
  <2>2. CASE i \notin 1 .. n /\ j \notin 1 .. n
    <3>1. /\ count - (i - n) \in from .. left - 1 /\ at(count - (i - n)) = l
          /\ count - (j - n) \in from .. left - 1 /\ at(count - (j - n)) = l
      BY <1>3, <1>8, <2>2
    <3>2. count - (i - n) = count - (j - n)
      BY <1>8, <3>1 DEF Single
    <3> QED
      BY <1>1, <3>2
  <2>3. ASSUME NEW a \in 1 .. n, NEW b \in 1 .. n + count, b \notin 1 .. n,
               syslog'[a] = l, syslog'[b] = l
        PROVE  FALSE
    <3>1. l \in Logged
      BY <1>1, <2>3 DEF Logged
    <3>2. l \in Rest
      BY <1>3, <2>3
    <3> QED
      BY <1>8, <3>1, <3>2 DEF Single
  <2> QED
    BY <1>8, <2>1, <2>2, <2>3
<1>9. ASSUME NEW l, Single(l) PROVE Single(l)'
  <2>1. from' .. left' - 1 = {}
    BY <1>1
  <2> QED
    BY <1>1, <1>4, <1>8, <1>9, <2>1 DEF Single
<1> QED
  BY <1>4, <1>5, <1>6, <1>7, <1>9 DEF Conserved

LEMMA DoneFinishing ==
  ASSUME MainCalls, Stopped
  PROVE  \A u \in Thread : done(u) \in Nat /\ num(u) \in Nat
<1>1. ASSUME NEW u \in Thread PROVE num(u) \in Nat
  BY DEF Stopped, num
<1>2. ASSUME NEW u \in Service PROVE done(u) = num(u)
  BY DEF Stopped, done, Undone, Busy
<1>3. done("main") \in Nat
  <2>1. num("main") \in Nat
    BY <1>1 DEF Thread
  <2> QED
    BY <2>1 DEF MainCalls, done
<1> QED
  BY <1>1, <1>2, <1>3 DEF Thread

(* The steps by which main gets on without a line of its own.                *)
LEMMA MainMovesSettled ==
  ASSUME MainCalls, Stopped, ~late, Exact, TallyLeft, stop,
         \/ log("main") \/ MainNext
  PROVE  Exact' /\ TallyLeft'
<1>1. /\ "main" \in Thread /\ "main" \notin Service /\ pc \in [Thread -> MainLabel]
      /\ sent \in [Thread -> Seq(Level)] /\ Service \subseteq Thread
  BY DEF Stopped, Thread
<1>2. UNCHANGED <<entries, read_pos, syslog, count, log_thread>>
  BY <1>1 DEF log, MainNext, join_services, log_stop_set, log_stop_unthread, join_log,
              queueVars, MainLabel, Undone, Busy, Stopped
<1>3. UNCHANGED <<from, left>>
  BY <1>2 DEF from, left
<1>4. \A u \in Service : pc'[u] = pc[u] /\ sent'[u] = sent[u]
  BY <1>1 DEF log, MainNext, join_services, log_stop_set, log_stop_unthread, join_log, goto
<1>5. done("main")' = done("main") /\ \A n \in 1 .. done("main") : sent'["main"][n] = sent["main"][n]
  <2>1. CASE log("main")
    <3>1. /\ pc["main"] \in {"stopped", "joined"} /\ pc'["main"] \in {"lock", "syslog"}
          /\ sent'["main"] = Append(sent["main"], "info")
      BY <1>1, <2>1 DEF log, may_log, goto
    <3>2. sent["main"] \in Seq(Level) /\ num("main") \in Nat
      BY <1>1, DoneFinishing
    <3>3. num("main")' = num("main") + 1
          /\ \A n \in 1 .. num("main") : sent'["main"][n] = sent["main"][n]
      BY <3>1, <3>2 DEF num
    <3>4. done("main") = num("main") /\ done("main")' = num("main")
      BY <3>1, <3>2, <3>3 DEF done, Undone, Busy
    <3> QED
      BY <3>3, <3>4
  <2>2. CASE MainNext
    <3>1. /\ pc["main"] \in {"unthread", "join_log"} /\ pc'["main"] \in {"stopped", "joined"}
          /\ UNCHANGED sent
      BY <1>1, <2>2
      DEF MainNext, join_services, log_stop_set, log_stop_unthread, join_log, goto,
          MainLabel, Undone, Busy
    <3> QED
      BY <3>1 DEF done, num, Undone, Busy
  <2> QED
    BY <2>1, <2>2
<1>6. \A u \in Thread : /\ done(u)' = done(u)
                        /\ \A n \in 1 .. done(u) : sent'[u][n] = sent[u][n]
  <2>1. \A u \in Service : done(u)' = done(u)
    BY <1>4 DEF done, num
  <2> QED
    BY <1>4, <1>5, <2>1 DEF Thread
<1>7. \A l : Conserved(l)
  BY <1>2, <1>3, NothingMoved
<1>8. \A u \in Thread : done(u) \in Int
  BY DoneFinishing
<1> QED
  BY <1>2, <1>3, <1>6, <1>7, <1>8, SettledSame

LEMMA MainSyslogSettled ==
  ASSUME MainCalls, Stopped, Exact, TallyLeft, log_syslog("main")
  PROVE  Exact' /\ TallyLeft'
<1> DEFINE e == latest("main")
<1>1. /\ "main" \in Thread /\ "main" \notin Service /\ pc \in [Thread -> MainLabel]
      /\ sent \in [Thread -> Seq(Level)] /\ Service \subseteq Thread
  BY DEF Stopped, Thread
<1>2. /\ pc["main"] = "syslog" /\ syslog' = Append(syslog, e)
      /\ pc' = [pc EXCEPT !["main"] = resume("main")]
      /\ UNCHANGED <<entries, read_pos, count, log_thread, sent>>
  BY DEF log_syslog, goto, queueVars
<1>3. /\ e = text("main", num("main")) /\ e \in Line
      /\ num("main") \in 1 .. 2
  BY <1>2, MainLatest DEF Undone, Busy, MainCalls
<1> HIDE DEF e
<1>4. UNCHANGED <<from, left>>
  BY <1>2 DEF from, left
<1>5. pc'["main"] \notin Undone
  BY <1>1, <1>2, <1>3, MainResumes DEF Undone, Busy
<1>6. done("main") = num("main") - 1 /\ done("main")' = num("main")
  BY <1>2, <1>5 DEF done, Undone, Busy, num
<1>7. \A u \in Service : done(u)' = done(u)
  BY <1>1, <1>2 DEF done, num
<1>8. /\ Logged' \cup Rest' = Logged \cup Rest \cup {e}
      /\ \A l : Single(l) /\ (l = e => l \notin Logged \cup Rest) => Single(l)'
  BY <1>2, <1>3, <1>4, LineAdded DEF Stopped
<1>9. e \notin Logged \cup Rest
  <2>1. num("main") \in Nat \ {0} /\ num("main") > done("main")
    BY <1>3, <1>6
  <2> QED
    BY <1>1, <1>3, <2>1 DEF Exact
<1>10. \A u, n : text(u, n)' = text(u, n) /\ (text(u, n) = e => u = "main" /\ n = num("main"))
  BY <1>3 DEF text
<1>11. ASSUME NEW u \in Thread, NEW n \in Nat \ {0}
       PROVE  /\ Single(text(u, n))'
              /\ n <= done(u)' /\ sent[u][n] = "info" => text(u, n) \in Logged' \cup Rest'
              /\ n > done(u)' => text(u, n) \notin Logged' \cup Rest'
  <2>1. /\ Single(text(u, n))
        /\ n <= done(u) /\ sent[u][n] = "info" => text(u, n) \in Logged \cup Rest
        /\ n > done(u) => text(u, n) \notin Logged \cup Rest
    BY DEF Exact
  <2>2. Single(text(u, n))'
    BY <1>8, <1>9, <2>1
  <2>3. CASE u = "main" /\ n = num("main")
    BY <1>3, <1>6, <1>8, <2>2, <2>3
  <2>4. CASE ~(u = "main" /\ n = num("main"))
    <3>1. text(u, n) # e
      BY <1>10, <2>4
    <3>2. n <= done(u)' => n <= done(u)
      <4>1. CASE u = "main"
        BY <1>3, <1>6, <2>4, <4>1
      <4>2. CASE u # "main"
        BY <1>7, <4>2 DEF Thread
      <4> QED
        BY <4>1, <4>2
    <3>3. n > done(u)' => n > done(u)
      <4>1. CASE u = "main"
        BY <1>3, <1>6, <4>1
      <4>2. CASE u # "main"
        BY <1>7, <4>2 DEF Thread
      <4> QED
        BY <4>1, <4>2
    <3> QED
      BY <1>8, <2>1, <2>2, <3>1, <3>2, <3>3
  <2> QED
    BY <2>3, <2>4
<1>12. Exact'
  BY <1>2, <1>10, <1>11 DEF Exact
<1>13. TallyLeft'
  <2>1. /\ done("main") \in Nat /\ done("main")' = done("main") + 1
        /\ \A u \in Thread : u # "main" => done(u)' = done(u)
    BY <1>3, <1>6, <1>7 DEF Thread
  <2>2. /\ IsFiniteSet(Delivered') /\ Cardinality(Delivered) \in Nat
        /\ Cardinality(Delivered') = Cardinality(Delivered) + 1
    BY <1>1, <2>1, DeliveredMore DEF TallyLeft
  <2>3. Len(syslog) \in Nat /\ Len(syslog') = Len(syslog) + 1
    BY <1>2, <1>3, OneMoreLine DEF Stopped
  <2>4. left \in Nat /\ from \in Nat
    BY DEF left, from, Stopped
  <2> QED
    BY <1>4, <2>2, <2>3, <2>4 DEF TallyLeft
<1> QED
  BY <1>12, <1>13

(* The log thread neither loses a line nor writes one twice.                 *)
LEMMA LogThreadSettled ==
  ASSUME MainCalls, Stopped, stop, Exact, TallyLeft, LogThreadNext \/ UNCHANGED vars
  PROVE  Exact' /\ TallyLeft'
<1>1. \A u \in Thread : /\ done(u)' = done(u) /\ sent'[u] = sent[u] /\ done(u) \in Int
  <2>1. UNCHANGED <<pc, sent>>
    BY DEF LogThreadNext, log_run_start, log_run_read_start, log_run_go_on, log_run_flush,
           log_run_syslog, log_run_read_stop_dump, vars
  <2> QED
    BY <2>1, DoneFinishing DEF done, num
<1>2. left \in Nat /\ Len(syslog) \in Nat /\ from \in Nat
  BY DEF left, from, Stopped
<1>3. CASE log_run_start \/ log_run_read_start \/ UNCHANGED vars
  <2>1. UNCHANGED <<entries, read_pos, syslog, from, left>>
    BY <1>3 DEF log_run_start, log_run_read_start, vars, queueVars, from, left
  <2> QED
    BY <1>1, <2>1, NothingMoved, SettledSame
<1>4. CASE log_run_flush
  <2>1. Len(syslog') + left' - from' = Len(syslog) + left - from
    BY <1>2, <1>4, AllWritten
  <2> QED
    BY <1>1, <1>4, <2>1, AllMoved, SettledSame
<1>5. CASE log_run_syslog
  <2>1. /\ log_thread = "read_get" /\ log_thread' = "read_stop_dump"
        /\ syslog' = Append(syslog, entries[read_pos])
        /\ UNCHANGED <<entries, read_pos, count>>
    BY <1>5 DEF log_run_syslog, queueVars
  <2>2. from = 0 /\ from' = 1 /\ left > 0 /\ left' = left
    BY <2>1 DEF from, left, Stopped
  <2>3. \A l : Conserved(l)
    BY <1>2, <2>1, <2>2, FirstMoved DEF Stopped
  <2>4. Len(syslog') = Len(syslog) + 1
    BY <2>1 DEF Stopped
  <2> QED
    BY <1>1, <1>2, <2>2, <2>3, <2>4, SettledSame
<1>6. CASE log_run_read_stop_dump
  <2>1. /\ log_thread = "read_stop_dump" /\ log_thread' = "read_start"
        /\ read_pos' = (read_pos + 1) % LOG_QUEUE_COUNT /\ count' = count - 1
        /\ UNCHANGED <<entries, syslog>>
    BY <1>6 DEF log_run_read_stop_dump
  <2>2. from = 1 /\ from' = 0 /\ left' = left - 1
    BY <2>1 DEF from, left
  <2>3. \A i \in Nat : at(i)' = at(i + 1)
    BY <2>1, AtShifted DEF Stopped
  <2>4. \A l : Conserved(l)
    BY <1>2, <2>1, <2>2, <2>3, EntryGivenBack
  <2> QED
    BY <1>1, <1>2, <2>1, <2>2, <2>4, SettledSame
<1> QED
  BY <1>3, <1>4, <1>5, <1>6 DEF LogThreadNext, log_run_go_on

(* The steps of main, seen from its pc.                                      *)
LEMMA MainStays ==
  ASSUME MainCalls, Stopped, stop, [Next]_vars
  PROVE  /\ \/ pc' = pc
            \/ pc'["main"] # "unthread" /\ (pc["main"] = "unthread" => ~threaded_log')
         /\ \/ UNCHANGED threaded_log
            \/ log_run_start /\ threaded_log'
            \/ pc["main"] = "unthread" /\ ~threaded_log'
<1>1. "main" \in Thread /\ pc \in [Thread -> MainLabel]
  BY DEF Stopped, Thread
<1>2. CASE \E t \in Thread : WriterNext(t) \/ signal_handler(t)
  <2>1. (WriterNext("main") \/ signal_handler("main")) /\ ~service_returns("main")
    BY <1>2, OnlyMainLogs
  <2>2. UNCHANGED threaded_log /\ pc["main"] # "unthread"
    BY <2>1 DEF WriterNext, signal_handler, log, may_log, log_syslog, log_lock,
                log_push_start, log_fill, log_push_end, Stopped, Locked
  <2>3. CASE log_syslog("main") \/ log_push_end("main")
    <3>1. pc["main"] \in Undone /\ pc'["main"] = resume("main")
      BY <1>1, <2>3 DEF log_syslog, log_push_end, goto, Undone, Busy
    <3> QED
      BY <2>2, <3>1, MainResumes DEF MainCalls
  <2>4. CASE ~(log_syslog("main") \/ log_push_end("main"))
    <3>1. pc'["main"] \in Undone
      BY <1>1, <2>1, <2>4
      DEF WriterNext, signal_handler, log, log_lock, log_push_start, log_fill, goto,
          Undone, Busy
    <3> QED
      BY <2>2, <3>1 DEF Undone, Busy
  <2> QED
    BY <2>3, <2>4
<1>3. CASE MainNext
  BY <1>1, <1>3 DEF MainNext, join_services, log_stop_set, log_stop_unthread, join_log, goto,
                    MainLabel, Undone, Busy
<1>4. CASE LogThreadNext \/ UNCHANGED vars
  BY <1>4 DEF LogThreadNext, log_run_start, log_run_read_start, log_run_go_on,
              log_run_flush, log_run_syslog, log_run_read_stop_dump, vars
<1> QED
  BY <1>2, <1>3, <1>4 DEF Next

LEMMA SettledStep ==
  ASSUME MainCalls, Stopped, Settled, stop, [Next]_vars
  PROVE  Settled'
<1> SUFFICES ASSUME ~late' PROVE Exact' /\ TallyLeft'
  BY DEF Settled
<1>1. ~late
  BY MainStays DEF late
<1>2. Exact /\ TallyLeft
  BY <1>1 DEF Settled
<1>3. CASE \E t \in Thread : WriterNext(t) \/ signal_handler(t)
  <2>1. (WriterNext("main") \/ signal_handler("main")) /\ ~service_returns("main")
    BY <1>3, OnlyMainLogs
  <2>2. log("main") \/ log_syslog("main")
    <3>1. pc["main"] \notin Locked \cup {"lock"} /\ queue_mutex # "main"
      BY <1>1 DEF Stopped
    <3> QED
      BY <2>1, <3>1
      DEF WriterNext, signal_handler, log_lock, log_push_start, log_fill, log_push_end, Locked
  <2> QED
    BY <1>1, <1>2, <2>2, MainMovesSettled, MainSyslogSettled
<1>4. CASE MainNext
  BY <1>1, <1>2, <1>4, MainMovesSettled
<1>5. CASE LogThreadNext \/ UNCHANGED vars
  BY <1>2, <1>5, LogThreadSettled
<1> QED
  BY <1>3, <1>4, <1>5 DEF Next

LEMMA OnceKept ==
  ASSUME NEW l, Once(l), NEW n \in Nat, NEW m \in Nat,
         DOMAIN syslog = 1 .. n, DOMAIN syslog' = 1 .. n + m,
         \A k \in 1 .. n : syslog'[k] = syslog[k],
         \A k \in 1 .. m : syslog'[n + k] # l
  PROVE  Once(l)'
<1>0. PICK i \in DOMAIN syslog : \A j \in DOMAIN syslog : syslog[j] = l <=> j = i
  BY Zenon DEF Once
<1>1. i \in 1 .. n /\ \A j \in 1 .. n : syslog[j] = l <=> j = i
  BY <1>0
<1>2. ASSUME NEW j \in 1 .. n + m PROVE syslog'[j] = l <=> j = i
  <2>1. CASE j \in 1 .. n
    BY <1>1, <2>1
  <2>2. CASE j \notin 1 .. n
    <3>1. j - n \in 1 .. m /\ n + (j - n) = j
      BY <2>2
    <3>2. syslog'[n + (j - n)] # l
      BY <3>1
    <3> QED
      BY <1>1, <2>2, <3>1, <3>2
  <2> QED
    BY <2>1, <2>2
<1>3. i \in 1 .. n + m
  OBVIOUS
<1> QED
  BY <1>2, <1>3 DEF Once

(* Whoever is late has been told to stop, and writes no line of a service.   *)
LEMMA NoServiceLine ==
  ASSUME MainCalls, Stopped, SettledLate, late, stop, [Next]_vars,
         NEW t \in Service, NEW n, Once(text(t, n))
  PROVE  Once(text(t, n))'
<1> DEFINE s == Len(syslog)
<1>1. s \in Nat /\ DOMAIN syslog = 1 .. s /\ syslog \in Seq(Line)
  BY DEF Stopped
<1>2. \A u, k : text(u, k)' = text(u, k)
  BY DEF text
<1>3. CASE log_syslog("main")
  <2>1. latest("main") = text("main", num("main")) /\ latest("main") \in Line
    BY <1>3, MainLatest DEF log_syslog, Undone, Busy
  <2>2. latest("main") # text(t, n)
    BY <2>1 DEF text
  <2>3. syslog' = Append(syslog, latest("main"))
    BY <1>3 DEF log_syslog
  <2>4. /\ DOMAIN syslog' = 1 .. s + 1
        /\ \A k \in 1 .. s : syslog'[k] = syslog[k]
        /\ \A k \in 1 .. 1 : syslog'[s + k] # text(t, n)
    BY <1>1, <2>2, <2>3
  <2> HIDE DEF s
  <2> QED
    BY <1>1, <1>2, <2>4, OnceKept
<1>4. CASE log_run_flush
  <2>1. /\ DOMAIN syslog' = 1 .. s + count /\ count \in Nat
        /\ \A k \in 1 .. s : syslog'[k] = syslog[k]
        /\ \A k \in 1 .. count : syslog'[s + k] = at(count - k)
    BY <1>4, AllWritten
  <2> HIDE DEF s
  <2>2. ASSUME NEW k \in 1 .. count PROVE syslog'[s + k] # text(t, n)
    <3>1. count - k \in Nat /\ read_pos \in Slot
      BY <2>1 DEF Stopped
    <3>2. (read_pos + (count - k)) % LOG_QUEUE_COUNT \in Slot
      BY <3>1, Positions
    <3>3. at(count - k).msg[1] \notin Service
      BY <3>2 DEF at, SettledLate
    <3>4. text(t, n).msg[1] = t
      BY DEF text
    <3> QED
      BY <2>1, <3>3, <3>4
  <2> QED
    BY <1>1, <1>2, <2>1, <2>2, OnceKept
<1>5. CASE ~log_syslog("main") /\ ~log_run_flush
  <2>1. UNCHANGED syslog
    <3>1. CASE \E u \in Thread : WriterNext(u) \/ signal_handler(u)
      <4>1. (WriterNext("main") \/ signal_handler("main")) /\ ~service_returns("main")
        BY <3>1, OnlyMainLogs
      <4> QED
        BY <1>5, <4>1 DEF WriterNext, signal_handler, log, log_lock, log_push_start,
                          log_fill, log_push_end
    <3>2. CASE MainNext
      BY <3>2 DEF MainNext, join_services, log_stop_set, log_stop_unthread, join_log
    <3>3. CASE LogThreadNext
      <4>1. log_thread # "read_get"
        BY DEF SettledLate
      <4> QED
        BY <1>5, <3>3, <4>1 DEF LogThreadNext, log_run_start, log_run_read_start,
           log_run_go_on, log_run_syslog, log_run_read_stop_dump
    <3>4. CASE UNCHANGED vars
      BY <3>4 DEF vars
    <3> QED
      BY <3>1, <3>2, <3>3, <3>4 DEF Next
  <2> QED
    BY <1>2, <2>1 DEF Once
<1> QED
  BY <1>3, <1>4, <1>5

(* The log thread starts after log_stop: all the services wrote to syslog.   *)
LEMMA StartsLate ==
  ASSUME MainCalls, Stopped, Settled, log_run_start, late'
  PROVE  SettledLate'
<1>1. /\ log_thread = "created" /\ log_thread' = "read_start"
      /\ UNCHANGED <<entries, read_pos, count, pc, syslog, sent>>
  BY DEF log_run_start, queueVars
<1>2. ~late /\ count = 0 /\ \A s \in Slot : entries[s].msg[1] = Nobody
  BY <1>1 DEF Stopped, late
<1>3. left = 0 /\ from = 0
  BY <1>1, <1>2 DEF left, from
<1>4. Rest = {} /\ Exact
  BY <1>2, <1>3 DEF Rest, Settled
<1>5. ASSUME NEW t \in Service, NEW n \in DOMAIN sent[t], sent[t][n] = "info"
      PROVE  Once(text(t, n))
  <2>1. t \in Thread /\ done(t) = num(t)
    BY DEF Thread, Stopped, done, Undone, Busy
  <2>2. n \in Nat \ {0} /\ n <= done(t)
    BY <2>1 DEF Stopped, num
  <2>3. Single(text(t, n)) /\ text(t, n) \in Logged
    BY <1>4, <1>5, <2>1, <2>2 DEF Exact
  <2>4. PICK i \in DOMAIN syslog : syslog[i] = text(t, n)
    BY <2>3 DEF Logged
  <2>5. \A j \in DOMAIN syslog : syslog[j] = text(t, n) => j = i
    BY <2>3, <2>4 DEF Single
  <2> QED
    BY <2>4, <2>5 DEF Once
<1>6. \A s \in Slot : entries[s].msg[1] \notin Service
  BY <1>2
<1> QED
  BY <1>1, <1>5, <1>6 DEF SettledLate, Once, text

LEMMA SettledLateStep ==
  ASSUME MainCalls, Stopped, Settled, SettledLate, stop, [Next]_vars
  PROVE  SettledLate'
<1> SUFFICES ASSUME late' PROVE SettledLate'
  BY DEF SettledLate
<1>1. CASE late
  <2>1. log_thread' \in {"read_start", "get_should_stop", "returned"}
    <3>1. CASE \E t \in Thread : WriterNext(t) \/ signal_handler(t)
      BY <1>1, <3>1 DEF SettledLate, WriterNext, signal_handler, log, log_syslog, log_lock,
         log_push_start, log_fill, log_push_end, service_returns
    <3>2. CASE MainNext
      BY <1>1, <3>2 DEF SettledLate, MainNext, join_services, log_stop_set,
         log_stop_unthread, join_log
    <3>3. CASE LogThreadNext \/ UNCHANGED vars
      BY <1>1, <3>3 DEF SettledLate, LogThreadNext, log_run_start, log_run_read_start,
         log_run_go_on, log_run_flush, log_run_syslog, log_run_read_stop_dump, vars
    <3> QED
      BY <3>1, <3>2, <3>3 DEF Next
  <2>2. \A s \in Slot : entries'[s].msg[1] \notin Service
    <3>1. CASE log_fill("main")
      <4>1. latest("main").msg[1] \notin Service /\ Last(sent["main"]) # "error"
        <5>1. Last(sent["main"]) = "info" /\ latest("main") = text("main", num("main"))
          BY <3>1, MainLatest DEF log_fill, Undone, Busy
        <5> QED
          BY <5>1 DEF text
      <4>2. entries' = [entries EXCEPT ![write_pos] = latest("main")]
        BY <3>1, <4>1 DEF log_fill
      <4> QED
        BY <1>1, <4>1, <4>2 DEF SettledLate, Stopped
    <3>2. CASE ~log_fill("main")
      <4>1. UNCHANGED entries
        <5>1. CASE \E u \in Thread : WriterNext(u) \/ signal_handler(u)
          <6>1. (WriterNext("main") \/ signal_handler("main")) /\ ~service_returns("main")
            BY <5>1, OnlyMainLogs
          <6> QED
            BY <3>2, <6>1 DEF WriterNext, signal_handler, log, log_syslog, log_lock,
               log_push_start, log_push_end, queueVars
        <5>2. CASE MainNext
          BY <5>2 DEF MainNext, join_services, log_stop_set, log_stop_unthread, join_log,
             queueVars
        <5>3. CASE LogThreadNext \/ UNCHANGED vars
          BY <5>3 DEF LogThreadNext, log_run_start, log_run_read_start, log_run_go_on,
             log_run_flush, log_run_syslog, log_run_read_stop_dump, vars, queueVars
        <5> QED
          BY <5>1, <5>2, <5>3 DEF Next
      <4> QED
        BY <1>1, <4>1 DEF SettledLate
    <3> QED
      BY <3>1, <3>2
  <2>3. \A t \in Service : sent'[t] = sent[t]
    <3>1. CASE \E u \in Thread : WriterNext(u) \/ signal_handler(u)
      <4>1. WriterNext("main") \/ signal_handler("main")
        BY <3>1, OnlyMainLogs
      <4>2. pc \in [Thread -> MainLabel] /\ sent \in [Thread -> Seq(Level)]
            /\ "main" \in Thread /\ \A t \in Service : t \in Thread /\ t # "main"
        BY DEF Stopped, Thread
      <4> QED
        BY <4>1, <4>2, OthersSame
    <3>2. CASE MainNext
      BY <3>2 DEF MainNext, join_services, log_stop_set, log_stop_unthread, join_log
    <3>3. CASE LogThreadNext \/ UNCHANGED vars
      BY <3>3 DEF LogThreadNext, log_run_start, log_run_read_start, log_run_go_on,
         log_run_flush, log_run_syslog, log_run_read_stop_dump, vars
    <3> QED
      BY <3>1, <3>2, <3>3 DEF Next
  <2>4. ASSUME NEW t \in Service, NEW n \in DOMAIN sent'[t], sent'[t][n] = "info"
        PROVE  Once(text(t, n))'
    <3>1. Once(text(t, n))
      BY <1>1, <2>3, <2>4 DEF SettledLate
    <3> QED
      BY <1>1, <3>1, NoServiceLine
  <2> QED
    BY <2>1, <2>2, <2>4 DEF SettledLate
<1>2. CASE ~late
  <2>1. log_run_start
    BY <1>2, MainStays DEF late
  <2> QED
    BY <2>1, StartsLate
<1> QED
  BY <1>1, <1>2

-------------------------------------------------------------------------------
(* log_stop. *)

LEMMA StopFinishes ==
  ASSUME Threads, Ring, Said, Sequence, Kept, log_stop_set
  PROVE  Finishing'
<1>1. /\ pc["main"] = "log_stop" /\ pc' = [pc EXCEPT !["main"] = "unthread"]
      /\ UNCHANGED <<threaded_log, queue_mutex, entries, read_pos, write_pos, count,
                     log_thread, syslog, sent>>
  BY DEF log_stop_set, goto
<1>2. /\ "main" \in Thread /\ pc \in [Thread -> Label] /\ Service \subseteq Thread
      /\ \A t \in Service : t # "main" /\ t # Nobody
  BY DEF Thread, Threads
<1>3. /\ pc'["main"] = "unthread"
      /\ \A t \in Service : pc[t] = "returned" /\ pc'[t] = "returned"
  <2>1. \A t \in Service : pc[t] = "returned"
    BY <1>1 DEF Kept, Handed
  <2> QED
    BY <1>1, <1>2, <2>1
<1>4. queue_mutex = Nobody /\ count = pending
  <2>1. \A t \in Service : queue_mutex # t
    BY <1>3 DEF Kept, Handed, Locked
  <2> QED
    BY <2>1 DEF Threads, Kept, Counted
<1>5. pending \in Nat /\ from \in 0 .. 1 /\ holding \in 0 .. 1 /\ read_sem \in Nat
  BY RingTypes DEF Ring
<1>6. ~late' /\ num("main")' = 0
  BY <1>1, <1>3 DEF late, num, Kept, Handed
<1>7. MainCalls'
  BY <1>1, <1>3, <1>6 DEF MainCalls, Kept, Handed, num, Undone, Busy
<1>8. Stopped'
  <2>1. pc' \in [Thread -> MainLabel]
    <3>1. \A t \in Thread : pc'[t] \in MainLabel
      BY <1>3 DEF MainLabel, Thread
    <3> QED
      BY <1>1, <1>2, <3>1
  <2>2. log_thread = "created" =>
          /\ ~threaded_log /\ count = 0 /\ \A s \in Slot : entries[s].msg[1] = Nobody
    BY <1>4 DEF Threads, Ring, pending, holding, Reading, Kept, Unmarked
  <2>3. log_thread \in {"read_get", "read_stop_dump"} => count > 0
    BY <1>4, <1>5 DEF pending, holding, Reading
  <2> QED
    BY <1>1, <1>3, <1>4, <1>5, <1>6, <2>1, <2>2, <2>3
    DEF Stopped, Threads, Ring, Said, Locked
<1>9. /\ left' = pending /\ from' = from /\ Logged' = Logged /\ Rest' = Waiting
      /\ \A i : at(i)' = at(i)
  <2>1. left' = pending /\ from' = from
    BY <1>1, <1>4 DEF left, from, Threads, Reading
  <2>2. \A i : at(i)' = at(i)
    BY <1>1 DEF at
  <2> QED
    BY <1>1, <2>1, <2>2 DEF Logged, Rest, Waiting
<1>10. /\ done("main") = 0 /\ done("main")' = 0
       /\ \A t \in Service : /\ done(t) = num(t) /\ done(t)' = num(t) /\ num(t) \in Nat
                             /\ next(t) = num(t) + 1
  <2>1. done("main") = 0 /\ done("main")' = 0
    BY <1>1, <1>3, <1>6 DEF done, num, Undone, Busy, Kept, Handed
  <2>2. ASSUME NEW t \in Service
        PROVE  done(t) = num(t) /\ done(t)' = num(t) /\ num(t) \in Nat
               /\ next(t) = num(t) + 1
    BY <1>1, <1>3, NumberTypes DEF done, num, Undone, Busy, next
  <2> QED
    BY <2>1, <2>2
<1>11. \A l \in Logged \cup Waiting : l.msg[1] # "main"
  <2>1. ASSUME NEW w \in Waiting PROVE w.msg[1] # "main"
    <3>1. PICK i \in from .. pending - 1 : w = at(i)
      BY DEF Waiting
    <3>2. i \in Nat /\ read_pos \in Slot
      BY <1>5, <3>1 DEF Ring
    <3>3. (read_pos + i) % LOG_QUEUE_COUNT \in Slot
      BY <3>2, Positions
    <3> QED
      BY <3>1, <3>3 DEF Kept, Unmarked, at
  <2> QED
    BY <2>1 DEF Kept, Unmarked
<1>12. ASSUME NEW t \in Thread, NEW n \in Nat \ {0}
       PROVE  /\ Single(text(t, n))'
              /\ n <= done(t)' /\ sent[t][n] = "info" => text(t, n) \in Logged \cup Waiting
              /\ n > done(t)' => text(t, n) \notin Logged \cup Waiting
  <2> DEFINE l == text(t, n)
  <2>1. info(l) /\ l.msg[1] = t /\ l.msg[2] = n
    BY DEF text, info
  <2>2. l' = l
    BY DEF text
  <2>3. ~before(l, l)
    BY <2>1 DEF before
  <2> HIDE DEF l
  <2>4. \A i, j \in DOMAIN syslog : syslog[i] = l /\ syslog[j] = l => i = j
    <3>1. ASSUME NEW i \in DOMAIN syslog, NEW j \in DOMAIN syslog, syslog[i] = l,
                 syslog[j] = l
          PROVE  i = j
      <4>1. ~(i < j) /\ ~(j < i)
        BY <2>3, <3>1 DEF Sequence, Written
      <4>2. i \in Nat /\ j \in Nat
        BY DEF Said
      <4> QED
        BY <4>1, <4>2
    <3> QED
      BY <3>1
  <2>5. \A i, j \in from .. pending - 1 : at(i) = l /\ at(j) = l => i = j
    <3>1. ASSUME NEW i \in from .. pending - 1, NEW j \in from .. pending - 1,
                 at(i) = l, at(j) = l
          PROVE  i = j
      <4>1. ~(i < j) /\ ~(j < i)
        BY <2>3, <3>1 DEF Sequence, Following
      <4> QED
        BY <1>5, <4>1
    <3> QED
      BY <3>1
  <2>6. ~(l \in Logged /\ l \in Waiting)
    BY <2>3 DEF Sequence, LoggedFirst
  <2>7. Single(l)'
    BY <1>1, <1>9, <2>2, <2>4, <2>5, <2>6 DEF Single
  <2>8. CASE t = "main"
    <3>1. l \notin Logged \cup Waiting
      BY <1>11, <2>1, <2>8
    <3> QED
      BY <1>10, <2>7, <2>8, <3>1 DEF l
  <2>9. CASE t \in Service
    <3>1. n <= num(t) /\ sent[t][n] = "info" => l \in Logged \cup Waiting
      BY <1>10, <2>9 DEF Kept, Found, l
    <3>2. n > num(t) => l \notin Logged \cup Waiting
      <4>1. ASSUME n > num(t), l \in Logged \cup Waiting PROVE FALSE
        <5>1. below(l, t, num(t) + 1)
          BY <1>10, <2>9, <4>1 DEF Sequence, Numbered
        <5>2. n < num(t) + 1
          BY <2>1, <5>1 DEF below
        <5> QED
          BY <1>10, <2>9, <4>1, <5>2
      <4> QED
        BY <4>1
    <3> QED
      BY <1>10, <2>7, <2>9, <3>1, <3>2 DEF l
  <2> QED
    BY <2>8, <2>9 DEF Thread
<1>13. Exact'
  BY <1>1, <1>9, <1>12 DEF Exact, text
<1>14. TallyLeft'
  <2>1. Delivered' = Delivered
    BY <1>10, DeliveredSame DEF Thread
  <2> QED
    BY <1>1, <1>9, <2>1 DEF TallyLeft, Kept, Tally
<1> QED
  BY <1>6, <1>7, <1>8, <1>13, <1>14 DEF Finishing, Settled, SettledLate

LEMMA KeptInit ==
  ASSUME Init
  PROVE  Kept
<1>1. /\ queue_mutex = Nobody /\ count = 0 /\ read_sem = 0 /\ log_thread = "created"
      /\ syslog = <<>> /\ sent = [t \in Thread |-> <<>>] /\ pc = [t \in Thread |-> "running"]
      /\ \A s \in Slot : entries[s].msg = <<Nobody, 0>>
  BY DEF Init, NoText
<1>2. /\ "main" \in Thread /\ Service \subseteq Thread
      /\ \A t \in Service : t # Nobody
  BY DEF Thread
<1>3. pending = 0 /\ from = 0
  BY <1>1 DEF pending, holding, from, Reading
<1>4. Handed /\ Counted
  BY <1>1, <1>2, <1>3 DEF Handed, Counted
<1>5. Logged = {}
  BY <1>1 DEF Logged
<1>6. Unmarked
  BY <1>1, <1>5 DEF Unmarked
<1>7. \A t \in Thread : done(t) = 0
  BY <1>1 DEF done, num, Undone, Busy
<1>8. Found /\ Filled
  BY <1>1, <1>2, <1>7 DEF Found, Filled
<1>9. Tally
  <2>1. Delivered = {}
    <3>1. \A t \in Thread : {t} \X (1 .. done(t)) = {}
      BY <1>7
    <3> QED
      BY <3>1 DEF Delivered
  <2> QED
    BY <1>1, <1>3, <2>1, FS_EmptySet DEF Tally
<1> QED
  BY <1>4, <1>6, <1>8, <1>9 DEF Kept

-------------------------------------------------------------------------------
LinesInv == IF stop THEN Finishing ELSE Kept

LEMMA LinesInit == Init => LinesInv
BY KeptInit DEF Init, LinesInv

(* log_stop is called once.                                                  *)
LEMMA StopStays ==
  ASSUME [Next]_vars
  PROVE  stop' = stop \/ (~stop /\ log_stop_set) \/ (stop /\ stop')
BY DEF Next, WriterNext, signal_handler, log, log_syslog, log_lock, log_push_start,
       log_fill, log_push_end, service_returns, MainNext, join_services, log_stop_set,
       log_stop_unthread, join_log, LogThreadNext, log_run_start, log_run_read_start,
       log_run_go_on, log_run_flush, log_run_syslog, log_run_read_stop_dump, queueVars,
       vars

LEMMA LinesNext == LogInv /\ LinesInv /\ [Next]_vars => LinesInv'
<1> SUFFICES ASSUME LogInv, LinesInv, [Next]_vars
             PROVE  LinesInv'
  OBVIOUS
<1>1. CASE stop
  <2>1. MainCalls /\ Stopped /\ Settled /\ SettledLate /\ stop'
    BY <1>1, StopStays DEF LinesInv, Finishing
  <2>2. Finishing'
    BY <1>1, <2>1, MainCallsStep, StoppedStep, SettledStep, SettledLateStep DEF Finishing
  <2> QED
    BY <2>1, <2>2 DEF LinesInv
<1>2. CASE ~stop /\ log_stop_set
  <2>1. Threads /\ Ring /\ Said /\ Sequence /\ Kept /\ stop'
    BY <1>2 DEF LogInv, LinesInv, log_stop_set
  <2> QED
    BY <1>2, <2>1, StopFinishes DEF LinesInv
<1>3. CASE ~stop /\ ~stop'
  <2>1. Threads /\ Ring /\ Said /\ Kept
    BY <1>3 DEF LogInv, LinesInv
  <2> QED
    BY <1>3, <2>1, KeptStep DEF LinesInv
<1> QED
  BY <1>1, <1>2, <1>3, StopStays

(* The log thread has returned: nothing is left for it to write.             *)
LEMMA OneLineEach ==
  ASSUME Finishing, pc["main"] = "returned"
  PROVE  AllLogged
<1>1. /\ log_thread = "returned" /\ num("main") = 2
      /\ \A n \in DOMAIN sent["main"] : sent["main"][n] = "info"
  BY DEF Finishing, MainCalls
<1>2. left = 0 /\ from = 0
  BY <1>1 DEF left, from
<1>3. Rest = {}
  BY <1>2 DEF Rest
<1>4. \A t \in Thread : /\ done(t) = num(t) /\ sent[t] \in Seq(Level)
                        /\ DOMAIN sent[t] = 1 .. num(t)
  <2>1. ASSUME NEW t \in Thread PROVE pc[t] \notin Undone
    BY DEF Finishing, Stopped, Undone, Busy, Thread
  <2> QED
    BY <2>1 DEF done, num, Finishing, Stopped
<1>5. ASSUME NEW t \in Thread, t \in Service \/ ~threaded_log,
             NEW n \in DOMAIN sent[t], sent[t][n] = "info"
      PROVE  Cardinality(Lines(text(t, n))) = 1
  <2>1. Once(text(t, n))
    <3>1. CASE late
      BY <1>5, <3>1 DEF Finishing, SettledLate, late
    <3>2. CASE ~late
      <4>1. n \in Nat \ {0} /\ n <= done(t)
        BY <1>4, <1>5 DEF num
      <4>2. Single(text(t, n)) /\ text(t, n) \in Logged
        BY <1>3, <1>5, <3>2, <4>1 DEF Finishing, Settled, Exact
      <4>3. PICK i \in DOMAIN syslog : syslog[i] = text(t, n)
        BY <4>2 DEF Logged
      <4>4. \A j \in DOMAIN syslog : syslog[j] = text(t, n) => j = i
        BY <4>2, <4>3 DEF Single
      <4> QED
        BY <4>3, <4>4 DEF Once
    <3> QED
      BY <3>1, <3>2
  <2>2. PICK i \in DOMAIN syslog : \A j \in DOMAIN syslog : syslog[j] = text(t, n) <=> j = i
    BY <2>1 DEF Once
  <2>3. Lines(text(t, n)) = {i}
    BY <2>2 DEF Lines
  <2> QED
    BY <2>3, FS_Singleton
<1>6. ASSUME ~threaded_log PROVE Len(syslog) = Cardinality(Calls)
  <2>1. TallyLeft
    BY <1>6 DEF Finishing, Settled, late
  <2>2. Calls = Delivered
    BY <1>4 DEF Calls, Delivered
  <2>3. Len(syslog) \in Nat
    BY DEF Finishing, Stopped
  <2> QED
    BY <1>2, <2>1, <2>2, <2>3 DEF TallyLeft
<1> QED
  BY <1>5, <1>6 DEF AllLogged, text

(* When the program ends, every message of a service is in syslog, and only  *)
(* once: those that took the way through the queue are written by the log    *)
(* thread, the last of them after log_stop (output.c:261, 265-311), and      *)
(* there are as many lines as calls, the messages of log_error and of main   *)
(* included, unless the log thread started only after log_stop.              *)
THEOREM EverythingLogged == Spec => []AllLogged
<1>1. Spec => []LinesInv
  BY LinesInit, LinesNext, LogInvHolds, PTL DEF Spec
<1>2. LogInv /\ LinesInv => AllLogged
  <2> SUFFICES ASSUME LogInv, LinesInv, pc["main"] = "returned" PROVE AllLogged
    BY DEF AllLogged
  <2>1. stop
    BY DEF LogInv, Threads
  <2> QED
    BY <2>1, OneLineEach DEF LinesInv
<1> QED
  BY <1>1, <1>2, LogInvHolds, PTL
===============================================================================
