--------------------------- MODULE SpscQueue_proofs ---------------------------
(***************************************************************************)
(* Proofs about lib/spsc_queue.h for every ring size, every number of      *)
(* pushed entries and every choice of the services that may give up.       *)
(*                                                                         *)
(* The invariants of SpscQueue are not inductive by themselves: that the   *)
(* two sides never meet on an entry follows from counting the tokens of    *)
(* the two semaphores (Tokens, Flow), from the positions being these       *)
(* counts modulo MaxCount (Positions), and from the order of the shutdown  *)
(* (Phases).                                                               *)
(***************************************************************************)
EXTENDS SpscQueue, ModArith

USE MaxCountAssumption, MaxPushAssumption, MayFailAssumption

(* The tokens of the two semaphores and those in hand are the ring size.    *)
Tokens == write_sem + producerHolds + pending = MaxCount

(* What is pending is what went in and did not come out.                    *)
Flow == pending = pushed - Len(taken)

(* The ring positions are the numbers of entries that went in and out.      *)
Positions ==
  /\ write_pos = (pushed + producerAdvanced) % MaxCount
  /\ read_pos = (Len(taken) + consumerAdvanced) % MaxCount

(* The shutdown: stop is set after the producer's last step, and a consumer *)
(* that has decided to use an entry has one, unless the producer gave up.   *)
Phases ==
  /\ mpc = "joining" <=> ~stop
  /\ stop => ppc \in {"returned", "failed"}
  /\ cpc = "get_count" => stop
  /\ cpc = "returned" => stop /\ count = 0
  /\ cpc \in {"using", "read_stop_dump", "posting", "failed"} =>
       \/ pending >= 1
       \/ ppc = "failed" /\ pending = 0
  /\ pending >= 0 \/ (ppc = "failed" /\ pending = -1)
  /\ ppc \in {"counting", "filling", "push_end", "posting"} => pushed < MaxPush

(* TypeOK in two parts: no proof step needs to know of the ring's entries   *)
(* and of the sequence taken at once.                                       *)
EntriesOK == entries \in [Slot -> Entry]
OthersOK ==
  /\ read_pos \in Slot
  /\ write_pos \in Slot
  /\ count \in Nat
  /\ read_sem \in Nat
  /\ write_sem \in Nat
  /\ stop \in BOOLEAN
  /\ ppc \in {"push_start", "counting", "filling", "push_end", "posting",
              "returned", "failed"}
  /\ cpc \in {"read_start", "get_should_stop", "get_count", "using",
              "read_stop_dump", "posting", "uncounting", "returned", "failed"}
  /\ mpc \in {"joining", "posting", "done"}
  /\ held \in Entry
  /\ pushed \in 0 .. MaxPush
  /\ taken \in Seq(Entry)

LEMMA TypeParts == EntriesOK /\ OthersOK => TypeOK
  BY Zenon DEF EntriesOK, OthersOK, TypeOK

CInv ==
  EntriesOK /\ OthersOK /\ Tokens /\ Flow /\ CountExact /\ Positions /\ Phases

-------------------------------------------------------------------------------

(* The threads' positions as numbers are 0 or 1.                            *)
LEMMA Bits ==
  /\ producerHolds \in 0 .. 1 /\ producerCounted \in 0 .. 1
  /\ producerAdvanced \in 0 .. 1 /\ consumerHolds \in 0 .. 1
  /\ consumerAdvanced \in 0 .. 1 /\ consumerUncounts \in 0 .. 1
  /\ stopPosted \in 0 .. 1
  BY DEF producerHolds, producerCounted, producerAdvanced, consumerHolds,
         consumerAdvanced, consumerUncounts, stopPosted, bit

LEMMA CInvInit == Init => CInv
<1> SUFFICES ASSUME Init PROVE CInv
  OBVIOUS
<1> USE DEF Init, init
<1>1. EntriesOK /\ OthersOK
  <2>1. EntriesOK
    BY DEF EntriesOK, Slot, Entry, Incomplete
  <2>2. OthersOK
    <3>1. /\ read_pos = 0 /\ write_pos = 0 /\ count = 0 /\ read_sem = 0
          /\ write_sem = MaxCount /\ stop = FALSE /\ ppc = "push_start"
          /\ cpc = "read_start" /\ mpc = "joining" /\ held = 0 /\ pushed = 0
          /\ taken = <<>>
      BY DEF Incomplete
    <3> HIDE DEF Init, init
    <3>2. 0 \in Slot /\ 0 \in Entry /\ 0 \in 0 .. MaxPush
      BY DEF Slot, Entry
    <3>3. taken \in Seq(Entry) /\ write_sem \in Nat
      BY <3>1
    <3> QED BY <3>1, <3>2, <3>3 DEF OthersOK
  <2> QED BY <2>1, <2>2
<1>2. /\ producerHolds = 0 /\ producerCounted = 0 /\ producerAdvanced = 0
      /\ consumerHolds = 0 /\ consumerAdvanced = 0 /\ consumerUncounts = 0
      /\ stopPosted = 0
  BY DEF producerHolds, producerCounted, producerAdvanced, consumerHolds,
         consumerAdvanced, consumerUncounts, stopPosted, bit
<1>3. Tokens /\ Flow /\ CountExact
  <2>1. pushed = 0 /\ count = 0 /\ Len(taken) = 0
    OBVIOUS
  <2>2. pending = 0
    BY <1>2 DEF pending
  <2>3. Tokens
    BY <1>2, <2>2 DEF Tokens
  <2> HIDE DEF Init
  <2> QED
    BY <1>2, <2>1, <2>2, <2>3 DEF Flow, CountExact
<1>4. Positions
  BY <1>2, ModZero DEF Positions
<1>5. Phases
  BY <1>2 DEF Phases, pending
<1> QED
  BY <1>1, <1>3, <1>4, <1>5 DEF CInv

LEMMA CInvStep == CInv /\ [Next]_vars => CInv'
<1> SUFFICES ASSUME CInv, [Next]_vars PROVE CInv'
  OBVIOUS
<1> USE DEF queueVars
<1>0. EntriesOK /\ OthersOK /\ Tokens /\ Flow /\ CountExact /\ Positions /\ Phases
  BY DEF CInv
<1>1. CASE push_start_wait
  <2>1. /\ producerHolds = 0 /\ producerHolds' = 1
        /\ UNCHANGED <<producerCounted, producerAdvanced, consumerHolds,
                        consumerAdvanced, consumerUncounts, stopPosted>>
    BY <1>1 DEF push_start_wait, bit, producerHolds, producerCounted,
       producerAdvanced, consumerHolds, consumerAdvanced, consumerUncounts,
       stopPosted
  <2>2. (EntriesOK /\ OthersOK)'
    <3>1. EntriesOK'
      BY <1>0, <1>1 DEF push_start_wait, EntriesOK, Slot, Entry
    <3>2. OthersOK'
      BY <1>0, <1>1 DEF push_start_wait, OthersOK, Slot, Entry
    <3> QED BY <3>1, <3>2
  <2>3. (Tokens /\ Flow /\ CountExact)'
    BY <1>0, <1>1, <2>1, Bits DEF push_start_wait, Tokens, Flow, CountExact, pending, OthersOK
  <2>4. Positions'
    BY <1>0, <1>1, <2>1, Bits DEF push_start_wait, Positions, OthersOK
  <2>5. Phases'
    BY <1>0, <1>1, <2>1, Bits DEF push_start_wait, Phases, pending, OthersOK
  <2> QED
    BY <2>2, <2>3, <2>4, <2>5 DEF CInv
<1>2. CASE push_start_count
  <2>1. /\ producerCounted = 0 /\ producerCounted' = 1
        /\ UNCHANGED <<producerHolds, producerAdvanced, consumerHolds,
                        consumerAdvanced, consumerUncounts, stopPosted>>
    BY <1>2 DEF push_start_count, bit, producerHolds, producerCounted,
       producerAdvanced, consumerHolds, consumerAdvanced, consumerUncounts,
       stopPosted
  <2>2. (EntriesOK /\ OthersOK)'
    <3>1. EntriesOK'
      BY <1>0, <1>2 DEF push_start_count, EntriesOK, Slot, Entry
    <3>2. OthersOK'
      BY <1>0, <1>2 DEF push_start_count, OthersOK, Slot, Entry
    <3> QED BY <3>1, <3>2
  <2>3. (Tokens /\ Flow /\ CountExact)'
    BY <1>0, <1>2, <2>1, Bits DEF push_start_count, Tokens, Flow, CountExact, pending, OthersOK
  <2>4. Positions'
    BY <1>0, <1>2, <2>1, Bits DEF push_start_count, Positions, OthersOK
  <2>5. Phases'
    BY <1>0, <1>2, <2>1, Bits DEF push_start_count, Phases, pending, OthersOK
  <2> QED
    BY <2>2, <2>3, <2>4, <2>5 DEF CInv
<1>3. CASE fill_entry
  <2>1. /\ UNCHANGED <<producerHolds, producerCounted, producerAdvanced,
                        consumerHolds, consumerAdvanced, consumerUncounts,
                        stopPosted>>
    BY <1>3 DEF fill_entry, bit, producerHolds, producerCounted,
       producerAdvanced, consumerHolds, consumerAdvanced, consumerUncounts,
       stopPosted
  <2>2. (EntriesOK /\ OthersOK)'
    <3>1. EntriesOK'
      <4>1. write_pos \in Slot /\ pushed + 1 \in Entry
        BY <1>0, <1>3 DEF fill_entry, OthersOK, Phases, Entry
      <4> QED BY <1>0, <1>3, <4>1 DEF fill_entry, EntriesOK
    <3>2. OthersOK'
      BY <1>0, <1>3 DEF fill_entry, OthersOK, Slot, Entry, Phases
    <3> QED BY <3>1, <3>2
  <2>3. (Tokens /\ Flow /\ CountExact)'
    BY <1>0, <1>3, <2>1, Bits DEF fill_entry, Tokens, Flow, CountExact, pending, OthersOK
  <2>4. Positions'
    BY <1>0, <1>3, <2>1, Bits DEF fill_entry, Positions, OthersOK
  <2>5. Phases'
    BY <1>0, <1>3, <2>1, Bits DEF fill_entry, Phases, pending, OthersOK
  <2> QED
    BY <2>2, <2>3, <2>4, <2>5 DEF CInv
<1>4. CASE fill_entry_fails
  <2>1. /\ UNCHANGED <<producerHolds, producerCounted, producerAdvanced,
                        consumerHolds, consumerAdvanced, consumerUncounts,
                        stopPosted>>
    BY <1>4 DEF fill_entry_fails, bit, producerHolds, producerCounted,
       producerAdvanced, consumerHolds, consumerAdvanced, consumerUncounts,
       stopPosted
  <2>2. (EntriesOK /\ OthersOK)'
    <3>1. EntriesOK'
      <4>1. write_pos \in Slot /\ Incomplete \in Entry
        BY <1>0 DEF OthersOK, Entry, Incomplete
      <4> QED BY <1>0, <1>4, <4>1 DEF fill_entry_fails, EntriesOK
    <3>2. OthersOK'
      BY <1>0, <1>4 DEF fill_entry_fails, OthersOK, Slot, Entry, Incomplete
    <3> QED BY <3>1, <3>2
  <2>3. (Tokens /\ Flow /\ CountExact)'
    BY <1>0, <1>4, <2>1, Bits DEF fill_entry_fails, Tokens, Flow, CountExact, pending, OthersOK
  <2>4. Positions'
    BY <1>0, <1>4, <2>1, Bits DEF fill_entry_fails, Positions, OthersOK
  <2>5. Phases'
    BY <1>0, <1>4, <2>1, Bits DEF fill_entry_fails, Phases, pending, OthersOK
  <2> QED
    BY <2>2, <2>3, <2>4, <2>5 DEF CInv
<1>5. CASE push_end_advance
  <2>1. /\ producerAdvanced = 0 /\ producerAdvanced' = 1
        /\ UNCHANGED <<producerHolds, producerCounted, consumerHolds,
                        consumerAdvanced, consumerUncounts, stopPosted>>
    BY <1>5 DEF push_end_advance, bit, producerHolds, producerCounted,
       producerAdvanced, consumerHolds, consumerAdvanced, consumerUncounts,
       stopPosted
  <2>2. (EntriesOK /\ OthersOK)'
    <3>1. advance(write_pos) \in Slot
      BY <1>0, ModRange DEF advance, OthersOK, Slot
    <3>2. EntriesOK'
      BY <1>0, <1>5 DEF push_end_advance, EntriesOK
    <3>3. OthersOK'
      BY <1>0, <1>5, <3>1 DEF push_end_advance, OthersOK
    <3> QED BY <3>2, <3>3
  <2>3. (Tokens /\ Flow /\ CountExact)'
    BY <1>0, <1>5, <2>1, Bits DEF push_end_advance, Tokens, Flow, CountExact, pending, OthersOK
  <2>4. Positions'
    <3>1. pushed \in Nat
      BY <1>0 DEF OthersOK
    <3>2. advance(pushed % MaxCount) = (pushed + 1) % MaxCount
      BY <3>1, ModSucc DEF advance
    <3> QED
      BY <1>0, <1>5, <2>1, <3>1, <3>2 DEF push_end_advance, Positions, OthersOK
  <2>5. Phases'
    BY <1>0, <1>5, <2>1, Bits DEF push_end_advance, Phases, pending, OthersOK
  <2> QED
    BY <2>2, <2>3, <2>4, <2>5 DEF CInv
<1>6. CASE push_end_post
  <2>1. /\ producerHolds = 1 /\ producerHolds' = 0
        /\ producerCounted = 1 /\ producerCounted' = 0
        /\ producerAdvanced = 1 /\ producerAdvanced' = 0
        /\ UNCHANGED <<consumerHolds, consumerAdvanced, consumerUncounts,
                        stopPosted>>
    BY <1>6 DEF push_end_post, bit, producerHolds, producerCounted,
       producerAdvanced, consumerHolds, consumerAdvanced, consumerUncounts,
       stopPosted
  <2>2. (EntriesOK /\ OthersOK)'
    <3>1. EntriesOK'
      BY <1>0, <1>6 DEF push_end_post, EntriesOK, Slot, Entry
    <3>2. OthersOK'
      BY <1>0, <1>6 DEF push_end_post, OthersOK, Slot, Entry, Phases
    <3> QED BY <3>1, <3>2
  <2>3. (Tokens /\ Flow /\ CountExact)'
    BY <1>0, <1>6, <2>1, Bits DEF push_end_post, Tokens, Flow, CountExact, pending, OthersOK
  <2>4. Positions'
    BY <1>0, <1>6, <2>1, Bits DEF push_end_post, Positions, OthersOK
  <2>5. Phases'
    BY <1>0, <1>6, <2>1, Bits DEF push_end_post, Phases, pending, OthersOK
  <2> QED
    BY <2>2, <2>3, <2>4, <2>5 DEF CInv
<1>7. CASE producer_returns
  <2>1. /\ UNCHANGED <<producerHolds, producerCounted, producerAdvanced,
                        consumerHolds, consumerAdvanced, consumerUncounts,
                        stopPosted>>
    BY <1>7 DEF producer_returns, bit, producerHolds, producerCounted,
       producerAdvanced, consumerHolds, consumerAdvanced, consumerUncounts,
       stopPosted
  <2>2. (EntriesOK /\ OthersOK)'
    <3>1. EntriesOK'
      BY <1>0, <1>7 DEF producer_returns, EntriesOK, Slot, Entry
    <3>2. OthersOK'
      BY <1>0, <1>7 DEF producer_returns, OthersOK, Slot, Entry
    <3> QED BY <3>1, <3>2
  <2>3. (Tokens /\ Flow /\ CountExact)'
    BY <1>0, <1>7, <2>1, Bits DEF producer_returns, Tokens, Flow, CountExact, pending, OthersOK
  <2>4. Positions'
    BY <1>0, <1>7, <2>1, Bits DEF producer_returns, Positions, OthersOK
  <2>5. Phases'
    BY <1>0, <1>7, <2>1, Bits DEF producer_returns, Phases, pending, OthersOK
  <2> QED
    BY <2>2, <2>3, <2>4, <2>5 DEF CInv
<1>8. CASE read_start
  <2>1. /\ consumerHolds = 0 /\ consumerHolds' = 1
        /\ UNCHANGED <<producerHolds, producerCounted, producerAdvanced,
                        consumerAdvanced, consumerUncounts, stopPosted>>
    BY <1>8 DEF read_start, bit, producerHolds, producerCounted,
       producerAdvanced, consumerHolds, consumerAdvanced, consumerUncounts,
       stopPosted
  <2>2. (EntriesOK /\ OthersOK)'
    <3>1. EntriesOK'
      BY <1>0, <1>8 DEF read_start, EntriesOK, Slot, Entry
    <3>2. OthersOK'
      BY <1>0, <1>8 DEF read_start, OthersOK, Slot, Entry
    <3> QED BY <3>1, <3>2
  <2>3. (Tokens /\ Flow /\ CountExact)'
    BY <1>0, <1>8, <2>1, Bits DEF read_start, Tokens, Flow, CountExact, pending, OthersOK
  <2>4. Positions'
    BY <1>0, <1>8, <2>1, Bits DEF read_start, Positions, OthersOK
  <2>5. Phases'
    BY <1>0, <1>8, <2>1, Bits DEF read_start, Phases, pending, OthersOK
  <2> QED
    BY <2>2, <2>3, <2>4, <2>5 DEF CInv
<1>9. CASE get_should_stop
  <2>1. /\ UNCHANGED <<producerHolds, producerCounted, producerAdvanced,
                        consumerHolds, consumerAdvanced, consumerUncounts,
                        stopPosted>>
    BY <1>9 DEF get_should_stop, bit, producerHolds, producerCounted,
       producerAdvanced, consumerHolds, consumerAdvanced, consumerUncounts,
       stopPosted
  <2>2. (EntriesOK /\ OthersOK)'
    <3>1. EntriesOK'
      BY <1>0, <1>9 DEF get_should_stop, EntriesOK, Slot, Entry
    <3>2. OthersOK'
      BY <1>0, <1>9 DEF get_should_stop, OthersOK, Slot, Entry
    <3> QED BY <3>1, <3>2
  <2>3. (Tokens /\ Flow /\ CountExact)'
    BY <1>0, <1>9, <2>1, Bits DEF get_should_stop, Tokens, Flow, CountExact, pending, OthersOK
  <2>4. Positions'
    BY <1>0, <1>9, <2>1, Bits DEF get_should_stop, Positions, OthersOK
  <2>5. Phases'
    BY <1>0, <1>9 DEF get_should_stop, Phases, pending, OthersOK, consumerHolds,
       stopPosted, bit
  <2> QED
    BY <2>2, <2>3, <2>4, <2>5 DEF CInv
<1>10. CASE get_count
  <2>1. /\ UNCHANGED <<producerHolds, producerCounted, producerAdvanced,
                        consumerHolds, consumerAdvanced, consumerUncounts,
                        stopPosted>>
    BY <1>10 DEF get_count, bit, producerHolds, producerCounted,
       producerAdvanced, consumerHolds, consumerAdvanced, consumerUncounts,
       stopPosted
  <2>2. (EntriesOK /\ OthersOK)'
    <3>1. EntriesOK'
      BY <1>0, <1>10 DEF get_count, EntriesOK, Slot, Entry
    <3>2. OthersOK'
      BY <1>0, <1>10 DEF get_count, OthersOK, Slot, Entry
    <3> QED BY <3>1, <3>2
  <2>3. (Tokens /\ Flow /\ CountExact)'
    BY <1>0, <1>10, <2>1, Bits DEF get_count, Tokens, Flow, CountExact, pending, OthersOK
  <2>4. Positions'
    BY <1>0, <1>10, <2>1, Bits DEF get_count, Positions, OthersOK
  <2>5. Phases'
    <3>1. count = pending + producerCounted + consumerUncounts
      BY <1>0, Bits DEF CountExact, Flow, OthersOK
    <3>2. /\ consumerUncounts = 0
          /\ producerCounted = IF ppc = "failed" THEN 1 ELSE 0
      BY <1>0, <1>10 DEF get_count, Phases, consumerUncounts, producerCounted, bit
    <3>3. pending \in Int /\ pending' = pending
      BY <1>0, <1>10, <2>1, Bits DEF get_count, pending, OthersOK
    <3> QED
      BY <1>0, <1>10, <3>1, <3>2, <3>3 DEF get_count, Phases, OthersOK
  <2> QED
    BY <2>2, <2>3, <2>4, <2>5 DEF CInv
<1>11. CASE read_get
  <2>1. /\ UNCHANGED <<producerHolds, producerCounted, producerAdvanced,
                        consumerHolds, consumerAdvanced, consumerUncounts,
                        stopPosted>>
    BY <1>11 DEF read_get, bit, producerHolds, producerCounted,
       producerAdvanced, consumerHolds, consumerAdvanced, consumerUncounts,
       stopPosted
  <2>2. (EntriesOK /\ OthersOK)'
    <3>1. EntriesOK'
      BY <1>0, <1>11 DEF read_get, EntriesOK, Slot, Entry
    <3>2. OthersOK'
      <4>1. entries[read_pos] \in Entry
        <5>1. read_pos \in Slot
          BY <1>0 DEF OthersOK
        <5> QED BY <1>0, <5>1 DEF EntriesOK
      <4> QED BY <1>0, <1>11, <4>1 DEF read_get, OthersOK, Slot
    <3> QED BY <3>1, <3>2
  <2>3. (Tokens /\ Flow /\ CountExact)'
    BY <1>0, <1>11, <2>1, Bits DEF read_get, Tokens, Flow, CountExact, pending, OthersOK
  <2>4. Positions'
    BY <1>0, <1>11, <2>1, Bits DEF read_get, Positions, OthersOK
  <2>5. Phases'
    BY <1>0, <1>11, <2>1, Bits DEF read_get, Phases, pending, OthersOK
  <2> QED
    BY <2>2, <2>3, <2>4, <2>5 DEF CInv
<1>12. CASE consumer_fails
  <2>1. /\ UNCHANGED <<producerHolds, producerCounted, producerAdvanced,
                        consumerHolds, consumerAdvanced, consumerUncounts,
                        stopPosted>>
    BY <1>12 DEF consumer_fails, bit, producerHolds, producerCounted,
       producerAdvanced, consumerHolds, consumerAdvanced, consumerUncounts,
       stopPosted
  <2>2. (EntriesOK /\ OthersOK)'
    <3>1. EntriesOK'
      BY <1>0, <1>12 DEF consumer_fails, EntriesOK, Slot, Entry
    <3>2. OthersOK'
      BY <1>0, <1>12 DEF consumer_fails, OthersOK, Slot, Entry
    <3> QED BY <3>1, <3>2
  <2>3. (Tokens /\ Flow /\ CountExact)'
    BY <1>0, <1>12, <2>1, Bits DEF consumer_fails, Tokens, Flow, CountExact, pending, OthersOK
  <2>4. Positions'
    BY <1>0, <1>12, <2>1, Bits DEF consumer_fails, Positions, OthersOK
  <2>5. Phases'
    BY <1>0, <1>12, <2>1, Bits DEF consumer_fails, Phases, pending, OthersOK
  <2> QED
    BY <2>2, <2>3, <2>4, <2>5 DEF CInv
<1>13. CASE read_stop_dump_advance
  <2>1. /\ consumerAdvanced = 0 /\ consumerAdvanced' = 1
        /\ UNCHANGED <<producerHolds, producerCounted, producerAdvanced,
                        consumerHolds, consumerUncounts, stopPosted>>
    BY <1>13 DEF read_stop_dump_advance, bit, producerHolds, producerCounted,
       producerAdvanced, consumerHolds, consumerAdvanced, consumerUncounts,
       stopPosted
  <2>2. (EntriesOK /\ OthersOK)'
    <3>1. advance(read_pos) \in Slot
      BY <1>0, ModRange DEF advance, OthersOK, Slot
    <3>2. EntriesOK'
      BY <1>0, <1>13 DEF read_stop_dump_advance, EntriesOK
    <3>3. OthersOK'
      BY <1>0, <1>13, <3>1 DEF read_stop_dump_advance, OthersOK
    <3> QED BY <3>2, <3>3
  <2>3. (Tokens /\ Flow /\ CountExact)'
    BY <1>0, <1>13, <2>1, Bits DEF read_stop_dump_advance, Tokens, Flow, CountExact, pending, OthersOK
  <2>4. Positions'
    <3>1. Len(taken) \in Nat
      BY <1>0 DEF OthersOK
    <3>2. advance(Len(taken) % MaxCount) = (Len(taken) + 1) % MaxCount
      BY <3>1, ModSucc DEF advance
    <3> QED
      BY <1>0, <1>13, <2>1, <3>1, <3>2
         DEF read_stop_dump_advance, Positions, OthersOK
  <2>5. Phases'
    BY <1>0, <1>13, <2>1, Bits DEF read_stop_dump_advance, Phases, pending, OthersOK
  <2> QED
    BY <2>2, <2>3, <2>4, <2>5 DEF CInv
<1>14. CASE read_stop_dump_post
  <2>1. /\ consumerHolds = 1 /\ consumerHolds' = 0
        /\ consumerAdvanced = 1 /\ consumerAdvanced' = 0
        /\ consumerUncounts = 0 /\ consumerUncounts' = 1
        /\ UNCHANGED <<producerHolds, producerCounted, producerAdvanced,
                        stopPosted>>
    BY <1>14 DEF read_stop_dump_post, bit, producerHolds, producerCounted,
       producerAdvanced, consumerHolds, consumerAdvanced, consumerUncounts,
       stopPosted
  <2>2. (EntriesOK /\ OthersOK)'
    <3>1. EntriesOK'
      BY <1>0, <1>14 DEF read_stop_dump_post, EntriesOK, Slot, Entry
    <3>2. OthersOK'
      BY <1>0, <1>14 DEF read_stop_dump_post, OthersOK, Slot, Entry
    <3> QED BY <3>1, <3>2
  <2>3. (Tokens /\ Flow /\ CountExact)'
    BY <1>0, <1>14, <2>1, Bits DEF read_stop_dump_post, Tokens, Flow, CountExact, pending, OthersOK
  <2>4. Positions'
    BY <1>0, <1>14, <2>1, Bits DEF read_stop_dump_post, Positions, OthersOK
  <2>5. Phases'
    BY <1>0, <1>14, <2>1, Bits DEF read_stop_dump_post, Phases, pending, OthersOK
  <2> QED
    BY <2>2, <2>3, <2>4, <2>5 DEF CInv
<1>15. CASE read_stop_dump_count
  <2>1. /\ consumerUncounts = 1 /\ consumerUncounts' = 0
        /\ UNCHANGED <<producerHolds, producerCounted, producerAdvanced,
                        consumerHolds, consumerAdvanced, stopPosted>>
    BY <1>15 DEF read_stop_dump_count, bit, producerHolds, producerCounted,
       producerAdvanced, consumerHolds, consumerAdvanced, consumerUncounts,
       stopPosted
  <2>2. (EntriesOK /\ OthersOK)'
    <3>1. EntriesOK'
      BY <1>0, <1>15 DEF read_stop_dump_count, EntriesOK, Slot, Entry
    <3>2. OthersOK'
      <4>1. count >= 1
        <5>1. count = pending + producerCounted + consumerUncounts
          BY <1>0, Bits DEF CountExact, Flow, OthersOK
        <5>2. pending >= 0 \/ (pending = -1 /\ producerCounted = 1)
          <6>1. pending >= 0 \/ (ppc = "failed" /\ pending = -1)
            BY <1>0, Zenon DEF Phases
          <6>2. ppc = "failed" => producerCounted = 1
            BY DEF producerCounted, bit
          <6> QED BY <6>1, <6>2, Zenon
        <5> QED BY <1>0, <2>1, <5>1, <5>2, Bits DEF OthersOK, pending
      <4> QED BY <1>0, <1>15, <4>1 DEF read_stop_dump_count, OthersOK
    <3> QED BY <3>1, <3>2
  <2>3. (Tokens /\ Flow /\ CountExact)'
    BY <1>0, <1>15, <2>1, Bits DEF read_stop_dump_count, Tokens, Flow, CountExact, pending, OthersOK
  <2>4. Positions'
    BY <1>0, <1>15, <2>1, Bits DEF read_stop_dump_count, Positions, OthersOK
  <2>5. Phases'
    BY <1>0, <1>15, <2>1, Bits DEF read_stop_dump_count, Phases, pending, OthersOK
  <2> QED
    BY <2>2, <2>3, <2>4, <2>5 DEF CInv
<1>16. CASE set_should_stop_flag
  <2>1. /\ UNCHANGED <<producerHolds, producerCounted, producerAdvanced,
                        consumerHolds, consumerAdvanced, consumerUncounts,
                        stopPosted>>
    BY <1>16 DEF set_should_stop_flag, bit, producerHolds, producerCounted,
       producerAdvanced, consumerHolds, consumerAdvanced, consumerUncounts,
       stopPosted
  <2>2. (EntriesOK /\ OthersOK)'
    <3>1. EntriesOK'
      BY <1>0, <1>16 DEF set_should_stop_flag, EntriesOK, Slot, Entry
    <3>2. OthersOK'
      BY <1>0, <1>16 DEF set_should_stop_flag, OthersOK, Slot, Entry
    <3> QED BY <3>1, <3>2
  <2>3. (Tokens /\ Flow /\ CountExact)'
    BY <1>0, <1>16, <2>1, Bits DEF set_should_stop_flag, Tokens, Flow, CountExact, pending, OthersOK
  <2>4. Positions'
    BY <1>0, <1>16, <2>1, Bits DEF set_should_stop_flag, Positions, OthersOK
  <2>5. Phases'
    BY <1>0, <1>16, <2>1, Bits DEF set_should_stop_flag, Phases, pending, OthersOK
  <2> QED
    BY <2>2, <2>3, <2>4, <2>5 DEF CInv
<1>17. CASE set_should_stop_post
  <2>1. /\ stopPosted = 0 /\ stopPosted' = 1
        /\ UNCHANGED <<producerHolds, producerCounted, producerAdvanced,
                        consumerHolds, consumerAdvanced, consumerUncounts>>
    BY <1>17 DEF set_should_stop_post, bit, producerHolds, producerCounted,
       producerAdvanced, consumerHolds, consumerAdvanced, consumerUncounts,
       stopPosted
  <2>2. (EntriesOK /\ OthersOK)'
    <3>1. EntriesOK'
      BY <1>0, <1>17 DEF set_should_stop_post, EntriesOK, Slot, Entry
    <3>2. OthersOK'
      BY <1>0, <1>17 DEF set_should_stop_post, OthersOK, Slot, Entry
    <3> QED BY <3>1, <3>2
  <2>3. (Tokens /\ Flow /\ CountExact)'
    BY <1>0, <1>17, <2>1, Bits DEF set_should_stop_post, Tokens, Flow, CountExact, pending, OthersOK
  <2>4. Positions'
    BY <1>0, <1>17, <2>1, Bits DEF set_should_stop_post, Positions, OthersOK
  <2>5. Phases'
    BY <1>0, <1>17, <2>1, Bits DEF set_should_stop_post, Phases, pending, OthersOK
  <2> QED
    BY <2>2, <2>3, <2>4, <2>5 DEF CInv
<1>18. CASE UNCHANGED vars
  BY <1>0, <1>18 DEF vars, CInv, EntriesOK, OthersOK, Tokens, Flow, CountExact, Positions,
     Phases, pending, bit, producerHolds, producerCounted, producerAdvanced,
     consumerHolds, consumerAdvanced, consumerUncounts, stopPosted
<1> QED
  BY <1>1, <1>2, <1>3, <1>4, <1>5, <1>6, <1>7, <1>8, <1>9,
     <1>10, <1>11, <1>12, <1>13, <1>14, <1>15, <1>16, <1>17, <1>18
     DEF Next, Producer, Consumer, Main, Terminated

LEMMA CInvHolds == Spec => []CInv
  BY CInvInit, CInvStep, PTL DEF Spec

(* Every variable keeps its type; in particular count, an int in the code,  *)
(* and the two semaphores never become negative.                            *)
THEOREM TypeCorrect == Spec => []TypeOK
<1>1. CInv => TypeOK
  BY TypeParts DEF CInv
<1> QED
  BY <1>1, CInvHolds, PTL

(* The count that a stopping service relies on is exact.                    *)
THEOREM CountIsExact == Spec => []CountExact
<1>1. CInv => CountExact
  BY DEF CInv
<1> QED
  BY <1>1, CInvHolds, PTL

(* push_start .. push_end and read_start .. read_stop_dump never overlap on *)
(* an entry: their positions are remainders of numbers less than MaxCount   *)
(* apart.                                                                   *)
THEOREM Exclusion == Spec => []SlotExclusion
<1>1. CInv => SlotExclusion
  <2> SUFFICES ASSUME CInv, ppc \in {"filling", "push_end"},
                      cpc \in {"using", "read_stop_dump"}
               PROVE  write_pos # read_pos
    BY DEF SlotExclusion
  <2>1. OthersOK /\ Tokens /\ Flow /\ Positions /\ Phases
    BY DEF CInv
  <2>2. /\ producerHolds = 1 /\ producerAdvanced = 0 /\ consumerAdvanced = 0
    BY DEF producerHolds, producerAdvanced, consumerAdvanced, bit
  <2>3. pushed \in Nat /\ Len(taken) \in Nat /\ pending \in Int
    BY <2>1, Bits DEF OthersOK, pending
  <2>4. pending >= 1
    BY <2>1 DEF Phases
  <2>5. pending < MaxCount
    BY <2>1, <2>2, <2>3 DEF Tokens, OthersOK
  <2>6. Len(taken) < pushed /\ pushed - Len(taken) < MaxCount
    BY <2>1, <2>3, <2>4, <2>5 DEF Flow
  <2>7. Len(taken) % MaxCount # pushed % MaxCount
    BY <2>3, <2>6, ModDistinct
  <2> QED
    BY <2>1, <2>2, <2>3, <2>7 DEF Positions
<1> QED
  BY <1>1, CInvHolds, PTL

(* A service that leaves its loop has processed everything pushed to it,    *)
(* even if the service before it gave up in the middle of an entry.         *)
THEOREM Drained == Spec => []StopDrains
<1>1. CInv => StopDrains
  <2> SUFFICES ASSUME CInv, cpc = "returned" PROVE Len(taken) = pushed
    BY DEF StopDrains
  <2>1. OthersOK /\ Flow /\ CountExact /\ Phases
    BY DEF CInv
  <2>2. consumerHolds = 1 /\ consumerUncounts = 0
    BY DEF consumerHolds, consumerUncounts, bit
  <2>3. pushed \in Nat /\ Len(taken) \in Nat
    BY <2>1 DEF OthersOK
  <2>4. pending >= 0
    BY <2>1, <2>2, Bits DEF OthersOK, pending
  <2>5. count = 0
    BY <2>1 DEF Phases
  <2> QED
    BY <2>1, <2>2, <2>3, <2>4, <2>5, Bits DEF CountExact, Flow
<1> QED
  BY <1>1, CInvHolds, PTL

-------------------------------------------------------------------------------
(* What the entries hold. *)

(* The v-th entry is in slot (v - 1) % MaxCount from the moment it is       *)
(* filled until the consumer gives it back, and the consumer holds it.      *)
Contents ==
  /\ \A k \in 1 .. pushed : Len(taken) < k => entries[(k - 1) % MaxCount] = k
  /\ ppc \in {"push_end", "posting"} => entries[pushed % MaxCount] = pushed + 1
  /\ cpc \in {"read_stop_dump", "posting"} /\ pending >= 1
       => held = Len(taken) + 1

(* Only the entry its producer gave up on can come out wrong.               *)
History ==
  \A i \in 1 .. Len(taken) : taken[i] # i => i = pushed + 1 /\ ppc = "failed"

LEMMA ContentsInit == Init => Contents /\ History
  BY DEF Init, init, Contents, History

(* Steps that neither fill, complete, read nor give back an entry.          *)
LEMMA ContentsFrame ==
  ASSUME CInv, Contents, History,
         UNCHANGED <<entries, pushed, taken, held>>,
         ppc' \in {"push_end", "posting"} => ppc \in {"push_end", "posting"},
         ppc = "failed" => ppc' = "failed",
         cpc' \in {"read_stop_dump", "posting"} =>
           cpc \in {"read_stop_dump", "posting"} /\ pending' = pending
  PROVE  Contents' /\ History'
  BY DEF Contents, History

LEMMA ContentsStep ==
  CInv /\ Contents /\ History /\ [Next]_vars => Contents' /\ History'
<1> SUFFICES ASSUME CInv, Contents, History, [Next]_vars
             PROVE  Contents' /\ History'
  OBVIOUS
<1> USE DEF queueVars
<1>0. /\ EntriesOK /\ OthersOK /\ Tokens /\ Flow /\ Positions /\ Phases
      /\ pushed \in Nat /\ Len(taken) \in Nat /\ pending \in Int
  BY Bits DEF CInv, OthersOK, pending
<1>1. CASE fill_entry
  <2>1. /\ producerHolds = 1 /\ producerAdvanced = 0
        /\ pending' = pending /\ ppc' = "push_end"
    BY <1>1 DEF fill_entry, producerHolds, producerAdvanced, bit, pending,
       consumerHolds, stopPosted
  <2>2. write_pos = pushed % MaxCount /\ pending < MaxCount
    BY <1>0, <2>1 DEF Positions, Tokens, OthersOK
  <2>3. \A k \in 1 .. pushed :
          Len(taken) < k => (k - 1) % MaxCount # pushed % MaxCount
    <3> TAKE k \in 1 .. pushed
    <3> HAVE Len(taken) < k
    <3>1. k - 1 \in Nat /\ k - 1 < pushed /\ pushed - (k - 1) < MaxCount
      BY <1>0, <2>2 DEF Flow
    <3> QED
      BY <1>0, <3>1, ModDistinct
  <2>4. write_pos \in Slot /\ entries \in [Slot -> Entry]
    BY <1>0, Zenon DEF EntriesOK, OthersOK
  <2>5. \A k \in 1 .. pushed : (k - 1) % MaxCount \in Slot
    BY <1>0, ModRange DEF Slot
  <2>6. entries'[write_pos] = pushed + 1
    BY <1>1, <2>4 DEF fill_entry
  <2>7. \A s \in Slot : s # write_pos => entries'[s] = entries[s]
    BY <1>1, <2>4 DEF fill_entry
  <2>8. \A k \in 1 .. pushed : Len(taken) < k => entries'[(k - 1) % MaxCount] = k
    BY <2>2, <2>3, <2>5, <2>7 DEF Contents
  <2> QED
    BY <1>1, <2>1, <2>2, <2>6, <2>8 DEF fill_entry, Contents, History
<1>2. CASE fill_entry_fails
  <2>1. /\ producerHolds = 1 /\ producerAdvanced = 0
        /\ pending' = pending /\ ppc' = "failed"
    BY <1>2 DEF fill_entry_fails, producerHolds, producerAdvanced, bit, pending,
       consumerHolds, stopPosted
  <2>2. write_pos = pushed % MaxCount /\ pending < MaxCount
    BY <1>0, <2>1 DEF Positions, Tokens, OthersOK
  <2>3. \A k \in 1 .. pushed :
          Len(taken) < k => (k - 1) % MaxCount # pushed % MaxCount
    <3> TAKE k \in 1 .. pushed
    <3> HAVE Len(taken) < k
    <3>1. k - 1 \in Nat /\ k - 1 < pushed /\ pushed - (k - 1) < MaxCount
      BY <1>0, <2>2 DEF Flow
    <3> QED
      BY <1>0, <3>1, ModDistinct
  <2>4. write_pos \in Slot /\ entries \in [Slot -> Entry]
    BY <1>0, Zenon DEF EntriesOK, OthersOK
  <2>5. \A k \in 1 .. pushed : (k - 1) % MaxCount \in Slot
    BY <1>0, ModRange DEF Slot
  <2>6. \A s \in Slot : s # write_pos => entries'[s] = entries[s]
    BY <1>2, <2>4 DEF fill_entry_fails
  <2>7. \A k \in 1 .. pushed : Len(taken) < k => entries'[(k - 1) % MaxCount] = k
    BY <2>2, <2>3, <2>5, <2>6 DEF Contents
  <2> QED
    BY <1>2, <2>1, <2>7 DEF fill_entry_fails, Contents, History
<1>3. CASE push_end_post
  <2>1. /\ ppc = "posting" /\ ppc' = "push_start" /\ pushed' = pushed + 1
        /\ UNCHANGED <<entries, taken, held, cpc>>
    BY <1>3 DEF push_end_post
  <2>2. (pushed + 1) - 1 = pushed
    BY <1>0
  <2>3. \A k \in 1 .. pushed' : Len(taken') < k => entries'[(k - 1) % MaxCount] = k
    BY <1>0, <2>1, <2>2 DEF Contents
  <2>4. cpc \in {"read_stop_dump", "posting"} => pending >= 1
    BY <1>0, <2>1 DEF Phases
  <2>5. \A i \in 1 .. Len(taken) : taken[i] = i
    BY <2>1 DEF History
  <2> QED
    BY <2>1, <2>3, <2>4, <2>5 DEF Contents, History
<1>4. CASE read_get
  <2>1. /\ cpc = "using" /\ held' = entries[read_pos]
        /\ UNCHANGED <<entries, pushed, taken, ppc>>
    BY <1>4 DEF read_get
  <2>2. pending' = pending
    BY <1>4 DEF read_get, pending, consumerHolds, stopPosted, bit
  <2>3. read_pos = Len(taken) % MaxCount
    BY <1>0, <2>1 DEF Positions, consumerAdvanced, bit
  <2>4. ASSUME pending >= 1
        PROVE  held' = Len(taken) + 1
    <3>1. Len(taken) + 1 \in 1 .. pushed /\ (Len(taken) + 1) - 1 = Len(taken)
      BY <1>0, <2>4 DEF Flow
    <3>2. entries[((Len(taken) + 1) - 1) % MaxCount] = Len(taken) + 1
      BY <1>0, <3>1 DEF Contents
    <3> QED
      BY <2>1, <2>3, <3>1, <3>2
  <2> QED
    BY <2>1, <2>2, <2>4 DEF Contents, History
<1>5. CASE read_stop_dump_post
  <2>1. /\ cpc = "posting" /\ cpc' = "uncounting" /\ taken' = Append(taken, held)
        /\ UNCHANGED <<entries, pushed, held, ppc>>
    BY <1>5 DEF read_stop_dump_post
  <2>2. /\ held \in Entry /\ taken \in Seq(Entry)
    BY <1>0 DEF OthersOK
  <2>3. /\ Len(taken') = Len(taken) + 1
        /\ taken'[Len(taken) + 1] = held
        /\ \A i \in 1 .. Len(taken) : taken'[i] = taken[i]
    BY <2>1, <2>2
  <2>4. \/ held = Len(taken) + 1
        \/ ppc = "failed" /\ pending = 0
    BY <1>0, <2>1 DEF Phases, Contents
  <2>5. ppc = "failed" /\ pending = 0 => Len(taken) + 1 = pushed + 1
    BY <1>0 DEF Flow
  <2>6. History'
    BY <1>0, <2>1, <2>3, <2>4, <2>5 DEF History
  <2>7. Contents'
    BY <1>0, <2>1, <2>3 DEF Contents
  <2> QED
    BY <2>6, <2>7
<1>6. CASE push_start_wait
  BY <1>0, <1>6, ContentsFrame DEF push_start_wait, OthersOK, Phases, pending, consumerHolds,
     stopPosted, bit
<1>7. CASE push_start_count
  BY <1>0, <1>7, ContentsFrame DEF push_start_count, OthersOK, Phases, pending, consumerHolds,
     stopPosted, bit
<1>8. CASE push_end_advance
  BY <1>0, <1>8, ContentsFrame DEF push_end_advance, OthersOK, Phases, pending, consumerHolds,
     stopPosted, bit
<1>9. CASE producer_returns
  BY <1>0, <1>9, ContentsFrame DEF producer_returns, OthersOK, Phases, pending, consumerHolds,
     stopPosted, bit
<1>10. CASE read_start
  BY <1>0, <1>10, ContentsFrame DEF read_start, OthersOK, Phases, pending, consumerHolds,
     stopPosted, bit
<1>11. CASE get_should_stop
  BY <1>0, <1>11, ContentsFrame DEF get_should_stop, OthersOK, Phases, pending, consumerHolds,
     stopPosted, bit
<1>12. CASE get_count
  BY <1>0, <1>12, ContentsFrame DEF get_count, OthersOK, Phases, pending, consumerHolds,
     stopPosted, bit
<1>13. CASE consumer_fails
  BY <1>0, <1>13, ContentsFrame DEF consumer_fails, OthersOK, Phases, pending, consumerHolds,
     stopPosted, bit
<1>14. CASE read_stop_dump_advance
  BY <1>0, <1>14, ContentsFrame DEF read_stop_dump_advance, OthersOK, Phases, pending, consumerHolds,
     stopPosted, bit
<1>15. CASE read_stop_dump_count
  BY <1>0, <1>15, ContentsFrame DEF read_stop_dump_count, OthersOK, Phases, pending, consumerHolds,
     stopPosted, bit
<1>16. CASE set_should_stop_flag
  BY <1>0, <1>16, ContentsFrame DEF set_should_stop_flag, OthersOK, Phases, pending, consumerHolds,
     stopPosted, bit
<1>17. CASE set_should_stop_post
  BY <1>0, <1>17, ContentsFrame DEF set_should_stop_post, OthersOK, Phases, pending, consumerHolds,
     stopPosted, bit
<1>18. CASE UNCHANGED vars
  BY <1>0, <1>18, ContentsFrame DEF vars, pending, consumerHolds, stopPosted, bit
<1> QED
  BY <1>1, <1>2, <1>3, <1>4, <1>5, <1>6, <1>7, <1>8, <1>9,
     <1>10, <1>11, <1>12, <1>13, <1>14, <1>15, <1>16, <1>17, <1>18
     DEF Next, Producer, Consumer, Main, Terminated

LEMMA ContentsHolds == Spec => [](Contents /\ History)
  BY ContentsInit, ContentsStep, CInvHolds, PTL DEF Spec

(* A consumer sees at most one entry that was never completed, the one its  *)
(* producer gave up on, and only after every completed one.                 *)
THEOREM Garbage == Spec => []GarbageOnlyAtEnd
<1>1. CInv /\ Contents /\ History => GarbageOnlyAtEnd
  <2> SUFFICES ASSUME CInv, History PROVE GarbageOnlyAtEnd
    OBVIOUS
  <2>1. pushed \in Nat /\ Len(taken) \in Nat /\ pending \in Int
    BY Bits DEF CInv, OthersOK, pending
  <2>2. pending >= -1
    BY <2>1 DEF CInv, Phases
  <2>3. Len(taken) <= pushed + 1
    BY <2>1, <2>2 DEF CInv, Flow
  <2> QED
    BY <2>3 DEF GarbageOnlyAtEnd, History
<1> QED
  BY <1>1, CInvHolds, ContentsHolds, PTL

(* While the producer has not given up, entries come out complete, in       *)
(* order, none lost and none twice.                                         *)
THEOREM Ordered == Spec => []InOrder
<1>1. CInv /\ Contents /\ History => InOrder
  <2> SUFFICES ASSUME CInv, Contents, History, ppc # "failed" PROVE InOrder
    BY DEF InOrder
  <2>1. taken \in Seq(Entry)
    BY DEF CInv, OthersOK
  <2>2. taken = [i \in 1 .. Len(taken) |-> i]
    BY <2>1 DEF History
  <2>3. cpc \in {"read_stop_dump", "posting"} => held = Len(taken) + 1
    BY DEF CInv, Phases, Contents
  <2> QED
    BY <2>2, <2>3 DEF InOrder
<1> QED
  BY <1>1, CInvHolds, ContentsHolds, PTL
-------------------------------------------------------------------------------
(* The refinement of BoundedFifo. *)

(* In a reachable state the mapped channel holds the numbers from one more   *)
(* than those processed to those pushed.                                    *)
processed == IF Len(taken) > pushed THEN pushed ELSE Len(taken)
numbers(m, n) == [i \in 1 .. n - m |-> m + i]
waiting ==
  [i \in 1 .. pushed - Len(received) |->
     entries[(read_pos + i - 1 - consumerAdvanced) % MaxCount]]

LEMMA NumbersSeq ==
  ASSUME NEW m \in Nat, NEW n \in Nat, m <= n
  PROVE  /\ numbers(m, n) \in Seq(Nat)
         /\ Len(numbers(m, n)) = n - m
         /\ numbers(m, n) = <<>> <=> m = n
         /\ Append(numbers(m, n), n + 1) = numbers(m, n + 1)
         /\ m < n => /\ Head(numbers(m, n)) = m + 1
                     /\ Tail(numbers(m, n)) = numbers(m + 1, n)
<1> QED BY DEF numbers

LEMMA Processed ==
  ASSUME CInv, History
  PROVE  /\ processed \in Nat /\ processed <= pushed
         /\ \/ processed = Len(taken)
            \/ processed = pushed /\ Len(taken) = pushed + 1 /\ ppc = "failed"
         /\ pushed - processed <= MaxCount
         /\ received = numbers(0, processed)
<1>1. pushed \in Nat /\ Len(taken) \in Nat /\ pending \in Int /\ taken \in Seq(Entry)
  BY Bits DEF CInv, OthersOK, pending
<1>2. \/ processed = Len(taken) /\ processed <= pushed
      \/ processed = pushed /\ Len(taken) = pushed + 1 /\ ppc = "failed"
  BY <1>1 DEF CInv, Flow, Phases, processed
<1>3. pushed - processed <= MaxCount
  BY <1>1, <1>2, Bits DEF CInv, OthersOK, Tokens, Flow
<1>4. processed \in Nat /\ processed <= Len(taken)
  BY <1>1, <1>2
<1>5. received = [i \in 1 .. processed |-> taken[i]]
  BY <1>1, <1>4 DEF received, processed
<1>6. \A i \in 1 .. processed : taken[i] = i
  BY <1>1, <1>2 DEF History
<1>7. received = numbers(0, processed)
  BY <1>4, <1>5, <1>6 DEF numbers
<1> QED BY <1>2, <1>3, <1>4, <1>7

LEMMA Waiting ==
  ASSUME CInv, Contents, History
  PROVE  waiting = numbers(processed, pushed)
<1>1. /\ processed \in Nat /\ processed <= pushed /\ pushed \in Nat
      /\ Len(received) = processed
  <2>1. /\ processed \in Nat /\ processed <= pushed /\ pushed \in Nat
        /\ received = numbers(0, processed)
    BY Processed DEF CInv, OthersOK
  <2>2. Len(numbers(0, processed)) = processed - 0
    <3>1. 0 \in Nat /\ 0 <= processed
      BY <2>1
    <3> QED BY <2>1, <3>1, NumbersSeq, Zenon
  <2> QED BY <2>1, <2>2
<1>2. ASSUME NEW i \in 1 .. pushed - processed
      PROVE  entries[(read_pos + i - 1 - consumerAdvanced) % MaxCount]
               = processed + i
  <2>1. processed = Len(taken) /\ Len(taken) \in Nat
    BY <1>1, <1>2, Processed
  <2>2. read_pos = (processed + consumerAdvanced) % MaxCount
    BY <2>1 DEF CInv, Positions
  <2>3. (read_pos + (i - 1 - consumerAdvanced)) % MaxCount
          = ((processed + consumerAdvanced) + (i - 1 - consumerAdvanced)) % MaxCount
    <3>1. processed + consumerAdvanced \in Nat /\ i - 1 - consumerAdvanced \in Int
      BY <1>1, Bits
    <3> QED BY <2>2, <3>1, ModPlus
  <2>4. /\ read_pos + (i - 1 - consumerAdvanced) = read_pos + i - 1 - consumerAdvanced
        /\ (processed + consumerAdvanced) + (i - 1 - consumerAdvanced)
             = (processed + i) - 1
    BY <1>1, Bits DEF CInv, OthersOK, Slot
  <2>5. processed + i \in 1 .. pushed /\ Len(taken) < processed + i
    BY <1>1, <2>1
  <2> QED BY <2>3, <2>4, <2>5 DEF Contents
<1> QED BY <1>1, <1>2 DEF waiting, numbers

LEMMA FifoInit == Init => Fifo!Init
<1> SUFFICES ASSUME Init PROVE Fifo!Init
  OBVIOUS
<1>1. processed = 0 /\ pushed = 0 /\ stop = FALSE /\ cpc # "returned"
  BY DEF Init, init, processed
<1>2. CInv /\ Contents /\ History
  BY CInvInit, ContentsInit
<1>3. received = numbers(0, 0) /\ waiting = numbers(0, 0)
  BY <1>1, <1>2, Processed, Waiting
<1>4. numbers(0, 0) = <<>>
  BY DEF numbers
<1> QED BY <1>1, <1>3, <1>4 DEF Fifo!Init, waiting

(* What the refinement mapping makes of a reachable state.                  *)
Mapped ==
  /\ pushed \in Nat /\ processed \in Nat /\ processed <= pushed
  /\ \/ processed = Len(taken)
     \/ processed = pushed /\ Len(taken) = pushed + 1 /\ ppc = "failed"
  /\ pushed - processed <= MaxCount
  /\ received = numbers(0, processed)
  /\ waiting = numbers(processed, pushed)

LEMMA MappedHolds == Spec => []Mapped
<1>1. CInv /\ Contents /\ History => Mapped
  <2> SUFFICES ASSUME CInv, Contents, History PROVE Mapped
    OBVIOUS
  <2>1. pushed \in Nat
    BY DEF CInv, OthersOK
  <2> QED BY <2>1, Processed, Waiting DEF Mapped
<1> QED BY <1>1, CInvHolds, ContentsHolds, PTL

(* A step of SpscQueue is a step of BoundedFifo or a stutter.               *)
LEMMA FifoStep ==
  ASSUME CInv, Mapped, Mapped', [Next]_vars
  PROVE  [Fifo!Next]_Fifo!vars
<1> USE DEF queueVars
<1>1. /\ pushed \in Nat /\ processed \in Nat /\ processed <= pushed
      /\ received = numbers(0, processed)
      /\ waiting = numbers(processed, pushed)
      /\ pushed - processed <= MaxCount
      /\ received' = numbers(0, processed')
      /\ waiting' = numbers(processed', pushed')
  BY DEF Mapped
<1>2. /\ pending \in Int /\ Len(taken) \in Nat
      /\ Tokens /\ Flow /\ CountExact /\ Phases /\ OthersOK
  BY Bits DEF CInv, OthersOK, pending
<1>3. ASSUME UNCHANGED <<taken, pushed, stop>>, cpc' = "returned" <=> cpc = "returned"
      PROVE  [Fifo!Next]_Fifo!vars
  <2>1. UNCHANGED <<processed, pushed>>
    BY <1>3 DEF processed
  <2>2. UNCHANGED <<received, waiting, stop, cpc = "returned">>
    BY <1>1, <1>3, <2>1
  <2> QED BY <2>2 DEF Fifo!vars, waiting
<1>4. CASE push_end_post
  <2>1. /\ ppc = "posting" /\ pushed' = pushed + 1
        /\ UNCHANGED <<taken, stop, cpc>>
    BY <1>4 DEF push_end_post
  <2>2. ~stop /\ pushed < MaxPush
    BY <1>2, <2>1 DEF Phases
  <2>3. processed = Len(taken) /\ processed' = processed
    BY <1>1, <1>2, <2>1 DEF Mapped, processed
  <2>4. pushed - processed < MaxCount
    <3>1. producerHolds = 1
      BY <2>1 DEF producerHolds, bit
    <3> QED BY <1>2, <2>3, <3>1 DEF Tokens, Flow, OthersOK
  <2>5. waiting' = Append(waiting, pushed + 1) /\ Len(waiting) < MaxCount
        /\ received' = received
    BY <1>1, <2>1, <2>3, <2>4, NumbersSeq
  <2>6. pushed + 1 \in 1 .. MaxPush
    BY <1>1, <2>2
  <2>7. Fifo!Put(pushed + 1)
    <3>1. ~stop /\ UNCHANGED <<received, stop, cpc = "returned">>
      BY <2>1, <2>2, <2>5
    <3> QED BY <2>5, <3>1 DEF Fifo!Put, waiting
  <2>8. \E e \in 1 .. MaxPush : Fifo!Put(e)
    BY <2>6, <2>7 DEF Fifo!Put
  <2> QED BY <2>8 DEF Fifo!Next
<1>5. CASE read_stop_dump_post
  <2>1. /\ cpc = "posting" /\ cpc' = "uncounting" /\ taken' = Append(taken, held)
        /\ UNCHANGED <<pushed, stop>>
    BY <1>5 DEF read_stop_dump_post
  <2>2. Len(taken') = Len(taken) + 1
    BY <1>2, <2>1 DEF OthersOK
  <2>3. CASE processed = Len(taken) /\ processed < pushed
    <3>1. processed' = processed + 1
      BY <1>1, <2>1, <2>2, <2>3 DEF processed
    <3>2. /\ waiting # <<>> /\ waiting' = Tail(waiting)
          /\ received' = Append(received, Head(waiting))
      <4>1. /\ Head(waiting) = processed + 1
            /\ Tail(waiting) = numbers(processed + 1, pushed)
            /\ waiting # <<>>
        <5>1. processed # pushed
          BY <1>1, <2>3
        <5> QED BY <1>1, <2>3, <5>1, NumbersSeq, Zenon
      <4>2. Append(numbers(0, processed), processed + 1) = numbers(0, processed + 1)
        <5>1. 0 \in Nat /\ 0 <= processed
          BY <1>1
        <5> QED BY <1>1, <5>1, NumbersSeq, Zenon
      <4> QED BY <1>1, <2>1, <3>1, <4>1, <4>2
    <3>3. Fifo!Take
      BY <2>1, <3>2 DEF Fifo!Take, waiting
    <3> QED BY <3>3 DEF Fifo!Next
  <2>4. CASE processed = pushed
    <3>1. processed' = processed
      BY <1>1, <1>2, <2>1, <2>2, <2>4 DEF Mapped, processed
    <3>2. UNCHANGED <<received, waiting, stop, cpc = "returned">>
      BY <1>1, <2>1, <3>1
    <3> QED BY <3>2 DEF Fifo!vars, waiting
  <2> QED BY <1>1, <2>3, <2>4 DEF Mapped
<1>6. CASE set_should_stop_flag
  <2>1. stop' = TRUE /\ UNCHANGED <<taken, pushed, cpc>>
    BY <1>6 DEF set_should_stop_flag
  <2>2. processed' = processed
    BY <2>1 DEF processed
  <2>3. UNCHANGED <<received, waiting>>
    BY <1>1, <2>1, <2>2
  <2>4. Fifo!Close
    BY <2>1, <2>3 DEF Fifo!Close, waiting
  <2> QED BY <2>4 DEF Fifo!Next
<1>7. CASE get_count
  <2>1. cpc = "get_count" /\ stop /\ UNCHANGED <<taken, pushed, stop>>
    BY <1>2, <1>7 DEF get_count, Phases
  <2>2. CASE count = 0
    <3>1. consumerHolds = 1 /\ consumerUncounts = 0
      BY <2>1 DEF consumerHolds, consumerUncounts, bit
    <3>2. pending >= 0
      BY <1>2, <3>1, Bits DEF OthersOK, pending
    <3>3. pushed = Len(taken)
      BY <1>1, <1>2, <2>2, <3>1, <3>2, Bits DEF CountExact, Flow
    <3>4. processed = pushed /\ processed' = processed
      BY <1>1, <2>1, <3>3 DEF processed
    <3>5. waiting = <<>> /\ UNCHANGED <<received, waiting>>
      BY <1>1, <2>1, <3>4, NumbersSeq
    <3>6. cpc' = "returned"
      BY <1>7, <2>2 DEF get_count
    <3>7. Fifo!Leave
      BY <2>1, <3>5, <3>6 DEF Fifo!Leave, waiting
    <3> QED BY <3>7 DEF Fifo!Next
  <2>3. CASE count # 0
    BY <1>3, <1>7, <2>1, <2>3 DEF get_count
  <2> QED BY <2>2, <2>3
<1>8. CASE push_start_wait \/ push_start_count \/ fill_entry \/ fill_entry_fails
           \/ push_end_advance \/ producer_returns \/ set_should_stop_post
           \/ UNCHANGED vars
  BY <1>3, <1>8
     DEF push_start_wait, push_start_count, fill_entry, fill_entry_fails,
         push_end_advance, producer_returns, set_should_stop_post, vars
<1>9. CASE read_start \/ get_should_stop \/ read_get \/ consumer_fails
           \/ read_stop_dump_advance \/ read_stop_dump_count
  BY <1>3, <1>9
     DEF read_start, get_should_stop, read_get, consumer_fails,
         read_stop_dump_advance, read_stop_dump_count
<1> QED
  BY <1>4, <1>5, <1>6, <1>7, <1>8, <1>9
     DEF Next, Producer, Consumer, Main, Terminated

(* The ring, its two semaphores and the order in which the three threads     *)
(* touch them are a bounded first-in first-out channel of the completed      *)
(* entries, which is left only once it is closed and empty; a service that   *)
(* gives up in the middle of an entry puts and takes nothing.                *)
THEOREM Refinement == Spec => FifoSpec
<1>1. Init => Fifo!Init
  BY FifoInit
<1>2. CInv /\ Mapped /\ Mapped' /\ [Next]_vars => [Fifo!Next]_Fifo!vars
  BY FifoStep
<1> QED
  BY <1>1, <1>2, CInvHolds, MappedHolds, PTL DEF Spec, FifoSpec, Fifo!Spec
===============================================================================
