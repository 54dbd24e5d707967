------------------------------ MODULE BoundedFifo ------------------------------
(***************************************************************************)
(* What a queue of lib/spsc_queue.h promises to the two services it        *)
(* decouples: a first-in first-out channel with room for Capacity entries, *)
(* which the program closes once its producer is gone and which its        *)
(* consumer leaves only when it is closed and empty.                       *)
(***************************************************************************)
EXTENDS Naturals, Sequences

CONSTANTS
  Capacity,  \* number of entries the channel has room for
  Entry      \* what is sent through it

VARIABLES
  items,     \* completed entries the consumer has not given back
  taken,     \* history: the entries the consumer has processed, in order
  closed,    \* no further entry will be put
  left       \* the consumer has seen the end of the stream

vars == <<items, taken, closed, left>>

Init ==
  /\ items = <<>>
  /\ taken = <<>>
  /\ closed = FALSE
  /\ left = FALSE

Put(e) ==
  /\ ~closed
  /\ Len(items) < Capacity
  /\ items' = Append(items, e)
  /\ UNCHANGED <<taken, closed, left>>

Take ==
  /\ ~left
  /\ items # <<>>
  /\ items' = Tail(items)
  /\ taken' = Append(taken, Head(items))
  /\ UNCHANGED <<closed, left>>

Close ==
  /\ closed' = TRUE
  /\ UNCHANGED <<items, taken, left>>

Leave ==
  /\ closed
  /\ items = <<>>
  /\ left' = TRUE
  /\ UNCHANGED <<items, taken, closed>>

Next == (\E e \in Entry : Put(e)) \/ Take \/ Close \/ Leave

Spec == Init /\ [][Next]_vars
===============================================================================
