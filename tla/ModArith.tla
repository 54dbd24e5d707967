-------------------------------- MODULE ModArith --------------------------------
(***************************************************************************)
(* Lemmas about % and \div by a positive number: the ring positions of     *)
(* lib/spsc_queue.h and the tick number and phase of select.c are          *)
(* quotients and remainders by a constant the proofs leave open.           *)
(***************************************************************************)
EXTENDS Integers, TLAPS

(* A remainder is an index into a ring of n entries.                        *)
LEMMA ModRange ==
  ASSUME NEW n \in Nat \ {0}, NEW a \in Nat
  PROVE  a % n \in 0 .. n - 1
  BY SMT

(* Quotient and remainder are determined by a = q * n + r with 0 <= r < n.  *)
LEMMA DivModUnique ==
  ASSUME NEW n \in Nat \ {0}, NEW q \in Nat, NEW r \in 0 .. n - 1
  PROVE  /\ (q * n + r) % n = r
         /\ (q * n + r) \div n = q
  BY SMT

(* The first position of a ring.                                            *)
LEMMA ModZero ==
  ASSUME NEW n \in Nat \ {0}
  PROVE  0 % n = 0
  BY SMT

(* Every number has such a decomposition.                                   *)
LEMMA DivModExists ==
  ASSUME NEW n \in Nat \ {0}, NEW a \in Nat
  PROVE  /\ a \div n \in Nat
         /\ a = (a \div n) * n + (a % n)
  BY SMT

(* Advancing a ring position is advancing the number it is the remainder of. *)
LEMMA ModSucc ==
  ASSUME NEW n \in Nat \ {0}, NEW a \in Nat
  PROVE  ((a % n) + 1) % n = (a + 1) % n
<1> DEFINE q == a \div n
           r == a % n
<1>1. q \in Nat /\ r \in 0 .. n - 1 /\ a = q * n + r
  BY ModRange, DivModExists
<1> HIDE DEF q, r
<1>2. CASE r + 1 < n
  <2>1. r + 1 \in 0 .. n - 1
    BY <1>1, <1>2
  <2>2. (q * n + (r + 1)) % n = r + 1
    BY <1>1, <2>1, DivModUnique
  <2>3. (0 * n + (r + 1)) % n = r + 1
    BY <2>1, DivModUnique
  <2>4. a + 1 = q * n + (r + 1) /\ 0 * n + (r + 1) = r + 1
    BY <1>1
  <2> QED
    BY <2>2, <2>3, <2>4 DEF r
<1>3. CASE r + 1 = n
  <2>1. ((q + 1) * n + 0) % n = 0 /\ (1 * n + 0) % n = 0
    BY <1>1, DivModUnique
  <2>2. a + 1 = (q + 1) * n + 0 /\ 1 * n + 0 = r + 1
    BY <1>1, <1>3
  <2> QED
    BY <2>1, <2>2 DEF r
<1> QED
  BY <1>1, <1>2, <1>3

(* Numbers less than n apart have different remainders.                     *)
LEMMA ModDistinct ==
  ASSUME NEW n \in Nat \ {0}, NEW a \in Nat, NEW b \in Nat, a < b, b - a < n
  PROVE  a % n # b % n
<1>1. a \div n \in Nat /\ a % n \in 0 .. n - 1 /\ a = (a \div n) * n + (a % n)
  BY ModRange, DivModExists
<1>2. b \div n \in Nat /\ b % n \in 0 .. n - 1 /\ b = (b \div n) * n + (b % n)
  BY ModRange, DivModExists
<1>3. SUFFICES ASSUME a % n = b % n PROVE FALSE
  OBVIOUS
<1> DEFINE k == b \div n - a \div n
<1>4. k \in Int /\ b - a = k * n
  BY <1>1, <1>2, <1>3
<1> HIDE DEF k
<1>5. 0 < k * n => k * n >= n
  BY <1>4, SMT
<1> QED
  BY <1>4, <1>5

(* A ring position moved by any number is the number it is the remainder of  *)
(* moved by as much.                                                        *)
LEMMA ModPlus ==
  ASSUME NEW n \in Nat \ {0}, NEW a \in Nat, NEW b \in Int
  PROVE  ((a % n) + b) % n = (a + b) % n
<1> DEFINE q == a \div n
           c == (a % n) + b
           d == c \div n
           r == c % n
<1>1. q \in Nat /\ a % n \in 0 .. n - 1 /\ a = q * n + (a % n)
  BY ModRange, DivModExists
<1>2. c \in Int
  BY <1>1
<1>3. d \in Int /\ r \in 0 .. n - 1 /\ c = d * n + r
  <2> HIDE DEF c
  <2> QED BY <1>2, SMT
<1>4. a + b = (q + d) * n + r
  <2>1. a + b = q * n + c
    BY <1>1
  <2> HIDE DEF q, c, d, r
  <2> QED BY <1>1, <1>3, <2>1
<1>5. ((q + d) * n + r) % n = r
  <2> DEFINE e == q + d
  <2>1. e \in Int
    BY <1>1, <1>3
  <2> HIDE DEF q, d, r, e
  <2>2. (e * n + r) % n = r
    BY <1>3, <2>1, SMT
  <2> QED BY <2>2 DEF e
<1> QED BY <1>4, <1>5
===============================================================================
