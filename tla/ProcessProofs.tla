----------------------------- MODULE ProcessProofs -----------------------------
(***************************************************************************)
(* Proofs about processes and the scheduler (src/kernel/process.c), for    *)
(* any number of processes, pages and stack pages.                         *)
(***************************************************************************)
EXTENDS Process, FiniteSetTheorems, SequenceTheorems, WellFoundedInduction,
        NaturalsInduction, TLAPS

Ptr == Procs \cup {NULL}
Links == [next : [Procs -> Ptr], prev : [Procs -> Ptr], process_list : Ptr,
          ready_queue : Ptr, ready_queue_tail : Ptr]

(* The prev link of a queued process x behind pred: process_create may     *)
(* have replaced it by a process created after x.                          *)
PrevOk(v, x, pred) == v = pred \/ v > x

(* The links s hold the queue g: it is read from ready_queue, ends at      *)
(* ready_queue_tail, and holds no process twice.                           *)
ListOk(s, g) ==
    /\ \A i, j \in 1..Len(g) : g[i] = g[j] => i = j
    /\ s.ready_queue = IF Len(g) = 0 THEN NULL ELSE g[1]
    /\ s.ready_queue_tail = IF Len(g) = 0 THEN NULL ELSE g[Len(g)]
    /\ \A i \in 1..Len(g) :
          /\ s.next[g[i]] = IF i = Len(g) THEN NULL ELSE g[i + 1]
          /\ PrevOk(s.prev[g[i]], g[i], IF i = 1 THEN NULL ELSE g[i - 1])

-----------------------------------------------------------------------------
(* Natural numbers and sets *)

(* A non-empty set of natural numbers has a least element. *)
LEMMA LeastNat ==
    ASSUME NEW T \in SUBSET Nat, T # {}
    PROVE  \E x \in T : \A y \in T : x <= y
<1> DEFINE R == {ss \in Nat \X Nat : ss[1] < ss[2]}
<1>1. IsWellFoundedOn(R, Nat)
  BY NatLessThanWellFounded DEF OpToRel
<1>2. ASSUME NEW x \in Nat, NEW y \in Nat, y < x PROVE <<y, x>> \in R
  <2>1. <<y, x>> \in Nat \X Nat /\ <<y, x>>[1] < <<y, x>>[2]
    BY <1>2
  <2> QED
    BY <2>1, Zenon
<1> HIDE DEF R
<1>3. PICK x \in T : \A y \in T : ~ (<<y, x>> \in R)
  BY <1>1, WFMin
<1>4. ASSUME NEW y \in T PROVE x <= y
  <2>1. x \in Nat /\ y \in Nat
    OBVIOUS
  <2>2. ~(y < x)
    <3>1. SUFFICES ASSUME y < x PROVE FALSE
      OBVIOUS
    <3>2. <<y, x>> \in R
      BY <1>2, <2>1, <3>1
    <3>3. ~(<<y, x>> \in R)
      BY <1>3
    <3> QED
      BY <3>2, <3>3, Zenon
  <2> QED
    BY <2>1, <2>2
<1> QED
  BY <1>4

(* Induction, for a set of numbers. *)
LEMMA NatSetInduction ==
    ASSUME NEW S \in SUBSET Nat, 0 \in S, \A n \in S : n + 1 \in S
    PROVE  S = Nat
<1> SUFFICES ASSUME S # Nat PROVE FALSE
  OBVIOUS
<1>1. PICK x \in Nat \ S : \A y \in Nat \ S : x <= y
  BY LeastNat
<1>2. x # 0 /\ x - 1 \in Nat /\ x - 1 \in S /\ (x - 1) + 1 = x
  BY <1>1
<1> QED
  BY <1>1, <1>2

(* The size of an interval, also of an empty one. *)
LEMMA IntervalSize ==
    ASSUME NEW a \in Int, NEW b \in Int, a <= b + 1
    PROVE  IsFiniteSet(a..b) /\ Cardinality(a..b) = b - a + 1
<1>1. IsFiniteSet(a..b) /\ Cardinality(a..b) = IF a > b THEN 0 ELSE b - a + 1
  BY FS_Interval
<1>2. a > b => b - a + 1 = 0
  OBVIOUS
<1> QED
  BY <1>1, <1>2

(* No process is the null pointer. *)
LEMMA NotNull == MaxProcs \in Nat /\ \A p \in Procs : p # NULL
  BY ProcessAssumption DEF Procs, NULL

(* A queue without repetition is not longer than there are processes. *)
LEMMA QueueLength ==
    ASSUME NEW g \in Seq(Procs), \A i, j \in 1..Len(g) : g[i] = g[j] => i = j
    PROVE  Len(g) \in Nat /\ Len(g) <= MaxProcs
<1>1. MaxProcs \in Nat /\ Len(g) \in Nat /\ g \in [1..Len(g) -> Procs]
  BY ProcessAssumption
<1>2. /\ IsFiniteSet(1..Len(g)) /\ Cardinality(1..Len(g)) = Len(g)
      /\ IsFiniteSet(Procs) /\ Cardinality(Procs) = MaxProcs
  <2>1. 1 \in Int /\ Len(g) \in Int /\ MaxProcs \in Int /\ 1 <= Len(g) + 1 /\ 1 <= MaxProcs + 1
    BY <1>1
  <2>2. Cardinality(1..Len(g)) = Len(g) - 1 + 1 /\ Cardinality(1..MaxProcs) = MaxProcs - 1 + 1
        /\ IsFiniteSet(1..Len(g)) /\ IsFiniteSet(1..MaxProcs)
    BY <2>1, IntervalSize
  <2> QED
    BY <1>1, <2>2 DEF Procs
<1>3. ASSUME MaxProcs < Len(g) PROVE FALSE
  <2>1. \E x, y \in 1..Len(g) : x # y /\ g[x] = g[y]
    BY <1>1, <1>2, <1>3, FS_PigeonHole
  <2> QED
    BY <2>1
<1> QED
  BY <1>1, <1>3

-----------------------------------------------------------------------------
(* The chain of next pointers *)

(* Following next from ready_queue meets the queue that the links hold. *)
LEMMA ChainIsList ==
    ASSUME NEW s, NEW g \in Seq(Procs), ListOk(s, g)
    PROVE  Chain(s, s.ready_queue) = g
<1> DEFINE first == s.ready_queue
           P(f) == f = [i \in 0..MaxProcs |->
                          IF i = 0 THEN first
                          ELSE IF f[i - 1] = NULL THEN NULL ELSE s.next[f[i - 1]]]
           at == CHOOSE f : P(f)
           h == [i \in 0..MaxProcs |-> IF i < Len(g) THEN g[i + 1] ELSE NULL]
           n == Len(g)
<1>1. /\ MaxProcs \in Nat /\ n \in Nat /\ n <= MaxProcs
      /\ \A i \in 1..n : g[i] \in Procs /\ g[i] # NULL
  <2>1. MaxProcs \in Nat /\ \A p \in Procs : p # NULL
    BY ProcessAssumption DEF Procs, NULL
  <2> QED
    BY <2>1, QueueLength DEF ListOk
<1>2. /\ first = IF n = 0 THEN NULL ELSE g[1]
      /\ \A i \in 1..n : s.next[g[i]] = IF i = n THEN NULL ELSE g[i + 1]
  BY DEF ListOk
<1>3. P(h)
  <2>1. ASSUME NEW i \in 0..MaxProcs
        PROVE  h[i] = IF i = 0 THEN first
                      ELSE IF h[i - 1] = NULL THEN NULL ELSE s.next[h[i - 1]]
    <3>1. CASE i = 0
      BY <1>1, <1>2, <3>1
    <3>2. CASE i # 0 /\ i - 1 < n
      <4>1. i - 1 \in 0..MaxProcs /\ (i - 1) + 1 = i /\ i \in 1..n
        BY <1>1, <3>2
      <4>2. h[i - 1] = g[i] /\ g[i] # NULL
        BY <1>1, <3>2, <4>1
      <4>3. s.next[g[i]] = IF i = n THEN NULL ELSE g[i + 1]
        BY <1>2, <4>1
      <4>4. h[i] = IF i = n THEN NULL ELSE g[i + 1]
        BY <1>1, <3>2, <4>1
      <4> HIDE DEF h
      <4> QED
        BY <3>2, <4>2, <4>3, <4>4
    <3>3. CASE i # 0 /\ ~(i - 1 < n)
      <4>1. i - 1 \in 0..MaxProcs /\ ~(i < n)
        BY <1>1, <3>3
      <4>2. h[i - 1] = NULL /\ h[i] = NULL
        BY <3>3, <4>1
      <4> HIDE DEF h
      <4> QED
        BY <3>3, <4>2
    <3> QED
      BY <3>1, <3>2, <3>3
  <2>2. h = [i \in 0..MaxProcs |-> h[i]]
    OBVIOUS
  <2> HIDE DEF h
  <2> QED
    BY <2>1, <2>2
<1>4. P(at)
  <2> HIDE DEF P
  <2> QED
    BY <1>3
<1> HIDE DEF at, h
<1>5. at = h
  <2> DEFINE S == {i \in Nat : i <= MaxProcs => at[i] = h[i]}
  <2>1. 0 \in S
    BY <1>1, <1>3, <1>4
  <2>2. ASSUME NEW i \in S PROVE i + 1 \in S
    <3> SUFFICES ASSUME i + 1 <= MaxProcs PROVE at[i + 1] = h[i + 1]
      OBVIOUS
    <3>1. i \in Nat /\ i + 1 \in 0..MaxProcs /\ i + 1 # 0 /\ (i + 1) - 1 = i /\ i <= MaxProcs
      BY <1>1
    <3>2. at[i] = h[i]
      BY <3>1
    <3>3. at[i + 1] = IF at[i] = NULL THEN NULL ELSE s.next[at[i]]
      BY <1>4, <3>1
    <3>4. h[i + 1] = IF h[i] = NULL THEN NULL ELSE s.next[h[i]]
      BY <1>3, <3>1
    <3> QED
      BY <3>2, <3>3, <3>4
  <2>3. S = Nat
    <3> HIDE DEF S
    <3>1. S \in SUBSET Nat
      BY DEF S
    <3> QED
      BY <2>1, <2>2, <3>1, NatSetInduction
  <2>4. \A i \in 0..MaxProcs : at[i] = h[i]
    BY <1>1, <2>3
  <2>5. at = [i \in 0..MaxProcs |-> at[i]] /\ h = [i \in 0..MaxProcs |-> h[i]]
    BY <1>3, <1>4
  <2> QED
    BY <2>4, <2>5
<1>6. Chain(s, first) = [i \in 1..Cardinality({j \in 0..MaxProcs : at[j] # NULL}) |-> at[i - 1]]
  BY DEF Chain, at
<1>7. {j \in 0..MaxProcs : h[j] # NULL} = 0..(n - 1)
  BY <1>1 DEF h
<1>8. Cardinality(0..(n - 1)) = n
  <2>1. 0 \in Int /\ n - 1 \in Int /\ 0 <= (n - 1) + 1 /\ (n - 1) - 0 + 1 = n
    BY <1>1
  <2> HIDE DEF n
  <2>2. Cardinality(0..(n - 1)) = (n - 1) - 0 + 1
    BY <2>1, IntervalSize
  <2> QED
    BY <2>1, <2>2
<1>9. Chain(s, first) = [i \in 1..n |-> h[i - 1]]
  BY <1>5, <1>6, <1>7, <1>8
<1>10. \A i \in 1..n : h[i - 1] = g[i]
  BY <1>1 DEF h
<1>11. g = [i \in 1..n |-> g[i]]
  OBVIOUS
<1> QED
  BY <1>9, <1>10, <1>11

-----------------------------------------------------------------------------
(* The operations on the links *)

(* scheduler_add appends to the queue. *)
LEMMA EnqueueList ==
    ASSUME NEW s \in Links, NEW g \in Seq(Procs), ListOk(s, g),
           NEW p \in Procs, \A i \in 1..Len(g) : g[i] # p
    PROVE  /\ Enqueue(s, p) \in Links
           /\ Append(g, p) \in Seq(Procs) /\ ListOk(Enqueue(s, p), Append(g, p))
<1> DEFINE r == Enqueue(s, p)
           a == Append(g, p)
           n == Len(g)
<1>1. /\ n \in Nat /\ a \in Seq(Procs) /\ Len(a) = n + 1 /\ a[n + 1] = p
      /\ \A i \in 1..n : a[i] = g[i] /\ g[i] \in Procs
      /\ \A x \in Procs : x # NULL
  <2>1. /\ n \in Nat /\ a \in Seq(Procs) /\ Len(a) = n + 1 /\ a[n + 1] = p
        /\ \A i \in 1..n : a[i] = g[i] /\ g[i] \in Procs
    OBVIOUS
  <2> QED
    BY <2>1, NotNull
<1>2. /\ \A i, j \in 1..n : g[i] = g[j] => i = j
      /\ s.ready_queue = IF n = 0 THEN NULL ELSE g[1]
      /\ s.ready_queue_tail = IF n = 0 THEN NULL ELSE g[n]
      /\ \A i \in 1..n : /\ s.next[g[i]] = IF i = n THEN NULL ELSE g[i + 1]
                         /\ PrevOk(s.prev[g[i]], g[i], IF i = 1 THEN NULL ELSE g[i - 1])
  BY DEF ListOk
<1>3. /\ s.next \in [Procs -> Ptr] /\ s.prev \in [Procs -> Ptr] /\ s.process_list \in Ptr
      /\ s.ready_queue \in Ptr /\ s.ready_queue_tail \in Ptr
  BY DEF Links
<1> HIDE DEF a
<1>4. \A i, j \in 1..(n + 1) : a[i] = a[j] => i = j
  BY <1>1, <1>2
<1>5. CASE n = 0
  <2>1. s.ready_queue = NULL
    BY <1>2, <1>5
  <2>2. r = [s EXCEPT !.next[p] = NULL, !.prev[p] = NULL,
                      !.ready_queue = p, !.ready_queue_tail = p]
    BY <2>1 DEF Enqueue
  <2> DEFINE nx == [s.next EXCEPT ![p] = NULL]
             pv == [s.prev EXCEPT ![p] = NULL]
  <2>3. /\ r.next = nx /\ r.prev = pv
        /\ r.ready_queue = p /\ r.ready_queue_tail = p /\ r.process_list = s.process_list
        /\ r \in Links
    <3>1. nx \in [Procs -> Ptr] /\ pv \in [Procs -> Ptr] /\ p \in Ptr
      BY <1>3 DEF Ptr
    <3>2. r = [s EXCEPT !.next = nx, !.prev = pv, !.ready_queue = p, !.ready_queue_tail = p]
      BY <2>2 DEF Links
    <3> HIDE DEF nx, pv
    <3> QED
      BY <1>3, <3>1, <3>2 DEF Links
  <2> HIDE DEF r
  <2>4. r.next[p] = NULL /\ r.prev[p] = NULL
    BY <1>3, <2>3
  <2>5. ListOk(r, a)
    BY <1>1, <1>4, <1>5, <2>3, <2>4 DEF ListOk, PrevOk
  <2> QED
    BY <1>1, <2>3, <2>5 DEF r, a
<1>6. CASE n # 0
  <2>1. s.ready_queue # NULL /\ s.ready_queue_tail = g[n] /\ n \in 1..n
    BY <1>1, <1>2, <1>6
  <2>2. r = [s EXCEPT !.next = [x \in Procs |-> IF x = p THEN NULL
                                             ELSE IF x = s.ready_queue_tail THEN p
                                             ELSE s.next[x]],
                      !.prev[p] = s.ready_queue_tail,
                      !.ready_queue_tail = p]
    BY <2>1 DEF Enqueue
  <2> DEFINE nx == [x \in Procs |-> IF x = p THEN NULL
                                    ELSE IF x = g[n] THEN p ELSE s.next[x]]
             pv == [s.prev EXCEPT ![p] = g[n]]
  <2>3. nx \in [Procs -> Ptr] /\ pv \in [Procs -> Ptr]
    BY <1>3, <2>1 DEF Ptr
  <2>4. r.next = nx /\ r.prev = pv /\ r.ready_queue = s.ready_queue /\ r.ready_queue_tail = p
        /\ r.process_list = s.process_list
    BY <1>3, <2>1, <2>2 DEF Links
  <2>5. r \in Links
    <3> HIDE DEF nx, pv
    <3> QED
      BY <1>3, <2>1, <2>2, <2>3, <2>4 DEF Links, Ptr
  <2>6. ASSUME NEW i \in 1..(n + 1)
        PROVE  /\ nx[a[i]] = IF i = n + 1 THEN NULL ELSE a[i + 1]
               /\ PrevOk(pv[a[i]], a[i], IF i = 1 THEN NULL ELSE a[i - 1])
    <3>1. CASE i = n + 1
      <4>1. a[i] = p /\ i # 1 /\ a[i - 1] = g[n]
        BY <1>1, <1>6, <3>1
      <4> QED
        BY <1>3, <3>1, <4>1 DEF PrevOk
    <3>2. CASE i = n
      <4>1. /\ a[i] = g[n] /\ g[n] # p /\ g[n] \in Procs /\ a[i + 1] = p /\ i # n + 1
            /\ (i # 1 => a[i - 1] = g[n - 1])
        BY <1>1, <2>1, <3>2
      <4>2. nx[a[i]] = p
        BY <4>1
      <4>3. pv[a[i]] = s.prev[g[n]]
        BY <1>3, <4>1
      <4> QED
        BY <1>2, <2>1, <3>2, <4>1, <4>2, <4>3
    <3>3. CASE i # n /\ i # n + 1
      <4>1. /\ i \in 1..n /\ i + 1 \in 1..n /\ a[i] = g[i] /\ g[i] # p /\ g[i] \in Procs
            /\ a[i + 1] = g[i + 1] /\ (i # 1 => a[i - 1] = g[i - 1])
        BY <1>1, <3>3
      <4>2. g[i] # g[n]
        BY <1>2, <2>1, <3>3, <4>1
      <4>3. nx[a[i]] = s.next[g[i]] /\ pv[a[i]] = s.prev[g[i]]
        BY <1>3, <4>1, <4>2
      <4> HIDE DEF nx, pv
      <4> QED
        BY <1>2, <3>3, <4>1, <4>3
    <3> QED
      BY <3>1, <3>2, <3>3
  <2> HIDE DEF r, nx, pv
  <2>7. r.ready_queue = a[1]
    BY <1>1, <1>2, <1>6, <2>4
  <2>8. ListOk(r, a)
    BY <1>1, <1>4, <2>4, <2>6, <2>7 DEF ListOk
  <2> QED
    BY <1>1, <2>5, <2>8 DEF r, a
<1> QED
  BY <1>5, <1>6

(* Moving the head of a sequence to its end, elementwise. *)
LEMMA RotatedSeq ==
    ASSUME NEW S, NEW g \in Seq(S)
    PROVE  /\ RR!Rotated(g) \in Seq(S) /\ Len(RR!Rotated(g)) = Len(g)
           /\ \A i \in 1..Len(g) : RR!Rotated(g)[i] = IF i = Len(g) THEN g[1] ELSE g[i + 1]
<1>1. CASE g = <<>>
  BY <1>1 DEF RR!Rotated
<1>2. CASE g # <<>>
  <2> DEFINE n == Len(g)
             r == Tail(g) \o <<Head(g)>>
  <2>1. n \in Nat /\ n > 0
    BY <1>2
  <2>2. Tail(g) \in Seq(S) /\ Len(Tail(g)) = n - 1
        /\ \A j \in 1..(n - 1) : Tail(g)[j] = g[j + 1]
    BY <1>2, <2>1
  <2>3. <<Head(g)>> \in Seq(S) /\ Len(<<Head(g)>>) = 1 /\ <<Head(g)>>[1] = g[1]
    BY <1>2, <2>1
  <2>4. r \in Seq(S) /\ Len(r) = (n - 1) + 1
        /\ \A j \in 1..((n - 1) + 1) :
              r[j] = IF j <= n - 1 THEN Tail(g)[j] ELSE <<Head(g)>>[j - (n - 1)]
    BY <2>1, <2>2, <2>3, ConcatProperties
  <2>5. (n - 1) + 1 = n
    BY <2>1
  <2> HIDE DEF r
  <2>6. ASSUME NEW j \in 1..n PROVE r[j] = IF j = n THEN g[1] ELSE g[j + 1]
    <3>1. CASE j # n
      <4>1. j \in 1..(n - 1) /\ j <= n - 1
        BY <2>1, <3>1
      <4> QED
        BY <2>2, <2>4, <2>5, <3>1, <4>1
    <3>2. CASE j = n
      <4>1. j - (n - 1) = 1 /\ ~(j <= n - 1)
        BY <2>1, <3>2
      <4> QED
        BY <2>3, <2>4, <2>5, <3>2, <4>1
    <3> QED
      BY <3>1, <3>2
  <2> QED
    BY <1>2, <2>4, <2>5, <2>6 DEF RR!Rotated, r
<1> QED
  BY <1>1, <1>2

(* "Rotate: move head to tail" does that. *)
LEMMA RotateList ==
    ASSUME NEW s \in Links, NEW g \in Seq(Procs), ListOk(s, g)
    PROVE  Rotate(s) \in Links /\ ListOk(Rotate(s), RR!Rotated(g))
<1> DEFINE r == Rotate(s)
           a == RR!Rotated(g)
           n == Len(g)
<1>1. /\ n \in Nat /\ a \in Seq(Procs) /\ Len(a) = n
      /\ \A i \in 1..n : a[i] = IF i = n THEN g[1] ELSE g[i + 1]
      /\ \A i \in 1..n : g[i] \in Procs
      /\ \A x \in Procs : x # NULL
  <2>1. n \in Nat /\ \A i \in 1..n : g[i] \in Procs
    OBVIOUS
  <2> QED
    BY <2>1, RotatedSeq, NotNull
<1>2. /\ \A i, j \in 1..n : g[i] = g[j] => i = j
      /\ s.ready_queue = IF n = 0 THEN NULL ELSE g[1]
      /\ s.ready_queue_tail = IF n = 0 THEN NULL ELSE g[n]
      /\ \A i \in 1..n : /\ s.next[g[i]] = IF i = n THEN NULL ELSE g[i + 1]
                         /\ PrevOk(s.prev[g[i]], g[i], IF i = 1 THEN NULL ELSE g[i - 1])
  BY DEF ListOk
<1>3. /\ s.next \in [Procs -> Ptr] /\ s.prev \in [Procs -> Ptr] /\ s.process_list \in Ptr
      /\ s.ready_queue \in Ptr /\ s.ready_queue_tail \in Ptr
  BY DEF Links
<1> HIDE DEF a
<1>4. CASE n < 2
  <2>1. r = s
    <3>1. CASE n = 0
      BY <1>2, <3>1 DEF Rotate
    <3>2. CASE n = 1
      <4>1. s.ready_queue = g[1] /\ s.next[g[1]] = NULL
        BY <1>2, <3>2
      <4> QED
        BY <4>1 DEF Rotate
    <3> QED
      BY <1>1, <1>4, <3>1, <3>2
  <2>2. \A i \in 1..n : a[i] = g[i]
    BY <1>1, <1>4
  <2>3. a = g
    BY <1>1, <2>2, SeqEqual
  <2> QED
    BY <2>1, <2>3 DEF a
<1>5. CASE n >= 2
  <2> DEFINE nx == [x \in Procs |-> IF x = g[n] THEN g[1] ELSE IF x = g[1] THEN NULL ELSE s.next[x]]
             pv == [x \in Procs |-> IF x = g[1] THEN g[n] ELSE IF x = g[2] THEN NULL ELSE s.prev[x]]
  <2>1. /\ 1 \in 1..n /\ 2 \in 1..n /\ n \in 1..n /\ n # 1 /\ n # 0
        /\ s.ready_queue = g[1] /\ s.ready_queue_tail = g[n] /\ s.next[g[1]] = g[2]
        /\ g[1] # NULL /\ g[2] # NULL
    BY <1>1, <1>2, <1>5
  <2>2. r = [s EXCEPT !.next = nx, !.prev = pv, !.ready_queue = g[2], !.ready_queue_tail = g[1]]
    BY <2>1 DEF Rotate
  <2>3. nx \in [Procs -> Ptr] /\ pv \in [Procs -> Ptr] /\ g[1] \in Ptr /\ g[2] \in Ptr
    BY <1>1, <1>3, <2>1 DEF Ptr
  <2>4. /\ r.next = nx /\ r.prev = pv /\ r.ready_queue = g[2] /\ r.ready_queue_tail = g[1]
        /\ r \in Links
    <3> HIDE DEF nx, pv
    <3> QED
      BY <1>3, <2>2, <2>3 DEF Links
  <2>5. ASSUME NEW i \in 1..n
        PROVE  /\ nx[a[i]] = IF i = n THEN NULL ELSE a[i + 1]
               /\ PrevOk(pv[a[i]], a[i], IF i = 1 THEN NULL ELSE a[i - 1])
    <3>1. CASE i = n
      <4>1. a[i] = g[1] /\ g[1] \in Procs /\ g[1] # g[n] /\ i # 1 /\ a[i - 1] = g[n]
        BY <1>1, <1>2, <2>1, <3>1
      <4>2. nx[g[1]] = NULL /\ pv[g[1]] = g[n]
        BY <4>1
      <4> HIDE DEF nx, pv
      <4> QED
        BY <3>1, <4>1, <4>2 DEF PrevOk
    <3>2. CASE i # n
      <4>1. /\ i + 1 \in 1..n /\ a[i] = g[i + 1] /\ g[i + 1] \in Procs /\ i + 1 # 1
            /\ g[i + 1] # g[1]
        BY <1>1, <1>2, <2>1, <3>2
      <4>2. nx[g[i + 1]] = IF g[i + 1] = g[n] THEN g[1] ELSE s.next[g[i + 1]]
        BY <4>1
      <4>3. pv[g[i + 1]] = IF g[i + 1] = g[2] THEN NULL ELSE s.prev[g[i + 1]]
        BY <4>1
      <4>4. (g[i + 1] = g[n] <=> i + 1 = n) /\ (g[i + 1] = g[2] <=> i = 1)
        BY <1>1, <1>2, <2>1, <4>1
      <4> HIDE DEF nx, pv
      <4>5. nx[a[i]] = a[i + 1]
        <5>1. CASE i + 1 = n
          BY <1>1, <2>1, <4>1, <4>2, <4>4, <5>1
        <5>2. CASE i + 1 # n
          BY <1>1, <1>2, <4>1, <4>2, <4>4, <5>2
        <5> QED
          BY <5>1, <5>2
      <4>6. PrevOk(pv[a[i]], a[i], IF i = 1 THEN NULL ELSE a[i - 1])
        <5>1. CASE i = 1
          BY <4>1, <4>3, <4>4, <5>1 DEF PrevOk
        <5>2. CASE i # 1
          <6>1. i - 1 \in 1..n /\ i - 1 # n /\ (i - 1) + 1 = i /\ (i + 1) - 1 = i
            BY <1>1, <5>2
          <6>2. a[i - 1] = g[(i - 1) + 1]
            BY <1>1, <6>1
          <6>3. PrevOk(s.prev[g[i + 1]], g[i + 1], g[(i + 1) - 1])
            BY <1>2, <4>1
          <6>4. a[i - 1] = g[i] /\ PrevOk(s.prev[g[i + 1]], g[i + 1], g[i])
            BY <6>1, <6>2, <6>3
          <6> QED
            BY <4>1, <4>3, <4>4, <5>2, <6>4
        <5> QED
          BY <5>1, <5>2
      <4> QED
        BY <3>2, <4>5, <4>6
    <3> QED
      BY <3>1, <3>2
  <2>6. \A i, j \in 1..n : a[i] = a[j] => i = j
    <3> DEFINE f(i) == IF i = n THEN 1 ELSE i + 1
    <3> SUFFICES ASSUME NEW i \in 1..n, NEW j \in 1..n, a[i] = a[j] PROVE i = j
      OBVIOUS
    <3>1. f(i) \in 1..n /\ f(j) \in 1..n /\ a[i] = g[f(i)] /\ a[j] = g[f(j)]
      BY <1>1, <2>1
    <3>2. f(i) = f(j)
      <4>1. g[f(i)] = g[f(j)]
        BY <3>1
      <4> HIDE DEF f
      <4> QED
        BY <1>2, <3>1, <4>1
    <3> QED
      BY <1>1, <3>2
  <2>7. a[1] = g[2] /\ a[n] = g[1]
    BY <1>1, <2>1
  <2> HIDE DEF nx, pv, r
  <2>8. ListOk(r, a)
    BY <1>1, <2>1, <2>4, <2>5, <2>6, <2>7 DEF ListOk
  <2> QED
    BY <2>4, <2>8 DEF r, a
<1> QED
  BY <1>1, <1>4, <1>5

(* The links after SYSCALL_EXIT's scheduler_remove and process_destroy. *)
Removed(s, p) == Unlist(Unqueue(s, p), p)

(* They take the head out of the queue, if its prev is null: the links     *)
(* that scheduler_remove has cleared keep process_destroy from writing to  *)
(* the queue.                                                              *)
LEMMA RemovedList ==
    ASSUME NEW s \in Links, NEW g \in Seq(Procs), ListOk(s, g), g # <<>>,
           s.prev[g[1]] = NULL
    PROVE  /\ Removed(s, g[1]) \in Links
           /\ Tail(g) \in Seq(Procs) /\ ListOk(Removed(s, g[1]), Tail(g))
<1> DEFINE n == Len(g)
           p == g[1]
           u == Unqueue(s, p)
           r == Removed(s, p)
           a == Tail(g)
<1>1. /\ n \in Nat /\ n > 0 /\ p \in Procs
      /\ \A i \in 1..n : g[i] \in Procs
      /\ \A x \in Procs : x # NULL
  <2>1. n \in Nat /\ n > 0 /\ \A i \in 1..n : g[i] \in Procs
    OBVIOUS
  <2>2. p \in Procs
    BY <2>1
  <2> QED
    BY <2>1, <2>2, NotNull
<1>2. /\ a \in Seq(Procs) /\ Len(a) = n - 1 /\ \A i \in 1..(n - 1) : a[i] = g[i + 1]
  BY <1>1
<1>3. /\ \A i, j \in 1..n : g[i] = g[j] => i = j
      /\ s.ready_queue_tail = g[n]
      /\ s.prev[p] = NULL /\ s.next[p] = IF n = 1 THEN NULL ELSE g[2]
      /\ \A i \in 1..n : /\ s.next[g[i]] = IF i = n THEN NULL ELSE g[i + 1]
                         /\ PrevOk(s.prev[g[i]], g[i], IF i = 1 THEN NULL ELSE g[i - 1])
  <2>1. /\ \A i, j \in 1..n : g[i] = g[j] => i = j
        /\ s.ready_queue_tail = g[n]
        /\ \A i \in 1..n : /\ s.next[g[i]] = IF i = n THEN NULL ELSE g[i + 1]
                           /\ PrevOk(s.prev[g[i]], g[i], IF i = 1 THEN NULL ELSE g[i - 1])
    BY <1>1 DEF ListOk
  <2>2. 1 \in 1..n /\ 1 + 1 = 2 /\ (1 = n <=> n = 1)
    BY <1>1
  <2> HIDE DEF n
  <2>3. s.prev[g[1]] = NULL /\ s.next[g[1]] = IF n = 1 THEN NULL ELSE g[2]
    BY <2>1, <2>2
  <2> QED
    BY <2>1, <2>3
<1>4. /\ s.next \in [Procs -> Ptr] /\ s.prev \in [Procs -> Ptr] /\ s.process_list \in Ptr
      /\ s.ready_queue \in Ptr /\ s.ready_queue_tail \in Ptr /\ NULL \in Ptr
  BY DEF Links, Ptr
<1> HIDE DEF p, a, n
<1> DEFINE nx == [x \in Procs |-> IF x = p THEN NULL ELSE s.next[x]]
           pv == [x \in Procs |-> IF x = p THEN NULL ELSE IF x = s.next[p] THEN NULL ELSE s.prev[x]]
           tail == IF s.next[p] = NULL THEN NULL ELSE s.ready_queue_tail
<1>5. nx \in [Procs -> Ptr] /\ pv \in [Procs -> Ptr] /\ tail \in Ptr
  BY <1>4
<1>6. /\ u = [s EXCEPT !.next = nx, !.prev = pv, !.ready_queue = s.next[p], !.ready_queue_tail = tail]
  <2>1. nx = [x \in Procs |-> IF x = p THEN NULL
                              ELSE IF x = s.prev[p] THEN s.next[p] ELSE s.next[x]]
    BY <1>1, <1>3
  <2>2. pv = [x \in Procs |-> IF x = p THEN NULL
                              ELSE IF x = s.next[p] THEN s.prev[p] ELSE s.prev[x]]
    BY <1>3
  <2> HIDE DEF nx, pv
  <2> QED
    BY <1>3, <2>1, <2>2 DEF Unqueue
<1>7. /\ u.next = nx /\ u.prev = pv /\ u.ready_queue = s.next[p] /\ u.ready_queue_tail = tail
      /\ u.process_list = s.process_list /\ u \in Links
  <2>1. s.next[p] \in Ptr
    BY <1>1, <1>4
  <2> HIDE DEF nx, pv, tail, u
  <2> QED
    BY <1>4, <1>5, <1>6, <2>1 DEF Links
<1>8. nx[p] = NULL /\ pv[p] = NULL
  BY <1>1
<1> DEFINE pl == IF u.process_list = p THEN NULL ELSE u.process_list
<1>9. r = [u EXCEPT !.next = nx, !.prev = pv, !.process_list = pl]
  <2>1. nx = [x \in Procs |-> IF x = pv[p] THEN nx[p] ELSE nx[x]]
    BY <1>1, <1>8
  <2>2. pv = [x \in Procs |-> IF x = nx[p] THEN pv[p] ELSE pv[x]]
    BY <1>1, <1>8
  <2> HIDE DEF nx, pv, u
  <2> QED
    BY <1>7, <1>8, <2>1, <2>2 DEF Removed, Unlist, u
<1>10. /\ r.next = nx /\ r.prev = pv /\ r.ready_queue = s.next[p] /\ r.ready_queue_tail = tail
       /\ r \in Links
  <2>1. pl \in Ptr
    BY <1>4, <1>7
  <2> HIDE DEF nx, pv, tail, u, pl, r
  <2> QED
    BY <1>5, <1>7, <1>9, <2>1 DEF Links
<1>11. ASSUME NEW i \in 1..(n - 1)
       PROVE  /\ nx[a[i]] = IF i = n - 1 THEN NULL ELSE a[i + 1]
              /\ PrevOk(pv[a[i]], a[i], IF i = 1 THEN NULL ELSE a[i - 1])
  <2>1. /\ i + 1 \in 1..n /\ 1 \in 1..n /\ i + 1 # 1 /\ (i + 1 = n <=> i = n - 1) /\ n # 1
        /\ (i + 1) - 1 = i
    BY <1>1
  <2>2. a[i] = g[i + 1] /\ a[i] \in Procs /\ a[i] # p
    BY <1>1, <1>2, <1>3, <2>1 DEF p
  <2>3. nx[a[i]] = s.next[a[i]] /\ pv[a[i]] = IF a[i] = g[2] THEN NULL ELSE s.prev[a[i]]
    BY <1>3, <2>1, <2>2
  <2>4. a[i] = g[2] <=> i = 1
    BY <1>1, <1>3, <2>1, <2>2
  <2> HIDE DEF nx, pv
  <2>5. nx[a[i]] = IF i = n - 1 THEN NULL ELSE a[i + 1]
    <3>1. s.next[a[i]] = IF i + 1 = n THEN NULL ELSE g[(i + 1) + 1]
      BY <1>3, <2>1, <2>2
    <3>2. i # n - 1 => i + 1 \in 1..(n - 1)
      BY <1>1
    <3>3. i # n - 1 => a[i + 1] = g[(i + 1) + 1]
      BY <1>2, <3>2
    <3> QED
      BY <2>1, <2>3, <3>1, <3>3
  <2>6. PrevOk(pv[a[i]], a[i], IF i = 1 THEN NULL ELSE a[i - 1])
    <3>1. PrevOk(s.prev[a[i]], a[i], g[i])
      BY <1>3, <2>1, <2>2
    <3>2. i # 1 => i - 1 \in 1..(n - 1) /\ (i - 1) + 1 = i
      BY <1>1
    <3>3. i # 1 => a[i - 1] = g[i]
      BY <1>2, <3>2
    <3> QED
      BY <2>3, <2>4, <3>1, <3>3 DEF PrevOk
  <2> QED
    BY <2>5, <2>6
<1>12. /\ \A i, j \in 1..(n - 1) : a[i] = a[j] => i = j
       /\ s.next[p] = IF n - 1 = 0 THEN NULL ELSE a[1]
       /\ tail = IF n - 1 = 0 THEN NULL ELSE a[n - 1]
  <2>1. \A i, j \in 1..(n - 1) : a[i] = a[j] => i = j
    <3> SUFFICES ASSUME NEW i \in 1..(n - 1), NEW j \in 1..(n - 1), a[i] = a[j] PROVE i = j
      OBVIOUS
    <3>1. i + 1 \in 1..n /\ j + 1 \in 1..n /\ g[i + 1] = g[j + 1]
      BY <1>1, <1>2
    <3>2. i + 1 = j + 1
      BY <1>3, <3>1
    <3> QED
      BY <1>1, <3>2
  <2>2. CASE n = 1
    BY <1>1, <1>3, <2>1, <2>2
  <2>3. CASE n # 1
    <3>1. /\ n - 1 # 0 /\ 1 \in 1..(n - 1) /\ n - 1 \in 1..(n - 1) /\ (n - 1) + 1 = n /\ 1 + 1 = 2
          /\ 2 \in 1..n
      BY <1>1, <2>3
    <3>2. a[1] = g[2] /\ a[n - 1] = g[n] /\ g[2] # NULL
      BY <1>1, <1>2, <3>1
    <3> QED
      BY <1>3, <2>1, <2>3, <3>1, <3>2
  <2> QED
    BY <2>2, <2>3
<1> HIDE DEF nx, pv, tail, u, pl, r
<1>13. ListOk(r, a)
  BY <1>2, <1>10, <1>11, <1>12 DEF ListOk
<1> QED
  BY <1>2, <1>10, <1>13 DEF r, a, p

-----------------------------------------------------------------------------
(* What the operations do to the ready queue *)

(* Types, and: no pid is in use before its creation. *)
TInv ==
    /\ TypeOK
    /\ q.process_list < next_pid
    /\ \A p \in torn : p < next_pid
    /\ \A p \in Procs : p >= next_pid => state[p] = "none"

(* The ready queue is a proper list of live processes whose head, if       *)
(* anybody live runs, is the running one.                                  *)
QInv ==
    /\ TInv
    /\ ReadyQueue \in Seq(Procs) /\ ListOk(q, ReadyQueue)
    /\ \A i \in 1..Len(ReadyQueue) : state[ReadyQueue[i]] = "ready"
    /\ RunningIsHead
    /\ current_process \in Procs => state[current_process] # "none"

(* What the links hold is what ReadyQueue reads. *)
LEMMA QueueRead ==
    ASSUME NEW g \in Seq(Procs)
    PROVE  /\ ListOk(q, g) => ReadyQueue = g
           /\ ListOk(q', g) => ReadyQueue' = g
  BY ChainIsList DEF ReadyQueue

(* The queue is empty when ready_queue is null, and else it begins there. *)
LEMMA QueueHead ==
    ASSUME NEW s, NEW g \in Seq(Procs), ListOk(s, g)
    PROVE  /\ Len(g) = 0 <=> g = <<>>
           /\ s.ready_queue = NULL <=> g = <<>>
           /\ g # <<>> => s.ready_queue = g[1] /\ g[1] = Head(g) /\ g[1] \in Procs
<1>1. Len(g) \in Nat /\ (Len(g) = 0 <=> g = <<>>)
  OBVIOUS
<1>2. g # <<>> => g[1] \in Procs /\ g[1] = Head(g)
  BY <1>1
<1>3. s.ready_queue = IF Len(g) = 0 THEN NULL ELSE g[1]
  BY DEF ListOk
<1> QED
  BY <1>1, <1>2, <1>3, NotNull

(* process_create leaves the queue as it is: it writes the prev link of    *)
(* the process created last, and next links only of the new one.           *)
LEMMA CreateEffect ==
    ASSUME QInv, process_create
    PROVE  ReadyQueue' = ReadyQueue /\ q'.ready_queue = q.ready_queue /\ ListOk(q', ReadyQueue)
<1> DEFINE p == next_pid
           g == ReadyQueue
<1>1. q' = LinkNew(q, p) /\ p \in Procs
  BY DEF process_create
<1>2. /\ q \in Links /\ g \in Seq(Procs) /\ ListOk(q, g)
      /\ \A i \in 1..Len(g) : state[g[i]] = "ready"
      /\ q.process_list < p /\ \A x \in Procs : x >= p => state[x] = "none"
  BY DEF QInv, TInv, TypeOK, Links, Ptr
<1> DEFINE nx == [x \in Procs |-> IF x = p THEN q.process_list ELSE q.next[x]]
           pv == [x \in Procs |-> IF x = q.process_list THEN p
                                  ELSE IF x = p THEN NULL ELSE q.prev[x]]
<1>3. q' = [q EXCEPT !.next = nx, !.prev = pv, !.process_list = p]
  BY <1>1 DEF LinkNew
<1>4. /\ q'.next = nx /\ q'.prev = pv
      /\ q'.ready_queue = q.ready_queue /\ q'.ready_queue_tail = q.ready_queue_tail
  <2> HIDE DEF nx, pv
  <2> QED
    BY <1>2, <1>3 DEF Links
<1>5. /\ \A i, j \in 1..Len(g) : g[i] = g[j] => i = j
      /\ q.ready_queue = IF Len(g) = 0 THEN NULL ELSE g[1]
      /\ q.ready_queue_tail = IF Len(g) = 0 THEN NULL ELSE g[Len(g)]
      /\ \A i \in 1..Len(g) : /\ q.next[g[i]] = IF i = Len(g) THEN NULL ELSE g[i + 1]
                              /\ PrevOk(q.prev[g[i]], g[i], IF i = 1 THEN NULL ELSE g[i - 1])
  BY <1>2 DEF ListOk
<1>6. \A i \in 1..Len(g) : g[i] \in Procs
  BY <1>2
<1> HIDE DEF g
<1>7. ASSUME NEW i \in 1..Len(g) PROVE g[i] # p
  <2>1. p \in Int /\ p >= p
    BY <1>1, NotNull DEF Procs
  <2>2. state[p] = "none"
    BY <1>1, <1>2, <2>1
  <2> QED
    BY <1>2, <2>2
<1>8. ASSUME NEW i \in 1..Len(g)
      PROVE  /\ nx[g[i]] = q.next[g[i]]
             /\ PrevOk(pv[g[i]], g[i], IF i = 1 THEN NULL ELSE g[i - 1])
  <2>1. CASE g[i] = q.process_list
    <3>1. pv[g[i]] = p
      BY <1>6, <2>1
    <3>2. p > g[i]
      BY <1>1, <1>2, <1>6, <2>1, NotNull DEF Procs
    <3> QED
      BY <1>6, <1>7, <3>1, <3>2 DEF PrevOk
  <2>2. CASE g[i] # q.process_list
    <3>1. pv[g[i]] = q.prev[g[i]] /\ nx[g[i]] = q.next[g[i]]
      BY <1>6, <1>7, <2>2
    <3> HIDE DEF nx, pv
    <3> QED
      BY <1>5, <3>1
  <2> QED
    BY <2>1, <2>2
<1> HIDE DEF nx, pv
<1>9. ListOk(q', g)
  BY <1>4, <1>5, <1>8 DEF ListOk
<1> QED
  BY <1>2, <1>4, <1>9, QueueRead DEF g

(* scheduler_add appends. *)
LEMMA AddEffect ==
    ASSUME QInv, NEW p \in Procs, scheduler_add(p)
    PROVE  /\ \A i \in 1..Len(ReadyQueue) : ReadyQueue[i] # p
           /\ ReadyQueue' = Append(ReadyQueue, p)
           /\ q' \in Links /\ ListOk(q', ReadyQueue') /\ ReadyQueue' \in Seq(Procs)
<1>1. q \in Links /\ ReadyQueue \in Seq(Procs) /\ ListOk(q, ReadyQueue)
  BY DEF QInv, TInv, TypeOK, Links, Ptr
<1>2. q' = Enqueue(q, p) /\ \A i \in 1..Len(ReadyQueue) : ReadyQueue[i] # p
  BY DEF scheduler_add, Contains, ReadyQueue
<1>3. /\ q' \in Links /\ Append(ReadyQueue, p) \in Seq(Procs)
      /\ ListOk(q', Append(ReadyQueue, p))
  BY <1>1, <1>2, EnqueueList
<1>4. ReadyQueue' = Append(ReadyQueue, p)
  BY <1>3, QueueRead
<1> QED
  BY <1>2, <1>3, <1>4

(* The switch at the end of a scheduling step. *)
LEMMA SwitchEffect ==
    ASSUME NEW g \in Seq(Procs), ListOk(q', g), SwitchTo(q'.ready_queue)
    PROVE  current_process' = IF g = <<>> THEN current_process ELSE g[1]
<1>1. /\ q'.ready_queue = NULL <=> g = <<>>
      /\ g # <<>> => q'.ready_queue = g[1]
  BY QueueHead
<1> QED
  BY <1>1 DEF SwitchTo

(* scheduler_tick moves the head to the end and runs the new head. *)
LEMMA TickEffect ==
    ASSUME QInv, scheduler_tick
    PROVE  /\ ReadyQueue # <<>> /\ ReadyQueue' = RR!Rotated(ReadyQueue)
           /\ q' \in Links /\ ListOk(q', ReadyQueue') /\ ReadyQueue' \in Seq(Procs)
           /\ ReadyQueue' # <<>> /\ current_process' = ReadyQueue'[1]
<1>1. q \in Links /\ ReadyQueue \in Seq(Procs) /\ ListOk(q, ReadyQueue)
  BY DEF QInv, TInv, TypeOK, Links, Ptr
<1>2. q.ready_queue # NULL /\ q' = Rotate(q) /\ SwitchTo(q'.ready_queue)
  BY DEF scheduler_tick
<1> DEFINE g == RR!Rotated(ReadyQueue)
<1>3. q' \in Links /\ ListOk(q', g) /\ g \in Seq(Procs) /\ Len(g) = Len(ReadyQueue)
  BY <1>1, <1>2, RotateList, RotatedSeq
<1>4. ReadyQueue' = g
  BY <1>3, QueueRead
<1>5. ReadyQueue # <<>>
  BY <1>1, <1>2, QueueHead
<1> HIDE DEF g
<1>6. g # <<>>
  BY <1>1, <1>3, <1>5
<1>7. current_process' = g[1]
  BY <1>2, <1>3, <1>6, SwitchEffect
<1> QED
  BY <1>3, <1>4, <1>5, <1>6, <1>7 DEF g

(* SYSCALL_EXIT takes the head out, which is the caller, and rotates the   *)
(* rest.                                                                   *)
LEMMA ExitEffect ==
    ASSUME QInv, SYSCALL_EXIT, ~lost'
    PROVE  /\ ReadyQueue # <<>> /\ current_process = ReadyQueue[1]
           /\ ReadyQueue' = RR!Rotated(Tail(ReadyQueue))
           /\ q' \in Links /\ ListOk(q', ReadyQueue') /\ ReadyQueue' \in Seq(Procs)
           /\ current_process' = IF ReadyQueue' = <<>> THEN current_process ELSE ReadyQueue'[1]
<1>1. /\ q \in Links /\ ReadyQueue \in Seq(Procs) /\ ListOk(q, ReadyQueue)
      /\ current_process \in Procs \cup {NULL}
  BY DEF QInv, TInv, TypeOK, Links, Ptr
<1>2. /\ current_process # NULL /\ state[current_process] = "ready"
      /\ q' = Rotate(Removed(q, current_process)) /\ SwitchTo(q'.ready_queue)
      /\ q.prev[current_process] = NULL
  BY DEF SYSCALL_EXIT, Removed
<1>3. current_process = q.ready_queue
  BY <1>1, <1>2 DEF QInv, RunningIsHead, Live
<1>4. ReadyQueue # <<>> /\ current_process = ReadyQueue[1]
  BY <1>1, <1>2, <1>3, QueueHead
<1> DEFINE r == Removed(q, current_process)
           a == Tail(ReadyQueue)
           g == RR!Rotated(a)
<1>5. r \in Links /\ a \in Seq(Procs) /\ ListOk(r, a)
  BY <1>1, <1>2, <1>4, RemovedList
<1> HIDE DEF r, a
<1>6. q' \in Links /\ ListOk(q', g) /\ g \in Seq(Procs)
  BY <1>2, <1>5, RotateList, RotatedSeq DEF r
<1>7. ReadyQueue' = g
  BY <1>6, QueueRead
<1>8. current_process' = IF g = <<>> THEN current_process ELSE g[1]
  BY <1>2, <1>6, SwitchEffect
<1> QED
  BY <1>4, <1>6, <1>7, <1>8 DEF a

-----------------------------------------------------------------------------
(* The type invariant *)

(* Everything but the links. *)
RestTyped ==
    /\ current_process \in Procs \cup {NULL}
    /\ next_pid \in 1..(MaxProcs + 1)
    /\ state \in [Procs -> {"none", "ready", "zombie"}]
    /\ stack_bottom \in [Procs -> Pages \cup {NULL}]
    /\ used \subseteq Pages
    /\ owner \in [Pages -> 0..(MaxProcs + 1)]
    /\ wait \in [Procs -> Nat]
    /\ torn \subseteq Procs
    /\ lost \in BOOLEAN

LEMMA TypeParts == TypeOK <=> q \in Links /\ RestTyped
  BY DEF TypeOK, Links, Ptr, RestTyped

LEMMA TypePartsNext == q' \in Links /\ RestTyped' => TypeOK'
  BY DEF TypeOK, Links, Ptr, RestTyped

(* The operations on the links write pointers into them, whatever they     *)
(* hold, and only process_create puts a process at the head of the list.   *)
LEMMA LinksTyped ==
    ASSUME NEW s \in Links, NEW p \in Procs
    PROVE  /\ LinkNew(s, p) \in Links /\ LinkNew(s, p).process_list = p
           /\ Enqueue(s, p) \in Links /\ Enqueue(s, p).process_list = s.process_list
           /\ Rotate(s) \in Links /\ Rotate(s).process_list = s.process_list
           /\ Removed(s, p) \in Links
           /\ Removed(s, p).process_list \in {NULL, s.process_list}
<1>1. /\ s.next \in [Procs -> Ptr] /\ s.prev \in [Procs -> Ptr] /\ s.process_list \in Ptr
      /\ s.ready_queue \in Ptr /\ s.ready_queue_tail \in Ptr /\ NULL \in Ptr /\ p \in Ptr
  BY DEF Links, Ptr
<1>3. LinkNew(s, p) \in Links /\ LinkNew(s, p).process_list = p
  <2> DEFINE nx == [x \in Procs |-> IF x = p THEN s.process_list ELSE s.next[x]]
             pv == [x \in Procs |-> IF x = s.process_list THEN p
                                    ELSE IF x = p THEN NULL ELSE s.prev[x]]
  <2>1. nx \in [Procs -> Ptr] /\ pv \in [Procs -> Ptr]
    BY <1>1
  <2>2. LinkNew(s, p) = [s EXCEPT !.next = nx, !.prev = pv, !.process_list = p]
    BY DEF LinkNew
  <2> HIDE DEF nx, pv
  <2> QED
    BY <1>1, <2>1, <2>2 DEF Links
<1>4. Enqueue(s, p) \in Links /\ Enqueue(s, p).process_list = s.process_list
  <2>1. CASE s.ready_queue = NULL
    <3> DEFINE nx == [s.next EXCEPT ![p] = NULL]
               pv == [s.prev EXCEPT ![p] = NULL]
    <3>1. nx \in [Procs -> Ptr] /\ pv \in [Procs -> Ptr]
      BY <1>1
    <3>2. Enqueue(s, p) = [s EXCEPT !.next = nx, !.prev = pv,
                                    !.ready_queue = p, !.ready_queue_tail = p]
      BY <2>1 DEF Enqueue, Links
    <3> HIDE DEF nx, pv
    <3> QED
      BY <1>1, <3>1, <3>2 DEF Links
  <2>2. CASE s.ready_queue # NULL
    <3> DEFINE nx == [x \in Procs |-> IF x = p THEN NULL
                                      ELSE IF x = s.ready_queue_tail THEN p ELSE s.next[x]]
               pv == [s.prev EXCEPT ![p] = s.ready_queue_tail]
    <3>1. nx \in [Procs -> Ptr] /\ pv \in [Procs -> Ptr]
      BY <1>1
    <3>2. Enqueue(s, p) = [s EXCEPT !.next = nx, !.prev = pv, !.ready_queue_tail = p]
      BY <2>2 DEF Enqueue, Links
    <3> HIDE DEF nx, pv
    <3> QED
      BY <1>1, <3>1, <3>2 DEF Links
  <2> QED
    BY <2>1, <2>2
<1>5. Rotate(s) \in Links /\ Rotate(s).process_list = s.process_list
  <2> DEFINE head == s.ready_queue
  <2>1. CASE head = NULL \/ s.next[head] = NULL
    BY <2>1 DEF Rotate
  <2>2. CASE ~(head = NULL \/ s.next[head] = NULL)
    <3> DEFINE nx == [x \in Procs |-> IF x = s.ready_queue_tail THEN head
                                      ELSE IF x = head THEN NULL ELSE s.next[x]]
               pv == [x \in Procs |-> IF x = head THEN s.ready_queue_tail
                                      ELSE IF x = s.next[head] THEN NULL ELSE s.prev[x]]
    <3>1. nx \in [Procs -> Ptr] /\ pv \in [Procs -> Ptr]
      BY <1>1
    <3>2. Rotate(s) = [s EXCEPT !.next = nx, !.prev = pv,
                                !.ready_queue = s.next[head], !.ready_queue_tail = head]
      BY <2>2 DEF Rotate
    <3>3. s.next[head] \in Ptr
      BY <1>1, <2>2 DEF Ptr
    <3> HIDE DEF nx, pv
    <3> QED
      BY <1>1, <3>1, <3>2, <3>3 DEF Links
  <2> QED
    BY <2>1, <2>2
<1> DEFINE u == Unqueue(s, p)
<1>6. /\ u \in Links /\ u.process_list = s.process_list
      /\ u.next[p] = NULL /\ u.prev[p] = NULL
  <2> DEFINE nx == [x \in Procs |-> IF x = p THEN NULL
                                    ELSE IF x = s.prev[p] THEN s.next[p] ELSE s.next[x]]
             pv == [x \in Procs |-> IF x = p THEN NULL
                                    ELSE IF x = s.next[p] THEN s.prev[p] ELSE s.prev[x]]
             h == IF s.prev[p] = NULL THEN s.next[p] ELSE s.ready_queue
             e == IF s.next[p] = NULL THEN s.prev[p] ELSE s.ready_queue_tail
  <2>1. /\ nx \in [Procs -> Ptr] /\ pv \in [Procs -> Ptr] /\ h \in Ptr /\ e \in Ptr
        /\ nx[p] = NULL /\ pv[p] = NULL
    BY <1>1
  <2>2. u = [s EXCEPT !.next = nx, !.prev = pv, !.ready_queue = h, !.ready_queue_tail = e]
    BY DEF Unqueue
  <2> HIDE DEF nx, pv, h, e, u
  <2>3. u.next = nx /\ u.prev = pv
    BY <1>1, <2>2 DEF Links
  <2> QED
    BY <1>1, <2>1, <2>2, <2>3 DEF Links
<1> HIDE DEF u
<1>7. Removed(s, p) \in Links /\ Removed(s, p).process_list \in {NULL, s.process_list}
  <2> DEFINE nx == [x \in Procs |-> IF x = u.prev[p] THEN u.next[p] ELSE u.next[x]]
             pv == [x \in Procs |-> IF x = u.next[p] THEN u.prev[p] ELSE u.prev[x]]
             l == IF u.process_list = p THEN u.next[p] ELSE u.process_list
  <2>1. nx \in [Procs -> Ptr] /\ pv \in [Procs -> Ptr] /\ l \in Ptr /\ l \in {NULL, s.process_list}
    BY <1>1, <1>6 DEF Links
  <2>2. Removed(s, p) = [u EXCEPT !.next = nx, !.prev = pv, !.process_list = l]
    BY DEF Removed, Unlist, u
  <2> HIDE DEF nx, pv, l
  <2> QED
    BY <1>1, <1>6, <2>1, <2>2 DEF Links
<1> QED
  BY <1>3, <1>4, <1>5, <1>7

(* A set of pages that is not empty has a first one. *)
LEMMA FirstPage ==
    ASSUME NEW S \in SUBSET Pages, S # {}
    PROVE  Min(S) \in S /\ \A g \in S : Min(S) <= g
<1>1. S \in SUBSET Nat
  BY ProcessAssumption DEF Pages
<1>2. \E x \in S : \A y \in S : x <= y
  BY <1>1, LeastNat
<1> QED
  BY <1>2 DEF Min

(* Switching leaves a process running and counts the others' waits. *)
LEMMA SwitchTyped ==
    ASSUME current_process \in Procs \cup {NULL}, wait \in [Procs -> Nat],
           q' \in Links, SwitchTo(q'.ready_queue)
    PROVE  current_process' \in Procs \cup {NULL} /\ wait' \in [Procs -> Nat]
<1>1. q'.ready_queue \in Procs \cup {NULL}
  BY DEF Links, Ptr
<1>2. current_process' \in Procs \cup {NULL}
  BY <1>1 DEF SwitchTo
<1>3. \A x \in Procs : wait[x] + 1 \in Nat /\ wait[x] \in Nat
  OBVIOUS
<1>4. wait' \in [Procs -> Nat]
  BY <1>3 DEF SwitchTo
<1> QED
  BY <1>2, <1>4

LEMMA CreateTyped == ASSUME RestTyped, process_create PROVE RestTyped'
<1>1. /\ next_pid \in Procs /\ Cardinality(Clear) >= StackPages
      /\ used' = used \cup Lowest(StackPages)
      /\ owner' = [g \in Pages |-> IF g \in Lowest(StackPages) THEN next_pid ELSE owner[g]]
      /\ stack_bottom' = [stack_bottom EXCEPT ![next_pid] = Min(Clear)]
      /\ state' = [state EXCEPT ![next_pid] = "ready"]
      /\ next_pid' = next_pid + 1 /\ torn' \in {torn, torn \cup {next_pid}}
      /\ UNCHANGED <<current_process, wait, lost>>
  BY DEF process_create, Take, Torn
<1>2. MaxProcs \in Nat /\ StackPages \in Nat \ {0}
  BY ProcessAssumption
<1>3. next_pid \in 0..(MaxProcs + 1) /\ next_pid + 1 \in 1..(MaxProcs + 1)
  BY <1>1, <1>2 DEF Procs
<1>4. Lowest(StackPages) \subseteq Pages /\ Clear \in SUBSET Pages
  BY DEF Lowest, Clear
<1>5. Clear # {}
  BY <1>1, <1>2, FS_EmptySet
<1>6. Min(Clear) \in Pages
  BY <1>4, <1>5, FirstPage
<1> QED
  BY <1>1, <1>3, <1>4, <1>6 DEF RestTyped

LEMMA CreateFailsTyped == ASSUME RestTyped, process_create_fails PROVE RestTyped'
<1>1. PICK back :
        /\ next_pid \in Procs
        /\ used' = (used \cup Clear) \ back
        /\ owner' = [g \in Pages |-> IF g \in back THEN NULL
                                     ELSE IF g \in Clear THEN next_pid ELSE owner[g]]
        /\ next_pid' = next_pid + 1
        /\ torn' \in {torn, torn \cup {next_pid}}
        /\ UNCHANGED <<q, current_process, state, stack_bottom, wait, lost>>
  BY DEF process_create_fails, Torn
<1>2. MaxProcs \in Nat
  BY ProcessAssumption
<1>3. next_pid \in 0..(MaxProcs + 1) /\ next_pid + 1 \in 1..(MaxProcs + 1)
      /\ NULL \in 0..(MaxProcs + 1)
  BY <1>1, <1>2 DEF Procs, NULL
<1> QED
  BY <1>1, <1>3 DEF RestTyped, Clear

LEMMA KernelTyped == ASSUME RestTyped, KernelAlloc PROVE RestTyped'
<1>1. /\ used' = used \cup Lowest(1)
      /\ owner' = [g \in Pages |-> IF g \in Lowest(1) THEN Kernel ELSE owner[g]]
      /\ UNCHANGED <<q, current_process, next_pid, state, stack_bottom, wait, torn, lost>>
  BY DEF KernelAlloc, Take
<1>2. Kernel \in 0..(MaxProcs + 1)
  BY ProcessAssumption DEF Kernel
<1> QED
  BY <1>1, <1>2 DEF RestTyped, Lowest, Clear

LEMMA AddTyped == ASSUME RestTyped, NEW p \in Procs, scheduler_add(p) PROVE RestTyped'
  BY DEF RestTyped, scheduler_add

LEMMA TickTyped == ASSUME RestTyped, q' \in Links, scheduler_tick PROVE RestTyped'
<1>1. /\ SwitchTo(q'.ready_queue)
      /\ UNCHANGED <<next_pid, state, stack_bottom, used, owner, torn, lost>>
  BY DEF scheduler_tick
<1>2. current_process' \in Procs \cup {NULL} /\ wait' \in [Procs -> Nat]
  BY <1>1, SwitchTyped DEF RestTyped
<1> QED
  BY <1>1, <1>2 DEF RestTyped

LEMMA ExitTyped == ASSUME RestTyped, q' \in Links, SYSCALL_EXIT PROVE RestTyped'
<1>1. PICK back :
        /\ used' = used \ back
        /\ owner' = [g \in Pages |-> IF g \in back THEN NULL ELSE owner[g]]
        /\ state' = [state EXCEPT ![current_process] = "zombie"]
        /\ SwitchTo(q'.ready_queue)
        /\ lost' \in BOOLEAN
        /\ UNCHANGED <<next_pid, stack_bottom, torn>>
  BY DEF SYSCALL_EXIT, RestTyped
<1>2. current_process' \in Procs \cup {NULL} /\ wait' \in [Procs -> Nat]
  BY <1>1, SwitchTyped DEF RestTyped
<1>3. NULL \in 0..(MaxProcs + 1)
  BY ProcessAssumption DEF NULL
<1> QED
  BY <1>1, <1>2, <1>3 DEF RestTyped

-----------------------------------------------------------------------------
(* The ready queue *)

LEMMA InitQInv == Init => QInv
<1> SUFFICES ASSUME Init PROVE QInv
  OBVIOUS
<1>1. MaxProcs \in Nat /\ NumPages \in Nat
  BY ProcessAssumption
<1>2. /\ q \in Links /\ q.ready_queue = NULL /\ q.ready_queue_tail = NULL
      /\ q.process_list < next_pid
  BY DEF Init, Links, Ptr, NULL
<1>3. RestTyped
  <2>1. Kernel \in 0..(MaxProcs + 1) /\ NULL \in 0..(MaxProcs + 1) /\ Holes \subseteq Pages
        /\ 1 \in 1..(MaxProcs + 1) /\ 0 \in Nat
    BY <1>1, ProcessAssumption DEF Kernel, NULL, Pages
  <2> QED
    BY <2>1 DEF Init, RestTyped
<1>4. ListOk(q, <<>>) /\ <<>> \in Seq(Procs)
  BY <1>2 DEF ListOk
<1>5. ReadyQueue = <<>>
  BY <1>4, QueueRead
<1>6. RunningIsHead /\ current_process \notin Procs
  BY NotNull DEF Init, RunningIsHead, Live
<1>7. TInv
  <2>1. torn = {} /\ \A p \in Procs : state[p] = "none"
    BY DEF Init
  <2> QED
    BY <1>2, <1>3, <2>1, TypeParts DEF TInv
<1> QED
  BY <1>4, <1>5, <1>6, <1>7 DEF QInv

(* Every step keeps the types, also when the queue has been lost. *)
LEMMA NextTInv == TInv /\ [Next]_vars => TInv'
<1> SUFFICES ASSUME TInv, [Next]_vars PROVE TInv'
  OBVIOUS
<1>1. /\ RestTyped /\ q \in Links /\ q.process_list < next_pid
      /\ (\A p \in torn : p < next_pid)
      /\ \A p \in Procs : p >= next_pid => state[p] = "none"
  BY TypeParts DEF TInv
<1>2. /\ MaxProcs \in Nat /\ next_pid \in Int /\ next_pid > 0 /\ Procs \subseteq Int
      /\ state \in [Procs -> {"none", "ready", "zombie"}] /\ torn \subseteq Procs
      /\ q.process_list \in Int /\ NULL < next_pid
  BY <1>1, NotNull DEF RestTyped, Procs, Links, Ptr, NULL
<1>3. ASSUME q' \in Links, RestTyped', q'.process_list \in {NULL, q.process_list},
             next_pid' = next_pid, torn' = torn,
             \A p \in Procs : state[p] = "none" => state'[p] = "none"
      PROVE  TInv'
  <2>1. q'.process_list < next_pid'
    BY <1>1, <1>2, <1>3
  <2>2. \A p \in torn' : p < next_pid'
    BY <1>1, <1>3
  <2>3. \A p \in Procs : p >= next_pid' => state'[p] = "none"
    BY <1>1, <1>3
  <2> QED
    BY <1>3, <2>1, <2>2, <2>3, TypePartsNext DEF TInv
<1>4. ASSUME q' \in Links, RestTyped', q'.process_list \in {next_pid, q.process_list},
             next_pid' = next_pid + 1, torn' \in {torn, torn \cup {next_pid}},
             \A p \in Procs \ {next_pid} : state'[p] = state[p]
      PROVE  TInv'
  <2>1. q'.process_list < next_pid'
    BY <1>1, <1>2, <1>4
  <2>2. \A p \in torn' : p < next_pid'
    <3> SUFFICES ASSUME NEW p \in torn' PROVE p < next_pid + 1
      BY <1>4
    <3>1. p \in torn \/ p = next_pid
      BY <1>4
    <3>2. CASE p \in torn
      <4>1. p \in Int /\ p < next_pid
        BY <1>1, <1>2, <3>2
      <4> QED
        BY <1>2, <4>1
    <3>3. CASE p = next_pid
      BY <1>2, <3>3
    <3> QED
      BY <3>1, <3>2, <3>3
  <2>3. ASSUME NEW p \in Procs, p >= next_pid' PROVE state'[p] = "none"
    <3>1. p >= next_pid /\ p # next_pid
      BY <1>2, <1>4, <2>3
    <3> QED
      BY <1>1, <1>4, <3>1
  <2> QED
    BY <1>4, <2>1, <2>2, <2>3, TypePartsNext DEF TInv
<1>5. CASE process_create
  <2>1. /\ next_pid \in Procs /\ q' = LinkNew(q, next_pid) /\ next_pid' = next_pid + 1
        /\ torn' \in {torn, torn \cup {next_pid}}
        /\ state' = [state EXCEPT ![next_pid] = "ready"]
    BY <1>5 DEF process_create, Torn
  <2>2. RestTyped'
    BY <1>1, <1>5, CreateTyped
  <2>3. q' \in Links /\ q'.process_list = next_pid
    BY <1>1, <2>1, LinksTyped
  <2>4. \A p \in Procs \ {next_pid} : state'[p] = state[p]
    BY <1>2, <2>1
  <2> QED
    BY <1>4, <2>1, <2>2, <2>3, <2>4
<1>6. CASE process_create_fails
  <2>1. /\ q' = q /\ state' = state /\ next_pid' = next_pid + 1
        /\ torn' \in {torn, torn \cup {next_pid}}
    BY <1>6 DEF process_create_fails, Torn
  <2>2. RestTyped'
    BY <1>1, <1>6, CreateFailsTyped
  <2> QED
    BY <1>1, <1>4, <2>1, <2>2
<1>7. CASE KernelAlloc
  <2>1. q' = q /\ state' = state /\ next_pid' = next_pid /\ torn' = torn
    BY <1>7 DEF KernelAlloc
  <2>2. RestTyped'
    BY <1>1, <1>7, KernelTyped
  <2> QED
    BY <1>1, <1>3, <2>1, <2>2
<1>8. ASSUME NEW p \in Procs, scheduler_add(p) PROVE TInv'
  <2>1. q' = Enqueue(q, p) /\ state' = state /\ next_pid' = next_pid /\ torn' = torn
    BY <1>8 DEF scheduler_add
  <2>2. RestTyped'
    BY <1>1, <1>8, AddTyped
  <2>3. q' \in Links /\ q'.process_list = q.process_list
    BY <1>1, <2>1, LinksTyped
  <2> QED
    BY <1>3, <2>1, <2>2, <2>3
<1>9. CASE scheduler_tick
  <2>1. q' = Rotate(q) /\ state' = state /\ next_pid' = next_pid /\ torn' = torn
    BY <1>9 DEF scheduler_tick
  <2>2. 1 \in Procs
    BY ProcessAssumption DEF Procs
  <2>3. q' \in Links /\ q'.process_list = q.process_list
    BY <1>1, <2>1, <2>2, LinksTyped
  <2>4. RestTyped'
    BY <1>1, <1>9, <2>3, TickTyped
  <2> QED
    BY <1>3, <2>1, <2>3, <2>4
<1>10. CASE SYSCALL_EXIT
  <2> DEFINE p == current_process
             r == Removed(q, p)
  <2>1. /\ p # NULL /\ state[p] = "ready" /\ q' = Rotate(r) /\ next_pid' = next_pid /\ torn' = torn
        /\ state' = [state EXCEPT ![p] = "zombie"]
    BY <1>10 DEF SYSCALL_EXIT, Removed
  <2>2. p \in Procs
    BY <1>1, <2>1 DEF RestTyped
  <2>3. r \in Links /\ r.process_list \in {NULL, q.process_list}
    BY <1>1, <2>2, LinksTyped
  <2> HIDE DEF r
  <2>4. q' \in Links /\ q'.process_list = r.process_list
    BY <2>1, <2>2, <2>3, LinksTyped
  <2>5. RestTyped'
    BY <1>1, <1>10, <2>4, ExitTyped
  <2>6. \A x \in Procs : state[x] = "none" => state'[x] = "none"
    BY <1>2, <2>1
  <2> QED
    BY <1>3, <2>1, <2>3, <2>4, <2>5, <2>6
<1>11. CASE UNCHANGED vars
  <2>1. RestTyped' /\ q' = q /\ state' = state /\ next_pid' = next_pid /\ torn' = torn
    BY <1>1, <1>11 DEF vars, RestTyped
  <2> QED
    BY <1>1, <1>3, <2>1
<1> QED
  BY <1>5, <1>6, <1>7, <1>8, <1>9, <1>10, <1>11 DEF Next

(* The operations that leave the links alone. *)
LEMMA SameQueueQInv ==
    ASSUME QInv, TInv', q' = q, current_process' = current_process, state' = state
    PROVE  QInv' /\ ReadyQueue' = ReadyQueue
<1>1. ReadyQueue' = ReadyQueue
  BY DEF ReadyQueue
<1>2. RunningIsHead'
  BY DEF QInv, RunningIsHead, Live
<1> QED
  BY <1>1, <1>2 DEF QInv

LEMMA CreateQInv == ASSUME QInv, TInv', process_create PROVE QInv'
<1> DEFINE g == ReadyQueue
<1>1. ReadyQueue' = g /\ q'.ready_queue = q.ready_queue /\ ListOk(q', g)
  BY CreateEffect
<1>2. /\ g \in Seq(Procs) /\ \A i \in 1..Len(g) : state[g[i]] = "ready"
      /\ current_process \in Procs => state[current_process] # "none"
      /\ RunningIsHead /\ state \in [Procs -> {"none", "ready", "zombie"}]
      /\ \A p \in Procs : p >= next_pid => state[p] = "none"
  BY DEF QInv, TInv, TypeOK
<1>3. /\ state' = [state EXCEPT ![next_pid] = "ready"] /\ next_pid \in Procs
      /\ current_process' = current_process
  BY DEF process_create
<1>4. state[next_pid] = "none"
  BY <1>2, <1>3, NotNull DEF Procs
<1>5. \A i \in 1..Len(g) : g[i] \in Procs
  BY <1>2
<1> HIDE DEF g
<1>6. \A i \in 1..Len(g) : state'[g[i]] = "ready"
  BY <1>2, <1>3, <1>4, <1>5
<1>7. current_process \in Procs => current_process # next_pid
  BY <1>2, <1>4
<1>8. RunningIsHead' /\ (current_process' \in Procs => state'[current_process'] # "none")
  BY <1>1, <1>2, <1>3, <1>7 DEF RunningIsHead, Live
<1> QED
  BY <1>1, <1>2, <1>6, <1>8 DEF QInv

LEMMA AddQInv == ASSUME QInv, TInv', NEW p \in Procs, scheduler_add(p) PROVE QInv'
<1> DEFINE g == ReadyQueue
<1>1. g \in Seq(Procs) /\ ListOk(q, g) /\ \A i \in 1..Len(g) : state[g[i]] = "ready"
  BY DEF QInv
<1>2. /\ ReadyQueue' = Append(g, p) /\ q' \in Links /\ ListOk(q', ReadyQueue')
      /\ ReadyQueue' \in Seq(Procs)
  BY AddEffect
<1>3. state[p] = "ready" /\ state' = state /\ current_process' = current_process
  BY DEF scheduler_add
<1>4. current_process' \in Procs => state'[current_process'] # "none"
  BY <1>3 DEF QInv
<1> HIDE DEF g
<1>5. \A i \in 1..Len(Append(g, p)) : state'[Append(g, p)[i]] = "ready"
  BY <1>1, <1>3
<1>6. RunningIsHead'
  <2> SUFFICES ASSUME current_process \in Procs, state[current_process] = "ready"
               PROVE  current_process = q'.ready_queue
    BY <1>3 DEF RunningIsHead, Live
  <2>1. current_process = q.ready_queue /\ q.ready_queue # NULL
    BY NotNull DEF QInv, RunningIsHead, Live
  <2>2. g # <<>> /\ q.ready_queue = g[1]
    BY <1>1, <2>1, QueueHead
  <2>3. Append(g, p) # <<>> /\ Append(g, p)[1] = g[1]
    BY <1>1, <2>2
  <2>4. q'.ready_queue = Append(g, p)[1]
    BY <1>2, <2>3, QueueHead
  <2> QED
    BY <2>1, <2>2, <2>3, <2>4
<1> QED
  BY <1>2, <1>4, <1>5, <1>6 DEF QInv

LEMMA TickQInv == ASSUME QInv, TInv', scheduler_tick PROVE QInv'
<1> DEFINE g == ReadyQueue
           h == ReadyQueue'
<1>1. g \in Seq(Procs) /\ \A i \in 1..Len(g) : state[g[i]] = "ready"
  BY DEF QInv
<1>2. /\ h = RR!Rotated(g) /\ q' \in Links /\ ListOk(q', h) /\ h \in Seq(Procs)
      /\ h # <<>> /\ current_process' = h[1] /\ state' = state
  BY TickEffect DEF scheduler_tick
<1>4. Len(h) = Len(g) /\ \A i \in 1..Len(g) : h[i] = IF i = Len(g) THEN g[1] ELSE g[i + 1]
  BY <1>1, <1>2, RotatedSeq
<1>5. q'.ready_queue = h[1]
  BY <1>2, QueueHead
<1> HIDE DEF g, h
<1>6. \A i \in 1..Len(h) : state'[h[i]] = "ready"
  BY <1>1, <1>2, <1>4
<1>7. RunningIsHead'
  BY <1>2, <1>5 DEF RunningIsHead
<1>8. state'[current_process'] = "ready"
  <2>1. 1 \in 1..Len(h)
    BY <1>2
  <2> QED
    BY <1>2, <1>6, <2>1
<1> QED
  BY <1>2, <1>6, <1>7, <1>8 DEF QInv, h

LEMMA ExitQInv == ASSUME QInv, TInv', SYSCALL_EXIT, ~lost' PROVE QInv'
<1> DEFINE g == ReadyQueue
           a == Tail(g)
           h == ReadyQueue'
           n == Len(g)
<1>1. /\ g \in Seq(Procs) /\ \A i \in 1..n : state[g[i]] = "ready"
      /\ \A i, j \in 1..n : g[i] = g[j] => i = j
  BY DEF QInv, ListOk
<1>2. /\ g # <<>> /\ current_process = g[1]
      /\ h = RR!Rotated(a) /\ q' \in Links /\ ListOk(q', h) /\ h \in Seq(Procs)
      /\ current_process' = IF h = <<>> THEN current_process ELSE h[1]
  BY ExitEffect
<1>3. state' = [state EXCEPT ![current_process] = "zombie"]
      /\ state \in [Procs -> {"none", "ready", "zombie"}]
  BY DEF SYSCALL_EXIT, QInv, TInv, TypeOK
<1>5. /\ n \in Nat /\ n > 0 /\ a \in Seq(Procs) /\ Len(a) = n - 1
      /\ \A i \in 1..(n - 1) : a[i] = g[i + 1] /\ a[i] \in Procs
      /\ g[1] \in Procs
  <2>1. n \in Nat /\ n > 0 /\ a \in Seq(Procs) /\ Len(a) = n - 1
        /\ \A i \in 1..(n - 1) : a[i] = g[i + 1]
    BY <1>1, <1>2
  <2>2. \A i \in 1..(n - 1) : a[i] \in Procs
    BY <2>1
  <2>3. g[1] \in Procs
    BY <1>1, <2>1
  <2> QED
    BY <2>1, <2>2, <2>3
<1>6. Len(h) = n - 1 /\ \A i \in 1..(n - 1) : h[i] = IF i = n - 1 THEN a[1] ELSE a[i + 1]
  <2>1. /\ Len(RR!Rotated(a)) = Len(a)
        /\ \A i \in 1..Len(a) : RR!Rotated(a)[i] = IF i = Len(a) THEN a[1] ELSE a[i + 1]
    BY <1>5, RotatedSeq
  <2> HIDE DEF h, a
  <2> QED
    BY <1>2, <1>5, <2>1
<1>7. h # <<>> => q'.ready_queue = h[1]
  BY <1>2, QueueHead
<1> HIDE DEF g, a, h, n
<1>8. ASSUME NEW i \in 1..(n - 1) PROVE state'[a[i]] = "ready"
  <2>1. i + 1 \in 1..n /\ 1 \in 1..n /\ i + 1 # 1
    BY <1>5
  <2>2. a[i] # g[1] /\ state[a[i]] = "ready"
    BY <1>1, <1>5, <2>1 DEF n
  <2> QED
    BY <1>2, <1>3, <1>5, <2>2
<1>9. \A i \in 1..Len(h) : state'[h[i]] = "ready"
  <2> SUFFICES ASSUME NEW i \in 1..(n - 1) PROVE state'[h[i]] = "ready"
    BY <1>6
  <2>1. 1 \in 1..(n - 1) /\ (i # n - 1 => i + 1 \in 1..(n - 1))
    BY <1>5
  <2> QED
    BY <1>6, <1>8, <2>1
<1>10. RunningIsHead'
  <2>1. CASE h = <<>>
    <3>1. state'[current_process'] = "zombie"
      BY <1>2, <1>3, <1>5, <2>1
    <3> QED
      BY <3>1 DEF RunningIsHead, Live
  <2>2. CASE h # <<>>
    BY <1>2, <1>7, <2>2 DEF RunningIsHead
  <2> QED
    BY <2>1, <2>2
<1>11. state'[current_process'] # "none"
  <2>1. CASE h = <<>>
    BY <1>2, <1>3, <1>5, <2>1
  <2>2. CASE h # <<>>
    <3>1. 1 \in 1..Len(h)
      BY <1>2, <2>2
    <3> QED
      BY <1>2, <1>9, <2>2, <3>1
  <2> QED
    BY <2>1, <2>2
<1> QED
  BY <1>2, <1>9, <1>10, <1>11 DEF QInv, h

(* Every step preserves the invariant, except the exit that sets lost. *)
LEMMA NextQInv == QInv /\ TInv' /\ ~lost' /\ [Next]_vars => QInv'
<1> SUFFICES ASSUME QInv, TInv', ~lost', [Next]_vars PROVE QInv'
  OBVIOUS
<1>1. CASE process_create
  BY <1>1, CreateQInv
<1>2. CASE process_create_fails
  <2>1. q' = q /\ current_process' = current_process /\ state' = state
    BY <1>2 DEF process_create_fails
  <2> QED
    BY <2>1, SameQueueQInv
<1>3. CASE KernelAlloc
  <2>1. q' = q /\ current_process' = current_process /\ state' = state
    BY <1>3 DEF KernelAlloc
  <2> QED
    BY <2>1, SameQueueQInv
<1>4. CASE \E p \in Procs : scheduler_add(p)
  BY <1>4, AddQInv
<1>5. CASE scheduler_tick
  BY <1>5, TickQInv
<1>6. CASE SYSCALL_EXIT
  BY <1>6, ExitQInv
<1>7. CASE UNCHANGED vars
  <2>1. q' = q /\ current_process' = current_process /\ state' = state
    BY <1>7 DEF vars
  <2> QED
    BY <2>1, SameQueueQInv
<1> QED
  BY <1>1, <1>2, <1>3, <1>4, <1>5, <1>6, <1>7 DEF Next

(* A queue once lost stays lost. *)
LEMMA LostForGood == [Next]_vars => (lost => lost')
  BY DEF Next, vars, process_create, process_create_fails, KernelAlloc, scheduler_add,
         scheduler_tick, SYSCALL_EXIT

(* The inductive invariant of the scheduler. *)
Sched == TInv /\ (~lost => QInv)

LEMMA SpecSched == Spec => []Sched
<1>1. Init => Sched
  BY InitQInv DEF Sched, QInv
<1>2. Sched /\ [Next]_vars => Sched'
  BY NextTInv, NextQInv, LostForGood DEF Sched
<1> QED
  BY <1>1, <1>2, PTL DEF Spec

(* The ready queue is a list of live processes with the running one at its *)
(* head, for any number of processes created, queued, switched and exiting *)
(* in any order, until a process exits whose prev link process_create has  *)
(* overwritten since it came to the head: up to then process_create,       *)
(* scheduler_add, scheduler_remove and process_destroy share the links     *)
(* without breaking the queue.                                             *)
THEOREM QueueIsSound == Spec => []QueueSound
<1>1. QInv => ReadyQueueLive /\ ReadyQueueLinked /\ RunningIsHead
  <2> SUFFICES ASSUME QInv PROVE ReadyQueueLive /\ ReadyQueueLinked /\ RunningIsHead
    OBVIOUS
  <2> DEFINE g == ReadyQueue
  <2>1. g \in Seq(Procs) /\ ListOk(q, g) /\ \A i \in 1..Len(g) : state[g[i]] = "ready"
    BY DEF QInv
  <2>2. \A i, j \in 1..Len(g) : g[i] = g[j] => i = j
    BY <2>1 DEF ListOk
  <2>3. Len(g) \in Nat /\ Len(g) <= MaxProcs /\ \A i \in 1..Len(g) : g[i] \in Procs
    BY <2>1, <2>2, QueueLength
  <2> HIDE DEF g
  <2>4. Range(g) \subseteq Live
    BY <2>1, <2>3 DEF Range, Live
  <2>5. q.ready_queue = NULL <=> q.ready_queue_tail = NULL
    <3>1. /\ q.ready_queue = IF Len(g) = 0 THEN NULL ELSE g[1]
          /\ q.ready_queue_tail = IF Len(g) = 0 THEN NULL ELSE g[Len(g)]
      BY <2>1 DEF ListOk
    <3>2. Len(g) # 0 => g[1] \in Procs /\ g[Len(g)] \in Procs
      BY <2>3
    <3> QED
      BY <3>1, <3>2, NotNull
  <2>6. g # <<>> => q.ready_queue_tail = Last(g)
    BY <2>1, <2>3 DEF ListOk, Last
  <2>7. \A i \in 1..Len(g) : \/ q.prev[g[i]] = IF i = 1 THEN NULL ELSE g[i - 1]
                             \/ q.prev[g[i]] > g[i]
    BY <2>1 DEF ListOk, PrevOk
  <2> QED
    BY <2>3, <2>4, <2>5, <2>6, <2>7 DEF QInv, ReadyQueueLive, ReadyQueueLinked, g
<1>2. Sched => QueueSound
  BY <1>1 DEF Sched, TInv, QueueSound
<1> QED
  BY <1>2, SpecSched, PTL

-----------------------------------------------------------------------------
(* The refinement *)

(* Removing the first element. *)
LEMMA RemoveFirst1 ==
    ASSUME NEW g \in Seq(Procs), g # <<>>
    PROVE  RR!RemoveAt(g, 1) = Tail(g)
<1> DEFINE a == SubSeq(g, 1, 1 - 1)
           b == SubSeq(g, 1 + 1, Len(g))
<1>1. Len(g) \in Nat /\ Len(g) > 0
  OBVIOUS
<1>2. a = <<>>
  OBVIOUS
<1>3. b \in Seq(Procs) /\ Len(b) = Len(g) - 1 /\ \A i \in 1..(Len(g) - 1) : b[i] = g[i + 1]
  <2> DEFINE m == Len(g)
  <2>1. \A i \in 2..m : g[i] \in Procs
    BY <1>1
  <2>2. /\ SubSeq(g, 2, m) \in Seq(Procs)
        /\ Len(SubSeq(g, 2, m)) = IF 2 <= m THEN m - 2 + 1 ELSE 0
        /\ \A i \in 1..(m - 2 + 1) : SubSeq(g, 2, m)[i] = g[2 + i - 1]
    BY <1>1, <2>1, SubSeqProperties
  <2>3. m \in Nat /\ m > 0
    BY <1>1
  <2> HIDE DEF m
  <2>4. 1 + 1 = 2 /\ m - 2 + 1 = m - 1 /\ (~(2 <= m) => m - 1 = 0)
    BY <2>3
  <2>5. ASSUME NEW i \in 1..(m - 1) PROVE 2 + i - 1 = i + 1
    BY <2>3
  <2> QED
    BY <2>2, <2>4, <2>5 DEF b, m
<1>4. Tail(g) \in Seq(Procs) /\ Len(Tail(g)) = Len(g) - 1
      /\ \A i \in 1..(Len(g) - 1) : Tail(g)[i] = g[i + 1]
  BY <1>1
<1> HIDE DEF a, b
<1>5. b = Tail(g)
  BY <1>3, <1>4, SeqEqual
<1>6. a \o b = b
  BY <1>2, <1>3, ConcatEmptySeq
<1> QED
  BY <1>5, <1>6 DEF a, b, RR!RemoveAt

LEMMA InitRefines == Init => RR!RRInit
<1> SUFFICES ASSUME Init PROVE RR!RRInit
  OBVIOUS
<1>1. ReadyQueue \in Seq(Procs) /\ ListOk(q, ReadyQueue) /\ q.ready_queue = NULL
  BY InitQInv DEF QInv, Init
<1>2. ReadyQueue = <<>>
  BY <1>1, QueueHead
<1> QED
  BY <1>2 DEF RR!RRInit, Init

(* Every step of the linked queue that does not lose it is a step of the   *)
(* plain one, or leaves the queue and the running process alone.           *)
LEMMA StepRefines == QInv /\ ~lost' /\ [Next]_vars => [RR!RRNext]_(RR!rrVars)
<1> SUFFICES ASSUME QInv, ~lost', [Next]_vars
             PROVE  \/ RR!RRNext
                    \/ ReadyQueue' = ReadyQueue /\ current_process' = current_process
  BY DEF RR!rrVars
<1>1. CASE process_create
  BY <1>1, CreateEffect DEF process_create
<1>2. CASE process_create_fails
  BY <1>2 DEF process_create_fails, ReadyQueue
<1>3. CASE KernelAlloc
  BY <1>3 DEF KernelAlloc, ReadyQueue
<1>4. ASSUME NEW p \in Procs, scheduler_add(p) PROVE RR!Add(p)
  BY <1>4, AddEffect DEF scheduler_add, RR!Add, RR!Contains
<1>5. ASSUME scheduler_tick PROVE RR!Tick
  <2>1. /\ ReadyQueue' = RR!Rotated(ReadyQueue) /\ ReadyQueue' \in Seq(Procs)
        /\ ReadyQueue' # <<>> /\ current_process' = ReadyQueue'[1]
        /\ ListOk(q', ReadyQueue')
    BY <1>5, TickEffect
  <2>2. ReadyQueue'[1] = Head(ReadyQueue')
    BY <2>1, QueueHead
  <2> QED
    BY <2>1, <2>2 DEF RR!Tick, RR!GiveTo
<1>6. ASSUME SYSCALL_EXIT PROVE RR!Exit
  <2>1. /\ ReadyQueue # <<>> /\ current_process = ReadyQueue[1]
        /\ ReadyQueue' = RR!Rotated(Tail(ReadyQueue))
        /\ ListOk(q', ReadyQueue') /\ ReadyQueue' \in Seq(Procs)
        /\ current_process' = IF ReadyQueue' = <<>> THEN current_process ELSE ReadyQueue'[1]
    BY <1>6, ExitEffect
  <2>2. ReadyQueue \in Seq(Procs)
    BY DEF QInv
  <2>3. 1 \in DOMAIN ReadyQueue
    BY <2>1, <2>2
  <2>4. ReadyQueue' = RR!Rotated(RR!RemoveAt(ReadyQueue, 1))
    BY <2>1, <2>2, RemoveFirst1
  <2>5. ReadyQueue' # <<>> => ReadyQueue'[1] = Head(ReadyQueue')
    BY <2>1, QueueHead
  <2>6. current_process' = RR!GiveTo(ReadyQueue')
    BY <2>1, <2>5 DEF RR!GiveTo
  <2> QED
    BY <2>1, <2>3, <2>4, <2>6 DEF RR!Exit
<1>7. CASE UNCHANGED vars
  BY <1>7 DEF vars, ReadyQueue
<1> QED
  BY <1>1, <1>2, <1>3, <1>4, <1>5, <1>6, <1>7 DEF Next, RR!RRNext

(* The linked lists of process.c implement a plain round-robin queue, for  *)
(* any number of processes, up to the exit of a process whose link         *)
(* process_create has overwritten.                                         *)
THEOREM SchedulerIsRoundRobin == Spec => ImplementsRoundRobin
<1>1. Sched /\ [Next]_vars => [lost' \/ RR!RRNext]_(RR!rrVars)
  BY StepRefines, LostForGood DEF Sched
<1> QED
  BY <1>1, SpecSched, InitRefines, PTL DEF Spec, ImplementsRoundRobin

-----------------------------------------------------------------------------
(* How long a process waits *)

(* The processes that have not exited. *)
Alive == {p \in Procs : state[p] # "zombie"}

(* Twice the number of pairs in a set of n. *)
Cap(n) == n * (n - 1)

(* A process at place i of the queue has i - 2 steps before the next one   *)
(* that could send it to the end, and each exit that does so leaves one    *)
(* process less: its wait and what is left to wait stay within the bound.  *)
WaitInv ==
    \A i \in 1..Len(ReadyQueue) :
        /\ i = 1 => wait[ReadyQueue[i]] = 0
        /\ i > 1 => 2 * wait[ReadyQueue[i]] + 2 * (i - 2) + Cap(Cardinality(Alive) - 1)
                        <= Cap(MaxProcs)

LEMMA CapFacts ==
    /\ \A n \in Nat : Cap(n) \in Int /\ Cap(n) >= 0
    /\ \A n \in Nat : Cap(n + 1) = Cap(n) + 2 * n
    /\ \A m, n \in Nat : m <= n => Cap(m) <= Cap(n)
<1>1. \A n \in Nat : Cap(n) \in Int /\ Cap(n) >= 0
  <2> SUFFICES ASSUME NEW n \in Nat PROVE Cap(n) \in Int /\ Cap(n) >= 0
    OBVIOUS
  <2>1. CASE n = 0
    BY <2>1 DEF Cap
  <2>2. CASE n > 0
    <3>1. n - 1 \in Nat
      BY <2>2
    <3> QED
      BY <3>1 DEF Cap
  <2> QED
    BY <2>1, <2>2
<1>2. \A n \in Nat : Cap(n + 1) = Cap(n) + 2 * n
  BY DEF Cap
<1>3. ASSUME NEW m \in Nat PROVE \A n \in Nat : m <= n => Cap(m) <= Cap(n)
  <2> DEFINE S == {n \in Nat : Cap(m) <= Cap(m + n)}
  <2>1. 0 \in S
    <3>1. Cap(m) \in Int /\ m + 0 = m
      BY <1>1
    <3> QED
      BY <3>1
  <2>2. ASSUME NEW n \in S PROVE n + 1 \in S
    <3>1. m + n \in Nat /\ m + (n + 1) = (m + n) + 1 /\ n + 1 \in Nat
      OBVIOUS
    <3>2. /\ Cap((m + n) + 1) = Cap(m + n) + 2 * (m + n) /\ Cap(m) \in Int
          /\ Cap(m + n) \in Int /\ Cap(m) <= Cap(m + n)
      BY <1>1, <1>2, <3>1
    <3>3. Cap(m) <= Cap((m + n) + 1)
      BY <3>1, <3>2
    <3> QED
      BY <3>1, <3>3
  <2>3. S \in SUBSET Nat
    OBVIOUS
  <2>4. S = Nat
    <3> HIDE DEF S
    <3> QED
      BY <2>1, <2>2, <2>3, NatSetInduction
  <2>5. ASSUME NEW n \in Nat, m <= n PROVE Cap(m) <= Cap(n)
    <3>1. n - m \in Nat /\ m + (n - m) = n
      BY <2>5
    <3>2. n - m \in S
      BY <2>4, <3>1
    <3> QED
      BY <3>1, <3>2
  <2> QED
    BY <2>5
<1> QED
  BY <1>1, <1>2, <1>3

(* The queue is not longer than there are processes alive. *)
LEMMA QueueWithinAlive ==
    ASSUME QInv
    PROVE  /\ IsFiniteSet(Alive) /\ Cardinality(Alive) \in Nat
           /\ Cardinality(Alive) <= MaxProcs
           /\ Len(ReadyQueue) \in Nat /\ Len(ReadyQueue) <= Cardinality(Alive)
<1> DEFINE g == ReadyQueue
<1>1. /\ g \in Seq(Procs) /\ \A i \in 1..Len(g) : state[g[i]] = "ready"
      /\ \A i, j \in 1..Len(g) : g[i] = g[j] => i = j
  BY DEF QInv, ListOk
<1> HIDE DEF g
<1>2. Len(g) \in Nat /\ MaxProcs \in Nat /\ g \in [1..Len(g) -> Alive]
  <2>1. Len(g) \in Nat /\ \A i \in 1..Len(g) : g[i] \in Procs /\ g[i] \in Alive
    BY <1>1 DEF Alive
  <2>2. g = [i \in 1..Len(g) |-> g[i]]
    BY <1>1
  <2> QED
    BY <2>1, <2>2, NotNull
<1>3. /\ IsFiniteSet(Procs) /\ Cardinality(Procs) = MaxProcs
      /\ IsFiniteSet(1..Len(g)) /\ Cardinality(1..Len(g)) = Len(g)
  <2>1. 1 \in Int /\ Len(g) \in Int /\ MaxProcs \in Int /\ 1 <= Len(g) + 1 /\ 1 <= MaxProcs + 1
        /\ Len(g) - 1 + 1 = Len(g) /\ MaxProcs - 1 + 1 = MaxProcs
    BY <1>2
  <2> QED
    BY <2>1, IntervalSize DEF Procs
<1>4. IsFiniteSet(Alive) /\ Cardinality(Alive) <= MaxProcs /\ Cardinality(Alive) \in Nat
  <2>1. Alive \subseteq Procs
    BY DEF Alive
  <2> QED
    BY <1>3, <2>1, FS_Subset, FS_CardinalityType
<1>5. ASSUME Cardinality(Alive) < Len(g) PROVE FALSE
  <2>1. \E x, y \in 1..Len(g) : x # y /\ g[x] = g[y]
    BY <1>2, <1>3, <1>4, <1>5, FS_PigeonHole
  <2> QED
    BY <1>1, <2>1
<1> QED
  BY <1>2, <1>4, <1>5 DEF g

(* A queue that gets a new last element. *)
LEMMA AddWaitInv ==
    ASSUME QInv, QInv', WaitInv, NEW p \in Procs, scheduler_add(p)
    PROVE  WaitInv'
<1> DEFINE g == ReadyQueue
           n == Len(g)
           A == Cardinality(Alive)
<1>1. /\ \A i \in 1..n : g[i] # p /\ g[i] \in Procs
      /\ ReadyQueue' = Append(g, p) /\ g \in Seq(Procs)
      /\ wait' = [wait EXCEPT ![p] = 0] /\ wait \in [Procs -> Nat]
  <2>1. g \in Seq(Procs) /\ wait \in [Procs -> Nat]
    BY DEF QInv, TInv, TypeOK
  <2>2. (\A i \in 1..n : g[i] # p) /\ ReadyQueue' = Append(g, p)
    BY AddEffect
  <2>3. \A i \in 1..n : g[i] \in Procs
    BY <2>1
  <2>4. wait' = [wait EXCEPT ![p] = 0]
    BY DEF scheduler_add
  <2> QED
    BY <2>1, <2>2, <2>3, <2>4
<1>2. Alive' = Alive
  BY DEF scheduler_add, Alive
<1>3. /\ n \in Nat /\ A \in Nat /\ A <= MaxProcs /\ MaxProcs \in Nat
  BY QueueWithinAlive, NotNull
<1>4. n + 1 <= A
  <2>1. Len(ReadyQueue') <= Cardinality(Alive')
    <3>1. (QInv => Len(ReadyQueue) <= Cardinality(Alive))'
      BY QueueWithinAlive, PTL
    <3> QED
      BY <3>1
  <2>2. Len(Append(g, p)) = n + 1
    BY <1>1
  <2> QED
    BY <1>1, <1>2, <2>1, <2>2
<1>5. \A i \in 1..n : /\ i = 1 => wait[g[i]] = 0
                      /\ i > 1 => 2 * wait[g[i]] + 2 * (i - 2) + Cap(A - 1) <= Cap(MaxProcs)
  BY DEF WaitInv
<1>6. 2 * (n - 1) + Cap(A - 1) <= Cap(MaxProcs)
  <2>1. A - 1 \in Nat /\ (A - 1) + 1 = A
    BY <1>3, <1>4
  <2>2. Cap(A) = Cap(A - 1) + 2 * (A - 1) /\ Cap(A) <= Cap(MaxProcs)
        /\ Cap(A - 1) \in Int /\ Cap(A) \in Int /\ Cap(MaxProcs) \in Int
    BY <1>3, <2>1, CapFacts
  <2> HIDE DEF A, n
  <2> QED
    BY <1>3, <1>4, <2>2
<1> DEFINE h == Append(g, p)
<1>7. /\ Len(h) = n + 1 /\ h[n + 1] = p /\ \A i \in 1..n : h[i] = g[i]
  BY <1>1
<1>8. wait'[p] = 0 /\ \A i \in 1..n : wait'[g[i]] = wait[g[i]]
  BY <1>1
<1> HIDE DEF g, n, A, h
<1>9. ASSUME NEW i \in 1..(n + 1)
      PROVE  /\ i = 1 => wait'[h[i]] = 0
             /\ i > 1 => 2 * wait'[h[i]] + 2 * (i - 2) + Cap(A - 1) <= Cap(MaxProcs)
  <2>1. CASE i \in 1..n
    BY <1>5, <1>7, <1>8, <2>1
  <2>2. CASE i = n + 1
    <3>1. wait'[h[i]] = 0 /\ i - 2 = n - 1 /\ 2 * 0 = 0
      BY <1>3, <1>7, <1>8, <2>2
    <3>2. Cap(A - 1) \in Int
      BY <1>3, <1>4, CapFacts
    <3> QED
      BY <1>3, <1>6, <3>1, <3>2
  <2> QED
    BY <1>3, <2>1, <2>2
<1> QED
  BY <1>1, <1>2, <1>7, <1>9 DEF WaitInv, A, h

(* What a scheduling step does to the waits of the processes in a queue.   *)
LEMMA SwitchWaits ==
    ASSUME wait \in [Procs -> Nat], ReadyQueue \in Seq(Procs), NEW r, SwitchTo(r),
           NEW i \in 1..Len(ReadyQueue)
    PROVE  wait'[ReadyQueue[i]] = IF ReadyQueue[i] = current_process' THEN 0
                                  ELSE wait[ReadyQueue[i]] + 1
<1>1. ReadyQueue[i] \in Procs /\ Contains(ReadyQueue, ReadyQueue[i])
  BY DEF Contains
<1>2. wait' = [x \in Procs |-> IF x = current_process' THEN 0
                               ELSE IF Contains(ReadyQueue, x) THEN wait[x] + 1
                               ELSE 0]
  BY DEF SwitchTo, ReadyQueue
<1> QED
  BY <1>1, <1>2

(* A tick brings everybody one step nearer and the head to the end. *)
LEMMA TickWaitInv ==
    ASSUME QInv, WaitInv, scheduler_tick
    PROVE  WaitInv'
<1> DEFINE g == ReadyQueue
           h == ReadyQueue'
           n == Len(g)
           A == Cardinality(Alive)
<1>1. /\ g \in Seq(Procs) /\ wait \in [Procs -> Nat]
      /\ \A i, j \in 1..n : g[i] = g[j] => i = j
  BY DEF QInv, TInv, TypeOK, ListOk
<1>2. /\ h = RR!Rotated(g) /\ h # <<>> /\ current_process' = h[1]
      /\ SwitchTo(q'.ready_queue) /\ state' = state
  BY TickEffect DEF scheduler_tick
<1>3. Alive' = Alive
  BY <1>2 DEF Alive
<1>4. /\ n \in Nat /\ A \in Nat /\ A <= MaxProcs /\ MaxProcs \in Nat /\ n <= A
  BY QueueWithinAlive, NotNull
<1>5. /\ Len(h) = n /\ \A i \in 1..n : h[i] = IF i = n THEN g[1] ELSE g[i + 1]
  BY <1>1, <1>2, RotatedSeq
<1>6. \A i \in 1..n : /\ i = 1 => wait[g[i]] = 0
                      /\ i > 1 => 2 * wait[g[i]] + 2 * (i - 2) + Cap(A - 1) <= Cap(MaxProcs)
  BY DEF WaitInv
<1>7. \A i \in 1..n : /\ wait'[g[i]] = IF g[i] = h[1] THEN 0 ELSE wait[g[i]] + 1
                      /\ wait[g[i]] \in Nat
  <2>1. \A i \in 1..n : wait'[g[i]] = IF g[i] = current_process' THEN 0 ELSE wait[g[i]] + 1
    BY <1>1, <1>2, SwitchWaits
  <2>2. \A i \in 1..n : g[i] \in Procs
    BY <1>1
  <2> QED
    BY <1>1, <1>2, <2>1, <2>2
<1> HIDE DEF g, h, n, A
<1>8. ASSUME NEW i \in 1..n
      PROVE  /\ i = 1 => wait'[h[i]] = 0
             /\ i > 1 => 2 * wait'[h[i]] + 2 * (i - 2) + Cap(A - 1) <= Cap(MaxProcs)
  <2>1. 1 \in 1..n /\ A - 1 \in Nat /\ (A - 1) + 1 = A
    BY <1>4
  <2>2. /\ Cap(A) = Cap(A - 1) + 2 * (A - 1) /\ Cap(A) <= Cap(MaxProcs)
        /\ Cap(A - 1) \in Int /\ Cap(A) \in Int /\ Cap(MaxProcs) \in Int
    BY <1>4, <2>1, CapFacts
  <2>3. CASE i = 1
    <3>1. PICK j \in 1..n : h[1] = g[j]
      BY <1>4, <1>5, <2>1
    <3> QED
      BY <1>7, <2>3, <3>1
  <2>4. CASE i > 1 /\ i < n
    <3>1. /\ i + 1 \in 1..n /\ 2 \in 1..n /\ i + 1 > 1 /\ i + 1 # 2 /\ (i + 1) - 2 = i - 1
          /\ 1 + 1 = 2 /\ 1 # n /\ i # n
      BY <1>4, <2>4
    <3>2. h[i] = g[i + 1] /\ h[1] = g[2] /\ g[i + 1] # g[2]
      BY <1>1, <1>5, <2>1, <3>1 DEF n
    <3>3. wait'[h[i]] = wait[g[i + 1]] + 1 /\ wait[g[i + 1]] \in Nat
      BY <1>7, <3>1, <3>2
    <3>4. 2 * wait[g[i + 1]] + 2 * (i - 1) + Cap(A - 1) <= Cap(MaxProcs)
      BY <1>6, <3>1
    <3> QED
      BY <2>2, <2>4, <3>3, <3>4
  <2>5. CASE i > 1 /\ i = n
    <3>1. 2 \in 1..n /\ 1 # n /\ 1 + 1 = 2
      BY <1>4, <2>5
    <3>2. h[i] = g[1] /\ h[1] = g[2] /\ g[1] # g[2]
      <4>1. h[i] = g[1]
        BY <1>5, <2>5
      <4>2. h[1] = g[2]
        BY <1>5, <2>1, <3>1
      <4>3. g[1] # g[2]
        BY <1>1, <2>1, <3>1 DEF n
      <4> QED
        BY <4>1, <4>2, <4>3
    <3>3. wait'[h[i]] = 1
      BY <1>6, <1>7, <2>1, <3>2
    <3> QED
      BY <1>4, <2>2, <2>5, <3>3
  <2> QED
    BY <1>4, <2>3, <2>4, <2>5
<1> QED
  BY <1>3, <1>5, <1>8 DEF WaitInv, A, h

(* An exit brings everybody two steps nearer, but sends the next in line   *)
(* to the end of a queue that has become shorter.                          *)
LEMMA ExitWaitInv ==
    ASSUME QInv, WaitInv, SYSCALL_EXIT, ~lost'
    PROVE  WaitInv'
<1> DEFINE g == ReadyQueue
           h == ReadyQueue'
           n == Len(g)
           A == Cardinality(Alive)
<1>1. /\ g \in Seq(Procs) /\ wait \in [Procs -> Nat]
      /\ \A i, j \in 1..n : g[i] = g[j] => i = j
      /\ \A i \in 1..n : state[g[i]] = "ready"
      /\ state \in [Procs -> {"none", "ready", "zombie"}]
  BY DEF QInv, TInv, TypeOK, ListOk
<1>2. /\ g # <<>> /\ current_process = g[1] /\ h = RR!Rotated(Tail(g))
      /\ current_process' = IF h = <<>> THEN current_process ELSE h[1]
      /\ h \in Seq(Procs)
  BY ExitEffect
<1>3. /\ SwitchTo(q'.ready_queue) /\ state' = [state EXCEPT ![g[1]] = "zombie"]
  BY <1>2 DEF SYSCALL_EXIT
<1>4. /\ n \in Nat /\ A \in Nat /\ A <= MaxProcs /\ MaxProcs \in Nat /\ n <= A
      /\ IsFiniteSet(Alive)
  BY QueueWithinAlive, NotNull
<1>5. /\ n > 0 /\ 1 \in 1..n /\ \A i \in 1..n : g[i] \in Procs
      /\ Tail(g) \in Seq(Procs) /\ Len(Tail(g)) = n - 1
      /\ \A i \in 1..(n - 1) : Tail(g)[i] = g[i + 1]
  BY <1>1, <1>2
<1>6. /\ Len(h) = n - 1
      /\ \A i \in 1..(n - 1) : h[i] = IF i = n - 1 THEN Tail(g)[1] ELSE Tail(g)[i + 1]
  <2>1. /\ Len(h) = Len(Tail(g))
        /\ \A i \in 1..Len(Tail(g)) : h[i] = IF i = Len(Tail(g)) THEN Tail(g)[1] ELSE Tail(g)[i + 1]
    BY <1>2, <1>5, RotatedSeq
  <2> QED
    BY <1>5, <2>1
<1>7. Cardinality(Alive') = A - 1
  <2>1. g[1] \in Alive
    BY <1>1, <1>5 DEF Alive
  <2>2. Alive' = Alive \ {g[1]}
    BY <1>1, <1>3, <1>5 DEF Alive
  <2> QED
    BY <1>4, <2>1, <2>2, FS_RemoveElement
<1>8. \A i \in 1..n : /\ i = 1 => wait[g[i]] = 0
                      /\ i > 1 => 2 * wait[g[i]] + 2 * (i - 2) + Cap(A - 1) <= Cap(MaxProcs)
  BY DEF WaitInv
<1>9. \A i \in 1..n : /\ wait'[g[i]] = IF g[i] = current_process' THEN 0 ELSE wait[g[i]] + 1
                      /\ wait[g[i]] \in Nat
  <2>1. \A i \in 1..n : wait'[g[i]] = IF g[i] = current_process' THEN 0 ELSE wait[g[i]] + 1
    BY <1>1, <1>3, SwitchWaits
  <2> QED
    BY <1>1, <1>5, <2>1
<1>10. h # <<>> <=> n - 1 > 0
  BY <1>2, <1>4, <1>6
<1> HIDE DEF g, h, n, A
<1>11. ASSUME NEW i \in 1..(n - 1)
       PROVE  /\ i = 1 => wait'[h[i]] = 0
              /\ i > 1 => 2 * wait'[h[i]] + 2 * (i - 2) + Cap(A - 2) <= Cap(MaxProcs)
  <2>1. /\ n >= 2 /\ A - 2 \in Nat /\ (A - 2) + 1 = A - 1 /\ A - 1 \in Nat
        /\ 1 \in 1..(n - 1) /\ 1 + 1 = 2
    BY <1>4
  <2>2. current_process' = h[1]
    BY <1>2, <1>4, <1>10, <2>1
  <2>3. /\ Cap(A - 1) = Cap(A - 2) + 2 * (A - 2)
        /\ Cap(A - 1) \in Int /\ Cap(A - 2) \in Int /\ Cap(MaxProcs) \in Int
    BY <1>4, <2>1, CapFacts
  <2>4. ASSUME NEW j \in 1..(n - 1)
        PROVE  \/ (j = n - 1 /\ h[j] = g[2])
               \/ (j < n - 1 /\ j + 2 \in 1..n /\ h[j] = g[j + 2])
    <3>1. Tail(g)[1] = g[2]
      BY <1>5, <2>1
    <3>2. CASE j = n - 1
      BY <1>6, <3>1, <3>2
    <3>3. CASE j # n - 1
      <4>1. j + 1 \in 1..(n - 1) /\ (j + 1) + 1 = j + 2 /\ j < n - 1 /\ j + 2 \in 1..n
        BY <1>4, <3>3
      <4>2. h[j] = Tail(g)[j + 1] /\ Tail(g)[j + 1] = g[j + 2]
        BY <1>5, <1>6, <3>3, <4>1
      <4> QED
        BY <4>1, <4>2
    <3> QED
      BY <3>2, <3>3
  <2>5. CASE i = 1
    <3>1. PICK j \in 1..n : h[1] = g[j]
      <4>1. 2 \in 1..n
        BY <1>4, <2>1
      <4> QED
        BY <2>1, <2>4, <4>1
    <3> QED
      BY <1>9, <2>2, <2>5, <3>1
  <2>6. CASE i > 1
    <3>1. 1 < n - 1 /\ 1 # n - 1 /\ 1 + 2 = 3 /\ 3 \in 1..n /\ 2 \in 1..n
      BY <1>4, <2>6
    <3>2. h[1] = g[3]
      BY <2>1, <2>4, <3>1
    <3>3. CASE i < n - 1
      <4>1. i + 2 \in 1..n /\ i + 2 # 3 /\ i + 2 > 1 /\ (i + 2) - 2 = i /\ i # n - 1
        BY <1>4, <2>6, <3>3
      <4>2. h[i] = g[i + 2] /\ g[i + 2] # g[3]
        <5>1. h[i] = g[i + 2]
          BY <2>4, <4>1
        <5>2. g[i + 2] # g[3]
          BY <1>1, <3>1, <4>1 DEF n
        <5> QED
          BY <5>1, <5>2
      <4>3. wait'[h[i]] = wait[g[i + 2]] + 1 /\ wait[g[i + 2]] \in Nat
        BY <1>9, <2>2, <3>2, <4>1, <4>2
      <4>4. 2 * wait[g[i + 2]] + 2 * i + Cap(A - 1) <= Cap(MaxProcs)
        BY <1>8, <4>1
      <4> QED
        BY <2>1, <2>3, <2>6, <4>3, <4>4
    <3>4. CASE i = n - 1
      <4>1. h[i] = g[2]
        BY <1>4, <2>4, <3>4
      <4>2. g[2] # g[3]
        BY <1>1, <3>1 DEF n
      <4>3. wait'[h[i]] = wait[g[2]] + 1 /\ wait[g[2]] \in Nat
        BY <1>9, <2>2, <3>1, <3>2, <4>1, <4>2
      <4>4. 2 * wait[g[2]] + 2 * (2 - 2) + Cap(A - 1) <= Cap(MaxProcs)
        BY <1>8, <3>1
      <4>5. i - 2 <= A - 3 /\ i - 2 \in Int
        BY <1>4, <3>4
      <4>6. 2 * (i - 2) <= 2 * (A - 2) - 2
        BY <1>4, <4>5
      <4>7. 2 * wait'[h[i]] = 2 * wait[g[2]] + 2
        BY <4>3
      <4>8. 2 * wait[g[2]] + Cap(A - 1) <= Cap(MaxProcs)
        BY <2>3, <4>3, <4>4
      <4>9. 2 * (i - 2) \in Int /\ 2 * (A - 2) \in Int /\ 2 * wait[g[2]] \in Int
        BY <1>4, <4>3, <4>5
      <4> QED
        BY <2>3, <2>6, <4>6, <4>7, <4>8, <4>9
    <3> QED
      BY <1>4, <3>3, <3>4
  <2> QED
    BY <2>5, <2>6, <1>4
<1>12. (A - 1) - 1 = A - 2
  BY <1>4
<1> QED
  BY <1>6, <1>7, <1>11, <1>12 DEF WaitInv, h

(* Every step preserves the bound. *)
LEMMA NextWaitInv == QInv /\ QInv' /\ ~lost' /\ WaitInv /\ [Next]_vars => WaitInv'
<1> SUFFICES ASSUME QInv, QInv', ~lost', WaitInv, [Next]_vars PROVE WaitInv'
  OBVIOUS
<1>0. ASSUME q' = q, state' = state, wait' = wait PROVE WaitInv'
  <2>1. ReadyQueue' = ReadyQueue /\ Alive' = Alive
    BY <1>0 DEF ReadyQueue, Alive
  <2> QED
    BY <1>0, <2>1 DEF WaitInv
<1>1. CASE process_create
  <2>1. ReadyQueue' = ReadyQueue
    BY <1>1, CreateEffect
  <2>2. /\ next_pid \in Procs /\ state' = [state EXCEPT ![next_pid] = "ready"] /\ wait' = wait
        /\ state \in [Procs -> {"none", "ready", "zombie"}]
        /\ \A p \in Procs : p >= next_pid => state[p] = "none"
    BY <1>1 DEF process_create, QInv, TInv, TypeOK
  <2>3. state[next_pid] = "none"
    BY <2>2, NotNull DEF Procs
  <2>4. Alive' = Alive
    BY <2>2, <2>3 DEF Alive
  <2> QED
    BY <2>1, <2>2, <2>4 DEF WaitInv
<1>2. CASE process_create_fails
  BY <1>0, <1>2 DEF process_create_fails
<1>3. CASE KernelAlloc
  BY <1>0, <1>3 DEF KernelAlloc
<1>4. CASE \E p \in Procs : scheduler_add(p)
  BY <1>4, AddWaitInv
<1>5. CASE scheduler_tick
  BY <1>5, TickWaitInv
<1>6. CASE SYSCALL_EXIT
  BY <1>6, ExitWaitInv
<1>7. CASE UNCHANGED vars
  BY <1>0, <1>7 DEF vars
<1> QED
  BY <1>1, <1>2, <1>3, <1>4, <1>5, <1>6, <1>7 DEF Next

(* Nobody waits for ever: for any number n of processes a queued one runs  *)
(* again after at most n(n - 1)/2 scheduling steps, whatever exits, is     *)
(* added or ticks in between, although SYSCALL_EXIT's second rotation may  *)
(* pass over the next in line, unless the queue has been lost by an exit   *)
(* of a process whose link process_create has overwritten.                 *)
THEOREM WaitIsBounded == Spec => []WaitBounded
<1>1. Sched /\ Sched' /\ (~lost => WaitInv) /\ [Next]_vars => (~lost' => WaitInv')
  BY NextWaitInv, LostForGood DEF Sched
<1>2. Init => WaitInv
  <2> SUFFICES ASSUME Init PROVE WaitInv
    OBVIOUS
  <2>1. ReadyQueue = <<>> /\ Len(<<>>) = 0
    BY InitRefines DEF RR!RRInit
  <2> QED
    BY <2>1 DEF WaitInv
<1>3. Sched /\ (~lost => WaitInv) => WaitBounded
  <2> SUFFICES ASSUME ~lost, QInv, WaitInv
               PROVE  \A p \in Range(ReadyQueue) : 2 * wait[p] <= MaxProcs * (MaxProcs - 1)
    BY DEF Sched, WaitBounded
  <2> SUFFICES ASSUME NEW i \in 1..Len(ReadyQueue)
               PROVE  2 * wait[ReadyQueue[i]] <= Cap(MaxProcs)
    <3>1. DOMAIN ReadyQueue = 1..Len(ReadyQueue)
      BY DEF QInv
    <3> QED
      BY <3>1 DEF Range, Cap
  <2> DEFINE w == wait[ReadyQueue[i]]
             n == Len(ReadyQueue)
             A == Cardinality(Alive)
  <2>1. w \in Nat
    BY DEF QInv, TInv, TypeOK
  <2>2. n \in Nat /\ A \in Nat /\ n <= A /\ MaxProcs \in Nat
    BY QueueWithinAlive, NotNull
  <2>3. (i = 1 => w = 0) /\ (i > 1 => 2 * w + 2 * (i - 2) + Cap(A - 1) <= Cap(MaxProcs))
    BY DEF WaitInv
  <2> HIDE DEF w, n, A
  <2>4. i \in 1..n
    BY DEF n
  <2>5. A - 1 \in Nat
    BY <2>2, <2>4
  <2>6. Cap(A - 1) \in Int /\ Cap(A - 1) >= 0 /\ Cap(MaxProcs) \in Int /\ Cap(MaxProcs) >= 0
    BY <2>2, <2>5, CapFacts
  <2>7. 2 * w <= Cap(MaxProcs)
    BY <2>1, <2>2, <2>3, <2>4, <2>6
  <2> QED
    BY <2>7 DEF w
<1> QED
  BY <1>1, <1>2, <1>3, SpecSched, PTL DEF Spec

-----------------------------------------------------------------------------
(* The stacks *)

(* Until a process whose pages were not adjacent gives them back, a page   *)
(* is in use exactly when it belongs to somebody, and the pages of any     *)
(* other live process are the run its stack is taken for.                  *)
StackInv ==
    torn \subseteq Live =>
        /\ \A g \in Pages : g \in used <=> owner[g] # NULL
        /\ \A g \in Pages : owner[g] \in Procs => owner[g] \in Live
        /\ \A p \in Live \ torn : \A g \in Pages :
              owner[g] = p <=> g \in Run(stack_bottom[p], StackPages)

(* The process that a creation makes or spends is not live yet and has     *)
(* not been found torn.                                                    *)
LEMMA NewProcess ==
    ASSUME TInv, next_pid \in Procs
    PROVE  next_pid \notin Live /\ next_pid \notin torn /\ next_pid # NULL
<1>1. next_pid \in Int /\ next_pid >= next_pid /\ ~(next_pid < next_pid)
  BY NotNull DEF Procs
<1>2. state[next_pid] = "none"
  BY <1>1 DEF TInv
<1> QED
  BY <1>1, <1>2, NotNull DEF TInv, Live

(* Pages taken from the free ones, for somebody whose pages they are then. *)
LEMMA TakeKeeps ==
    ASSUME NEW S \in SUBSET Clear, NEW who, who # NULL, who \notin Live,
           TypeOK, StackInv, torn \subseteq Live, Take(S, who)
    PROVE  /\ \A g \in Pages : g \in used' <=> owner'[g] # NULL
           /\ \A g \in Pages : owner'[g] \in Procs => owner'[g] \in Live \cup {who}
           /\ \A p \in Live \ torn : \A g \in Pages :
                 owner'[g] = p <=> g \in Run(stack_bottom[p], StackPages)
           /\ \A g \in Pages : owner'[g] = who <=> g \in S \/ owner[g] = who
<1>1. /\ used' = used \cup S /\ \A g \in Pages : owner'[g] = IF g \in S THEN who ELSE owner[g]
      /\ used \subseteq Pages /\ S \subseteq Pages
  BY DEF Take, TypeOK, Clear
<1>2. \A g \in S : g \notin used /\ owner[g] = NULL
  BY DEF StackInv, Clear
<1>3. \A p \in Live : p # NULL
  BY NotNull DEF Live
<1>4. /\ \A g \in Pages : g \in used <=> owner[g] # NULL
      /\ \A g \in Pages : owner[g] \in Procs => owner[g] \in Live
      /\ \A p \in Live \ torn : \A g \in Pages :
            owner[g] = p <=> g \in Run(stack_bottom[p], StackPages)
  BY DEF StackInv
<1>5. \A g \in Pages : g \in used' <=> owner'[g] # NULL
  BY <1>1, <1>4
<1>6. \A g \in Pages : owner'[g] \in Procs => owner'[g] \in Live \cup {who}
  BY <1>1, <1>4
<1>7. ASSUME NEW p \in Live \ torn, NEW g \in Pages
      PROVE  owner'[g] = p <=> g \in Run(stack_bottom[p], StackPages)
  <2>1. CASE g \in S
    BY <1>1, <1>2, <1>3, <1>4, <2>1
  <2>2. CASE g \notin S
    BY <1>1, <1>4, <2>2
  <2> QED
    BY <2>1, <2>2
<1>8. \A g \in Pages : owner'[g] = who <=> g \in S \/ owner[g] = who
  BY <1>1
<1> QED
  BY <1>5, <1>6, <1>7, <1>8

LEMMA LowestClear == ASSUME NEW n PROVE Lowest(n) \in SUBSET Clear
  BY DEF Lowest

(* process_create: the pages it takes for the stack are that run, or the   *)
(* process is torn.                                                        *)
LEMMA CreateStackInv == ASSUME TInv, StackInv, process_create PROVE StackInv'
<1> DEFINE p == next_pid
           S == Lowest(StackPages)
           run == Run(Min(Clear), StackPages)
<1>1. /\ p \in Procs /\ Take(S, p)
      /\ torn' = IF S = run THEN torn ELSE torn \cup {p}
      /\ stack_bottom' = [stack_bottom EXCEPT ![p] = Min(Clear)]
      /\ state' = [state EXCEPT ![p] = "ready"]
  BY DEF process_create, Torn
<1>2. /\ state \in [Procs -> {"none", "ready", "zombie"}] /\ TypeOK
      /\ stack_bottom \in [Procs -> Pages \cup {NULL}]
  BY DEF TInv, TypeOK
<1>3. p \notin Live /\ p \notin torn /\ p # NULL
  BY <1>1, NewProcess
<1>4. Live' = Live \cup {p}
  BY <1>1, <1>2 DEF Live
<1> SUFFICES ASSUME torn' \subseteq Live'
             PROVE  /\ \A g \in Pages : g \in used' <=> owner'[g] # NULL
                    /\ \A g \in Pages : owner'[g] \in Procs => owner'[g] \in Live'
                    /\ \A x \in Live' \ torn' : \A g \in Pages :
                          owner'[g] = x <=> g \in Run(stack_bottom'[x], StackPages)
  BY DEF StackInv
<1>5. torn \subseteq Live
  BY <1>1, <1>3, <1>4
<1>6. S \in SUBSET Clear
  BY LowestClear
<1> HIDE DEF S, p, run
<1>7. /\ \A g \in Pages : g \in used' <=> owner'[g] # NULL
      /\ \A g \in Pages : owner'[g] \in Procs => owner'[g] \in Live \cup {p}
      /\ \A x \in Live \ torn : \A g \in Pages :
            owner'[g] = x <=> g \in Run(stack_bottom[x], StackPages)
      /\ \A g \in Pages : owner'[g] = p <=> g \in S \/ owner[g] = p
  BY <1>1, <1>2, <1>3, <1>5, <1>6, TakeKeeps
<1>8. \A g \in Pages : owner[g] # p
  BY <1>1, <1>3, <1>5 DEF StackInv
<1>9. ASSUME NEW x \in Live' \ torn', NEW g \in Pages
      PROVE  owner'[g] = x <=> g \in Run(stack_bottom'[x], StackPages)
  <2>1. CASE x = p
    <3>1. S = run
      BY <1>1, <2>1
    <3>2. Run(stack_bottom'[p], StackPages) = run
      BY <1>1, <1>2 DEF run
    <3> QED
      BY <1>7, <1>8, <2>1, <3>1, <3>2
  <2>2. CASE x # p
    <3>1. x \in Live \ torn /\ stack_bottom'[x] = stack_bottom[x]
      BY <1>1, <1>2, <1>4, <2>2 DEF Live
    <3> QED
      BY <1>7, <3>1
  <2> QED
    BY <2>1, <2>2
<1> QED
  BY <1>4, <1>7, <1>9

(* process_create's error path gives back the very pages it got, or the    *)
(* process is torn, and never lives.                                       *)
LEMMA CreateFailsStackInv == ASSUME TInv, StackInv, process_create_fails PROVE StackInv'
<1>1. PICK back :
        /\ next_pid \in Procs
        /\ used' = (used \cup Clear) \ back
        /\ owner' = [g \in Pages |-> IF g \in back THEN NULL
                                     ELSE IF g \in Clear THEN next_pid ELSE owner[g]]
        /\ torn' = IF Clear = back THEN torn ELSE torn \cup {next_pid}
        /\ UNCHANGED <<state, stack_bottom>>
  BY DEF process_create_fails, Torn
<1>2. next_pid \notin Live /\ Live' = Live
  BY <1>1, NewProcess DEF Live
<1>3. SUFFICES ASSUME torn' \subseteq Live'
               PROVE  used' = used /\ (\A g \in Pages : owner'[g] = owner[g]) /\ torn' = torn
  BY <1>1, <1>2 DEF StackInv
<1>4. Clear = back /\ torn' = torn
  BY <1>1, <1>2, <1>3
<1>5. used' = used
  BY <1>1, <1>4 DEF Clear
<1>6. \A g \in Pages : g \in Clear => owner[g] = NULL
  BY <1>2, <1>3, <1>4 DEF StackInv, Clear
<1> QED
  BY <1>1, <1>4, <1>5, <1>6

LEMMA KernelStackInv == ASSUME TInv, StackInv, KernelAlloc PROVE StackInv'
<1>1. Take(Lowest(1), Kernel) /\ UNCHANGED <<state, stack_bottom, torn>> /\ TypeOK
  BY DEF KernelAlloc, TInv
<1>2. Kernel \notin Procs /\ Kernel \notin Live /\ Kernel # NULL
  BY ProcessAssumption DEF Kernel, Procs, Live, NULL
<1>3. Live' = Live
  BY <1>1 DEF Live
<1>4. Lowest(1) \in SUBSET Clear
  BY LowestClear
<1>5. torn \subseteq Live =>
        /\ \A g \in Pages : g \in used' <=> owner'[g] # NULL
        /\ \A g \in Pages : owner'[g] \in Procs => owner'[g] \in Live \cup {Kernel}
        /\ \A p \in Live \ torn : \A g \in Pages :
              owner'[g] = p <=> g \in Run(stack_bottom[p], StackPages)
  BY <1>1, <1>2, <1>4, TakeKeeps
<1> QED
  BY <1>1, <1>2, <1>3, <1>5 DEF StackInv

(* SYSCALL_EXIT frees the stack of its caller and no page of another's,    *)
(* if the caller is not torn.                                              *)
LEMMA ExitStackInv == ASSUME TInv, StackInv, SYSCALL_EXIT PROVE StackInv'
<1> DEFINE p == current_process
           back == Run(stack_bottom[p], StackPages)
<1>1. /\ p # NULL /\ state[p] = "ready"
      /\ used' = used \ back
      /\ owner' = [g \in Pages |-> IF g \in back THEN NULL ELSE owner[g]]
      /\ state' = [state EXCEPT ![p] = "zombie"]
      /\ UNCHANGED <<stack_bottom, torn>>
  BY DEF SYSCALL_EXIT
<1>2. state \in [Procs -> {"none", "ready", "zombie"}] /\ p \in Procs
  BY <1>1 DEF TInv, TypeOK
<1>3. p \in Live /\ Live' = Live \ {p}
  BY <1>1, <1>2 DEF Live
<1> SUFFICES ASSUME torn \subseteq Live'
             PROVE  /\ \A g \in Pages : g \in used' <=> owner'[g] # NULL
                    /\ \A g \in Pages : owner'[g] \in Procs => owner'[g] \in Live'
                    /\ \A x \in Live' \ torn : \A g \in Pages :
                          owner'[g] = x <=> g \in Run(stack_bottom[x], StackPages)
  BY <1>1 DEF StackInv
<1>4. torn \subseteq Live /\ p \notin torn
  BY <1>3
<1>5. /\ \A g \in Pages : g \in used <=> owner[g] # NULL
      /\ \A g \in Pages : owner[g] \in Procs => owner[g] \in Live
      /\ \A x \in Live \ torn : \A g \in Pages :
            owner[g] = x <=> g \in Run(stack_bottom[x], StackPages)
  BY <1>4 DEF StackInv
<1>6. \A g \in Pages : owner[g] = p <=> g \in back
  BY <1>3, <1>4, <1>5
<1>7. \A x \in Live : x # NULL
  BY NotNull DEF Live
<1> HIDE DEF p, back
<1>8. \A g \in Pages : owner'[g] = IF g \in back THEN NULL ELSE owner[g]
  BY <1>1
<1>9. \A g \in Pages : g \in used' <=> owner'[g] # NULL
  BY <1>1, <1>5, <1>8
<1>10. \A g \in Pages : owner'[g] \in Procs => owner'[g] \in Live'
  BY <1>3, <1>5, <1>6, <1>8, NotNull
<1>11. ASSUME NEW x \in Live' \ torn, NEW g \in Pages
       PROVE  owner'[g] = x <=> g \in Run(stack_bottom[x], StackPages)
  <2>1. x \in Live \ torn /\ x # p /\ x # NULL
    BY <1>3, <1>7
  <2> QED
    BY <1>5, <1>6, <1>8, <2>1
<1> QED
  BY <1>9, <1>10, <1>11

LEMMA NextStackInv == TInv /\ StackInv /\ [Next]_vars => StackInv'
<1> SUFFICES ASSUME TInv, StackInv, [Next]_vars PROVE StackInv'
  OBVIOUS
<1>0. ASSUME UNCHANGED <<state, stack_bottom, used, owner, torn>> PROVE StackInv'
  <2>1. Live' = Live
    BY <1>0 DEF Live
  <2> QED
    BY <1>0, <2>1 DEF StackInv
<1>1. CASE process_create
  BY <1>1, CreateStackInv
<1>2. CASE process_create_fails
  BY <1>2, CreateFailsStackInv
<1>3. CASE KernelAlloc
  BY <1>3, KernelStackInv
<1>4. CASE \E p \in Procs : scheduler_add(p)
  BY <1>0, <1>4 DEF scheduler_add
<1>5. CASE scheduler_tick
  BY <1>0, <1>5 DEF scheduler_tick
<1>6. CASE SYSCALL_EXIT
  BY <1>6, ExitStackInv
<1>7. CASE UNCHANGED vars
  BY <1>0, <1>7 DEF vars
<1> QED
  BY <1>1, <1>2, <1>3, <1>4, <1>5, <1>6, <1>7 DEF Next

(* Wherever the holes of memory and the kernel's own pages lie, and in     *)
(* whatever order processes come and go: as long as no process whose pages *)
(* were not adjacent has failed to be created or has exited, every other   *)
(* live process owns the stack that process_create reports for it, and no  *)
(* page outlives its process.                                              *)
THEOREM StacksAreOwned == Spec => []StacksOwned
<1>1. Init => StackInv
  <2> SUFFICES ASSUME Init PROVE StackInv
    OBVIOUS
  <2>1. \A g \in Pages : owner[g] = IF g \in Holes THEN Kernel ELSE NULL
    BY DEF Init
  <2>2. Kernel \notin Procs /\ Kernel # NULL /\ NULL \notin Procs
    BY ProcessAssumption DEF Kernel, Procs, NULL
  <2>3. used = Holes /\ Live = {}
    BY DEF Init, Live
  <2> QED
    BY <2>1, <2>2, <2>3 DEF StackInv
<1>2. TInv /\ StackInv /\ [Next]_vars => StackInv'
  BY NextStackInv
<1>3. Spec => []TInv
  BY SpecSched, PTL DEF Sched
<1>4. StackInv => StacksOwned
  BY NotNull DEF StackInv, StacksOwned, Run, Live
<1> QED
  BY <1>1, <1>2, <1>3, <1>4, PTL DEF Spec
=============================================================================
