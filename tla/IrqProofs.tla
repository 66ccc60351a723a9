------------------------------- MODULE IrqProofs -------------------------------
(***************************************************************************)
(* Proofs about interrupt dispatch (src/arch/x86_64/isr.c and              *)
(* src/drivers), for any set of processes, finite or not.                  *)
(***************************************************************************)
EXTENDS Irq, FiniteSetTheorems, SequenceTheorems, TLAPS

MasterLines == {Timer, Keyboard, Cascade}
Frames == [irq : Lines, at : {"drivers", "eoi"}] \cup {NoFrame}

(* The ready queue holds no process twice. *)
QueueOk(s) == s \in Seq(Procs) /\ \A i, j \in 1..Len(s) : s[i] = s[j] => i = j

(* Handlers are begun one by one. *)
FewUnfinished == IsFiniteSet(Unfinished)

(* The inductive invariant. *)
IInv == TypeOK /\ QueueOk(queue) /\ FewUnfinished /\ AcksBalance

-----------------------------------------------------------------------------
(* Helpers *)

(* What the type invariant says of a queue. *)
LEMMA QueueOkTyped ==
    ASSUME NEW s, QueueOk(s)
    PROVE  IsInjective(s) /\ Range(s) \subseteq Procs
  BY DEF QueueOk, IsInjective, Range

(* Sets of lines of a controller have a line of the highest priority. *)
LEMMA MinOfLines ==
    ASSUME NEW S, S \subseteq MasterLines \/ S \subseteq {Mouse}, S # {}
    PROVE  Min(S) \in S
<1>1. \E x \in S : \A y \in S : x <= y
  <2>1. CASE S \subseteq {Mouse}
    <3>1. S = {12}
      BY <2>1 DEF Mouse
    <3> QED
      BY <3>1
  <2>2. CASE S \subseteq MasterLines
    <3>1. CASE 0 \in S
      BY <2>2, <3>1 DEF MasterLines, Timer, Keyboard, Cascade
    <3>2. CASE 0 \notin S /\ 1 \in S
      BY <2>2, <3>2 DEF MasterLines, Timer, Keyboard, Cascade
    <3>3. CASE 0 \notin S /\ 1 \notin S
      <4>1. S = {2}
        BY <2>2, <3>3 DEF MasterLines, Timer, Keyboard, Cascade
      <4> QED
        BY <4>1
    <3> QED
      BY <3>1, <3>2, <3>3
  <2> QED
    BY <2>1, <2>2
<1> QED
  BY <1>1 DEF Min

(* The lines in service at the first controller are finitely many. *)
LEMMA MasterFinite == ASSUME NEW S \in SUBSET MasterLines PROVE IsFiniteSet(S)
<1>1. IsFiniteSet(MasterLines)
  <2>1. IsFiniteSet({} \cup {0}) /\ IsFiniteSet(({} \cup {0}) \cup {1})
    BY FS_EmptySet, FS_AddElement
  <2>2. IsFiniteSet((({} \cup {0}) \cup {1}) \cup {2})
    BY <2>1, FS_AddElement
  <2>3. MasterLines = (({} \cup {0}) \cup {1}) \cup {2}
    BY DEF MasterLines, Timer, Keyboard, Cascade
  <2> QED
    BY <2>2, <2>3
<1> QED
  BY <1>1, FS_Subset

(* A queue without one of its processes. *)
LEMMA RemoveAtOk ==
    ASSUME NEW s, QueueOk(s), NEW i \in 1..Len(s)
    PROVE  QueueOk(RemoveAt(s, i))
<1> DEFINE a == SubSeq(s, 1, i - 1)
           b == SubSeq(s, i + 1, Len(s))
           t == a \o b
<1>1. /\ s \in Seq(Procs) /\ Len(s) \in Nat /\ i \in Nat
      /\ \A j \in 1..Len(s) : s[j] \in Procs
  BY DEF QueueOk
<1>2. a \in Seq(Procs) /\ Len(a) = i - 1 /\ \A j \in 1..(i - 1) : a[j] = s[j]
  <2>1. \A j \in 1..(i - 1) : s[j] \in Procs
    BY <1>1
  <2> QED
    BY <1>1, <2>1, SubSeqProperties
<1>3. b \in Seq(Procs) /\ Len(b) = Len(s) - i /\ \A j \in 1..(Len(s) - i) : b[j] = s[i + j]
  <2>1. \A j \in (i + 1)..Len(s) : s[j] \in Procs
    BY <1>1
  <2> QED
    BY <1>1, <2>1, SubSeqProperties
<1> HIDE DEF a, b
<1> DEFINE from(j) == IF j < i THEN j ELSE j + 1
<1>4. t \in Seq(Procs) /\ Len(t) = Len(s) - 1
  <2>1. t \in Seq(Procs) /\ Len(t) = Len(a) + Len(b)
    BY <1>2, <1>3, ConcatProperties
  <2>2. Len(a) + Len(b) = Len(s) - 1
    BY <1>1, <1>2, <1>3
  <2> QED
    BY <2>1, <2>2
<1>5. ASSUME NEW j \in 1..(Len(s) - 1) PROVE t[j] = s[from(j)]
  <2>1. Len(a) + Len(b) = Len(s) - 1
    BY <1>1, <1>2, <1>3
  <2>2. t[j] = IF j <= Len(a) THEN a[j] ELSE b[j - Len(a)]
    BY <1>2, <1>3, <2>1, ConcatProperties
  <2>3. CASE j < i
    BY <1>1, <1>2, <2>2, <2>3
  <2>4. CASE ~(j < i)
    <3>1. j - (i - 1) \in 1..(Len(s) - i) /\ i + (j - (i - 1)) = j + 1 /\ ~(j <= Len(a))
      BY <1>1, <1>2, <2>4
    <3> QED
      BY <1>2, <1>3, <2>2, <2>4, <3>1
  <2> QED
    BY <2>3, <2>4
<1> HIDE DEF t
<1>6. ASSUME NEW j \in 1..(Len(s) - 1), NEW k \in 1..(Len(s) - 1), t[j] = t[k] PROVE j = k
  <2>1. from(j) \in 1..Len(s) /\ from(k) \in 1..Len(s)
    BY <1>1
  <2>2. from(j) = from(k)
    <3>1. s[from(j)] = s[from(k)]
      BY <1>5, <1>6
    <3> HIDE DEF from
    <3> QED
      BY <2>1, <3>1 DEF QueueOk
  <2> QED
    BY <1>1, <2>2
<1>7. QueueOk(t)
  BY <1>4, <1>6 DEF QueueOk
<1> QED
  BY <1>7 DEF t, a, b, RemoveAt

(* scheduler_tick puts the first process at the end and switches to the    *)
(* one that is first then.                                                 *)
LEMMA TickOk ==
    ASSUME NEW s, QueueOk(s), scheduler_tick(s), cpu \in Contexts
    PROVE  QueueOk(queue') /\ cpu' \in Contexts
<1>1. CASE s = <<>>
  BY <1>1 DEF scheduler_tick, Rotated
<1>2. CASE s # <<>>
  <2> DEFINE n == Len(s)
             r == Tail(s) \o <<Head(s)>>
  <2>1. s \in Seq(Procs) /\ n \in Nat /\ n > 0
    BY <1>2 DEF QueueOk
  <2>2. Tail(s) \in Seq(Procs) /\ Len(Tail(s)) = n - 1
        /\ \A j \in 1..(n - 1) : Tail(s)[j] = s[j + 1]
    BY <2>1
  <2>3. <<Head(s)>> \in Seq(Procs) /\ Len(<<Head(s)>>) = 1 /\ <<Head(s)>>[1] = s[1]
    BY <1>2, <2>1
  <2>4. r \in Seq(Procs) /\ Len(r) = n
        /\ \A j \in 1..n : r[j] = IF j <= n - 1 THEN s[j + 1] ELSE s[1]
    <3>1. r \in Seq(Procs) /\ Len(r) = (n - 1) + 1
          /\ \A j \in 1..((n - 1) + 1) :
                r[j] = IF j <= n - 1 THEN Tail(s)[j] ELSE <<Head(s)>>[j - (n - 1)]
      BY <2>1, <2>2, <2>3, ConcatProperties
    <3>2. (n - 1) + 1 = n
      BY <2>1
    <3> HIDE DEF r
    <3>3. ASSUME NEW j \in 1..n PROVE r[j] = IF j <= n - 1 THEN s[j + 1] ELSE s[1]
      <4>1. CASE j <= n - 1
        BY <2>1, <2>2, <3>1, <3>2, <4>1
      <4>2. CASE ~(j <= n - 1)
        <5>1. j - (n - 1) = 1
          BY <2>1, <4>2
        <5> QED
          BY <2>3, <3>1, <3>2, <4>2, <5>1
      <4> QED
        BY <4>1, <4>2
    <3> QED
      BY <3>1, <3>2, <3>3
  <2>5. queue' = r /\ cpu' = Head(queue')
    BY <1>2 DEF scheduler_tick, Rotated
  <2> HIDE DEF r
  <2>6. QueueOk(r)
    <3> DEFINE from(j) == IF j <= n - 1 THEN j + 1 ELSE 1
    <3>1. ASSUME NEW j \in 1..n, NEW k \in 1..n, r[j] = r[k] PROVE j = k
      <4>1. from(j) \in 1..n /\ from(k) \in 1..n /\ r[j] = s[from(j)] /\ r[k] = s[from(k)]
        BY <2>1, <2>4
      <4>2. from(j) = from(k)
        <5> HIDE DEF from
        <5> QED
          BY <3>1, <4>1 DEF QueueOk
      <4> QED
        BY <2>1, <4>2
    <3> QED
      BY <2>4, <3>1 DEF QueueOk
  <2>7. Head(r) \in Procs
    BY <2>1, <2>4
  <2> QED
    BY <2>5, <2>6, <2>7 DEF Contexts
<1> QED
  BY <1>1, <1>2

-----------------------------------------------------------------------------
(* The actions preserve the invariant. *)

LEMMA InitIInv == Init => IInv
<1> SUFFICES ASSUME Init PROVE IInv
  OBVIOUS
<1>1. QueueOk(queue)
  BY DEF Init, QueueOk
<1>2. Unfinished = {} /\ master = {}
  BY DEF Init, Unfinished
<1>3. FewUnfinished /\ AcksBalance
  BY <1>2, FS_EmptySet DEF FewUnfinished, AcksBalance
<1>4. TypeOK
  BY <1>1, QueueOkTyped DEF Init, TypeOK, Contexts
<1> QED
  BY <1>1, <1>3, <1>4 DEF IInv

(* Raising a line changes only what waits. *)
LEMMA RaiseIInv ==
    ASSUME IInv, NEW i \in Lines, Raise(i)
    PROVE  IInv'
<1>1. TypeOK'
  BY DEF IInv, TypeOK, Raise
<1>2. Unfinished' = Unfinished /\ master' = master /\ queue' = queue
  BY DEF Raise, Unfinished
<1> QED
  BY <1>1, <1>2 DEF IInv, FewUnfinished, AcksBalance

(* A line that gets through is not in service, so one more line is, and    *)
(* one more handler begins.                                                *)
LEMMA AcceptIInv ==
    ASSUME IInv, NEW i \in Lines, Accept(i)
    PROVE  IInv'
<1>1. /\ irr \subseteq Lines /\ master \in SUBSET MasterLines /\ slave \subseteq {Mouse}
      /\ cpu \in Contexts /\ frame \in [Contexts -> Frames]
      /\ IsInjective(queue) /\ Range(queue) \subseteq Procs
      /\ QueueOk(queue) /\ IsFiniteSet(Unfinished) /\ Cardinality(master) = Cardinality(Unfinished)
  BY DEF IInv, TypeOK, Frames, MasterLines, FewUnfinished, AcksBalance
<1>2. /\ frame[cpu] = NoFrame
      /\ irr' = irr \ {i} /\ master' = master \cup {Input(i)}
      /\ slave' = IF i >= 8 THEN slave \cup {i} ELSE slave
      /\ frame' = [frame EXCEPT ![cpu] = [irq |-> i, at |-> "drivers"]]
      /\ cpu' = cpu /\ queue' = queue
  BY DEF Accept
<1>3. Input(i) \in MasterLines /\ (i >= 8 => i = Mouse)
  BY DEF Lines, Input, MasterLines, Timer, Keyboard, Cascade, Mouse
<1>4. Input(i) \notin master
  BY <1>1, <1>3 DEF Accept, Passes, MasterLines, Timer, Keyboard, Cascade
<1>5. [irq |-> i, at |-> "drivers"] \in Frames /\ [irq |-> i, at |-> "drivers"] # NoFrame
  BY DEF Frames, NoFrame
<1>6. TypeOK'
  <2>1. frame' \in [Contexts -> Frames]
    BY <1>1, <1>2, <1>5
  <2>2. irr' \subseteq Lines /\ master' \subseteq MasterLines /\ slave' \subseteq {Mouse}
    BY <1>1, <1>2, <1>3
  <2> QED
    BY <1>1, <1>2, <2>1, <2>2 DEF TypeOK, Frames, MasterLines
<1>7. Unfinished' = Unfinished \cup {cpu} /\ cpu \notin Unfinished
  BY <1>1, <1>2, <1>5 DEF Unfinished
<1>8. IsFiniteSet(Unfinished') /\ Cardinality(Unfinished') = Cardinality(Unfinished) + 1
  BY <1>1, <1>7, FS_AddElement
<1>9. Cardinality(master') = Cardinality(master) + 1
  BY <1>1, <1>2, <1>4, MasterFinite, FS_AddElement
<1> QED
  BY <1>1, <1>2, <1>6, <1>8, <1>9 DEF IInv, FewUnfinished, AcksBalance

(* driver_dispatch_irq leaves the handler unfinished, whoever runs next. *)
LEMMA DispatchIInv ==
    ASSUME IInv, driver_dispatch_irq
    PROVE  IInv'
<1>1. /\ irr \subseteq Lines /\ master \in SUBSET MasterLines /\ slave \subseteq {Mouse}
      /\ cpu \in Contexts /\ frame \in [Contexts -> Frames]
      /\ QueueOk(queue)
  BY DEF IInv, TypeOK, Frames, MasterLines
<1>2. /\ frame[cpu].at = "drivers"
      /\ frame' = [frame EXCEPT ![cpu].at = "eoi"]
      /\ scheduler_tick(queue)
      /\ irr' = irr /\ master' = master /\ slave' = slave
  BY DEF driver_dispatch_irq
<1>3. QueueOk(queue') /\ cpu' \in Contexts
  BY <1>1, <1>2, TickOk
<1>4. frame[cpu] \in [irq : Lines, at : {"drivers", "eoi"}]
  BY <1>1, <1>2 DEF Frames, NoFrame
<1> DEFINE f == [frame[cpu] EXCEPT !.at = "eoi"]
<1>5. f \in [irq : Lines, at : {"drivers", "eoi"}]
  BY <1>4
<1>6. frame' = [frame EXCEPT ![cpu] = f]
  BY <1>2
<1>7. f \in Frames /\ f # NoFrame /\ frame[cpu] # NoFrame
  <2>1. \A r \in [irq : Lines, at : {"drivers", "eoi"}] : r # NoFrame
    BY DEF NoFrame
  <2> HIDE DEF f
  <2> QED
    BY <1>4, <1>5, <2>1 DEF Frames
<1> HIDE DEF f
<1>8. frame' \in [Contexts -> Frames] /\ Unfinished' = Unfinished
  BY <1>1, <1>6, <1>7 DEF Unfinished
<1>9. TypeOK'
  BY <1>1, <1>2, <1>3, <1>8, QueueOkTyped DEF TypeOK, Frames, MasterLines
<1> QED
  BY <1>2, <1>3, <1>8, <1>9 DEF IInv, FewUnfinished, AcksBalance

(* The end of isr_handler finishes one handler and takes one line out of   *)
(* service: there is one, since a handler was unfinished.                  *)
LEMMA ReturnIInv ==
    ASSUME IInv, isr_return
    PROVE  IInv'
<1>1. /\ irr \subseteq Lines /\ master \in SUBSET MasterLines /\ slave \subseteq {Mouse}
      /\ cpu \in Contexts /\ frame \in [Contexts -> Frames]
      /\ IsInjective(queue) /\ Range(queue) \subseteq Procs
      /\ QueueOk(queue) /\ IsFiniteSet(Unfinished) /\ Cardinality(master) = Cardinality(Unfinished)
  BY DEF IInv, TypeOK, Frames, MasterLines, FewUnfinished, AcksBalance
<1>2. /\ frame[cpu].at = "eoi"
      /\ master' = master \ {Min(master)}
      /\ slave' \subseteq slave
      /\ frame' = [frame EXCEPT ![cpu] = NoFrame]
      /\ irr' = irr /\ cpu' = cpu /\ queue' = queue
  BY DEF isr_return, drivers_pic_send_eoi
<1>3. cpu \in Unfinished /\ Unfinished' = Unfinished \ {cpu}
  BY <1>1, <1>2 DEF Unfinished, NoFrame
<1>4. IsFiniteSet(Unfinished') /\ Cardinality(Unfinished') = Cardinality(Unfinished) - 1
  BY <1>1, <1>3, FS_RemoveElement
<1>5. master # {}
  BY <1>1, <1>3, FS_EmptySet
<1>6. Cardinality(master') = Cardinality(master) - 1
  BY <1>1, <1>2, <1>5, MinOfLines, MasterFinite, FS_RemoveElement
<1>7. frame' \in [Contexts -> Frames]
  BY <1>1, <1>2 DEF Frames
<1>8. TypeOK'
  BY <1>1, <1>2, <1>7 DEF TypeOK, Frames, MasterLines
<1> QED
  BY <1>1, <1>2, <1>4, <1>6, <1>8 DEF IInv, FewUnfinished, AcksBalance

(* The scheduler's own steps touch neither handlers nor controllers. *)
LEMMA ScheduleIInv ==
    ASSUME IInv, QueueOk(queue'), cpu' \in Contexts, UNCHANGED <<irr, master, slave, frame>>
    PROVE  IInv'
<1>1. TypeOK'
  BY QueueOkTyped DEF IInv, TypeOK
<1>2. Unfinished' = Unfinished
  BY DEF Unfinished
<1> QED
  BY <1>1, <1>2 DEF IInv, FewUnfinished, AcksBalance

(* A process that is queued was not in the queue. *)
LEMMA AddIInv ==
    ASSUME IInv, NEW p \in Procs, scheduler_add(p)
    PROVE  IInv'
<1>1. QueueOk(queue) /\ cpu \in Contexts /\ cpu' = cpu /\ UNCHANGED <<irr, master, slave, frame>>
  BY DEF IInv, TypeOK, scheduler_add
<1>2. queue' = Append(queue, p) /\ \A i \in 1..Len(queue) : queue[i] # p
  BY DEF scheduler_add, Contains
<1>3. QueueOk(queue')
  BY <1>1, <1>2 DEF QueueOk
<1> QED
  BY <1>1, <1>3, ScheduleIInv

(* SYSCALL_EXIT takes the running process out of the queue. *)
LEMMA ExitIInv ==
    ASSUME IInv, SYSCALL_EXIT
    PROVE  IInv'
<1>1. QueueOk(queue) /\ cpu \in Contexts /\ UNCHANGED <<irr, master, slave, frame>>
  BY DEF IInv, TypeOK, SYSCALL_EXIT
<1>2. PICK i \in DOMAIN queue : scheduler_tick(RemoveAt(queue, i))
  BY DEF SYSCALL_EXIT
<1>3. i \in 1..Len(queue)
  BY <1>1 DEF QueueOk
<1>4. QueueOk(RemoveAt(queue, i))
  BY <1>1, <1>3, RemoveAtOk
<1>5. QueueOk(queue') /\ cpu' \in Contexts
  BY <1>1, <1>2, <1>4, TickOk
<1> QED
  BY <1>1, <1>5, ScheduleIInv

(* Every step preserves the invariant. *)
LEMMA NextIInv == IInv /\ [Next]_vars => IInv'
<1> SUFFICES ASSUME IInv, [Next]_vars PROVE IInv'
  OBVIOUS
<1>1. CASE \E i \in Lines : Raise(i)
  BY <1>1, RaiseIInv
<1>2. CASE \E i \in Lines : Accept(i)
  BY <1>2, AcceptIInv
<1>3. CASE driver_dispatch_irq
  BY <1>3, DispatchIInv
<1>4. CASE isr_return
  BY <1>4, ReturnIInv
<1>5. CASE \E p \in Procs : scheduler_add(p)
  BY <1>5, AddIInv
<1>6. CASE SYSCALL_EXIT
  BY <1>6, ExitIInv
<1>7. CASE UNCHANGED vars
  <2>1. queue' = queue /\ cpu' = cpu /\ UNCHANGED <<irr, master, slave, frame>>
    BY <1>7 DEF vars
  <2> QED
    BY <2>1, ScheduleIInv DEF IInv, TypeOK
<1> QED
  BY <1>1, <1>2, <1>3, <1>4, <1>5, <1>6, <1>7 DEF Next, Cpu

(* The first controller has as many lines in service as there are handlers *)
(* to finish, for any number of processes: although drivers_pic_send_eoi   *)
(* may acknowledge another handler's line, and scheduler_tick leaves       *)
(* handlers half way, no acknowledgement is lost or sent twice.            *)
THEOREM AcknowledgementsBalance == Spec => []AcksSound
<1>1. IInv => AcksSound
  BY DEF IInv, AcksSound
<1> QED
  BY <1>1, InitIInv, NextIInv, PTL DEF Spec
=============================================================================
