---------------------------- MODULE KeyboardProofs ----------------------------
(***************************************************************************)
(* Proofs about the keyboard ring of src/drivers/ps2/keyboard.c for every  *)
(* buffer size and every set of keys: interrupts never disturb a           *)
(* keyboard_poll in progress, and the ring implements a bounded queue.     *)
(* They carry over to the console (src/ui/input.c, src/ui/shell.c), whose  *)
(* way from the key to the command is proved at the end.                   *)
(***************************************************************************)
EXTENDS Console, SequenceTheorems, TLAPS

(* The two invariants together are inductive: PollUndisturbed needs the    *)
(* ranges of the indices, and needs itself between the steps of a poll.    *)
KInv == KbdTypeOK /\ PollUndisturbed

(* (i + 1) % KBD_BUF_SIZE is the next slot, wrapping at the end. *)
LEMMA AdvanceWraps ==
    ASSUME NEW i \in 0..(BufSize - 1)
    PROVE  /\ Advance(i) \in 0..(BufSize - 1)
           /\ Advance(i) = IF i + 1 = BufSize THEN 0 ELSE i + 1
<1>1. BufSize \in Nat \ {0}
  BY KeyboardAssumption
<1>2. (i + 1) % BufSize = IF i + 1 = BufSize THEN 0 ELSE i + 1
  BY <1>1, SMTT(30)
<1> QED
  BY <1>1, <1>2 DEF Advance

(* keyboard_init establishes the invariant. *)
LEMMA InitKInv == keyboard_init => KInv
<1> SUFFICES ASSUME keyboard_init PROVE KInv
  OBVIOUS
<1>1. 0 \in 0..(BufSize - 1)
  BY KeyboardAssumption
<1>2. KbdTypeOK
  BY <1>1 DEF keyboard_init, KbdTypeOK, Bytes
<1>3. PollUndisturbed
  BY DEF keyboard_init, PollUndisturbed
<1> QED
  BY <1>2, <1>3 DEF KInv

(* kbd_push writes only a slot outside the waiting scancodes and never     *)
(* makes the ring look empty.                                              *)
LEMMA PushKInv ==
    ASSUME KInv, NEW sc \in Keys, kbd_push(sc),
           UNCHANGED <<shift_pressed, caps_lock, pc, scancode, delivered>>, port' \in Bytes
    PROVE  KInv'
<1>1. CASE UNCHANGED ring
  BY <1>1 DEF KInv, KbdTypeOK, PollUndisturbed, ring
<1>2. CASE /\ Advance(kbd_head) # kbd_tail
           /\ kbd_buffer' = [kbd_buffer EXCEPT ![kbd_head] = sc]
           /\ kbd_head' = Advance(kbd_head)
           /\ UNCHANGED kbd_tail
  <2>1. kbd_head' \in 0..(BufSize - 1)
    BY <1>2, AdvanceWraps DEF KInv, KbdTypeOK
  <2>2. kbd_buffer' \in [0..(BufSize - 1) -> Keys \cup {"Break"}]
    BY <1>2 DEF KInv, KbdTypeOK
  <2>3. KbdTypeOK'
    BY <1>2, <2>1, <2>2 DEF KInv, KbdTypeOK
  <2>4. kbd_head # kbd_tail => kbd_buffer'[kbd_tail] = kbd_buffer[kbd_tail]
    BY <1>2 DEF KInv, KbdTypeOK
  <2>5. PollUndisturbed'
    BY <1>2, <2>4 DEF KInv, PollUndisturbed
  <2> QED
    BY <2>3, <2>5 DEF KInv
<1> QED
  BY <1>1, <1>2 DEF kbd_push

(* The interrupt handler preserves the invariant, whatever the byte. *)
LEMMA IrqKInv ==
    ASSUME KInv, NEW b \in Bytes, keyboard_on_irq(b),
           UNCHANGED <<pc, scancode, delivered>>, port' \in Bytes
    PROVE  KInv'
<1>1. CASE b \in Keys /\ kbd_push(b) /\ UNCHANGED <<shift_pressed, caps_lock>>
  BY <1>1, PushKInv
<1>2. CASE UNCHANGED ring /\ shift_pressed' \in BOOLEAN /\ caps_lock' \in BOOLEAN
  BY <1>2 DEF KInv, KbdTypeOK, PollUndisturbed, ring
<1> QED
  <2>1. shift_pressed \in BOOLEAN /\ caps_lock \in BOOLEAN
    BY DEF KInv, KbdTypeOK
  <2>2. (b = "ShiftDown") \in BOOLEAN /\ (~caps_lock) \in BOOLEAN
    OBVIOUS
  <2> QED
    BY <1>1, <1>2, <2>1, <2>2, Zenon DEF keyboard_on_irq

(* Every step of the driver and of its reader preserves the invariant. *)
LEMMA NextKInv == KInv /\ [KbdNext]_kbdVars => KInv'
<1> SUFFICES ASSUME KInv, [KbdNext]_kbdVars PROVE KInv'
  OBVIOUS
<1>1. CASE TimerIrq
  <2>1. port \in Bytes /\ port' \in Bytes
    BY <1>1 DEF KInv, KbdTypeOK, TimerIrq
  <2> QED
    BY <1>1, <2>1, IrqKInv DEF TimerIrq
<1>2. CASE \E b \in Bytes : DataIrq(b)
  <2>1. PICK b \in Bytes : DataIrq(b)
    BY <1>2
  <2> QED
    BY <2>1, IrqKInv DEF DataIrq
<1>3. CASE PollTest
  BY <1>3 DEF PollTest, KInv, KbdTypeOK, PollUndisturbed, ring
<1>4. CASE PollRead
  BY <1>4 DEF PollRead, KInv, KbdTypeOK, PollUndisturbed, ring
<1>5. CASE PollAdvance
  <2>1. kbd_tail' \in 0..(BufSize - 1)
    BY <1>5, AdvanceWraps DEF PollAdvance, KInv, KbdTypeOK
  <2> QED
    BY <1>5, <2>1 DEF PollAdvance, KInv, KbdTypeOK, PollUndisturbed
<1>6. CASE PollReturn
  BY <1>6 DEF PollReturn, KInv, KbdTypeOK, PollUndisturbed, ring
<1>7. CASE UNCHANGED kbdVars
  BY <1>7 DEF kbdVars, ring, KInv, KbdTypeOK, PollUndisturbed
<1> QED
  BY <1>1, <1>2, <1>3, <1>4, <1>5, <1>6, <1>7 DEF KbdNext, Irq, Poll

(* The invariant holds in every reachable state. *)
THEOREM SpecKInv == KbdSpec => []KInv
  BY InitKInv, NextKInv, PTL DEF KbdSpec

(* The statics of keyboard.c keep their types; both ring indices stay      *)
(* inside kbd_buffer.                                                      *)
THEOREM KbdTypeCorrect == KbdSpec => []KbdTypeOK
<1>1. KInv => KbdTypeOK
  BY DEF KInv
<1> QED
  BY <1>1, SpecKInv, PTL

(* No interrupt between the accesses of keyboard_poll empties the ring or  *)
(* overwrites the slot being read.                                         *)
THEOREM PollIsUndisturbed == KbdSpec => []PollUndisturbed
<1>1. KInv => PollUndisturbed
  BY DEF KInv
<1> QED
  BY <1>1, SpecKInv, PTL

-----------------------------------------------------------------------------
(* Refinement *)

(* What waits in the ring is a sequence of its length. *)
IsPending == Pending \in Seq(Keys \cup {"Break"}) /\ Len(Pending) = Count

(* The ring's contents always are one. *)
LEMMA PendingSeq ==
    KInv => Pending \in Seq(Keys \cup {"Break"}) /\ Len(Pending) = Count
<1> SUFFICES ASSUME KInv
             PROVE  Pending \in Seq(Keys \cup {"Break"}) /\ Len(Pending) = Count
  OBVIOUS
<1>1. BufSize \in Nat \ {0} /\ kbd_head \in 0..(BufSize - 1) /\ kbd_tail \in 0..(BufSize - 1)
  BY KeyboardAssumption DEF KInv, KbdTypeOK
<1>2. Count \in 0..(BufSize - 1)
  BY <1>1 DEF Count
<1>3. \A i \in 1..Count : Slot(i) \in 0..(BufSize - 1)
  BY <1>1, <1>2 DEF Slot
<1>4. \A i \in 1..Count : kbd_buffer[Slot(i)] \in Keys \cup {"Break"}
  BY <1>3 DEF KInv, KbdTypeOK
<1>5. Pending \in [1..Count -> Keys \cup {"Break"}]
  BY <1>4 DEF Pending
<1>6. Pending \in Seq(Keys \cup {"Break"}) /\ Len(Pending) = Count
  BY <1>2, <1>5, SMT
<1> QED
  BY <1>6

(* The same of the next state. *)
LEMMA PendingSeqNext ==
    KInv' => Pending' \in Seq(Keys \cup {"Break"}) /\ Len(Pending') = Count'
<1>1. KInv => IsPending
  BY PendingSeq DEF IsPending
<1>2. KInv' => IsPending'
  BY <1>1, PTL
<1> QED
  BY <1>2 DEF IsPending

(* A push that is not refused appends to the queue. *)
LEMMA PushAppends ==
    ASSUME KInv, KInv', NEW sc \in Keys,
           Advance(kbd_head) # kbd_tail,
           kbd_buffer' = [kbd_buffer EXCEPT ![kbd_head] = sc],
           kbd_head' = Advance(kbd_head), UNCHANGED kbd_tail
    PROVE  Len(Pending) < BufSize - 1 /\ Pending' = Append(Pending, sc)
<1>1. /\ BufSize \in Nat \ {0} /\ kbd_head \in 0..(BufSize - 1) /\ kbd_tail \in 0..(BufSize - 1)
      /\ kbd_buffer \in [0..(BufSize - 1) -> Keys \cup {"Break"}]
  BY KeyboardAssumption DEF KInv, KbdTypeOK
<1>2. kbd_head' = IF kbd_head + 1 = BufSize THEN 0 ELSE kbd_head + 1
  BY <1>1, AdvanceWraps
<1>3. Count' = Count + 1 /\ Count < BufSize - 1 /\ Count \in Nat
  BY <1>1, <1>2 DEF Count
<1>4. \A i \in 1..Count' : Slot(i)' = Slot(i)
  BY DEF Slot
<1>5. \A i \in 1..Count : Slot(i) # kbd_head /\ Slot(i) \in 0..(BufSize - 1)
  BY <1>1 DEF Slot, Count
<1>6. Slot(Count + 1) = kbd_head
  BY <1>1, <1>2, <1>3 DEF Slot, Count
<1>7. \A i \in 1..Count : Pending'[i] = Pending[i]
  BY <1>1, <1>3, <1>4, <1>5 DEF Pending
<1>8. Pending'[Count + 1] = sc
  BY <1>1, <1>3, <1>4, <1>6 DEF Pending
<1>9. /\ Pending \in Seq(Keys \cup {"Break"}) /\ Len(Pending) = Count
      /\ Pending' \in Seq(Keys \cup {"Break"}) /\ Len(Pending') = Count + 1
  <2>1. Pending' \in Seq(Keys \cup {"Break"}) /\ Len(Pending') = Count'
    BY PendingSeqNext
  <2> QED
    BY <1>3, <2>1, PendingSeq
<1> HIDE DEF Pending, Count
<1>10. \A i \in 1..(Count + 1) : Pending'[i] = Append(Pending, sc)[i]
  BY <1>3, <1>7, <1>8, <1>9
<1>11. Append(Pending, sc) \in Seq(Keys \cup {"Break"}) /\ Len(Append(Pending, sc)) = Count + 1
  BY <1>9
<1>12. Pending' = Append(Pending, sc)
  BY <1>9, <1>10, <1>11, SeqEqual
<1> QED
  BY <1>3, <1>9, <1>12

(* Moving kbd_tail takes the oldest scancode off the queue. *)
LEMMA AdvancePops ==
    ASSUME KInv, KInv', PollAdvance
    PROVE  Pending # <<>> /\ delivered' = Head(Pending) /\ Pending' = Tail(Pending)
<1>1. /\ BufSize \in Nat \ {0} /\ kbd_head \in 0..(BufSize - 1) /\ kbd_tail \in 0..(BufSize - 1)
      /\ kbd_buffer \in [0..(BufSize - 1) -> Keys \cup {"Break"}]
  BY KeyboardAssumption DEF KInv, KbdTypeOK
<1>2. /\ kbd_tail' = IF kbd_tail + 1 = BufSize THEN 0 ELSE kbd_tail + 1
      /\ kbd_buffer' = kbd_buffer /\ kbd_head' = kbd_head
  BY <1>1, AdvanceWraps DEF PollAdvance
<1>3. kbd_head # kbd_tail /\ delivered' = kbd_buffer[kbd_tail]
  BY DEF PollAdvance, KInv, PollUndisturbed
<1>4. Count' = Count - 1 /\ Count \in Nat \ {0}
  BY <1>1, <1>2, <1>3 DEF Count
<1>5. Slot(1) = kbd_tail
  BY <1>1 DEF Slot
<1>6. \A i \in 1..(Count - 1) : Slot(i)' = Slot(i + 1)
  BY <1>1, <1>2, <1>4 DEF Slot, Count
<1>7. \A i \in 1..(Count - 1) : Pending'[i] = Pending[i + 1]
  BY <1>2, <1>4, <1>6 DEF Pending
<1>8. Pending[1] = kbd_buffer[kbd_tail]
  BY <1>4, <1>5 DEF Pending
<1>9. /\ Pending \in Seq(Keys \cup {"Break"}) /\ Len(Pending) = Count
      /\ Pending' \in Seq(Keys \cup {"Break"}) /\ Len(Pending') = Count - 1
  BY <1>4, PendingSeq, PendingSeqNext
<1> HIDE DEF Pending, Count
<1>10. Pending # <<>> /\ Head(Pending) = Pending[1]
  BY <1>4, <1>9
<1>11. /\ Tail(Pending) \in Seq(Keys \cup {"Break"}) /\ Len(Tail(Pending)) = Count - 1
       /\ \A i \in 1..(Count - 1) : Tail(Pending)[i] = Pending[i + 1]
  BY <1>4, <1>9, <1>10
<1>12. Pending' = Tail(Pending)
  BY <1>7, <1>9, <1>11, SeqEqual
<1> QED
  BY <1>3, <1>8, <1>10, <1>12

(* A step that leaves the ring alone leaves the queue alone. *)
LEMMA PendingUnchanged == UNCHANGED ring => Pending' = Pending
  BY DEF ring, Pending, Count, Slot

(* Every step of the driver is a step of the queue, or none. *)
LEMMA StepRefines == KInv /\ KInv' /\ [KbdNext]_kbdVars => [F!FifoNext]_(F!fifoVars)
<1> SUFFICES ASSUME KInv, KInv', [KbdNext]_kbdVars PROVE [F!FifoNext]_(F!fifoVars)
  OBVIOUS
<1>1. ASSUME NEW b \in Bytes, keyboard_on_irq(b), UNCHANGED delivered
      PROVE  [F!FifoNext]_(F!fifoVars)
  <2>1. CASE UNCHANGED ring
    BY <1>1, <2>1, PendingUnchanged DEF F!fifoVars
  <2>2. CASE /\ b \in Keys
             /\ Advance(kbd_head) # kbd_tail
             /\ kbd_buffer' = [kbd_buffer EXCEPT ![kbd_head] = b]
             /\ kbd_head' = Advance(kbd_head)
             /\ UNCHANGED kbd_tail
    <3>1. Len(Pending) < BufSize - 1 /\ Pending' = Append(Pending, b)
      BY <2>2, PushAppends
    <3>2. F!Push(b)
      BY <1>1, <3>1 DEF F!Push
    <3> QED
      BY <2>2, <3>2 DEF F!FifoNext
  <2> QED
    BY <1>1, <2>1, <2>2 DEF keyboard_on_irq, kbd_push
<1>2. CASE TimerIrq
  BY <1>1, <1>2 DEF TimerIrq, KInv, KbdTypeOK
<1>3. CASE \E b \in Bytes : DataIrq(b)
  BY <1>1, <1>3 DEF DataIrq
<1>4. CASE PollTest \/ PollRead \/ PollReturn
  <2>1. UNCHANGED ring /\ UNCHANGED delivered
    BY <1>4 DEF PollTest, PollRead, PollReturn
  <2> QED
    BY <2>1, PendingUnchanged DEF F!fifoVars
<1>5. CASE PollAdvance
  <2>1. F!Pop
    BY <1>5, AdvancePops DEF F!Pop
  <2> QED
    BY <2>1 DEF F!FifoNext
<1>6. CASE UNCHANGED kbdVars
  <2>1. UNCHANGED ring /\ UNCHANGED delivered
    BY <1>6 DEF kbdVars
  <2> QED
    BY <2>1, PendingUnchanged DEF F!fifoVars
<1> QED
  BY <1>2, <1>3, <1>4, <1>5, <1>6 DEF KbdNext, Irq, Poll

(* The empty ring is the empty queue. *)
LEMMA InitRefines == keyboard_init => F!FifoInit
<1> SUFFICES ASSUME keyboard_init PROVE Pending = <<>>
  BY DEF F!FifoInit
<1>1. Count = 0
  BY DEF keyboard_init, Count
<1> QED
  BY <1>1 DEF Pending

(* The keyboard ring implements the bounded first-in first-out queue, for  *)
(* every buffer size.                                                      *)
THEOREM RingIsFifo == KbdSpec => ImplementsFifo
<1>1. KbdSpec => []KInv
  BY SpecKInv
<1> QED
  BY <1>1, InitRefines, StepRefines, PTL DEF KbdSpec, ImplementsFifo, F!FifoSpec
-----------------------------------------------------------------------------
(* The console above the keyboard *)

(* Whatever the idle loop does, the keyboard driver takes one of its own   *)
(* steps or none: everything proved of the driver holds in the console.    *)
LEMMA ConsoleSteps == [Next]_vars => [KbdNext]_kbdVars
<1> SUFFICES ASSUME [Next]_vars PROVE [KbdNext]_kbdVars
  OBVIOUS
<1>1. CASE TickStart \/ shell_tick \/ ui_render \/ UNCHANGED vars
  BY <1>1 DEF TickStart, shell_tick, ui_render, vars
<1>2. CASE PollStep \/ input_poll \/ PollDone
  BY <1>2 DEF PollStep, input_poll, PollDone, KbdNext
<1>3. CASE Timer \/ \E b \in Bytes : Device(b)
  BY <1>3 DEF Timer, Device, KbdNext, Irq
<1> QED
  BY <1>1, <1>2, <1>3 DEF Next, Loop

(* The console's use of the keyboard is a behaviour of the driver. *)
THEOREM ConsoleRunsKeyboard == Spec => KbdSpec
<1>1. Init => keyboard_init
  BY DEF Init
<1> QED
  BY <1>1, ConsoleSteps, PTL DEF Spec, KbdSpec

(* A line buffer with room for the terminating zero. *)
Lines == {b \in Seq(Chars) : Len(b) < InputMax}

(* Where the line is along the way from the input buffer to the field: the *)
(* buffer changes only between a draw and the next copy.                   *)
CInv ==
    /\ phase \in {"tick", "poll", "enter", "render", "hlt"}
    /\ input_buf \in Lines /\ snapshot \in Lines /\ cmd_buf \in Lines
    /\ field \in Lines
    /\ executed \in Seq(Lines)
    /\ phase \in {"tick", "hlt"} => field = input_buf
    /\ phase = "render" => cmd_buf = input_buf
    /\ HistoryIsRecent

LEMMA EmptyLine == <<>> \in Lines
<1>1. InputMax \in Nat \ {0} /\ <<>> \in Seq(Chars) /\ Len(<<>>) = 0
  BY ConsoleAssumption
<1> QED
  BY <1>1 DEF Lines

LEMMA InitCInv == Init => CInv
<1> SUFFICES ASSUME Init PROVE CInv
  OBVIOUS
<1>1. executed = <<>> /\ global_history = <<>> /\ executed \in Seq(Lines)
  BY DEF Init
<1>2. Len(executed) = 0 /\ 0 <= MaxHistory
  BY <1>1, ConsoleAssumption
<1>3. HistoryIsRecent
  BY <1>1, <1>2 DEF HistoryIsRecent
<1>4. phase = "tick" /\ <<input_buf, snapshot, cmd_buf, field>> = <<<<>>, <<>>, <<>>, <<>>>>
  BY DEF Init
<1> QED
  BY <1>1, <1>3, <1>4, EmptyLine DEF CInv

(* Backspace, Enter and a printable key keep a line within its buffer. *)
LEMMA InputCInv == ASSUME KInv, CInv, input_poll PROVE CInv'
<1>1. /\ phase = "poll"
      /\ UNCHANGED <<phase, snapshot, cmd_buf, global_history, field, executed>>
  BY DEF input_poll
<1>2. InputMax \in Nat \ {0}
  BY ConsoleAssumption
<1>3. input_buf \in Seq(Chars) /\ Len(input_buf) < InputMax /\ Len(input_buf) \in Nat
  BY DEF CInv, Lines
<1>4. input_buf' \in Lines
  <2>1. CASE scancode = "BS" /\ input_buf' = (IF input_buf = <<>> THEN <<>> ELSE Front(input_buf))
    <3>1. ASSUME input_buf # <<>> PROVE Front(input_buf) \in Lines
      <4>1. Len(input_buf) - 1 \in Nat
        BY <1>3, <3>1
      <4>2. /\ SubSeq(input_buf, 1, Len(input_buf) - 1) \in Seq(Chars)
            /\ Len(SubSeq(input_buf, 1, Len(input_buf) - 1)) = Len(input_buf) - 1
        <5> DEFINE m == Len(input_buf) - 1
        <5>1. m \in Nat /\ 1 \in Int /\ m \in Int
          BY <4>1
        <5>2. \A i \in 1..m : input_buf[i] \in Chars
          BY <1>3, <4>1
        <5> HIDE DEF m
        <5>3. /\ SubSeq(input_buf, 1, m) \in Seq(Chars)
              /\ Len(SubSeq(input_buf, 1, m)) = IF 1 <= m THEN m - 1 + 1 ELSE 0
          BY <5>1, <5>2, SubSeqProperties
        <5>4. Len(SubSeq(input_buf, 1, m)) = m
          BY <5>1, <5>3
        <5> QED
          BY <5>3, <5>4 DEF m
      <4>3. Len(input_buf) - 1 < InputMax
        BY <1>2, <1>3
      <4> QED
        BY <4>2, <4>3 DEF Front, Lines
    <3> QED
      BY <2>1, <3>1, EmptyLine DEF CInv
  <2>2. CASE scancode = "NL" /\ input_buf' = <<>>
    BY <2>2, EmptyLine DEF CInv
  <2>3. CASE /\ scancode \in Letters \cup Symbols
             /\ input_buf' = IF Len(input_buf) < InputMax - 1
                             THEN Append(input_buf, scancode_map(scancode)) ELSE input_buf
    <3>1. scancode_map(scancode) \in Chars
      <4>1. \A a, b : (a # b) \in BOOLEAN
        OBVIOUS
      <4>2. \E f \in BOOLEAN : scancode_map(scancode) = <<scancode, f>>
        BY <4>1, Zenon DEF scancode_map
      <4> QED
        BY <2>3, <4>2 DEF Chars
    <3>2. ASSUME Len(input_buf) < InputMax - 1
          PROVE  Append(input_buf, scancode_map(scancode)) \in Lines
      <4> DEFINE c == scancode_map(scancode)
      <4>1. c \in Chars
        BY <3>1
      <4> HIDE DEF c
      <4>2. Append(input_buf, c) \in Seq(Chars) /\ Len(Append(input_buf, c)) = Len(input_buf) + 1
        BY <1>3, <4>1
      <4>3. Len(input_buf) + 1 < InputMax
        BY <1>2, <1>3, <3>2
      <4>4. Append(input_buf, c) \in Lines
        BY <4>2, <4>3 DEF Lines
      <4> QED
        BY <4>4 DEF c
    <3> QED
      BY <2>3, <3>2 DEF CInv
  <2>4. CASE UNCHANGED input_buf
    BY <2>4 DEF CInv
  <2> QED
    BY <2>1, <2>2, <2>3, <2>4 DEF input_poll
<1>5. HistoryIsRecent'
  BY <1>1 DEF CInv, HistoryIsRecent
<1> QED
  BY <1>1, <1>4, <1>5 DEF CInv

(* shell_add_history keeps the last MaxHistory commands, also when it has  *)
(* to drop one.                                                            *)
LEMMA HistoryAppends ==
    ASSUME NEW c \in Lines, executed \in Seq(Lines), HistoryIsRecent,
           executed' = Append(executed, c), shell_add_history(c)
    PROVE  HistoryIsRecent'
<1> DEFINE n == Len(executed)
           e == Append(executed, c)
           g == global_history
<1>1. MaxHistory \in Nat \ {0} /\ n \in Nat
  BY ConsoleAssumption
<1>2. e \in Seq(Lines) /\ Len(e) = n + 1 /\ e[n + 1] = c /\ \A i \in 1..n : e[i] = executed[i]
  OBVIOUS
<1>3. g = IF n <= MaxHistory THEN executed ELSE SubSeq(executed, n - MaxHistory + 1, n)
  BY DEF HistoryIsRecent
<1>4. global_history' = Append(IF Len(g) >= MaxHistory THEN Tail(g) ELSE g, c)
  BY DEF shell_add_history
<1>5. executed' = e
  OBVIOUS
<1> SUFFICES global_history' = IF n + 1 <= MaxHistory THEN e
                               ELSE SubSeq(e, (n + 1) - MaxHistory + 1, n + 1)
  BY <1>2, <1>5 DEF HistoryIsRecent
<1>6. CASE n < MaxHistory
  <2>1. g = executed /\ ~(Len(g) >= MaxHistory) /\ n + 1 <= MaxHistory
    BY <1>1, <1>3, <1>6
  <2> QED
    BY <1>4, <2>1
<1>7. CASE n >= MaxHistory
  <2> DEFINE m == MaxHistory
             s == SubSeq(e, (n + 1) - m + 1, n + 1)
  <2>1. /\ g \in Seq(Lines) /\ Len(g) = m
        /\ \A i \in 1..m : g[i] = executed[n - m + i]
    <3>1. CASE n = m
      <4>1. g = executed
        BY <1>1, <1>3, <3>1
      <4>2. \A i \in 1..m : n - m + i = i
        BY <1>1, <3>1
      <4> QED
        BY <3>1, <4>1, <4>2
    <3>2. CASE n > m
      <4>1. g = SubSeq(executed, n - m + 1, n)
        BY <1>1, <1>3, <3>2
      <4>2. n - m + 1 \in 1..(n + 1) /\ n \in 0..n /\ n - (n - m + 1) + 1 = m
            /\ n - m + 1 <= n + 1
            /\ \A i \in 1..m : (n - m + 1) + i - 1 = n - m + i /\ n - m + i \in 1..n
        BY <1>1, <3>2
      <4>3. g \in Seq(Lines)
        BY <4>1, <4>2
      <4>4. Len(g) = m
        BY <1>1, <4>1, <4>2
      <4>5. \A i \in 1..m : g[i] = executed[n - m + i]
        BY <1>1, <3>2, <4>1, <4>2
      <4> QED
        BY <4>3, <4>4, <4>5
    <3> QED
      BY <1>1, <1>7, <3>1, <3>2
  <2>2. /\ s \in Seq(Lines) /\ Len(s) = m
        /\ \A i \in 1..m : s[i] = e[(n - m) + 1 + i]
    <3> HIDE DEF e
    <3>1. (n + 1) - m + 1 \in 1..(n + 1 + 1) /\ (n + 1) - ((n + 1) - m + 1) + 1 = m
          /\ \A i \in 1..m : ((n + 1) - m + 1) + i - 1 = (n - m) + 1 + i
                             /\ (n - m) + 1 + i \in 1..(n + 1)
      BY <1>1, <1>7
    <3>2. s \in Seq(Lines)
      BY <1>2, <3>1
    <3>3. Len(s) = m
      BY <1>1, <1>2, <3>1
    <3>4. \A i \in 1..m : s[i] = e[(n - m) + 1 + i]
      BY <1>1, <1>2, <1>7, <3>1
    <3> QED
      BY <3>2, <3>3, <3>4
  <2>3. /\ Tail(g) \in Seq(Lines) /\ Len(Tail(g)) = m - 1
        /\ \A i \in 1..(m - 1) : Tail(g)[i] = g[i + 1]
    BY <1>1, <2>1
  <2> DEFINE h == Append(Tail(g), c)
  <2>4. /\ h \in Seq(Lines) /\ Len(h) = m /\ h[m] = c
        /\ \A i \in 1..(m - 1) : h[i] = g[i + 1]
    BY <1>1, <2>3
  <2>5. global_history' = h
    BY <1>1, <1>4, <2>1
  <2> HIDE DEF h, g, e, s
  <2>6. ASSUME NEW i \in 1..m PROVE h[i] = s[i]
    <3>1. CASE i = m
      <4>1. (n - m) + 1 + m = n + 1
        BY <1>1
      <4> QED
        BY <1>2, <2>2, <2>4, <3>1, <4>1
    <3>2. CASE i # m
      <4>1. /\ i \in 1..(m - 1) /\ i + 1 \in 1..m /\ n - m + (i + 1) = (n - m) + 1 + i
            /\ (n - m) + 1 + i \in 1..n
        BY <1>1, <1>7, <3>2
      <4> QED
        BY <1>2, <2>1, <2>2, <2>4, <4>1
    <3> QED
      BY <3>1, <3>2
  <2>7. h = s
    BY <2>2, <2>4, <2>6, SeqEqual
  <2>8. ~(n + 1 <= MaxHistory)
    BY <1>1, <1>7
  <2> QED
    BY <2>5, <2>7, <2>8 DEF s
<1> QED
  BY <1>1, <1>6, <1>7

LEMMA NextCInv == KInv /\ CInv /\ [Next]_vars => CInv'
<1> SUFFICES ASSUME KInv, CInv, [Next]_vars PROVE CInv'
  OBVIOUS
<1>1. CASE TickStart
  BY <1>1, EmptyLine DEF TickStart, CInv, HistoryIsRecent
<1>2. CASE PollStep \/ UNCHANGED vars
  BY <1>2 DEF PollStep, vars, uiVars, CInv, HistoryIsRecent
<1>3. CASE input_poll
  BY <1>3, InputCInv
<1>4. CASE PollDone
  BY <1>4 DEF PollDone, CInv, HistoryIsRecent
<1>5. CASE shell_tick
  <2>1. /\ phase' = "render" /\ cmd_buf' = input_buf
        /\ UNCHANGED <<input_buf, snapshot, field>>
    BY <1>5 DEF shell_tick
  <2>2. executed' \in Seq(Lines) /\ HistoryIsRecent'
    <3>1. CASE executed' = Append(executed, snapshot) /\ shell_add_history(snapshot)
      BY <3>1, HistoryAppends DEF CInv
    <3>2. CASE UNCHANGED <<executed, global_history>>
      BY <3>2 DEF CInv, HistoryIsRecent
    <3> QED
      BY <1>5, <3>1, <3>2 DEF shell_tick
  <2> QED
    BY <2>1, <2>2 DEF CInv
<1>6. CASE ui_render
  BY <1>6 DEF ui_render, CInv, HistoryIsRecent
<1>7. CASE Timer \/ \E b \in Bytes : Device(b)
  <2>1. Wake
    BY <1>7 DEF Timer, Device
  <2> QED
    BY <2>1 DEF Wake, CInv, HistoryIsRecent
<1> QED
  BY <1>1, <1>2, <1>3, <1>4, <1>5, <1>6, <1>7 DEF Next, Loop

LEMMA SpecCInv == Spec => []KInv /\ []CInv
<1>1. Spec => []KInv
  BY ConsoleRunsKeyboard, SpecKInv, PTL
<1> QED
  BY <1>1, InitCInv, NextCInv, PTL DEF Spec

(* However keys arrive, no store of input_poll or shell_tick goes past its *)
(* buffer, the field was drawn with the line when the CPU halts, and the   *)
(* history holds the most recent commands, for all sizes of the buffers.   *)
THEOREM BuffersAreSound == Spec => []BuffersSound
<1>1. KInv /\ CInv => BuffersSound
  <2> SUFFICES ASSUME KInv, CInv PROVE BuffersSound
    OBVIOUS
  <2>1. MaxHistory \in Nat \ {0} /\ Len(executed) \in Nat /\ executed \in Seq(Lines)
    BY ConsoleAssumption DEF CInv
  <2>2. Len(global_history) <= MaxHistory
    <3> DEFINE n == Len(executed)
    <3>1. CASE n <= MaxHistory
      BY <2>1, <3>1 DEF CInv, HistoryIsRecent
    <3>2. CASE n > MaxHistory
      <4>1. /\ global_history = SubSeq(executed, n - MaxHistory + 1, n)
            /\ n - MaxHistory + 1 \in 1..(n + 1) /\ n - (n - MaxHistory + 1) + 1 = MaxHistory
        BY <2>1, <3>2 DEF CInv, HistoryIsRecent
      <4>2. Len(global_history) = MaxHistory
        BY <2>1, <4>1
      <4> QED
        BY <2>1, <4>2
    <3> QED
      BY <2>1, <3>1, <3>2
  <2> QED
    BY <2>2 DEF BuffersSound, ConsoleTypeOK, FieldIsCurrent, CInv, Lines, KInv
<1> QED
  BY <1>1, SpecCInv, PTL

(* With the console as its caller, too, the ring is a bounded queue. *)
THEOREM ConsoleRingIsFifo == Spec => ImplementsFifo /\ []PollUndisturbed
  BY ConsoleRunsKeyboard, RingIsFifo, PollIsUndisturbed, PTL
=============================================================================
