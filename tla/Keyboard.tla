------------------------------- MODULE Keyboard -------------------------------
(***************************************************************************)
(* The PS/2 keyboard driver, src/drivers/ps2/keyboard.c: a ring of         *)
(* scancodes filled by the interrupt handler and emptied by keyboard_poll, *)
(* which interrupts may cut into between any two of its accesses.          *)
(*                                                                         *)
(* A byte read from port 0x60 is one of Keys (make codes that go into the  *)
(* ring), a shift press or release, a caps lock press, or "Break" (every   *)
(* other byte from 0x80 on).  driver_dispatch_irq (src/drivers/driver.c)   *)
(* calls the irq function of EVERY driver for EVERY interrupt line, so the *)
(* keyboard's handler also runs for the timer, when the port still shows   *)
(* the last byte, and for the mouse, when it shows a mouse byte.           *)
(***************************************************************************)
EXTENDS Integers, Sequences

CONSTANTS
    Keys,     \* scancodes below 0x80 that are not shift or caps lock
    BufSize   \* KBD_BUF_SIZE

ASSUME KeyboardAssumption == BufSize \in Nat \ {0}

Bytes == Keys \cup {"ShiftDown", "ShiftUp", "Caps", "Break"}

VARIABLES
    kbd_buffer, kbd_head, kbd_tail, shift_pressed, caps_lock,
    port,       \* what a read of I/O port 0x60 returns
    pc,         \* where the caller is in keyboard_poll
    scancode,   \* keyboard_poll's output parameter
    delivered   \* history: the last scancode keyboard_poll returned with

ring == <<kbd_buffer, kbd_head, kbd_tail>>
kbdVars == <<ring, shift_pressed, caps_lock, port, pc, scancode, delivered>>

(* keyboard_init drains the controller; the mouse driver's set-up leaves   *)
(* an acknowledgement byte in the port.  The buffer's contents are         *)
(* whatever they are: "Break" never goes into the ring.                    *)
keyboard_init ==
    /\ kbd_buffer = [i \in 0..(BufSize - 1) |-> "Break"]
    /\ kbd_head = 0
    /\ kbd_tail = 0
    /\ shift_pressed = FALSE
    /\ caps_lock = FALSE
    /\ port = "Break"
    /\ pc = "idle"
    /\ scancode = "Break"
    /\ delivered = "Break"

Advance(i) == (i + 1) % BufSize

(* Mutant: the full test is missing. *)
PushUntested(sc) ==
    /\ kbd_buffer' = [kbd_buffer EXCEPT ![kbd_head] = sc]
    /\ kbd_head' = Advance(kbd_head)
    /\ UNCHANGED kbd_tail

(* Mutant: a full ring makes room by dropping its oldest scancode, under   *)
(* the feet of a keyboard_poll in progress.                                *)
PushDropsOldest(sc) ==
    /\ kbd_buffer' = [kbd_buffer EXCEPT ![kbd_head] = sc]
    /\ kbd_head' = Advance(kbd_head)
    /\ kbd_tail' = IF Advance(kbd_head) = kbd_tail THEN Advance(kbd_tail) ELSE kbd_tail

(* A scancode for a full ring (one slot stays empty) is dropped. *)
kbd_push(sc) ==
    \/ /\ Advance(kbd_head) = kbd_tail
       /\ UNCHANGED ring
    \/ /\ Advance(kbd_head) # kbd_tail
       /\ kbd_buffer' = [kbd_buffer EXCEPT ![kbd_head] = sc]
       /\ kbd_head' = Advance(kbd_head)
       /\ UNCHANGED kbd_tail

(* keyboard_on_irq for the byte b on the port. *)
keyboard_on_irq(b) ==
    \/ /\ b \in {"ShiftDown", "ShiftUp"}
       /\ shift_pressed' = (b = "ShiftDown")
       /\ UNCHANGED <<ring, caps_lock>>
    \/ /\ b = "Caps"
       /\ caps_lock' = ~caps_lock
       /\ UNCHANGED <<ring, shift_pressed>>
    \/ /\ b \in Keys
       /\ kbd_push(b)
       /\ UNCHANGED <<shift_pressed, caps_lock>>
    \/ /\ b = "Break"
       /\ UNCHANGED <<ring, shift_pressed, caps_lock>>

(* The keyboard (interrupt 1) or the mouse (interrupt 12) has put a new    *)
(* byte on the port.                                                       *)
DataIrq(b) ==
    /\ port' = b
    /\ keyboard_on_irq(b)
    /\ UNCHANGED <<pc, scancode, delivered>>

(* The timer, or any other line: the port still shows the last byte. *)
TimerIrq ==
    /\ keyboard_on_irq(port)
    /\ UNCHANGED <<port, pc, scancode, delivered>>

(* keyboard_poll, access by access. *)
PollTest ==
    /\ pc = "idle"
    /\ pc' = IF kbd_head = kbd_tail THEN "empty" ELSE "read"
    /\ UNCHANGED <<ring, shift_pressed, caps_lock, port, scancode, delivered>>

PollRead ==
    /\ pc = "read"
    /\ scancode' = kbd_buffer[kbd_tail]
    /\ pc' = "advance"
    /\ UNCHANGED <<ring, shift_pressed, caps_lock, port, delivered>>

PollAdvance ==
    /\ pc = "advance"
    /\ kbd_tail' = Advance(kbd_tail)
    /\ delivered' = scancode
    /\ pc' = "got"
    /\ UNCHANGED <<kbd_buffer, kbd_head, shift_pressed, caps_lock, port, scancode>>

(* The caller has used the result and polls again. *)
PollReturn ==
    /\ pc \in {"got", "empty"}
    /\ pc' = "idle"
    /\ UNCHANGED <<ring, shift_pressed, caps_lock, port, scancode, delivered>>

Poll == PollTest \/ PollRead \/ PollAdvance

Irq == TimerIrq \/ \E b \in Bytes : DataIrq(b)

KbdNext == Irq \/ Poll \/ PollReturn

KbdSpec == keyboard_init /\ [][KbdNext]_kbdVars

-----------------------------------------------------------------------------

(* The scancodes waiting in the ring, oldest first. *)
Count == IF kbd_head >= kbd_tail THEN kbd_head - kbd_tail ELSE kbd_head - kbd_tail + BufSize

Slot(i) == IF kbd_tail + i - 1 < BufSize THEN kbd_tail + i - 1 ELSE kbd_tail + i - 1 - BufSize

Pending == [i \in 1..Count |-> kbd_buffer[Slot(i)]]

(* Type invariant of the driver's statics; the indices stay in the buffer. *)
KbdTypeOK ==
    /\ kbd_buffer \in [0..(BufSize - 1) -> Keys \cup {"Break"}]
    /\ kbd_head \in 0..(BufSize - 1)
    /\ kbd_tail \in 0..(BufSize - 1)
    /\ shift_pressed \in BOOLEAN
    /\ caps_lock \in BOOLEAN
    /\ port \in Bytes
    /\ pc \in {"idle", "read", "advance", "got", "empty"}
    /\ scancode \in Keys \cup {"Break"}
    /\ delivered \in Keys \cup {"Break"}

(* Whatever interrupts come between keyboard_poll's test, its read of the  *)
(* slot and its move of kbd_tail: the ring it found non-empty stays so,    *)
(* and the slot it read still holds the oldest scancode.                   *)
PollUndisturbed ==
    /\ pc \in {"read", "advance"} => kbd_head # kbd_tail
    /\ pc = "advance" => scancode = kbd_buffer[kbd_tail]

(* The ring is a first-in first-out queue of at most BufSize - 1           *)
(* scancodes: what keyboard_poll returns is the oldest scancode waiting,   *)
(* and none that waits is reordered, repeated or overwritten by the        *)
(* interrupt handler, wherever it cuts in.                                 *)
F == INSTANCE Fifo WITH Items <- Keys, Capacity <- BufSize - 1,
                        queue <- Pending, out <- delivered

ImplementsFifo == F!FifoSpec
=============================================================================
