-------------------------------- MODULE Pointer --------------------------------
(***************************************************************************)
(* From the mouse to the cursor: the packet assembly of                    *)
(* src/drivers/ps2/mouse.c, running in interrupts, and the idle loop of    *)
(* src/kernel/main.c with ui_tick and ui_render of src/ui/ui.c, which draw *)
(* the cursor.  An interrupt may come between any two accesses of the      *)
(* loop.                                                                   *)
(*                                                                         *)
(* Every driver's handler runs on every interrupt, so the mouse's takes    *)
(* the byte in port 0x60 also when the timer ticks or a key is pressed.    *)
(* Bytes are numbers, so that the tests of bits and the sign extension are *)
(* what they are in the code.  The frame buffer is ready.                  *)
(*                                                                         *)
(* A byte that stays in the port is taken again by every tick, so one with *)
(* bit 3 set moves the pointer for ever.  The bound on packets means that  *)
(* the devices come to rest: the last byte they send is one that starts no *)
(* packet, such as a key's.                                                *)
(***************************************************************************)
EXTENDS Integers

CONSTANTS
    Bytes,          \* bytes of the mouse and the keyboard
    Width, Height,  \* of the frame buffer
    MaxPackets      \* bound: packets before the devices come to rest

ASSUME PointerAssumption ==
    /\ Bytes \subseteq 0..255
    /\ Width \in Nat \ {0} /\ Height \in Nat \ {0}
    /\ MaxPackets \in Nat

VARIABLES
    mouse_x, mouse_y, mouse_buttons, mouse_moved, mouse_cycle, mouse_packet,
    port,           \* what port 0x60 returns
    phase,          \* where the idle loop is
    ui_dirty_flag,
    shell_dirty,    \* shell_dirty_flag
    mx, my,         \* locals of ui_draw_cursor
    cursor,         \* where the cursor stands on the screen
    packets         \* history: packets completed

mouseVars == <<mouse_x, mouse_y, mouse_buttons, mouse_moved, mouse_cycle, mouse_packet, packets>>
loopVars == <<phase, ui_dirty_flag, shell_dirty, mx, my, cursor>>
pointerVars == <<mouseVars, port, loopVars>>

Bit(byte, value) == (byte \div value) % 2 = 1
Int8(byte) == IF byte < 128 THEN byte ELSE byte - 256

(* mouse_init, and the screen drawn once by kernel_main before sti. *)
Init ==
    /\ mouse_x = 0 /\ mouse_y = 0
    /\ mouse_buttons = 0
    /\ mouse_moved = FALSE
    /\ mouse_cycle = 0
    /\ mouse_packet = [i \in 0..2 |-> 0]
    /\ port = 250
    /\ phase = "tick"
    /\ ui_dirty_flag = FALSE
    /\ shell_dirty = FALSE
    /\ mx = 0 /\ my = 0
    /\ cursor = <<0, 0>>
    /\ packets = 0

-----------------------------------------------------------------------------
(* dx |= 0xF0: with the sign bit, only the low half of the byte is kept. *)
Delta(byte, sign) == IF sign THEN (byte % 16) - 16 ELSE Int8(byte)

NotNegative(n) == IF n < 0 THEN 0 ELSE n

(* Mutant: the flag is only set for a packet that moves the pointer right. *)
HandlerFlagsRight(byte) ==
    \/ /\ mouse_cycle = 0
       /\ mouse_packet' = [mouse_packet EXCEPT ![0] = byte]
       /\ mouse_cycle' = IF Bit(byte, 8) THEN 1 ELSE 0
       /\ UNCHANGED <<mouse_x, mouse_y, mouse_buttons, mouse_moved, packets>>
    \/ /\ mouse_cycle = 1
       /\ mouse_packet' = [mouse_packet EXCEPT ![1] = byte]
       /\ mouse_cycle' = 2
       /\ UNCHANGED <<mouse_x, mouse_y, mouse_buttons, mouse_moved, packets>>
    \/ /\ mouse_cycle = 2
       /\ mouse_packet' = [mouse_packet EXCEPT ![2] = byte]
       /\ mouse_cycle' = 0
       /\ mouse_x' = NotNegative(mouse_x + Delta(mouse_packet[1], Bit(mouse_packet[0], 16)))
       /\ mouse_y' = NotNegative(mouse_y - Delta(byte, Bit(mouse_packet[0], 32)))
       /\ mouse_buttons' = mouse_packet[0] % 8
       /\ mouse_moved' = (mouse_moved \/ mouse_x' > mouse_x)
       /\ packets' = packets + 1

(* mouse_irq_handler: the next byte of the packet; a first byte must have  *)
(* bit 3 set, and the third one moves the pointer.                         *)
mouse_irq_handler(byte) ==
    \/ /\ mouse_cycle = 0
       /\ mouse_packet' = [mouse_packet EXCEPT ![0] = byte]
       /\ mouse_cycle' = IF Bit(byte, 8) THEN 1 ELSE 0
       /\ UNCHANGED <<mouse_x, mouse_y, mouse_buttons, mouse_moved, packets>>
    \/ /\ mouse_cycle = 1
       /\ mouse_packet' = [mouse_packet EXCEPT ![1] = byte]
       /\ mouse_cycle' = 2
       /\ UNCHANGED <<mouse_x, mouse_y, mouse_buttons, mouse_moved, packets>>
    \/ /\ mouse_cycle = 2
       /\ mouse_packet' = [mouse_packet EXCEPT ![2] = byte]
       /\ mouse_cycle' = 0
       /\ mouse_x' = NotNegative(mouse_x + Delta(mouse_packet[1], Bit(mouse_packet[0], 16)))
       /\ mouse_y' = NotNegative(mouse_y - Delta(byte, Bit(mouse_packet[0], 32)))
       /\ mouse_buttons' = mouse_packet[0] % 8
       /\ mouse_moved' = TRUE
       /\ packets' = packets + 1

(* driver_dispatch_irq calls the handler for every line; hlt ends. *)
driver_dispatch_irq(byte) ==
    /\ packets < MaxPackets \/ ~Bit(byte, 8)
    /\ mouse_irq_handler(byte)
    /\ phase' = IF phase = "hlt" THEN "tick" ELSE phase
    /\ UNCHANGED <<ui_dirty_flag, shell_dirty, mx, my, cursor>>

(* A byte arrives from the mouse or the keyboard. *)
Device(byte) ==
    /\ port' = byte
    /\ driver_dispatch_irq(byte)

Timer == driver_dispatch_irq(port) /\ UNCHANGED port

Interrupt == Timer \/ \E byte \in Bytes : Device(byte)

-----------------------------------------------------------------------------
Step(from, to) == phase = from /\ phase' = to /\ UNCHANGED port

(* shell_tick always leaves the shell dirty. *)
shell_tick ==
    /\ Step("tick", "moved")
    /\ shell_dirty' = TRUE
    /\ UNCHANGED <<mouseVars, ui_dirty_flag, mx, my, cursor>>

(* ui_tick: mouse_has_moved. *)
mouse_has_moved ==
    /\ phase = "moved"
    /\ phase' = IF mouse_moved THEN "clear" ELSE "shell"
    /\ UNCHANGED <<mouseVars, port, ui_dirty_flag, shell_dirty, mx, my, cursor>>

(* mouse_clear_moved. *)
mouse_clear_moved ==
    /\ Step("clear", "mark")
    /\ mouse_moved' = FALSE
    /\ UNCHANGED <<mouse_x, mouse_y, mouse_buttons, mouse_cycle, mouse_packet, packets,
                   ui_dirty_flag, shell_dirty, mx, my, cursor>>

mark_moved ==
    /\ Step("mark", "shell")
    /\ ui_dirty_flag' = TRUE
    /\ UNCHANGED <<mouseVars, shell_dirty, mx, my, cursor>>

(* The end of ui_tick and the test of kernel_idle: the tick counter may    *)
(* differ from last_tick or not.                                           *)
ui_tick_end ==
    /\ phase = "shell"
    /\ ui_dirty_flag' = (ui_dirty_flag \/ shell_dirty)
    /\ \E ticked \in BOOLEAN : phase' = IF ui_dirty_flag' \/ ticked THEN "getx" ELSE "hlt"
    /\ UNCHANGED <<mouseVars, port, shell_dirty, mx, my, cursor>>

(* ui_draw_cursor reads mouse_x, then mouse_y, and draws inside the        *)
(* screen; then ui_render shows the buffer and clears both flags.          *)
mouse_get_x ==
    /\ Step("getx", "gety")
    /\ mx' = mouse_x
    /\ UNCHANGED <<mouseVars, ui_dirty_flag, shell_dirty, my, cursor>>

mouse_get_y ==
    /\ Step("gety", "draw")
    /\ my' = mouse_y
    /\ UNCHANGED <<mouseVars, ui_dirty_flag, shell_dirty, mx, cursor>>

AtMost(n, max) == IF n >= max THEN max - 1 ELSE n

(* Mutant: the cursor is only drawn for a packet that is not yet noticed. *)
DrawIfMoved ==
    /\ Step("draw", "clean")
    /\ cursor' = IF mouse_moved THEN <<AtMost(mx, Width), AtMost(my, Height)>> ELSE cursor
    /\ UNCHANGED <<mouseVars, ui_dirty_flag, shell_dirty, mx, my>>

ui_draw_cursor ==
    /\ Step("draw", "clean")
    /\ cursor' = <<AtMost(mx, Width), AtMost(my, Height)>>
    /\ UNCHANGED <<mouseVars, ui_dirty_flag, shell_dirty, mx, my>>

ui_clear_dirty ==
    /\ Step("clean", "hlt")
    /\ ui_dirty_flag' = FALSE
    /\ shell_dirty' = FALSE
    /\ UNCHANGED <<mouseVars, mx, my, cursor>>

Loop ==
    \/ shell_tick \/ mouse_has_moved \/ mouse_clear_moved \/ mark_moved \/ ui_tick_end
    \/ mouse_get_x \/ mouse_get_y \/ ui_draw_cursor \/ ui_clear_dirty

PointerNext == Loop \/ Interrupt

(* The processor executes the idle loop and interrupts keep coming, as the *)
(* timer's do.                                                             *)
PointerSpec ==
    Init /\ [][PointerNext]_pointerVars /\ WF_pointerVars(Loop) /\ WF_pointerVars(Interrupt)

-----------------------------------------------------------------------------
(* Type invariant; the cursor stands inside the screen. *)
PointerTypeOK ==
    /\ mouse_x \in Nat /\ mouse_y \in Nat
    /\ mouse_buttons \in 0..7
    /\ mouse_cycle \in 0..2
    /\ cursor \in (0..(Width - 1)) \X (0..(Height - 1))

(* The place on the screen for the pointer's position. *)
Shown == <<AtMost(mouse_x, Width), AtMost(mouse_y, Height)>>

(* No movement is lost between the interrupt that sets mouse_moved and the *)
(* loop that clears it: while the cursor is not where the pointer is, the  *)
(* flag is still set when the loop sleeps or comes to test it, and the     *)
(* screen is marked when the loop decides whether to draw.                 *)
NoLostMove ==
    cursor # Shown =>
        /\ phase \in {"hlt", "tick", "moved"} => mouse_moved
        /\ phase = "shell" => mouse_moved \/ ui_dirty_flag

(* Whatever bytes arrive, the cursor stands inside the screen, and the     *)
(* flags of the interrupt handler and of the loop lose no movement.        *)
PointerSound == PointerTypeOK /\ NoLostMove

(* A movement reaches the screen: also when it comes between the reads of  *)
(* the two coordinates or just before hlt, the cursor is later drawn where *)
(* the pointer is.                                                         *)
CursorCatchesUp == mouse_moved ~> (cursor = Shown)
================================================================================
