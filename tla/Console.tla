-------------------------------- MODULE Console --------------------------------
(***************************************************************************)
(* From the key to the command: the idle loop of src/kernel/main.c calling *)
(* ui_tick and ui_render (src/ui/ui.c), shell_tick (src/ui/shell.c), which *)
(* polls the keyboard through src/ui/input.c, with interrupts filling the  *)
(* keyboard's ring at any point.                                           *)
(*                                                                         *)
(* A character is a pair of its key and whether it came out of the shifted *)
(* table.  A buffer is a sequence of characters: input_len is its length.  *)
(* What a command does is left out; it does not touch this state.          *)
(* shell_tick sets dirty unconditionally, so every pass of the loop draws. *)
(***************************************************************************)
EXTENDS Keyboard, SequencesExt

CONSTANTS
    Letters, Symbols,  \* keys with two characters, letters apart
    InputMax,          \* INPUT_MAX
    MaxHistory,        \* SHELL_MAX_HISTORY
    MaxPresses         \* bound: bytes the keyboard and the mouse send

ASSUME ConsoleAssumption ==
    /\ Letters \cup Symbols \cup {"BS", "NL"} \subseteq Keys
    /\ InputMax \in Nat \ {0}
    /\ MaxHistory \in Nat \ {0}
    /\ MaxPresses \in Nat

VARIABLES
    phase,      \* where the idle loop is
    input_buf,
    snapshot,   \* shell_tick's copy of input_buf from before the poll
    cmd_buf,
    global_history,
    field,      \* the command field as ui_textfield_draw last drew it
    executed,   \* history: the commands given to shell_execute_command
    presses     \* history: bytes sent so far

uiVars == <<phase, input_buf, snapshot, cmd_buf, global_history, field, executed>>
vars == <<kbdVars, uiVars, presses>>

Init ==
    /\ keyboard_init
    /\ phase = "tick"
    /\ input_buf = <<>>
    /\ snapshot = <<>>
    /\ cmd_buf = <<>>
    /\ global_history = <<>>
    /\ field = <<>>
    /\ executed = <<>>
    /\ presses = 0

-----------------------------------------------------------------------------
(* keyboard_scancode_to_ascii passes shift XOR caps to scancode_map, which *)
(* swaps the case of letters once more when caps lock is on: the two       *)
(* cancel for letters, while symbols follow the XOR.                       *)
scancode_map(sc) ==
    LET shift == shift_pressed # caps_lock
    IN IF sc \in Letters THEN <<sc, shift # caps_lock>> ELSE <<sc, shift>>

(* The start of shell_tick: the buffer before the poll. *)
TickStart ==
    /\ phase = "tick"
    /\ phase' = "poll"
    /\ snapshot' = input_buf
    /\ UNCHANGED <<kbdVars, presses, input_buf, cmd_buf, global_history, field, executed>>

(* input_poll calls keyboard_poll. *)
PollStep ==
    /\ phase = "poll"
    /\ Poll
    /\ UNCHANGED <<uiVars, presses>>

(* Mutant: the room left for the terminating zero is forgotten. *)
InputNoRoom ==
    /\ phase = "poll" /\ pc = "got"
    /\ PollReturn
    /\ \/ /\ scancode = "BS"
          /\ input_buf' = IF input_buf = <<>> THEN <<>> ELSE Front(input_buf)
       \/ /\ scancode = "NL"
          /\ input_buf' = <<>>
       \/ /\ scancode \in Letters \cup Symbols
          /\ input_buf' = IF Len(input_buf) < InputMax
                          THEN Append(input_buf, scancode_map(scancode)) ELSE input_buf
       \/ /\ scancode \notin Letters \cup Symbols \cup {"BS", "NL"}
          /\ UNCHANGED input_buf
    /\ UNCHANGED <<phase, snapshot, cmd_buf, global_history, field, executed, presses>>

(* input_poll's loop body for the scancode it got: Backspace, Enter, a     *)
(* printable character if it fits, or a character it ignores.              *)
input_poll ==
    /\ phase = "poll" /\ pc = "got"
    /\ PollReturn
    /\ \/ /\ scancode = "BS"
          /\ input_buf' = IF input_buf = <<>> THEN <<>> ELSE Front(input_buf)
       \/ /\ scancode = "NL"
          /\ input_buf' = <<>>
       \/ /\ scancode \in Letters \cup Symbols
          /\ input_buf' = IF Len(input_buf) < InputMax - 1
                          THEN Append(input_buf, scancode_map(scancode)) ELSE input_buf
       \/ /\ scancode \notin Letters \cup Symbols \cup {"BS", "NL"}
          /\ UNCHANGED input_buf
    /\ UNCHANGED <<phase, snapshot, cmd_buf, global_history, field, executed, presses>>

(* The ring is empty: input_poll returns. *)
PollDone ==
    /\ phase = "poll" /\ pc = "empty"
    /\ PollReturn
    /\ phase' = "enter"
    /\ UNCHANGED <<input_buf, snapshot, cmd_buf, global_history, field, executed, presses>>

(* shell_add_history: a full history drops its oldest entry. *)
shell_add_history(cmd) ==
    global_history' = Append(IF Len(global_history) >= MaxHistory
                             THEN Tail(global_history) ELSE global_history, cmd)

(* The rest of shell_tick: the command field is updated and, if the buffer *)
(* was not empty before the poll and is now, the snapshot is executed.     *)
shell_tick ==
    /\ phase = "enter"
    /\ phase' = "render"
    /\ cmd_buf' = input_buf
    /\ \/ /\ snapshot # <<>> /\ input_buf = <<>>
          /\ executed' = Append(executed, snapshot)
          /\ shell_add_history(snapshot)
       \/ /\ ~(snapshot # <<>> /\ input_buf = <<>>)
          /\ UNCHANGED <<executed, global_history>>
    /\ UNCHANGED <<kbdVars, presses, input_buf, snapshot, field>>

(* ui_render, after which the idle loop halts the CPU.  shell_render draws *)
(* the field and then paints the dock, in which it lies, over it: what the *)
(* user sees of the line is not modelled, only what was drawn.             *)
ui_render ==
    /\ phase = "render"
    /\ phase' = "hlt"
    /\ field' = cmd_buf
    /\ UNCHANGED <<kbdVars, presses, input_buf, snapshot, cmd_buf, global_history, executed>>

(* Mutant: the interrupt does not end hlt. *)
WakeNot == UNCHANGED uiVars

(* An interrupt, which also ends hlt. *)
Wake ==
    /\ phase' = IF phase = "hlt" THEN "tick" ELSE phase
    /\ UNCHANGED <<input_buf, snapshot, cmd_buf, global_history, field, executed>>

Timer == TimerIrq /\ Wake /\ UNCHANGED presses

Device(b) ==
    /\ presses < MaxPresses
    /\ presses' = presses + 1
    /\ DataIrq(b)
    /\ Wake

Loop == TickStart \/ PollStep \/ input_poll \/ PollDone \/ shell_tick \/ ui_render

Next == Loop \/ Timer \/ \E b \in Bytes : Device(b)

(* The CPU executes the idle loop, and the timer keeps interrupting: with  *)
(* no process to switch to, every interrupt is acknowledged.               *)
Fairness == WF_vars(Loop) /\ WF_vars(Timer)

Spec == Init /\ [][Next]_vars /\ Fairness

-----------------------------------------------------------------------------

Chars == (Letters \cup Symbols) \X BOOLEAN

(* Type invariant; the line buffers leave room for the terminating zero,   *)
(* so no store of input_poll or shell_tick goes past INPUT_MAX.            *)
ConsoleTypeOK ==
    /\ KbdTypeOK
    /\ phase \in {"tick", "poll", "enter", "render", "hlt"}
    /\ \A b \in {input_buf, snapshot, cmd_buf, field} :
          b \in Seq(Chars) /\ Len(b) < InputMax
    /\ Len(global_history) <= MaxHistory

(* When the CPU halts, the command field was drawn with what the input     *)
(* buffer holds: no key that was read waits for a later pass to be drawn.  *)
FieldIsCurrent == phase = "hlt" => field = input_buf

(* The history is the last MaxHistory commands, in the order they ran.     *)
HistoryIsRecent ==
    LET n == Len(executed)
    IN global_history = IF n <= MaxHistory THEN executed
                        ELSE SubSeq(executed, n - MaxHistory + 1, n)

(* However keys arrive, the line buffers of input_poll and shell_tick keep *)
(* their bounds, the field was drawn with the line when the loop sleeps,   *)
(* and shell_add_history keeps the recent commands.                        *)
BuffersSound == ConsoleTypeOK /\ FieldIsCurrent /\ HistoryIsRecent

(* No lost wake-up: a scancode in the ring is read, also one that came in  *)
(* after the last poll and before hlt.                                     *)
KeysAreRead == (Count > 0) ~> (pc = "got")
=============================================================================
