-------------------------------- MODULE Windows --------------------------------
(***************************************************************************)
(* The window array of src/ui/widgets/window.c.  Windows are copied from   *)
(* slot to slot when one is raised or closed; slots behind num_windows     *)
(* keep what they held.  Coordinates are uint32_t and wrap at Word; no     *)
(* code makes a window invisible, so visible is left out with the colours. *)
(* Drawing is left out: window_render changes no state.                    *)
(***************************************************************************)
EXTENDS Integers, Sequences

CONSTANTS
    MaxWindows,  \* MAX_WINDOWS
    Titles,      \* titles; windows that exist together have different ones
    Rects,       \* the places windows are created at
    Xs, Ys,      \* coordinates of clicks and drags
    TitleBar,    \* height of the part to drag (26)
    Word         \* 2^32

ASSUME WindowsAssumption ==
    /\ MaxWindows \in Nat \ {0}
    /\ Word \in Nat \ {0}
    /\ TitleBar \in 1..Word
    /\ Rects \subseteq [x : 0..(Word - 1), y : 0..(Word - 1), w : 0..(Word - 1), h : 0..(Word - 1)]
    /\ Xs \cup Ys \subseteq 0..(Word - 1)

VARIABLES
    windows, num_windows, focused_window, drag_window_idx,
    grip  \* history: where in its window each title was last grabbed

vars == <<windows, num_windows, focused_window, drag_window_idx, grip>>

Slots == 0..(MaxWindows - 1)
Open == 0..(num_windows - 1)
NoTitle == "none"
NoRect == [x |-> 0, y |-> 0, w |-> 0, h |-> 0]
Unused == [title |-> NoTitle, bounds |-> NoRect, focused |-> FALSE,
           dragging |-> FALSE, off |-> <<0, 0>>]

(* window_init, over an array of zeros. *)
window_init ==
    /\ windows = [i \in Slots |-> Unused]
    /\ num_windows = 0
    /\ focused_window = 0
    /\ drag_window_idx = -1
    /\ grip = [t \in Titles |-> <<>>]

-----------------------------------------------------------------------------
(* Mutant: the slot of the raised window is not closed up. *)
RaiseSwaps(wins, index) ==
    [i \in Slots |->
        CASE i = 0 -> [wins[index] EXCEPT !.focused = TRUE]
          [] i = index -> [wins[0] EXCEPT !.focused = FALSE]
          [] OTHER -> IF i \in Open THEN [wins[i] EXCEPT !.focused = FALSE] ELSE wins[i]]

(* Mutant: the flags of the other windows stay. *)
RaiseKeepsFlags(wins, index) ==
    [i \in Slots |->
        CASE i = 0 -> [wins[index] EXCEPT !.focused = TRUE]
          [] i \in 1..index -> wins[i - 1]
          [] OTHER -> wins[i]]

(* window_bring_to_front: no other window keeps the focus, those in front  *)
(* of index move back by one.                                              *)
window_bring_to_front(wins, index) ==
    [i \in Slots |->
        CASE i = 0 -> [wins[index] EXCEPT !.focused = TRUE]
          [] i \in 1..index -> [wins[i - 1] EXCEPT !.focused = FALSE]
          [] OTHER -> IF i \in 0..num_windows' - 1 THEN [wins[i] EXCEPT !.focused = FALSE] ELSE wins[i]]

(* window_create: the window is put behind the last one and raised. *)
window_create(title, rect) ==
    /\ num_windows < MaxWindows
    /\ num_windows' = num_windows + 1
    /\ windows' = window_bring_to_front(
           [windows EXCEPT ![num_windows] = [Unused EXCEPT !.title = title, !.bounds = rect]],
           num_windows)
    /\ focused_window' = 0
    /\ grip' = [grip EXCEPT ![title] = <<>>]
    /\ UNCHANGED drag_window_idx

(* window_close. *)
window_close(index) ==
    /\ index < num_windows
    /\ windows' = [i \in Slots |->
                     IF i \in index..(num_windows - 2) THEN windows[i + 1] ELSE windows[i]]
    /\ num_windows' = num_windows - 1
    /\ focused_window' = IF focused_window < num_windows' THEN focused_window
                         ELSE IF num_windows' > 0 THEN num_windows' - 1 ELSE 0
    /\ UNCHANGED <<drag_window_idx, grip>>

(* window_set_focused. *)
window_set_focused(index) ==
    /\ index < num_windows
    /\ UNCHANGED <<num_windows, drag_window_idx, grip>>
    /\ windows' = window_bring_to_front(windows, index)
    /\ focused_window' = 0

(* The hit test of window_handle_click; the sums wrap. *)
Hit(b, x, y) ==
    /\ x >= b.x /\ x < (b.x + b.w) % Word
    /\ y >= b.y /\ y < (b.y + b.h) % Word

(* Where the pointer is in a window. *)
Offset(b, x, y) == <<(x - b.x) % Word, (y - b.y) % Word>>

(* Mutant: the window is looked up by the index it had before. *)
ClickOldIndex(x, y) ==
    \E i \in Open :
        /\ Hit(windows[i].bounds, x, y)
        /\ \A j \in Open : j > i => ~Hit(windows[j].bounds, x, y)
        /\ UNCHANGED num_windows
        /\ focused_window' = 0
        /\ LET raised == window_bring_to_front(windows, i)
               win == raised[i]
               title == raised[0].title
           IN IF y < (win.bounds.y + TitleBar) % Word
              THEN /\ windows' = [raised EXCEPT ![0].dragging = TRUE,
                                                ![0].off = Offset(win.bounds, x, y)]
                   /\ drag_window_idx' = i
                   /\ grip' = [grip EXCEPT ![title] = Offset(raised[0].bounds, x, y)]
              ELSE windows' = raised /\ UNCHANGED <<drag_window_idx, grip>>

(* window_handle_click: the last window under the pointer is raised, and   *)
(* grabbed if the pointer is on its title bar.                             *)
window_handle_click(x, y) ==
    \E i \in Open :
        /\ Hit(windows[i].bounds, x, y)
        /\ \A j \in Open : j > i => ~Hit(windows[j].bounds, x, y)
        /\ UNCHANGED num_windows
        /\ focused_window' = 0
        /\ LET raised == window_bring_to_front(windows, i)
               win == raised[0]
           IN IF y < (win.bounds.y + TitleBar) % Word
              THEN /\ windows' = [raised EXCEPT ![0].dragging = TRUE,
                                                ![0].off = Offset(win.bounds, x, y)]
                   /\ drag_window_idx' = 0
                   /\ grip' = [grip EXCEPT ![win.title] = Offset(win.bounds, x, y)]
              ELSE windows' = raised /\ UNCHANGED <<drag_window_idx, grip>>

(* window_handle_drag: drag_window_idx is an index, and it is never reset. *)
window_handle_drag(x, y) ==
    /\ drag_window_idx \in Open
    /\ windows[drag_window_idx].dragging
    /\ LET win == windows[drag_window_idx]
       IN windows' = [windows EXCEPT
              ![drag_window_idx].bounds.x = (x - win.off[1]) % Word,
              ![drag_window_idx].bounds.y = (y - win.off[2]) % Word]
    /\ UNCHANGED <<num_windows, focused_window, drag_window_idx, grip>>

Next ==
    \/ \E t \in Titles \ {windows[i].title : i \in Open}, r \in Rects : window_create(t, r)
    \/ \E i \in Open : window_close(i) \/ window_set_focused(i)
    \/ \E x \in Xs, y \in Ys : window_handle_click(x, y) \/ window_handle_drag(x, y)

Spec == window_init /\ [][Next]_vars

-----------------------------------------------------------------------------
(* Type invariant; drag_window_idx only ever means the front window. *)
TypeOK ==
    /\ num_windows \in 0..MaxWindows
    /\ focused_window \in 0..(MaxWindows - 1)
    /\ drag_window_idx \in {-1, 0}
    /\ \A i \in Open : windows[i].title \in Titles

(* Raising, closing and creating copy windows from slot to slot without    *)
(* losing, doubling or moving one: the array is a stack in which each      *)
(* window keeps its place, and only a window in front is ever dragged.     *)
stack ==
    [i \in 1..num_windows |->
        LET b == windows[i - 1].bounds
        IN [title |-> windows[i - 1].title, x |-> b.x, y |-> b.y, w |-> b.w, h |-> b.h]]

StackSpec == INSTANCE WindowStack

ImplementsStack == StackSpec!Spec

(* At most one window is drawn as focused, and it is the one that          *)
(* focused_window names, whatever is raised and closed.                    *)
OneFocus ==
    \A i \in Open : windows[i].focused => i = focused_window

(* Through every order of creating, raising, closing and grabbing windows, *)
(* the indices focused_window and drag_window_idx agree with the array.    *)
IndicesSound == TypeOK /\ OneFocus

(* A window carries the offset at which it was last grabbed, and that      *)
(* place is on its title bar: whichever window drag_window_idx has come to *)
(* mean after others were raised and closed, a drag moves it by the place  *)
(* where it was grabbed itself.                                            *)
DragsByOwnGrip ==
    \A i \in Open :
        windows[i].dragging =>
            /\ windows[i].off = grip[windows[i].title]
            /\ windows[i].off[1] < windows[i].bounds.w
            /\ windows[i].off[2] < TitleBar
================================================================================
