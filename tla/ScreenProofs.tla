----------------------------- MODULE ScreenProofs -----------------------------
(***************************************************************************)
(* Proofs about src/ui: windows, cursor, widgets and the shell's tables.   *)
(*                                                                         *)
(* The window array of src/ui/widgets/window.c, for any MAX_WINDOWS, any   *)
(* word size, any places of windows and any clicks: copying windows from   *)
(* slot to slot keeps the indices, the grips and the stacking order right. *)
(*                                                                         *)
(* The cursor, for every set of bytes the devices may send and every size  *)
(* of the frame buffer: no movement is lost between the interrupt handler  *)
(* of src/drivers/ps2/mouse.c and the idle loop of src/kernel/main.c,      *)
(* wherever in the loop an interrupt comes.                                *)
(*                                                                         *)
(* The widgets of src/ui/ui.c, for any heap, any places and any order of   *)
(* calls: their links stay an ordered forest in the middle of a            *)
(* destruction, positions add up along it, and an event goes down it.      *)
(*                                                                         *)
(* What the variables and aliases of src/ui/shell.c keep, for tables of    *)
(* any size.                                                               *)
(***************************************************************************)
EXTENDS Windows, Pointer, Widgets, ShellTables, SequenceTheorems, FiniteSetTheorems,
        TLAPS

Coords == 0..(Word - 1)
RectSet == [x : Coords, y : Coords, w : Coords, h : Coords]
WindowSet == [title : Titles \cup {NoTitle}, bounds : RectSet, focused : BOOLEAN,
              dragging : BOOLEAN, off : Coords \X Coords]

(* The content of every slot, also of those behind num_windows. *)
SlotsTyped ==
    /\ windows \in [Slots -> WindowSet]
    /\ grip \in [Titles -> {<<>>} \cup (Coords \X Coords)]

(* Create, raise and click set focused_window to 0, and close keeps it     *)
(* there.                                                                  *)
FocusInFront == focused_window = 0

(* Windows that are open together have different titles. *)
TitlesDiffer == \A i, j \in Open : windows[i].title = windows[j].title => i = j

(* The inductive invariant of the windows. *)
WInv == TypeOK /\ SlotsTyped /\ FocusInFront /\ OneFocus /\ TitlesDiffer /\ DragsByOwnGrip

-----------------------------------------------------------------------------
(* uint32_t arithmetic. *)

(* A wrapped number fits the word, is not larger than the number and is    *)
(* the number itself if that fits.                                         *)
LEMMA WordMod ==
    /\ \A a \in Int : a % Word \in Coords
    /\ \A a \in Nat : a % Word <= a
    /\ \A a \in Coords : a % Word = a
<1>1. Word \in Nat \ {0}
  BY WindowsAssumption
<1>2. \A a \in Int : a % Word \in Coords
  BY <1>1 DEF Coords
<1>3. \A a \in Nat : a % Word <= a
  BY <1>1, SMTT(30)
<1>4. \A a \in Coords : a % Word = a
  BY <1>1, SMTT(30) DEF Coords
<1> QED
  BY <1>2, <1>3, <1>4

(* A place on the title bar of a window that was hit: its offset is inside *)
(* the window and above the end of the title bar, although every sum in    *)
(* window_handle_click may wrap.                                           *)
LEMMA GripInside ==
    ASSUME NEW b \in RectSet, NEW x \in Coords, NEW y \in Coords, Hit(b, x, y),
           y < (b.y + TitleBar) % Word
    PROVE  /\ Offset(b, x, y) \in Coords \X Coords
           /\ Offset(b, x, y)[1] < b.w
           /\ Offset(b, x, y)[2] < TitleBar
<1>1. /\ Word \in Nat \ {0} /\ TitleBar \in Nat
      /\ b.x \in Nat /\ b.y \in Nat /\ b.w \in Nat /\ x \in Nat /\ y \in Nat
      /\ x < Word /\ y < Word
  BY WindowsAssumption DEF RectSet, Coords
<1>2. (b.x + b.w) % Word <= b.x + b.w /\ (b.y + TitleBar) % Word <= b.y + TitleBar
  <2>1. b.x + b.w \in Nat /\ b.y + TitleBar \in Nat
    BY <1>1
  <2> QED
    BY <2>1, WordMod
<1>3. (b.x + b.w) % Word \in Nat /\ (b.y + TitleBar) % Word \in Nat
  BY <1>1
<1>4. x >= b.x /\ x - b.x < b.w /\ y >= b.y /\ y - b.y < TitleBar
  BY <1>1, <1>2, <1>3 DEF Hit
<1>5. x - b.x \in Coords /\ y - b.y \in Coords
  BY <1>1, <1>4 DEF Coords
<1>6. (x - b.x) % Word = x - b.x /\ (y - b.y) % Word = y - b.y
  BY <1>5, WordMod
<1> QED
  BY <1>4, <1>5, <1>6 DEF Offset

-----------------------------------------------------------------------------
(* What window_bring_to_front does to every slot. *)
LEMMA Raised ==
    ASSUME NEW wins \in [Slots -> WindowSet], NEW index \in Nat,
           num_windows' \in Nat, num_windows' <= MaxWindows, index < num_windows'
    PROVE  LET new == window_bring_to_front(wins, index)
           IN /\ new \in [Slots -> WindowSet]
              /\ new[0] = [wins[index] EXCEPT !.focused = TRUE]
              /\ \A i \in 1..index : new[i] = [wins[i - 1] EXCEPT !.focused = FALSE]
              /\ \A i \in (index + 1)..(num_windows' - 1) :
                    new[i] = [wins[i] EXCEPT !.focused = FALSE]
<1> DEFINE new == window_bring_to_front(wins, index)
           n == num_windows'
<1>0. n \in Nat /\ n <= MaxWindows /\ index < n
  OBVIOUS
<1>1. MaxWindows \in Nat /\ index \in Slots /\ 0 \in Slots
  <2>1. MaxWindows \in Nat
    BY WindowsAssumption
  <2> QED
    BY <2>1 DEF Slots
<1>2. new[0] = [wins[index] EXCEPT !.focused = TRUE]
  BY <1>1 DEF window_bring_to_front
<1>3. \A i \in 1..index : i \in Slots /\ i - 1 \in Slots /\ new[i] = [wins[i - 1] EXCEPT !.focused = FALSE]
  BY <1>1 DEF window_bring_to_front, Slots
<1>4. \A i \in (index + 1)..(n - 1) : i \in Slots /\ new[i] = [wins[i] EXCEPT !.focused = FALSE]
  <2> SUFFICES ASSUME NEW i \in (index + 1)..(n - 1)
               PROVE  i \in Slots /\ new[i] = [wins[i] EXCEPT !.focused = FALSE]
    OBVIOUS
  <2>1. i \in Slots /\ i \in 0..(n - 1) /\ i # 0 /\ i \notin 1..index
    <3> HIDE DEF n, new
    <3> QED
      BY <1>0, <1>1 DEF Slots
  <2> QED
    BY <2>1 DEF window_bring_to_front
<1>5. \A i \in Slots : i >= n => new[i] = wins[i]
  BY <1>1 DEF window_bring_to_front, Slots
<1>6. \A i \in Slots : new[i] \in WindowSet
  <2> SUFFICES ASSUME NEW i \in Slots PROVE new[i] \in WindowSet
    OBVIOUS
  <2>1. i = 0 \/ i \in 1..index \/ i \in (index + 1)..(n - 1) \/ i >= n
    <3> HIDE DEF n, new
    <3> QED
      BY <1>0, <1>1 DEF Slots
  <2>2. \A w \in WindowSet, f \in BOOLEAN : [w EXCEPT !.focused = f] \in WindowSet
    BY DEF WindowSet
  <2> HIDE DEF new, n
  <2>3. CASE i = 0
    BY <1>1, <1>2, <2>2, <2>3
  <2>4. CASE i \in 1..index
    BY <1>3, <2>2, <2>4
  <2>5. CASE i \in (index + 1)..(n - 1)
    BY <1>4, <2>2, <2>5
  <2>6. CASE i >= n
    BY <1>5, <2>6
  <2> QED
    BY <2>1, <2>3, <2>4, <2>5, <2>6
<1>7. new \in [Slots -> WindowSet]
  BY <1>6 DEF window_bring_to_front
<1> QED
  BY <1>2, <1>3, <1>4, <1>7

-----------------------------------------------------------------------------
(* The invariants of the first n slots of an array, with grips g. *)
Titled(wins, n) == \A i \in 0..(n - 1) : wins[i].title \in Titles
Differ(wins, n) == \A i, j \in 0..(n - 1) : wins[i].title = wins[j].title => i = j
Gripped(wins, n, g) ==
    \A i \in 0..(n - 1) :
        wins[i].dragging =>
            /\ wins[i].off = g[wins[i].title]
            /\ wins[i].off[1] < wins[i].bounds.w
            /\ wins[i].off[2] < TitleBar

(* Two windows that differ at most in being focused. *)
Same(u, v) == u.title = v.title /\ u.bounds = v.bounds /\ u.dragging = v.dragging /\ u.off = v.off

(* The slot that a window was in before window_bring_to_front. *)
From(index, i) == IF i = 0 THEN index ELSE IF i <= index THEN i - 1 ELSE i

(* Raising permutes the open windows, and only the front one is focused.   *)
LEMMA RaisedFrom ==
    ASSUME NEW wins \in [Slots -> WindowSet], NEW index \in Nat, NEW n \in Nat,
           num_windows' = n, n <= MaxWindows, index < n
    PROVE  LET new == window_bring_to_front(wins, index)
           IN /\ new \in [Slots -> WindowSet]
              /\ \A i \in 0..(n - 1) :
                    /\ From(index, i) \in 0..(n - 1)
                    /\ Same(new[i], wins[From(index, i)])
                    /\ new[i].focused => i = 0
              /\ \A i, j \in 0..(n - 1) : From(index, i) = From(index, j) => i = j
<1> DEFINE new == window_bring_to_front(wins, index)
<1>1. /\ new \in [Slots -> WindowSet]
      /\ new[0] = [wins[index] EXCEPT !.focused = TRUE]
      /\ \A i \in 1..index : new[i] = [wins[i - 1] EXCEPT !.focused = FALSE]
      /\ \A i \in (index + 1)..(n - 1) : new[i] = [wins[i] EXCEPT !.focused = FALSE]
  BY Raised
<1> HIDE DEF new
<1>2. 0..(n - 1) \subseteq Slots
  <2>1. MaxWindows \in Nat
    BY WindowsAssumption
  <2> QED
    BY <2>1 DEF Slots
<1>3. \A i \in 0..(n - 1) : From(index, i) \in 0..(n - 1)
  BY DEF From
<1>4. \A i, j \in 0..(n - 1) : From(index, i) = From(index, j) => i = j
  BY DEF From
<1>5. \A w \in WindowSet : /\ Same([w EXCEPT !.focused = TRUE], w)
                           /\ Same([w EXCEPT !.focused = FALSE], w)
                           /\ ~[w EXCEPT !.focused = FALSE].focused
  BY DEF WindowSet, Same
<1>6. ASSUME NEW i \in 0..(n - 1)
      PROVE  Same(new[i], wins[From(index, i)]) /\ (new[i].focused => i = 0)
  <2>1. wins[From(index, i)] \in WindowSet
    BY <1>2, <1>3
  <2>2. CASE i = 0
    <3>1. From(index, i) = index
      BY <2>2 DEF From
    <3>2. new[i] = [wins[From(index, i)] EXCEPT !.focused = TRUE]
      BY <1>1, <2>2, <3>1
    <3>3. Same(new[i], wins[From(index, i)])
      BY <1>5, <2>1, <3>2
    <3> QED
      BY <2>2, <3>3
  <2>3. CASE i \in 1..index
    <3>1. From(index, i) = i - 1
      BY <2>3 DEF From
    <3>2. new[i] = [wins[From(index, i)] EXCEPT !.focused = FALSE]
      BY <1>1, <2>3, <3>1
    <3> QED
      BY <1>5, <2>1, <3>2
  <2>4. CASE i \in (index + 1)..(n - 1)
    <3>1. From(index, i) = i
      BY <2>4 DEF From
    <3>2. new[i] = [wins[From(index, i)] EXCEPT !.focused = FALSE]
      BY <1>1, <2>4, <3>1
    <3> QED
      BY <1>5, <2>1, <3>2
  <2>5. i = 0 \/ i \in 1..index \/ i \in (index + 1)..(n - 1)
    OBVIOUS
  <2> QED
    BY <2>2, <2>3, <2>4, <2>5
<1> QED
  BY <1>1, <1>3, <1>4, <1>6 DEF new

(* What holds of the open windows holds of them raised. *)
LEMMA RaisedKeeps ==
    ASSUME NEW wins \in [Slots -> WindowSet], NEW index \in Nat, NEW n \in Nat, NEW g,
           num_windows' = n, n <= MaxWindows, index < n,
           Titled(wins, n), Differ(wins, n), Gripped(wins, n, g)
    PROVE  LET new == window_bring_to_front(wins, index)
           IN Titled(new, n) /\ Differ(new, n) /\ Gripped(new, n, g)
<1> DEFINE new == window_bring_to_front(wins, index)
<1>1. /\ \A i \in 0..(n - 1) :
             From(index, i) \in 0..(n - 1) /\ Same(new[i], wins[From(index, i)])
      /\ \A i, j \in 0..(n - 1) : From(index, i) = From(index, j) => i = j
  BY RaisedFrom
<1> HIDE DEF new
<1>2. Titled(new, n)
  BY <1>1 DEF Titled, Same
<1>3. Differ(new, n)
  BY <1>1 DEF Differ, Same
<1>4. Gripped(new, n, g)
  BY <1>1 DEF Gripped, Same
<1> QED
  BY <1>2, <1>3, <1>4 DEF new

-----------------------------------------------------------------------------
(* The actions preserve the invariant. *)

(* The invariant in terms of the array. *)
Good(wins, n, g) ==
    /\ wins \in [Slots -> WindowSet]
    /\ n \in Nat /\ n <= MaxWindows
    /\ g \in [Titles -> {<<>>} \cup (Coords \X Coords)]
    /\ Titled(wins, n) /\ Differ(wins, n) /\ Gripped(wins, n, g)

LEMMA WInvIsGood ==
    WInv <=> /\ Good(windows, num_windows, grip)
             /\ focused_window = 0 /\ drag_window_idx \in {-1, 0}
             /\ \A i \in Open : windows[i].focused => i = 0
<1>1. MaxWindows \in Nat \ {0}
  BY WindowsAssumption
<1>2. num_windows \in 0..MaxWindows <=> num_windows \in Nat /\ num_windows <= MaxWindows
  BY <1>1
<1>3. focused_window = 0 => focused_window \in 0..(MaxWindows - 1)
  BY <1>1
<1>4. focused_window = 0 =>
        (OneFocus <=> \A i \in Open : windows[i].focused => i = 0)
  BY DEF OneFocus
<1> QED
  BY <1>2, <1>3, <1>4, Zenon
     DEF WInv, TypeOK, SlotsTyped, FocusInFront, TitlesDiffer, DragsByOwnGrip,
         Good, Titled, Differ, Gripped, Open

(* The same in the next state. *)
LEMMA WInvIsGoodNext ==
    /\ Good(windows', num_windows', grip')
    /\ focused_window' = 0 /\ drag_window_idx' \in {-1, 0}
    /\ \A i \in 0..(num_windows' - 1) : windows'[i].focused => i = 0
    => WInv'
<1>1. MaxWindows \in Nat \ {0}
  BY WindowsAssumption
<1>2. num_windows' \in Nat /\ num_windows' <= MaxWindows => num_windows' \in 0..MaxWindows
  BY <1>1
<1>3. focused_window' = 0 => focused_window' \in 0..(MaxWindows - 1)
  BY <1>1
<1>4. focused_window' = 0 /\ (\A i \in 0..(num_windows' - 1) : windows'[i].focused => i = 0)
        => OneFocus'
  BY DEF OneFocus, Open
<1> QED
  BY <1>2, <1>3, <1>4, Zenon
     DEF WInv, TypeOK, SlotsTyped, FocusInFront, TitlesDiffer, DragsByOwnGrip,
         Good, Titled, Differ, Gripped, Open

(* window_init establishes it: there is no window. *)
LEMMA InitWInv == window_init => WInv
<1> SUFFICES ASSUME window_init PROVE WInv
  OBVIOUS
<1>1. Word \in Nat \ {0} /\ MaxWindows \in Nat \ {0} /\ 0 \in Coords
  BY WindowsAssumption DEF Coords
<1>2. Unused \in WindowSet
  <2>1. NoRect \in RectSet /\ <<0, 0>> \in Coords \X Coords
    BY <1>1 DEF NoRect, RectSet
  <2> QED
    BY <2>1 DEF Unused, WindowSet
<1>3. windows \in [Slots -> WindowSet] /\ grip \in [Titles -> {<<>>} \cup (Coords \X Coords)]
  BY <1>2 DEF window_init
<1>4. num_windows = 0 /\ Open = {}
  BY DEF window_init, Open
<1>5. Good(windows, num_windows, grip)
  BY <1>1, <1>3, <1>4 DEF Good, Titled, Differ, Gripped
<1> QED
  BY <1>4, <1>5, WInvIsGood DEF window_init

(* Raising a window keeps all that and leaves the focus in front. *)
LEMMA RaisedGood ==
    ASSUME NEW wins, NEW index \in Nat, NEW n, NEW g,
           num_windows' = n, index < n, Good(wins, n, g)
    PROVE  LET new == window_bring_to_front(wins, index)
           IN Good(new, n, g) /\ \A i \in 0..(n - 1) : new[i].focused => i = 0
<1> DEFINE new == window_bring_to_front(wins, index)
<1>1. /\ wins \in [Slots -> WindowSet] /\ n \in Nat /\ n <= MaxWindows
      /\ g \in [Titles -> {<<>>} \cup (Coords \X Coords)]
      /\ Titled(wins, n) /\ Differ(wins, n) /\ Gripped(wins, n, g)
  BY DEF Good
<1>2. Titled(new, n) /\ Differ(new, n) /\ Gripped(new, n, g)
  BY <1>1, RaisedKeeps
<1>3. new \in [Slots -> WindowSet] /\ \A i \in 0..(n - 1) : new[i].focused => i = 0
  BY <1>1, RaisedFrom
<1> HIDE DEF new
<1> QED
  BY <1>1, <1>2, <1>3 DEF Good, new

(* window_create. *)
LEMMA CreateWInv ==
    ASSUME WInv, NEW title \in Titles \ {windows[i].title : i \in Open}, NEW rect \in Rects,
           window_create(title, rect)
    PROVE  WInv'
<1> DEFINE n == num_windows
           win == [Unused EXCEPT !.title = title, !.bounds = rect]
           wins == [windows EXCEPT ![n] = win]
           g == [grip EXCEPT ![title] = <<>>]
<1>1. /\ windows \in [Slots -> WindowSet] /\ n \in Nat /\ n < MaxWindows
      /\ grip \in [Titles -> {<<>>} \cup (Coords \X Coords)]
      /\ Titled(windows, n) /\ Differ(windows, n) /\ Gripped(windows, n, grip)
  BY WInvIsGood DEF Good, window_create
<1>2. /\ num_windows' = n + 1 /\ windows' = window_bring_to_front(wins, n)
      /\ focused_window' = 0 /\ grip' = g /\ drag_window_idx' = drag_window_idx
  BY DEF window_create
<1>3. win \in WindowSet /\ win.title = title /\ win.dragging = FALSE
  <2>1. rect \in RectSet
    BY WindowsAssumption DEF RectSet, Coords
  <2>2. <<0, 0>> \in Coords \X Coords
    BY WindowsAssumption DEF Coords
  <2> QED
    BY <2>1, <2>2 DEF WindowSet, Unused
<1> HIDE DEF win
<1>4. n \in Slots /\ 0..(n - 1) \subseteq Slots /\ MaxWindows \in Nat
  <2>1. MaxWindows \in Nat
    BY WindowsAssumption
  <2> QED
    BY <1>1, <2>1 DEF Slots
<1>5. \A i \in 0..(n - 1) : windows[i].title # title /\ windows[i].title \in Titles
  BY <1>1 DEF Open, Titled
<1>6. /\ wins \in [Slots -> WindowSet] /\ wins[n] = win
      /\ \A i \in 0..(n - 1) : wins[i] = windows[i]
  BY <1>1, <1>3, <1>4
<1>7. /\ g \in [Titles -> {<<>>} \cup (Coords \X Coords)]
      /\ \A u \in Titles : u # title => g[u] = grip[u]
  BY <1>1
<1> HIDE DEF wins, g
<1>8. \A i \in 0..((n + 1) - 1) : i = n \/ i \in 0..(n - 1)
  BY <1>1
<1>9. Titled(wins, n + 1)
  BY <1>3, <1>5, <1>6, <1>8 DEF Titled
<1>10. Differ(wins, n + 1)
  BY <1>1, <1>3, <1>5, <1>6, <1>8 DEF Differ
<1>11. Gripped(wins, n + 1, g)
  BY <1>1, <1>3, <1>5, <1>6, <1>7, <1>8 DEF Gripped
<1>12. Good(wins, n + 1, g)
  <2>1. n + 1 \in Nat /\ n + 1 <= MaxWindows
    BY <1>1, <1>4
  <2> QED
    BY <1>6, <1>7, <1>9, <1>10, <1>11, <2>1 DEF Good
<1>13. /\ Good(windows', num_windows', grip')
       /\ \A i \in 0..(num_windows' - 1) : windows'[i].focused => i = 0
  <2>1. n \in Nat /\ n < n + 1
    BY <1>1
  <2> QED
    BY <1>2, <1>12, <2>1, RaisedGood
<1>14. drag_window_idx' \in {-1, 0}
  BY <1>2, WInvIsGood
<1> QED
  BY <1>2, <1>13, <1>14, WInvIsGoodNext

(* window_close: the windows behind the closed one move up by one slot. *)
LEMMA CloseWInv ==
    ASSUME WInv, NEW index \in Open, window_close(index)
    PROVE  WInv'
<1> DEFINE n == num_windows
           Old(i) == IF i < index THEN i ELSE i + 1
<1>1. /\ windows \in [Slots -> WindowSet] /\ n \in Nat /\ n <= MaxWindows /\ index \in 0..(n - 1)
      /\ grip \in [Titles -> {<<>>} \cup (Coords \X Coords)]
      /\ Titled(windows, n) /\ Differ(windows, n) /\ Gripped(windows, n, grip)
      /\ \A i \in 0..(n - 1) : windows[i].focused => i = 0
  BY WInvIsGood DEF Good, Open
<1>2. MaxWindows \in Nat /\ 0..(n - 1) \subseteq Slots
  <2>1. MaxWindows \in Nat
    BY WindowsAssumption
  <2> QED
    BY <1>1, <2>1 DEF Slots
<1>3. /\ num_windows' = n - 1 /\ grip' = grip /\ drag_window_idx' = drag_window_idx
      /\ windows' = [i \in Slots |-> IF i \in index..(n - 2) THEN windows[i + 1] ELSE windows[i]]
  BY DEF window_close
<1>4. n - 1 \in Nat /\ n - 1 <= MaxWindows
  BY <1>1, <1>2
<1>5. focused_window' = 0
  <2>1. focused_window = 0
    BY WInvIsGood
  <2>2. focused_window' = IF focused_window < n - 1 THEN focused_window
                          ELSE IF n - 1 > 0 THEN n - 2 ELSE 0
    BY <1>1, <1>3 DEF window_close
  <2> QED
    BY <1>1, <2>1, <2>2
<1>6. \A i \in 0..((n - 1) - 1) :
        Old(i) \in 0..(n - 1) /\ i \in 0..(n - 1) /\ windows'[i] = windows[Old(i)]
  BY <1>1, <1>2, <1>3
<1>7. \A i, j \in 0..((n - 1) - 1) : Old(i) = Old(j) => i = j
  BY <1>1
<1>8. \A i \in 0..((n - 1) - 1) : Old(i) = 0 => i = 0
  BY <1>1
<1>9. windows' \in [Slots -> WindowSet]
  <2>1. \A i \in Slots : i \in index..(n - 2) => i + 1 \in Slots
    BY <1>1, <1>2 DEF Slots
  <2> QED
    BY <1>1, <1>3, <2>1
<1> HIDE DEF Old
<1>10. Titled(windows', n - 1) /\ Differ(windows', n - 1) /\ Gripped(windows', n - 1, grip)
  <2>1. Titled(windows', n - 1)
    BY <1>1, <1>6 DEF Titled
  <2>2. Differ(windows', n - 1)
    BY <1>1, <1>6, <1>7 DEF Differ
  <2>3. Gripped(windows', n - 1, grip)
    BY <1>1, <1>6 DEF Gripped
  <2> QED
    BY <2>1, <2>2, <2>3
<1>11. Good(windows', num_windows', grip')
  BY <1>1, <1>3, <1>4, <1>9, <1>10 DEF Good
<1>12. \A i \in 0..(num_windows' - 1) : windows'[i].focused => i = 0
  BY <1>1, <1>3, <1>6, <1>8
<1>13. drag_window_idx' \in {-1, 0}
  BY <1>3, WInvIsGood
<1> QED
  BY <1>5, <1>11, <1>12, <1>13, WInvIsGoodNext

(* The raised windows of window_set_focused and window_handle_click. *)
LEMMA RaiseInPlace ==
    ASSUME WInv, NEW index \in Open, UNCHANGED num_windows
    PROVE  LET raised == window_bring_to_front(windows, index)
           IN /\ Good(raised, num_windows, grip)
              /\ \A i \in 0..(num_windows - 1) : raised[i].focused => i = 0
<1>1. Good(windows, num_windows, grip)
  BY WInvIsGood
<1>2. num_windows \in Nat
  BY <1>1 DEF Good
<1>3. index \in Nat /\ index < num_windows
  BY <1>2 DEF Open
<1> QED
  BY <1>1, <1>3, RaisedGood

(* window_set_focused. *)
LEMMA FocusWInv ==
    ASSUME WInv, NEW index \in Open, window_set_focused(index)
    PROVE  WInv'
<1>1. /\ UNCHANGED <<num_windows, drag_window_idx, grip>> /\ focused_window' = 0
      /\ windows' = window_bring_to_front(windows, index)
  BY DEF window_set_focused
<1>2. Good(windows', num_windows', grip') /\ \A i \in 0..(num_windows' - 1) : windows'[i].focused => i = 0
  BY <1>1, RaiseInPlace
<1>3. drag_window_idx' \in {-1, 0}
  BY <1>1, WInvIsGood
<1> QED
  BY <1>1, <1>2, <1>3, WInvIsGoodNext

(* window_handle_click: the grip is stored in the window that was raised,  *)
(* which is in slot 0 by then, whatever slot it was hit in.                *)
LEMMA ClickWInv ==
    ASSUME WInv, NEW x \in Xs, NEW y \in Ys, window_handle_click(x, y)
    PROVE  WInv'
<1>1. PICK index \in Open :
        /\ Hit(windows[index].bounds, x, y)
        /\ UNCHANGED num_windows
        /\ focused_window' = 0
        /\ LET raised == window_bring_to_front(windows, index)
               win == raised[0]
           IN IF y < (win.bounds.y + TitleBar) % Word
              THEN /\ windows' = [raised EXCEPT ![0].dragging = TRUE,
                                                ![0].off = Offset(win.bounds, x, y)]
                   /\ drag_window_idx' = 0
                   /\ grip' = [grip EXCEPT ![win.title] = Offset(win.bounds, x, y)]
              ELSE windows' = raised /\ UNCHANGED <<drag_window_idx, grip>>
  BY DEF window_handle_click
<1> DEFINE n == num_windows
           raised == window_bring_to_front(windows, index)
           win == raised[0]
           off == Offset(win.bounds, x, y)
<1>2. Good(raised, n, grip) /\ \A i \in 0..(n - 1) : raised[i].focused => i = 0
  BY <1>1, RaiseInPlace
<1>3. /\ n \in Nat /\ n <= MaxWindows /\ index \in Nat /\ index < n
      /\ windows \in [Slots -> WindowSet] /\ n' = n
  BY <1>1, WInvIsGood DEF Good, Open
<1>4. /\ raised \in [Slots -> WindowSet] /\ grip \in [Titles -> {<<>>} \cup (Coords \X Coords)]
      /\ Titled(raised, n) /\ Differ(raised, n) /\ Gripped(raised, n, grip)
  BY <1>2 DEF Good
<1>5. 0 \in Slots /\ 0..(n - 1) \subseteq Slots /\ 0 \in 0..(n - 1)
  <2>1. MaxWindows \in Nat
    BY WindowsAssumption
  <2> QED
    BY <1>3, <2>1 DEF Slots
<1>6. win \in WindowSet /\ win.title \in Titles /\ win.bounds \in RectSet
  BY <1>4, <1>5 DEF Titled, WindowSet
<1>7. Hit(win.bounds, x, y)
  <2>1. From(index, 0) = index
    BY DEF From
  <2>2. Same(win, windows[index])
    BY <1>3, <1>5, <2>1, RaisedFrom
  <2> QED
    BY <1>1, <2>2 DEF Same
<1>8. x \in Coords /\ y \in Coords
  BY WindowsAssumption DEF Coords
<1>9. CASE ~(y < (win.bounds.y + TitleBar) % Word)
  <2>1. windows' = raised /\ UNCHANGED <<drag_window_idx, grip>> /\ focused_window' = 0
    BY <1>1, <1>9
  <2>2. Good(windows', num_windows', grip')
    BY <1>2, <1>3, <2>1
  <2>3. \A i \in 0..(num_windows' - 1) : windows'[i].focused => i = 0
    BY <1>2, <1>3, <2>1
  <2>4. drag_window_idx' \in {-1, 0}
    BY <2>1, WInvIsGood
  <2> QED
    BY <2>1, <2>2, <2>3, <2>4, WInvIsGoodNext
<1>10. CASE y < (win.bounds.y + TitleBar) % Word
  <2>1. /\ off \in Coords \X Coords
        /\ off[1] < win.bounds.w /\ off[2] < TitleBar
    BY <1>6, <1>7, <1>8, <1>10, GripInside
  <2>2. /\ windows' = [raised EXCEPT ![0].dragging = TRUE, ![0].off = off]
        /\ drag_window_idx' = 0 /\ focused_window' = 0
        /\ grip' = [grip EXCEPT ![win.title] = off]
    BY <1>1, <1>10
  <2> HIDE DEF raised, off
  <2>3. /\ windows'[0] = [win EXCEPT !.dragging = TRUE, !.off = off]
        /\ \A i \in Slots : i # 0 => windows'[i] = raised[i]
        /\ DOMAIN windows' = Slots
    BY <1>4, <1>5, <2>2
  <2>4. [win EXCEPT !.dragging = TRUE, !.off = off] \in WindowSet
    BY <1>6, <2>1 DEF WindowSet
  <2>5. windows' \in [Slots -> WindowSet]
    <3>1. windows' = [raised EXCEPT ![0] = [win EXCEPT !.dragging = TRUE, !.off = off]]
      BY <1>4, <1>5, <2>2
    <3> QED
      BY <1>4, <2>4, <3>1
  <2>6. /\ windows'[0].title = win.title /\ windows'[0].bounds = win.bounds
        /\ windows'[0].off = off /\ (windows'[0].focused <=> win.focused)
    BY <1>6, <2>3 DEF WindowSet
  <2>7. grip' \in [Titles -> {<<>>} \cup (Coords \X Coords)]
    BY <1>4, <1>6, <2>1, <2>2
  <2>8. \A i \in 0..(n - 1) : windows'[i].title = raised[i].title /\ windows'[i].bounds = raised[i].bounds
    BY <1>5, <2>3, <2>6
  <2>9. Titled(windows', n) /\ Differ(windows', n)
    BY <1>4, <2>8 DEF Titled, Differ
  <2>10. Gripped(windows', n, grip')
    <3> SUFFICES ASSUME NEW i \in 0..(n - 1), windows'[i].dragging
                 PROVE  /\ windows'[i].off = grip'[windows'[i].title]
                        /\ windows'[i].off[1] < windows'[i].bounds.w
                        /\ windows'[i].off[2] < TitleBar
      BY DEF Gripped
    <3>1. CASE i = 0
      <4>1. grip'[win.title] = off
        BY <1>4, <1>6, <2>2
      <4> QED
        BY <2>1, <2>6, <3>1, <4>1
    <3>2. CASE i # 0
      <4>1. windows'[i] = raised[i] /\ raised[i].dragging
        BY <1>5, <2>3, <3>2
      <4>2. raised[i].title # win.title /\ raised[i].title \in Titles
        BY <1>4, <1>5, <3>2 DEF Differ, Titled
      <4>3. grip'[raised[i].title] = grip[raised[i].title]
        BY <1>4, <2>2, <4>2
      <4> QED
        BY <1>4, <4>1, <4>3 DEF Gripped
    <3> QED
      BY <3>1, <3>2
  <2>11. Good(windows', num_windows', grip')
    BY <1>3, <2>5, <2>7, <2>9, <2>10 DEF Good
  <2>12. \A i \in 0..(num_windows' - 1) : windows'[i].focused => i = 0
    BY <1>2, <1>3, <1>5, <2>3
  <2> QED
    BY <2>2, <2>11, <2>12, WInvIsGoodNext
<1> QED
  BY <1>9, <1>10

(* window_handle_drag moves a window and leaves its size and grip. *)
LEMMA DragWInv ==
    ASSUME WInv, NEW x \in Xs, NEW y \in Ys, window_handle_drag(x, y)
    PROVE  WInv'
<1> DEFINE n == num_windows
           win == windows[0]
           b == [win.bounds EXCEPT !.x = (x - win.off[1]) % Word, !.y = (y - win.off[2]) % Word]
           new == [win EXCEPT !.bounds = b]
<1>1. /\ windows \in [Slots -> WindowSet] /\ n \in Nat /\ n <= MaxWindows
      /\ grip \in [Titles -> {<<>>} \cup (Coords \X Coords)]
      /\ Titled(windows, n) /\ Differ(windows, n) /\ Gripped(windows, n, grip)
      /\ \A i \in 0..(n - 1) : windows[i].focused => i = 0
      /\ focused_window = 0 /\ drag_window_idx \in {-1, 0}
  BY WInvIsGood DEF Good, Open
<1>2. drag_window_idx = 0 /\ 0 \in 0..(n - 1)
  BY <1>1 DEF window_handle_drag, Open
<1>3. /\ windows' = [windows EXCEPT ![0].bounds.x = (x - win.off[1]) % Word,
                                    ![0].bounds.y = (y - win.off[2]) % Word]
      /\ UNCHANGED <<num_windows, focused_window, drag_window_idx, grip>>
  BY <1>2 DEF window_handle_drag
<1>4. 0 \in Slots /\ 0..(n - 1) \subseteq Slots
  <2>1. MaxWindows \in Nat
    BY WindowsAssumption
  <2> QED
    BY <1>1, <1>2, <2>1 DEF Slots
<1>5. win \in WindowSet /\ win.bounds \in RectSet /\ win.off[1] \in Int /\ win.off[2] \in Int
      /\ x \in Int /\ y \in Int
  BY <1>1, <1>4, WindowsAssumption DEF WindowSet, Coords
<1>6. b \in RectSet /\ b.w = win.bounds.w
  <2>1. (x - win.off[1]) % Word \in Coords /\ (y - win.off[2]) % Word \in Coords
    BY <1>5, WordMod
  <2> QED
    BY <1>5, <2>1 DEF RectSet
<1>7. windows' = [windows EXCEPT ![0] = new]
  BY <1>1, <1>3, <1>4, <1>5 DEF WindowSet, RectSet
<1> HIDE DEF b
<1>8. /\ new \in WindowSet /\ new.title = win.title /\ new.off = win.off
      /\ (new.dragging <=> win.dragging) /\ (new.focused <=> win.focused) /\ new.bounds = b
  BY <1>5, <1>6 DEF WindowSet
<1> HIDE DEF new
<1>9. /\ windows' \in [Slots -> WindowSet] /\ windows'[0] = new
      /\ \A i \in Slots : i # 0 => windows'[i] = windows[i]
  BY <1>1, <1>4, <1>7, <1>8
<1>10. \A i \in 0..(n - 1) :
         /\ windows'[i].title = windows[i].title /\ windows'[i].off = windows[i].off
         /\ windows'[i].bounds.w = windows[i].bounds.w
         /\ (windows'[i].dragging <=> windows[i].dragging)
         /\ (windows'[i].focused <=> windows[i].focused)
  BY <1>4, <1>6, <1>8, <1>9
<1>11. Titled(windows', n) /\ Differ(windows', n) /\ Gripped(windows', n, grip)
  BY <1>1, <1>10 DEF Titled, Differ, Gripped
<1>12. Good(windows', num_windows', grip')
  BY <1>1, <1>3, <1>9, <1>11 DEF Good
<1>13. \A i \in 0..(num_windows' - 1) : windows'[i].focused => i = 0
  BY <1>1, <1>3, <1>10
<1> QED
  BY <1>1, <1>3, <1>12, <1>13, WInvIsGoodNext

(* Every step preserves the invariant. *)
LEMMA NextWInv == WInv /\ [Next]_vars => WInv'
<1> SUFFICES ASSUME WInv, [Next]_vars PROVE WInv'
  OBVIOUS
<1>1. CASE \E t \in Titles \ {windows[i].title : i \in Open}, r \in Rects : window_create(t, r)
  BY <1>1, CreateWInv
<1>2. CASE \E i \in Open : window_close(i) \/ window_set_focused(i)
  BY <1>2, CloseWInv, FocusWInv
<1>3. CASE \E x \in Xs, y \in Ys : window_handle_click(x, y) \/ window_handle_drag(x, y)
  BY <1>3, ClickWInv, DragWInv
<1>4. CASE UNCHANGED vars
  BY <1>4 DEF vars, WInv, TypeOK, SlotsTyped, FocusInFront, OneFocus, TitlesDiffer,
              DragsByOwnGrip, Open
<1> QED
  BY <1>1, <1>2, <1>3, <1>4 DEF Next

(* The inductive invariant holds in every reachable state. *)
LEMMA SpecWInv == Spec => []WInv
  BY InitWInv, NextWInv, PTL DEF Spec

(* focused_window and drag_window_idx agree with the array through every   *)
(* order of creating, raising, closing and dragging windows, for every     *)
(* MAX_WINDOWS.                                                            *)
THEOREM IndicesAreSound == Spec => []IndicesSound
<1>1. WInv => IndicesSound
  BY DEF WInv, IndicesSound
<1> QED
  BY <1>1, SpecWInv, PTL

(* Whichever window drag_window_idx has come to mean, it carries its own   *)
(* grip, and that is a place on its title bar: window_handle_drag never    *)
(* moves a window by the offset of another one, although the sums of the   *)
(* hit test wrap.                                                          *)
THEOREM DragsAreByOwnGrip == Spec => []DragsByOwnGrip
<1>1. WInv => DragsByOwnGrip
  BY DEF WInv
<1> QED
  BY <1>1, SpecWInv, PTL

-----------------------------------------------------------------------------
(* The refinement *)

Views == [title : Titles \cup {NoTitle}, x : Coords, y : Coords, w : Coords, h : Coords]
View(u) == [title |-> u.title, x |-> u.bounds.x, y |-> u.bounds.y, w |-> u.bounds.w, h |-> u.bounds.h]

(* A window is seen as a title in a place, whatever its flags. *)
LEMMA ViewOfSame ==
    /\ \A u \in WindowSet : View(u) \in Views
    /\ \A u, v : Same(u, v) => View(u) = View(v)
<1>1. \A u \in WindowSet : View(u) \in Views
  BY DEF WindowSet, RectSet, View, Views
<1>2. \A u, v : Same(u, v) => View(u) = View(v)
  BY DEF Same, View
<1> QED
  BY <1>1, <1>2

(* The stack is the sequence of the open windows. *)
StackShown ==
    /\ num_windows \in Nat /\ num_windows <= MaxWindows
    /\ stack \in Seq(Views) /\ Len(stack) = num_windows
    /\ \A i \in 1..num_windows : stack[i] = View(windows[i - 1])

(* That it is, in every state that satisfies the invariant. *)
LEMMA StackOfWindows == WInv => StackShown
<1> SUFFICES ASSUME WInv PROVE StackShown
  OBVIOUS
<1>1. num_windows \in Nat /\ num_windows <= MaxWindows /\ windows \in [Slots -> WindowSet]
  BY WInvIsGood DEF Good
<1>2. \A i \in 1..num_windows : i - 1 \in Slots
  <2>1. MaxWindows \in Nat
    BY WindowsAssumption
  <2> QED
    BY <1>1, <2>1 DEF Slots
<1>3. stack = [i \in 1..num_windows |-> View(windows[i - 1])]
  BY DEF stack, View
<1>4. \A i \in 1..num_windows : View(windows[i - 1]) \in Views
  BY <1>1, <1>2, ViewOfSame
<1> QED
  BY <1>1, <1>3, <1>4 DEF StackShown

(* And in the next state. *)
LEMMA StackOfWindowsNext == WInv' => StackShown'
  BY StackOfWindows, PTL

(* Removing one element from a sequence. *)
LEMMA RemoveAtSeq ==
    ASSUME NEW S, NEW s \in Seq(S), NEW i \in 1..Len(s)
    PROVE  /\ StackSpec!RemoveAt(s, i) \in Seq(S)
           /\ Len(StackSpec!RemoveAt(s, i)) = Len(s) - 1
           /\ \A j \in 1..(Len(s) - 1) :
                 StackSpec!RemoveAt(s, i)[j] = IF j < i THEN s[j] ELSE s[j + 1]
<1> DEFINE a == SubSeq(s, 1, i - 1)
           b == SubSeq(s, i + 1, Len(s))
<1>1. Len(s) \in Nat /\ i \in Nat /\ \A j \in 1..Len(s) : s[j] \in S
  OBVIOUS
<1>2. /\ a \in Seq(S) /\ Len(a) = i - 1
      /\ \A j \in 1..(i - 1) : a[j] = s[j]
  <2>1. \A j \in 1..(i - 1) : s[j] \in S
    BY <1>1
  <2> QED
    BY <1>1, <2>1, SubSeqProperties
<1>3. /\ b \in Seq(S) /\ Len(b) = Len(s) - i
      /\ \A j \in 1..(Len(s) - i) : b[j] = s[i + j]
  <2>1. \A j \in (i + 1)..Len(s) : s[j] \in S
    BY <1>1
  <2> QED
    BY <1>1, <2>1, SubSeqProperties
<1> HIDE DEF a, b
<1>4. /\ a \o b \in Seq(S) /\ Len(a \o b) = Len(s) - 1
      /\ \A j \in 1..(Len(s) - 1) : (a \o b)[j] = IF j < i THEN s[j] ELSE s[j + 1]
  <2>1. /\ a \o b \in Seq(S) /\ Len(a \o b) = Len(a) + Len(b)
        /\ \A j \in 1..(Len(a) + Len(b)) :
              (a \o b)[j] = IF j <= Len(a) THEN a[j] ELSE b[j - Len(a)]
    BY <1>2, <1>3, ConcatProperties
  <2>2. Len(a) + Len(b) = Len(s) - 1
    BY <1>1, <1>2, <1>3
  <2>3. ASSUME NEW j \in 1..(Len(s) - 1)
        PROVE  (a \o b)[j] = IF j < i THEN s[j] ELSE s[j + 1]
    <3>1. CASE j < i
      BY <1>1, <1>2, <2>1, <2>2, <3>1
    <3>2. CASE ~(j < i)
      <4>1. j - (i - 1) \in 1..(Len(s) - i) /\ i + (j - (i - 1)) = j + 1
        BY <1>1, <3>2
      <4>2. (a \o b)[j] = b[j - (i - 1)]
        BY <1>1, <1>2, <2>1, <2>2, <3>2
      <4> QED
        BY <1>3, <3>2, <4>1, <4>2
    <3> QED
      BY <3>1, <3>2
  <2> QED
    BY <2>1, <2>2, <2>3
<1> QED
  BY <1>4 DEF a, b, StackSpec!RemoveAt

(* Windows permuted as window_bring_to_front does are the stack with one   *)
(* element moved to the front.                                             *)
LEMMA RaiseRefines ==
    ASSUME WInv, WInv', NEW index \in Open, num_windows' = num_windows,
           \A i \in 0..(num_windows - 1) : View(windows'[i]) = View(windows[From(index, i)])
    PROVE  StackSpec!Next
<1> DEFINE n == num_windows
           rest == StackSpec!RemoveAt(stack, index + 1)
           new == stack'
<1>1. /\ n \in Nat /\ stack \in Seq(Views) /\ Len(stack) = n
      /\ \A i \in 1..n : stack[i] = View(windows[i - 1])
  BY StackOfWindows DEF StackShown
<1>2. /\ new \in Seq(Views) /\ Len(new) = n
      /\ \A i \in 1..n : new[i] = View(windows'[i - 1])
  BY StackOfWindowsNext DEF StackShown
<1>3. index \in 0..(n - 1) /\ index + 1 \in 1..Len(stack)
  BY <1>1 DEF Open
<1>4. /\ rest \in Seq(Views) /\ Len(rest) = n - 1
      /\ \A j \in 1..(n - 1) : rest[j] = IF j < index + 1 THEN stack[j] ELSE stack[j + 1]
  BY <1>1, <1>3, RemoveAtSeq
<1> HIDE DEF rest, new
<1>5. <<stack[index + 1]>> \in Seq(Views) /\ Len(<<stack[index + 1]>>) = 1
      /\ <<stack[index + 1]>>[1] = stack[index + 1]
  BY <1>1, <1>3
<1> DEFINE goal == <<stack[index + 1]>> \o rest
<1>6. /\ goal \in Seq(Views) /\ Len(goal) = n
      /\ goal[1] = stack[index + 1]
      /\ \A i \in 2..n : goal[i] = rest[i - 1]
  <2> HIDE DEF n
  <2> QED
    BY <1>1, <1>4, <1>5, ConcatProperties
<1> HIDE DEF goal
<1>7. ASSUME NEW i \in 1..n PROVE new[i] = goal[i]
  <2>1. i - 1 \in 0..(n - 1) /\ new[i] = View(windows[From(index, i - 1)])
    BY <1>1, <1>2
  <2>2. CASE i = 1
    <3>1. From(index, i - 1) = index
      BY <2>2 DEF From
    <3> QED
      BY <1>1, <1>3, <1>6, <2>1, <2>2, <3>1
  <2>3. CASE i # 1 /\ i - 1 <= index
    <3>1. From(index, i - 1) = i - 2 /\ i - 1 \in 1..(n - 1) /\ i - 1 < index + 1 /\ i \in 2..n
      BY <1>1, <1>3, <2>3 DEF From
    <3>2. goal[i] = stack[i - 1] /\ stack[i - 1] = View(windows[i - 2])
      BY <1>1, <1>4, <1>6, <3>1
    <3> QED
      BY <2>1, <3>1, <3>2
  <2>4. CASE i - 1 > index
    <3>1. From(index, i - 1) = i - 1 /\ i - 1 \in 1..(n - 1) /\ ~(i - 1 < index + 1) /\ i \in 2..n
      BY <1>1, <1>3, <2>4 DEF From
    <3>2. goal[i] = stack[i] /\ stack[i] = View(windows[i - 1])
      BY <1>1, <1>4, <1>6, <3>1
    <3> QED
      BY <2>1, <3>1, <3>2
  <2> QED
    BY <1>1, <1>3, <2>2, <2>3, <2>4
<1>8. new = goal
  BY <1>1, <1>2, <1>6, <1>7, SeqEqual
<1>9. StackSpec!Raise(index + 1)
  BY <1>8 DEF StackSpec!Raise, goal, rest, new
<1> QED
  BY <1>3, <1>9 DEF StackSpec!Next

(* window_create is a Create. *)
LEMMA CreateRefines ==
    ASSUME WInv, WInv', NEW title \in Titles, NEW rect \in Rects, window_create(title, rect)
    PROVE  StackSpec!Next
<1> DEFINE n == num_windows
           wins == [windows EXCEPT ![n] = [Unused EXCEPT !.title = title, !.bounds = rect]]
           new == stack'
<1>1. /\ n \in Nat /\ stack \in Seq(Views) /\ Len(stack) = n
      /\ \A i \in 1..n : stack[i] = View(windows[i - 1])
  BY StackOfWindows DEF StackShown
<1>2. n < MaxWindows /\ num_windows' = n + 1 /\ windows' = window_bring_to_front(wins, n)
  BY DEF window_create
<1>3. /\ new \in Seq(Views) /\ Len(new) = n + 1
      /\ \A i \in 1..(n + 1) : new[i] = View(windows'[i - 1])
  BY <1>2, StackOfWindowsNext DEF StackShown
<1>4. wins \in [Slots -> WindowSet] /\ \A i \in 0..(n - 1) : wins[i] = windows[i]
  <2>1. windows \in [Slots -> WindowSet]
    BY WInvIsGood DEF Good
  <2>2. rect \in RectSet
    BY WindowsAssumption DEF RectSet, Coords
  <2>3. <<0, 0>> \in Coords \X Coords
    BY WindowsAssumption DEF Coords
  <2>4. [Unused EXCEPT !.title = title, !.bounds = rect] \in WindowSet
    BY <2>2, <2>3 DEF WindowSet, Unused
  <2>5. MaxWindows \in Nat
    BY WindowsAssumption
  <2>6. n \in Slots /\ \A i \in 0..(n - 1) : i \in Slots /\ i # n
    BY <1>1, <1>2, <2>5 DEF Slots
  <2> QED
    BY <2>1, <2>4, <2>6
<1> HIDE DEF wins, new
<1>5. MaxWindows \in Nat
  BY WindowsAssumption
<1>6. ASSUME NEW i \in 1..n PROVE new[i + 1] = stack[i]
  <2>1. n + 1 \in Nat /\ n + 1 <= MaxWindows /\ n < n + 1
    BY <1>1, <1>2, <1>5
  <2>2. \A j \in 0..((n + 1) - 1) : Same(windows'[j], wins[From(n, j)])
    BY <1>1, <1>2, <1>4, <2>1, RaisedFrom
  <2>3. i \in 0..((n + 1) - 1) /\ From(n, i) = i - 1 /\ i - 1 \in 0..(n - 1)
    BY <1>1 DEF From
  <2>4. View(windows'[i]) = View(windows[i - 1])
    BY <1>4, <2>2, <2>3, ViewOfSame
  <2> QED
    BY <1>1, <1>3, <2>4
<1>7. new # <<>> /\ Tail(new) \in Seq(Views) /\ Len(Tail(new)) = n
      /\ \A i \in 1..n : Tail(new)[i] = new[i + 1]
  BY <1>1, <1>3
<1>8. Tail(new) = stack
  BY <1>1, <1>6, <1>7, SeqEqual
<1>9. StackSpec!Create
  BY <1>1, <1>2, <1>3, <1>8 DEF StackSpec!Create, new
<1> QED
  BY <1>9 DEF StackSpec!Next

(* window_close is a Close. *)
LEMMA CloseRefines ==
    ASSUME WInv, WInv', NEW index \in Open, window_close(index)
    PROVE  StackSpec!Next
<1> DEFINE n == num_windows
           rest == StackSpec!RemoveAt(stack, index + 1)
           new == stack'
<1>1. /\ n \in Nat /\ n <= MaxWindows /\ stack \in Seq(Views) /\ Len(stack) = n
      /\ \A i \in 1..n : stack[i] = View(windows[i - 1])
  BY StackOfWindows DEF StackShown
<1>2. /\ num_windows' = n - 1
      /\ windows' = [i \in Slots |-> IF i \in index..(n - 2) THEN windows[i + 1] ELSE windows[i]]
  BY DEF window_close
<1>3. /\ new \in Seq(Views) /\ Len(new) = n - 1
      /\ \A i \in 1..(n - 1) : new[i] = View(windows'[i - 1])
  BY <1>2, StackOfWindowsNext DEF StackShown
<1>4. index \in 0..(n - 1) /\ index + 1 \in 1..Len(stack)
  BY <1>1 DEF Open
<1>5. /\ rest \in Seq(Views) /\ Len(rest) = n - 1
      /\ \A j \in 1..(n - 1) : rest[j] = IF j < index + 1 THEN stack[j] ELSE stack[j + 1]
  BY <1>1, <1>4, RemoveAtSeq
<1> HIDE DEF rest, new
<1>6. ASSUME NEW i \in 1..(n - 1) PROVE new[i] = rest[i]
  <2>1. MaxWindows \in Nat
    BY WindowsAssumption
  <2>2. i - 1 \in Slots
    BY <1>1, <2>1 DEF Slots
  <2>3. CASE i < index + 1
    <3>1. i - 1 \notin index..(n - 2)
      BY <1>1, <1>4, <2>3
    <3>2. windows'[i - 1] = windows[i - 1]
      BY <1>2, <2>2, <3>1
    <3>3. stack[i] = View(windows[i - 1])
      BY <1>1
    <3>4. rest[i] = stack[i]
      BY <1>5, <2>3
    <3> QED
      BY <1>3, <3>2, <3>3, <3>4
  <2>4. CASE ~(i < index + 1)
    <3>1. i - 1 \in index..(n - 2) /\ (i - 1) + 1 = i
      BY <1>1, <1>4, <2>4
    <3>2. windows'[i - 1] = windows[i]
      BY <1>2, <2>2, <3>1
    <3>3. i + 1 \in 1..n /\ (i + 1) - 1 = i
      BY <1>1
    <3>4. stack[i + 1] = View(windows[i])
      BY <1>1, <3>3
    <3> QED
      BY <1>3, <1>5, <2>4, <3>2, <3>4
  <2> QED
    BY <2>3, <2>4
<1>7. new = rest
  BY <1>3, <1>5, <1>6, SeqEqual
<1>8. StackSpec!Close(index + 1)
  BY <1>7 DEF StackSpec!Close, rest, new
<1> QED
  BY <1>4, <1>8 DEF StackSpec!Next

(* window_set_focused raises a window. *)
LEMMA FocusRefines ==
    ASSUME WInv, WInv', NEW index \in Open, window_set_focused(index)
    PROVE  StackSpec!Next
<1> DEFINE n == num_windows
<1>1. /\ windows \in [Slots -> WindowSet] /\ n \in Nat /\ n <= MaxWindows
      /\ index \in Nat /\ index < n /\ num_windows' = n
      /\ windows' = window_bring_to_front(windows, index)
  BY WInvIsGood DEF Good, Open, window_set_focused
<1>2. \A i \in 0..(n - 1) : Same(windows'[i], windows[From(index, i)])
  BY <1>1, RaisedFrom
<1>3. \A i \in 0..(n - 1) : View(windows'[i]) = View(windows[From(index, i)])
  BY <1>2, ViewOfSame
<1> QED
  BY <1>1, <1>3, RaiseRefines

(* window_handle_click raises a window, grabbed or not. *)
LEMMA ClickRefines ==
    ASSUME WInv, WInv', NEW x \in Xs, NEW y \in Ys, window_handle_click(x, y)
    PROVE  StackSpec!Next
<1> DEFINE n == num_windows
<1>1. PICK index \in Open :
        /\ num_windows' = n
        /\ LET raised == window_bring_to_front(windows, index)
               win == raised[0]
           IN \/ windows' = [raised EXCEPT ![0].dragging = TRUE, ![0].off = Offset(win.bounds, x, y)]
              \/ windows' = raised
  BY DEF window_handle_click
<1> DEFINE raised == window_bring_to_front(windows, index)
           win == raised[0]
<1>2. /\ windows \in [Slots -> WindowSet] /\ n \in Nat /\ n <= MaxWindows
      /\ index \in Nat /\ index < n
  BY WInvIsGood DEF Good, Open
<1>3. /\ raised \in [Slots -> WindowSet]
      /\ \A i \in 0..(n - 1) : Same(raised[i], windows[From(index, i)])
  BY <1>1, <1>2, RaisedFrom
<1>4. \A i \in 0..(n - 1) : View(raised[i]) = View(windows[From(index, i)])
  BY <1>3, ViewOfSame
<1>5. \A i \in 0..(n - 1) : i \in Slots
  <2>1. MaxWindows \in Nat
    BY WindowsAssumption
  <2> QED
    BY <1>2, <2>1 DEF Slots
<1> HIDE DEF raised
<1>6. \A i \in 0..(n - 1) : View(windows'[i]) = View(raised[i])
  <2>1. CASE windows' = raised
    BY <2>1
  <2>2. CASE windows' = [raised EXCEPT ![0].dragging = TRUE, ![0].off = Offset(win.bounds, x, y)]
    <3> SUFFICES ASSUME NEW i \in 0..(n - 1)
                 PROVE  View(windows'[i]) = View(raised[i])
      OBVIOUS
    <3>1. raised[i] \in WindowSet
      BY <1>3, <1>5
    <3>2. windows'[i].title = raised[i].title /\ windows'[i].bounds = raised[i].bounds
      BY <1>3, <1>5, <2>2, <3>1 DEF WindowSet
    <3> QED
      BY <3>2 DEF View
  <2> QED
    BY <1>1, <2>1, <2>2 DEF raised
<1>7. \A i \in 0..(n - 1) : View(windows'[i]) = View(windows[From(index, i)])
  BY <1>4, <1>6
<1> QED
  BY <1>1, <1>7, RaiseRefines

(* Two windows of one title and size differ by a move. *)
LEMMA MovedView ==
    ASSUME NEW s \in Views, NEW u \in Views, s.title = u.title, s.w = u.w, s.h = u.h
    PROVE  u = [s EXCEPT !.x = u.x, !.y = u.y]
<1> DEFINE m == [s EXCEPT !.x = u.x, !.y = u.y]
<1>1. m \in Views
  BY DEF Views
<1>2. m.title = s.title /\ m.x = u.x /\ m.y = u.y /\ m.w = s.w /\ m.h = s.h
  BY DEF Views
<1>3. \A r, q \in Views : r.title = q.title /\ r.x = q.x /\ r.y = q.y /\ r.w = q.w /\ r.h = q.h => r = q
  BY DEF Views
<1> QED
  BY <1>1, <1>2, <1>3

(* window_handle_drag moves the front window. *)
LEMMA DragRefines ==
    ASSUME WInv, WInv', NEW x \in Xs, NEW y \in Ys, window_handle_drag(x, y)
    PROVE  StackSpec!Next
<1> DEFINE n == num_windows
           new == stack'
<1>1. /\ n \in Nat /\ n <= MaxWindows /\ stack \in Seq(Views) /\ Len(stack) = n
      /\ \A i \in 1..n : stack[i] = View(windows[i - 1])
  BY StackOfWindows DEF StackShown
<1>2. drag_window_idx = 0 /\ n > 0 /\ num_windows' = n
  <2>1. drag_window_idx \in {-1, 0}
    BY WInvIsGood
  <2> QED
    BY <1>1, <2>1 DEF window_handle_drag, Open
<1>3. /\ new \in Seq(Views) /\ Len(new) = n
      /\ \A i \in 1..n : new[i] = View(windows'[i - 1])
  BY <1>2, StackOfWindowsNext DEF StackShown
<1>4. \A i \in 0..(n - 1) : i \in Slots
  <2>1. MaxWindows \in Nat
    BY WindowsAssumption
  <2> QED
    BY <1>1, <2>1 DEF Slots
<1>5. windows \in [Slots -> WindowSet]
  BY WInvIsGood DEF Good
<1>6. windows' = [windows EXCEPT ![0].bounds.x = (x - windows[0].off[1]) % Word,
                                 ![0].bounds.y = (y - windows[0].off[2]) % Word]
  BY <1>2 DEF window_handle_drag
<1>7. ASSUME NEW i \in 1..(n - 1) PROVE windows'[i] = windows[i]
  <2>1. i \in Slots /\ i # 0
    BY <1>1, <1>4
  <2> QED
    BY <1>5, <1>6, <2>1
<1>8. /\ windows'[0].title = windows[0].title
      /\ windows'[0].bounds.w = windows[0].bounds.w /\ windows'[0].bounds.h = windows[0].bounds.h
  <2>1. 0 \in Slots /\ windows[0] \in WindowSet
    BY <1>1, <1>2, <1>4, <1>5
  <2> QED
    BY <1>5, <1>6, <2>1 DEF WindowSet, RectSet
<1> HIDE DEF new
<1>9. /\ stack # <<>> /\ new # <<>>
      /\ Tail(stack) \in Seq(Views) /\ Len(Tail(stack)) = n - 1
      /\ \A i \in 1..(n - 1) : Tail(stack)[i] = stack[i + 1]
      /\ Tail(new) \in Seq(Views) /\ Len(Tail(new)) = n - 1
      /\ \A i \in 1..(n - 1) : Tail(new)[i] = new[i + 1]
  BY <1>1, <1>2, <1>3
<1>10. ASSUME NEW i \in 1..(n - 1) PROVE Tail(new)[i] = Tail(stack)[i]
  <2>1. i + 1 \in 1..n /\ (i + 1) - 1 = i
    BY <1>1
  <2>2. new[i + 1] = View(windows'[i]) /\ stack[i + 1] = View(windows[i])
    BY <1>1, <1>3, <2>1
  <2> QED
    BY <1>7, <1>9, <2>2
<1>11. Tail(new) = Tail(stack)
  BY <1>9, <1>10, SeqEqual
<1>12. new[1] = [stack[1] EXCEPT !.x = new[1].x, !.y = new[1].y]
  <2>1. 1 \in 1..n /\ 1 - 1 = 0
    BY <1>1, <1>2
  <2>2. new[1] = View(windows'[0]) /\ stack[1] = View(windows[0])
    BY <1>1, <1>3, <2>1
  <2>3. /\ new[1] \in Views /\ stack[1] \in Views /\ new[1].title = stack[1].title
        /\ new[1].w = stack[1].w /\ new[1].h = stack[1].h
    BY <1>1, <1>3, <1>8, <2>1, <2>2 DEF View
  <2> QED
    BY <2>3, MovedView
<1>13. StackSpec!Move
  BY <1>1, <1>3, <1>11, <1>12 DEF StackSpec!Move, new
<1> QED
  BY <1>9, <1>13 DEF StackSpec!Next

(* There is no window at the start. *)
LEMMA InitRefines == window_init => stack = <<>>
<1> SUFFICES ASSUME window_init PROVE stack = <<>>
  OBVIOUS
<1>1. StackShown /\ num_windows = 0
  BY InitWInv, StackOfWindows DEF window_init
<1> QED
  BY <1>1 DEF StackShown

(* Every step of the array is a step of the stack or leaves it alone. *)
LEMMA StepRefines == WInv /\ WInv' /\ [Next]_vars => [StackSpec!Next]_stack
<1> SUFFICES ASSUME WInv, WInv', [Next]_vars PROVE StackSpec!Next \/ stack' = stack
  OBVIOUS
<1>1. CASE \E t \in Titles \ {windows[i].title : i \in Open}, r \in Rects : window_create(t, r)
  BY <1>1, CreateRefines
<1>2. CASE \E i \in Open : window_close(i) \/ window_set_focused(i)
  BY <1>2, CloseRefines, FocusRefines
<1>3. CASE \E x \in Xs, y \in Ys : window_handle_click(x, y) \/ window_handle_drag(x, y)
  BY <1>3, ClickRefines, DragRefines
<1>4. CASE UNCHANGED vars
  BY <1>4 DEF vars, stack
<1> QED
  BY <1>1, <1>2, <1>3, <1>4 DEF Next

(* The array is a stack of windows, for every MAX_WINDOWS: copying windows *)
(* from slot to slot when one is created, raised, clicked or closed loses, *)
(* doubles and moves none, and only the front window is ever dragged.      *)
THEOREM ArrayIsStack == Spec => ImplementsStack
  BY SpecWInv, InitRefines, StepRefines, PTL DEF Spec, ImplementsStack, StackSpec!Spec

-----------------------------------------------------------------------------
(* The mouse and the cursor *)

Phases == {"tick", "moved", "clear", "mark", "shell", "getx", "gety", "draw", "clean", "hlt"}

(* The types that PointerTypeOK leaves out because no client sees them. *)
LocalsTyped ==
    /\ mouse_packet \in [0..2 -> 0..255]
    /\ port \in 0..255
    /\ phase \in Phases
    /\ mouse_moved \in BOOLEAN /\ ui_dirty_flag \in BOOLEAN /\ shell_dirty \in BOOLEAN
    /\ mx \in Nat /\ my \in Nat

(* Where a movement that is not on the screen yet is remembered, in every  *)
(* phase of the loop: by mouse_moved, by ui_dirty_flag, or by the loop     *)
(* itself, which is about to read the coordinates.                         *)
MoveRemembered ==
    /\ phase \in {"clean", "hlt", "tick", "moved"} => mouse_moved \/ cursor = Shown
    /\ phase = "shell" => mouse_moved \/ ui_dirty_flag \/ cursor = Shown
    /\ phase = "gety" => mouse_moved \/ mx = mouse_x
    /\ phase = "draw" => mouse_moved \/ (mx = mouse_x /\ my = mouse_y)

(* The inductive invariant of the mouse and the idle loop. *)
PointerInv == PointerTypeOK /\ LocalsTyped /\ MoveRemembered

(* The state after mouse_init and the first drawing of the screen. *)
LEMMA PointerInit == Init => PointerInv
<1> SUFFICES ASSUME Init PROVE PointerInv
  OBVIOUS
<1>1. Width \in Nat \ {0} /\ Height \in Nat \ {0}
  BY PointerAssumption
<1>2. PointerTypeOK
  BY <1>1 DEF Init, PointerTypeOK
<1>3. LocalsTyped
  <2>1. mouse_packet \in [0..2 -> 0..255] /\ port \in 0..255 /\ mx \in Nat /\ my \in Nat
    BY DEF Init
  <2>2. mouse_moved \in BOOLEAN /\ ui_dirty_flag \in BOOLEAN /\ shell_dirty \in BOOLEAN
    BY Zenon DEF Init
  <2>3. phase \in Phases
    BY DEF Init, Phases
  <2> QED
    BY <2>1, <2>2, <2>3 DEF LocalsTyped
<1>4. MoveRemembered
  BY <1>1 DEF Init, MoveRemembered, Shown, AtMost
<1> QED
  BY <1>2, <1>3, <1>4 DEF PointerInv

(* A packet moves the pointer by an integer amount. *)
LEMMA DeltaInt ==
    ASSUME NEW byte \in 0..255, NEW sign
    PROVE  Delta(byte, sign) \in Int
  BY DEF Delta, Int8

(* mouse_irq_handler keeps the types, and sets mouse_moved whenever it     *)
(* moves the pointer.                                                      *)
LEMMA HandlerStep ==
    ASSUME PointerInv, NEW byte \in 0..255, mouse_irq_handler(byte)
    PROVE  /\ mouse_x' \in Nat /\ mouse_y' \in Nat
           /\ mouse_buttons' \in 0..7 /\ mouse_cycle' \in 0..2
           /\ mouse_packet' \in [0..2 -> 0..255]
           /\ mouse_moved' \in BOOLEAN
           /\ mouse_moved' \/ (mouse_moved' = mouse_moved /\ mouse_x' = mouse_x /\ mouse_y' = mouse_y)
<1>1. /\ mouse_x \in Nat /\ mouse_y \in Nat /\ mouse_buttons \in 0..7 /\ mouse_cycle \in 0..2
      /\ mouse_packet \in [0..2 -> 0..255] /\ mouse_moved \in BOOLEAN
  BY DEF PointerInv, PointerTypeOK, LocalsTyped
<1>2. CASE mouse_cycle \in {0, 1}
  BY <1>1, <1>2 DEF mouse_irq_handler
<1>3. CASE mouse_cycle = 2
  <2>1. /\ mouse_packet' = [mouse_packet EXCEPT ![2] = byte]
        /\ mouse_cycle' = 0
        /\ mouse_x' = NotNegative(mouse_x + Delta(mouse_packet[1], Bit(mouse_packet[0], 16)))
        /\ mouse_y' = NotNegative(mouse_y - Delta(byte, Bit(mouse_packet[0], 32)))
        /\ mouse_buttons' = mouse_packet[0] % 8
        /\ mouse_moved' = TRUE
    BY <1>3 DEF mouse_irq_handler
  <2>2. /\ Delta(mouse_packet[1], Bit(mouse_packet[0], 16)) \in Int
        /\ Delta(byte, Bit(mouse_packet[0], 32)) \in Int
    BY <1>1, DeltaInt
  <2>3. mouse_x' \in Nat /\ mouse_y' \in Nat
    BY <1>1, <2>1, <2>2 DEF NotNegative
  <2> QED
    BY <1>1, <2>1, <2>3
<1> QED
  BY <1>1, <1>2, <1>3

(* An interrupt preserves the invariant, in whatever phase it finds the    *)
(* loop.                                                                   *)
LEMMA PointerIrq ==
    ASSUME PointerInv, NEW byte \in 0..255, driver_dispatch_irq(byte), port' \in 0..255
    PROVE  PointerInv'
<1>1. /\ mouse_x' \in Nat /\ mouse_y' \in Nat
      /\ mouse_buttons' \in 0..7 /\ mouse_cycle' \in 0..2
      /\ mouse_packet' \in [0..2 -> 0..255]
      /\ mouse_moved' \in BOOLEAN
      /\ mouse_moved' \/ (mouse_moved' = mouse_moved /\ mouse_x' = mouse_x /\ mouse_y' = mouse_y)
  <2>1. mouse_irq_handler(byte)
    BY DEF driver_dispatch_irq
  <2> QED
    BY <2>1, HandlerStep
<1>2. /\ phase' = IF phase = "hlt" THEN "tick" ELSE phase
      /\ UNCHANGED <<ui_dirty_flag, shell_dirty, mx, my, cursor>>
  BY DEF driver_dispatch_irq
<1>3. PointerTypeOK'
  BY <1>1, <1>2 DEF PointerInv, PointerTypeOK
<1>4. LocalsTyped'
  BY <1>1, <1>2 DEF PointerInv, LocalsTyped, Phases
<1>5. MoveRemembered'
  BY <1>1, <1>2 DEF PointerInv, MoveRemembered, Shown, LocalsTyped, Phases
<1> QED
  BY <1>3, <1>4, <1>5 DEF PointerInv

(* What ui_draw_cursor draws is inside the screen. *)
LEMMA AtMostInside ==
    ASSUME NEW n \in Nat, NEW max \in Nat \ {0}
    PROVE  AtMost(n, max) \in 0..(max - 1)
  BY DEF AtMost

(* A step of the idle loop preserves the invariant. *)
LEMMA PointerLoop == PointerInv /\ Loop => PointerInv'
<1> SUFFICES ASSUME PointerInv, Loop PROVE PointerInv'
  OBVIOUS
<1> USE DEF PointerInv, PointerTypeOK, LocalsTyped, MoveRemembered, Shown, Phases, Step, mouseVars
<1>1. CASE shell_tick
  BY <1>1 DEF shell_tick
<1>2. CASE mouse_has_moved
  BY <1>2 DEF mouse_has_moved
<1>3. CASE mouse_clear_moved
  BY <1>3 DEF mouse_clear_moved
<1>4. CASE mark_moved
  BY <1>4 DEF mark_moved
<1>5. CASE ui_tick_end
  BY <1>5 DEF ui_tick_end
<1>6. CASE mouse_get_x
  BY <1>6 DEF mouse_get_x
<1>7. CASE mouse_get_y
  BY <1>7 DEF mouse_get_y
<1>8. CASE ui_draw_cursor
  <2>1. cursor' \in (0..(Width - 1)) \X (0..(Height - 1))
    BY <1>8, AtMostInside, PointerAssumption DEF ui_draw_cursor
  <2> QED
    BY <1>8, <2>1 DEF ui_draw_cursor
<1>9. CASE ui_clear_dirty
  BY <1>9 DEF ui_clear_dirty
<1> QED
  BY <1>1, <1>2, <1>3, <1>4, <1>5, <1>6, <1>7, <1>8, <1>9 DEF Loop

(* Every step preserves the invariant. *)
LEMMA PointerStep == PointerInv /\ [PointerNext]_pointerVars => PointerInv'
<1> SUFFICES ASSUME PointerInv, [PointerNext]_pointerVars PROVE PointerInv'
  OBVIOUS
<1>1. CASE Loop
  BY <1>1, PointerLoop
<1>2. CASE Timer
  <2>1. port \in 0..255 /\ port' = port
    BY <1>2 DEF Timer, PointerInv, LocalsTyped
  <2> QED
    BY <1>2, <2>1, PointerIrq DEF Timer
<1>3. CASE \E byte \in Bytes : Device(byte)
  <2>1. PICK byte \in Bytes : Device(byte)
    BY <1>3
  <2>2. byte \in 0..255
    BY PointerAssumption
  <2> QED
    BY <2>1, <2>2, PointerIrq DEF Device
<1>4. CASE UNCHANGED pointerVars
  BY <1>4 DEF pointerVars, mouseVars, loopVars, PointerInv, PointerTypeOK, LocalsTyped, MoveRemembered, Shown
<1> QED
  BY <1>1, <1>2, <1>3, <1>4 DEF PointerNext, Interrupt

(* Whatever bytes the devices send and whenever the interrupts come, the   *)
(* cursor stays inside the screen, and a movement the screen does not show *)
(* is still flagged when the loop sleeps, tests mouse_moved or decides     *)
(* whether to draw.                                                        *)
THEOREM PointerIsSound == PointerSpec => []PointerSound
<1>1. PointerInv => PointerSound
  BY DEF PointerInv, MoveRemembered, LocalsTyped, PointerSound, NoLostMove
<1> QED
  BY <1>1, PointerInit, PointerStep, PTL DEF PointerSpec

-----------------------------------------------------------------------------
(* The widgets *)

(* Ancestors for any parent links P of any widgets L. *)
UpClosed(P, S) == \A x \in S \ {Null} : P[x] \in S
Anc(P, L, w) ==
    {u \in L : \A S \in SUBSET (L \cup {Null}) : (w \in S /\ UpClosed(P, S)) => u \in S}

(* Parent links of the widgets L that stay among them. *)
UpTyped(P, L) == Null \notin L /\ \A x \in L : P[x] \in L \cup {Null}

Pointers == [Addresses -> Addresses \cup {Null}]
Links == [parent : Pointers, children : Pointers, next : Pointers, prev : Pointers]

(* The links l spell the list s of the children of p. *)
Spells(l, L, p, s) ==
    /\ s \in Seq(L)
    /\ l.children[p] = IF Len(s) = 0 THEN Null ELSE s[1]
    /\ \A i \in 1..Len(s) : /\ l.parent[s[i]] = p
                            /\ l.next[s[i]] = IF i = Len(s) THEN Null ELSE s[i + 1]
                            /\ l.prev[s[i]] = IF i = 1 THEN Null ELSE s[i - 1]
    /\ \A i, j \in 1..Len(s) : s[i] = s[j] => i = j
    /\ \A x \in L : l.parent[x] = p => \E i \in 1..Len(s) : s[i] = x

(* The links l make the widgets L a forest of linked lists. *)
Forest(l, L) ==
    /\ l \in Links /\ L \subseteq Addresses /\ UpTyped(l.parent, L)
    /\ Root \in L /\ l.parent[Root] = Null
    /\ \A x \in L : l.parent[x] = Null => l.next[x] = Null /\ l.prev[x] = Null
    /\ \A p \in L : \E s \in Seq(L) : Spells(l, L, p, s)
    /\ \A x \in L : x \notin Anc(l.parent, L, l.parent[x])

(* Every call of ui_destroy_widget has taken its widget out of the list,   *)
(* and what has still to be freed is below these widgets.                  *)
DestroyInv ==
    /\ calls \in Seq(Live)
    /\ \A i \in 1..Len(calls) : link.parent[calls[i]] = Null /\ calls[i] # Root
    /\ \A i, j \in 1..Len(calls) : calls[i] = calls[j] => i = j
    /\ doomed = {u \in Live : \E i \in 1..Len(calls) : calls[i] \in Anc(link.parent, Live, u)}
    /\ doomed \subseteq moved /\ moved \subseteq Live /\ focused \notin doomed

FocusInv == FocusTold /\ focused \in Live \cup {Null}

BoundsInv ==
    /\ DOMAIN absolute = Live /\ DOMAIN on_event = Live
    /\ \A w \in Live \ moved :
          absolute[w] = Shifted(bounds[w], Restrict(bounds, Anc(link.parent, Live, link.parent[w])))

(* What ui_post_event may still come to: F has the target, its later       *)
(* siblings and the children of its members, and none that got the event.  *)
Ahead(F) ==
    /\ target \in F
    /\ \A y \in Live : link.parent[y] \in F => y \in F
    /\ \A x \in F : link.next[x] \in F \cup {Null}
    /\ \A i \in 1..Len(got) : got[i] \notin F

EventInv ==
    /\ got \in Seq(Live) /\ target \in Live \cup {Null}
    /\ calls # <<>> => target = Null /\ got = <<>>
    /\ \A i \in 1..Len(got) : /\ Inside(got[i]) /\ Root \in Anc(link.parent, Live, got[i])
                              /\ on_event[got[i]] = "handled" => i = Len(got) /\ target = Null
    /\ \A i, j \in 1..Len(got) : got[i] = got[j] => i = j
    /\ target # Null => /\ Root \in Anc(link.parent, Live, target)
                        /\ \E F \in SUBSET Live : Ahead(F)

(* The inductive invariant of the widgets. *)
WidgetInv == Forest(link, Live) /\ DestroyInv /\ FocusInv /\ BoundsInv /\ EventInv

-----------------------------------------------------------------------------
(* Ancestors *)

(* Every set of widgets that has w and is closed under parent has its      *)
(* ancestors.                                                              *)
LEMMA AncLeast ==
    ASSUME NEW P, NEW L, NEW w, NEW S \in SUBSET (L \cup {Null}), w \in S, UpClosed(P, S)
    PROVE  Anc(P, L, w) \subseteq S
BY DEF Anc

(* The ancestors are closed under parent themselves. *)
LEMMA AncClosed ==
    ASSUME NEW P, NEW L, UpTyped(P, L), NEW w \in L \cup {Null}
    PROVE  /\ Anc(P, L, w) \subseteq L
           /\ w \in Anc(P, L, w) \cup {Null}
           /\ UpClosed(P, Anc(P, L, w) \cup {Null})
<1>1. Anc(P, L, w) \subseteq L /\ w \in Anc(P, L, w) \cup {Null}
  BY DEF Anc
<1>2. ASSUME NEW x \in Anc(P, L, w), P[x] # Null
      PROVE  P[x] \in Anc(P, L, w)
  <2>1. x \in L /\ x # Null /\ P[x] \in L
    BY <1>1, <1>2 DEF UpTyped
  <2>2. ASSUME NEW S \in SUBSET (L \cup {Null}), w \in S, UpClosed(P, S)
        PROVE  P[x] \in S
    <3>1. x \in S
      BY <2>2, AncLeast
    <3> QED
      BY <2>1, <2>2, <3>1 DEF UpClosed
  <2> QED
    BY <2>1, <2>2 DEF Anc
<1>3. UpClosed(P, Anc(P, L, w) \cup {Null})
  BY <1>2 DEF UpClosed
<1> QED
  BY <1>1, <1>3

(* The null pointer has no ancestors. *)
LEMMA AncNull ==
    ASSUME NEW P, NEW L, UpTyped(P, L)
    PROVE  Anc(P, L, Null) = {}
<1>1. {Null} \in SUBSET (L \cup {Null}) /\ Null \in {Null} /\ UpClosed(P, {Null})
  BY DEF UpClosed
<1>2. Anc(P, L, Null) \subseteq {Null}
  BY <1>1, AncLeast
<1> QED
  BY <1>2 DEF Anc, UpTyped

(* An ancestor's ancestors are ancestors. *)
LEMMA AncTrans ==
    ASSUME NEW P, NEW L, UpTyped(P, L), NEW w \in L \cup {Null}, NEW u \in Anc(P, L, w)
    PROVE  Anc(P, L, u) \subseteq Anc(P, L, w)
<1> DEFINE S == Anc(P, L, w) \cup {Null}
<1>1. S \in SUBSET (L \cup {Null}) /\ u \in S /\ UpClosed(P, S)
  BY AncClosed
<1>2. Anc(P, L, u) \subseteq S
  <2> HIDE DEF S
  <2> QED
    BY <1>1, AncLeast
<1> QED
  BY <1>2 DEF Anc, UpTyped

(* A widget's ancestors are itself and those of its parent. *)
LEMMA AncUnfold ==
    ASSUME NEW P, NEW L, UpTyped(P, L), NEW w \in L
    PROVE  Anc(P, L, w) = {w} \cup Anc(P, L, P[w])
<1> DEFINE S == {w} \cup Anc(P, L, P[w]) \cup {Null}
<1>1. P[w] \in L \cup {Null} /\ w # Null
  BY DEF UpTyped
<1>2. /\ Anc(P, L, P[w]) \subseteq L /\ P[w] \in Anc(P, L, P[w]) \cup {Null}
      /\ UpClosed(P, Anc(P, L, P[w]) \cup {Null})
  BY <1>1, AncClosed
<1>3. UpClosed(P, S)
  BY <1>2 DEF UpClosed
<1>4. Anc(P, L, w) \subseteq S
  <2>1. S \in SUBSET (L \cup {Null}) /\ w \in S
    BY <1>2
  <2> HIDE DEF S
  <2> QED
    BY <1>3, <2>1, AncLeast
<1>5. /\ Anc(P, L, w) \subseteq L /\ w \in Anc(P, L, w)
      /\ P[w] \in Anc(P, L, w) \cup {Null}
  BY <1>1, AncClosed DEF UpClosed
<1>6. Anc(P, L, P[w]) \subseteq Anc(P, L, w)
  BY <1>1, <1>5, AncTrans, AncNull
<1>7. Null \notin Anc(P, L, w)
  BY <1>5 DEF UpTyped
<1> QED
  BY <1>4, <1>5, <1>6, <1>7

(* Where the parents of the ancestors stay, the ancestors stay. *)
LEMMA AncSame ==
    ASSUME NEW P, NEW L, UpTyped(P, L), NEW Q, NEW M, UpTyped(Q, M),
           NEW w \in (L \cap M) \cup {Null},
           \A x \in Anc(P, L, w) : x \in M /\ Q[x] = P[x]
    PROVE  Anc(Q, M, w) = Anc(P, L, w)
<1> DEFINE A == Anc(P, L, w) \cup {Null}
           B == Anc(Q, M, w) \cup {Null}
<1>1. A \in SUBSET (L \cup {Null}) /\ w \in A /\ UpClosed(P, A)
  BY AncClosed
<1>2. B \in SUBSET (M \cup {Null}) /\ w \in B /\ UpClosed(Q, B)
  BY AncClosed
<1>3. A \in SUBSET (M \cup {Null}) /\ UpClosed(Q, A)
  BY <1>1 DEF UpClosed
<1>4. Anc(Q, M, w) \subseteq A
  <2> HIDE DEF A
  <2> QED
    BY <1>1, <1>3, AncLeast
<1>5. B \in SUBSET (L \cup {Null}) /\ UpClosed(P, B)
  BY <1>1, <1>2, <1>4 DEF UpClosed
<1>6. Anc(P, L, w) \subseteq B
  <2> HIDE DEF B
  <2> QED
    BY <1>2, <1>5, AncLeast
<1>7. Null \notin Anc(P, L, w) /\ Null \notin Anc(Q, M, w)
  BY DEF Anc, UpTyped
<1> QED
  BY <1>4, <1>6, <1>7

(* A widget without children is an ancestor of itself only. *)
LEMMA AncChildless ==
    ASSUME NEW P, NEW L, UpTyped(P, L), NEW w \in L, \A x \in L : P[x] # w,
           NEW u \in L \cup {Null}, u # w
    PROVE  w \notin Anc(P, L, u)
<1> DEFINE S == (L \cup {Null}) \ {w}
<1>1. S \in SUBSET (L \cup {Null}) /\ u \in S /\ w \notin S
  OBVIOUS
<1>2. UpClosed(P, S)
  BY DEF UpClosed, UpTyped
<1>3. Anc(P, L, u) \subseteq S
  <2> HIDE DEF S
  <2> QED
    BY <1>1, <1>2, AncLeast
<1> QED
  BY <1>1, <1>3

(* A widget that loses its parent loses ancestors only. *)
LEMMA AncCut ==
    ASSUME NEW P, NEW L, UpTyped(P, L), NEW Q, NEW c,
           \A x \in L : Q[x] = IF x = c THEN Null ELSE P[x],
           NEW w \in L \cup {Null}
    PROVE  /\ UpTyped(Q, L)
           /\ Anc(Q, L, w) \subseteq Anc(P, L, w)
           /\ c \in Anc(P, L, w) => c \in Anc(Q, L, w)
           /\ c \notin Anc(P, L, w) => Anc(Q, L, w) = Anc(P, L, w)
<1> DEFINE A == Anc(P, L, w) \cup {Null}
           B == Anc(Q, L, w) \cup {Null}
<1>0. UpTyped(Q, L)
  BY DEF UpTyped
<1>1. A \in SUBSET (L \cup {Null}) /\ w \in A /\ UpClosed(P, A)
  BY AncClosed
<1>2. UpClosed(Q, A)
  BY <1>1 DEF UpClosed
<1>3. Anc(Q, L, w) \subseteq Anc(P, L, w)
  <2>1. Anc(Q, L, w) \subseteq A
    <3> HIDE DEF A
    <3> QED
      BY <1>1, <1>2, AncLeast
  <2>2. Null \notin Anc(Q, L, w)
    BY DEF Anc, UpTyped
  <2> QED
    BY <2>1, <2>2
<1>4. ASSUME c \in Anc(P, L, w), c \notin Anc(Q, L, w) PROVE FALSE
  <2>1. B \in SUBSET (L \cup {Null}) /\ w \in B /\ UpClosed(Q, B)
    BY <1>0, AncClosed
  <2>2. UpClosed(P, B)
    BY <1>4, <2>1 DEF UpClosed
  <2>3. Anc(P, L, w) \subseteq B
    <3> HIDE DEF B
    <3> QED
      BY <2>1, <2>2, AncLeast
  <2>4. c # Null
    BY <1>4 DEF Anc, UpTyped
  <2> QED
    BY <1>4, <2>3, <2>4
<1>5. ASSUME c \notin Anc(P, L, w) PROVE Anc(Q, L, w) = Anc(P, L, w)
  <2>1. \A x \in Anc(P, L, w) : x \in L /\ Q[x] = P[x]
    BY <1>5 DEF Anc
  <2> QED
    BY <1>0, <2>1, AncSame
<1> QED
  BY <1>0, <1>3, <1>4, <1>5

(* A widget c that gets the parent p. *)
LEMMA AncAdd ==
    ASSUME NEW P, NEW L, UpTyped(P, L), NEW Q, NEW c \in L, NEW p \in L,
           \A x \in L : Q[x] = IF x = c THEN p ELSE P[x],
           NEW w \in L \cup {Null}
    PROVE  /\ UpTyped(Q, L)
           /\ Anc(Q, L, w) \subseteq Anc(P, L, w) \cup Anc(P, L, p)
           /\ c \notin Anc(P, L, w) => Anc(Q, L, w) = Anc(P, L, w)
<1> DEFINE A == Anc(P, L, w) \cup Anc(P, L, p) \cup {Null}
<1>0. UpTyped(Q, L)
  BY DEF UpTyped
<1>1. /\ Anc(P, L, w) \subseteq L /\ w \in Anc(P, L, w) \cup {Null}
      /\ UpClosed(P, Anc(P, L, w) \cup {Null})
  BY AncClosed
<1>2. /\ Anc(P, L, p) \subseteq L /\ p \in Anc(P, L, p) \cup {Null}
      /\ UpClosed(P, Anc(P, L, p) \cup {Null})
  BY AncClosed
<1>3. A \in SUBSET (L \cup {Null}) /\ w \in A /\ p \in A /\ UpClosed(P, A)
  BY <1>1, <1>2 DEF UpClosed
<1>4. UpClosed(Q, A)
  BY <1>3 DEF UpClosed
<1>5. Anc(Q, L, w) \subseteq Anc(P, L, w) \cup Anc(P, L, p)
  <2>1. Anc(Q, L, w) \subseteq A
    <3> HIDE DEF A
    <3> QED
      BY <1>3, <1>4, AncLeast
  <2>2. Null \notin Anc(Q, L, w)
    BY DEF Anc, UpTyped
  <2> QED
    BY <2>1, <2>2
<1>6. ASSUME c \notin Anc(P, L, w) PROVE Anc(Q, L, w) = Anc(P, L, w)
  <2>1. \A x \in Anc(P, L, w) : x \in L /\ Q[x] = P[x]
    BY <1>6 DEF Anc
  <2> QED
    BY <1>0, <2>1, AncSame
<1> QED
  BY <1>0, <1>5, <1>6

-----------------------------------------------------------------------------
(* Adding a child *)

(* The links m of the widgets L are l after ui_add_child of c to p. *)
Added(l, m, L, p, c) ==
    \A x \in L : /\ m.parent[x] = IF x = c THEN p ELSE l.parent[x]
                 /\ m.children[x] = IF x = p THEN c ELSE l.children[x]
                 /\ m.next[x] = IF x = c THEN l.children[p] ELSE l.next[x]
                 /\ m.prev[x] = IF x = l.children[p] THEN c
                                ELSE IF x = c THEN Null ELSE l.prev[x]

(* What ui_add_child writes. *)
LEMMA AddWrites ==
    ASSUME NEW l \in Links, NEW p \in Addresses, NEW c \in Addresses
    PROVE  /\ ui_add_child(l, p, c) \in Links
           /\ Added(l, ui_add_child(l, p, c), Addresses, p, c)
BY DEF Links, Pointers, Added, ui_add_child

(* A sequence with an element in front. *)
LEMMA InFront ==
    ASSUME NEW L, NEW c \in L, NEW s \in Seq(L)
    PROVE  /\ <<c>> \o s \in Seq(L) /\ Len(<<c>> \o s) = Len(s) + 1
           /\ \A i \in 1..(Len(s) + 1) : (<<c>> \o s)[i] = IF i = 1 THEN c ELSE s[i - 1]
OBVIOUS

(* The list of the parent gets the child in front, the others stay. *)
LEMMA AddSpells ==
    ASSUME NEW l, NEW m, NEW L, Null \notin L, NEW p \in L, NEW c \in L, l.parent[c] = Null,
           Added(l, m, L, p, c),
           NEW first \in Seq(L), Spells(l, L, p, first),
           NEW q \in L, NEW s \in Seq(L), Spells(l, L, q, s)
    PROVE  Spells(m, L, q, IF q = p THEN <<c>> \o s ELSE s)
<1>1. /\ Len(s) \in Nat /\ \A i \in 1..Len(s) : s[i] \in L /\ l.parent[s[i]] = q /\ s[i] # c
      /\ l.children[q] = IF Len(s) = 0 THEN Null ELSE s[1]
  BY DEF Spells
<1>2. \A i \in 1..Len(s) : /\ l.next[s[i]] = IF i = Len(s) THEN Null ELSE s[i + 1]
                           /\ l.prev[s[i]] = IF i = 1 THEN Null ELSE s[i - 1]
  BY DEF Spells
<1>3. \A i, j \in 1..Len(s) : s[i] = s[j] => i = j
  BY DEF Spells
<1>4. \A x \in L : l.parent[x] = q => \E i \in 1..Len(s) : s[i] = x
  BY DEF Spells
<1>5. l.children[p] # Null => l.children[p] \in L /\ l.parent[l.children[p]] = p
  BY DEF Spells
<1>6. CASE q # p
  <2>1. \A i \in 1..Len(s) : s[i] # l.children[p]
    BY <1>1, <1>5, <1>6
  <2>2. m.children[q] = l.children[q]
    BY <1>6 DEF Added
  <2>3. \A i \in 1..Len(s) : /\ m.parent[s[i]] = l.parent[s[i]]
                             /\ m.next[s[i]] = l.next[s[i]] /\ m.prev[s[i]] = l.prev[s[i]]
    BY <1>1, <2>1 DEF Added
  <2>4. \A x \in L : m.parent[x] = q => l.parent[x] = q
    BY <1>6 DEF Added
  <2>5. m.children[q] = IF Len(s) = 0 THEN Null ELSE s[1]
    BY <1>1, <2>2
  <2>6. \A i \in 1..Len(s) : /\ m.parent[s[i]] = q
                             /\ m.next[s[i]] = IF i = Len(s) THEN Null ELSE s[i + 1]
                             /\ m.prev[s[i]] = IF i = 1 THEN Null ELSE s[i - 1]
    BY <1>1, <1>2, <2>3
  <2>7. \A x \in L : m.parent[x] = q => \E i \in 1..Len(s) : s[i] = x
    BY <1>4, <2>4
  <2>8. Spells(m, L, q, s)
    BY <1>3, <2>5, <2>6, <2>7 DEF Spells
  <2> QED
    BY <1>6, <2>8
<1>7. CASE q = p
  <2> DEFINE n == Len(s)
             t == <<c>> \o s
  <2>1. t \in Seq(L) /\ Len(t) = n + 1 /\ \A i \in 1..(n + 1) : t[i] = IF i = 1 THEN c ELSE s[i - 1]
    BY InFront
  <2> HIDE DEF t
  <2>2. m.children[p] = t[1]
    BY <1>1, <2>1 DEF Added
  <2>3. ASSUME NEW i \in 1..(n + 1)
        PROVE  /\ m.parent[t[i]] = p
               /\ m.next[t[i]] = IF i = n + 1 THEN Null ELSE t[i + 1]
               /\ m.prev[t[i]] = IF i = 1 THEN Null ELSE t[i - 1]
    <3>1. CASE i = 1
      <4>1. t[1] = c /\ (n # 0 => t[2] = s[1]) /\ l.children[p] # c
        BY <1>1, <1>7, <2>1
      <4>2. m.parent[c] = p /\ m.next[c] = l.children[p] /\ m.prev[c] = Null
        BY <4>1 DEF Added
      <4> QED
        BY <1>1, <1>7, <3>1, <4>1, <4>2
    <3>2. CASE i # 1
      <4>1. i - 1 \in 1..n /\ t[i] = s[i - 1] /\ s[i - 1] \in L /\ s[i - 1] # c
        BY <1>1, <2>1, <3>2
      <4>2. /\ m.parent[t[i]] = p /\ m.next[t[i]] = l.next[s[i - 1]]
            /\ m.prev[t[i]] = IF s[i - 1] = l.children[p] THEN c ELSE l.prev[s[i - 1]]
        BY <1>1, <1>7, <4>1 DEF Added
      <4>3. m.next[t[i]] = IF i = n + 1 THEN Null ELSE t[i + 1]
        <5>1. l.next[s[i - 1]] = IF i - 1 = n THEN Null ELSE s[(i - 1) + 1]
          BY <1>2, <4>1
        <5>2. i # n + 1 => t[i + 1] = s[i]
          BY <1>1, <2>1, <3>2
        <5> QED
          BY <1>1, <4>2, <5>1, <5>2
      <4>4. m.prev[t[i]] = t[i - 1]
        <5>1. CASE i = 2
          BY <1>1, <1>7, <2>1, <4>1, <4>2, <5>1
        <5>2. CASE i # 2
          <6>1. i - 1 # 1 /\ 1 \in 1..n /\ i - 2 \in 1..n /\ (i - 1) - 1 = i - 2
            BY <3>2, <4>1, <5>2
          <6>2. s[i - 1] # s[1] /\ l.children[p] = s[1]
            BY <1>1, <1>3, <1>7, <4>1, <6>1
          <6>3. l.prev[s[i - 1]] = s[i - 2]
            BY <1>2, <4>1, <6>1
          <6>4. t[i - 1] = s[i - 2]
            BY <1>1, <2>1, <3>2, <6>1
          <6> QED
            BY <4>2, <6>2, <6>3, <6>4
        <5> QED
          BY <5>1, <5>2
      <4> QED
        BY <3>2, <4>2, <4>3, <4>4
    <3> QED
      BY <3>1, <3>2
  <2>4. ASSUME NEW i \in 1..(n + 1), NEW j \in 1..(n + 1), t[i] = t[j] PROVE i = j
    <3>1. (i # 1 => i - 1 \in 1..n) /\ (j # 1 => j - 1 \in 1..n)
      BY <1>1
    <3>2. CASE i = 1 \/ j = 1
      BY <1>1, <2>1, <2>4, <3>1, <3>2
    <3>3. CASE i # 1 /\ j # 1
      <4>1. t[i] = s[i - 1] /\ t[j] = s[j - 1]
        BY <2>1, <3>3
      <4>2. PICK a \in 1..n : a = i - 1
        BY <3>1, <3>3
      <4>3. PICK b \in 1..n : b = j - 1
        BY <3>1, <3>3
      <4>4. s[a] = s[b]
        BY <2>4, <4>1, <4>2, <4>3
      <4>5. a = b
        BY <1>3, <4>4
      <4> QED
        BY <1>1, <4>2, <4>3, <4>5
    <3> QED
      BY <3>2, <3>3
  <2>5. ASSUME NEW x \in L, m.parent[x] = p PROVE \E i \in 1..(n + 1) : t[i] = x
    <3>1. CASE x = c
      BY <1>1, <2>1, <3>1
    <3>2. CASE x # c
      <4>1. PICK i \in 1..n : s[i] = x
        BY <1>4, <1>7, <2>5, <3>2 DEF Added
      <4>2. i + 1 \in 1..(n + 1) /\ t[i + 1] = x
        BY <1>1, <2>1, <4>1
      <4> QED
        BY <4>2
    <3> QED
      BY <3>1, <3>2
  <2>6. Spells(m, L, p, t)
    BY <1>1, <2>1, <2>2, <2>3, <2>4, <2>5 DEF Spells
  <2> QED
    BY <1>7, <2>6 DEF t
<1> QED
  BY <1>6, <1>7

(* ui_add_child of an orphan to a widget that is not below it keeps the    *)
(* forest.                                                                 *)
LEMMA AddForest ==
    ASSUME NEW l, NEW L, Forest(l, L), NEW p \in L, NEW c \in L \ {Root},
           l.parent[c] = Null, c \notin Anc(l.parent, L, p)
    PROVE  LET m == ui_add_child(l, p, c)
           IN /\ Forest(m, L)
              /\ \A q \in L : \A s \in Seq(L) :
                    Spells(l, L, q, s) => Spells(m, L, q, IF q = p THEN <<c>> \o s ELSE s)
<1> DEFINE m == ui_add_child(l, p, c)
<1>1. l \in Links /\ L \subseteq Addresses /\ UpTyped(l.parent, L) /\ Null \notin L
  BY DEF Forest, UpTyped
<1>2. m \in Links /\ Added(l, m, L, p, c)
  <2>1. p \in Addresses /\ c \in Addresses
    BY <1>1
  <2> QED
    BY <1>1, <2>1, AddWrites DEF Added
<1> HIDE DEF m
<1>3. PICK first \in Seq(L) : Spells(l, L, p, first)
  BY DEF Forest
<1>4. ASSUME NEW q \in L, NEW s \in Seq(L), Spells(l, L, q, s)
      PROVE  Spells(m, L, q, IF q = p THEN <<c>> \o s ELSE s)
  BY <1>1, <1>2, <1>3, <1>4, AddSpells, SMTT(30)
<1>5. ASSUME NEW q \in L PROVE \E s \in Seq(L) : Spells(m, L, q, s)
  <2>1. PICK s \in Seq(L) : Spells(l, L, q, s)
    BY DEF Forest
  <2>2. <<c>> \o s \in Seq(L)
    BY InFront
  <2> QED
    BY <1>4, <2>1, <2>2
<1>6. UpTyped(m.parent, L)
  BY <1>1, <1>2 DEF UpTyped, Added
<1>7. m.parent[Root] = Null /\ Root \in L
  BY <1>2 DEF Forest, Added
<1>8. ASSUME NEW x \in L, m.parent[x] = Null PROVE m.next[x] = Null /\ m.prev[x] = Null
  <2>1. x # c /\ l.parent[x] = Null /\ p # Null
    BY <1>1, <1>2, <1>8 DEF Added
  <2>2. l.next[x] = Null /\ l.prev[x] = Null
    BY <2>1 DEF Forest
  <2>3. x # l.children[p]
    BY <1>1, <1>3, <2>1 DEF Spells
  <2> QED
    BY <1>2, <2>1, <2>2, <2>3 DEF Added
<1>9. ASSUME NEW x \in L PROVE x \notin Anc(m.parent, L, m.parent[x])
  <2> DEFINE P == l.parent
             Q == m.parent
             q == P[x]
  <2>1. /\ UpTyped(P, L) /\ c \in L /\ P[c] = Null /\ c \notin Anc(P, L, p)
        /\ \A y \in L : Q[y] = IF y = c THEN p ELSE P[y]
    BY <1>1, <1>2 DEF Added
  <2>2. q \in L \cup {Null} /\ x \notin Anc(P, L, q)
    BY <2>1 DEF UpTyped, Forest
  <2> HIDE DEF P, Q
  <2>3. CASE x = c
    <3>1. Anc(Q, L, p) = Anc(P, L, p)
      BY <2>1, AncAdd
    <3> QED
      BY <2>1, <2>3, <3>1 DEF Q
  <2>4. CASE x # c
    <3>1. /\ Anc(Q, L, q) \subseteq Anc(P, L, q) \cup Anc(P, L, p)
          /\ c \notin Anc(P, L, q) => Anc(Q, L, q) = Anc(P, L, q)
      <4> HIDE DEF q
      <4> QED
        BY <2>1, <2>2, AncAdd
    <3>2. ASSUME c \in Anc(P, L, q), x \in Anc(P, L, p) PROVE FALSE
      <4>1. c \in Anc(P, L, x)
        BY <2>1, <3>2, AncUnfold
      <4>2. Anc(P, L, x) \subseteq Anc(P, L, p)
        BY <2>1, <3>2, AncTrans
      <4> QED
        BY <2>1, <4>1, <4>2
    <3>3. Q[x] = q
      BY <2>1, <2>4
    <3> HIDE DEF q
    <3>4. x \notin Anc(Q, L, q)
      BY <2>2, <3>1, <3>2
    <3> QED
      BY <3>3, <3>4 DEF Q
  <2> QED
    BY <2>3, <2>4
<1>10. Forest(m, L)
  BY <1>1, <1>2, <1>5, <1>6, <1>7, <1>8, <1>9 DEF Forest
<1> QED
  BY <1>4, <1>10 DEF m

-----------------------------------------------------------------------------
(* A new widget and a freed one *)

(* What ui_create_widget writes into the links. *)
LEMMA NewWrites ==
    ASSUME NEW l \in Links, NEW w \in Addresses
    PROVE  LET m == NewWidget(l, w)
           IN /\ m \in Links
              /\ \A x \in Addresses :
                    /\ m.parent[x] = IF x = w THEN Null ELSE l.parent[x]
                    /\ m.children[x] = IF x = w THEN Null ELSE l.children[x]
                    /\ m.next[x] = IF x = w THEN Null ELSE l.next[x]
                    /\ m.prev[x] = IF x = w THEN Null ELSE l.prev[x]
BY DEF Links, Pointers, NewWidget

(* A widget from the heap joins the forest as an orphan without children. *)
LEMMA NewForest ==
    ASSUME NEW l, NEW L, Forest(l, L), NEW w \in Addresses \ L
    PROVE  LET m == NewWidget(l, w)
               M == L \cup {w}
           IN /\ Forest(m, M) /\ m.parent[w] = Null
              /\ Spells(m, M, w, <<>>)
              /\ \A q \in L : \A s \in Seq(L) : Spells(l, L, q, s) => Spells(m, M, q, s)
              /\ \A q \in L \cup {Null} : Anc(m.parent, M, q) = Anc(l.parent, L, q)
<1> DEFINE m == NewWidget(l, w)
           M == L \cup {w}
<1>1. /\ l \in Links /\ L \subseteq Addresses /\ UpTyped(l.parent, L) /\ Null \notin L
      /\ w # Null /\ w \notin L /\ Null \notin M /\ M \subseteq Addresses
  BY WidgetsAssumption DEF Forest, UpTyped
<1>2. /\ m \in Links
      /\ \A x \in M :
            /\ m.parent[x] = IF x = w THEN Null ELSE l.parent[x]
            /\ m.children[x] = IF x = w THEN Null ELSE l.children[x]
            /\ m.next[x] = IF x = w THEN Null ELSE l.next[x]
            /\ m.prev[x] = IF x = w THEN Null ELSE l.prev[x]
  BY <1>1, NewWrites
<1> HIDE DEF m
<1>3. \A x \in M : m.parent[x] \in L \cup {Null} /\ m.parent[x] # w
  BY <1>1, <1>2 DEF UpTyped
<1>4. UpTyped(m.parent, M)
  BY <1>1, <1>3 DEF UpTyped
<1>5. Spells(m, M, w, <<>>)
  BY <1>2, <1>3 DEF Spells
<1>6. ASSUME NEW q \in L, NEW s \in Seq(L), Spells(l, L, q, s)
      PROVE  s \in Seq(M) /\ Spells(m, M, q, s)
  <2>1. /\ Len(s) \in Nat /\ \A i \in 1..Len(s) : s[i] \in L /\ s[i] # w
        /\ s \in Seq(M) /\ q # w /\ q # Null
    BY <1>1
  <2>2. m.children[q] = IF Len(s) = 0 THEN Null ELSE s[1]
    BY <1>2, <1>6, <2>1 DEF Spells
  <2>3. \A i \in 1..Len(s) : /\ m.parent[s[i]] = q
                             /\ m.next[s[i]] = IF i = Len(s) THEN Null ELSE s[i + 1]
                             /\ m.prev[s[i]] = IF i = 1 THEN Null ELSE s[i - 1]
    <3>1. \A i \in 1..Len(s) : /\ l.parent[s[i]] = q
                               /\ l.next[s[i]] = IF i = Len(s) THEN Null ELSE s[i + 1]
                               /\ l.prev[s[i]] = IF i = 1 THEN Null ELSE s[i - 1]
      BY <1>6 DEF Spells
    <3>2. \A i \in 1..Len(s) : /\ m.parent[s[i]] = l.parent[s[i]]
                               /\ m.next[s[i]] = l.next[s[i]] /\ m.prev[s[i]] = l.prev[s[i]]
      BY <1>2, <2>1
    <3> QED
      BY <3>1, <3>2
  <2>4. \A i, j \in 1..Len(s) : s[i] = s[j] => i = j
    BY <1>6 DEF Spells
  <2>5. \A x \in M : m.parent[x] = q => \E i \in 1..Len(s) : s[i] = x
    BY <1>2, <1>6, <2>1 DEF Spells
  <2> QED
    BY <2>1, <2>2, <2>3, <2>4, <2>5 DEF Spells
<1>7. ASSUME NEW q \in M PROVE \E s \in Seq(M) : Spells(m, M, q, s)
  <2>1. CASE q = w
    <3>1. <<>> \in Seq(M)
      OBVIOUS
    <3> QED
      BY <1>5, <2>1, <3>1
  <2>2. CASE q # w
    <3>1. PICK s \in Seq(L) : Spells(l, L, q, s)
      BY <2>2 DEF Forest
    <3> QED
      BY <1>6, <2>2, <3>1
  <2> QED
    BY <2>1, <2>2
<1>8. ASSUME NEW q \in L \cup {Null} PROVE Anc(m.parent, M, q) = Anc(l.parent, L, q)
  <2> DEFINE P == l.parent
             Q == m.parent
  <2>1. UpTyped(P, L) /\ UpTyped(Q, M) /\ q \in (L \cap M) \cup {Null}
    BY <1>1, <1>4
  <2>2. \A x \in Anc(P, L, q) : x \in M /\ Q[x] = P[x]
    BY <1>1, <1>2 DEF Anc
  <2> HIDE DEF P, Q, M
  <2>3. Anc(Q, M, q) = Anc(P, L, q)
    BY <2>1, <2>2, AncSame
  <2> QED
    BY <2>3 DEF P, Q
<1>9. ASSUME NEW x \in M PROVE x \notin Anc(m.parent, M, m.parent[x])
  <2>1. CASE x = w
    BY <1>2, <1>4, <2>1, AncNull
  <2>2. CASE x # w
    <3>1. x \in L /\ m.parent[x] = l.parent[x] /\ l.parent[x] \in L \cup {Null}
      BY <1>1, <1>2, <2>2 DEF UpTyped
    <3>2. x \notin Anc(l.parent, L, l.parent[x])
      BY <3>1 DEF Forest
    <3> QED
      BY <1>8, <3>1, <3>2
  <2> QED
    BY <2>1, <2>2
<1>10. \A x \in M : m.parent[x] = Null => m.next[x] = Null /\ m.prev[x] = Null
  BY <1>2 DEF Forest
<1>11. Root \in M /\ m.parent[Root] = Null
  BY <1>2 DEF Forest
<1>12. Forest(m, M)
  BY <1>1, <1>2, <1>4, <1>7, <1>9, <1>10, <1>11 DEF Forest
<1>13. m.parent[w] = Null
  BY <1>2
<1> QED
  BY <1>5, <1>6, <1>8, <1>12, <1>13 DEF m

(* An orphan without children leaves the forest. *)
LEMMA DropForest ==
    ASSUME NEW l, NEW L, Forest(l, L), NEW w \in L \ {Root},
           l.parent[w] = Null, l.children[w] = Null
    PROVE  LET K == L \ {w}
           IN /\ Forest(l, K)
              /\ \A q \in K : \A s \in Seq(L) : Spells(l, L, q, s) => Spells(l, K, q, s)
              /\ \A q \in K \cup {Null} : /\ Anc(l.parent, K, q) = Anc(l.parent, L, q)
                                          /\ w \notin Anc(l.parent, L, q)
<1> DEFINE K == L \ {w}
           P == l.parent
<1>1. /\ l \in Links /\ L \subseteq Addresses /\ UpTyped(P, L) /\ Null \notin L
      /\ w \in L /\ w # Null /\ w \notin K /\ K \subseteq L
  BY DEF Forest, UpTyped
<1>2. \A x \in L : P[x] # w
  <2>1. PICK s \in Seq(L) : Spells(l, L, w, s)
    BY DEF Forest
  <2>2. Len(s) = 0
    BY <1>1, <2>1 DEF Spells
  <2> QED
    BY <2>1, <2>2 DEF Spells
<1>3. UpTyped(P, K)
  BY <1>1, <1>2 DEF UpTyped
<1>4. ASSUME NEW q \in K, NEW s \in Seq(L), Spells(l, L, q, s)
      PROVE  s \in Seq(K) /\ Spells(l, K, q, s)
  <2>1. \A i \in 1..Len(s) : s[i] \in L /\ s[i] # w
    <3>1. \A i \in 1..Len(s) : s[i] \in L /\ l.parent[s[i]] = q
      BY <1>4 DEF Spells
    <3> QED
      BY <1>1, <3>1
  <2>2. s \in Seq(K)
    <3>1. Len(s) \in Nat /\ DOMAIN s = 1..Len(s) /\ s = [i \in 1..Len(s) |-> s[i]]
      OBVIOUS
    <3>2. \A i \in 1..Len(s) : s[i] \in K
      BY <2>1
    <3> QED
      BY <3>1, <3>2, SeqDef
  <2> QED
    BY <1>1, <1>4, <2>2 DEF Spells
<1>5. \A q \in K : \E s \in Seq(K) : Spells(l, K, q, s)
  BY <1>1, <1>4 DEF Forest
<1>6. ASSUME NEW q \in K \cup {Null}
      PROVE  Anc(P, K, q) = Anc(P, L, q) /\ w \notin Anc(P, L, q)
  <2>1. w \notin Anc(P, L, q)
    <3>1. q \in L \cup {Null} /\ q # w
      BY <1>1
    <3> QED
      BY <1>1, <1>2, <3>1, AncChildless
  <2>2. \A x \in Anc(P, L, q) : x \in K /\ P[x] = P[x]
    BY <2>1 DEF Anc
  <2>3. q \in (L \cap K) \cup {Null}
    BY <1>1
  <2> HIDE DEF P, K
  <2>4. Anc(P, K, q) = Anc(P, L, q)
    BY <1>1, <1>3, <2>2, <2>3, AncSame
  <2> QED
    BY <2>1, <2>4
<1>7. ASSUME NEW x \in K PROVE x \notin Anc(P, K, P[x])
  <2>1. x \in L /\ P[x] \in K \cup {Null}
    BY <1>3 DEF UpTyped
  <2>2. x \notin Anc(P, L, P[x])
    BY <2>1 DEF Forest
  <2> QED
    BY <1>6, <2>1, <2>2
<1>8. Forest(l, K)
  <2>1. K \subseteq Addresses /\ Root \in K /\ l.parent[Root] = Null
    BY <1>1 DEF Forest
  <2>2. \A x \in K : l.parent[x] = Null => l.next[x] = Null /\ l.prev[x] = Null
    BY <1>1 DEF Forest
  <2> QED
    BY <1>1, <1>3, <1>5, <1>7, <2>1, <2>2 DEF Forest
<1> QED
  BY <1>4, <1>6, <1>8

-----------------------------------------------------------------------------
(* Removing a child *)

(* The links m of the widgets L are l after ui_remove_child of c from p. *)
Removed(l, m, L, p, c) ==
    \A x \in L : /\ m.parent[x] = IF x = c THEN Null ELSE l.parent[x]
                 /\ m.children[x] = IF x = p /\ l.prev[c] = Null THEN l.next[c] ELSE l.children[x]
                 /\ m.next[x] = IF x = c THEN Null
                                ELSE IF x = l.prev[c] THEN l.next[c] ELSE l.next[x]
                 /\ m.prev[x] = IF x = c THEN Null
                                ELSE IF x = l.next[c] THEN l.prev[c] ELSE l.prev[x]

(* The sequence s without its element k. *)
CutAt(s, k) == [i \in 1..(Len(s) - 1) |-> IF i < k THEN s[i] ELSE s[i + 1]]

(* It is a sequence, one shorter. *)
LEMMA CutSeq ==
    ASSUME NEW L, NEW s \in Seq(L), NEW k \in 1..Len(s)
    PROVE  /\ CutAt(s, k) \in Seq(L) /\ Len(CutAt(s, k)) = Len(s) - 1
           /\ \A i \in 1..(Len(s) - 1) : CutAt(s, k)[i] = IF i < k THEN s[i] ELSE s[i + 1]
<1>1. Len(s) \in Nat /\ Len(s) - 1 \in Nat /\ \A i \in 1..Len(s) : s[i] \in L
  OBVIOUS
<1>2. \A i \in 1..(Len(s) - 1) : i \in 1..Len(s) /\ i + 1 \in 1..Len(s)
  BY <1>1
<1>3. CutAt(s, k) \in [1..(Len(s) - 1) -> L]
  BY <1>1, <1>2 DEF CutAt
<1>4. CutAt(s, k) \in Seq(L)
  BY <1>1, <1>3, SeqDef
<1>5. Len(CutAt(s, k)) = Len(s) - 1
  <2>1. DOMAIN CutAt(s, k) = 1..(Len(s) - 1)
    BY DEF CutAt
  <2> QED
    BY <1>1, <1>4, <2>1, LenProperties
<1> QED
  BY <1>4, <1>5 DEF CutAt

(* What ui_remove_child writes. *)
LEMMA RemoveWrites ==
    ASSUME NEW l \in Links, NEW p \in Addresses, NEW c \in Addresses
    PROVE  /\ ui_remove_child(l, p, c) \in Links
           /\ Removed(l, ui_remove_child(l, p, c), Addresses, p, c)
BY DEF Links, Pointers, Removed, ui_remove_child

(* The list of the parent loses the child. *)
LEMMA RemoveSpells ==
    ASSUME NEW l, NEW m, NEW L, Null \notin L, NEW p \in L,
           NEW s \in Seq(L), Spells(l, L, p, s), NEW k \in 1..Len(s), Removed(l, m, L, p, s[k])
    PROVE  Spells(m, L, p, CutAt(s, k))
<1> DEFINE n == Len(s)
           t == CutAt(s, k)
           c == s[k]
<1>1. n \in Nat /\ k \in 1..n /\ \A i \in 1..n : s[i] \in L /\ s[i] # Null /\ l.parent[s[i]] = p
  BY DEF Spells
<1>2. \A i \in 1..n : /\ l.next[s[i]] = IF i = n THEN Null ELSE s[i + 1]
                      /\ l.prev[s[i]] = IF i = 1 THEN Null ELSE s[i - 1]
  BY DEF Spells
<1>3. \A i, j \in 1..n : s[i] = s[j] => i = j
  BY DEF Spells
<1>4. l.children[p] = IF n = 0 THEN Null ELSE s[1]
  BY DEF Spells
<1>5. \A x \in L : l.parent[x] = p => \E i \in 1..n : s[i] = x
  BY DEF Spells
<1>6. t \in Seq(L) /\ Len(t) = n - 1 /\ \A i \in 1..(n - 1) : t[i] = IF i < k THEN s[i] ELSE s[i + 1]
  BY CutSeq
<1>7. /\ l.next[c] = IF k = n THEN Null ELSE s[k + 1]
      /\ l.prev[c] = IF k = 1 THEN Null ELSE s[k - 1]
  BY <1>1, <1>2
<1>8. l.prev[c] = Null <=> k = 1
  <2>1. k # 1 => k - 1 \in 1..n
    BY <1>1
  <2> QED
    BY <1>1, <1>7, <2>1
<1> HIDE DEF t, n
<1>9. m.children[p] = IF n - 1 = 0 THEN Null ELSE t[1]
  <2>1. CASE k = 1
    <3>1. m.children[p] = l.next[c]
      BY <1>8, <2>1 DEF Removed
    <3>2. n # 1 => t[1] = s[2]
      BY <1>1, <1>6, <2>1
    <3> QED
      BY <1>1, <1>7, <2>1, <3>1, <3>2
  <2>2. CASE k # 1
    <3>1. m.children[p] = l.children[p]
      BY <1>8, <2>2 DEF Removed
    <3>2. n - 1 # 0 /\ n # 0 /\ t[1] = s[1]
      BY <1>1, <1>6, <2>2
    <3> QED
      BY <1>4, <3>1, <3>2
  <2> QED
    BY <2>1, <2>2
<1>10. ASSUME NEW i \in 1..(n - 1)
       PROVE  /\ m.parent[t[i]] = p
              /\ m.next[t[i]] = IF i = n - 1 THEN Null ELSE t[i + 1]
              /\ m.prev[t[i]] = IF i = 1 THEN Null ELSE t[i - 1]
  <2>1. PICK j \in 1..n : j = IF i < k THEN i ELSE i + 1
    BY <1>1
  <2>2. t[i] = s[j] /\ j # k
    BY <1>1, <1>6, <2>1
  <2>3. s[j] \in L /\ s[j] # c /\ s[j] # Null
    BY <1>1, <1>3, <2>2
  <2>4. m.parent[t[i]] = p
    BY <1>1, <2>2, <2>3 DEF Removed
  <2>5. s[j] = l.prev[c] <=> j = k - 1
    <3>1. CASE k = 1
      BY <1>1, <1>8, <2>3, <3>1
    <3>2. CASE k # 1
      <4>1. PICK a \in 1..n : a = k - 1
        BY <1>1, <3>2
      <4>2. l.prev[c] = s[a]
        BY <1>7, <3>2, <4>1
      <4> QED
        BY <1>3, <4>1, <4>2
    <3> QED
      BY <3>1, <3>2
  <2>6. s[j] = l.next[c] <=> j = k + 1
    <3>1. CASE k = n
      BY <1>1, <1>7, <2>3, <3>1
    <3>2. CASE k # n
      <4>1. PICK a \in 1..n : a = k + 1
        BY <1>1, <3>2
      <4>2. l.next[c] = s[a]
        BY <1>7, <3>2, <4>1
      <4> QED
        BY <1>3, <4>1, <4>2
    <3> QED
      BY <3>1, <3>2
  <2>7. m.next[t[i]] = IF j = k - 1 THEN l.next[c] ELSE l.next[s[j]]
    BY <2>2, <2>3, <2>5 DEF Removed
  <2>8. m.prev[t[i]] = IF j = k + 1 THEN l.prev[c] ELSE l.prev[s[j]]
    BY <2>2, <2>3, <2>6 DEF Removed
  <2>9. /\ l.next[s[j]] = IF j = n THEN Null ELSE s[j + 1]
        /\ l.prev[s[j]] = IF j = 1 THEN Null ELSE s[j - 1]
    BY <1>2
  <2>10. m.next[t[i]] = IF i = n - 1 THEN Null ELSE t[i + 1]
    <3>1. i # n - 1 => t[i + 1] = IF i + 1 < k THEN s[i + 1] ELSE s[i + 2]
      <4>1. ASSUME i # n - 1 PROVE i + 1 \in 1..(n - 1) /\ (i + 1) + 1 = i + 2
        BY <1>1, <4>1
      <4> QED
        BY <1>6, <4>1
    <3>2. CASE j = k - 1
      <4>1. i = k - 1 /\ i + 2 = k + 1 /\ (k = n <=> i = n - 1) /\ ~(i + 1 < k)
        BY <1>1, <2>1, <3>2
      <4> QED
        BY <1>7, <2>7, <3>1, <3>2, <4>1
    <3>3. CASE j # k - 1 /\ i < k
      <4>1. j = i /\ i + 1 < k /\ j # n /\ i # n - 1
        BY <1>1, <2>1, <3>3
      <4> QED
        BY <2>7, <2>9, <3>1, <3>3, <4>1
    <3>4. CASE j # k - 1 /\ ~(i < k)
      <4>0. i \in Int /\ k \in Int /\ n \in Int /\ j = i + 1
        BY <1>1, <2>1, <3>4
      <4>1. j = i + 1 /\ ~(i + 1 < k) /\ (j = n <=> i = n - 1) /\ j + 1 = i + 2
        BY <3>4, <4>0
      <4>2. m.next[t[i]] = l.next[s[j]]
        BY <2>7, <3>4
      <4>3. i # n - 1 => t[i + 1] = s[j + 1]
        BY <3>1, <4>1
      <4> QED
        BY <2>9, <4>1, <4>2, <4>3
    <3> QED
      BY <3>2, <3>3, <3>4
  <2>11. m.prev[t[i]] = IF i = 1 THEN Null ELSE t[i - 1]
    <3>1. i # 1 => t[i - 1] = IF i - 1 < k THEN s[i - 1] ELSE s[i]
      <4>1. ASSUME i # 1 PROVE i - 1 \in 1..(n - 1) /\ (i - 1) + 1 = i
        BY <1>1, <4>1
      <4> QED
        BY <1>6, <4>1
    <3>2. CASE j = k + 1
      <4>1. i = k /\ i - 1 < k /\ i - 1 = k - 1
        BY <1>1, <2>1, <3>2
      <4> QED
        BY <1>7, <2>8, <3>1, <3>2, <4>1
    <3>3. CASE j # k + 1 /\ i < k
      <4>1. j = i /\ i - 1 < k
        BY <1>1, <2>1, <3>3
      <4> QED
        BY <2>8, <2>9, <3>1, <3>3, <4>1
    <3>4. CASE j # k + 1 /\ ~(i < k)
      <4>1. j = i + 1 /\ ~(i - 1 < k) /\ i # 1 /\ j # 1 /\ j - 1 = i
        BY <1>1, <2>1, <3>4
      <4> QED
        BY <2>8, <2>9, <3>1, <3>4, <4>1
    <3> QED
      BY <3>2, <3>3, <3>4
  <2> QED
    BY <2>4, <2>10, <2>11
<1>11. ASSUME NEW i \in 1..(n - 1), NEW j \in 1..(n - 1), t[i] = t[j] PROVE i = j
  <2>1. PICK a \in 1..n : a = IF i < k THEN i ELSE i + 1
    BY <1>1
  <2>2. PICK b \in 1..n : b = IF j < k THEN j ELSE j + 1
    BY <1>1
  <2>3. t[i] = s[a] /\ t[j] = s[b]
    BY <1>6, <2>1, <2>2
  <2>4. a = b
    BY <1>3, <1>11, <2>3
  <2> QED
    BY <1>1, <2>1, <2>2, <2>4
<1>12. ASSUME NEW x \in L, m.parent[x] = p PROVE \E i \in 1..(n - 1) : t[i] = x
  <2>1. x # c /\ l.parent[x] = p
    BY <1>12 DEF Removed
  <2>2. PICK j \in 1..n : s[j] = x
    BY <1>5, <2>1
  <2>3. j # k
    BY <2>1, <2>2
  <2>4. PICK i \in 1..(n - 1) : i = IF j < k THEN j ELSE j - 1
    BY <1>1, <2>3
  <2>5. j = IF i < k THEN i ELSE i + 1
    BY <1>1, <2>3, <2>4
  <2>6. t[i] = x
    BY <1>6, <2>2, <2>5
  <2> QED
    BY <2>6
<1> QED
  BY <1>6, <1>9, <1>10, <1>11, <1>12 DEF Spells, t

(* The lists of the other widgets stay. *)
LEMMA RemoveOtherSpells ==
    ASSUME NEW l, NEW m, NEW L, Null \notin L, NEW p \in L, NEW c \in L, l.parent[c] = p,
           Removed(l, m, L, p, c),
           l.prev[c] # Null => l.parent[l.prev[c]] = p,
           l.next[c] # Null => l.parent[l.next[c]] = p,
           NEW q \in L, q # p, NEW s \in Seq(L), Spells(l, L, q, s)
    PROVE  Spells(m, L, q, s)
<1>1. /\ Len(s) \in Nat /\ \A i \in 1..Len(s) : s[i] \in L /\ s[i] # Null /\ l.parent[s[i]] = q
      /\ q # Null
  BY DEF Spells
<1>2. \A i \in 1..Len(s) : s[i] # c /\ s[i] # l.prev[c] /\ s[i] # l.next[c]
  BY <1>1
<1>3. m.children[q] = IF Len(s) = 0 THEN Null ELSE s[1]
  BY DEF Spells, Removed
<1>4. \A i \in 1..Len(s) : /\ m.parent[s[i]] = l.parent[s[i]] /\ m.next[s[i]] = l.next[s[i]]
                           /\ m.prev[s[i]] = l.prev[s[i]]
  BY <1>1, <1>2 DEF Removed
<1>5. \A i \in 1..Len(s) : /\ m.parent[s[i]] = q
                           /\ m.next[s[i]] = IF i = Len(s) THEN Null ELSE s[i + 1]
                           /\ m.prev[s[i]] = IF i = 1 THEN Null ELSE s[i - 1]
  BY <1>4 DEF Spells
<1>6. \A x \in L : m.parent[x] = q => l.parent[x] = q
  BY <1>1 DEF Removed
<1>7. \A x \in L : m.parent[x] = q => \E i \in 1..Len(s) : s[i] = x
  BY <1>6 DEF Spells
<1>8. \A i, j \in 1..Len(s) : s[i] = s[j] => i = j
  BY DEF Spells
<1> QED
  BY <1>3, <1>5, <1>7, <1>8 DEF Spells

(* The links of a widget in a forest. *)
Linked(l, L, x) ==
    /\ l.parent[x] \in L \cup {Null} /\ l.children[x] \in L \cup {Null}
    /\ l.next[x] \in L \cup {Null} /\ l.prev[x] \in L \cup {Null}
    /\ l.next[x] # Null => l.prev[l.next[x]] = x /\ l.parent[l.next[x]] = l.parent[x]
    /\ l.prev[x] # Null => l.next[l.prev[x]] = x /\ l.parent[l.prev[x]] = l.parent[x]
    /\ l.parent[x] = Null => l.next[x] = Null /\ l.prev[x] = Null
    /\ l.parent[x] # Null /\ l.prev[x] = Null => l.children[l.parent[x]] = x
    /\ l.children[x] # Null => l.parent[l.children[x]] = x

(* In a forest both directions agree. *)
LEMMA ForestLinked ==
    ASSUME NEW l, NEW L, Forest(l, L), NEW x \in L
    PROVE  Linked(l, L, x)
<1>1. Null \notin L /\ l.parent[x] \in L \cup {Null}
  BY DEF Forest, UpTyped
<1>2. l.children[x] \in L \cup {Null} /\ (l.children[x] # Null => l.parent[l.children[x]] = x)
  <2>1. PICK s \in Seq(L) : Spells(l, L, x, s)
    BY DEF Forest
  <2> QED
    BY <2>1 DEF Spells
<1>3. CASE l.parent[x] = Null
  <2>1. l.next[x] = Null /\ l.prev[x] = Null
    BY <1>3 DEF Forest
  <2> QED
    BY <1>2, <1>3, <2>1 DEF Linked
<1>4. CASE l.parent[x] # Null
  <2> DEFINE p == l.parent[x]
  <2>1. PICK s \in Seq(L) : Spells(l, L, p, s)
    BY <1>1, <1>4 DEF Forest
  <2>2. PICK i \in 1..Len(s) : s[i] = x
    BY <2>1 DEF Spells
  <2>3. Len(s) \in Nat /\ \A j \in 1..Len(s) : s[j] \in L /\ s[j] # Null /\ l.parent[s[j]] = p
    BY <1>1, <2>1 DEF Spells
  <2>4. \A j \in 1..Len(s) : /\ l.next[s[j]] = IF j = Len(s) THEN Null ELSE s[j + 1]
                             /\ l.prev[s[j]] = IF j = 1 THEN Null ELSE s[j - 1]
    BY <2>1 DEF Spells
  <2>5. l.children[p] = IF Len(s) = 0 THEN Null ELSE s[1]
    BY <2>1 DEF Spells
  <2> HIDE DEF p
  <2>6. /\ l.next[x] \in L \cup {Null}
        /\ l.next[x] # Null => l.prev[l.next[x]] = x /\ l.parent[l.next[x]] = p
    <3>1. CASE i = Len(s)
      BY <2>2, <2>4, <3>1
    <3>2. CASE i # Len(s)
      <4>1. PICK j \in 1..Len(s) : j = i + 1
        BY <2>3, <3>2
      <4>2. j # 1 /\ j - 1 = i /\ l.next[x] = s[j]
        BY <2>2, <2>4, <3>2, <4>1
      <4>3. l.prev[s[j]] = s[i]
        BY <2>4, <4>2
      <4> QED
        BY <2>2, <2>3, <4>2, <4>3
    <3> QED
      BY <3>1, <3>2
  <2>7. /\ l.prev[x] \in L \cup {Null}
        /\ l.prev[x] # Null => l.next[l.prev[x]] = x /\ l.parent[l.prev[x]] = p
        /\ l.prev[x] = Null => l.children[p] = x
    <3>1. CASE i = 1
      <4>1. l.prev[x] = Null /\ Len(s) # 0
        BY <2>2, <2>3, <2>4, <3>1
      <4> QED
        BY <2>2, <2>5, <3>1, <4>1
    <3>2. CASE i # 1
      <4>1. PICK j \in 1..Len(s) : j = i - 1
        BY <2>3, <3>2
      <4>2. j # Len(s) /\ j + 1 = i /\ l.prev[x] = s[j]
        BY <2>2, <2>3, <2>4, <3>2, <4>1
      <4>3. l.next[s[j]] = s[i]
        BY <2>4, <4>2
      <4> QED
        BY <2>2, <2>3, <4>2, <4>3
    <3> QED
      BY <3>1, <3>2
  <2>8. p \in L \cup {Null} /\ p # Null
    BY <1>1, <1>4 DEF p
  <2> QED
    BY <1>2, <2>6, <2>7, <2>8 DEF Linked, p
<1> QED
  BY <1>3, <1>4

(* ui_remove_child of a child of its parent keeps the forest. *)
LEMMA RemoveForest ==
    ASSUME NEW l, NEW L, Forest(l, L), NEW c \in L, l.parent[c] # Null
    PROVE  LET p == l.parent[c]
               m == ui_remove_child(l, p, c)
           IN /\ Forest(m, L)
              /\ \A x \in L : m.parent[x] = IF x = c THEN Null ELSE l.parent[x]
              /\ \A q \in L : \A s \in Seq(L) :
                    Spells(l, L, q, s) /\ q # p => Spells(m, L, q, s)
              /\ \A s \in Seq(L) : \A k \in 1..Len(s) :
                    Spells(l, L, p, s) /\ s[k] = c => Spells(m, L, p, CutAt(s, k))
<1> DEFINE p == l.parent[c]
           m == ui_remove_child(l, p, c)
<1>1. /\ l \in Links /\ L \subseteq Addresses /\ UpTyped(l.parent, L) /\ Null \notin L
      /\ p \in L
  BY DEF Forest, UpTyped
<1>2. m \in Links /\ Removed(l, m, L, p, c)
  <2>1. p \in Addresses /\ c \in Addresses
    BY <1>1
  <2> HIDE DEF p
  <2> QED
    BY <1>1, <2>1, RemoveWrites DEF Removed
<1> HIDE DEF m
<1>3. /\ l.prev[c] # Null => l.prev[c] \in L /\ l.parent[l.prev[c]] = p
      /\ l.next[c] # Null => l.next[c] \in L /\ l.parent[l.next[c]] = p
  BY ForestLinked DEF Linked
<1>4. l.parent[c] = p
  OBVIOUS
<1> HIDE DEF p
<1>5. ASSUME NEW q \in L, NEW s \in Seq(L), Spells(l, L, q, s), q # p
      PROVE  Spells(m, L, q, s)
  BY <1>1, <1>2, <1>3, <1>4, <1>5, RemoveOtherSpells
<1>6. ASSUME NEW s \in Seq(L), NEW k \in 1..Len(s), Spells(l, L, p, s), s[k] = c
      PROVE  CutAt(s, k) \in Seq(L) /\ Spells(m, L, p, CutAt(s, k))
  <2>1. Removed(l, m, L, p, s[k])
    BY <1>2, <1>6
  <2>2. CutAt(s, k) \in Seq(L)
    BY CutSeq
  <2> QED
    BY <1>1, <1>6, <2>1, <2>2, RemoveSpells
<1>7. ASSUME NEW q \in L PROVE \E s \in Seq(L) : Spells(m, L, q, s)
  <2>1. PICK s \in Seq(L) : Spells(l, L, q, s)
    BY DEF Forest
  <2>2. CASE q # p
    BY <1>5, <2>1, <2>2
  <2>3. CASE q = p
    <3>1. PICK k \in 1..Len(s) : s[k] = c
      BY <1>4, <2>1, <2>3 DEF Spells
    <3> QED
      BY <1>6, <2>1, <2>3, <3>1
  <2> QED
    BY <2>2, <2>3
<1>8. \A x \in L : m.parent[x] = IF x = c THEN Null ELSE l.parent[x]
  BY <1>2 DEF Removed
<1>9. UpTyped(m.parent, L)
  BY <1>1, <1>8 DEF UpTyped
<1>10. Root \in L /\ m.parent[Root] = Null
  BY <1>8 DEF Forest
<1>11. ASSUME NEW x \in L, m.parent[x] = Null PROVE m.next[x] = Null /\ m.prev[x] = Null
  <2>1. CASE x = c
    BY <1>2, <2>1 DEF Removed
  <2>2. CASE x # c
    <3>1. l.parent[x] = Null /\ p # Null
      BY <1>1, <1>8, <1>11, <2>2
    <3>2. l.next[x] = Null /\ l.prev[x] = Null
      BY <3>1 DEF Forest
    <3>3. x # l.prev[c] /\ x # l.next[c]
      BY <1>1, <1>3, <3>1
    <3> QED
      BY <1>2, <2>2, <3>2, <3>3 DEF Removed
  <2> QED
    BY <2>1, <2>2
<1>12. ASSUME NEW x \in L PROVE x \notin Anc(m.parent, L, m.parent[x])
  <2>1. CASE x = c
    BY <1>8, <1>9, <2>1, AncNull
  <2>2. CASE x # c
    <3> DEFINE P == l.parent
               Q == m.parent
               q == P[x]
    <3>1. Q[x] = q /\ q \in L \cup {Null} /\ x \notin Anc(P, L, q) /\ UpTyped(P, L)
      BY <1>1, <1>8, <2>2 DEF UpTyped, Forest
    <3>2. \A y \in L : Q[y] = IF y = c THEN Null ELSE P[y]
      BY <1>8
    <3> HIDE DEF P, Q, q
    <3>3. Anc(Q, L, q) \subseteq Anc(P, L, q)
      BY <3>1, <3>2, AncCut
    <3> QED
      BY <3>1, <3>3 DEF Q
  <2> QED
    BY <2>1, <2>2
<1>13. Forest(m, L)
  BY <1>1, <1>2, <1>7, <1>9, <1>10, <1>11, <1>12 DEF Forest
<1> QED
  BY <1>5, <1>6, <1>8, <1>13 DEF m, p

-----------------------------------------------------------------------------
(* The list that next leads through *)

(* A non-empty set of natural numbers has a least element. *)
LEMMA LeastNat ==
    ASSUME NEW T \in SUBSET Nat, T # {}
    PROVE  \E x \in T : \A y \in T : x <= y
<1> DEFINE R == {ss \in Nat \X Nat : ss[1] < ss[2]}
<1>1. IsWellFoundedOn(R, Nat)
  BY NatLessThanWellFounded DEF OpToRel
<1>2. ASSUME NEW x \in Nat, NEW y \in Nat, y < x PROVE <<y, x>> \in R
  <2>1. <<y, x>> \in Nat \X Nat /\ <<y, x>>[1] < <<y, x>>[2]
    BY <1>2
  <2> QED
    BY <2>1, Zenon
<1> HIDE DEF R
<1>3. PICK x \in T : \A y \in T : ~ (<<y, x>> \in R)
  BY <1>1, WFMin
<1>4. ASSUME NEW y \in T PROVE x <= y
  <2>1. x \in Nat /\ y \in Nat
    OBVIOUS
  <2>2. ~(y < x)
    <3>1. SUFFICES ASSUME y < x PROVE FALSE
      OBVIOUS
    <3>2. <<y, x>> \in R
      BY <1>2, <2>1, <3>1
    <3>3. ~(<<y, x>> \in R)
      BY <1>3
    <3> QED
      BY <3>2, <3>3, Zenon
  <2> QED
    BY <2>1, <2>2
<1> QED
  BY <1>4

(* Induction, for a set of numbers. *)
LEMMA NatSetInduction ==
    ASSUME NEW S \in SUBSET Nat, 0 \in S, \A n \in S : n + 1 \in S
    PROVE  S = Nat
<1> SUFFICES ASSUME S # Nat PROVE FALSE
  OBVIOUS
<1>1. PICK x \in Nat \ S : \A y \in Nat \ S : x <= y
  BY LeastNat
<1>2. x # 0 /\ x - 1 \in Nat /\ x - 1 \in S /\ (x - 1) + 1 = x
  BY <1>1
<1> QED
  BY <1>1, <1>2

(* The size of an interval, also of an empty one. *)
LEMMA IntervalSize ==
    ASSUME NEW a \in Int, NEW b \in Int, a <= b + 1
    PROVE  IsFiniteSet(a..b) /\ Cardinality(a..b) = b - a + 1
<1>1. IsFiniteSet(a..b) /\ Cardinality(a..b) = IF a > b THEN 0 ELSE b - a + 1
  BY FS_Interval
<1>2. a > b => b - a + 1 = 0
  OBVIOUS
<1> QED
  BY <1>1, <1>2

(* A list without repetition is not longer than there are addresses. *)
LEMMA ListLength ==
    ASSUME NEW s \in Seq(Addresses), \A i, j \in 1..Len(s) : s[i] = s[j] => i = j
    PROVE  Cardinality(Addresses) \in Nat /\ Len(s) \in Nat /\ Len(s) <= Cardinality(Addresses)
<1>1. IsFiniteSet(Addresses) /\ Cardinality(Addresses) \in Nat
  BY WidgetsAssumption, FS_CardinalityType
<1>2. Len(s) \in Nat /\ s \in [1..Len(s) -> Addresses]
  OBVIOUS
<1>3. IsFiniteSet(1..Len(s)) /\ Cardinality(1..Len(s)) = Len(s)
  <2>1. 1 \in Int /\ Len(s) \in Int /\ 1 <= Len(s) + 1 /\ Len(s) - 1 + 1 = Len(s)
    BY <1>2
  <2>2. IsFiniteSet(1..Len(s)) /\ Cardinality(1..Len(s)) = Len(s) - 1 + 1
    BY <2>1, IntervalSize
  <2> QED
    BY <2>1, <2>2
<1>4. ASSUME Cardinality(Addresses) < Len(s) PROVE FALSE
  <2>1. \E x, y \in 1..Len(s) : x # y /\ s[x] = s[y]
    BY <1>1, <1>2, <1>3, <1>4, FS_PigeonHole
  <2> QED
    BY <2>1
<1> QED
  BY <1>1, <1>2, <1>4

(* Following next from the first child meets the list that the links spell. *)
LEMMA ListSpelled ==
    ASSUME NEW l, NEW L \in SUBSET Addresses, NEW p, NEW s \in Seq(L), Spells(l, L, p, s)
    PROVE  List(l, p) = s
<1> DEFINE N == Cardinality(Addresses)
           first == l.children[p]
           P(f) == f = [i \in 0..N |-> IF i = 0 THEN first
                                       ELSE IF f[i - 1] = Null THEN Null ELSE l.next[f[i - 1]]]
           at == CHOOSE f : P(f)
           h == [i \in 0..N |-> IF i < Len(s) THEN s[i + 1] ELSE Null]
           n == Len(s)
<1>1. /\ N \in Nat /\ n \in Nat /\ n <= N
      /\ \A i \in 1..n : s[i] # Null
  <2>1. s \in Seq(Addresses) /\ \A i, j \in 1..Len(s) : s[i] = s[j] => i = j
    BY DEF Spells
  <2>2. \A i \in 1..n : s[i] \in Addresses
    BY <2>1
  <2> QED
    BY <2>1, <2>2, WidgetsAssumption, ListLength
<1>2. /\ first = IF n = 0 THEN Null ELSE s[1]
      /\ \A i \in 1..n : l.next[s[i]] = IF i = n THEN Null ELSE s[i + 1]
  BY DEF Spells
<1> HIDE DEF N
<1>3. P(h)
  <2>1. ASSUME NEW i \in 0..N
        PROVE  h[i] = IF i = 0 THEN first
                      ELSE IF h[i - 1] = Null THEN Null ELSE l.next[h[i - 1]]
    <3>1. CASE i = 0
      BY <1>1, <1>2, <3>1
    <3>2. CASE i # 0 /\ i - 1 < n
      <4>1. i - 1 \in 0..N /\ (i - 1) + 1 = i /\ i \in 1..n
        BY <1>1, <3>2
      <4>2. h[i - 1] = s[i] /\ s[i] # Null
        BY <1>1, <3>2, <4>1
      <4>3. l.next[s[i]] = IF i = n THEN Null ELSE s[i + 1]
        BY <1>2, <4>1
      <4>4. h[i] = IF i = n THEN Null ELSE s[i + 1]
        BY <1>1, <3>2, <4>1
      <4> HIDE DEF h
      <4> QED
        BY <3>2, <4>2, <4>3, <4>4
    <3>3. CASE i # 0 /\ ~(i - 1 < n)
      <4>1. i - 1 \in 0..N /\ ~(i < n)
        BY <1>1, <3>3
      <4>2. h[i - 1] = Null /\ h[i] = Null
        BY <3>3, <4>1
      <4> HIDE DEF h
      <4> QED
        BY <3>3, <4>2
    <3> QED
      BY <3>1, <3>2, <3>3
  <2>2. h = [i \in 0..N |-> h[i]]
    OBVIOUS
  <2> HIDE DEF h
  <2> QED
    BY <2>1, <2>2
<1>4. P(at)
  <2> HIDE DEF P
  <2> QED
    BY <1>3
<1> HIDE DEF at, h
<1>5. at = h
  <2> DEFINE S == {i \in Nat : i <= N => at[i] = h[i]}
  <2>1. 0 \in S
    BY <1>1, <1>3, <1>4
  <2>2. ASSUME NEW i \in S PROVE i + 1 \in S
    <3> SUFFICES ASSUME i + 1 <= N PROVE at[i + 1] = h[i + 1]
      OBVIOUS
    <3>1. i \in Nat /\ i + 1 \in 0..N /\ i + 1 # 0 /\ (i + 1) - 1 = i /\ i <= N
      BY <1>1
    <3>2. at[i] = h[i]
      BY <3>1
    <3>3. at[i + 1] = IF at[i] = Null THEN Null ELSE l.next[at[i]]
      BY <1>4, <3>1
    <3>4. h[i + 1] = IF h[i] = Null THEN Null ELSE l.next[h[i]]
      BY <1>3, <3>1
    <3> QED
      BY <3>2, <3>3, <3>4
  <2>3. S = Nat
    <3> HIDE DEF S
    <3>1. S \in SUBSET Nat
      BY DEF S
    <3> QED
      BY <2>1, <2>2, <3>1, NatSetInduction
  <2>4. \A i \in 0..N : at[i] = h[i]
    BY <1>1, <2>3
  <2>5. at = [i \in 0..N |-> at[i]] /\ h = [i \in 0..N |-> h[i]]
    BY <1>3, <1>4
  <2> QED
    BY <2>4, <2>5
<1>6. DOMAIN at = 0..N
  BY <1>4
<1>7. List(l, p) = [i \in 1..Cardinality({j \in DOMAIN at : at[j] # Null}) |-> at[i - 1]]
  BY DEF List, at, N
<1>8. {j \in 0..N : h[j] # Null} = 0..(n - 1)
  BY <1>1 DEF h
<1>9. Cardinality(0..(n - 1)) = n
  <2>1. 0 \in Int /\ n - 1 \in Int /\ 0 <= (n - 1) + 1 /\ (n - 1) - 0 + 1 = n
    BY <1>1
  <2> HIDE DEF n
  <2>2. Cardinality(0..(n - 1)) = (n - 1) - 0 + 1
    BY <2>1, IntervalSize
  <2> QED
    BY <2>1, <2>2
<1>10. List(l, p) = [i \in 1..n |-> h[i - 1]]
  BY <1>5, <1>6, <1>7, <1>8, <1>9
<1>11. \A i \in 1..n : h[i - 1] = s[i]
  BY <1>1 DEF h
<1>12. s = [i \in 1..n |-> s[i]]
  OBVIOUS
<1> QED
  BY <1>10, <1>11, <1>12

-----------------------------------------------------------------------------
(* Positions *)

XSum(f, D) == MapThenSumSet(LAMBDA a : f[a].x, D)
YSum(f, D) == MapThenSumSet(LAMBDA a : f[a].y, D)

(* Nothing adds up to nothing. *)
LEMMA SumOfNone ==
    ASSUME NEW f
    PROVE  XSum(f, {}) = 0 /\ YSum(f, {}) = 0
<1> DEFINE pick(s) == CHOOSE x \in s : TRUE
           F(g) == [s \in SUBSET {} |-> IF s = {} THEN 0 ELSE f[pick(s)].x + g[s \ {pick(s)}]]
           G(g) == [s \in SUBSET {} |-> IF s = {} THEN 0 ELSE f[pick(s)].y + g[s \ {pick(s)}]]
           z == [s \in SUBSET {} |-> 0]
           it == CHOOSE g : g = F(g)
           jt == CHOOSE g : g = G(g)
<1>1. \A s \in SUBSET {} : s = {}
  OBVIOUS
<1>2. z = F(z) /\ z = G(z)
  BY <1>1
<1>3. it = F(it) /\ jt = G(jt)
  <2> HIDE DEF z, F, G
  <2> QED
    BY <1>2
<1>4. it[{}] = 0 /\ jt[{}] = 0
  <2> HIDE DEF it, jt
  <2> QED
    BY <1>3
<1>5. XSum(f, {}) = it[{}]
  BY DEF XSum, MapThenSumSet, MapThenFoldSet, it, pick
<1>6. YSum(f, {}) = jt[{}]
  BY DEF YSum, MapThenSumSet, MapThenFoldSet, jt, pick
<1> QED
  BY <1>4, <1>5, <1>6

(* Without ancestors a widget is where its bounds say. *)
LEMMA ShiftedByNone ==
    ASSUME NEW r \in ui_rect_t, NEW f
    PROVE  Shifted(r, Restrict(f, {})) = r
<1> DEFINE g == Restrict(f, {})
<1>1. DOMAIN g = {}
  BY DEF Restrict
<1> HIDE DEF g
<1>2. Shifted(r, g) = [r EXCEPT !.x = (r.x + 0) % Uint32, !.y = (r.y + 0) % Uint32]
  <2>1. Shifted(r, g) = [r EXCEPT !.x = (r.x + XSum(g, DOMAIN g)) % Uint32,
                                  !.y = (r.y + YSum(g, DOMAIN g)) % Uint32]
    BY DEF Shifted, XSum, YSum
  <2>2. XSum(g, {}) = 0 /\ YSum(g, {}) = 0
    BY SumOfNone
  <2> QED
    BY <1>1, <2>1, <2>2
<1>3. (r.x + 0) % Uint32 = r.x /\ (r.y + 0) % Uint32 = r.y
  <2>1. Uint32 \in Nat \ {0} /\ r.x \in 0..(Uint32 - 1) /\ r.y \in 0..(Uint32 - 1)
    BY WidgetsAssumption DEF ui_rect_t
  <2> QED
    BY <2>1
<1>4. [r EXCEPT !.x = r.x, !.y = r.y] = r
  BY DEF ui_rect_t
<1> QED
  BY <1>2, <1>3, <1>4 DEF g

-----------------------------------------------------------------------------
(* Initial states and the parts that most actions leave alone *)

(* The ancestors of the specification. *)
LEMMA AncestorsAre == \A w : Ancestors(w) = Anc(link.parent, Live, w)
BY DEF Ancestors, Anc, UpClosed

(* The same after a step. *)
LEMMA AncestorsAreNext == \A w : Ancestors(w)' = Anc(link'.parent, Live', w)
BY DEF Ancestors, Anc, UpClosed, Live

(* ui_init makes a forest of the root. *)
LEMMA WidgetInit == ui_init => WidgetInv
<1> SUFFICES ASSUME ui_init PROVE WidgetInv
  OBVIOUS
<1>1. /\ Root \in Addresses /\ Null \notin Addresses /\ Root # Null /\ Screen \in ui_rect_t
      /\ Live = {Root}
  BY WidgetsAssumption DEF ui_init, Live
<1>2. /\ link \in Links
      /\ \A x \in Addresses : /\ link.parent[x] = Null /\ link.children[x] = Null
                              /\ link.next[x] = Null /\ link.prev[x] = Null
  BY DEF ui_init, Links, Pointers
<1>3. UpTyped(link.parent, Live)
  BY <1>1, <1>2 DEF UpTyped
<1>4. Anc(link.parent, Live, Null) = {}
  BY <1>3, AncNull
<1>5. Forest(link, Live)
  <2>1. Spells(link, Live, Root, <<>>) /\ <<>> \in Seq(Live)
    BY <1>1, <1>2 DEF Spells
  <2>2. \A p \in Live : \E s \in Seq(Live) : Spells(link, Live, p, s)
    BY <1>1, <2>1
  <2> QED
    BY <1>1, <1>2, <1>3, <1>4, <2>2 DEF Forest
<1>6. DestroyInv
  <2>1. calls = <<>> /\ doomed = {} /\ moved = {}
    BY DEF ui_init
  <2> QED
    BY <2>1 DEF DestroyInv
<1>7. FocusInv
  BY DEF ui_init, FocusInv, FocusTold
<1>8. BoundsInv
  <2>1. /\ DOMAIN absolute = Live /\ DOMAIN on_event = Live
        /\ absolute[Root] = Screen /\ bounds[Root] = Screen /\ link.parent[Root] = Null
    BY <1>1, <1>2 DEF ui_init
  <2>2. absolute[Root] = Shifted(bounds[Root], Restrict(bounds, {}))
    BY <1>1, <2>1, ShiftedByNone
  <2> QED
    BY <1>1, <1>4, <2>1, <2>2 DEF BoundsInv
<1>9. EventInv
  <2>1. got = <<>> /\ target = Null /\ calls = <<>>
    BY DEF ui_init
  <2> QED
    BY <2>1 DEF EventInv
<1> QED
  BY <1>5, <1>6, <1>7, <1>8, <1>9 DEF WidgetInv

(* No event is on its way. *)
LEMMA QuietEvents ==
    ASSUME target' = Null, got' = <<>>
    PROVE  EventInv'
BY DEF EventInv

(* No widget is being destroyed. *)
LEMMA QuietDestroy ==
    ASSUME calls' = <<>>, doomed' = {}, moved' \subseteq Live'
    PROVE  DestroyInv'
<1>1. calls' \in Seq(Live') /\ Len(calls') = 0
  OBVIOUS
<1>2. \A i \in 1..Len(calls') : FALSE
  BY <1>1
<1> QED
  BY <1>1, <1>2 DEF DestroyInv

(* What a client's call finds. *)
LEMMA ClientFinds ==
    ASSUME WidgetInv, Client
    PROVE  /\ calls = <<>> /\ doomed = {} /\ target = Null /\ got' = <<>>
           /\ moved \subseteq Live /\ Forest(link, Live) /\ UpTyped(link.parent, Live)
           /\ Live \subseteq Addresses /\ Null \notin Live
BY DEF Client, WidgetInv, DestroyInv, Forest, UpTyped

(* A widget stays where its bounds say when its ancestors stay. *)
LEMMA BoundsStay ==
    ASSUME BoundsInv, NEW x \in Live \ moved,
           absolute'[x] = absolute[x], bounds'[x] = bounds[x],
           link'.parent[x] = link.parent[x],
           Anc(link'.parent, Live', link.parent[x]) = Anc(link.parent, Live, link.parent[x]),
           \A a \in Anc(link.parent, Live, link.parent[x]) : bounds'[a] = bounds[a]
    PROVE  absolute'[x] =
              Shifted(bounds'[x], Restrict(bounds', Anc(link'.parent, Live', link'.parent[x])))
<1> DEFINE A == Anc(link.parent, Live, link.parent[x])
<1>1. absolute[x] = Shifted(bounds[x], Restrict(bounds, A))
  BY DEF BoundsInv
<1>2. Restrict(bounds', A) = Restrict(bounds, A)
  BY DEF Restrict
<1>3. Anc(link'.parent, Live', link'.parent[x]) = A
  OBVIOUS
<1> HIDE DEF A
<1> QED
  BY <1>1, <1>2, <1>3

-----------------------------------------------------------------------------
(* ui_create_widget *)

(* The links after ui_create_widget. *)
Created(l, w, p) ==
    IF p = Null THEN NewWidget(l, w) ELSE ui_add_child(NewWidget(l, w), p, w)

(* The links l of L become m of M when w joins, first of p's children. *)
Joined(l, L, m, M, w, p) ==
    /\ Forest(m, M)
    /\ \A x \in M : m.parent[x] = IF x = w THEN p ELSE l.parent[x]
    /\ \A q \in L \cup {Null} : Anc(m.parent, M, q) = Anc(l.parent, L, q)
    /\ Spells(m, M, w, <<>>)
    /\ \A q \in L : \A s \in Seq(L) :
          Spells(l, L, q, s) => Spells(m, M, q, IF q = p THEN <<w>> \o s ELSE s)

(* The new widget joins the forest, first of its parent's children. *)
LEMMA CreateForest ==
    ASSUME NEW l, NEW L, Forest(l, L), NEW w \in Addresses \ L, NEW p \in L \cup {Null}
    PROVE  Joined(l, L, Created(l, w, p), L \cup {w}, w, p)
<1> DEFINE k == NewWidget(l, w)
           m == Created(l, w, p)
           M == L \cup {w}
<1>1. Root \in L /\ Null \notin L /\ L \subseteq Addresses /\ l \in Links /\ UpTyped(l.parent, L)
  BY DEF Forest, UpTyped
<1>2. /\ Forest(k, M) /\ k.parent[w] = Null /\ Spells(k, M, w, <<>>)
      /\ \A q \in L : \A s \in Seq(L) : Spells(l, L, q, s) => Spells(k, M, q, s)
      /\ \A q \in L \cup {Null} : Anc(k.parent, M, q) = Anc(l.parent, L, q)
  BY NewForest
<1>3. \A x \in M : k.parent[x] = IF x = w THEN Null ELSE l.parent[x]
  BY <1>1, NewWrites
<1> HIDE DEF k, M
<1>4. CASE p = Null
  <2>1. m = k
    BY <1>4 DEF Created, k
  <2> QED
    BY <1>1, <1>2, <1>3, <1>4, <2>1 DEF M, k, Joined
<1>5. CASE p # Null
  <2>1. m = ui_add_child(k, p, w)
    BY <1>5 DEF Created, k
  <2>2. p \in M /\ p \in L /\ w \in M \ {Root} /\ p # w
    BY <1>1, <1>5 DEF M
  <2>3. k \in Links /\ M \subseteq Addresses /\ UpTyped(k.parent, M) /\ Null \notin M
    BY <1>2 DEF Forest, UpTyped
  <2>4. \A q \in L \cup {Null} : w \notin Anc(k.parent, M, q)
    BY <1>2 DEF Anc
  <2>5. /\ Forest(m, M)
        /\ \A q \in M : \A s \in Seq(M) :
              Spells(k, M, q, s) => Spells(m, M, q, IF q = p THEN <<w>> \o s ELSE s)
    BY <1>2, <2>1, <2>2, <2>4, AddForest
  <2>6. \A x \in M : m.parent[x] = IF x = w THEN p ELSE k.parent[x]
    <3>1. Added(k, m, Addresses, p, w)
      BY <2>1, <2>2, <2>3, AddWrites
    <3> QED
      BY <2>3, <3>1 DEF Added
  <2>7. ASSUME NEW q \in L \cup {Null} PROVE Anc(m.parent, M, q) = Anc(l.parent, L, q)
    <3> DEFINE P == k.parent
               Q == m.parent
    <3>1. /\ UpTyped(P, M) /\ w \in M /\ p \in M /\ q \in M \cup {Null} /\ w \notin Anc(P, M, q)
          /\ \A x \in M : Q[x] = IF x = w THEN p ELSE P[x]
      BY <2>2, <2>3, <2>4, <2>6 DEF M
    <3> HIDE DEF P, Q, m
    <3>2. Anc(Q, M, q) = Anc(P, M, q)
      BY <3>1, AncAdd
    <3> QED
      BY <1>2, <3>2 DEF P, Q
  <2>8. Spells(m, M, w, <<>>)
    <3>1. <<>> \in Seq(M) /\ w \in M
      BY <2>2
    <3> QED
      BY <1>2, <2>2, <2>5, <3>1
  <2>9. ASSUME NEW q \in L, NEW s \in Seq(L), Spells(l, L, q, s)
        PROVE  Spells(m, M, q, IF q = p THEN <<w>> \o s ELSE s)
    <3>1. Spells(k, M, q, s)
      BY <1>2, <2>9
    <3>2. q \in M /\ s \in Seq(M)
      BY <3>1 DEF M, Spells
    <3> QED
      BY <2>5, <3>1, <3>2
  <2>10. \A x \in M : m.parent[x] = IF x = w THEN p ELSE l.parent[x]
    BY <1>3, <2>6
  <2> QED
    BY <2>5, <2>7, <2>8, <2>9, <2>10 DEF M, Joined
<1> QED
  BY <1>4, <1>5

(* The step of ui_create_widget. *)
LEMMA CreateInv ==
    ASSUME WidgetInv, NEW w \in Addresses, NEW p \in Addresses \cup {Null},
           NEW r \in ui_rect_t, NEW answer, ui_create_widget(w, p, r, answer)
    PROVE  WidgetInv'
<1>1. /\ Client /\ w \notin Live /\ p \in Live \cup {Null} /\ link' = Created(link, w, p)
      /\ bounds' = With(bounds, w, r) /\ on_event' = With(on_event, w, answer)
      /\ absolute' = With(absolute, w, IF p = Null THEN r ELSE Shifted(r, AncestorBounds(p)))
      /\ UNCHANGED <<focused, told, moved, calls, doomed, target>>
  BY DEF ui_create_widget, Created, focus, destroy
<1>2. /\ calls = <<>> /\ doomed = {} /\ target = Null /\ got' = <<>> /\ moved \subseteq Live
      /\ Forest(link, Live) /\ UpTyped(link.parent, Live) /\ Null \notin Live
  BY <1>1, ClientFinds
<1>3. Live' = Live \cup {w} /\ \A x \in Live' : bounds'[x] = IF x = w THEN r ELSE bounds[x]
  BY <1>1 DEF With, Live
<1>4. DOMAIN absolute = Live /\ DOMAIN on_event = Live /\ BoundsInv
  BY DEF WidgetInv, BoundsInv
<1>5. /\ DOMAIN absolute' = Live' /\ DOMAIN on_event' = Live'
      /\ \A x \in Live' : absolute'[x] = IF x = w
                             THEN IF p = Null THEN r ELSE Shifted(r, AncestorBounds(p))
                             ELSE absolute[x]
  BY <1>1, <1>3, <1>4 DEF With
<1>6. /\ Forest(link', Live')
      /\ \A x \in Live' : link'.parent[x] = IF x = w THEN p ELSE link.parent[x]
      /\ \A q \in Live \cup {Null} : Anc(link'.parent, Live', q) = Anc(link.parent, Live, q)
  <2>1. w \in Addresses \ Live /\ p \in Live \cup {Null} /\ Forest(link, Live)
    BY <1>1, <1>2
  <2>2. Joined(link, Live, Created(link, w, p), Live \cup {w}, w, p)
    BY <2>1, CreateForest
  <2> QED
    BY <1>1, <1>3, <2>2 DEF Joined
<1>7. DestroyInv'
  <2>1. calls' = <<>> /\ doomed' = {} /\ moved' \subseteq Live'
    BY <1>1, <1>2, <1>3
  <2> QED
    BY <2>1, QuietDestroy
<1>8. FocusInv'
  BY <1>1, <1>3 DEF WidgetInv, FocusInv, FocusTold
<1>9. EventInv'
  BY <1>1, <1>2, QuietEvents
<1>10. ASSUME NEW x \in Live' \ moved'
       PROVE  absolute'[x] =
                 Shifted(bounds'[x], Restrict(bounds', Anc(link'.parent, Live', link'.parent[x])))
  <2>1. CASE x # w
    <3>1. /\ x \in Live \ moved /\ absolute'[x] = absolute[x] /\ bounds'[x] = bounds[x]
          /\ link'.parent[x] = link.parent[x] /\ link.parent[x] \in Live \cup {Null}
      BY <1>1, <1>2, <1>3, <1>5, <1>6, <2>1 DEF UpTyped
    <3>2. Anc(link'.parent, Live', link.parent[x]) = Anc(link.parent, Live, link.parent[x])
      BY <1>6, <3>1
    <3>3. \A a \in Anc(link.parent, Live, link.parent[x]) : bounds'[a] = bounds[a]
      BY <1>1, <1>3 DEF Anc
    <3> QED
      BY <1>4, <3>1, <3>2, <3>3, BoundsStay
  <2>2. CASE x = w
    <3> DEFINE A == Anc(link.parent, Live, p)
    <3>1. Anc(link'.parent, Live', link'.parent[x]) = A
      BY <1>1, <1>6, <2>2
    <3>2. Restrict(bounds', A) = Restrict(bounds, A)
      <4>1. \A a \in A : bounds'[a] = bounds[a]
        BY <1>1, <1>3 DEF Anc
      <4> QED
        BY <4>1 DEF Restrict
    <3>3. AncestorBounds(p) = Restrict(bounds, A)
      BY AncestorsAre DEF AncestorBounds
    <3>4. bounds'[x] = r /\ absolute'[x] = IF p = Null THEN r ELSE Shifted(r, Restrict(bounds, A))
      BY <1>3, <1>5, <2>2, <3>3
    <3>5. p = Null => Shifted(r, Restrict(bounds, A)) = r
      BY <1>2, AncNull, ShiftedByNone
    <3> HIDE DEF A
    <3> QED
      BY <3>1, <3>2, <3>4, <3>5
  <2> QED
    BY <2>1, <2>2
<1>11. BoundsInv'
  BY <1>5, <1>10 DEF BoundsInv
<1> QED
  BY <1>6, <1>7, <1>8, <1>9, <1>11 DEF WidgetInv

-----------------------------------------------------------------------------
(* ui_add_child and ui_remove_child of a client *)

(* Below is what the ancestors say. *)
LEMMA BelowIs ==
    \A w, u : u \in Below(w) <=> u \in Live /\ w \in Anc(link.parent, Live, u)
BY AncestorsAre DEF Below

(* The links m keep the parent of x and all its ancestors. *)
Stays(l, m, L, x) ==
    /\ m.parent[x] = l.parent[x]
    /\ Anc(m.parent, L, x) = Anc(l.parent, L, x)
    /\ Anc(m.parent, L, l.parent[x]) = Anc(l.parent, L, l.parent[x])

(* The links l of L become m when c gets the parent p. *)
Gained(l, L, m, p, c) ==
    /\ Forest(m, L)
    /\ \A q \in L : \A s \in Seq(L) :
          Spells(l, L, q, s) => Spells(m, L, q, IF q = p THEN <<c>> \o s ELSE s)
    /\ \A x \in L : c \notin Anc(l.parent, L, x) => Stays(l, m, L, x)

(* A widget that is not below another one has a parent that is not. *)
LEMMA NotBelow ==
    ASSUME NEW P, NEW L, UpTyped(P, L), NEW c, NEW x \in L, c \notin Anc(P, L, x)
    PROVE  /\ x # c /\ P[x] \in L \cup {Null} /\ c \notin Anc(P, L, P[x])
<1>1. Anc(P, L, x) = {x} \cup Anc(P, L, P[x])
  BY AncUnfold
<1> QED
  BY <1>1 DEF UpTyped

(* ui_add_child keeps all but what is below the child in its place. *)
LEMMA GainForest ==
    ASSUME NEW l, NEW L, Forest(l, L), NEW p \in L, NEW c \in L \ {Root},
           l.parent[c] = Null, c \notin Anc(l.parent, L, p)
    PROVE  Gained(l, L, ui_add_child(l, p, c), p, c)
<1> DEFINE m == ui_add_child(l, p, c)
<1>1. /\ Forest(m, L)
      /\ \A q \in L : \A s \in Seq(L) :
            Spells(l, L, q, s) => Spells(m, L, q, IF q = p THEN <<c>> \o s ELSE s)
  BY AddForest
<1>2. l \in Links /\ L \subseteq Addresses /\ UpTyped(l.parent, L) /\ Null \notin L
  BY DEF Forest, UpTyped
<1>3. Added(l, m, Addresses, p, c)
  <2>1. p \in Addresses /\ c \in Addresses
    BY <1>2
  <2> QED
    BY <1>2, <2>1, AddWrites
<1>4. \A x \in L : m.parent[x] = IF x = c THEN p ELSE l.parent[x]
  BY <1>2, <1>3 DEF Added
<1> HIDE DEF m
<1>5. ASSUME NEW x \in L, c \notin Anc(l.parent, L, x) PROVE Stays(l, m, L, x)
  <2> DEFINE P == l.parent
             Q == m.parent
  <2>1. /\ UpTyped(P, L) /\ c \in L /\ \A y \in L : Q[y] = IF y = c THEN p ELSE P[y]
        /\ c \notin Anc(P, L, x)
    BY <1>2, <1>4, <1>5
  <2> HIDE DEF P, Q
  <2>2. x # c /\ P[x] \in L \cup {Null} /\ c \notin Anc(P, L, P[x])
    BY <2>1, NotBelow
  <2>3. Anc(Q, L, x) = Anc(P, L, x)
    BY <2>1, AncAdd
  <2>4. Anc(Q, L, P[x]) = Anc(P, L, P[x])
    BY <2>1, <2>2, AncAdd
  <2> QED
    BY <2>1, <2>2, <2>3, <2>4 DEF Stays, P, Q
<1> QED
  BY <1>1, <1>5 DEF Gained, m

(* The links after the entry of ui_destroy_widget. *)
Entered(l, c) == IF l.parent[c] = Null THEN l ELSE ui_remove_child(l, l.parent[c], c)

(* The links l of L become m when c leaves its parent. *)
Parted(l, L, m, c) ==
    /\ Forest(m, L)
    /\ \A x \in L : m.parent[x] = IF x = c THEN Null ELSE l.parent[x]
    /\ \A q \in L : \A s \in Seq(L) : Spells(l, L, q, s) =>
          /\ \A k \in 1..Len(s) : s[k] = c => Spells(m, L, q, CutAt(s, k))
          /\ (\A k \in 1..Len(s) : s[k] # c) => Spells(m, L, q, s)
    /\ \A x \in L : /\ Anc(m.parent, L, x) \subseteq Anc(l.parent, L, x)
                    /\ c \in Anc(l.parent, L, x) => c \in Anc(m.parent, L, x)
                    /\ c \notin Anc(l.parent, L, x) => Stays(l, m, L, x)

(* ui_remove_child keeps all but what is below the child in its place. *)
LEMMA PartForest ==
    ASSUME NEW l, NEW L, Forest(l, L), NEW c \in L
    PROVE  Parted(l, L, Entered(l, c), c)
<1> DEFINE m == Entered(l, c)
<1>1. UpTyped(l.parent, L) /\ Null \notin L
  BY DEF Forest, UpTyped
<1>2. /\ Forest(m, L)
      /\ \A x \in L : m.parent[x] = IF x = c THEN Null ELSE l.parent[x]
      /\ \A q \in L : \A s \in Seq(L) : Spells(l, L, q, s) =>
            /\ \A k \in 1..Len(s) : s[k] = c => Spells(m, L, q, CutAt(s, k))
            /\ (\A k \in 1..Len(s) : s[k] # c) => Spells(m, L, q, s)
  <2>1. CASE l.parent[c] = Null
    <3>1. m = l
      BY <2>1 DEF Entered
    <3>2. ASSUME NEW q \in L, NEW s \in Seq(L), Spells(l, L, q, s), NEW k \in 1..Len(s)
          PROVE  s[k] # c
      <4>1. l.parent[s[k]] = q
        BY <3>2 DEF Spells
      <4> QED
        BY <1>1, <2>1, <4>1
    <3> HIDE DEF m
    <3> QED
      BY <2>1, <3>1, <3>2
  <2>2. CASE l.parent[c] # Null
    <3> DEFINE p == l.parent[c]
    <3>1. m = ui_remove_child(l, p, c)
      BY <2>2 DEF Entered
    <3>2. /\ Forest(m, L)
          /\ \A x \in L : m.parent[x] = IF x = c THEN Null ELSE l.parent[x]
          /\ \A q \in L : \A s \in Seq(L) :
                Spells(l, L, q, s) /\ q # p => Spells(m, L, q, s)
          /\ \A s \in Seq(L) : \A k \in 1..Len(s) :
                Spells(l, L, p, s) /\ s[k] = c => Spells(m, L, p, CutAt(s, k))
      BY <2>2, <3>1, RemoveForest
    <3> HIDE DEF m
    <3>3. ASSUME NEW q \in L, NEW s \in Seq(L), Spells(l, L, q, s)
          PROVE  /\ \A k \in 1..Len(s) : s[k] = c => q = p
                 /\ (\A k \in 1..Len(s) : s[k] # c) => q # p
      BY <3>3 DEF Spells
    <3> HIDE DEF p
    <3> QED
      BY <3>2, <3>3
  <2> QED
    BY <2>1, <2>2
<1> HIDE DEF m
<1>3. ASSUME NEW x \in L
      PROVE  /\ Anc(m.parent, L, x) \subseteq Anc(l.parent, L, x)
             /\ c \in Anc(l.parent, L, x) => c \in Anc(m.parent, L, x)
             /\ c \notin Anc(l.parent, L, x) => Stays(l, m, L, x)
  <2> DEFINE P == l.parent
             Q == m.parent
  <2>1. UpTyped(P, L) /\ \A y \in L : Q[y] = IF y = c THEN Null ELSE P[y]
    BY <1>1, <1>2
  <2>2. \A y \in L : Stays(l, m, L, y) <=> /\ Q[y] = P[y]
                                           /\ Anc(Q, L, y) = Anc(P, L, y)
                                           /\ Anc(Q, L, P[y]) = Anc(P, L, P[y])
    BY DEF Stays
  <2> HIDE DEF P, Q
  <2>3. /\ Anc(Q, L, x) \subseteq Anc(P, L, x)
        /\ c \in Anc(P, L, x) => c \in Anc(Q, L, x)
        /\ c \notin Anc(P, L, x) => Anc(Q, L, x) = Anc(P, L, x)
    BY <2>1, AncCut
  <2>4. ASSUME c \notin Anc(P, L, x) PROVE Stays(l, m, L, x)
    <3>1. x # c /\ P[x] \in L \cup {Null} /\ c \notin Anc(P, L, P[x])
      BY <2>1, <2>4, NotBelow
    <3>2. Anc(Q, L, P[x]) = Anc(P, L, P[x])
      BY <2>1, <3>1, AncCut
    <3> QED
      BY <2>1, <2>2, <2>3, <2>4, <3>1, <3>2
  <2> QED
    BY <2>3, <2>4 DEF P, Q
<1> QED
  BY <1>2, <1>3 DEF Parted, m

(* Where the widgets stay, bounds say where they are. *)
LEMMA BoundsKept ==
    ASSUME BoundsInv, bounds' = bounds, on_event' = on_event, DOMAIN absolute' = DOMAIN absolute,
           \A x \in Live \ moved' : /\ x \notin moved /\ absolute'[x] = absolute[x]
                                    /\ Stays(link, link', Live, x)
    PROVE  BoundsInv'
<1>1. Live' = Live
  BY DEF Live
<1>2. ASSUME NEW x \in Live' \ moved'
      PROVE  absolute'[x] =
                Shifted(bounds'[x], Restrict(bounds', Anc(link'.parent, Live', link'.parent[x])))
  <2>1. /\ x \in Live \ moved /\ absolute'[x] = absolute[x] /\ link'.parent[x] = link.parent[x]
        /\ Anc(link'.parent, Live, link.parent[x]) = Anc(link.parent, Live, link.parent[x])
    BY <1>1, <1>2 DEF Stays
  <2>2. Anc(link'.parent, Live', link.parent[x]) = Anc(link.parent, Live, link.parent[x])
    BY <1>1, <2>1
  <2> QED
    BY <2>1, <2>2, BoundsStay
<1>3. DOMAIN absolute' = Live' /\ DOMAIN on_event' = Live'
  BY <1>1 DEF BoundsInv
<1> QED
  BY <1>2, <1>3 DEF BoundsInv

(* The step of AddChild. *)
LEMMA AddInv ==
    ASSUME WidgetInv, NEW p \in Addresses, NEW c \in Addresses, AddChild(p, c)
    PROVE  WidgetInv'
<1>1. /\ Client /\ c \in Live \ {Root} /\ link.parent[c] = Null /\ p \in Live /\ p \notin Below(c)
      /\ link' = ui_add_child(link, p, c) /\ moved' = moved \cup Below(c)
      /\ DOMAIN absolute' = DOMAIN absolute
      /\ \A x \in DOMAIN absolute : x # c => absolute'[x] = absolute[x]
      /\ UNCHANGED <<bounds, on_event, focused, told, calls, doomed, target>>
  BY DEF AddChild, focus, destroy
<1>2. /\ calls = <<>> /\ doomed = {} /\ target = Null /\ got' = <<>> /\ moved \subseteq Live
      /\ Forest(link, Live) /\ UpTyped(link.parent, Live) /\ Null \notin Live
  BY <1>1, ClientFinds
<1>3. Live' = Live
  BY <1>1 DEF Live
<1>4. c \notin Anc(link.parent, Live, p)
  BY <1>1, BelowIs
<1>5. Gained(link, Live, link', p, c)
  BY <1>1, <1>2, <1>4, GainForest
<1>6. Forest(link', Live')
  BY <1>3, <1>5 DEF Gained
<1>7. DestroyInv'
  <2>1. calls' = <<>> /\ doomed' = {} /\ moved' \subseteq Live'
    BY <1>1, <1>2, <1>3 DEF Below
  <2> QED
    BY <2>1, QuietDestroy
<1>8. FocusInv'
  BY <1>1, <1>3 DEF WidgetInv, FocusInv, FocusTold
<1>9. EventInv'
  BY <1>1, <1>2, QuietEvents
<1>10. BoundsInv'
  <2>1. BoundsInv /\ DOMAIN absolute = Live
    BY DEF WidgetInv, BoundsInv
  <2>2. ASSUME NEW x \in Live \ moved'
        PROVE  x \notin moved /\ absolute'[x] = absolute[x] /\ Stays(link, link', Live, x)
    <3>1. x \notin moved /\ c \notin Anc(link.parent, Live, x)
      BY <1>1, BelowIs
    <3>2. x # c
      BY <1>2, <3>1, NotBelow
    <3> QED
      BY <1>1, <1>5, <2>1, <3>1, <3>2 DEF Gained
  <2> QED
    BY <1>1, <2>1, <2>2, BoundsKept
<1> QED
  BY <1>6, <1>7, <1>8, <1>9, <1>10 DEF WidgetInv

(* What is not below a widget that leaves its parent keeps its bounds. *)
LEMMA PartBounds ==
    ASSUME WidgetInv, UNCHANGED places, NEW c, Parted(link, Live, link', c),
           moved \subseteq moved', \A x \in Live : c \in Anc(link.parent, Live, x) => x \in moved'
    PROVE  BoundsInv'
<1>1. UNCHANGED <<bounds, absolute, on_event>> /\ BoundsInv
  BY DEF places, WidgetInv
<1>2. \A x \in Live \ moved' : /\ x \notin moved /\ absolute'[x] = absolute[x]
                               /\ Stays(link, link', Live, x)
  BY <1>1 DEF Parted
<1> QED
  BY <1>1, <1>2, BoundsKept

(* The step of RemoveChild. *)
LEMMA RemoveInv ==
    ASSUME WidgetInv, NEW c \in Addresses, RemoveChild(c)
    PROVE  WidgetInv'
<1>1. /\ Client /\ c \in Live /\ link' = Entered(link, c) /\ moved' = moved \cup Below(c)
      /\ UNCHANGED places /\ UNCHANGED <<bounds, focused, told, calls, doomed, target>>
  BY DEF RemoveChild, places, focus, destroy, Entered
<1>2. /\ calls = <<>> /\ doomed = {} /\ target = Null /\ got' = <<>> /\ moved \subseteq Live
      /\ Forest(link, Live)
  BY <1>1, ClientFinds
<1>3. Live' = Live
  BY <1>1 DEF Live
<1>4. Parted(link, Live, link', c)
  BY <1>1, <1>2, PartForest
<1>5. Forest(link', Live')
  BY <1>3, <1>4 DEF Parted
<1>6. DestroyInv'
  <2>1. calls' = <<>> /\ doomed' = {} /\ moved' \subseteq Live'
    BY <1>1, <1>2, <1>3 DEF Below
  <2> QED
    BY <2>1, QuietDestroy
<1>7. FocusInv'
  BY <1>1, <1>3 DEF WidgetInv, FocusInv, FocusTold
<1>8. EventInv'
  BY <1>1, <1>2, QuietEvents
<1>9. BoundsInv'
  <2>1. moved \subseteq moved' /\ \A x \in Live : c \in Anc(link.parent, Live, x) => x \in moved'
    BY <1>1, BelowIs
  <2> QED
    BY <1>1, <1>4, <2>1, PartBounds
<1> QED
  BY <1>5, <1>6, <1>7, <1>8, <1>9 DEF WidgetInv

-----------------------------------------------------------------------------
(* ui_destroy_widget *)

(* What is below one of the widgets of cs. *)
Doomed(P, L, cs) == {u \in L : \E i \in 1..Len(cs) : cs[i] \in Anc(P, L, u)}

(* Another call of ui_destroy_widget. *)
LEMMA OneMoreCall ==
    ASSUME NEW L, NEW cs \in Seq(L), NEW c \in L
    PROVE  /\ Append(cs, c) \in Seq(L) /\ Len(Append(cs, c)) = Len(cs) + 1
           /\ \A i \in 1..(Len(cs) + 1) : Append(cs, c)[i] = IF i = Len(cs) + 1 THEN c ELSE cs[i]
OBVIOUS

(* A widget taken out of its parent's list is doomed further on, by its    *)
(* own call.                                                               *)
LEMMA DoomedKept ==
    ASSUME NEW l, NEW L, Forest(l, L), NEW m, NEW c \in L, Parted(l, L, m, c),
           NEW cs \in Seq(L), NEW k \in 1..Len(cs), l.parent[c] = cs[k]
    PROVE  Doomed(m.parent, L, Append(cs, c)) = Doomed(l.parent, L, cs)
<1> DEFINE n == Len(cs)
           ds == Append(cs, c)
<1>1. /\ n \in Nat /\ Len(ds) = n + 1
      /\ \A i \in 1..(n + 1) : ds[i] = IF i = n + 1 THEN c ELSE cs[i]
  BY OneMoreCall
<1>2. UpTyped(l.parent, L) /\ Null \notin L /\ cs[k] \in L
  BY DEF Forest, UpTyped
<1> HIDE DEF ds
<1>3. ASSUME NEW u \in L, NEW i \in 1..(n + 1), ds[i] \in Anc(m.parent, L, u)
      PROVE  \E j \in 1..n : cs[j] \in Anc(l.parent, L, u)
  <2>1. ds[i] \in Anc(l.parent, L, u)
    BY <1>3 DEF Parted
  <2>2. CASE i # n + 1
    <3>1. i \in 1..n /\ ds[i] = cs[i]
      BY <1>1, <2>2
    <3> QED
      BY <2>1, <3>1
  <2>3. CASE i = n + 1
    <3>1. c \in Anc(l.parent, L, u)
      BY <1>1, <2>1, <2>3
    <3>2. UpClosed(l.parent, Anc(l.parent, L, u) \cup {Null}) /\ c # Null
      BY <1>2, AncClosed
    <3>3. cs[k] \in Anc(l.parent, L, u)
      BY <1>2, <3>1, <3>2 DEF UpClosed
    <3> QED
      BY <3>3
  <2> QED
    BY <2>2, <2>3
<1>4. ASSUME NEW u \in L, NEW i \in 1..n, cs[i] \in Anc(l.parent, L, u)
      PROVE  \E j \in 1..(n + 1) : ds[j] \in Anc(m.parent, L, u)
  <2>1. CASE c \in Anc(l.parent, L, u)
    <3>1. c \in Anc(m.parent, L, u)
      BY <2>1 DEF Parted
    <3>2. n + 1 \in 1..(n + 1) /\ ds[n + 1] = c
      BY <1>1
    <3> QED
      BY <3>1, <3>2
  <2>2. CASE c \notin Anc(l.parent, L, u)
    <3>1. Anc(m.parent, L, u) = Anc(l.parent, L, u)
      BY <2>2 DEF Parted, Stays
    <3>2. i \in 1..(n + 1) /\ ds[i] = cs[i]
      BY <1>1
    <3> QED
      BY <1>4, <3>1, <3>2
  <2> QED
    BY <2>1, <2>2
<1>5. Doomed(m.parent, L, ds) = {u \in L : \E i \in 1..(n + 1) : ds[i] \in Anc(m.parent, L, u)}
  BY <1>1 DEF Doomed
<1>6. Doomed(l.parent, L, cs) = {u \in L : \E i \in 1..n : cs[i] \in Anc(l.parent, L, u)}
  BY DEF Doomed
<1> HIDE DEF n
<1>7. Doomed(m.parent, L, ds) = Doomed(l.parent, L, cs)
  BY <1>3, <1>4, <1>5, <1>6
<1> QED
  BY <1>7 DEF ds

(* The calls cs of ui_destroy_widget: their widgets are roots of trees.    *)
Freed(l, L, cs) ==
    /\ cs \in Seq(L)
    /\ \A i \in 1..Len(cs) : l.parent[cs[i]] = Null /\ cs[i] # Root
    /\ \A i, j \in 1..Len(cs) : cs[i] = cs[j] => i = j

(* DestroyInv by these names. *)
LEMMA DestroyIs ==
    DestroyInv <=> /\ Freed(link, Live, calls) /\ doomed = Doomed(link.parent, Live, calls)
                   /\ doomed \subseteq moved /\ moved \subseteq Live /\ focused \notin doomed
BY DEF DestroyInv, Freed, Doomed

(* The same after a step. *)
LEMMA DestroyIsNext ==
    ASSUME Freed(link', Live', calls'), doomed' = Doomed(link'.parent, Live', calls'),
           doomed' \subseteq moved', moved' \subseteq Live', focused' \notin doomed'
    PROVE  DestroyInv'
BY DEF DestroyInv, Freed, Doomed

(* Another widget that is out of its parent's list. *)
LEMMA FreedMore ==
    ASSUME NEW l, NEW L, Forest(l, L), NEW m, NEW c \in L \ {Root}, Parted(l, L, m, c),
           NEW cs, Freed(l, L, cs), \A i \in 1..Len(cs) : cs[i] # c
    PROVE  Freed(m, L, Append(cs, c))
<1> DEFINE n == Len(cs)
           ds == Append(cs, c)
<1>1. /\ n \in Nat /\ ds \in Seq(L) /\ Len(ds) = n + 1
      /\ \A i \in 1..(n + 1) : ds[i] = IF i = n + 1 THEN c ELSE cs[i]
      /\ \A i \in 1..n : cs[i] \in L
  BY OneMoreCall DEF Freed
<1>2. \A x \in L : m.parent[x] = IF x = c THEN Null ELSE l.parent[x]
  BY DEF Parted
<1> HIDE DEF ds
<1>3. ASSUME NEW i \in 1..(n + 1) PROVE m.parent[ds[i]] = Null /\ ds[i] # Root
  <2>1. i \in 1..n => l.parent[cs[i]] = Null /\ cs[i] # Root
    BY DEF Freed
  <2>2. i \in 1..n \/ i = n + 1
    BY <1>1
  <2> QED
    BY <1>1, <1>2, <2>1, <2>2
<1>4. ASSUME NEW i \in 1..(n + 1), NEW j \in 1..(n + 1), ds[i] = ds[j] PROVE i = j
  <2>1. \A a, b \in 1..n : cs[a] = cs[b] => a = b
    BY DEF Freed
  <2>2. (i \in 1..n \/ i = n + 1) /\ (j \in 1..n \/ j = n + 1)
    BY <1>1
  <2> QED
    BY <1>1, <1>4, <2>1, <2>2
<1> QED
  BY <1>1, <1>3, <1>4 DEF Freed, ds

(* The step of a client's ui_destroy_widget. *)
LEMMA DestroyStart ==
    ASSUME WidgetInv, NEW w \in Addresses, ui_destroy_widget(w)
    PROVE  WidgetInv'
<1>1. /\ Client /\ w \in Live \ {Root} /\ focused \notin Below(w) /\ link' = Entered(link, w)
      /\ calls' = Append(calls, w) /\ moved' = moved \cup Below(w) /\ doomed' = Below(w)
      /\ UNCHANGED places /\ UNCHANGED <<bounds, focused, told, target>>
  BY DEF ui_destroy_widget, Enter, places, focus, Entered
<1>2. /\ calls = <<>> /\ target = Null /\ got' = <<>> /\ moved \subseteq Live
      /\ Forest(link, Live)
  BY <1>1, ClientFinds
<1>3. Live' = Live
  BY <1>1 DEF Live
<1>4. Parted(link, Live, link', w)
  BY <1>1, <1>2, PartForest
<1>5. Forest(link', Live')
  BY <1>3, <1>4 DEF Parted
<1>6. DestroyInv'
  <2>1. calls' = <<w>> /\ calls' \in Seq(Live) /\ Len(calls') = 1 /\ calls'[1] = w
    BY <1>1, <1>2
  <2>2. link'.parent[w] = Null
    BY <1>1, <1>4 DEF Parted
  <2>3. Freed(link', Live', calls')
    BY <1>1, <1>3, <2>1, <2>2 DEF Freed
  <2>4. \A u \in Live : w \in Anc(link'.parent, Live, u) <=> w \in Anc(link.parent, Live, u)
    BY <1>4 DEF Parted
  <2>5. Doomed(link'.parent, Live, calls') = {u \in Live : w \in Anc(link'.parent, Live, u)}
    BY <2>1 DEF Doomed
  <2>6. Below(w) = {u \in Live : w \in Anc(link.parent, Live, u)}
    BY AncestorsAre DEF Below
  <2>7. doomed' = Doomed(link'.parent, Live', calls')
    BY <1>1, <1>3, <2>4, <2>5, <2>6
  <2>8. doomed' \subseteq moved' /\ moved' \subseteq Live' /\ focused' \notin doomed'
    BY <1>1, <1>2, <1>3, <2>6
  <2> QED
    BY <2>3, <2>7, <2>8, DestroyIsNext
<1>7. FocusInv'
  BY <1>1, <1>3 DEF WidgetInv, FocusInv, FocusTold
<1>8. EventInv'
  BY <1>1, <1>2, QuietEvents
<1>9. BoundsInv'
  <2>1. moved \subseteq moved' /\ \A x \in Live : w \in Anc(link.parent, Live, x) => x \in moved'
    BY <1>1, BelowIs
  <2> QED
    BY <1>1, <1>4, <2>1, PartBounds
<1> QED
  BY <1>5, <1>6, <1>7, <1>8, <1>9 DEF WidgetInv

(* The widget of the innermost call. *)
LEMMA LastCall ==
    ASSUME WidgetInv, calls # <<>>
    PROVE  /\ Len(calls) \in 1..Len(calls) /\ Last(calls) = calls[Len(calls)]
           /\ Last(calls) \in Live \ {Root} /\ link.parent[Last(calls)] = Null
           /\ Last(calls) \in doomed /\ target = Null /\ got = <<>>
<1>1. DestroyInv /\ EventInv /\ UpTyped(link.parent, Live)
  BY DEF WidgetInv, Forest
<1>2. calls \in Seq(Live)
  BY <1>1 DEF DestroyInv
<1>3. Len(calls) \in 1..Len(calls) /\ Last(calls) = calls[Len(calls)] /\ Last(calls) \in Live
  BY <1>2 DEF Last
<1>4. link.parent[Last(calls)] = Null /\ Last(calls) # Root
  BY <1>1, <1>3 DEF DestroyInv
<1>5. Last(calls) \in Anc(link.parent, Live, Last(calls))
  BY <1>1, <1>3, AncUnfold
<1>6. Last(calls) \in doomed
  BY <1>1, <1>3, <1>5 DEF DestroyInv
<1>7. target = Null /\ got = <<>>
  BY <1>1 DEF EventInv
<1> QED
  BY <1>3, <1>4, <1>6, <1>7

(* What DestroyChild does: the first child c leaves its parent. *)
LEMMA ChildLeaves ==
    ASSUME WidgetInv, DestroyChild
    PROVE  /\ Live' = Live /\ calls # <<>> /\ link.children[Last(calls)] \in Live \ {Root}
           /\ link.parent[link.children[Last(calls)]] = Last(calls)
           /\ link.children[Last(calls)] \in doomed
           /\ Parted(link, Live, link', link.children[Last(calls)])
           /\ calls' = Append(calls, link.children[Last(calls)])
           /\ UNCHANGED places /\ UNCHANGED <<focused, told, moved, doomed, target, got>>
<1> DEFINE t == Last(calls)
           c == link.children[t]
<1>1. /\ calls # <<>> /\ c # Null /\ link' = Entered(link, c) /\ calls' = Append(calls, c)
      /\ UNCHANGED places /\ UNCHANGED <<bounds, focused, told, moved, doomed, target, got>>
  BY DEF DestroyChild, Enter, Entered, places, focus, post
<1>2. t \in Live /\ t \in doomed
  BY <1>1, LastCall
<1>3. Forest(link, Live) /\ UpTyped(link.parent, Live) /\ Null \notin Live /\ link.parent[Root] = Null
  BY DEF WidgetInv, Forest, UpTyped
<1>4. c \in Live /\ link.parent[c] = t
  BY <1>1, <1>2, <1>3, ForestLinked DEF Linked
<1>5. c # Root
  BY <1>2, <1>3, <1>4
<1>6. Parted(link, Live, link', c)
  BY <1>1, <1>3, <1>4, PartForest
<1>7. c \in doomed
  <2>1. Anc(link.parent, Live, c) = {c} \cup Anc(link.parent, Live, t)
    BY <1>3, <1>4, AncUnfold
  <2>2. doomed = {u \in Live : \E i \in 1..Len(calls) : calls[i] \in Anc(link.parent, Live, u)}
    BY DEF WidgetInv, DestroyInv
  <2> HIDE DEF c, t
  <2> QED
    BY <1>2, <1>4, <2>1, <2>2
<1>8. Live' = Live
  BY <1>1 DEF Live
<1> QED
  BY <1>1, <1>4, <1>5, <1>6, <1>7, <1>8

(* The step of DestroyChild. *)
LEMMA DestroyOn ==
    ASSUME WidgetInv, DestroyChild
    PROVE  WidgetInv'
<1>1. PICK c : c = link.children[Last(calls)]
  OBVIOUS
<1>2. /\ Live' = Live /\ calls # <<>> /\ c \in Live \ {Root} /\ link.parent[c] = Last(calls)
      /\ c \in doomed /\ Parted(link, Live, link', c) /\ calls' = Append(calls, c)
      /\ UNCHANGED places /\ UNCHANGED <<focused, told, moved, doomed, target, got>>
  BY <1>1, ChildLeaves
<1>3. /\ Len(calls) \in 1..Len(calls) /\ Last(calls) = calls[Len(calls)] /\ Last(calls) \in Live
      /\ target = Null /\ got = <<>>
  BY <1>2, LastCall
<1>4. Forest(link, Live) /\ Null \notin Live
  BY DEF WidgetInv, Forest, UpTyped
<1>5. Forest(link', Live')
  BY <1>2 DEF Parted
<1>6. /\ Freed(link, Live, calls) /\ doomed = Doomed(link.parent, Live, calls)
      /\ doomed \subseteq moved /\ moved \subseteq Live /\ focused \notin doomed
  BY DestroyIs DEF WidgetInv
<1>7. DestroyInv'
  <2>1. \A i \in 1..Len(calls) : calls[i] # c
    BY <1>2, <1>3, <1>4, <1>6 DEF Freed
  <2>2. Freed(link', Live', calls')
    BY <1>2, <1>4, <1>6, <2>1, FreedMore
  <2>3. calls \in Seq(Live) /\ link.parent[c] = calls[Len(calls)]
    BY <1>2, <1>3, <1>6 DEF Freed
  <2>4. Doomed(link'.parent, Live, Append(calls, c)) = Doomed(link.parent, Live, calls)
    BY <1>2, <1>3, <1>4, <2>3, DoomedKept
  <2>5. doomed' = Doomed(link'.parent, Live', calls')
    BY <1>2, <1>6, <2>4
  <2>6. doomed' \subseteq moved' /\ moved' \subseteq Live' /\ focused' \notin doomed'
    BY <1>2, <1>6
  <2> QED
    BY <2>2, <2>5, <2>6, DestroyIsNext
<1>8. FocusInv'
  BY <1>2 DEF WidgetInv, FocusInv, FocusTold
<1>9. EventInv'
  BY <1>2, <1>3, QuietEvents
<1>10. BoundsInv'
  <2>1. \A x \in Live : c \in Anc(link.parent, Live, x) => x \in doomed
    <3>1. PICK k \in 1..Len(calls) : k = Len(calls)
      BY <1>3
    <3>2. ASSUME NEW x \in Live, c \in Anc(link.parent, Live, x)
          PROVE  calls[k] \in Anc(link.parent, Live, x)
      <4>1. UpTyped(link.parent, Live)
        BY <1>4 DEF Forest
      <4>2. UpClosed(link.parent, Anc(link.parent, Live, x) \cup {Null})
        BY <4>1, AncClosed
      <4>3. link.parent[c] = calls[k] /\ c # Null /\ calls[k] # Null
        BY <1>2, <1>3, <1>4, <3>1
      <4> QED
        BY <3>2, <4>2, <4>3 DEF UpClosed
    <3> QED
      BY <1>6, <3>2 DEF Doomed
  <2>2. moved \subseteq moved' /\ \A x \in Live : c \in Anc(link.parent, Live, x) => x \in moved'
    BY <1>2, <1>6, <2>1
  <2> QED
    BY <1>2, <2>2, PartBounds
<1> QED
  BY <1>5, <1>7, <1>8, <1>9, <1>10 DEF WidgetInv

(* The links l when w, without parent and children, is freed from L. *)
Dropped(l, L, K, w) ==
    /\ Forest(l, K)
    /\ \A q \in K : \A s \in Seq(L) : Spells(l, L, q, s) => Spells(l, K, q, s)
    /\ \A q \in K \cup {Null} : /\ Anc(l.parent, K, q) = Anc(l.parent, L, q)
                                /\ w \notin Anc(l.parent, L, q)

(* A freed widget leaves a forest. *)
LEMMA FreeForest ==
    ASSUME NEW l, NEW L, Forest(l, L), NEW w \in L \ {Root},
           l.parent[w] = Null, l.children[w] = Null
    PROVE  Dropped(l, L, L \ {w}, w)
BY DropForest DEF Dropped

(* One call of ui_destroy_widget less. *)
LEMMA OneCallLess ==
    ASSUME NEW L, NEW cs \in Seq(L), cs # <<>>
    PROVE  /\ Len(cs) \in Nat \ {0} /\ Front(cs) \in Seq(L) /\ Len(Front(cs)) = Len(cs) - 1
           /\ \A i \in 1..(Len(cs) - 1) : Front(cs)[i] = cs[i]
           /\ \A i \in 1..Len(cs) : cs[i] \in L
<1>1. Len(cs) \in Nat \ {0} /\ \A i \in 1..Len(cs) : cs[i] \in L
  OBVIOUS
<1>2. Front(cs) = [i \in 1..(Len(cs) - 1) |-> cs[i]]
  BY <1>1 DEF Front
<1> QED
  BY <1>1, <1>2

(* The remaining calls ds have to free what cs had, but for w. *)
Fewer(l, L, cs, K, ds, w) ==
    /\ Freed(l, K, ds)
    /\ Doomed(l.parent, K, ds) = Doomed(l.parent, L, cs) \ {w}

(* What the remaining calls have still to free. *)
LEMMA FreedLess ==
    ASSUME NEW l, NEW L, NEW w, Dropped(l, L, L \ {w}, w), NEW cs, Freed(l, L, cs),
           cs # <<>>, w = cs[Len(cs)]
    PROVE  Fewer(l, L, cs, L \ {w}, Front(cs), w)
<1> DEFINE n == Len(cs)
           ds == Front(cs)
           K == L \ {w}
<1>0. cs \in Seq(L)
  BY DEF Freed
<1>1. /\ n \in Nat \ {0} /\ ds \in Seq(L) /\ Len(ds) = n - 1 /\ \A i \in 1..(n - 1) : ds[i] = cs[i]
      /\ \A i \in 1..n : cs[i] \in L
  BY <1>0, OneCallLess
<1> HIDE DEF ds
<1>2. ASSUME NEW i \in 1..(n - 1) PROVE i \in 1..n /\ ds[i] = cs[i] /\ cs[i] \in K
  <2>1. i \in 1..n /\ n \in 1..n /\ i # n
    BY <1>1
  <2>2. cs[i] # cs[n]
    BY <2>1 DEF Freed
  <2> QED
    BY <1>1, <2>1, <2>2
<1>3. ds \in Seq(K)
  <2>1. ds = [i \in 1..Len(ds) |-> ds[i]] /\ Len(ds) \in Nat
    BY <1>1
  <2>2. \A i \in 1..Len(ds) : ds[i] \in K
    BY <1>1, <1>2
  <2> QED
    BY <2>1, <2>2, SeqDef
<1>4. \A i \in 1..(n - 1) : l.parent[ds[i]] = Null /\ ds[i] # Root
  BY <1>2 DEF Freed
<1>5. ASSUME NEW i \in 1..(n - 1), NEW j \in 1..(n - 1), ds[i] = ds[j] PROVE i = j
  <2>1. i \in 1..n /\ j \in 1..n /\ cs[i] = cs[j]
    BY <1>2, <1>5
  <2> QED
    BY <2>1 DEF Freed
<1>6. Freed(l, K, ds)
  BY <1>1, <1>3, <1>4, <1>5 DEF Freed
<1>7. ASSUME NEW u \in K
      PROVE  (\E i \in 1..(n - 1) : ds[i] \in Anc(l.parent, K, u))
                <=> (\E i \in 1..n : cs[i] \in Anc(l.parent, L, u))
  <2>1. Anc(l.parent, K, u) = Anc(l.parent, L, u) /\ w \notin Anc(l.parent, L, u)
    BY DEF Dropped
  <2>2. ASSUME NEW i \in 1..n, cs[i] \in Anc(l.parent, L, u)
        PROVE  \E j \in 1..(n - 1) : ds[j] \in Anc(l.parent, K, u)
    <3>1. i \in 1..(n - 1)
      BY <1>1, <2>1, <2>2
    <3> QED
      BY <1>2, <2>1, <2>2, <3>1
  <2>3. ASSUME NEW i \in 1..(n - 1), ds[i] \in Anc(l.parent, K, u)
        PROVE  \E j \in 1..n : cs[j] \in Anc(l.parent, L, u)
    BY <1>2, <2>1, <2>3
  <2> QED
    BY <2>2, <2>3
<1>8. Doomed(l.parent, K, ds) = {u \in K : \E i \in 1..(n - 1) : ds[i] \in Anc(l.parent, K, u)}
  BY <1>1 DEF Doomed
<1>9. Doomed(l.parent, L, cs) = {u \in L : \E i \in 1..n : cs[i] \in Anc(l.parent, L, u)}
  BY DEF Doomed
<1> HIDE DEF n
<1>10. Doomed(l.parent, K, ds) = Doomed(l.parent, L, cs) \ {w}
  BY <1>7, <1>8, <1>9
<1> QED
  BY <1>6, <1>10 DEF ds, Fewer

(* The step of DestroyReturn. *)
LEMMA DestroyEnd ==
    ASSUME WidgetInv, DestroyReturn
    PROVE  WidgetInv'
<1>1. PICK w : w = Last(calls)
  OBVIOUS
<1>2. /\ calls # <<>> /\ link.children[w] = Null
      /\ bounds' = Restrict(bounds, Live \ {w}) /\ absolute' = Restrict(absolute, Live \ {w})
      /\ on_event' = Restrict(on_event, Live \ {w})
      /\ moved' = moved \cap (Live \ {w}) /\ doomed' = doomed \cap (Live \ {w})
      /\ calls' = Front(calls) /\ UNCHANGED <<link, focused, told, target, got>>
  BY <1>1 DEF DestroyReturn, focus, post
<1>3. /\ w = calls[Len(calls)] /\ w \in Live \ {Root} /\ link.parent[w] = Null
      /\ w \in doomed /\ target = Null /\ got = <<>>
  BY <1>1, <1>2, LastCall
<1>4. /\ Live' = Live \ {w} /\ DOMAIN absolute' = Live' /\ DOMAIN on_event' = Live'
      /\ \A x \in Live' : bounds'[x] = bounds[x] /\ absolute'[x] = absolute[x]
  BY <1>2 DEF Restrict, Live
<1>5. Forest(link, Live) /\ BoundsInv
  BY DEF WidgetInv
<1>6. Dropped(link, Live, Live \ {w}, w)
  BY <1>2, <1>3, <1>5, FreeForest
<1>7. Forest(link', Live')
  BY <1>2, <1>4, <1>6 DEF Dropped
<1>8. /\ Freed(link, Live, calls) /\ doomed = Doomed(link.parent, Live, calls)
      /\ doomed \subseteq moved /\ moved \subseteq Live /\ focused \notin doomed
  BY DestroyIs DEF WidgetInv
<1>9. DestroyInv'
  <2>0. Fewer(link, Live, calls, Live \ {w}, Front(calls), w)
    BY <1>2, <1>3, <1>6, <1>8, FreedLess
  <2>1. /\ Freed(link, Live \ {w}, Front(calls))
        /\ Doomed(link.parent, Live \ {w}, Front(calls)) = Doomed(link.parent, Live, calls) \ {w}
    BY <2>0 DEF Fewer
  <2>2. Freed(link', Live', calls')
    BY <1>2, <1>4, <2>1
  <2>3. doomed' = Doomed(link'.parent, Live', calls')
    BY <1>2, <1>4, <1>8, <2>1
  <2>4. doomed' \subseteq moved' /\ moved' \subseteq Live' /\ focused' \notin doomed'
    BY <1>2, <1>4, <1>8
  <2> QED
    BY <2>2, <2>3, <2>4, DestroyIsNext
<1>10. FocusInv'
  BY <1>2, <1>3, <1>4, <1>8 DEF WidgetInv, FocusInv, FocusTold
<1>11. EventInv'
  BY <1>2, <1>3, QuietEvents
<1>12. ASSUME NEW x \in Live' \ moved'
       PROVE  absolute'[x] =
                 Shifted(bounds'[x], Restrict(bounds', Anc(link'.parent, Live', link'.parent[x])))
  <2>1. x \in Live \ moved /\ x \in Live \ {w}
    BY <1>2, <1>4, <1>12
  <2>2. link.parent[x] \in (Live \ {w}) \cup {Null}
    BY <1>6, <2>1 DEF Dropped, Forest, UpTyped
  <2>3. /\ Anc(link.parent, Live \ {w}, link.parent[x]) = Anc(link.parent, Live, link.parent[x])
        /\ w \notin Anc(link.parent, Live, link.parent[x])
    BY <1>6, <2>2 DEF Dropped
  <2>4. \A a \in Anc(link.parent, Live, link.parent[x]) : bounds'[a] = bounds[a]
    BY <1>4, <2>3 DEF Anc
  <2>5. Anc(link'.parent, Live', link.parent[x]) = Anc(link.parent, Live, link.parent[x])
    BY <1>2, <1>4, <2>3
  <2> QED
    BY <1>2, <1>4, <1>5, <2>1, <2>4, <2>5, BoundsStay
<1>13. BoundsInv'
  BY <1>4, <1>12 DEF BoundsInv
<1> QED
  BY <1>7, <1>9, <1>10, <1>11, <1>13 DEF WidgetInv

-----------------------------------------------------------------------------
(* Focus and events *)

(* The step of ui_set_focus. *)
LEMMA FocusStep ==
    ASSUME WidgetInv, NEW w \in Addresses \cup {Null}, ui_set_focus(w)
    PROVE  WidgetInv'
<1>1. /\ Client /\ w \in Live \cup {Null} /\ focused' = w
      /\ told' = IF w = focused THEN told ELSE ((told \ {focused}) \cup {w}) \ {Null}
      /\ UNCHANGED <<link, bounds, absolute, on_event, moved, calls, doomed, target>>
  BY DEF ui_set_focus, places, destroy
<1>2. /\ calls = <<>> /\ doomed = {} /\ target = Null /\ got' = <<>> /\ moved \subseteq Live
      /\ Forest(link, Live)
  BY <1>1, ClientFinds
<1>3. Live' = Live
  BY <1>1 DEF Live
<1>4. Forest(link', Live')
  BY <1>1, <1>2, <1>3
<1>5. DestroyInv'
  <2>1. calls' = <<>> /\ doomed' = {} /\ moved' \subseteq Live'
    BY <1>1, <1>2, <1>3
  <2> QED
    BY <2>1, QuietDestroy
<1>6. FocusInv'
  <2>1. told = {focused} \ {Null}
    BY DEF WidgetInv, FocusInv, FocusTold
  <2>2. told' = {w} \ {Null}
    BY <1>1, <2>1
  <2> QED
    BY <1>1, <1>3, <2>2 DEF FocusInv, FocusTold
<1>7. EventInv'
  BY <1>1, <1>2, QuietEvents
<1>8. BoundsInv'
  BY <1>1, <1>3 DEF WidgetInv, BoundsInv
<1> QED
  BY <1>4, <1>5, <1>6, <1>7, <1>8 DEF WidgetInv

(* The part of the invariant that the steps of an event leave alone. *)
LEMMA EventsOnly ==
    ASSUME WidgetInv, UNCHANGED <<link, places, focus, moved, destroy>>, EventInv'
    PROVE  WidgetInv'
<1>1. UNCHANGED <<link, bounds, absolute, on_event, focused, told, moved, calls, doomed>>
  BY DEF places, focus, destroy
<1>2. Live' = Live
  BY <1>1 DEF Live
<1>3. Forest(link', Live')
  BY <1>1, <1>2 DEF WidgetInv
<1>4. DestroyInv'
  BY <1>1, <1>2 DEF WidgetInv, DestroyInv
<1>5. FocusInv'
  BY <1>1, <1>2 DEF WidgetInv, FocusInv, FocusTold
<1>6. BoundsInv'
  BY <1>1, <1>2 DEF WidgetInv, BoundsInv
<1> QED
  BY <1>3, <1>4, <1>5, <1>6 DEF WidgetInv

(* The step of ui_post_event: everything is ahead. *)
LEMMA PostStep ==
    ASSUME WidgetInv, NEW at, ui_post_event(at)
    PROVE  WidgetInv'
<1>1. /\ Client /\ target' = Root /\ UNCHANGED <<link, places, focus, moved, destroy>>
      /\ UNCHANGED <<bounds, link, calls>>
  BY DEF ui_post_event, places, destroy
<1>2. /\ calls = <<>> /\ got' = <<>> /\ Forest(link, Live) /\ UpTyped(link.parent, Live)
      /\ Root \in Live /\ Root # Null
  BY <1>1, ClientFinds DEF Forest, UpTyped
<1>3. Live' = Live
  BY <1>1 DEF Live
<1>4. Root \in Anc(link.parent, Live, Root)
  BY <1>2, AncUnfold
<1>5. \A x \in Live : link.next[x] \in Live \cup {Null}
  BY <1>2, ForestLinked DEF Linked
<1>6. Ahead(Live)'
  BY <1>1, <1>2, <1>3, <1>5 DEF Ahead
<1>7. \E F \in SUBSET Live' : Ahead(F)'
  BY <1>6
<1>8. EventInv'
  BY <1>1, <1>2, <1>3, <1>4, <1>7 DEF EventInv
<1> QED
  BY <1>1, <1>8, EventsOnly

(* What the events that go on at the next sibling of x can come to: that   *)
(* sibling, its later ones and all below them, but not x.                  *)
Later(l, L, x, G) ==
    /\ x \notin G /\ l.next[x] \in G
    /\ \A y \in L : l.parent[y] \in G => y \in G
    /\ \A y \in G : l.next[y] \in G \cup {Null}

(* There is such a set. *)
LEMMA LaterSet ==
    ASSUME NEW l, NEW L, Forest(l, L), NEW x \in L, l.next[x] # Null
    PROVE  \E G \in SUBSET L : Later(l, L, x, G)
<1> DEFINE P == l.parent
           q == P[x]
<1>1. UpTyped(P, L) /\ Null \notin L /\ \A y \in L : Linked(l, L, y)
  BY ForestLinked DEF Forest, UpTyped
<1>2. q \in L /\ l.next[x] \in L
  BY <1>1 DEF Linked
<1>3. PICK s \in Seq(L) : Spells(l, L, q, s)
  BY <1>2 DEF Forest
<1>4. /\ Len(s) \in Nat
      /\ \A i \in 1..Len(s) : /\ s[i] \in L /\ P[s[i]] = q
                              /\ l.next[s[i]] = IF i = Len(s) THEN Null ELSE s[i + 1]
      /\ \A i, j \in 1..Len(s) : s[i] = s[j] => i = j
  BY <1>3 DEF Spells
<1>5. PICK k \in 1..Len(s) : s[k] = x
  BY <1>3 DEF Spells
<1>6. k + 1 \in 1..Len(s) /\ l.next[x] = s[k + 1]
  BY <1>4, <1>5
<1> DEFINE G == {u \in L : \E j \in (k + 1)..Len(s) : s[j] \in Anc(P, L, u)}
<1>7. x \notin G
  <2> SUFFICES ASSUME NEW j \in (k + 1)..Len(s), s[j] \in Anc(P, L, x) PROVE FALSE
    OBVIOUS
  <2>1. j \in 1..Len(s) /\ j # k
    BY <1>4
  <2>2. s[j] # x /\ s[j] \in L /\ P[s[j]] = q
    BY <1>4, <1>5, <2>1
  <2>3. s[j] \in Anc(P, L, q)
    BY <1>1, <2>2, AncUnfold
  <2>4. s[j] \notin Anc(P, L, P[s[j]])
    BY <2>2 DEF Forest
  <2> QED
    BY <2>2, <2>3, <2>4
<1>8. \A u \in L : u \in Anc(P, L, u)
  BY <1>1, AncUnfold
<1>9. l.next[x] \in G
  <2>1. k + 1 \in (k + 1)..Len(s) /\ s[k + 1] \in Anc(P, L, s[k + 1]) /\ s[k + 1] \in L
    BY <1>4, <1>6, <1>8
  <2> QED
    BY <1>6, <2>1
<1>10. \A y \in L : Anc(P, L, P[y]) \subseteq Anc(P, L, y)
  BY <1>1, AncUnfold
<1>11. \A y \in L : P[y] \in G => y \in G
  BY <1>10
<1>12. ASSUME NEW y \in G PROVE l.next[y] \in G \cup {Null}
  <2>1. y \in L
    BY <1>12
  <2>2. PICK j \in (k + 1)..Len(s) : s[j] \in Anc(P, L, y)
    BY <1>12
  <2>3. j \in 1..Len(s)
    BY <1>4, <2>2
  <2> SUFFICES ASSUME l.next[y] # Null PROVE l.next[y] \in G
    OBVIOUS
  <2>4. l.next[y] \in L /\ P[l.next[y]] = P[y]
    BY <1>1, <2>1 DEF Linked
  <2>5. CASE s[j] = y
    <3>1. j + 1 \in (k + 1)..Len(s) /\ l.next[y] = s[j + 1]
      BY <1>4, <2>3, <2>5
    <3>2. s[j + 1] \in Anc(P, L, l.next[y])
      BY <1>8, <2>4, <3>1
    <3> QED
      BY <2>4, <3>1, <3>2
  <2>6. CASE s[j] # y
    <3>1. s[j] \in Anc(P, L, P[y])
      BY <1>1, <2>1, <2>2, <2>6, AncUnfold
    <3>2. Anc(P, L, P[l.next[y]]) \subseteq Anc(P, L, l.next[y])
      BY <1>10, <2>4
    <3>3. s[j] \in Anc(P, L, l.next[y])
      BY <2>4, <3>1, <3>2
    <3> QED
      BY <2>4, <3>3
  <2> QED
    BY <2>5, <2>6
<1>13. G \in SUBSET L
  OBVIOUS
<1> HIDE DEF G
<1>14. Later(l, L, x, G)
  BY <1>7, <1>9, <1>11, <1>12 DEF Later
<1> QED
  BY <1>13, <1>14

(* A widget below the root has its siblings there. *)
LEMMA SiblingBelow ==
    ASSUME NEW l, NEW L, Forest(l, L), NEW x \in L, l.next[x] # Null, Root \in Anc(l.parent, L, x)
    PROVE  l.next[x] \in L /\ Root \in Anc(l.parent, L, l.next[x])
<1> DEFINE P == l.parent
<1>1. /\ UpTyped(P, L) /\ l.next[x] \in L /\ P[l.next[x]] = P[x] /\ P[x] # Null /\ P[Root] = Null
  BY ForestLinked DEF Forest, Linked
<1>2. x # Root
  BY <1>1
<1>3. Root \in Anc(P, L, P[x])
  BY <1>1, <1>2, AncUnfold
<1>4. Anc(P, L, P[l.next[x]]) \subseteq Anc(P, L, l.next[x])
  BY <1>1, AncUnfold
<1> QED
  BY <1>1, <1>3, <1>4

(* The children that Receiver looks at. *)
LEMMA ReceiverIs ==
    ASSUME Forest(link, Live), target \in Live, Inside(target)
    PROVE  /\ Receiver(target) \in Live /\ Inside(Receiver(target))
           /\ Receiver(target) = target \/ link.parent[Receiver(target)] = target
<1>1. PICK s \in Seq(Live) : Spells(link, Live, target, s)
  BY DEF Forest
<1>2. List(link, target) = s
  <2>1. Live \in SUBSET Addresses
    BY DEF Forest
  <2> QED
    BY <1>1, <2>1, ListSpelled
<1>3. /\ Len(s) \in Nat /\ DOMAIN s = 1..Len(s)
      /\ \A i \in 1..Len(s) : s[i] \in Live /\ link.parent[s[i]] = target
  BY <1>1 DEF Spells
<1> DEFINE hits == {i \in 1..Len(s) : Inside(s[i])}
<1>4. Receiver(target) = IF hits = {} THEN target ELSE s[Min(hits)]
  BY <1>2, <1>3 DEF Receiver
<1>5. hits # {} => Min(hits) \in hits
  <2>1. hits \in SUBSET Nat
    BY <1>3
  <2> HIDE DEF hits
  <2>2. ASSUME hits # {} PROVE \E a \in hits : \A b \in hits : a <= b
    BY <2>1, <2>2, LeastNat
  <2> QED
    BY <2>2 DEF Min
<1> QED
  BY <1>3, <1>4, <1>5

(* The events at the next sibling: what is ahead gets smaller. *)
LEMMA AheadNext ==
    ASSUME Forest(link, Live), NEW F \in SUBSET Live, Ahead(F), NEW x \in F,
           Root \in Anc(link.parent, Live, x), target' = link.next[x], target' # Null,
           UNCHANGED <<link, bounds>>,
           got' = got \/ got' = Append(got, x), got \in Seq(Live)
    PROVE  \E H \in SUBSET Live' : Ahead(H)'
<1>1. Live' = Live /\ x \in Live
  BY DEF Live
<1>2. PICK G \in SUBSET Live : Later(link, Live, x, G)
  BY <1>1, LaterSet
<1> DEFINE H == F \cap G
<1>3. target' \in H
  BY <1>2 DEF Ahead, Later
<1>4. \A y \in Live' : link'.parent[y] \in H => y \in H
  BY <1>1, <1>2 DEF Ahead, Later
<1>5. \A y \in H : link'.next[y] \in H \cup {Null}
  BY <1>1, <1>2 DEF Ahead, Later
<1>6. \A i \in 1..Len(got') : got'[i] \notin H
  <2>1. \A i \in 1..Len(got') : got'[i] = x \/ (i \in 1..Len(got) /\ got'[i] = got[i])
    OBVIOUS
  <2> QED
    BY <1>2, <2>1 DEF Ahead, Later
<1>7. Ahead(H)'
  BY <1>3, <1>4, <1>5, <1>6 DEF Ahead
<1> QED
  BY <1>1, <1>7

(* The step of Pass. *)
LEMMA PassStep ==
    ASSUME WidgetInv, Pass
    PROVE  WidgetInv'
<1>1. /\ target # Null /\ target' = link.next[target]
      /\ UNCHANGED <<link, places, focus, moved, destroy>>
      /\ UNCHANGED <<link, bounds, absolute, on_event, calls, event, got>>
  BY DEF Pass, places, destroy
<1>2. Live' = Live /\ Forest(link, Live) /\ EventInv
  BY <1>1 DEF Live, WidgetInv
<1>3. /\ target \in Live /\ got \in Seq(Live) /\ calls = <<>> /\ Root \in Anc(link.parent, Live, target)
      /\ \A i \in 1..Len(got) : /\ Inside(got[i]) /\ Root \in Anc(link.parent, Live, got[i])
                                /\ on_event[got[i]] # "handled"
      /\ \A i, j \in 1..Len(got) : got[i] = got[j] => i = j
  BY <1>1, <1>2 DEF EventInv
<1>4. target' # Null => target' \in Live /\ Root \in Anc(link.parent, Live, target')
  BY <1>1, <1>2, <1>3, SiblingBelow
<1>5. ASSUME target' # Null PROVE \E H \in SUBSET Live' : Ahead(H)'
  <2>1. PICK F \in SUBSET Live : Ahead(F)
    BY <1>1, <1>2 DEF EventInv
  <2>2. target \in F
    BY <2>1 DEF Ahead
  <2>3. PICK x \in F : x = target
    BY <2>2
  <2>4. Root \in Anc(link.parent, Live, x) /\ target' = link.next[x]
    BY <1>1, <1>3, <2>3
  <2> QED
    BY <1>1, <1>2, <1>3, <1>5, <2>1, <2>4, AheadNext
<1>6. \A i \in 1..Len(got) : Inside(got[i])'
  BY <1>1, <1>3 DEF Inside
<1>7. EventInv'
  <2>1. got' \in Seq(Live') /\ target' \in Live' \cup {Null} /\ calls' = <<>>
    BY <1>1, <1>2, <1>3, <1>4
  <2>2. \A i \in 1..Len(got') :
           /\ Inside(got[i])' /\ Root \in Anc(link'.parent, Live', got'[i])
           /\ on_event'[got'[i]] = "handled" => i = Len(got') /\ target' = Null
    BY <1>1, <1>2, <1>3, <1>6
  <2>3. \A i, j \in 1..Len(got') : got'[i] = got'[j] => i = j
    BY <1>1, <1>3
  <2>4. target' # Null => /\ Root \in Anc(link'.parent, Live', target')
                          /\ \E F \in SUBSET Live' : Ahead(F)'
    BY <1>1, <1>2, <1>4, <1>5
  <2> QED
    BY <2>1, <2>2, <2>3, <2>4 DEF EventInv
<1> QED
  BY <1>1, <1>7, EventsOnly

(* The step of Offer. *)
LEMMA OfferStep ==
    ASSUME WidgetInv, Offer
    PROVE  WidgetInv'
<1>0. PICK x : x = Receiver(target)
  OBVIOUS
<1>1. /\ target # Null /\ Inside(target)
      /\ got' = IF on_event[x] = "none" THEN got ELSE Append(got, x)
      /\ target' = IF on_event[x] = "handled" THEN Null ELSE link.next[x]
      /\ UNCHANGED <<link, places, focus, moved, destroy>>
      /\ UNCHANGED <<link, bounds, absolute, on_event, calls, event>>
  BY <1>0 DEF Offer, places, destroy
<1>2. Live' = Live /\ Forest(link, Live) /\ EventInv
  BY <1>1 DEF Live, WidgetInv
<1>3. /\ target \in Live /\ got \in Seq(Live) /\ calls = <<>> /\ Root \in Anc(link.parent, Live, target)
      /\ \A i \in 1..Len(got) : /\ Inside(got[i]) /\ Root \in Anc(link.parent, Live, got[i])
                                /\ on_event[got[i]] # "handled"
      /\ \A i, j \in 1..Len(got) : got[i] = got[j] => i = j
  BY <1>1, <1>2 DEF EventInv
<1>4. x \in Live /\ Inside(x) /\ (x = target \/ link.parent[x] = target)
  BY <1>0, <1>1, <1>2, <1>3, ReceiverIs
<1>5. Root \in Anc(link.parent, Live, x)
  <2>1. UpTyped(link.parent, Live)
    BY <1>2 DEF Forest
  <2>2. Anc(link.parent, Live, x) = {x} \cup Anc(link.parent, Live, link.parent[x])
    BY <1>4, <2>1, AncUnfold
  <2> QED
    BY <1>3, <1>4, <2>2
<1>6. PICK F \in SUBSET Live : Ahead(F)
  BY <1>1, <1>2 DEF EventInv
<1>7. x \in F /\ \A i \in 1..Len(got) : got[i] # x
  BY <1>4, <1>6 DEF Ahead
<1>8. target' # Null => target' \in Live /\ Root \in Anc(link.parent, Live, target')
  BY <1>1, <1>2, <1>4, <1>5, SiblingBelow
<1>9. ASSUME target' # Null PROVE \E H \in SUBSET Live' : Ahead(H)'
  <2>1. target' = link.next[x] /\ (got' = got \/ got' = Append(got, x))
    BY <1>1, <1>9
  <2> QED
    BY <1>1, <1>2, <1>3, <1>5, <1>6, <1>7, <1>9, <2>1, AheadNext
<1>10. /\ got' \in Seq(Live) /\ Len(got') \in Nat
       /\ \A i \in 1..Len(got') : \/ i \in 1..Len(got) /\ got'[i] = got[i]
                                  \/ i = Len(got') /\ i = Len(got) + 1 /\ got'[i] = x
  BY <1>1, <1>3, <1>4
<1>11. \A y : Inside(y) => Inside(y)'
  BY <1>1 DEF Inside
<1>12. ASSUME NEW i \in 1..Len(got')
       PROVE  /\ Inside(got'[i])
              /\ Root \in Anc(link.parent, Live, got'[i])
              /\ on_event[got'[i]] = "handled" => i = Len(got') /\ target' = Null
  <2>1. CASE i \in 1..Len(got) /\ got'[i] = got[i]
    BY <1>3, <2>1
  <2>2. CASE i = Len(got') /\ got'[i] = x
    BY <1>1, <1>4, <1>5, <2>2
  <2> QED
    BY <1>10, <2>1, <2>2
<1>13. ASSUME NEW i \in 1..Len(got'), NEW j \in 1..Len(got'), got'[i] = got'[j] PROVE i = j
  BY <1>3, <1>7, <1>10, <1>13
<1>14. \A i \in 1..Len(got') : Inside(got[i])'
  BY <1>1, <1>12 DEF Inside
<1>15. EventInv'
  <2>1. got' \in Seq(Live') /\ target' \in Live' \cup {Null} /\ calls' = <<>>
    BY <1>1, <1>2, <1>3, <1>8, <1>10
  <2>2. \A i \in 1..Len(got') :
           /\ Inside(got[i])' /\ Root \in Anc(link'.parent, Live', got'[i])
           /\ on_event'[got'[i]] = "handled" => i = Len(got') /\ target' = Null
    BY <1>1, <1>2, <1>12, <1>14
  <2>3. target' # Null => /\ Root \in Anc(link'.parent, Live', target')
                          /\ \E H \in SUBSET Live' : Ahead(H)'
    BY <1>1, <1>2, <1>8, <1>9
  <2> QED
    BY <1>13, <2>1, <2>2, <2>3 DEF EventInv
<1> QED
  BY <1>1, <1>15, EventsOnly

(* Steps that change nothing. *)
LEMMA WidgetStutter ==
    ASSUME WidgetInv, UNCHANGED widgetVars
    PROVE  WidgetInv'
<1>1. UNCHANGED <<link, places, focus, moved, destroy>> /\ UNCHANGED <<link, calls, target, event, got>>
      /\ UNCHANGED <<bounds, absolute, on_event>>
  BY DEF widgetVars, places, destroy, post
<1>2. Live' = Live /\ EventInv
  BY <1>1 DEF Live, WidgetInv
<1>3. \A F : Ahead(F) => Ahead(F)'
  BY <1>1, <1>2 DEF Ahead
<1>4. \A i \in 1..Len(got) : Inside(got[i]) => Inside(got[i])'
  BY <1>1 DEF Inside
<1>5. EventInv'
  BY <1>1, <1>2, <1>3, <1>4 DEF EventInv
<1> QED
  BY <1>1, <1>5, EventsOnly

(* The bounds of a kind are a rectangle. *)
LEMMA KindBounds == \A k \in Kinds : k.bounds \in ui_rect_t
<1>1. Kinds \subseteq [bounds : ui_rect_t, on_event : {"none", "ignored", "handled"}]
  BY WidgetsAssumption
<1> QED
  BY <1>1

(* Every step keeps the invariant. *)
LEMMA WidgetStep ==
    ASSUME WidgetInv, [WidgetNext]_widgetVars
    PROVE  WidgetInv'
<1>1. ASSUME NEW w \in Addresses, NEW p \in Addresses \cup {Null}, NEW k \in Kinds,
             ui_create_widget(w, p, k.bounds, k.on_event)
      PROVE  WidgetInv'
  <2>1. k.bounds \in ui_rect_t
    BY KindBounds
  <2> QED
    BY <1>1, <2>1, CreateInv
<1>2. ASSUME NEW p \in Addresses, NEW w \in Addresses, AddChild(p, w) PROVE WidgetInv'
  BY <1>2, AddInv
<1>3. ASSUME NEW w \in Addresses, RemoveChild(w) PROVE WidgetInv'
  BY <1>3, RemoveInv
<1>4. ASSUME NEW w \in Addresses, ui_destroy_widget(w) PROVE WidgetInv'
  BY <1>4, DestroyStart
<1>5. CASE DestroyChild
  BY <1>5, DestroyOn
<1>6. CASE DestroyReturn
  BY <1>6, DestroyEnd
<1>7. ASSUME NEW at \in Points, ui_post_event(at) PROVE WidgetInv'
  BY <1>7, PostStep
<1>8. CASE Offer
  BY <1>8, OfferStep
<1>9. CASE Pass
  BY <1>9, PassStep
<1>10. ASSUME NEW w \in Addresses \cup {Null}, ui_set_focus(w) PROVE WidgetInv'
  BY <1>10, FocusStep
<1>11. CASE UNCHANGED widgetVars
  BY <1>11, WidgetStutter
<1> QED
  BY <1>1, <1>2, <1>3, <1>4, <1>5, <1>6, <1>7, <1>8, <1>9, <1>10, <1>11 DEF WidgetNext

(* WidgetInv is an invariant. *)
LEMMA WidgetsInvariant == WidgetSpec => []WidgetInv
<1>1. ui_init => WidgetInv
  BY WidgetInit
<1>2. WidgetInv /\ [WidgetNext]_widgetVars => WidgetInv'
  BY WidgetStep
<1> QED
  BY <1>1, <1>2, PTL DEF WidgetSpec

(* Through every order of adding, removing, destroying and focusing, and   *)
(* in the middle of a destruction, all links lead to widgets, agree with   *)
(* each other and with the focus, and make no cycle.                       *)
THEOREM LinksAreSound == WidgetSpec => []LinksSound
<1>1. ASSUME WidgetInv PROVE LinksSound
  <2>1. /\ Forest(link, Live) /\ DestroyInv /\ FocusInv /\ EventInv
        /\ UpTyped(link.parent, Live) /\ Null \notin Live
    BY <1>1 DEF WidgetInv, Forest, UpTyped
  <2>2. \A w \in Live : Linked(link, Live, w)
    BY <2>1, ForestLinked
  <2>3. LinksLive
    <3>1. \A w \in Live : {link.parent[w], link.children[w], link.next[w], link.prev[w]}
                             \subseteq Live \cup {Null}
      BY <2>2 DEF Linked
    <3>2. Range(calls) \subseteq doomed
      <4>1. calls \in Seq(Live)
        BY <2>1 DEF DestroyInv
      <4>2. \A i \in 1..Len(calls) : calls[i] \in Anc(link.parent, Live, calls[i])
        BY <2>1, <4>1, AncUnfold
      <4>3. \A i \in 1..Len(calls) : calls[i] \in doomed
        BY <2>1, <4>1, <4>2 DEF DestroyInv
      <4> QED
        BY <4>1, <4>3 DEF Range
    <3>3. Range(got) \subseteq Live
      <4>1. got \in Seq(Live)
        BY <2>1 DEF EventInv
      <4> QED
        BY <4>1 DEF Range
    <3>4. doomed \subseteq Live /\ moved \subseteq Live
      BY <2>1 DEF DestroyInv
    <3>5. focused \in Live \cup {Null} /\ told \subseteq Live
      BY <2>1 DEF FocusInv, FocusTold
    <3>6. target \in Live \cup {Null}
      BY <2>1 DEF EventInv
    <3> QED
      BY <3>1, <3>2, <3>3, <3>4, <3>5, <3>6 DEF LinksLive
  <2>4. ListsLinked
    BY <2>2 DEF ListsLinked, Linked
  <2>5. NoCycle
    BY <2>1, AncestorsAre DEF NoCycle, Forest
  <2>6. FocusTold
    BY <2>1 DEF FocusInv
  <2> QED
    BY <2>3, <2>4, <2>5, <2>6 DEF LinksSound
<1>2. WidgetInv => LinksSound
  BY <1>1
<1> QED
  BY <1>2, WidgetsInvariant, PTL

(* A widget that was created in its place and stays there, with all its    *)
(* ancestors, is where its ancestors' positions add up to, modulo 2^32.    *)
THEOREM BoundsAreAbsolute == WidgetSpec => []BoundsAbsolute
<1>1. ASSUME WidgetInv PROVE BoundsAbsolute
  <2>1. Forest(link, Live) /\ BoundsInv /\ UpTyped(link.parent, Live)
    BY <1>1 DEF WidgetInv, Forest
  <2>2. ASSUME NEW w \in Live
        PROVE  Ancestors(w) \ {w} = Anc(link.parent, Live, link.parent[w])
    <3>1. Anc(link.parent, Live, w) = {w} \cup Anc(link.parent, Live, link.parent[w])
      BY <2>1, AncUnfold
    <3>2. w \notin Anc(link.parent, Live, link.parent[w])
      BY <2>1 DEF Forest
    <3> QED
      BY <3>1, <3>2, AncestorsAre
  <2>3. ASSUME NEW w \in Live \ moved
        PROVE  absolute[w] = Shifted(bounds[w], Restrict(bounds, Ancestors(w) \ {w}))
    <3>1. absolute[w] = Shifted(bounds[w], Restrict(bounds, Anc(link.parent, Live, link.parent[w])))
      BY <2>1 DEF BoundsInv
    <3> QED
      BY <2>2, <3>1
  <2> QED
    BY <2>3 DEF BoundsAbsolute
<1>2. WidgetInv => BoundsAbsolute
  BY <1>1
<1> QED
  BY <1>2, WidgetsInvariant, PTL

(* An event reaches widgets of the tree below the root only that contain   *)
(* its position, each once, and none after the one that handles it.        *)
THEOREM EventsStayInside == WidgetSpec => []EventsInside
<1>1. ASSUME WidgetInv PROVE EventsInside
  <2>1. EventInv
    BY <1>1 DEF WidgetInv
  <2>2. got \in Seq(Live) /\ DOMAIN got = 1..Len(got) /\ \A i \in 1..Len(got) : got[i] \in Live
    BY <2>1 DEF EventInv
  <2>3. \A i \in 1..Len(got) : got[i] \in Below(Root)
    BY <2>1, <2>2, BelowIs DEF EventInv
  <2> QED
    BY <2>1, <2>2, <2>3 DEF EventInv, EventsInside
<1>2. WidgetInv => EventsInside
  BY <1>1
<1> QED
  BY <1>2, WidgetsInvariant, PTL

-----------------------------------------------------------------------------
(* The widgets as the ordered forest of WidgetTree *)

(* The same of RemoveAt here. *)
LEMMA RemoveAtShifts ==
    ASSUME NEW S, NEW s \in Seq(S), NEW i \in 1..Len(s)
    PROVE  /\ RemoveAt(s, i) \in Seq(S) /\ Len(RemoveAt(s, i)) = Len(s) - 1
           /\ \A j \in 1..(Len(s) - 1) : RemoveAt(s, i)[j] = IF j < i THEN s[j] ELSE s[j + 1]
<1>1. RemoveAt(s, i) = StackSpec!RemoveAt(s, i)
  BY DEF RemoveAt, StackSpec!RemoveAt
<1> QED
  BY <1>1, RemoveAtSeq

(* The list s without c. *)
Minus(s, c) == IF c \in Range(s) THEN RemoveAt(s, CHOOSE i \in DOMAIN s : s[i] = c) ELSE s

(* A list without one of its elements. *)
LEMMA MinusCut ==
    ASSUME NEW L, NEW s \in Seq(L), NEW k \in 1..Len(s), \A j \in 1..Len(s) : s[j] = s[k] => j = k
    PROVE  Minus(s, s[k]) = CutAt(s, k)
<1>1. /\ RemoveAt(s, k) \in Seq(L) /\ Len(RemoveAt(s, k)) = Len(s) - 1
      /\ \A j \in 1..(Len(s) - 1) : RemoveAt(s, k)[j] = IF j < k THEN s[j] ELSE s[j + 1]
  BY RemoveAtShifts
<1>2. /\ CutAt(s, k) \in Seq(L) /\ Len(CutAt(s, k)) = Len(s) - 1
      /\ \A j \in 1..(Len(s) - 1) : CutAt(s, k)[j] = IF j < k THEN s[j] ELSE s[j + 1]
  BY CutSeq
<1>3. RemoveAt(s, k) = CutAt(s, k)
  <2>1. PICK a : a = RemoveAt(s, k)
    OBVIOUS
  <2>2. PICK b : b = CutAt(s, k)
    OBVIOUS
  <2>3. /\ a \in Seq(L) /\ b \in Seq(L) /\ Len(a) = Len(b)
        /\ \A j \in 1..Len(a) : a[j] = b[j]
    BY <1>1, <1>2, <2>1, <2>2
  <2>4. a = b
    BY <2>3, SeqEqual
  <2> QED
    BY <2>1, <2>2, <2>4
<1>4. DOMAIN s = 1..Len(s) /\ s[k] \in Range(s) /\ (CHOOSE i \in DOMAIN s : s[i] = s[k]) = k
  <2>1. DOMAIN s = 1..Len(s)
    OBVIOUS
  <2>2. \A i : (i \in DOMAIN s /\ s[i] = s[k]) <=> i = k
    BY <2>1
  <2>3. (CHOOSE i \in DOMAIN s : s[i] = s[k]) = k
    BY <2>1, <2>2
  <2> QED
    BY <2>1, <2>3 DEF Range
<1> HIDE DEF CutAt
<1> QED
  BY <1>3, <1>4 DEF Minus

(* The list of a widget's children. *)
LEMMA ListIs ==
    ASSUME NEW l, NEW L, Forest(l, L), NEW q \in L
    PROVE  /\ List(l, q) \in Seq(L) /\ Spells(l, L, q, List(l, q))
           /\ \A x \in L : x \in Range(List(l, q)) <=> l.parent[x] = q
           /\ Range(List(l, q)) \subseteq L
<1>1. PICK s \in Seq(L) : Spells(l, L, q, s)
  BY DEF Forest
<1>2. List(l, q) = s
  <2>1. L \in SUBSET Addresses
    BY DEF Forest
  <2> QED
    BY <1>1, <2>1, ListSpelled
<1>3. \A x \in L : x \in Range(s) <=> l.parent[x] = q
  <2>1. DOMAIN s = 1..Len(s)
    OBVIOUS
  <2>2. \A x : x \in Range(s) <=> \E i \in 1..Len(s) : s[i] = x
    BY <2>1 DEF Range
  <2> QED
    BY <1>1, <2>2 DEF Spells
<1>4. Range(s) \subseteq L
  BY DEF Range
<1> QED
  BY <1>1, <1>2, <1>3, <1>4

(* The lists after ui_create_widget. *)
LEMMA JoinLists ==
    ASSUME NEW l, NEW L, Forest(l, L), NEW m, NEW M, NEW w \in M, NEW p, Joined(l, L, m, M, w, p)
    PROVE  /\ List(m, w) = <<>>
           /\ \A q \in L : List(m, q) = IF q = p THEN <<w>> \o List(l, q) ELSE List(l, q)
<1>1. Forest(m, M) /\ Spells(m, M, w, <<>>) /\ M \in SUBSET Addresses
  BY DEF Joined, Forest
<1>2. List(m, w) = <<>>
  <2>1. <<>> \in Seq(M)
    OBVIOUS
  <2> QED
    BY <1>1, <2>1, ListSpelled
<1>3. ASSUME NEW q \in L
      PROVE  List(m, q) = IF q = p THEN <<w>> \o List(l, q) ELSE List(l, q)
  <2>1. PICK s : s = List(l, q)
    OBVIOUS
  <2>2. PICK t : t = IF q = p THEN <<w>> \o s ELSE s
    OBVIOUS
  <2>3. s \in Seq(L) /\ Spells(l, L, q, s)
    BY <2>1, ListIs
  <2>4. Spells(m, M, q, t)
    BY <2>2, <2>3 DEF Joined
  <2>5. t \in Seq(M)
    BY <2>4 DEF Spells
  <2>6. List(m, q) = t
    BY <1>1, <2>4, <2>5, ListSpelled
  <2> QED
    BY <2>1, <2>2, <2>6
<1> QED
  BY <1>2, <1>3

(* The lists after ui_add_child. *)
LEMMA GainLists ==
    ASSUME NEW l, NEW L, Forest(l, L), NEW m, NEW p, NEW c, Gained(l, L, m, p, c), NEW q \in L
    PROVE  List(m, q) = IF q = p THEN <<c>> \o List(l, q) ELSE List(l, q)
<1>1. L \in SUBSET Addresses
  BY DEF Forest
<1>2. PICK s : s = List(l, q)
  OBVIOUS
<1>3. PICK t : t = IF q = p THEN <<c>> \o s ELSE s
  OBVIOUS
<1>4. s \in Seq(L) /\ Spells(l, L, q, s)
  BY <1>2, ListIs
<1>5. Spells(m, L, q, t)
  BY <1>3, <1>4 DEF Gained
<1>6. t \in Seq(L)
  BY <1>5 DEF Spells
<1>7. List(m, q) = t
  BY <1>1, <1>5, <1>6, ListSpelled
<1> QED
  BY <1>2, <1>3, <1>7

(* The lists after ui_remove_child. *)
LEMMA PartLists ==
    ASSUME NEW l, NEW L, Forest(l, L), NEW m, NEW c \in L, Parted(l, L, m, c), NEW q \in L
    PROVE  List(m, q) = Minus(List(l, q), c)
<1>1. L \in SUBSET Addresses
  BY DEF Forest
<1>2. PICK s : s = List(l, q)
  OBVIOUS
<1>3. s \in Seq(L) /\ Spells(l, L, q, s) /\ DOMAIN s = 1..Len(s)
  <2>1. s \in Seq(L) /\ Spells(l, L, q, s)
    BY <1>2, ListIs
  <2> QED
    BY <2>1
<1>4. \A x : x \in Range(s) <=> \E i \in 1..Len(s) : s[i] = x
  BY <1>3 DEF Range
<1>5. /\ \A k \in 1..Len(s) : s[k] = c => Spells(m, L, q, CutAt(s, k))
      /\ (\A k \in 1..Len(s) : s[k] # c) => Spells(m, L, q, s)
  BY <1>3 DEF Parted
<1>6. CASE c \notin Range(s)
  <2>1. Spells(m, L, q, s)
    BY <1>4, <1>5, <1>6
  <2>2. List(m, q) = s
    BY <1>1, <1>3, <2>1, ListSpelled
  <2> QED
    BY <1>2, <1>6, <2>2 DEF Minus
<1>7. CASE c \in Range(s)
  <2>1. PICK k \in 1..Len(s) : s[k] = c
    BY <1>4, <1>7
  <2>2. CutAt(s, k) \in Seq(L) /\ Spells(m, L, q, CutAt(s, k))
    BY <1>3, <1>5, <2>1, CutSeq
  <2>3. List(m, q) = CutAt(s, k)
    BY <1>1, <2>2, ListSpelled
  <2>4. \A j \in 1..Len(s) : s[j] = s[k] => j = k
    BY <1>3 DEF Spells
  <2>5. Minus(s, s[k]) = CutAt(s, k)
    BY <1>3, <2>4, MinusCut
  <2> QED
    BY <1>2, <2>1, <2>3, <2>5
<1> QED
  BY <1>6, <1>7

(* What is below a widget is the least set with it that has the children   *)
(* of its members.                                                         *)
LEMMA SubtreeIs ==
    ASSUME NEW l, NEW L, Forest(l, L), NEW w \in L
    PROVE  {u \in L : w \in Anc(l.parent, L, u)} =
              {u \in L : \A S \in SUBSET L :
                            (w \in S /\ \A p \in S : Range(List(l, p)) \subseteq S) => u \in S}
<1> DEFINE P == l.parent
           B == {u \in L : w \in Anc(P, L, u)}
           Down(S) == w \in S /\ \A p \in S : Range(List(l, p)) \subseteq S
<1>1. UpTyped(P, L) /\ Null \notin L
  BY DEF Forest, UpTyped
<1>2. \A p \in L : \A x \in L : x \in Range(List(l, p)) <=> P[x] = p
  BY ListIs
<1>3. \A p \in L : Range(List(l, p)) \subseteq L
  BY ListIs
<1>4. Down(B) /\ B \in SUBSET L
  <2>1. w \in B
    BY <1>1, AncUnfold
  <2>2. ASSUME NEW p \in B, NEW x \in Range(List(l, p)) PROVE x \in B
    <3>1. p \in L /\ x \in L /\ P[x] = p
      BY <1>2, <1>3
    <3>2. Anc(P, L, p) \subseteq Anc(P, L, x)
      BY <1>1, <3>1, AncUnfold
    <3> QED
      BY <3>1, <3>2
  <2> QED
    BY <2>1, <2>2
<1>5. ASSUME NEW u \in B, NEW S \in SUBSET L, Down(S) PROVE u \in S
  <2> SUFFICES ASSUME u \notin S PROVE FALSE
    OBVIOUS
  <2> DEFINE A == (L \ S) \cup {Null}
  <2>1. A \in SUBSET (L \cup {Null}) /\ u \in A /\ w \notin A
    BY <1>1, <1>5
  <2>2. ASSUME NEW x \in L \ S PROVE P[x] \in A
    <3>1. P[x] \in L \cup {Null}
      BY <1>1 DEF UpTyped
    <3>2. P[x] \in S => x \in S
      BY <1>2, <1>5
    <3> QED
      BY <3>1, <3>2
  <2>3. UpClosed(P, A)
    BY <2>2 DEF UpClosed
  <2> HIDE DEF A
  <2>4. Anc(P, L, u) \subseteq A
    BY <2>1, <2>3, AncLeast
  <2> QED
    BY <2>1, <2>4
<1> QED
  BY <1>4, <1>5


(* The children of the widgets that are not doomed. *)
Kids == [w \in Live \ doomed |-> List(link, w)]

(* While no widget is being destroyed all have their children there. *)
LEMMA KidsNow ==
    ASSUME WidgetInv, Client
    PROVE  /\ doomed = {} /\ DOMAIN Kids = Live /\ \A q \in Live : Kids[q] = List(link, q)
<1>1. doomed = {}
  BY ClientFinds
<1> QED
  BY <1>1 DEF Kids

(* Steps that leave the links and what is doomed keep the children. *)
LEMMA KidsKept ==
    ASSUME link' = link, Live' \ doomed' = Live \ doomed
    PROVE  Kids' = Kids
BY DEF Kids

(* A new widget. *)
LEMMA NewRefines ==
    ASSUME WidgetInv, NEW w \in Addresses, NEW p \in Addresses \cup {Null},
           NEW r \in ui_rect_t, NEW answer, ui_create_widget(w, p, r, answer)
    PROVE  Tree!Next
<1>1. /\ Client /\ w \notin Live /\ p \in Live \cup {Null} /\ link' = Created(link, w, p)
      /\ bounds' = With(bounds, w, r) /\ doomed' = doomed
  BY DEF ui_create_widget, Created, destroy
<1>2. Forest(link, Live) /\ Null \notin Live
  BY <1>1, ClientFinds
<1>3. Live' = Live \cup {w}
  BY <1>1 DEF With, Live
<1>4. Joined(link, Live, link', Live \cup {w}, w, p)
  <2>1. w \in Addresses \ Live
    BY <1>1
  <2> QED
    BY <1>1, <1>2, <2>1, CreateForest
<1>5. /\ List(link', w) = <<>>
      /\ \A q \in Live : List(link', q) = IF q = p THEN <<w>> \o List(link, q) ELSE List(link, q)
  <2>1. PICK M : M = Live \cup {w}
    OBVIOUS
  <2>2. w \in M /\ Joined(link, Live, link', M, w, p)
    BY <1>4, <2>1
  <2> QED
    BY <1>2, <2>2, JoinLists
<1>6. /\ doomed = {} /\ DOMAIN Kids = Live /\ \A q \in Live : Kids[q] = List(link, q)
  BY <1>1, KidsNow
<1>7. Kids' = [q \in Live \cup {w} |-> List(link', q)]
  BY <1>1, <1>3, <1>6 DEF Kids
<1>8. CASE p = Null
  <2>1. Kids' = [q \in Live \cup {w} |-> IF q = w THEN <<>> ELSE Kids[q]]
    BY <1>1, <1>2, <1>5, <1>6, <1>7, <1>8
  <2>2. Tree!Create(w)
    BY <1>1, <1>6, <2>1 DEF Tree!Create, Tree!Live, Kids
  <2> QED
    BY <2>2 DEF Tree!Next
<1>9. CASE p # Null
  <2>1. Kids' = [q \in Live \cup {w} |-> IF q = w THEN <<>>
                                         ELSE IF q = p THEN <<w>> \o Kids[q] ELSE Kids[q]]
    BY <1>1, <1>5, <1>6, <1>7
  <2>2. p \in Live /\ p \in Addresses
    BY <1>1, <1>2, <1>9
  <2>3. Tree!CreateIn(w, p)
    BY <1>1, <1>6, <2>1, <2>2 DEF Tree!CreateIn, Tree!Live, Kids
  <2> QED
    BY <2>2, <2>3 DEF Tree!Next
<1> QED
  BY <1>8, <1>9

(* The subtree of a widget is what is below it. *)
LEMMA SubtreeBelow ==
    ASSUME WidgetInv, Client, NEW w \in Live
    PROVE  Tree!Subtree(w) = Below(w)
<1>1. doomed = {} /\ DOMAIN Kids = Live /\ \A q \in Live : Kids[q] = List(link, q)
  BY KidsNow
<1>2. Forest(link, Live)
  BY DEF WidgetInv
<1>3. Tree!Subtree(w) =
         {u \in Live : \A S \in SUBSET Live :
             (w \in S /\ \A p \in S : Range(List(link, p)) \subseteq S) => u \in S}
  <2>1. Tree!Subtree(w) =
           {u \in DOMAIN Kids : \A S \in SUBSET DOMAIN Kids :
               (w \in S /\ \A p \in S : Range(Kids[p]) \subseteq S) => u \in S}
    BY DEF Tree!Subtree, Tree!Live, Tree!Children, Tree!Range, Range, Kids
  <2> QED
    BY <1>1, <2>1
<1>4. Below(w) = {u \in Live : w \in Anc(link.parent, Live, u)}
  BY AncestorsAre DEF Below
<1> QED
  BY <1>2, <1>3, <1>4, SubtreeIs

(* A client's ui_add_child. *)
LEMMA AddRefines ==
    ASSUME WidgetInv, NEW p \in Addresses, NEW c \in Addresses, AddChild(p, c)
    PROVE  Tree!Next
<1>1. /\ Client /\ c \in Live \ {Root} /\ link.parent[c] = Null /\ p \in Live /\ p \notin Below(c)
      /\ link' = ui_add_child(link, p, c) /\ bounds' = bounds /\ doomed' = doomed
  BY DEF AddChild, destroy
<1>2. Forest(link, Live) /\ Null \notin Live
  BY <1>1, ClientFinds
<1>3. Live' = Live
  BY <1>1 DEF Live
<1>4. c \notin Anc(link.parent, Live, p)
  BY <1>1, BelowIs
<1>5. Gained(link, Live, link', p, c)
  BY <1>1, <1>2, <1>4, GainForest
<1>6. \A q \in Live : List(link', q) = IF q = p THEN <<c>> \o List(link, q) ELSE List(link, q)
  BY <1>2, <1>5, GainLists
<1>7. /\ doomed = {} /\ DOMAIN Kids = Live /\ \A q \in Live : Kids[q] = List(link, q)
  BY <1>1, KidsNow
<1>8. Kids' = [q \in Live |-> List(link', q)]
  BY <1>1, <1>3, <1>7 DEF Kids
<1>9. Kids' = [Kids EXCEPT ![p] = <<c>> \o @]
  BY <1>1, <1>6, <1>7, <1>8 DEF Kids
<1>10. c \in Tree!Orphans
  <2>1. \A q \in Live : c \notin Range(List(link, q))
    BY <1>1, <1>2, ListIs
  <2>2. \A q \in Live : c \notin Range(Kids[q])
    BY <1>7, <2>1
  <2> QED
    BY <1>1, <1>7, <2>2 DEF Tree!Orphans, Tree!Live, Tree!Children, Tree!Range, Range, Kids
<1>11. p \notin Tree!Subtree(c)
  BY <1>1, SubtreeBelow
<1>12. Tree!Attach(c, p)
  BY <1>1, <1>7, <1>9, <1>10, <1>11 DEF Tree!Attach, Tree!Live, Kids
<1> QED
  BY <1>12 DEF Tree!Next

(* A list as Without leaves it. *)
LEMMA WithoutIs ==
    ASSUME NEW q, NEW c
    PROVE  Tree!Without(q, c) = Minus(Kids[q], c)
BY DEF Tree!Without, Tree!Children, Tree!Range, Tree!RemoveAt, Minus, Range, RemoveAt, Kids

(* A client's ui_remove_child. *)
LEMMA RemoveRefines ==
    ASSUME WidgetInv, NEW c \in Addresses, RemoveChild(c)
    PROVE  Tree!Next
<1>1. /\ Client /\ c \in Live /\ link' = Entered(link, c) /\ bounds' = bounds /\ doomed' = doomed
  BY DEF RemoveChild, places, destroy, Entered
<1>2. Forest(link, Live)
  BY <1>1, ClientFinds
<1>3. Live' = Live
  BY <1>1 DEF Live
<1>4. Parted(link, Live, link', c)
  BY <1>1, <1>2, PartForest
<1>5. \A q \in Live : List(link', q) = Minus(List(link, q), c)
  BY <1>1, <1>2, <1>4, PartLists
<1>6. /\ doomed = {} /\ DOMAIN Kids = Live /\ \A q \in Live : Kids[q] = List(link, q)
  BY <1>1, KidsNow
<1>7. Kids' = [q \in Live |-> List(link', q)]
  BY <1>1, <1>3, <1>6 DEF Kids
<1>8. Kids' = [q \in Live |-> Tree!Without(q, c)]
  <2>1. \A q \in Live : List(link', q) = Tree!Without(q, c)
    BY <1>5, <1>6, WithoutIs
  <2> QED
    BY <1>7, <2>1
<1>9. Tree!Detach(c)
  BY <1>1, <1>6, <1>8 DEF Tree!Detach, Tree!Live, Kids
<1> QED
  BY <1>9 DEF Tree!Next

(* The call of ui_destroy_widget takes the whole subtree away. *)
LEMMA DestroyRefines ==
    ASSUME WidgetInv, NEW w \in Addresses, ui_destroy_widget(w)
    PROVE  Tree!Next
<1>1. /\ Client /\ w \in Live /\ link' = Entered(link, w) /\ doomed' = Below(w) /\ bounds' = bounds
  BY DEF ui_destroy_widget, Enter, places, Entered
<1>2. Forest(link, Live)
  BY <1>1, ClientFinds
<1>3. Live' = Live
  BY <1>1 DEF Live
<1>4. Parted(link, Live, link', w)
  BY <1>1, <1>2, PartForest
<1>5. \A q \in Live : List(link', q) = Minus(List(link, q), w)
  BY <1>1, <1>2, <1>4, PartLists
<1>6. /\ doomed = {} /\ DOMAIN Kids = Live /\ \A q \in Live : Kids[q] = List(link, q)
  BY <1>1, KidsNow
<1>7. Kids' = [q \in Live \ Below(w) |-> List(link', q)]
  BY <1>1, <1>3 DEF Kids
<1>8. Kids' = [q \in Live \ Tree!Subtree(w) |-> Tree!Without(q, w)]
  <2>1. \A q \in Live : List(link', q) = Tree!Without(q, w)
    BY <1>5, <1>6, WithoutIs
  <2>2. Tree!Subtree(w) = Below(w)
    BY <1>1, SubtreeBelow
  <2> QED
    BY <1>7, <2>1, <2>2
<1>9. Tree!Destroy(w)
  BY <1>1, <1>6, <1>8 DEF Tree!Destroy, Tree!Live, Kids
<1> QED
  BY <1>9 DEF Tree!Next

(* The destruction of the descendants is not seen. *)
LEMMA ChildUnseen ==
    ASSUME WidgetInv, DestroyChild
    PROVE  Kids' = Kids
<1>1. PICK c : c = link.children[Last(calls)]
  OBVIOUS
<1>2. /\ Live' = Live /\ calls # <<>> /\ c \in Live /\ link.parent[c] = Last(calls)
      /\ Parted(link, Live, link', c) /\ doomed' = doomed
  BY <1>1, ChildLeaves
<1>3. Last(calls) \in doomed
  BY <1>2, LastCall
<1>4. Forest(link, Live)
  BY DEF WidgetInv
<1>5. ASSUME NEW q \in Live \ doomed PROVE List(link', q) = List(link, q)
  <2>1. c \notin Range(List(link, q))
    BY <1>2, <1>3, <1>4, ListIs
  <2>2. List(link', q) = Minus(List(link, q), c)
    BY <1>2, <1>4, PartLists
  <2> QED
    BY <2>1, <2>2 DEF Minus
<1> QED
  BY <1>2, <1>5 DEF Kids

(* Every step is one of the forest or changes nothing there. *)
LEMMA WidgetStepRefines ==
    ASSUME WidgetInv, [WidgetNext]_widgetVars
    PROVE  Tree!Next \/ Kids' = Kids
<1>1. ASSUME NEW w \in Addresses, NEW p \in Addresses \cup {Null}, NEW k \in Kinds,
             ui_create_widget(w, p, k.bounds, k.on_event)
      PROVE  Tree!Next
  <2>1. k.bounds \in ui_rect_t
    BY KindBounds
  <2> QED
    BY <1>1, <2>1, NewRefines
<1>2. ASSUME NEW p \in Addresses, NEW w \in Addresses, AddChild(p, w) PROVE Tree!Next
  BY <1>2, AddRefines
<1>3. ASSUME NEW w \in Addresses, RemoveChild(w) PROVE Tree!Next
  BY <1>3, RemoveRefines
<1>4. ASSUME NEW w \in Addresses, ui_destroy_widget(w) PROVE Tree!Next
  BY <1>4, DestroyRefines
<1>5. CASE DestroyChild
  BY <1>5, ChildUnseen
<1>6. CASE DestroyReturn
  <2>1. calls # <<>>
    BY <1>6 DEF DestroyReturn
  <2>2. Last(calls) \in doomed
    BY <2>1, LastCall
  <2>3. /\ link' = link /\ bounds' = Restrict(bounds, Live \ {Last(calls)})
        /\ doomed' = doomed \cap (Live \ {Last(calls)})
    BY <1>6 DEF DestroyReturn
  <2>4. Live' = Live \ {Last(calls)}
    BY <2>3 DEF Restrict, Live
  <2>5. Live' \ doomed' = Live \ doomed
    BY <2>2, <2>3, <2>4
  <2> QED
    BY <2>3, <2>5, KidsKept
<1>7. ASSUME UNCHANGED <<link, bounds, doomed>> PROVE Kids' = Kids
  <2>1. Live' = Live
    BY <1>7 DEF Live
  <2> QED
    BY <1>7, <2>1, KidsKept
<1>8. ASSUME NEW at \in Points, ui_post_event(at) PROVE Kids' = Kids
  BY <1>7, <1>8 DEF ui_post_event, places, destroy
<1>9. CASE Offer
  BY <1>7, <1>9 DEF Offer, places, destroy
<1>10. CASE Pass
  BY <1>7, <1>10 DEF Pass, places, destroy
<1>11. ASSUME NEW w \in Addresses \cup {Null}, ui_set_focus(w) PROVE Kids' = Kids
  BY <1>7, <1>11 DEF ui_set_focus, places, destroy
<1>12. CASE UNCHANGED widgetVars
  BY <1>7, <1>12 DEF widgetVars, places, destroy
<1> QED
  BY <1>1, <1>2, <1>3, <1>4, <1>5, <1>6, <1>8, <1>9, <1>10, <1>11, <1>12 DEF WidgetNext

(* The root alone. *)
LEMMA WidgetInitRefines == ui_init => Tree!Init
<1> SUFFICES ASSUME ui_init PROVE Tree!Init
  OBVIOUS
<1>1. WidgetInv /\ doomed = {} /\ Live = {Root} /\ Root \in Addresses /\ Root # Null
      /\ link.children[Root] = Null /\ Forest(link, Live)
  BY WidgetInit, WidgetsAssumption DEF ui_init, Live, WidgetInv
<1>2. List(link, Root) = <<>>
  <2>1. PICK s \in Seq(Live) : Spells(link, Live, Root, s)
    BY <1>1 DEF Forest
  <2>2. s = <<>>
    BY <1>1, <2>1 DEF Spells
  <2>3. Live \in SUBSET Addresses
    BY <1>1
  <2> QED
    BY <2>1, <2>2, <2>3, ListSpelled
<1>3. [w \in Live \ doomed |-> List(link, w)] = [w \in {Root} |-> <<>>]
  BY <1>1, <1>2
<1> QED
  BY <1>3 DEF Tree!Init

(* The linked widgets are the ordered forest of WidgetTree: a new or added *)
(* widget becomes its parent's first child, a removed or destroyed one     *)
(* leaves the list of its parent, the latter with its whole subtree, and   *)
(* all other lists stay as they are.                                       *)
THEOREM LinksImplementTree == WidgetSpec => ImplementsTree
<1>1. ui_init => Tree!Init
  BY WidgetInitRefines
<1>2. WidgetInv /\ [WidgetNext]_widgetVars => [Tree!Next]_Kids
  BY WidgetStepRefines
<1>3. WidgetInv /\ [WidgetNext]_widgetVars => [Tree!Next]_([w \in Live \ doomed |-> List(link, w)])
  BY <1>2 DEF Kids
<1> QED
  BY <1>1, <1>3, WidgetsInvariant, PTL DEF WidgetSpec, ImplementsTree, Tree!Spec

-----------------------------------------------------------------------------
(* The tables of the shell *)

(* Find returns the index i of the first entry with the name n. *)
FirstOf(t, n, i) ==
    /\ i \in 1..Len(t) /\ t[i].name = n
    /\ \A j \in 1..Len(t) : t[j].name = n => i <= j

(* What the search of a table finds. *)
LEMMA FindFirst ==
    ASSUME NEW S, NEW t \in Seq(S), NEW n
    PROVE  /\ (\A j \in 1..Len(t) : t[j].name # n) => Find(t, n) = 0
           /\ (\E j \in 1..Len(t) : t[j].name = n) => Find(t, n) > 0 /\ FirstOf(t, n, Find(t, n))
<1> DEFINE I == {i \in 1..Len(t) : t[i].name = n}
<1>1. Find(t, n) = IF I # {} THEN Min(I) ELSE 0
  BY DEF Find, SelectInSeq
<1>2. ASSUME I # {} PROVE Min(I) \in I /\ \A j \in I : Min(I) <= j
  <2>1. I \in SUBSET Nat
    OBVIOUS
  <2> HIDE DEF I
  <2>2. \E a \in I : \A b \in I : a <= b
    BY <1>2, <2>1, LeastNat
  <2> QED
    BY <2>2 DEF Min
<1> QED
  BY <1>1, <1>2 DEF FirstOf

(* The first entry is the only thing Find can return. *)
LEMMA FindIs ==
    ASSUME NEW S, NEW t \in Seq(S), NEW n, NEW i, FirstOf(t, n, i)
    PROVE  Find(t, n) = i
<1>1. FirstOf(t, n, Find(t, n))
  BY FindFirst DEF FirstOf
<1>2. i \in Int /\ Find(t, n) \in Int /\ i <= Find(t, n) /\ Find(t, n) <= i
  BY <1>1 DEF FirstOf
<1> QED
  BY <1>2

(* Either the name is not in the table or Find returns its first entry. *)
LEMMA FindCases ==
    ASSUME NEW S, NEW t \in Seq(S), NEW n
    PROVE  \/ Find(t, n) = 0 /\ \A j \in 1..Len(t) : t[j].name # n
           \/ Find(t, n) > 0 /\ FirstOf(t, n, Find(t, n))
BY FindFirst

(* Tables with the same names have the same first entries. *)
LEMMA SameNames ==
    ASSUME NEW S, NEW t \in Seq(S), NEW u \in Seq(S), Len(u) = Len(t),
           \A j \in 1..Len(t) : u[j].name = t[j].name, NEW n
    PROVE  Find(u, n) = Find(t, n)
<1>1. CASE Find(t, n) = 0 /\ \A j \in 1..Len(t) : t[j].name # n
  BY <1>1, FindFirst
<1>2. CASE FirstOf(t, n, Find(t, n))
  <2>1. PICK i : i = Find(t, n)
    OBVIOUS
  <2>2. FirstOf(u, n, i)
    BY <1>2, <2>1 DEF FirstOf
  <2> QED
    BY <2>1, <2>2, FindIs
<1> QED
  BY <1>1, <1>2, FindCases

(* A new last entry is found only under a name that was not there. *)
LEMMA FindAppended ==
    ASSUME NEW S, NEW t \in Seq(S), NEW e \in S, NEW n
    PROVE  Find(Append(t, e), n) = IF Find(t, n) = 0 /\ e.name = n THEN Len(t) + 1 ELSE Find(t, n)
<1> DEFINE u == Append(t, e)
<1>1. /\ u \in Seq(S) /\ Len(t) \in Nat /\ Len(u) = Len(t) + 1
      /\ \A j \in 1..(Len(t) + 1) : u[j] = IF j = Len(t) + 1 THEN e ELSE t[j]
  OBVIOUS
<1> HIDE DEF u
<1>2. CASE Find(t, n) = 0 /\ \A j \in 1..Len(t) : t[j].name # n
  <2>1. CASE e.name = n
    <3>1. FirstOf(u, n, Len(t) + 1)
      BY <1>1, <1>2, <2>1 DEF FirstOf
    <3>2. Find(u, n) = Len(t) + 1
      BY <1>1, <3>1, FindIs
    <3> QED
      BY <1>2, <2>1, <3>2 DEF u
  <2>2. CASE e.name # n
    <3>1. \A j \in 1..Len(u) : u[j].name # n
      BY <1>1, <1>2, <2>2
    <3>2. Find(u, n) = 0
      BY <1>1, <3>1, FindFirst
    <3> QED
      BY <1>2, <2>2, <3>2 DEF u
  <2> QED
    BY <2>1, <2>2
<1>3. CASE Find(t, n) > 0 /\ FirstOf(t, n, Find(t, n))
  <2>1. PICK i : i = Find(t, n)
    OBVIOUS
  <2>2. i \in 1..Len(t) /\ t[i].name = n /\ \A j \in 1..Len(t) : t[j].name = n => i <= j
    BY <1>3, <2>1 DEF FirstOf
  <2>3. FirstOf(u, n, i)
    <3>1. i \in 1..Len(u) /\ u[i].name = n
      BY <1>1, <2>2
    <3>2. ASSUME NEW j \in 1..Len(u), u[j].name = n PROVE i <= j
      <4>1. j \in 1..Len(t) \/ j = Len(t) + 1
        BY <1>1
      <4> QED
        BY <1>1, <2>2, <3>2, <4>1
    <3> QED
      BY <3>1, <3>2 DEF FirstOf
  <2>4. Find(u, n) = i /\ i # 0
    BY <1>1, <2>2, <2>3, FindIs
  <2> QED
    BY <2>1, <2>4 DEF u
<1> QED
  BY <1>2, <1>3, FindCases

(* Tables of variables with names of N and values of V: within the bound,  *)
(* no name twice.                                                          *)
Variables(N, V) ==
    {t \in Seq([name : N, value : V, exported : BOOLEAN]) :
        Len(t) <= MaxVars /\ \A i, j \in 1..Len(t) : t[i].name = t[j].name => i = j}

(* An assignment reaches its variable unless the table is full of others,  *)
(* leaves all other variables alone and enters no name twice               *)
(* (shell_set_variable, shell_get_variable).                               *)
THEOREM AssignmentReaches ==
    ASSUME NEW N, NEW V, NEW t \in Variables(N, V), NEW n \in N, NEW v \in V
    PROVE  LET u == shell_set_variable(t, n, v)
           IN /\ u \in Variables(N, V)
              /\ \/ shell_get_variable(u, n) = v
                 \/ u = t /\ Len(t) = MaxVars /\ \A i \in 1..Len(t) : t[i].name # n
              /\ \A m \in N \ {n} : shell_get_variable(u, m) = shell_get_variable(t, m)
<1> DEFINE E == [name : N, value : V, exported : BOOLEAN]
           u == shell_set_variable(t, n, v)
           i == Find(t, n)
<1>1. /\ t \in Seq(E) /\ Len(t) \in Nat /\ Len(t) <= MaxVars /\ MaxVars \in Nat
      /\ \A a, b \in 1..Len(t) : t[a].name = t[b].name => a = b
  BY TablesAssumption DEF Variables
<1>2. \A a \in 1..Len(t) : t[a] \in E
  <2> HIDE DEF E
  <2> QED
    BY <1>1
<1>3. CASE i > 0 /\ FirstOf(t, n, i)
  <2>1. i \in 1..Len(t) /\ t[i].name = n
    BY <1>3 DEF FirstOf
  <2>2. u = [t EXCEPT ![i].value = v]
    BY <1>3 DEF shell_set_variable
  <2> HIDE DEF i, u
  <2>3. /\ DOMAIN t = 1..Len(t) /\ Len(u) = Len(t)
        /\ \A a \in 1..Len(t) : u[a] = IF a = i THEN [t[a] EXCEPT !.value = v] ELSE t[a]
    BY <1>1, <2>1, <2>2
  <2>4. ASSUME NEW a \in 1..Len(t)
        PROVE  /\ u[a] \in E /\ u[a].name = t[a].name
               /\ u[a].value = IF a = i THEN v ELSE t[a].value
    BY <1>2, <2>3
  <2>5. u \in Seq(E)
    <3>1. u = [a \in 1..Len(t) |-> u[a]]
      BY <2>2, <2>3
    <3> HIDE DEF E
    <3> QED
      BY <1>1, <2>4, <3>1, SeqDef
  <2>6. \A m : Find(u, m) = Find(t, m)
    <3> HIDE DEF E
    <3> QED
      BY <1>1, <2>3, <2>4, <2>5, SameNames
  <2>7. u \in Variables(N, V)
    BY <1>1, <2>3, <2>4, <2>5 DEF Variables
  <2>8. shell_get_variable(u, n) = v
    BY <1>3, <2>1, <2>4, <2>6 DEF shell_get_variable, i
  <2>9. ASSUME NEW m \in N \ {n} PROVE shell_get_variable(u, m) = shell_get_variable(t, m)
    <3>1. PICK k : k = Find(t, m)
      OBVIOUS
    <3>2. k = 0 \/ (k > 0 /\ FirstOf(t, m, k))
      BY <1>1, <3>1, FindCases
    <3>3. k > 0 => k \in 1..Len(t) /\ k # i
      BY <2>1, <3>2 DEF FirstOf
    <3>4. shell_get_variable(u, m) = (IF k > 0 THEN u[k].value ELSE <<>>)
      BY <2>6, <3>1 DEF shell_get_variable
    <3>5. shell_get_variable(t, m) = (IF k > 0 THEN t[k].value ELSE <<>>)
      BY <3>1 DEF shell_get_variable
    <3> QED
      BY <2>4, <3>3, <3>4, <3>5
  <2> QED
    BY <2>7, <2>8, <2>9 DEF u
<1>4. CASE i = 0 /\ \A j \in 1..Len(t) : t[j].name # n
  <2> DEFINE e == [name |-> n, value |-> v, exported |-> FALSE]
  <2>1. e \in E /\ e.name = n /\ e.value = v
    OBVIOUS
  <2>2. CASE Len(t) < MaxVars
    <3>1. u = Append(t, e)
      BY <1>4, <2>2 DEF shell_set_variable
    <3> HIDE DEF e, u
    <3>2. /\ u \in Seq(E) /\ Len(u) = Len(t) + 1
          /\ \A a \in 1..(Len(t) + 1) : u[a] = IF a = Len(t) + 1 THEN e ELSE t[a]
      <4> HIDE DEF E
      <4> QED
        BY <1>1, <2>1, <3>1
    <3>3. \A m : Find(u, m) = IF Find(t, m) = 0 /\ n = m THEN Len(t) + 1 ELSE Find(t, m)
      <4> HIDE DEF E
      <4> QED
        BY <1>1, <2>1, <3>1, FindAppended
    <3>4. ASSUME NEW a \in 1..Len(u), NEW b \in 1..Len(u), u[a].name = u[b].name PROVE a = b
      <4>1. (a \in 1..Len(t) \/ a = Len(t) + 1) /\ (b \in 1..Len(t) \/ b = Len(t) + 1)
        BY <1>1, <3>2
      <4> HIDE DEF E
      <4> QED
        BY <1>1, <1>4, <2>1, <3>2, <3>4, <4>1
    <3>5. u \in Variables(N, V)
      BY <1>1, <2>2, <3>2, <3>4 DEF Variables
    <3>6. shell_get_variable(u, n) = v
      BY <1>1, <1>4, <2>1, <3>2, <3>3 DEF shell_get_variable
    <3>7. ASSUME NEW m \in N \ {n} PROVE shell_get_variable(u, m) = shell_get_variable(t, m)
      <4>1. PICK k : k = Find(t, m)
        OBVIOUS
      <4>2. k = 0 \/ (k > 0 /\ FirstOf(t, m, k))
        BY <1>1, <4>1, FindCases
      <4>3. k > 0 => k \in 1..Len(t) /\ u[k] = t[k]
        BY <1>1, <3>2, <4>2 DEF FirstOf
      <4>4. shell_get_variable(u, m) = (IF k > 0 THEN u[k].value ELSE <<>>)
        BY <3>3, <3>7, <4>1 DEF shell_get_variable
      <4>5. shell_get_variable(t, m) = (IF k > 0 THEN t[k].value ELSE <<>>)
        BY <4>1 DEF shell_get_variable
      <4> QED
        BY <4>3, <4>4, <4>5
    <3> QED
      BY <3>5, <3>6, <3>7 DEF u
  <2>3. CASE ~(Len(t) < MaxVars)
    <3>1. u = t /\ Len(t) = MaxVars
      BY <1>1, <1>4, <2>3 DEF shell_set_variable
    <3> HIDE DEF u
    <3>2. /\ u \in Variables(N, V) /\ u = t
          /\ \A m \in N \ {n} : shell_get_variable(u, m) = shell_get_variable(t, m)
      BY <3>1
    <3> QED
      BY <1>4, <3>1, <3>2 DEF u
  <2> QED
    BY <2>2, <2>3
<1> QED
  BY <1>1, <1>3, <1>4, FindCases

(* Removing a name changes what is found under no other. *)
LEMMA FoundWithout ==
    ASSUME NEW S, NEW t \in Seq(S), NEW n, NEW m, m # n
    PROVE  LET u == Without(t, n)
           IN \/ Find(u, m) = 0 /\ Find(t, m) = 0
              \/ Find(u, m) > 0 /\ Find(t, m) > 0 /\ u[Find(u, m)] = t[Find(t, m)]
<1> DEFINE u == Without(t, n)
           i == Find(t, n)
           k == Find(t, m)
<1>1. CASE i = 0
  <2>1. u = t
    BY <1>1 DEF Without
  <2>2. k = 0 \/ k > 0
    BY FindCases
  <2> QED
    BY <2>1, <2>2
<1>2. CASE i > 0 /\ FirstOf(t, n, i)
  <2>1. Len(t) \in Nat /\ i \in 1..Len(t) /\ t[i].name = n
    BY <1>2 DEF FirstOf
  <2>2. /\ u \in Seq(S) /\ Len(u) = Len(t) - 1
        /\ \A j \in 1..(Len(t) - 1) : u[j] = IF j < i THEN t[j] ELSE t[j + 1]
    <3>1. u = RemoveAt(t, i)
      BY <1>2 DEF Without
    <3> HIDE DEF i, u
    <3> QED
      BY <2>1, <3>1, RemoveAtShifts
  <2> HIDE DEF i, u
  <2>3. CASE k = 0 /\ \A j \in 1..Len(t) : t[j].name # m
    <3>1. ASSUME NEW j \in 1..Len(u) PROVE u[j].name # m
      <4>1. j \in 1..(Len(t) - 1) /\ j \in 1..Len(t) /\ j + 1 \in 1..Len(t)
        BY <2>1, <2>2
      <4> QED
        BY <2>2, <2>3, <4>1
    <3>2. Find(u, m) = 0
      BY <2>2, <3>1, FindFirst
    <3> QED
      BY <2>3, <3>2 DEF u
  <2>4. CASE k > 0 /\ FirstOf(t, m, k)
    <3>1. k \in 1..Len(t) /\ t[k].name = m /\ \A j \in 1..Len(t) : t[j].name = m => k <= j
      BY <2>4 DEF FirstOf
    <3> HIDE DEF k
    <3>2. PICK h : h = IF k < i THEN k ELSE k - 1
      OBVIOUS
    <3>3. k # i /\ h \in 1..(Len(t) - 1) /\ (h < i <=> k < i) /\ (~(h < i) => h + 1 = k)
      BY <2>1, <3>1, <3>2
    <3>4. u[h] = t[k]
      BY <2>2, <3>2, <3>3
    <3>5. ASSUME NEW j \in 1..Len(u), u[j].name = m PROVE h <= j
      <4>1. j \in 1..(Len(t) - 1) /\ j \in 1..Len(t) /\ j + 1 \in 1..Len(t)
        BY <2>1, <2>2
      <4>2. CASE j < i
        <5>1. k <= j
          BY <2>2, <3>1, <3>5, <4>1, <4>2
        <5> QED
          BY <2>1, <3>1, <3>2, <4>1, <4>2, <5>1
      <4>3. CASE ~(j < i)
        <5>1. k <= j + 1
          BY <2>2, <3>1, <3>5, <4>1, <4>3
        <5> QED
          BY <2>1, <3>1, <3>2, <3>3, <4>1, <4>3, <5>1
      <4> QED
        BY <4>2, <4>3
    <3>6. FirstOf(u, m, h)
      BY <2>2, <3>1, <3>3, <3>4, <3>5 DEF FirstOf
    <3>7. Find(u, m) = h /\ h > 0
      BY <2>2, <3>3, <3>6, FindIs
    <3> QED
      BY <2>4, <3>4, <3>7 DEF u, k
  <2> QED
    BY <2>3, <2>4, FindCases DEF k
<1> QED
  BY <1>1, <1>2, FindCases

(* unset forgets its variable, whatever was assigned before, and leaves    *)
(* all others alone although their entries move up (builtin_unset).        *)
THEOREM UnsetForgets ==
    ASSUME NEW N, NEW V, NEW t \in Variables(N, V), NEW n \in N
    PROVE  LET u == Without(t, n)
           IN /\ u \in Variables(N, V)
              /\ shell_get_variable(u, n) = <<>>
              /\ \A m \in N \ {n} : shell_get_variable(u, m) = shell_get_variable(t, m)
<1> DEFINE E == [name : N, value : V, exported : BOOLEAN]
           u == Without(t, n)
           i == Find(t, n)
<1>1. /\ t \in Seq(E) /\ Len(t) \in Nat /\ Len(t) <= MaxVars /\ MaxVars \in Nat
      /\ \A a, b \in 1..Len(t) : t[a].name = t[b].name => a = b
  BY TablesAssumption DEF Variables
<1>2. ASSUME NEW m \in N \ {n} PROVE shell_get_variable(u, m) = shell_get_variable(t, m)
  <2>1. PICK x : x = u
    OBVIOUS
  <2>2. \/ Find(x, m) = 0 /\ Find(t, m) = 0
        \/ Find(x, m) > 0 /\ Find(t, m) > 0 /\ x[Find(x, m)] = t[Find(t, m)]
    BY <1>1, <2>1, FoundWithout
  <2>3. shell_get_variable(x, m) = shell_get_variable(t, m)
    BY <2>2 DEF shell_get_variable
  <2> QED
    BY <2>1, <2>3
<1>3. CASE i = 0
  <2>1. u = t
    BY <1>3 DEF Without
  <2>2. shell_get_variable(t, n) = <<>>
    BY <1>3 DEF shell_get_variable
  <2> QED
    BY <1>2, <2>1, <2>2
<1>4. CASE i > 0 /\ FirstOf(t, n, i)
  <2>1. i \in 1..Len(t) /\ t[i].name = n
    BY <1>4 DEF FirstOf
  <2>2. /\ u \in Seq(E) /\ Len(u) = Len(t) - 1
        /\ \A j \in 1..(Len(t) - 1) : u[j] = IF j < i THEN t[j] ELSE t[j + 1]
    <3>1. u = RemoveAt(t, i)
      BY <1>4 DEF Without
    <3> HIDE DEF i, u, E
    <3> QED
      BY <1>1, <2>1, <3>1, RemoveAtShifts
  <2> HIDE DEF i, u, E
  <2>3. ASSUME NEW a \in 1..Len(u)
        PROVE  \E b \in 1..Len(t) : u[a] = t[b] /\ b # i /\ b = IF a < i THEN a ELSE a + 1
    <3>1. a \in 1..(Len(t) - 1) /\ a \in 1..Len(t) /\ a + 1 \in 1..Len(t)
      BY <1>1, <2>2
    <3>2. PICK b \in 1..Len(t) : b = IF a < i THEN a ELSE a + 1
      BY <3>1
    <3>3. b # i /\ u[a] = t[b]
      BY <2>1, <2>2, <3>1, <3>2
    <3> QED
      BY <3>2, <3>3
  <2>4. ASSUME NEW a \in 1..Len(u), NEW b \in 1..Len(u), u[a].name = u[b].name PROVE a = b
    <3>1. PICK c \in 1..Len(t) : u[a] = t[c] /\ c = IF a < i THEN a ELSE a + 1
      BY <2>3
    <3>2. PICK d \in 1..Len(t) : u[b] = t[d] /\ d = IF b < i THEN b ELSE b + 1
      BY <2>3
    <3>3. c = d
      BY <1>1, <2>4, <3>1, <3>2
    <3> QED
      BY <1>1, <2>1, <2>2, <3>1, <3>2, <3>3
  <2>5. \A a \in 1..Len(u) : u[a].name # n
    BY <1>1, <2>1, <2>3
  <2>6. shell_get_variable(u, n) = <<>>
    BY <2>2, <2>5, FindFirst DEF shell_get_variable
  <2>7. u \in Variables(N, V)
    BY <1>1, <2>2, <2>4 DEF Variables, E
  <2> QED
    BY <1>2, <2>6, <2>7 DEF u
<1> QED
  BY <1>1, <1>3, <1>4, FindCases

(* Tables of aliases, where a name may occur more than once. *)
Aliases(N, V) == {t \in Seq([name : N, value : V]) : Len(t) <= MaxAliases}

(* An alias entered again stays what it was, a new one is resolved unless  *)
(* the table is full, and entering or removing one changes no other        *)
(* (shell_add_alias, builtin_unalias, shell_resolve_alias).                *)
THEOREM FirstAliasWins ==
    ASSUME NEW N, NEW V, NEW t \in Aliases(N, V), NEW n \in N, NEW v \in V
    PROVE  LET u == shell_add_alias(t, n, v)
           IN /\ u \in Aliases(N, V)
              /\ shell_resolve_alias(u, n) =
                    IF Find(t, n) > 0 \/ Len(t) = MaxAliases THEN shell_resolve_alias(t, n) ELSE v
              /\ \A m \in N \ {n} :
                    /\ shell_resolve_alias(u, m) = shell_resolve_alias(t, m)
                    /\ shell_resolve_alias(Without(t, n), m) = shell_resolve_alias(t, m)
<1> DEFINE E == [name : N, value : V]
           u == shell_add_alias(t, n, v)
           e == [name |-> n, value |-> v]
<1>1. t \in Seq(E) /\ Len(t) \in Nat /\ Len(t) <= MaxAliases /\ MaxAliases \in Nat
  BY TablesAssumption DEF Aliases
<1>2. e \in E /\ e.name = n /\ e.value = v
  OBVIOUS
<1>3. ASSUME NEW m \in N \ {n} PROVE shell_resolve_alias(Without(t, n), m) = shell_resolve_alias(t, m)
  <2>1. PICK x : x = Without(t, n)
    OBVIOUS
  <2>2. \/ Find(x, m) = 0 /\ Find(t, m) = 0
        \/ Find(x, m) > 0 /\ Find(t, m) > 0 /\ x[Find(x, m)] = t[Find(t, m)]
    BY <1>1, <2>1, FoundWithout
  <2>3. shell_resolve_alias(x, m) = shell_resolve_alias(t, m)
    BY <2>2 DEF shell_resolve_alias
  <2> QED
    BY <2>1, <2>3
<1>4. CASE Len(t) = MaxAliases
  <2>1. u = t
    BY <1>1, <1>4 DEF shell_add_alias
  <2> HIDE DEF u
  <2> QED
    BY <1>3, <1>4, <2>1 DEF u
<1>5. CASE Len(t) # MaxAliases
  <2>1. u = Append(t, e) /\ Len(t) < MaxAliases
    BY <1>1, <1>5 DEF shell_add_alias
  <2> HIDE DEF e, u, E
  <2>2. /\ u \in Seq(E) /\ Len(u) = Len(t) + 1
        /\ \A a \in 1..(Len(t) + 1) : u[a] = IF a = Len(t) + 1 THEN e ELSE t[a]
    BY <1>1, <1>2, <2>1
  <2>3. \A m : Find(u, m) = IF Find(t, m) = 0 /\ n = m THEN Len(t) + 1 ELSE Find(t, m)
    BY <1>1, <1>2, <2>1, FindAppended
  <2>4. \A m : Find(t, m) = 0 \/ (Find(t, m) > 0 /\ Find(t, m) \in 1..Len(t))
    BY <1>1, FindCases DEF FirstOf
  <2>5. \A m : Find(t, m) > 0 => shell_resolve_alias(u, m) = shell_resolve_alias(t, m)
    BY <1>1, <2>2, <2>3, <2>4 DEF shell_resolve_alias
  <2>6. \A m : Find(t, m) = 0 /\ m # n => shell_resolve_alias(u, m) = shell_resolve_alias(t, m)
    BY <2>3 DEF shell_resolve_alias
  <2>7. Find(t, n) = 0 => shell_resolve_alias(u, n) = v
    BY <1>1, <1>2, <2>2, <2>3 DEF shell_resolve_alias
  <2>8. u \in Aliases(N, V)
    BY <1>1, <2>1, <2>2 DEF Aliases, E
  <2>9. \A m \in N \ {n} : shell_resolve_alias(u, m) = shell_resolve_alias(t, m)
    BY <2>4, <2>5, <2>6
  <2>10. shell_resolve_alias(u, n) = IF Find(t, n) > 0 THEN shell_resolve_alias(t, n) ELSE v
    BY <2>4, <2>5, <2>7
  <2> QED
    BY <1>3, <1>5, <2>8, <2>9, <2>10 DEF u
<1> QED
  BY <1>4, <1>5
=============================================================================
