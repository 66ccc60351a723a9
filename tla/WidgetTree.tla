------------------------------ MODULE WidgetTree ------------------------------
(* What the widget functions of src/ui/ui.c promise: an ordered forest.    *)
(* A new or added widget becomes its parent's first child, a destroyed one *)
(* takes its descendants with it, and nothing else changes.                *)
EXTENDS Sequences, SequencesExt

CONSTANTS
    Widgets,  \* addresses of widgets
    Root      \* the root widget

VARIABLE kids  \* the children of every widget there is

Live == DOMAIN kids

Children(p) == Range(kids[p])

(* The least set with w and the children of its members. *)
Subtree(w) ==
    LET down == {S \in SUBSET Live : w \in S /\ \A p \in S : Children(p) \subseteq S}
    IN {u \in Live : \A S \in down : u \in S}

Orphans == {w \in Live : \A p \in Live : w \notin Children(p)}

(* The children of p without w. *)
Without(p, w) ==
    IF w \in Children(p) THEN RemoveAt(kids[p], CHOOSE i \in DOMAIN kids[p] : kids[p][i] = w)
    ELSE kids[p]

Init == kids = [w \in {Root} |-> <<>>]

Create(w) ==
    /\ w \notin Live
    /\ kids' = [p \in Live \cup {w} |-> IF p = w THEN <<>> ELSE kids[p]]

CreateIn(w, p) ==
    /\ w \notin Live /\ p \in Live
    /\ kids' = [q \in Live \cup {w} |-> IF q = w THEN <<>>
                                        ELSE IF q = p THEN <<w>> \o kids[q] ELSE kids[q]]

Attach(w, p) ==
    /\ w \in Orphans /\ p \in Live \ Subtree(w)
    /\ kids' = [kids EXCEPT ![p] = <<w>> \o @]

Detach(w) ==
    /\ w \in Live
    /\ kids' = [p \in Live |-> Without(p, w)]

Destroy(w) ==
    /\ w \in Live
    /\ kids' = [p \in Live \ Subtree(w) |-> Without(p, w)]

Next == \/ \E w \in Widgets : Create(w) \/ Detach(w) \/ Destroy(w)
        \/ \E w, p \in Widgets : CreateIn(w, p) \/ Attach(w, p)

Spec == Init /\ [][Next]_kids
=============================================================================
