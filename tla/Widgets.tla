------------------------------- MODULE Widgets --------------------------------
(***************************************************************************)
(* The widgets of src/ui/ui.c: nodes on the heap with links to the parent, *)
(* the first child and both siblings.  The kernel creates the root only;   *)
(* the clients modelled here add a widget that has no parent, not below    *)
(* itself, and move the focus away before they destroy the widget that has *)
(* it.  All widgets have on_focus; handlers do not call back into ui.c.    *)
(* kmalloc succeeds while an address is left.                              *)
(***************************************************************************)
EXTENDS Naturals, Sequences, SequencesExt, FiniteSetsExt

CONSTANTS
    Addresses,  \* addresses that kmalloc returns
    Root,       \* the address of root_widget
    Null,       \* the null pointer
    Screen,     \* bounds of the root
    Kinds,      \* bounds and on_event of new widgets: what the handler
                \* returns, or "none" without a handler
    Points,     \* positions of events
    Uint32      \* 2^32

ui_rect_t == [x : 0..(Uint32 - 1), y : 0..(Uint32 - 1), w : 0..(Uint32 - 1), h : 0..(Uint32 - 1)]

ASSUME WidgetsAssumption ==
    /\ IsFiniteSet(Addresses) /\ Root \in Addresses /\ Null \notin Addresses
    /\ Uint32 \in Nat \ {0} /\ Screen \in ui_rect_t
    /\ Kinds \subseteq [bounds : ui_rect_t, on_event : {"none", "ignored", "handled"}]

VARIABLES
    link,      \* parent, children, next and prev of the widgets
    bounds, absolute, on_event,  \* of the widgets there are
    focused,   \* focused_widget
    told,      \* widgets whose on_focus was last called with true
    moved,     \* widgets added or removed, or below such a one, since created
    calls,     \* the widgets of the calls of ui_destroy_widget that run
    doomed,    \* history: what these calls have still to free
    target,    \* the widget where ui_post_event is
    event,     \* the position of the event posted last
    got        \* its receivers

places == <<bounds, absolute, on_event>>
focus == <<focused, told>>
post == <<target, event, got>>
destroy == <<calls, doomed>>
widgetVars == <<link, places, focus, moved, destroy, post>>

Live == DOMAIN bounds

-----------------------------------------------------------------------------
(* The links h. *)

(* The fields of a widget just allocated. *)
NewWidget(h, w) ==
    [parent |-> [h.parent EXCEPT ![w] = Null], children |-> [h.children EXCEPT ![w] = Null],
     next |-> [h.next EXCEPT ![w] = Null], prev |-> [h.prev EXCEPT ![w] = Null]]

(* Mutant: the old first child does not learn of the new one. *)
AddOneWay(h, parent, child) ==
    [parent |-> [h.parent EXCEPT ![child] = parent],
     children |-> [h.children EXCEPT ![parent] = child],
     next |-> [h.next EXCEPT ![child] = h.children[parent]],
     prev |-> [h.prev EXCEPT ![child] = Null]]

(* ui_add_child: the new first child. *)
ui_add_child(h, parent, child) ==
    [parent |-> [h.parent EXCEPT ![child] = parent],
     children |-> [h.children EXCEPT ![parent] = child],
     next |-> [h.next EXCEPT ![child] = h.children[parent]],
     prev |-> [w \in Addresses |-> IF w = h.children[parent] THEN child
                                   ELSE IF w = child THEN Null ELSE h.prev[w]]]

(* ui_remove_child of a child of its parent. *)
ui_remove_child(h, parent, child) ==
    [parent |-> [h.parent EXCEPT ![child] = Null],
     children |-> [w \in Addresses |-> IF w = parent /\ h.prev[child] = Null THEN h.next[child]
                                       ELSE h.children[w]],
     next |-> [w \in Addresses |-> IF w = child THEN Null
                                   ELSE IF w = h.prev[child] THEN h.next[child] ELSE h.next[w]],
     prev |-> [w \in Addresses |-> IF w = child THEN Null
                                   ELSE IF w = h.next[child] THEN h.prev[child] ELSE h.prev[w]]]

(* The list of p's children, as next leads from the first to the last. *)
List(h, p) ==
    LET at[i \in 0..Cardinality(Addresses)] ==
            IF i = 0 THEN h.children[p]
            ELSE LET w == at[i - 1] IN IF w = Null THEN Null ELSE h.next[w]
    IN [i \in 1..Cardinality({j \in DOMAIN at : at[j] # Null}) |-> at[i - 1]]

(* Where the parent links lead from w: w itself, its parent and so on. *)
Ancestors(w) ==
    LET up == {S \in SUBSET (Live \cup {Null}) :
                  w \in S /\ \A x \in S \ {Null} : link.parent[x] \in S}
    IN {u \in Live : \A S \in up : u \in S}

Below(w) == {u \in Live : w \in Ancestors(u)}

(* Mutant: only the parent's position counts. *)
ParentBounds(parent) == Restrict(bounds, {parent})

(* The bounds of the widgets that the loop of ui_add_child passes. *)
AncestorBounds(parent) == Restrict(bounds, Ancestors(parent))

(* The rectangle r after that loop. *)
Shifted(r, above) ==
    [r EXCEPT !.x = (@ + MapThenSumSet(LAMBDA a : above[a].x, DOMAIN above)) % Uint32,
              !.y = (@ + MapThenSumSet(LAMBDA a : above[a].y, DOMAIN above)) % Uint32]

ui_rect_contains(r, p) ==
    /\ p[1] >= r.x /\ p[1] < (r.x + r.w) % Uint32
    /\ p[2] >= r.y /\ p[2] < (r.y + r.h) % Uint32

-----------------------------------------------------------------------------
(* ui_init. *)
ui_init ==
    /\ LET none == [w \in Addresses |-> Null]
       IN link = [parent |-> none, children |-> none, next |-> none, prev |-> none]
    /\ bounds = [w \in {Root} |-> Screen]
    /\ absolute = [w \in {Root} |-> Screen]
    /\ on_event = [w \in {Root} |-> "none"]
    /\ focused = Null /\ told = {} /\ moved = {} /\ calls = <<>> /\ doomed = {}
    /\ target = Null /\ event \in Points /\ got = <<>>

(* Clients call while no function of ui.c runs; what the last event did is *)
(* forgotten then.                                                         *)
Client == calls = <<>> /\ target = Null /\ got' = <<>>

With(f, w, value) == [u \in DOMAIN f \cup {w} |-> IF u = w THEN value ELSE f[u]]

ui_create_widget(w, parent, rect, answer) ==
    /\ Client
    /\ w \notin Live /\ parent \in Live \cup {Null}
    /\ link' = IF parent = Null THEN NewWidget(link, w)
               ELSE ui_add_child(NewWidget(link, w), parent, w)
    /\ bounds' = With(bounds, w, rect)
    /\ absolute' = With(absolute, w,
                        IF parent = Null THEN rect ELSE Shifted(rect, AncestorBounds(parent)))
    /\ on_event' = With(on_event, w, answer)
    /\ UNCHANGED <<focus, moved, destroy, target, event>>

AddChild(parent, child) ==
    /\ Client
    /\ child \in Live \ {Root} /\ link.parent[child] = Null
    /\ parent \in Live \ Below(child)
    /\ link' = ui_add_child(link, parent, child)
    /\ absolute' = [absolute EXCEPT ![child] = Shifted(@, AncestorBounds(parent))]
    /\ moved' = moved \cup Below(child)
    /\ UNCHANGED <<bounds, on_event, focus, destroy, target, event>>

RemoveChild(child) ==
    /\ Client
    /\ child \in Live /\ link.parent[child] # Null
    /\ link' = ui_remove_child(link, link.parent[child], child)
    /\ moved' = moved \cup Below(child)
    /\ UNCHANGED <<places, focus, destroy, target, event>>

(* Mutant: the widget stays in the parent's list. *)
EnterLinked(w) == link' = link /\ calls' = Append(calls, w)

(* ui_destroy_widget, the entry: out of the parent's list. *)
Enter(w) ==
    /\ link' = IF link.parent[w] = Null THEN link ELSE ui_remove_child(link, link.parent[w], w)
    /\ calls' = Append(calls, w)

ui_destroy_widget(w) ==
    /\ Client
    /\ w \in Live \ {Root} /\ focused \notin Below(w)
    /\ Enter(w)
    /\ moved' = moved \cup Below(w) /\ doomed' = Below(w)
    /\ UNCHANGED <<places, focus, target, event>>

(* The loop calls the function again for the first child. *)
DestroyChild ==
    /\ calls # <<>>
    /\ link.children[Last(calls)] # Null
    /\ Enter(link.children[Last(calls)])
    /\ UNCHANGED <<places, focus, moved, doomed, post>>

(* The end of the loop, kfree and return. *)
DestroyReturn ==
    /\ calls # <<>>
    /\ link.children[Last(calls)] = Null
    /\ LET rest == Live \ {Last(calls)}
       IN /\ bounds' = Restrict(bounds, rest)
          /\ absolute' = Restrict(absolute, rest)
          /\ on_event' = Restrict(on_event, rest)
          /\ moved' = moved \cap rest /\ doomed' = doomed \cap rest
    /\ calls' = Front(calls)
    /\ UNCHANGED <<link, focus, post>>

(* ui_post_event starts at the root. *)
ui_post_event(at) ==
    /\ Client
    /\ event' = at /\ target' = Root
    /\ UNCHANGED <<link, places, focus, moved, destroy>>

Inside(w) == ui_rect_contains(absolute[w], event)

(* Mutant: the first child takes its place wherever it lies. *)
FirstChild(w) == IF link.children[w] # Null THEN link.children[w] ELSE w

(* The target's first child that contains the position takes its place. *)
Receiver(w) ==
    LET kids == List(link, w)
        hits == {i \in DOMAIN kids : Inside(kids[i])}
    IN IF hits = {} THEN w ELSE kids[Min(hits)]

(* One round of its loop: the receiver passes the event on to its next     *)
(* sibling unless it handles it.                                           *)
Offer ==
    LET to == Receiver(target)
    IN /\ target # Null
       /\ Inside(target)
       /\ got' = IF on_event[to] = "none" THEN got ELSE Append(got, to)
       /\ target' = IF on_event[to] = "handled" THEN Null ELSE link.next[to]
       /\ UNCHANGED <<link, places, focus, moved, destroy, event>>

(* A round at a target elsewhere. *)
Pass ==
    /\ target # Null
    /\ ~Inside(target)
    /\ target' = link.next[target]
    /\ UNCHANGED <<link, places, focus, moved, destroy, event, got>>

(* ui_set_focus: on_focus of the old widget, then of the new one. *)
ui_set_focus(w) ==
    /\ Client
    /\ w \in Live \cup {Null}
    /\ focused' = w
    /\ told' = IF w = focused THEN told ELSE ((told \ {focused}) \cup {w}) \ {Null}
    /\ UNCHANGED <<link, places, moved, destroy, target, event>>

WidgetNext ==
    \/ \E w \in Addresses, p \in Addresses \cup {Null}, k \in Kinds :
          ui_create_widget(w, p, k.bounds, k.on_event)
    \/ \E p, w \in Addresses : AddChild(p, w)
    \/ \E w \in Addresses : RemoveChild(w) \/ ui_destroy_widget(w)
    \/ DestroyChild \/ DestroyReturn
    \/ \E p \in Points : ui_post_event(p)
    \/ Offer \/ Pass
    \/ \E w \in Addresses \cup {Null} : ui_set_focus(w)

WidgetSpec == ui_init /\ [][WidgetNext]_widgetVars

-----------------------------------------------------------------------------
(* Type invariant: links lead to widgets. *)
LinksLive ==
    /\ \A w \in Live : {link.parent[w], link.children[w], link.next[w], link.prev[w]}
                          \subseteq Live \cup {Null}
    /\ Range(calls) \subseteq doomed /\ doomed \subseteq Live /\ target \in Live \cup {Null}
    /\ focused \in Live \cup {Null} /\ told \subseteq Live /\ moved \subseteq Live
    /\ Range(got) \subseteq Live

(* However widgets were added, removed and destroyed, both directions of   *)
(* the sibling list agree and it holds exactly the widgets of that parent. *)
ListsLinked ==
    \A w \in Live :
        LET next == link.next[w]
            prev == link.prev[w]
            parent == link.parent[w]
        IN /\ next # Null => link.prev[next] = w /\ link.parent[next] = parent
           /\ prev # Null => link.next[prev] = w
           /\ parent = Null => next = Null /\ prev = Null
           /\ parent # Null /\ prev = Null => link.children[parent] = w

(* No widget is its own ancestor, so the loop of ui_add_child ends. *)
NoCycle == \A w \in Live : w \notin Ancestors(link.parent[w])

(* Exactly the widget that has the focus believes that it has it. *)
FocusTold == told = {focused} \ {Null}

(* Through every order of adding, removing, destroying and focusing, and   *)
(* in the middle of a destruction, all links lead to widgets, agree with   *)
(* each other and with the focus, and make no cycle.                       *)
LinksSound == LinksLive /\ ListsLinked /\ NoCycle /\ FocusTold

(* A widget that was created in its place and stays there, with all its    *)
(* ancestors, is where its ancestors' positions add up to.  Widgets that   *)
(* were moved are not: ui_add_child adds the positions again.              *)
BoundsAbsolute ==
    \A w \in Live \ moved :
        absolute[w] = Shifted(bounds[w], Restrict(bounds, Ancestors(w) \ {w}))

(* An event reaches widgets of the tree below the root only that contain   *)
(* its position, each once, and none after the one that handles it.        *)
EventsInside ==
    \A i \in DOMAIN got :
        /\ Inside(got[i])
        /\ got[i] \in Below(Root)
        /\ on_event[got[i]] = "handled" => i = Len(got) /\ target = Null
        /\ \A j \in DOMAIN got : got[i] = got[j] => i = j

(* The linked widgets are the ordered forest of WidgetTree.  A widget      *)
(* leaves it with its descendants when ui_destroy_widget is called.        *)
Tree == INSTANCE WidgetTree WITH
    Widgets <- Addresses, Root <- Root,
    kids <- [w \in Live \ doomed |-> List(link, w)]
ImplementsTree == Tree!Spec
=============================================================================
