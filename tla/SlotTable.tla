----------------------------- MODULE SlotTable -----------------------------
(***************************************************************************)
(* What the boot control HAL promises about the A/B bits of the primary    *)
(* partition tables, whatever fails: a single write touches entries of one *)
(* slot, and every entry it changes is activated, deactivated or given one *)
(* attribute.  In particular the attributes of an entry are only ever      *)
(* cleared by making it active, an entry becomes active only together with *)
(* the bootable GUID, and a write cut short changes fewer entries but      *)
(* leaves each of them as one of the complete updates does.                *)
(***************************************************************************)
EXTENDS Integers

CONSTANT Entries     \* pairs <<partition, slot>>

VARIABLE tab         \* the A/B bits and the type GUID of every entry

GUIDs == {"img", "alt"}
Attributes == {"succ", "unb"}

TabType == [Entries -> [guid : GUIDs, active : BOOLEAN, succ : BOOLEAN, unb : BOOLEAN]]

Activated(old, new) ==
    new = [guid |-> "img", active |-> TRUE, succ |-> FALSE, unb |-> FALSE]

Deactivated(old, new) ==
    \E g \in GUIDs : new = [old EXCEPT !.guid = g, !.active = FALSE]

Marked(attribute, old, new) == new = [old EXCEPT ![attribute] = TRUE]

\* Some entries of slot s are updated, all in the same way.
Update(s, Change(_, _)) ==
    /\ tab' \in TabType
    /\ \A e \in Entries : tab'[e] # tab[e] => e[2] = s /\ Change(tab[e], tab'[e])

MakeActive(s) == Update(s, Activated)
MakeInactive(s) == Update(s, Deactivated)
Mark(s, attribute) == Update(s, LAMBDA old, new : Marked(attribute, old, new))

Init ==
    /\ tab \in TabType
    /\ \A e \in Entries : tab[e].active => tab[e].guid = "img"

Next ==
    \E s \in {0, 1} :
        \/ MakeActive(s)
        \/ MakeInactive(s)
        \/ \E attribute \in Attributes : Mark(s, attribute)

Spec == Init /\ [][Next]_tab
=============================================================================
