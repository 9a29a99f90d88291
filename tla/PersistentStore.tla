---------------------------- MODULE PersistentStore ----------------------------
(***************************************************************************)
(* What "persistent packet storage" promises (README.md of the             *)
(* repository): a bounded set of named items that changes only by adding   *)
(* one item under a free name, or by taking one item out.  The life and    *)
(* death of the process that keeps the store is not visible here.          *)
(***************************************************************************)
EXTENDS Naturals, FiniteSets

CONSTANTS Name, Item, Capacity

VARIABLE held       \* a set of <<name, item>> pairs

Init == held = {}

Add == \E h \in held' \ held :
          /\ h \in Name \X Item
          /\ \A g \in held : g[1] # h[1]
          /\ Cardinality(held) < Capacity
          /\ held' = held \cup {h}

Take == \E h \in held : held' = held \ {h}

Spec == Init /\ [][Add \/ Take]_held
=============================================================================
