---------------------------- MODULE AbstractMap ----------------------------
(***************************************************************************)
(* What container/hashmap.h promises: a map holds at most one entry per    *)
(* key, it knows how many it holds, and the destructor is called once, and *)
(* at once, for every entry the map gives up.                              *)
(***************************************************************************)
EXTENDS FiniteSets, Naturals

CONSTANTS Entries, KeyOf

VARIABLES
  held,       \* the entries a look-up finds
  size,       \* what hashmap_size() returns
  destroyed,  \* how often the destructor was called for each entry
  destructs   \* the map has a destructor

vars == <<held, size, destroyed, destructs>>

Init ==
  /\ held = {} /\ size = 0
  /\ destroyed = [e \in Entries |-> 0]
  /\ destructs \in BOOLEAN

(* The map holds h from now on. *)
Becomes(h) ==
  /\ held' = h
  /\ size' = Cardinality(h)
  /\ destroyed' = [e \in Entries |->
       IF destructs /\ e \in held \ h THEN destroyed[e] + 1 ELSE destroyed[e]]
  /\ UNCHANGED destructs

Put(e) == Becomes({o \in held : KeyOf[o] # KeyOf[e]} \cup {e})
Remove(k) == Becomes({o \in held : KeyOf[o] # k})
Destroy == Becomes({})

Next ==
  \/ \E e \in Entries : Put(e)
  \/ \E e \in Entries : Remove(KeyOf[e])
  \/ Destroy

Spec == Init /\ [][Next]_vars
=============================================================================
