------------------------------ MODULE HashMap ------------------------------
(***************************************************************************)
(* The hash map of mkfli4l (container/hashmap.c).  A bucket is an array of *)
(* pointers to entries.  A removed entry leaves a hole, and the bucket     *)
(* keeps pointers to its holes in a free list, although the array may move *)
(* when it grows: this works only if no hole is left then.                 *)
(***************************************************************************)
EXTENDS Integers, FiniteSets, Sequences

CONSTANTS
  Entries,  \* the entries of the callers
  KeyOf,    \* key of each entry
  Hash,     \* bucket of each key: hash % num_buckets
  Hole      \* NULL

VARIABLES
  entries,       \* the array of each bucket
  home,          \* how often the array has been reallocated: its address
  free_entries,  \* pointers to holes: an address and an index
  num_entries,
  destroyed,     \* how often destroy() was called for each entry
  destructs,     \* map->destroy # NULL
  in_destroy

buckets == <<entries, home, free_entries, num_entries>>
vars == <<buckets, destroyed, destructs, in_destroy>>

Keys == {KeyOf[e] : e \in Entries}
Buckets == {Hash[k] : k \in Keys}

TypeOK ==
  /\ entries \in [Buckets -> Seq(Entries \cup {Hole})]
  /\ home \in [Buckets -> Nat]
  /\ free_entries \in [Buckets -> Seq(Nat \X Nat)]
  /\ num_entries \in [Buckets -> Int]
  /\ destroyed \in [Entries -> Nat]
  /\ destructs \in BOOLEAN /\ in_destroy \in BOOLEAN

-----------------------------------------------------------------------------

(* hashmap_search_bucket: the places of a key in its bucket, of which the   *)
(* first is taken.                                                         *)
Places(k) == {i \in DOMAIN entries[Hash[k]] :
                entries[Hash[k]][i] # Hole /\ KeyOf[entries[Hash[k]][i]] = k}

Found(k) == Places(k) # {}
PlaceOf(k) == CHOOSE i \in Places(k) : \A j \in Places(k) : i <= j

(* hashmap_get *)
Got(k) == IF Found(k) THEN {entries[Hash[k]][PlaceOf(k)]} ELSE {}

(* hashmap_size *)
Size ==
  LET sum[B \in SUBSET Buckets] ==
        IF B = {} THEN 0
        ELSE LET b == CHOOSE b \in B : TRUE IN num_entries[b] + sum[B \ {b}]
  IN sum[Buckets]

Destructor(e) ==
  destroyed' = IF destructs THEN [destroyed EXCEPT ![e] = @ + 1] ELSE destroyed

-----------------------------------------------------------------------------

Init ==
  /\ entries = [b \in Buckets |-> <<>>]
  /\ home = [b \in Buckets |-> 0]
  /\ free_entries = [b \in Buckets |-> <<>>]
  /\ num_entries = [b \in Buckets |-> 0]
  /\ destroyed = [e \in Entries |-> 0]
  /\ destructs \in BOOLEAN
  /\ in_destroy = FALSE

(* hashmap_put.  A caller does not put an entry it has given up. *)
Puts(e) == ~in_destroy /\ destroyed[e] = 0

(* Faulty variant: an entry that is put again is destroyed. *)
FaultyReplace(e) ==
  LET k == KeyOf[e] b == Hash[KeyOf[e]]
  IN /\ Puts(e) /\ Found(k)
     /\ Destructor(entries[b][PlaceOf(k)])
     /\ entries' = [entries EXCEPT ![b][PlaceOf(k)] = e]
     /\ UNCHANGED <<home, free_entries, num_entries, destructs, in_destroy>>

Replace(e) ==
  LET k == KeyOf[e] b == Hash[KeyOf[e]]
  IN /\ Puts(e) /\ Found(k)
     /\ LET old == entries[b][PlaceOf(k)]
        IN /\ old # e      \* otherwise nothing happens
           /\ Destructor(old)
     /\ entries' = [entries EXCEPT ![b][PlaceOf(k)] = e]
     /\ UNCHANGED <<home, free_entries, num_entries, destructs, in_destroy>>

(* Faulty variant: the array grows although there are holes. *)
FaultyGrow(e) ==
  LET k == KeyOf[e] b == Hash[KeyOf[e]]
  IN /\ Puts(e) /\ ~Found(k)
     /\ entries' = [entries EXCEPT ![b] = Append(@, e)]
     /\ home' = [home EXCEPT ![b] = @ + 1]
     /\ num_entries' = [num_entries EXCEPT ![b] = @ + 1]
     /\ UNCHANGED <<free_entries, destroyed, destructs, in_destroy>>

(* Writes through the first pointer of the free list; through a pointer     *)
(* into the array's former memory the entry would be lost.                 *)
FillHole(e) ==
  LET k == KeyOf[e] b == Hash[KeyOf[e]]
  IN /\ Puts(e) /\ ~Found(k) /\ free_entries[b] # <<>>
     /\ LET p == Head(free_entries[b])
        IN entries' = IF p[1] = home[b] THEN [entries EXCEPT ![b][p[2]] = e] ELSE entries
     /\ num_entries' = [num_entries EXCEPT ![b] = @ + 1]
     /\ free_entries' = [free_entries EXCEPT ![b] = Tail(@)]
     /\ UNCHANGED <<home, destroyed, destructs, in_destroy>>

Grow(e) ==
  LET k == KeyOf[e] b == Hash[KeyOf[e]]
  IN /\ Puts(e) /\ ~Found(k) /\ free_entries[b] = <<>>
     /\ entries' = [entries EXCEPT ![b] = Append(@, e)]
     /\ home' = [home EXCEPT ![b] = @ + 1]
     /\ num_entries' = [num_entries EXCEPT ![b] = @ + 1]
     /\ UNCHANGED <<free_entries, destroyed, destructs, in_destroy>>

(* hashmap_remove, of a key the map holds. *)
Remove(k) ==
  /\ ~in_destroy /\ Found(k)
  /\ LET b == Hash[k] i == PlaceOf(k)
     IN /\ free_entries' = [free_entries EXCEPT ![b] = Append(@, <<home[b], i>>)]
        /\ entries' = [entries EXCEPT ![b][i] = Hole]
        /\ num_entries' = [num_entries EXCEPT ![b] = @ - 1]
        /\ Destructor(entries[b][i])
  /\ UNCHANGED <<home, destructs, in_destroy>>

(* hashmap_destroy: calls the destructor for what is left, then frees all. *)
Destroy ==
  /\ ~in_destroy /\ in_destroy' = TRUE
  /\ LET left == {e \in Entries : \E b \in Buckets : \E i \in DOMAIN entries[b] : entries[b][i] = e}
     IN destroyed' = [e \in Entries |-> IF destructs /\ e \in left THEN destroyed[e] + 1
                                                                  ELSE destroyed[e]]
  /\ entries' = [b \in Buckets |-> <<>>]
  /\ free_entries' = [b \in Buckets |-> <<>>]
  /\ num_entries' = [b \in Buckets |-> 0]
  /\ UNCHANGED <<home, destructs>>

Next ==
  \/ \E e \in Entries : Replace(e) \/ FillHole(e) \/ Grow(e)
  \/ \E k \in Keys : Remove(k)
  \/ Destroy

Spec == Init /\ [][Next]_vars

-----------------------------------------------------------------------------
(* Properties *)

(* The free list names the holes of the array as it is now, each once, and  *)
(* the count is that of the other places: this is why a pointer taken from *)
(* the list is never one into memory the array has left.                   *)
FreeListExact ==
  \A b \in Buckets :
    LET holes == {i \in DOMAIN entries[b] : entries[b][i] = Hole}
    IN /\ {free_entries[b][i] : i \in DOMAIN free_entries[b]} = {<<home[b], i>> : i \in holes}
       /\ Len(free_entries[b]) = Cardinality(holes)
       /\ num_entries[b] = Len(entries[b]) - Len(free_entries[b])

(* The table implements the promised map: what look-ups find, the size and  *)
(* the destructor calls are those of a set of entries with distinct keys,  *)
(* whatever the order of insertions, replacements and removals.            *)
Abs == INSTANCE AbstractMap WITH
  held <- UNION {Got(k) : k \in Keys}, size <- Size

AbsSpec == Abs!Spec
=============================================================================
