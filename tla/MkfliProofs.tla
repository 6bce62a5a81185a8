---------------------------- MODULE MkfliProofs ----------------------------
(***************************************************************************)
(* Two parts of mkfli4l.                                                   *)
(*                                                                         *)
(* The hash map, for any entries, keys and hash function: the free list of *)
(* a bucket names exactly the holes of the array, at its present address,  *)
(* and the table implements the abstract map.  Two facts about the         *)
(* constants are hypotheses: NULL is not an entry, and a caller has        *)
(* finitely many entries.                                                  *)
(*                                                                         *)
(* The libraries of the archives, for any files, directories and needs:    *)
(* when all dependencies are resolved without an error, every file lies    *)
(* where it belongs.  RealFiles is what the code takes the constants to    *)
(* be.                                                                     *)
(***************************************************************************)
EXTENDS HashMap, FiniteSetTheorems, SequenceTheorems, WellFoundedInduction, TLAPS

CONSTANTS ElfFiles, Symlinks, DirOf, SonameOf, RpathOf, NeededBy, Shipped, None, Choices

VARIABLES files_array, ziptgt, secondary, file, root, stack, failed, chosen

Archive == INSTANCE Libraries

RealEntries == Hole \notin Entries /\ IsFiniteSet(Entries)

(* What a bucket holds, whatever a look-up would find. *)
HeldIn(b) == {e \in Entries : \E i \in DOMAIN entries[b] : entries[b][i] = e}
Held == UNION {HeldIn(b) : b \in Buckets}

(* Look-ups search the bucket of the key, and the first entry of the key    *)
(* they meet is the only one.                                              *)
Placed(b) ==
  /\ \A i \in DOMAIN entries[b] : entries[b][i] # Hole => Hash[KeyOf[entries[b][i]]] = b
  /\ \A i, j \in DOMAIN entries[b] :
       entries[b][i] # Hole /\ entries[b][j] # Hole /\ KeyOf[entries[b][i]] = KeyOf[entries[b][j]]
       => i = j

(* The pointers of the free list point to holes of the array as it is now,  *)
(* to every hole, and no two to the same.                                  *)
Freed(b) ==
  /\ \A j \in DOMAIN free_entries[b] :
       \E i \in DOMAIN entries[b] : entries[b][i] = Hole /\ free_entries[b][j] = <<home[b], i>>
  /\ \A i \in DOMAIN entries[b] : entries[b][i] = Hole =>
       \E j \in DOMAIN free_entries[b] : free_entries[b][j] = <<home[b], i>>
  /\ \A j, l \in DOMAIN free_entries[b] : free_entries[b][j] = free_entries[b][l] => j = l

(* The count is that of the places in use, and of the entries held. *)
Counted(b) ==
  /\ num_entries[b] = Len(entries[b]) - Len(free_entries[b])
  /\ num_entries[b] = Cardinality(HeldIn(b))

BucketInv(b) == Placed(b) /\ Freed(b) /\ Counted(b)

MapInv == TypeOK /\ \A b \in Buckets : BucketInv(b)

-----------------------------------------------------------------------------
(* Buckets *)

LEMMA BucketType ==
  ASSUME TypeOK, NEW b \in Buckets
  PROVE  /\ entries[b] \in Seq(Entries \cup {Hole}) /\ Len(entries[b]) \in Nat
         /\ DOMAIN entries[b] = 1 .. Len(entries[b])
         /\ \A i \in DOMAIN entries[b] : entries[b][i] \in Entries \cup {Hole}
         /\ free_entries[b] \in Seq(Nat \X Nat) /\ Len(free_entries[b]) \in Nat
         /\ DOMAIN free_entries[b] = 1 .. Len(free_entries[b])
         /\ home[b] \in Nat /\ num_entries[b] \in Int
<1>1. /\ entries[b] \in Seq(Entries \cup {Hole})
      /\ free_entries[b] \in Seq(Nat \X Nat)
      /\ home[b] \in Nat /\ num_entries[b] \in Int
  BY DEF TypeOK
<1>2. /\ Len(entries[b]) \in Nat /\ DOMAIN entries[b] = 1 .. Len(entries[b])
      /\ entries[b] \in [1 .. Len(entries[b]) -> Entries \cup {Hole}]
  BY <1>1, LenProperties
<1>3. Len(free_entries[b]) \in Nat /\ DOMAIN free_entries[b] = 1 .. Len(free_entries[b])
  BY <1>1, LenProperties
<1> QED BY <1>1, <1>2, <1>3

(* The key of an entry has a bucket. *)
LEMMA BucketOfEntry ==
  ASSUME NEW e \in Entries
  PROVE  KeyOf[e] \in Keys /\ Hash[KeyOf[e]] \in Buckets
BY DEF Keys, Buckets

(* The place a look-up returns is the only one with the key. *)
LEMMA OnePlace ==
  ASSUME TypeOK, NEW k \in Keys, Placed(Hash[k]), Found(k)
  PROVE  /\ PlaceOf(k) \in DOMAIN entries[Hash[k]]
         /\ entries[Hash[k]][PlaceOf(k)] \in Entries
         /\ entries[Hash[k]][PlaceOf(k)] # Hole
         /\ KeyOf[entries[Hash[k]][PlaceOf(k)]] = k
         /\ Places(k) = {PlaceOf(k)}
<1>1. Hash[k] \in Buckets
  BY DEF Buckets
<1>2. PICK p : p \in Places(k)
  BY DEF Found
<1>3. \A j \in Places(k) : j = p
  BY <1>2 DEF Places, Placed
<1>4. p \in Nat
  BY <1>1, <1>2, BucketType DEF Places
<1>5. \E i \in Places(k) : \A j \in Places(k) : i <= j
  BY <1>2, <1>3, <1>4
<1>6. PlaceOf(k) \in Places(k)
  BY <1>5 DEF PlaceOf
<1>7. entries[Hash[k]][PlaceOf(k)] \in Entries \cup {Hole}
  BY <1>1, <1>6, BucketType DEF Places
<1>8. Places(k) = {PlaceOf(k)}
  BY <1>3, <1>6
<1> QED BY <1>6, <1>7, <1>8 DEF Places

(* A key that is not found is no held entry's. *)
LEMMA NotFound ==
  ASSUME NEW k \in Keys, ~Found(k)
  PROVE  \A i \in DOMAIN entries[Hash[k]] :
           entries[Hash[k]][i] # Hole => KeyOf[entries[Hash[k]][i]] # k
BY DEF Found, Places

LEMMA HeldFinite ==
  ASSUME RealEntries, NEW b
  PROVE  IsFiniteSet(HeldIn(b)) /\ Cardinality(HeldIn(b)) \in Nat
<1>1. IsFiniteSet(Entries) /\ HeldIn(b) \in SUBSET Entries
  BY DEF RealEntries, HeldIn
<1>2. IsFiniteSet(HeldIn(b))
  BY <1>1, FS_Subset
<1> QED BY <1>2, FS_CardinalityType

(* A bucket nobody touches keeps its invariant. *)
LEMMA Elsewhere ==
  ASSUME NEW b, BucketInv(b),
         entries'[b] = entries[b], home'[b] = home[b],
         free_entries'[b] = free_entries[b], num_entries'[b] = num_entries[b]
  PROVE  BucketInv(b)' /\ HeldIn(b)' = HeldIn(b)
<1>1. HeldIn(b)' = HeldIn(b)
  BY DEF HeldIn
<1>2. Placed(b)'
  BY DEF BucketInv, Placed
<1>3. Freed(b)'
  BY DEF BucketInv, Freed
<1>4. Counted(b)'
  BY <1>1 DEF BucketInv, Counted
<1> QED BY <1>1, <1>2, <1>3, <1>4 DEF BucketInv

-----------------------------------------------------------------------------
(* Steps *)

LEMMA InitMap ==
  ASSUME RealEntries, Init
  PROVE  MapInv /\ Held = {}
<1>1. TypeOK
  <2>1. <<>> \in Seq(Entries \cup {Hole}) /\ <<>> \in Seq(Nat \X Nat)
    OBVIOUS
  <2>2. /\ entries = [b \in Buckets |-> <<>>] /\ home = [b \in Buckets |-> 0]
        /\ free_entries = [b \in Buckets |-> <<>>] /\ num_entries = [b \in Buckets |-> 0]
        /\ destroyed = [e \in Entries |-> 0]
        /\ destructs \in BOOLEAN /\ in_destroy \in BOOLEAN
    BY DEF Init
  <2>3. entries \in [Buckets -> Seq(Entries \cup {Hole})]
    BY <2>1, <2>2
  <2>4. free_entries \in [Buckets -> Seq(Nat \X Nat)]
    BY <2>1, <2>2
  <2>5. home \in [Buckets -> Nat] /\ num_entries \in [Buckets -> Int]
        /\ destroyed \in [Entries -> Nat]
    BY <2>2
  <2> QED BY <2>2, <2>3, <2>4, <2>5 DEF TypeOK
<1>2. ASSUME NEW b \in Buckets
      PROVE  BucketInv(b) /\ HeldIn(b) = {}
  <2>1. entries[b] = <<>> /\ free_entries[b] = <<>> /\ num_entries[b] = 0
    BY DEF Init
  <2>2. DOMAIN entries[b] = {} /\ DOMAIN free_entries[b] = {} /\ Len(entries[b]) = 0
        /\ Len(free_entries[b]) = 0
    BY <2>1
  <2>3. HeldIn(b) = {}
    BY <2>2 DEF HeldIn
  <2>4. Cardinality(HeldIn(b)) = 0
    BY <2>3, FS_EmptySet
  <2> QED BY <2>1, <2>2, <2>3, <2>4 DEF BucketInv, Placed, Freed, Counted
<1>3. Held = {}
  BY <1>2 DEF Held
<1> QED BY <1>1, <1>2, <1>3 DEF MapInv

(* hashmap_put of a key the map holds: one entry goes, the other comes. *)
LEMMA ReplaceStep ==
  ASSUME RealEntries, MapInv, NEW e \in Entries, Replace(e)
  PROVE  /\ MapInv'
         /\ HeldIn(Hash[KeyOf[e]])' =
              {o \in HeldIn(Hash[KeyOf[e]]) : KeyOf[o] # KeyOf[e]} \cup {e}
         /\ \A c \in Buckets \ {Hash[KeyOf[e]]} : HeldIn(c)' = HeldIn(c)
<1> DEFINE k == KeyOf[e]
           b == Hash[k]
           p == PlaceOf(k)
           old == entries[b][p]
<1>0. k \in Keys /\ b \in Buckets /\ TypeOK /\ BucketInv(b) /\ Hole \notin Entries
  BY BucketOfEntry DEF MapInv, RealEntries
<1>1. /\ Found(k) /\ old # e /\ Destructor(old)
      /\ entries' = [entries EXCEPT ![b][p] = e]
      /\ home' = home /\ free_entries' = free_entries /\ num_entries' = num_entries
      /\ destructs' = destructs /\ in_destroy' = in_destroy
  BY DEF Replace
<1>2. /\ p \in DOMAIN entries[b] /\ old \in Entries /\ old # Hole /\ KeyOf[old] = k
      /\ Places(k) = {p}
  BY <1>0, <1>1, OnePlace DEF BucketInv
<1>3. /\ entries[b] \in Seq(Entries \cup {Hole}) /\ DOMAIN entries[b] = 1 .. Len(entries[b])
      /\ \A i \in DOMAIN entries[b] : entries[b][i] \in Entries \cup {Hole}
      /\ num_entries[b] \in Int
  BY <1>0, BucketType
<1> HIDE DEF k, b, p, old
<1>4. entries \in [Buckets -> Seq(Entries \cup {Hole})]
  BY <1>0 DEF TypeOK
<1>5. /\ entries'[b] = [entries[b] EXCEPT ![p] = e]
      /\ \A c \in Buckets \ {b} : entries'[c] = entries[c]
  BY <1>0, <1>1, <1>4
<1>6. /\ entries'[b] \in Seq(Entries \cup {Hole}) /\ Len(entries'[b]) = Len(entries[b])
      /\ DOMAIN entries'[b] = DOMAIN entries[b]
      /\ \A j \in DOMAIN entries[b] : entries'[b][j] = IF j = p THEN e ELSE entries[b][j]
  BY <1>2, <1>3, <1>5, ExceptSeq
<1>7. TypeOK'
  <2>1. entries' \in [Buckets -> Seq(Entries \cup {Hole})]
    BY <1>0, <1>1, <1>4, <1>6
  <2>2. destroyed' \in [Entries -> Nat]
    BY <1>0, <1>1, <1>2 DEF TypeOK, Destructor
  <2> QED BY <1>0, <1>1, <2>1, <2>2 DEF TypeOK, Buckets, Keys
<1>8. HeldIn(b)' = (HeldIn(b) \ {old}) \cup {e}
  <2>1. ASSUME NEW x \in HeldIn(b)'
        PROVE  x \in (HeldIn(b) \ {old}) \cup {e}
    <3>1. PICK i \in DOMAIN entries[b] : entries'[b][i] = x
      BY <1>6 DEF HeldIn
    <3>2. CASE i = p
      BY <1>6, <3>1, <3>2
    <3>3. CASE i # p
      <4>1. entries[b][i] = x /\ x \in Entries
        BY <1>6, <3>1, <3>3 DEF HeldIn
      <4>2. x # old
        BY <1>0, <1>2, <3>3, <4>1 DEF BucketInv, Placed, old
      <4> QED BY <4>1, <4>2 DEF HeldIn
    <3> QED BY <3>2, <3>3
  <2>2. e \in HeldIn(b)'
    BY <1>2, <1>6 DEF HeldIn
  <2>3. ASSUME NEW x \in HeldIn(b) \ {old}
        PROVE  x \in HeldIn(b)'
    <3>1. PICK i \in DOMAIN entries[b] : entries[b][i] = x
      BY DEF HeldIn
    <3>2. i # p
      BY <3>1 DEF old
    <3> QED BY <1>6, <3>1, <3>2 DEF HeldIn
  <2> QED BY <2>1, <2>2, <2>3
<1>9. old \in HeldIn(b) /\ \A o \in HeldIn(b) : KeyOf[o] = k => o = old
  <2>1. old \in HeldIn(b)
    BY <1>2 DEF HeldIn, old
  <2>2. ASSUME NEW o \in HeldIn(b), KeyOf[o] = k
        PROVE  o = old
    <3>1. PICK i \in DOMAIN entries[b] : entries[b][i] = o
      BY DEF HeldIn
    <3>2. o # Hole
      BY <1>0 DEF HeldIn
    <3>3. i = p
      BY <1>0, <1>2, <2>2, <3>1, <3>2 DEF BucketInv, Placed, old
    <3> QED BY <3>1, <3>3 DEF old
  <2> QED BY <2>1, <2>2
<1>10. e \notin HeldIn(b) /\ KeyOf[e] = k
  BY <1>1, <1>9 DEF k
<1>11. Cardinality(HeldIn(b)') = Cardinality(HeldIn(b))
  <2>1. IsFiniteSet(HeldIn(b)) /\ Cardinality(HeldIn(b)) \in Nat
    BY HeldFinite
  <2>2. /\ IsFiniteSet(HeldIn(b) \ {old})
        /\ Cardinality(HeldIn(b) \ {old}) = Cardinality(HeldIn(b)) - 1
    BY <2>1, <1>9, FS_RemoveElement
  <2>3. Cardinality((HeldIn(b) \ {old}) \cup {e}) = Cardinality(HeldIn(b) \ {old}) + 1
    BY <2>2, <1>10, FS_AddElement
  <2> QED BY <1>8, <2>1, <2>2, <2>3
<1>12. BucketInv(b)'
  <2>1. Placed(b)'
    <3>1. \A i \in DOMAIN entries[b] : entries[b][i] # Hole => Hash[KeyOf[entries[b][i]]] = b
      BY <1>0 DEF BucketInv, Placed
    <3>2. \A i \in DOMAIN entries[b] \ {p} : entries[b][i] # Hole => KeyOf[entries[b][i]] # k
      BY <1>0, <1>2 DEF BucketInv, Placed, old
    <3>3. \A i, j \in DOMAIN entries[b] :
            entries[b][i] # Hole /\ entries[b][j] # Hole
            /\ KeyOf[entries[b][i]] = KeyOf[entries[b][j]] => i = j
      BY <1>0 DEF BucketInv, Placed
    <3>4. Hash[KeyOf[e]] = b /\ KeyOf[e] = k
      BY DEF b, k
    <3> QED BY <1>6, <3>1, <3>2, <3>3, <3>4 DEF Placed
  <2>2. \A i \in DOMAIN entries[b] : entries'[b][i] = Hole <=> entries[b][i] = Hole
    BY <1>0, <1>2, <1>6 DEF old
  <2>3. Freed(b)
    BY <1>0 DEF BucketInv
  <2>4. Freed(b)'
    BY <1>1, <1>6, <2>2, <2>3 DEF Freed
  <2>5. Counted(b)'
    BY <1>0, <1>1, <1>6, <1>11 DEF BucketInv, Counted
  <2> QED BY <2>1, <2>4, <2>5 DEF BucketInv
<1>13. \A c \in Buckets \ {b} : BucketInv(c)' /\ HeldIn(c)' = HeldIn(c)
  BY <1>1, <1>5, Elsewhere DEF MapInv
<1>14. Buckets' = Buckets
  BY DEF Buckets, Keys
<1>15. HeldIn(b)' = {o \in HeldIn(b) : KeyOf[o] # k} \cup {e}
  BY <1>2, <1>8, <1>9
<1>16. MapInv'
  BY <1>7, <1>12, <1>13, <1>14 DEF MapInv
<1> QED BY <1>13, <1>15, <1>16 DEF b, k

(* hashmap_put of a new key, through the free list: the first pointer leads *)
(* to a hole of the array as it is.                                        *)
LEMMA FillHoleStep ==
  ASSUME RealEntries, MapInv, NEW e \in Entries, FillHole(e)
  PROVE  /\ MapInv'
         /\ \A o \in HeldIn(Hash[KeyOf[e]]) : KeyOf[o] # KeyOf[e]
         /\ HeldIn(Hash[KeyOf[e]])' = HeldIn(Hash[KeyOf[e]]) \cup {e}
         /\ \A c \in Buckets \ {Hash[KeyOf[e]]} : HeldIn(c)' = HeldIn(c)
<1> DEFINE k == KeyOf[e]
           b == Hash[k]
           free == free_entries[b]
<1>0. k \in Keys /\ b \in Buckets /\ TypeOK /\ BucketInv(b) /\ Hole \notin Entries
  BY BucketOfEntry DEF MapInv, RealEntries
<1>1. /\ ~Found(k) /\ free # <<>>
      /\ entries' = IF Head(free)[1] = home[b] THEN [entries EXCEPT ![b][Head(free)[2]] = e]
                                               ELSE entries
      /\ num_entries' = [num_entries EXCEPT ![b] = @ + 1]
      /\ free_entries' = [free_entries EXCEPT ![b] = Tail(@)]
      /\ home' = home /\ destroyed' = destroyed
      /\ destructs' = destructs /\ in_destroy' = in_destroy
  BY DEF FillHole
<1>2. /\ entries[b] \in Seq(Entries \cup {Hole}) /\ DOMAIN entries[b] = 1 .. Len(entries[b])
      /\ \A i \in DOMAIN entries[b] : entries[b][i] \in Entries \cup {Hole}
      /\ num_entries[b] \in Int /\ Len(entries[b]) \in Nat
      /\ free \in Seq(Nat \X Nat) /\ Len(free) \in Nat /\ DOMAIN free = 1 .. Len(free)
  BY <1>0, BucketType
<1>3. \A i \in DOMAIN entries[b] : entries[b][i] # Hole => KeyOf[entries[b][i]] # k
  BY <1>0, <1>1, NotFound
<1>4. Hash[KeyOf[e]] = b /\ KeyOf[e] = k
  OBVIOUS
<1> HIDE DEF k, b, free
<1>5. 1 \in DOMAIN free /\ Head(free) = free[1] /\ Len(free) > 0
  BY <1>1, <1>2, EmptySeq
<1>6. PICK p \in DOMAIN entries[b] : entries[b][p] = Hole /\ free[1] = <<home[b], p>>
  BY <1>0, <1>5 DEF BucketInv, Freed, free
<1>7. entries' = [entries EXCEPT ![b][p] = e]
  <2>1. Head(free)[1] = home[b] /\ Head(free)[2] = p
    BY <1>5, <1>6
  <2> QED BY <1>1, <2>1
<1>8. /\ entries \in [Buckets -> Seq(Entries \cup {Hole})]
      /\ free_entries \in [Buckets -> Seq(Nat \X Nat)]
      /\ num_entries \in [Buckets -> Int]
  BY <1>0 DEF TypeOK
<1>9. /\ entries'[b] = [entries[b] EXCEPT ![p] = e]
      /\ \A c \in Buckets \ {b} : entries'[c] = entries[c]
  BY <1>0, <1>7, <1>8
<1>10. /\ free_entries'[b] = Tail(free) /\ num_entries'[b] = num_entries[b] + 1
       /\ \A c \in Buckets \ {b} : /\ free_entries'[c] = free_entries[c]
                                   /\ num_entries'[c] = num_entries[c]
  BY <1>0, <1>1, <1>8 DEF free
<1>11. /\ entries'[b] \in Seq(Entries \cup {Hole}) /\ Len(entries'[b]) = Len(entries[b])
       /\ DOMAIN entries'[b] = DOMAIN entries[b]
       /\ \A j \in DOMAIN entries[b] : entries'[b][j] = IF j = p THEN e ELSE entries[b][j]
  BY <1>2, <1>6, <1>9, ExceptSeq
<1>12. /\ Tail(free) \in Seq(Nat \X Nat) /\ Len(Tail(free)) = Len(free) - 1
       /\ DOMAIN Tail(free) = 1 .. (Len(free) - 1)
       /\ \A i \in DOMAIN Tail(free) : i + 1 \in DOMAIN free /\ Tail(free)[i] = free[i + 1]
  <2>1. /\ Tail(free) \in Seq(Nat \X Nat) /\ Len(Tail(free)) = Len(free) - 1
        /\ \A i \in 1 .. Len(Tail(free)) : Tail(free)[i] = free[i + 1]
    BY <1>1, <1>2, HeadTailProperties
  <2>2. DOMAIN Tail(free) = 1 .. Len(Tail(free))
    BY <2>1, LenProperties
  <2>3. Len(free) \in Nat \ {0} /\ DOMAIN free = 1 .. Len(free)
    BY <1>1, <1>2, LenProperties, EmptySeq
  <2> DEFINE n == Len(free)
             t == Tail(free)
  <2>4. n \in Nat \ {0} /\ Len(t) = n - 1 /\ DOMAIN t = 1 .. (n - 1) /\ DOMAIN free = 1 .. n
    BY <2>1, <2>2, <2>3
  <2>5. \A i \in 1 .. (n - 1) : t[i] = free[i + 1]
    BY <2>1, <2>4
  <2>6. \A i \in 1 .. (n - 1) : i + 1 \in 1 .. n
    <3> HIDE DEF n, t
    <3> QED BY <2>4
  <2> QED BY <2>1, <2>4, <2>5, <2>6
<1>13. TypeOK'
  <2>1. entries' \in [Buckets -> Seq(Entries \cup {Hole})]
    BY <1>0, <1>7, <1>8, <1>9, <1>11
  <2>2. free_entries' \in [Buckets -> Seq(Nat \X Nat)]
    BY <1>0, <1>1, <1>8, <1>12 DEF free
  <2>3. num_entries' \in [Buckets -> Int]
    <3>1. num_entries[b] + 1 \in Int
      BY <1>2
    <3> QED BY <1>0, <1>1, <1>8, <3>1
  <2> QED BY <1>0, <1>1, <2>1, <2>2, <2>3 DEF TypeOK, Buckets, Keys
<1>14. HeldIn(b)' = HeldIn(b) \cup {e}
  <2>1. ASSUME NEW x \in HeldIn(b)'
        PROVE  x \in HeldIn(b) \cup {e}
    BY <1>11 DEF HeldIn
  <2>2. e \in HeldIn(b)'
    BY <1>6, <1>11 DEF HeldIn
  <2>3. ASSUME NEW x \in HeldIn(b)
        PROVE  x \in HeldIn(b)'
    <3>1. PICK i \in DOMAIN entries[b] : entries[b][i] = x
      BY DEF HeldIn
    <3>2. i # p
      BY <1>0, <1>6, <3>1 DEF HeldIn
    <3> QED BY <1>11, <3>1, <3>2 DEF HeldIn
  <2> QED BY <2>1, <2>2, <2>3
<1>15. \A o \in HeldIn(b) : KeyOf[o] # k
  BY <1>0, <1>3 DEF HeldIn
<1>16. Cardinality(HeldIn(b)') = Cardinality(HeldIn(b)) + 1
  <2>1. IsFiniteSet(HeldIn(b)) /\ e \notin HeldIn(b)
    BY <1>4, <1>15, HeldFinite
  <2> QED BY <1>14, <2>1, FS_AddElement
<1>17. BucketInv(b)'
  <2>1. Placed(b)'
    <3>1. \A i \in DOMAIN entries[b] : entries[b][i] # Hole => Hash[KeyOf[entries[b][i]]] = b
      BY <1>0 DEF BucketInv, Placed
    <3>2. \A i, j \in DOMAIN entries[b] :
            entries[b][i] # Hole /\ entries[b][j] # Hole
            /\ KeyOf[entries[b][i]] = KeyOf[entries[b][j]] => i = j
      BY <1>0 DEF BucketInv, Placed
    <3> QED BY <1>3, <1>4, <1>11, <3>1, <3>2 DEF Placed
  <2>2. Freed(b)'
    <3>1. ASSUME NEW j \in DOMAIN free_entries'[b]
          PROVE  \E i \in DOMAIN entries'[b] :
                   entries'[b][i] = Hole /\ free_entries'[b][j] = <<home'[b], i>>
      <4>1. j + 1 \in DOMAIN free /\ free_entries'[b][j] = free[j + 1] /\ j + 1 # 1
        BY <1>2, <1>10, <1>12, <3>1
      <4>2. PICK i \in DOMAIN entries[b] : entries[b][i] = Hole /\ free[j + 1] = <<home[b], i>>
        BY <1>0, <4>1 DEF BucketInv, Freed, free
      <4>3. i # p
        BY <1>0, <1>5, <1>6, <4>1, <4>2 DEF BucketInv, Freed, free
      <4> QED BY <1>1, <1>11, <4>1, <4>2, <4>3
    <3>2. ASSUME NEW i \in DOMAIN entries'[b], entries'[b][i] = Hole
          PROVE  \E j \in DOMAIN free_entries'[b] : free_entries'[b][j] = <<home'[b], i>>
      <4>1. i \in DOMAIN entries[b] /\ i # p /\ entries[b][i] = Hole
        BY <1>0, <1>11, <3>2
      <4>2. PICK l \in DOMAIN free : free[l] = <<home[b], i>>
        BY <1>0, <4>1 DEF BucketInv, Freed, free
      <4>3. l # 1
        BY <1>6, <4>1, <4>2
      <4>4. l - 1 \in DOMAIN Tail(free) /\ (l - 1) + 1 = l
        <5> DEFINE n == Len(free)
        <5>1. n \in Nat /\ l \in 1 .. n
          BY <1>2, <4>2
        <5>2. DOMAIN Tail(free) = 1 .. (n - 1)
          BY <1>12
        <5> HIDE DEF n
        <5>3. l - 1 \in 1 .. (n - 1) /\ (l - 1) + 1 = l
          BY <5>1, <4>3
        <5> QED BY <5>2, <5>3
      <4>5. Tail(free)[l - 1] = free[l]
        BY <1>12, <4>4
      <4> QED BY <1>1, <1>10, <4>2, <4>4, <4>5
    <3>3. ASSUME NEW j \in DOMAIN free_entries'[b], NEW l \in DOMAIN free_entries'[b],
                 free_entries'[b][j] = free_entries'[b][l]
          PROVE  j = l
      <4>1. /\ j + 1 \in DOMAIN free /\ l + 1 \in DOMAIN free
            /\ free[j + 1] = free[l + 1] /\ j \in Int /\ l \in Int
        BY <1>2, <1>10, <1>12, <3>3
      <4>2. j + 1 = l + 1
        BY <1>0, <4>1 DEF BucketInv, Freed, free
      <4> QED BY <4>1, <4>2
    <3> QED BY <3>1, <3>2, <3>3 DEF Freed
  <2>3. Counted(b)'
    <3>1. num_entries[b] = Len(entries[b]) - Len(free) /\ num_entries[b] = Cardinality(HeldIn(b))
      BY <1>0 DEF BucketInv, Counted, free
    <3>2. num_entries'[b] = Len(entries'[b]) - Len(free_entries'[b])
      BY <1>2, <1>10, <1>11, <1>12, <3>1
    <3>3. num_entries'[b] = Cardinality(HeldIn(b)')
      BY <1>10, <1>16, <3>1
    <3> QED BY <3>2, <3>3 DEF Counted
  <2> QED BY <2>1, <2>2, <2>3 DEF BucketInv
<1>18. \A c \in Buckets \ {b} : BucketInv(c)' /\ HeldIn(c)' = HeldIn(c)
  BY <1>1, <1>9, <1>10, Elsewhere DEF MapInv
<1>19. Buckets' = Buckets
  BY DEF Buckets, Keys
<1>20. MapInv'
  BY <1>13, <1>17, <1>18, <1>19 DEF MapInv
<1> QED BY <1>14, <1>15, <1>18, <1>20 DEF b, k

(* hashmap_put of a new key when there is no hole: nothing points into the  *)
(* memory the array leaves.                                                *)
LEMMA GrowStep ==
  ASSUME RealEntries, MapInv, NEW e \in Entries, Grow(e)
  PROVE  /\ MapInv'
         /\ \A o \in HeldIn(Hash[KeyOf[e]]) : KeyOf[o] # KeyOf[e]
         /\ HeldIn(Hash[KeyOf[e]])' = HeldIn(Hash[KeyOf[e]]) \cup {e}
         /\ \A c \in Buckets \ {Hash[KeyOf[e]]} : HeldIn(c)' = HeldIn(c)
<1> DEFINE k == KeyOf[e]
           b == Hash[k]
           n == Len(entries[b])
<1>0. k \in Keys /\ b \in Buckets /\ TypeOK /\ BucketInv(b) /\ Hole \notin Entries
  BY BucketOfEntry DEF MapInv, RealEntries
<1>1. /\ ~Found(k) /\ free_entries[b] = <<>>
      /\ entries' = [entries EXCEPT ![b] = Append(@, e)]
      /\ home' = [home EXCEPT ![b] = @ + 1]
      /\ num_entries' = [num_entries EXCEPT ![b] = @ + 1]
      /\ free_entries' = free_entries /\ destroyed' = destroyed
      /\ destructs' = destructs /\ in_destroy' = in_destroy
  BY DEF Grow
<1>2. /\ entries[b] \in Seq(Entries \cup {Hole}) /\ DOMAIN entries[b] = 1 .. n
      /\ \A i \in DOMAIN entries[b] : entries[b][i] \in Entries \cup {Hole}
      /\ num_entries[b] \in Int /\ n \in Nat /\ home[b] \in Nat
  BY <1>0, BucketType
<1>3. \A i \in DOMAIN entries[b] : entries[b][i] # Hole => KeyOf[entries[b][i]] # k
  BY <1>0, <1>1, NotFound
<1>4. Hash[KeyOf[e]] = b /\ KeyOf[e] = k /\ Len(entries[b]) = n
  OBVIOUS
<1> HIDE DEF k, b, n
<1>5. DOMAIN free_entries[b] = {} /\ Len(free_entries[b]) = 0
  BY <1>1
<1>6. \A i \in DOMAIN entries[b] : entries[b][i] # Hole
  BY <1>0, <1>5 DEF BucketInv, Freed
<1>8. /\ entries \in [Buckets -> Seq(Entries \cup {Hole})]
      /\ home \in [Buckets -> Nat]
      /\ num_entries \in [Buckets -> Int]
  BY <1>0 DEF TypeOK
<1>9. /\ entries'[b] = Append(entries[b], e)
      /\ \A c \in Buckets \ {b} : entries'[c] = entries[c]
  BY <1>0, <1>1, <1>8
<1>10. /\ home'[b] = home[b] + 1 /\ num_entries'[b] = num_entries[b] + 1
       /\ \A c \in Buckets \ {b} : /\ home'[c] = home[c]
                                   /\ num_entries'[c] = num_entries[c]
  BY <1>0, <1>1, <1>8
<1>11. /\ entries'[b] \in Seq(Entries \cup {Hole}) /\ Len(entries'[b]) = n + 1
       /\ DOMAIN entries'[b] = 1 .. (n + 1)
       /\ \A j \in DOMAIN entries[b] : entries'[b][j] = entries[b][j]
       /\ entries'[b][n + 1] = e
  <2>1. /\ entries'[b] \in Seq(Entries \cup {Hole}) /\ Len(entries'[b]) = n + 1
        /\ \A j \in 1 .. n : entries'[b][j] = entries[b][j]
        /\ entries'[b][n + 1] = e
    BY <1>2, <1>4, <1>9, AppendProperties
  <2>2. DOMAIN entries'[b] = 1 .. (n + 1)
    BY <2>1, LenProperties
  <2> QED BY <1>2, <2>1, <2>2
<1>12. \A j \in DOMAIN entries'[b] : j \in DOMAIN entries[b] \/ j = n + 1
  BY <1>2, <1>11
<1>13. TypeOK'
  <2>1. entries' \in [Buckets -> Seq(Entries \cup {Hole})]
    BY <1>0, <1>1, <1>8, <1>9, <1>11
  <2>2. num_entries' \in [Buckets -> Int]
    <3>1. num_entries[b] + 1 \in Int
      BY <1>2
    <3> QED BY <1>0, <1>1, <1>8, <3>1
  <2>3. home' \in [Buckets -> Nat]
    <3>1. home[b] + 1 \in Nat
      BY <1>2
    <3> QED BY <1>0, <1>1, <1>8, <3>1
  <2> QED BY <1>0, <1>1, <2>1, <2>2, <2>3 DEF TypeOK, Buckets, Keys
<1>14. HeldIn(b)' = HeldIn(b) \cup {e}
  <2>1. ASSUME NEW x \in HeldIn(b)'
        PROVE  x \in HeldIn(b) \cup {e}
    BY <1>11, <1>12 DEF HeldIn
  <2>2. e \in HeldIn(b)'
    BY <1>2, <1>11 DEF HeldIn
  <2>3. ASSUME NEW x \in HeldIn(b)
        PROVE  x \in HeldIn(b)'
    <3>1. PICK i \in DOMAIN entries[b] : entries[b][i] = x
      BY DEF HeldIn
    <3>2. i \in DOMAIN entries'[b]
      BY <1>2, <1>11
    <3> QED BY <1>11, <3>1, <3>2 DEF HeldIn
  <2> QED BY <2>1, <2>2, <2>3
<1>15. \A o \in HeldIn(b) : KeyOf[o] # k
  BY <1>0, <1>3 DEF HeldIn
<1>16. Cardinality(HeldIn(b)') = Cardinality(HeldIn(b)) + 1
  <2>1. IsFiniteSet(HeldIn(b)) /\ e \notin HeldIn(b)
    BY <1>4, <1>15, HeldFinite
  <2> QED BY <1>14, <2>1, FS_AddElement
<1>17. BucketInv(b)'
  <2>1. Placed(b)'
    <3>1. \A i \in DOMAIN entries[b] : entries[b][i] # Hole => Hash[KeyOf[entries[b][i]]] = b
      BY <1>0 DEF BucketInv, Placed
    <3>2. \A i, j \in DOMAIN entries[b] :
            entries[b][i] # Hole /\ entries[b][j] # Hole
            /\ KeyOf[entries[b][i]] = KeyOf[entries[b][j]] => i = j
      BY <1>0 DEF BucketInv, Placed
    <3>3. ASSUME NEW i \in DOMAIN entries'[b]
          PROVE  Hash[KeyOf[entries'[b][i]]] = b
      BY <1>4, <1>6, <1>11, <1>12, <3>1
    <3>4. ASSUME NEW i \in DOMAIN entries'[b], NEW j \in DOMAIN entries'[b],
                 KeyOf[entries'[b][i]] = KeyOf[entries'[b][j]]
          PROVE  i = j
      <4>1. CASE i \in DOMAIN entries[b] /\ j \in DOMAIN entries[b]
        BY <1>6, <1>11, <3>2, <3>4, <4>1
      <4>2. CASE i = n + 1 \/ j = n + 1
        BY <1>3, <1>4, <1>6, <1>11, <1>12, <3>4, <4>2
      <4> QED BY <1>12, <4>1, <4>2
    <3> QED BY <3>3, <3>4 DEF Placed
  <2>2. Freed(b)'
    <3>1. DOMAIN free_entries'[b] = {}
      BY <1>1, <1>5
    <3>2. \A i \in DOMAIN entries'[b] : entries'[b][i] # Hole
      BY <1>0, <1>6, <1>11, <1>12
    <3> QED BY <3>1, <3>2 DEF Freed
  <2>3. Counted(b)'
    <3>1. num_entries[b] = n - 0 /\ num_entries[b] = Cardinality(HeldIn(b))
      BY <1>0, <1>4, <1>5 DEF BucketInv, Counted
    <3>2. num_entries'[b] = Len(entries'[b]) - Len(free_entries'[b])
      <4>1. Len(free_entries'[b]) = 0
        BY <1>1, <1>5
      <4>2. num_entries'[b] = n + 1 /\ Len(entries'[b]) = n + 1
        BY <1>2, <1>10, <1>11, <3>1
      <4> QED BY <1>2, <4>1, <4>2
    <3>3. num_entries'[b] = Cardinality(HeldIn(b)')
      BY <1>10, <1>16, <3>1
    <3> QED BY <3>2, <3>3 DEF Counted
  <2> QED BY <2>1, <2>2, <2>3 DEF BucketInv
<1>18. \A c \in Buckets \ {b} : BucketInv(c)' /\ HeldIn(c)' = HeldIn(c)
  BY <1>1, <1>9, <1>10, Elsewhere DEF MapInv
<1>19. Buckets' = Buckets
  BY DEF Buckets, Keys
<1>20. MapInv'
  BY <1>13, <1>17, <1>18, <1>19 DEF MapInv
<1> QED BY <1>14, <1>15, <1>18, <1>20 DEF b, k

(* hashmap_remove: the place the key had becomes a hole the list names. *)
LEMMA RemoveStep ==
  ASSUME RealEntries, MapInv, NEW k \in Keys, Remove(k)
  PROVE  /\ MapInv'
         /\ HeldIn(Hash[k])' = {o \in HeldIn(Hash[k]) : KeyOf[o] # k}
         /\ entries[Hash[k]][PlaceOf(k)] \in HeldIn(Hash[k])
         /\ KeyOf[entries[Hash[k]][PlaceOf(k)]] = k
         /\ \A o \in HeldIn(Hash[k]) : KeyOf[o] = k => o = entries[Hash[k]][PlaceOf(k)]
         /\ \A c \in Buckets \ {Hash[k]} : HeldIn(c)' = HeldIn(c)
<1> DEFINE b == Hash[k]
           p == PlaceOf(k)
           old == entries[b][p]
           free == free_entries[b]
           m == Len(free)
<1>0. b \in Buckets /\ TypeOK /\ BucketInv(b) /\ Hole \notin Entries
  BY DEF MapInv, RealEntries, Buckets
<1>1. /\ Found(k) /\ Destructor(old)
      /\ free_entries' = [free_entries EXCEPT ![b] = Append(@, <<home[b], p>>)]
      /\ entries' = [entries EXCEPT ![b][p] = Hole]
      /\ num_entries' = [num_entries EXCEPT ![b] = @ - 1]
      /\ home' = home /\ destructs' = destructs /\ in_destroy' = in_destroy
  BY DEF Remove
<1>2. /\ p \in DOMAIN entries[b] /\ old \in Entries /\ old # Hole /\ KeyOf[old] = k
      /\ Places(k) = {p}
  BY <1>0, <1>1, OnePlace DEF BucketInv
<1>3. /\ entries[b] \in Seq(Entries \cup {Hole}) /\ DOMAIN entries[b] = 1 .. Len(entries[b])
      /\ \A i \in DOMAIN entries[b] : entries[b][i] \in Entries \cup {Hole}
      /\ num_entries[b] \in Int /\ Len(entries[b]) \in Nat /\ home[b] \in Nat
      /\ free \in Seq(Nat \X Nat) /\ m \in Nat /\ DOMAIN free = 1 .. m
  BY <1>0, BucketType
<1>4. Len(free) = m
  OBVIOUS
<1> HIDE DEF b, p, old, free, m
<1>5. /\ entries \in [Buckets -> Seq(Entries \cup {Hole})]
      /\ free_entries \in [Buckets -> Seq(Nat \X Nat)]
      /\ num_entries \in [Buckets -> Int]
  BY <1>0 DEF TypeOK
<1>6. /\ entries'[b] = [entries[b] EXCEPT ![p] = Hole]
      /\ free_entries'[b] = Append(free, <<home[b], p>>)
      /\ num_entries'[b] = num_entries[b] - 1
      /\ \A c \in Buckets \ {b} : /\ entries'[c] = entries[c]
                                  /\ free_entries'[c] = free_entries[c]
                                  /\ num_entries'[c] = num_entries[c]
  BY <1>0, <1>1, <1>5 DEF free
<1>7. /\ entries'[b] \in Seq(Entries \cup {Hole}) /\ Len(entries'[b]) = Len(entries[b])
      /\ DOMAIN entries'[b] = DOMAIN entries[b]
      /\ \A j \in DOMAIN entries[b] : entries'[b][j] = IF j = p THEN Hole ELSE entries[b][j]
  BY <1>2, <1>3, <1>6, ExceptSeq
<1>8. /\ free_entries'[b] \in Seq(Nat \X Nat) /\ Len(free_entries'[b]) = m + 1
      /\ DOMAIN free_entries'[b] = 1 .. (m + 1)
      /\ \A j \in DOMAIN free : free_entries'[b][j] = free[j]
      /\ free_entries'[b][m + 1] = <<home[b], p>>
      /\ \A j \in DOMAIN free_entries'[b] : j \in DOMAIN free \/ j = m + 1
      /\ m + 1 \in DOMAIN free_entries'[b] /\ DOMAIN free \subseteq DOMAIN free_entries'[b]
  <2>1. <<home[b], p>> \in Nat \X Nat
    BY <1>2, <1>3
  <2>2. /\ free_entries'[b] \in Seq(Nat \X Nat) /\ Len(free_entries'[b]) = m + 1
        /\ \A j \in 1 .. m : free_entries'[b][j] = free[j]
        /\ free_entries'[b][m + 1] = <<home[b], p>>
    BY <1>3, <1>4, <1>6, <2>1, AppendProperties
  <2>3. DOMAIN free_entries'[b] = 1 .. (m + 1)
    BY <2>2, LenProperties
  <2>4. /\ \A j \in 1 .. (m + 1) : j \in 1 .. m \/ j = m + 1
        /\ m + 1 \in 1 .. (m + 1) /\ 1 .. m \subseteq 1 .. (m + 1)
    BY <1>3
  <2>5. DOMAIN free = 1 .. m
    BY <1>3
  <2> QED BY <2>2, <2>3, <2>4, <2>5
<1>9. TypeOK'
  <2>1. entries' \in [Buckets -> Seq(Entries \cup {Hole})]
    BY <1>0, <1>1, <1>5, <1>7
  <2>2. free_entries' \in [Buckets -> Seq(Nat \X Nat)]
    <3>1. free_entries' = [free_entries EXCEPT ![b] = free_entries'[b]]
      BY <1>0, <1>1, <1>5
    <3> QED BY <1>0, <1>5, <1>8, <3>1
  <2>3. num_entries' \in [Buckets -> Int]
    <3>1. num_entries[b] - 1 \in Int
      BY <1>3
    <3> QED BY <1>0, <1>1, <1>5, <3>1
  <2>4. destroyed' \in [Entries -> Nat]
    BY <1>0, <1>1, <1>2 DEF TypeOK, Destructor
  <2> QED BY <1>0, <1>1, <2>1, <2>2, <2>3, <2>4 DEF TypeOK, Buckets, Keys
<1>10. old \in HeldIn(b) /\ \A o \in HeldIn(b) : KeyOf[o] = k => o = old
  <2>1. old \in HeldIn(b)
    BY <1>2 DEF HeldIn, old
  <2>2. ASSUME NEW o \in HeldIn(b), KeyOf[o] = k
        PROVE  o = old
    <3>1. PICK i \in DOMAIN entries[b] : entries[b][i] = o
      BY DEF HeldIn
    <3>2. o # Hole
      BY <1>0 DEF HeldIn
    <3>3. i = p
      BY <1>0, <1>2, <2>2, <3>1, <3>2 DEF BucketInv, Placed, old
    <3> QED BY <3>1, <3>3 DEF old
  <2> QED BY <2>1, <2>2
<1>11. HeldIn(b)' = HeldIn(b) \ {old}
  <2>1. ASSUME NEW x \in HeldIn(b)'
        PROVE  x \in HeldIn(b) \ {old}
    <3>1. PICK i \in DOMAIN entries[b] : entries'[b][i] = x
      BY <1>7 DEF HeldIn
    <3>2. x \in Entries /\ i # p
      BY <1>0, <1>7, <3>1 DEF HeldIn
    <3>3. entries[b][i] = x
      BY <1>7, <3>1, <3>2
    <3>4. x # old
      BY <1>0, <1>2, <3>2, <3>3 DEF BucketInv, Placed, old
    <3> QED BY <3>2, <3>3, <3>4 DEF HeldIn
  <2>2. ASSUME NEW x \in HeldIn(b) \ {old}
        PROVE  x \in HeldIn(b)'
    <3>1. PICK i \in DOMAIN entries[b] : entries[b][i] = x
      BY DEF HeldIn
    <3>2. i # p
      BY <3>1 DEF old
    <3> QED BY <1>7, <3>1, <3>2 DEF HeldIn
  <2> QED BY <2>1, <2>2
<1>12. Cardinality(HeldIn(b)') = Cardinality(HeldIn(b)) - 1
  <2>1. IsFiniteSet(HeldIn(b))
    BY HeldFinite
  <2> QED BY <1>10, <1>11, <2>1, FS_RemoveElement
<1>13. BucketInv(b)'
  <2>1. Placed(b)'
    BY <1>0, <1>7 DEF BucketInv, Placed
  <2>2. Freed(b)'
    <3>1. ASSUME NEW j \in DOMAIN free_entries'[b]
          PROVE  \E i \in DOMAIN entries'[b] :
                   entries'[b][i] = Hole /\ free_entries'[b][j] = <<home'[b], i>>
      <4>1. CASE j = m + 1
        BY <1>1, <1>2, <1>7, <1>8, <4>1
      <4>2. CASE j \in DOMAIN free
        <5>1. PICK i \in DOMAIN entries[b] : entries[b][i] = Hole /\ free[j] = <<home[b], i>>
          BY <1>0, <4>2 DEF BucketInv, Freed, free
        <5> QED BY <1>1, <1>7, <1>8, <4>2, <5>1
      <4> QED BY <1>8, <4>1, <4>2
    <3>2. ASSUME NEW i \in DOMAIN entries'[b], entries'[b][i] = Hole
          PROVE  \E j \in DOMAIN free_entries'[b] : free_entries'[b][j] = <<home'[b], i>>
      <4>1. CASE i = p
        BY <1>1, <1>8, <4>1
      <4>2. CASE i # p
        <5>1. PICK l \in DOMAIN free : free[l] = <<home[b], i>>
          BY <1>0, <1>7, <3>2, <4>2 DEF BucketInv, Freed, free
        <5> QED BY <1>1, <1>8, <5>1
      <4> QED BY <4>1, <4>2
    <3>3. \A j \in DOMAIN free : free[j] # <<home[b], p>>
      <4> SUFFICES ASSUME NEW j \in DOMAIN free, free[j] = <<home[b], p>> PROVE FALSE
        OBVIOUS
      <4>1. PICK i \in DOMAIN entries[b] : entries[b][i] = Hole /\ free[j] = <<home[b], i>>
        BY <1>0 DEF BucketInv, Freed, free
      <4>2. i = p
        BY <4>1
      <4> QED BY <1>2, <4>1, <4>2 DEF old
    <3>4. \A j, l \in DOMAIN free : free[j] = free[l] => j = l
      BY <1>0 DEF BucketInv, Freed, free
    <3>5. \A j, l \in DOMAIN free_entries'[b] : free_entries'[b][j] = free_entries'[b][l] => j = l
      BY <1>8, <3>3, <3>4
    <3> QED BY <3>1, <3>2, <3>5 DEF Freed
  <2>3. Counted(b)'
    <3>1. num_entries[b] = Len(entries[b]) - m /\ num_entries[b] = Cardinality(HeldIn(b))
      BY <1>0, <1>4 DEF BucketInv, Counted, free
    <3>2. num_entries'[b] = Len(entries'[b]) - Len(free_entries'[b])
      <4>1. num_entries'[b] = (Len(entries[b]) - m) - 1
        BY <1>6, <3>1
      <4>2. Len(entries'[b]) = Len(entries[b]) /\ Len(free_entries'[b]) = m + 1
        BY <1>7, <1>8
      <4> QED BY <1>3, <4>1, <4>2
    <3>3. num_entries'[b] = Cardinality(HeldIn(b)')
      BY <1>6, <1>12, <3>1
    <3> QED BY <3>2, <3>3 DEF Counted
  <2> QED BY <2>1, <2>2, <2>3 DEF BucketInv
<1>14. \A c \in Buckets \ {b} : BucketInv(c)' /\ HeldIn(c)' = HeldIn(c)
  BY <1>1, <1>6, Elsewhere DEF MapInv
<1>15. Buckets' = Buckets
  BY DEF Buckets, Keys
<1>16. MapInv'
  BY <1>9, <1>13, <1>14, <1>15 DEF MapInv
<1>17. HeldIn(b)' = {o \in HeldIn(b) : KeyOf[o] # k}
  BY <1>2, <1>10, <1>11
<1> QED BY <1>2, <1>10, <1>14, <1>16, <1>17 DEF b, p, old

LEMMA DestroyStep ==
  ASSUME RealEntries, MapInv, Destroy
  PROVE  MapInv' /\ \A b \in Buckets : HeldIn(b)' = {}
<1>1. /\ entries' = [b \in Buckets |-> <<>>] /\ free_entries' = [b \in Buckets |-> <<>>]
      /\ num_entries' = [b \in Buckets |-> 0]
      /\ home' = home /\ destructs' = destructs /\ in_destroy' = TRUE
  BY DEF Destroy
<1>2. destroyed' \in [Entries -> Nat]
  <2>1. destroyed \in [Entries -> Nat]
    BY DEF MapInv, TypeOK
  <2>2. PICK left : destroyed' = [e \in Entries |-> IF destructs /\ e \in left
                                                    THEN destroyed[e] + 1 ELSE destroyed[e]]
    BY DEF Destroy
  <2> QED BY <2>1, <2>2
<1>3. TypeOK'
  <2>1. <<>> \in Seq(Entries \cup {Hole}) /\ <<>> \in Seq(Nat \X Nat)
    OBVIOUS
  <2>2. entries' \in [Buckets -> Seq(Entries \cup {Hole})]
    BY <1>1, <2>1
  <2>3. free_entries' \in [Buckets -> Seq(Nat \X Nat)]
    BY <1>1, <2>1
  <2>4. num_entries' \in [Buckets -> Int]
    BY <1>1
  <2>5. home' \in [Buckets -> Nat] /\ destructs' \in BOOLEAN
    BY <1>1 DEF MapInv, TypeOK
  <2> QED BY <1>1, <1>2, <2>2, <2>3, <2>4, <2>5 DEF TypeOK, Buckets, Keys
<1>4. ASSUME NEW b \in Buckets
      PROVE  BucketInv(b)' /\ HeldIn(b)' = {}
  <2>1. entries'[b] = <<>> /\ free_entries'[b] = <<>> /\ num_entries'[b] = 0
    BY <1>1
  <2>2. DOMAIN entries'[b] = {} /\ DOMAIN free_entries'[b] = {} /\ Len(entries'[b]) = 0
        /\ Len(free_entries'[b]) = 0
    BY <2>1
  <2>3. HeldIn(b)' = {}
    BY <2>2 DEF HeldIn
  <2>4. Cardinality(HeldIn(b)') = 0
    BY <2>3, FS_EmptySet
  <2> QED BY <2>1, <2>2, <2>3, <2>4 DEF BucketInv, Placed, Freed, Counted
<1>5. Buckets' = Buckets
  BY DEF Buckets, Keys
<1> QED BY <1>3, <1>4, <1>5 DEF MapInv

LEMMA StutterMap ==
  ASSUME MapInv, UNCHANGED vars
  PROVE  MapInv'
<1>1. /\ entries' = entries /\ home' = home /\ free_entries' = free_entries
      /\ num_entries' = num_entries /\ destroyed' = destroyed
      /\ destructs' = destructs /\ in_destroy' = in_destroy
  BY DEF vars, buckets
<1>2. Buckets' = Buckets
  BY DEF Buckets, Keys
<1>3. TypeOK'
  BY <1>1, <1>2 DEF MapInv, TypeOK
<1> QED BY <1>1, <1>2, <1>3, Elsewhere DEF MapInv

-----------------------------------------------------------------------------
(* Theorems *)

LEMMA NextMap ==
  ASSUME RealEntries, MapInv, [Next]_vars
  PROVE  MapInv'
BY ReplaceStep, FillHoleStep, GrowStep, RemoveStep, DestroyStep, StutterMap DEF Next

(* The invariant of the buckets. *)
THEOREM MapInvariance ==
  ASSUME RealEntries
  PROVE  Spec => []MapInv
<1>1. Init => MapInv
  BY InitMap
<1>2. MapInv /\ [Next]_vars => MapInv'
  BY NextMap
<1> QED BY <1>1, <1>2, PTL DEF Spec

(* A list that names every member of a set, each once, is as long as the    *)
(* set is large.                                                           *)
LEMMA FreeListOfInv ==
  ASSUME MapInv
  PROVE  FreeListExact
<1> SUFFICES ASSUME NEW b \in Buckets
             PROVE  LET holes == {i \in DOMAIN entries[b] : entries[b][i] = Hole}
                    IN /\ {free_entries[b][i] : i \in DOMAIN free_entries[b]}
                          = {<<home[b], i>> : i \in holes}
                       /\ Len(free_entries[b]) = Cardinality(holes)
                       /\ num_entries[b] = Len(entries[b]) - Len(free_entries[b])
  BY DEF FreeListExact
<1> DEFINE holes == {i \in DOMAIN entries[b] : entries[b][i] = Hole}
           m == Len(free_entries[b])
           at == [j \in 1 .. m |-> free_entries[b][j][2]]
<1>1. BucketInv(b) /\ m \in Nat /\ DOMAIN free_entries[b] = 1 .. m
  BY BucketType DEF MapInv
<1>2. \A j \in 1 .. m : at[j] \in holes /\ free_entries[b][j] = <<home[b], at[j]>>
  BY <1>1 DEF BucketInv, Freed
<1>3. \A i \in holes : \E j \in 1 .. m : free_entries[b][j] = <<home[b], i>> /\ at[j] = i
  <2> SUFFICES ASSUME NEW i \in holes
               PROVE  \E j \in 1 .. m : free_entries[b][j] = <<home[b], i>> /\ at[j] = i
    OBVIOUS
  <2>1. PICK j \in 1 .. m : free_entries[b][j] = <<home[b], i>>
    BY <1>1 DEF BucketInv, Freed
  <2>2. at[j] = i
    BY <2>1
  <2> QED BY <2>1, <2>2
<1>4. \A j, l \in 1 .. m : at[j] = at[l] => j = l
  <2> SUFFICES ASSUME NEW j \in 1 .. m, NEW l \in 1 .. m, at[j] = at[l] PROVE j = l
    OBVIOUS
  <2>1. free_entries[b][j] = free_entries[b][l]
    <3>1. free_entries[b][j] = <<home[b], at[j]>> /\ free_entries[b][l] = <<home[b], at[l]>>
      BY <1>2
    <3> HIDE DEF at
    <3> QED BY <3>1
  <2> QED BY <1>1, <2>1 DEF BucketInv, Freed
<1>5. DOMAIN at = 1 .. m
  OBVIOUS
<1>6. num_entries[b] = Len(entries[b]) - Len(free_entries[b])
  BY <1>1 DEF BucketInv, Counted
<1>7. {free_entries[b][i] : i \in DOMAIN free_entries[b]} = {<<home[b], i>> : i \in holes}
  <2> HIDE DEF holes, at, m
  <2>1. {free_entries[b][j] : j \in DOMAIN free_entries[b]} = {free_entries[b][j] : j \in 1 .. m}
    BY <1>1
  <2>2. \A j \in 1 .. m : free_entries[b][j] \in {<<home[b], i>> : i \in holes}
    BY <1>2
  <2>3. \A i \in holes : <<home[b], i>> \in {free_entries[b][j] : j \in 1 .. m}
    BY <1>3
  <2> QED BY <2>1, <2>2, <2>3
<1>8. m = Cardinality(holes)
  <2> HIDE DEF holes, at, m
  <2>1. at \in [1 .. m -> holes]
    BY <1>2, <1>5 DEF at
  <2>2. at \in Injection(1 .. m, holes) /\ at \in Surjection(1 .. m, holes)
    BY <1>3, <1>4, <2>1 DEF Injection, IsInjective, Surjection
  <2>3. IsFiniteSet(1 .. m) /\ Cardinality(1 .. m) = m
    BY <1>1, FS_Interval
  <2>4. Cardinality(holes) = Cardinality(1 .. m)
    BY <2>2, <2>3, FS_Surjection
  <2> QED BY <2>3, <2>4
<1> QED BY <1>6, <1>7, <1>8

(* Every variable of the map keeps its type. *)
THEOREM MapTypeCorrect ==
  ASSUME RealEntries
  PROVE  Spec => []TypeOK
<1>1. MapInv => TypeOK
  BY DEF MapInv
<1> QED BY <1>1, MapInvariance, PTL

(* The free list of a bucket never points into memory the array has left,   *)
(* names every hole, and names it once.                                    *)
THEOREM FreeListsExact ==
  ASSUME RealEntries
  PROVE  Spec => []FreeListExact
<1>1. MapInv => FreeListExact
  BY FreeListOfInv
<1> QED BY <1>1, MapInvariance, PTL

-----------------------------------------------------------------------------
(* The abstract map *)

LEMMA FiniteBuckets ==
  ASSUME RealEntries
  PROVE  IsFiniteSet(Buckets)
<1> DEFINE f == [e \in Entries |-> Hash[KeyOf[e]]]
<1>1. Buckets = {f[e] : e \in Entries}
  BY DEF Buckets, Keys
<1>2. f \in [Entries -> Buckets]
  BY <1>1
<1>3. \A b \in Buckets : \E e \in Entries : f[e] = b
  BY <1>1
<1>4. f \in Surjection(Entries, Buckets)
  BY <1>2, <1>3 DEF Surjection
<1> QED BY <1>4, FS_Surjection DEF RealEntries

(* An entry is in the bucket of its key. *)
LEMMA HeldWhere ==
  ASSUME RealEntries, MapInv, NEW b \in Buckets, NEW e \in HeldIn(b)
  PROVE  e \in Entries /\ Hash[KeyOf[e]] = b
<1>1. PICK i \in DOMAIN entries[b] : entries[b][i] = e
  BY DEF HeldIn
<1>2. e \in Entries /\ e # Hole
  BY DEF HeldIn, RealEntries
<1> QED BY <1>1, <1>2 DEF MapInv, BucketInv, Placed

(* The entries of some buckets, and how many they are. *)
HeldBy(B) == UNION {HeldIn(b) : b \in B}

LEMMA HeldByFinite ==
  ASSUME RealEntries, NEW B \in SUBSET Buckets
  PROVE  IsFiniteSet(HeldBy(B)) /\ Cardinality(HeldBy(B)) \in Nat
<1>1. IsFiniteSet(Entries) /\ HeldBy(B) \in SUBSET Entries
  BY DEF RealEntries, HeldBy, HeldIn
<1>2. IsFiniteSet(HeldBy(B))
  BY <1>1, FS_Subset
<1> QED BY <1>2, FS_CardinalityType

LEMMA HeldByAdds ==
  ASSUME RealEntries, MapInv, NEW B \in SUBSET Buckets, NEW b \in B
  PROVE  Cardinality(HeldBy(B)) = num_entries[b] + Cardinality(HeldBy(B \ {b}))
<1>1. IsFiniteSet(HeldIn(b)) /\ IsFiniteSet(HeldBy(B \ {b}))
  BY HeldFinite, HeldByFinite
<1>2. HeldBy(B) = HeldIn(b) \cup HeldBy(B \ {b})
  BY DEF HeldBy
<1>3. HeldIn(b) \cap HeldBy(B \ {b}) = {}
  <2> SUFFICES ASSUME NEW e \in HeldIn(b), NEW c \in B \ {b}, e \in HeldIn(c) PROVE FALSE
    BY DEF HeldBy
  <2> QED BY HeldWhere
<1>4. num_entries[b] = Cardinality(HeldIn(b))
  BY DEF MapInv, BucketInv, Counted
<1>5. Cardinality(HeldBy(B)) =
        Cardinality(HeldIn(b)) + Cardinality(HeldBy(B \ {b})) - Cardinality({})
  BY <1>1, <1>2, <1>3, FS_Union
<1>6. Cardinality({}) = 0
  BY FS_EmptySet
<1>7. Cardinality(HeldIn(b)) \in Nat /\ Cardinality(HeldBy(B \ {b})) \in Nat
  BY <1>1, FS_CardinalityType
<1> QED BY <1>4, <1>5, <1>6, <1>7

(* hashmap_size() adds up the buckets and gets the number of entries. *)
LEMMA SizeExact ==
  ASSUME RealEntries, MapInv
  PROVE  Size = Cardinality(Held)
<1> DEFINE total(f) == [B \in SUBSET Buckets |->
                          IF B = {} THEN 0
                          ELSE LET b == CHOOSE b \in B : TRUE IN num_entries[b] + f[B \ {b}]]
           count == [B \in SUBSET Buckets |-> Cardinality(HeldBy(B))]
           sum == CHOOSE f : f = total(f)
<1>1. Size = sum[Buckets]
  BY DEF Size
<1>2. count = total(count)
  <2>1. ASSUME NEW B \in SUBSET Buckets
        PROVE  count[B] = total(count)[B]
    <3>1. CASE B = {}
      <4>1. HeldBy(B) = {}
        BY <3>1 DEF HeldBy
      <4> QED BY <3>1, <4>1, FS_EmptySet
    <3>2. CASE B # {}
      <4> DEFINE b == CHOOSE b \in B : TRUE
      <4>1. b \in B
        BY <3>2
      <4>2. count[B] = num_entries[b] + count[B \ {b}]
        BY <4>1, HeldByAdds
      <4> QED BY <3>2, <4>2
    <3> QED BY <3>1, <3>2
  <2> QED BY <2>1
<1>3. sum = total(sum)
  <2>1. \E f : f = total(f)
    BY <1>2
  <2> HIDE DEF total
  <2> QED BY <2>1
<1>4. ASSUME NEW B \in SUBSET Buckets, B # {}
      PROVE  \E b \in B : sum[B] = num_entries[b] + sum[B \ {b}]
  <2> DEFINE b == CHOOSE b \in B : TRUE
  <2>1. b \in B
    BY <1>4
  <2>2. total(sum)[B] = num_entries[b] + sum[B \ {b}]
    BY <1>4
  <2> HIDE DEF total, b, sum
  <2> QED BY <1>3, <2>1, <2>2
<1>5. sum[{}] = 0
  <2>1. total(sum)[{}] = 0
    OBVIOUS
  <2> HIDE DEF total, sum
  <2> QED BY <1>3, <2>1
<1> HIDE DEF sum, total, count
<1> DEFINE wrong == {B \in SUBSET Buckets : sum[B] # Cardinality(HeldBy(B))}
           sizes == {Cardinality(B) : B \in wrong}
<1>6. \A B \in SUBSET Buckets : IsFiniteSet(B) /\ Cardinality(B) \in Nat
  BY FiniteBuckets, FS_Subset, FS_CardinalityType
<1>7. wrong = {}
  <2> SUFFICES ASSUME wrong # {} PROVE FALSE
    OBVIOUS
  <2>1. sizes \subseteq Nat /\ sizes # {}
    BY <1>6
  <2>2. PICK n \in sizes : \A y \in sizes : ~ (<<y, n>> \in OpToRel(<, Nat))
    BY <2>1, NatLessThanWellFounded, WFMin
  <2>3. PICK B \in wrong : Cardinality(B) = n
    OBVIOUS
  <2>4. B \in SUBSET Buckets /\ sum[B] # Cardinality(HeldBy(B)) /\ n \in Nat
    BY <2>1, <2>3
  <2>5. B # {}
    <3> SUFFICES ASSUME B = {} PROVE FALSE
      OBVIOUS
    <3>1. HeldBy(B) = {}
      BY DEF HeldBy
    <3> QED BY <1>5, <2>4, <3>1, FS_EmptySet
  <2>6. PICK b \in B : sum[B] = num_entries[b] + sum[B \ {b}]
    BY <1>4, <2>4, <2>5
  <2>7. Cardinality(HeldBy(B)) = num_entries[b] + Cardinality(HeldBy(B \ {b}))
    BY <2>4, HeldByAdds
  <2>8. B \ {b} \in wrong
    BY <2>4, <2>6, <2>7
  <2>9. Cardinality(B \ {b}) = n - 1 /\ Cardinality(B \ {b}) \in Nat
    BY <1>6, <2>3, <2>4, FS_RemoveElement
  <2>10. <<Cardinality(B \ {b}), n>> \in OpToRel(<, Nat)
    BY <2>4, <2>9 DEF OpToRel
  <2> QED BY <2>2, <2>8, <2>10
<1>8. sum[Buckets] = Cardinality(HeldBy(Buckets))
  BY <1>7
<1>9. Held = HeldBy(Buckets)
  BY DEF Held, HeldBy
<1> QED BY <1>1, <1>8, <1>9

(* Look-ups find what the buckets hold. *)
LEMMA LookupsExact ==
  ASSUME RealEntries, MapInv
  PROVE  UNION {Got(k) : k \in Keys} = Held
<1>1. ASSUME NEW k \in Keys, NEW e \in Got(k)
      PROVE  e \in Held
  <2>1. Found(k) /\ e = entries[Hash[k]][PlaceOf(k)] /\ Hash[k] \in Buckets
    BY DEF Got, Buckets
  <2>2. PlaceOf(k) \in DOMAIN entries[Hash[k]] /\ e \in Entries
    BY <2>1, OnePlace DEF MapInv, BucketInv
  <2>3. e \in HeldIn(Hash[k])
    BY <2>1, <2>2 DEF HeldIn
  <2> QED BY <2>1, <2>3 DEF Held
<1>2. ASSUME NEW e \in Held
      PROVE  \E k \in Keys : e \in Got(k)
  <2>1. PICK b \in Buckets : e \in HeldIn(b)
    BY DEF Held
  <2>2. e \in Entries /\ Hash[KeyOf[e]] = b /\ KeyOf[e] \in Keys
    BY <2>1, HeldWhere, BucketOfEntry
  <2>3. PICK i \in DOMAIN entries[b] : entries[b][i] = e
    BY <2>1 DEF HeldIn
  <2>4. i \in Places(KeyOf[e])
    BY <2>2, <2>3 DEF Places, RealEntries
  <2>5. Found(KeyOf[e])
    BY <2>4 DEF Found
  <2>6. i = PlaceOf(KeyOf[e])
    BY <2>2, <2>4, <2>5, OnePlace DEF MapInv, BucketInv
  <2> QED BY <2>2, <2>3, <2>5, <2>6 DEF Got
<1> QED BY <1>1, <1>2

LEMMA AbsView ==
  ASSUME RealEntries
  PROVE  /\ MapInv => UNION {Got(k) : k \in Keys} = Held /\ Size = Cardinality(Held)
         /\ MapInv' => UNION {Got(k) : k \in Keys}' = Held' /\ Size' = Cardinality(Held)'
<1>1. MapInv => UNION {Got(k) : k \in Keys} = Held /\ Size = Cardinality(Held)
  BY LookupsExact, SizeExact
<1>2. (MapInv => UNION {Got(k) : k \in Keys} = Held /\ Size = Cardinality(Held))'
  BY <1>1, PTL
<1> QED BY <1>1, <1>2

(* A step of the table that leaves h in the buckets and calls the           *)
(* destructor for what it gives up is one of the abstract map.             *)
LEMMA BecomesStep ==
  ASSUME RealEntries, MapInv, MapInv', NEW h, Held' = h, destructs' = destructs,
         destroyed' = [e \in Entries |-> IF destructs /\ e \in Held \ h
                                         THEN destroyed[e] + 1 ELSE destroyed[e]]
  PROVE  Abs!Becomes(h)
<1>1. UNION {Got(k) : k \in Keys} = Held /\ UNION {Got(k) : k \in Keys}' = Held'
      /\ Size' = Cardinality(Held)'
  BY AbsView
<1> DEFINE held == UNION {Got(k) : k \in Keys}
<1>2. held = Held /\ held' = h /\ Size' = Cardinality(h)
  BY <1>1
<1>3. destroyed' = [e \in Entries |-> IF destructs /\ e \in held \ h
                                      THEN destroyed[e] + 1 ELSE destroyed[e]]
  BY <1>2
<1> HIDE DEF held
<1>4. Abs!Cardinality(h) = Cardinality(h)
  BY DEF Abs!Cardinality, Cardinality
<1>5. Abs!Becomes(h) <=>
        /\ held' = h /\ Size' = Cardinality(h)
        /\ destroyed' = [e \in Entries |-> IF destructs /\ e \in held \ h
                                           THEN destroyed[e] + 1 ELSE destroyed[e]]
        /\ UNCHANGED destructs
  BY <1>4 DEF Abs!Becomes, held
<1> QED BY <1>2, <1>3, <1>5

(* The entries of another bucket have other keys. *)
LEMMA HeldOfKey ==
  ASSUME RealEntries, MapInv, NEW k \in Keys
  PROVE  {o \in Held : KeyOf[o] # k} =
           UNION ({HeldIn(c) : c \in Buckets \ {Hash[k]}}
                  \cup {{o \in HeldIn(Hash[k]) : KeyOf[o] # k}})
<1>1. \A c \in Buckets : \A o \in HeldIn(c) : Hash[KeyOf[o]] = c
  BY HeldWhere
<1>2. Hash[k] \in Buckets
  BY DEF Buckets
<1> DEFINE others == {HeldIn(c) : c \in Buckets \ {Hash[k]}}
           rest == {o \in HeldIn(Hash[k]) : KeyOf[o] # k}
<1>3. ASSUME NEW o \in Held, KeyOf[o] # k
      PROVE  o \in UNION (others \cup {rest})
  <2>1. PICK c \in Buckets : o \in HeldIn(c)
    BY DEF Held
  <2>2. CASE c = Hash[k]
    <3>1. o \in rest
      BY <1>3, <2>1, <2>2
    <3> HIDE DEF rest, others
    <3> QED BY <3>1
  <2>3. CASE c # Hash[k]
    <3>1. HeldIn(c) \in others
      BY <2>3
    <3> HIDE DEF rest, others
    <3> QED BY <2>1, <3>1
  <2> QED BY <2>2, <2>3
<1>4. ASSUME NEW o \in UNION (others \cup {rest})
      PROVE  o \in Held /\ KeyOf[o] # k
  <2>1. CASE o \in rest
    BY <1>2, <2>1 DEF Held
  <2>2. CASE o \in UNION others
    <3>1. PICK c \in Buckets \ {Hash[k]} : o \in HeldIn(c)
      BY <2>2
    <3>2. o \in Held /\ Hash[KeyOf[o]] = c
      BY <1>1, <3>1 DEF Held
    <3> QED BY <3>1, <3>2
  <2>3. o \in rest \/ o \in UNION others
    <3> HIDE DEF rest, others
    <3> QED BY <1>4
  <2> QED BY <2>1, <2>2, <2>3
<1>5. {o \in Held : KeyOf[o] # k} = UNION (others \cup {rest})
  <2> HIDE DEF rest, others
  <2> QED BY <1>3, <1>4
<1> QED BY <1>5

(* When one bucket changes, so does what the table holds. *)
LEMMA HeldChanges ==
  ASSUME NEW b \in Buckets, \A c \in Buckets \ {b} : HeldIn(c)' = HeldIn(c)
  PROVE  Held' = UNION ({HeldIn(c) : c \in Buckets \ {b}} \cup {HeldIn(b)'})
<1>1. Held' = UNION {HeldIn(c)' : c \in Buckets}
  BY DEF Held, Buckets, Keys
<1> QED BY <1>1

(* Entries the map gives up are destroyed, and no others. *)
LEMMA Destroyed ==
  ASSUME NEW old \in Entries, NEW left, left = {old}, destroyed \in [Entries -> Nat],
         Destructor(old)
  PROVE  destroyed' = [e \in Entries |-> IF destructs /\ e \in left
                                         THEN destroyed[e] + 1 ELSE destroyed[e]]
BY DEF Destructor

LEMMA ReplaceAbs ==
  ASSUME RealEntries, MapInv, NEW e \in Entries, Replace(e)
  PROVE  Abs!Put(e)
<1> DEFINE k == KeyOf[e]
           b == Hash[k]
           old == entries[b][PlaceOf(k)]
           h == {o \in Held : KeyOf[o] # k} \cup {e}
<1>0. k \in Keys /\ b \in Buckets /\ TypeOK /\ BucketInv(b)
  BY BucketOfEntry DEF MapInv
<1>1. MapInv' /\ HeldIn(b)' = {o \in HeldIn(b) : KeyOf[o] # k} \cup {e}
      /\ \A c \in Buckets \ {b} : HeldIn(c)' = HeldIn(c)
  BY ReplaceStep
<1>2. Held' = h
  <2> DEFINE others == {HeldIn(c) : c \in Buckets \ {b}}
             rest == {o \in HeldIn(b) : KeyOf[o] # k}
  <2>1. Held' = UNION (others \cup {rest \cup {e}})
    BY <1>0, <1>1, HeldChanges
  <2>2. h = (UNION (others \cup {rest})) \cup {e}
    BY <1>0, HeldOfKey
  <2> HIDE DEF others, rest, h
  <2> QED BY <2>1, <2>2
<1>3. Found(k) /\ old # e /\ Destructor(old) /\ destructs' = destructs
  BY DEF Replace
<1>4. old \in Held /\ old \in Entries /\ KeyOf[old] = k
      /\ \A o \in Held : KeyOf[o] = k => o = old
  <2>1. /\ PlaceOf(k) \in DOMAIN entries[b] /\ old \in Entries /\ KeyOf[old] = k
        /\ Places(k) = {PlaceOf(k)}
    BY <1>0, <1>3, OnePlace DEF BucketInv
  <2>2. old \in Held
    BY <1>0, <2>1 DEF Held, HeldIn
  <2>3. ASSUME NEW o \in Held, KeyOf[o] = k
        PROVE  o = old
    <3>1. PICK c \in Buckets : o \in HeldIn(c)
      BY DEF Held
    <3>2. c = b /\ o \in Entries
      BY <2>3, <3>1, HeldWhere
    <3>3. PICK i \in DOMAIN entries[b] : entries[b][i] = o
      BY <3>1, <3>2 DEF HeldIn
    <3>4. i \in Places(k)
      BY <2>3, <3>2, <3>3 DEF Places, RealEntries
    <3> QED BY <2>1, <3>3, <3>4
  <2> QED BY <2>1, <2>2, <2>3
<1>5. Held \ h = {old}
  BY <1>3, <1>4
<1>6. destroyed' = [x \in Entries |-> IF destructs /\ x \in Held \ h
                                      THEN destroyed[x] + 1 ELSE destroyed[x]]
  <2>1. destroyed \in [Entries -> Nat]
    BY <1>0 DEF TypeOK
  <2> HIDE DEF h, old
  <2> QED BY <1>3, <1>4, <1>5, <2>1, Destroyed
<1>7. Abs!Becomes(h)
  <2> HIDE DEF h
  <2> QED BY <1>1, <1>2, <1>3, <1>6, BecomesStep
<1>8. UNION {Got(x) : x \in Keys} = Held
  BY AbsView
<1> QED BY <1>7, <1>8 DEF Abs!Put

LEMMA InsertAbs ==
  ASSUME RealEntries, MapInv, NEW e \in Entries, FillHole(e) \/ Grow(e)
  PROVE  Abs!Put(e)
<1> DEFINE k == KeyOf[e]
           b == Hash[k]
           h == {o \in Held : KeyOf[o] # k} \cup {e}
<1>0. k \in Keys /\ b \in Buckets /\ TypeOK
  BY BucketOfEntry DEF MapInv
<1>1. MapInv' /\ HeldIn(b)' = HeldIn(b) \cup {e}
      /\ (\A o \in HeldIn(b) : KeyOf[o] # k)
      /\ \A c \in Buckets \ {b} : HeldIn(c)' = HeldIn(c)
  BY FillHoleStep, GrowStep
<1>2. destroyed' = destroyed /\ destructs' = destructs
  BY DEF FillHole, Grow
<1>3. Held' = h
  <2>1. HeldIn(b)' = {o \in HeldIn(b) : KeyOf[o] # k} \cup {e}
    BY <1>1
  <2> QED BY <1>0, <1>1, <2>1, HeldOfKey, HeldChanges
<1>4. \A o \in Held : KeyOf[o] # k
  <2> SUFFICES ASSUME NEW c \in Buckets, NEW o \in HeldIn(c), KeyOf[o] = k PROVE FALSE
    BY DEF Held
  <2>1. c = b
    BY HeldWhere
  <2> QED BY <1>1, <2>1
<1>5. Held \ h = {}
  BY <1>4
<1>6. destroyed' = [x \in Entries |-> IF destructs /\ x \in Held \ h
                                      THEN destroyed[x] + 1 ELSE destroyed[x]]
  <2>1. destroyed \in [Entries -> Nat]
    BY <1>0 DEF TypeOK
  <2> HIDE DEF h
  <2> QED BY <1>2, <1>5, <2>1
<1>7. Abs!Becomes(h)
  <2> HIDE DEF h
  <2> QED BY <1>1, <1>2, <1>3, <1>6, BecomesStep
<1>8. UNION {Got(x) : x \in Keys} = Held
  BY AbsView
<1> QED BY <1>7, <1>8 DEF Abs!Put

LEMMA RemoveAbs ==
  ASSUME RealEntries, MapInv, NEW k \in Keys, Remove(k)
  PROVE  Abs!Remove(k)
<1> DEFINE b == Hash[k]
           old == entries[b][PlaceOf(k)]
           h == {o \in Held : KeyOf[o] # k}
<1>0. b \in Buckets /\ TypeOK
  BY DEF MapInv, Buckets
<1>1. /\ MapInv' /\ HeldIn(b)' = {o \in HeldIn(b) : KeyOf[o] # k}
      /\ old \in HeldIn(b) /\ KeyOf[old] = k
      /\ \A o \in HeldIn(b) : KeyOf[o] = k => o = old
      /\ \A c \in Buckets \ {b} : HeldIn(c)' = HeldIn(c)
  BY RemoveStep
<1>2. Destructor(old) /\ destructs' = destructs
  BY DEF Remove
<1>3. Held' = h
  BY <1>0, <1>1, HeldOfKey, HeldChanges
<1>4. \A o \in Held : KeyOf[o] = k => o = old
  <2> SUFFICES ASSUME NEW c \in Buckets, NEW o \in HeldIn(c), KeyOf[o] = k PROVE o = old
    BY DEF Held
  <2>1. c = b
    BY HeldWhere
  <2> QED BY <1>1, <2>1
<1>5. old \in Entries /\ Held \ h = {old}
  BY <1>0, <1>1, <1>4 DEF Held, HeldIn
<1>6. destroyed' = [x \in Entries |-> IF destructs /\ x \in Held \ h
                                      THEN destroyed[x] + 1 ELSE destroyed[x]]
  <2>1. destroyed \in [Entries -> Nat]
    BY <1>0 DEF TypeOK
  <2> HIDE DEF h, old
  <2> QED BY <1>2, <1>5, <2>1, Destroyed
<1>7. Abs!Becomes(h)
  <2> HIDE DEF h
  <2> QED BY <1>1, <1>2, <1>3, <1>6, BecomesStep
<1>8. UNION {Got(x) : x \in Keys} = Held
  BY AbsView
<1> QED BY <1>7, <1>8 DEF Abs!Remove

LEMMA DestroyAbs ==
  ASSUME RealEntries, MapInv, Destroy
  PROVE  Abs!Destroy
<1>1. MapInv' /\ \A b \in Buckets : HeldIn(b)' = {}
  BY DestroyStep
<1>2. Held' = {}
  BY <1>1 DEF Held, Buckets, Keys
<1>3. destructs' = destructs
  BY DEF Destroy
<1>4. Held = {e \in Entries : \E b \in Buckets : \E i \in DOMAIN entries[b] : entries[b][i] = e}
  BY DEF Held, HeldIn
<1>5. destroyed' = [e \in Entries |-> IF destructs /\ e \in Held \ {}
                                      THEN destroyed[e] + 1 ELSE destroyed[e]]
  <2>1. destroyed' = [e \in Entries |-> IF destructs /\ e \in Held
                                        THEN destroyed[e] + 1 ELSE destroyed[e]]
    BY <1>4 DEF Destroy
  <2>2. Held \ {} = Held
    OBVIOUS
  <2> QED BY <2>1, <2>2
<1>6. Abs!Becomes({})
  BY <1>1, <1>2, <1>3, <1>5, BecomesStep
<1> QED BY <1>6 DEF Abs!Destroy

LEMMA InitAbs ==
  ASSUME RealEntries, Init
  PROVE  Abs!Init
<1>1. MapInv /\ Held = {}
  BY InitMap
<1>2. UNION {Got(k) : k \in Keys} = {} /\ Size = 0
  BY <1>1, AbsView, FS_EmptySet
<1>3. destroyed = [e \in Entries |-> 0] /\ destructs \in BOOLEAN
  BY DEF Init
<1> QED BY <1>2, <1>3 DEF Abs!Init

(* Without a call nothing the callers can see changes. *)
LEMMA StutterAbs ==
  ASSUME UNCHANGED vars
  PROVE  UNCHANGED Abs!vars
<1>1. entries' = entries /\ num_entries' = num_entries
      /\ destroyed' = destroyed /\ destructs' = destructs
  BY DEF vars, buckets
<1>2. UNION {Got(k) : k \in Keys}' = UNION {Got(k) : k \in Keys}
  BY <1>1 DEF Got, Found, PlaceOf, Places, Keys
<1>3. Size' = Size
  BY <1>1 DEF Size, Buckets, Keys
<1> QED BY <1>1, <1>2, <1>3 DEF Abs!vars

LEMMA NextMapAbs ==
  ASSUME RealEntries
  PROVE  MapInv /\ [Next]_vars => [Abs!Next]_(Abs!vars)
<1> SUFFICES ASSUME MapInv, [Next]_vars PROVE [Abs!Next]_(Abs!vars)
  OBVIOUS
<1>1. ASSUME NEW e \in Entries, Replace(e) \/ FillHole(e) \/ Grow(e)
      PROVE  Abs!Next
  <2>1. Abs!Put(e)
    BY <1>1, ReplaceAbs, InsertAbs
  <2> QED BY <2>1 DEF Abs!Next
<1>2. ASSUME NEW k \in Keys, Remove(k)
      PROVE  Abs!Next
  <2>1. Abs!Remove(k)
    BY <1>2, RemoveAbs
  <2>2. PICK e \in Entries : k = KeyOf[e]
    BY DEF Keys
  <2> QED BY <2>1, <2>2 DEF Abs!Next
<1>3. CASE Destroy
  BY <1>3, DestroyAbs DEF Abs!Next
<1>4. CASE UNCHANGED vars
  BY <1>4, StutterAbs
<1> QED BY <1>1, <1>2, <1>3, <1>4 DEF Next

(* The hash table implements the abstract map: what look-ups find, the size *)
(* and the calls of the destructor are those of a set of entries with      *)
(* distinct keys.                                                          *)
THEOREM MapImplements ==
  ASSUME RealEntries
  PROVE  Spec => AbsSpec
<1>1. Init => Abs!Init
  BY InitAbs
<1>2. MapInv /\ [Next]_vars => [Abs!Next]_(Abs!vars)
  BY NextMapAbs
<1> QED BY <1>1, <1>2, MapInvariance, PTL DEF Spec, AbsSpec, Abs!Spec

-----------------------------------------------------------------------------
(* The shared libraries *)

(* NULL is no file, the libraries below opt/ are ELF files, packages choose *)
(* archives for files, and links need nothing themselves.                  *)
RealFiles ==
  /\ None \notin Archive!Files /\ IsFiniteSet(Archive!Files)
  /\ Shipped \subseteq ElfFiles
  /\ Choices \subseteq [Archive!Files -> Archive!Targets]
  /\ \A f \in Archive!Files : Len(NeededBy[f]) \in Nat /\ DOMAIN NeededBy[f] = 1 .. Len(NeededBy[f])
  /\ \A f \in Symlinks \ ElfFiles : NeededBy[f] = <<>>

Frames == [entry : Archive!Files, i : Nat \ {0}, result : BOOLEAN]

(* A file is in the archives for a chosen one. *)
PlacedFor(g) == ziptgt[g] # 0 => \E c \in Archive!For(g) : chosen[c] = ziptgt[g]

(* The dependencies of a file are found, and placed no later than it. *)
Settled(g) ==
  \A j \in DOMAIN NeededBy[g] : file[g][j] # None /\ ziptgt[file[g][j]] <= ziptgt[g]

(* A primary file whose turn is now or later. *)
Awaits(g) == ~secondary[g] /\ \E k \in DOMAIN files_array : k >= root /\ files_array[k] = g

OnStack(g) == \E k \in DOMAIN stack : stack[k].entry = g

(* Nothing has been missed so far. *)
Well == ~failed /\ \A k \in DOMAIN stack : stack[k].result

(* What a call on the stack has done, is no later than the root. *)
DoneFor(k) ==
  LET g == stack[k].entry
  IN /\ ziptgt[g] <= ziptgt[Archive!Root]
     /\ \A j \in DOMAIN NeededBy[g] :
          j < stack[k].i => file[g][j] # None /\ ziptgt[file[g][j]] <= ziptgt[Archive!Root]

(* The calls on the stack lead from the root to files it brings with it. *)
StackInv ==
  stack # <<>> =>
    /\ root \in DOMAIN files_array /\ stack[1].entry = Archive!Root /\ Archive!Root \in ElfFiles
    /\ \A k \in DOMAIN stack : /\ ziptgt[stack[k].entry] # 0
                              /\ stack[k].entry \in Archive!Brings(Archive!Root)

(* As long as nothing has been missed, a file that has had its turn is      *)
(* settled, unless it is still worked on for a root in its own archive: a  *)
(* root in a later archive moves nothing, and one in an earlier archive    *)
(* moves the whole of what a file brings with it.                          *)
LibsInv ==
  /\ Archive!TypeOK /\ file = [f \in Archive!Files |-> file[f]]
  /\ StackInv
  /\ \A k \in DOMAIN files_array : files_array[k] \in Archive!Listed
  /\ \A f \in Archive!Files :
       /\ PlacedFor(f) /\ (chosen[f] # 0 => ziptgt[f] # 0 /\ ziptgt[f] <= chosen[f])
       /\ \A j \in DOMAIN NeededBy[f] : file[f][j] # None => ziptgt[file[f][j]] # 0
  /\ Well => /\ \A k \in DOMAIN stack : DoneFor(k)
             /\ \A g \in ElfFiles :
                  ziptgt[g] # 0 /\ ~Awaits(g) /\ (OnStack(g) => ziptgt[g] < ziptgt[Archive!Root])
                    => Settled(g)

-----------------------------------------------------------------------------
(* What a file brings with it *)

LEMMA BringsItself == ASSUME NEW f \in Archive!Files PROVE f \in Archive!Brings(f)
BY DEF Archive!Brings

LEMMA BringsNext ==
  ASSUME RealFiles, NEW f, NEW g \in Archive!Brings(f), NEW j \in DOMAIN file[g],
         file[g][j] \in Archive!Files
  PROVE  file[g][j] \in Archive!Brings(f)
<1>1. file[g][j] # None
  BY DEF RealFiles
<1>2. ASSUME NEW S \in SUBSET Archive!Files, f \in S,
             \A s \in S : \A k \in DOMAIN file[s] : file[s][k] \in S \cup {None}
      PROVE  file[g][j] \in S
  <2>1. g \in S
    BY <1>2 DEF Archive!Brings
  <2> QED BY <1>1, <1>2, <2>1
<1> QED BY <1>2 DEF Archive!Brings

LEMMA BringsTheirs ==
  ASSUME NEW f, NEW g \in Archive!Brings(f), NEW h \in Archive!Brings(g)
  PROVE  h \in Archive!Brings(f)
<1>1. ASSUME NEW S \in SUBSET Archive!Files, f \in S,
             \A s \in S : \A k \in DOMAIN file[s] : file[s][k] \in S \cup {None}
      PROVE  h \in S
  <2>1. g \in S
    BY <1>1 DEF Archive!Brings
  <2> QED BY <1>1, <2>1 DEF Archive!Brings
<1> QED BY <1>1 DEF Archive!Brings

(* What has been found stays found, so a file brings ever more. *)
LEMMA BringsMore ==
  ASSUME \A s \in Archive!Files : \A j \in DOMAIN file[s] :
           j \in DOMAIN file'[s] /\ (file[s][j] # None => file'[s][j] = file[s][j])
  PROVE  \A f : Archive!Brings(f) \subseteq Archive!Brings(f)'
<1> SUFFICES ASSUME NEW f, NEW g \in Archive!Brings(f) PROVE g \in Archive!Brings(f)'
  OBVIOUS
<1>1. ASSUME NEW S \in SUBSET Archive!Files, f \in S,
             \A s \in S : \A j \in DOMAIN file'[s] : file'[s][j] \in S \cup {None}
      PROVE  g \in S
  <2>1. ASSUME NEW s \in S, NEW j \in DOMAIN file[s]
        PROVE  file[s][j] \in S \cup {None}
    BY <1>1
  <2> QED BY <1>1, <2>1 DEF Archive!Brings
<1>2. g \in Archive!Files
  BY DEF Archive!Brings
<1> QED BY <1>1, <1>2 DEF Archive!Brings

-----------------------------------------------------------------------------
(* The beginning *)

(* An order of a set names every member. *)
LEMMA OrdersAll ==
  ASSUME NEW S, IsFiniteSet(S), NEW s \in Archive!Orders(S)
  PROVE  s \in Seq(S) /\ \A x \in S : \E k \in DOMAIN s : s[k] = x
<1> DEFINE n == Cardinality(S)
<1>1. n \in Nat
  BY FS_CardinalityType
<1>2. s \in Injection(1 .. n, S) /\ s \in [1 .. n -> S]
  BY DEF Archive!Orders, Injection, IsInjective, Cardinality, Archive!Cardinality
<1>3. IsFiniteSet(1 .. n) /\ Cardinality(1 .. n) = n
  BY <1>1, FS_Interval
<1>4. s \in Surjection(1 .. n, S)
  <2> HIDE DEF n
  <2> QED BY <1>2, <1>3, FS_Injection DEF n
<1> QED BY <1>1, <1>2, <1>4 DEF Surjection

LEMMA InitLibs == RealFiles /\ Archive!Init => LibsInv
<1> SUFFICES ASSUME RealFiles, Archive!Init PROVE LibsInv
  OBVIOUS
<1>1. ziptgt \in [Archive!Files -> Archive!Targets] /\ chosen = ziptgt
  BY DEF Archive!Init, RealFiles
<1>2. IsFiniteSet(Archive!Listed)
  <2>1. Archive!Listed \subseteq Archive!Files
    BY DEF Archive!Listed
  <2> QED BY <2>1, FS_Subset DEF RealFiles
<1>3. files_array \in Seq(Archive!Listed)
      /\ \A g \in Archive!Listed : \E k \in DOMAIN files_array : files_array[k] = g
  BY <1>2, OrdersAll DEF Archive!Init
<1>4. files_array \in Seq(Archive!Files) /\ Len(files_array) \in Nat
  BY <1>3 DEF Archive!Listed
<1>5. /\ secondary = [f \in Archive!Files |-> FALSE] /\ root = 1 /\ stack = <<>> /\ failed = FALSE
      /\ file = [f \in Archive!Files |-> [j \in DOMAIN NeededBy[f] |-> None]]
  BY DEF Archive!Init
<1>6. Archive!TypeOK
  <2>1. stack \in Seq(Frames)
    BY <1>5
  <2>2. \A f \in Archive!Files : file[f] \in [DOMAIN NeededBy[f] -> Archive!Files \cup {None}]
    BY <1>5
  <2>3. root \in 1 .. Len(files_array) + 1
    BY <1>4, <1>5
  <2> QED BY <1>1, <1>4, <1>5, <2>1, <2>2, <2>3 DEF Archive!TypeOK, Frames
<1>7. file = [f \in Archive!Files |-> file[f]]
  BY <1>5
<1>8. \A k \in DOMAIN files_array : files_array[k] \in Archive!Listed
  BY <1>3
<1>9. ASSUME NEW f \in Archive!Files
      PROVE  /\ PlacedFor(f) /\ (chosen[f] # 0 => ziptgt[f] # 0 /\ ziptgt[f] <= chosen[f])
             /\ \A j \in DOMAIN NeededBy[f] : file[f][j] = None
  <2>1. ziptgt[f] \in 0 .. 2
    BY <1>1 DEF Archive!Targets
  <2>2. PlacedFor(f)
    BY <1>1 DEF PlacedFor, Archive!For, Archive!ZIP_TGT_UNKNOWN
  <2> QED BY <1>1, <1>5, <2>1, <2>2
<1>10. ASSUME NEW g \in ElfFiles, ziptgt[g] # 0
       PROVE  Awaits(g)
  <2>1. g \in Archive!Listed /\ ~secondary[g]
    BY <1>5, <1>10 DEF Archive!Listed, Archive!Files, Archive!ZIP_TGT_UNKNOWN
  <2>2. PICK k \in DOMAIN files_array : files_array[k] = g
    BY <1>3, <2>1
  <2>3. k >= root
    BY <1>4, <1>5, <2>2
  <2> QED BY <2>1, <2>2, <2>3 DEF Awaits
<1>11. StackInv /\ \A k \in DOMAIN stack : FALSE
  BY <1>5 DEF StackInv
<1> QED BY <1>6, <1>7, <1>8, <1>9, <1>10, <1>11 DEF LibsInv

-----------------------------------------------------------------------------
(* The steps *)

LEMMA Targeted ==
  ASSUME LibsInv, NEW g \in Archive!Files
  PROVE  ziptgt[g] \in Nat /\ chosen[g] \in Nat
BY DEF LibsInv, Archive!TypeOK, Archive!Targets

LEMMA Tops ==
  ASSUME RealFiles, LibsInv, stack # <<>>
  PROVE  /\ Archive!Depth \in Nat \ {0} /\ DOMAIN stack = 1 .. Archive!Depth
         /\ stack \in Seq(Frames)
         /\ \A k \in 1 .. Archive!Depth : /\ stack[k] \in Frames /\ stack[k].entry \in Archive!Files
                                          /\ stack[k].i \in Nat \ {0} /\ stack[k].result \in BOOLEAN
         /\ Archive!Depender \in Archive!Files /\ Archive!Need \in Nat \ {0}
         /\ root \in DOMAIN files_array
         /\ Archive!Root \in Archive!Files /\ ziptgt[Archive!Root] # 0
<1>1. stack \in Seq(Frames) /\ files_array \in Seq(Archive!Files)
  BY DEF LibsInv, Archive!TypeOK, Frames
<1>2. Archive!Depth \in Nat \ {0} /\ DOMAIN stack = 1 .. Archive!Depth
  BY <1>1 DEF Archive!Depth
<1>3. \A k \in 1 .. Archive!Depth : stack[k] \in Frames
  BY <1>1, <1>2
<1>4. \A k \in 1 .. Archive!Depth : /\ stack[k].entry \in Archive!Files
                                    /\ stack[k].i \in Nat \ {0} /\ stack[k].result \in BOOLEAN
  BY <1>3 DEF Frames
<1>5. root \in DOMAIN files_array /\ stack[1].entry = Archive!Root /\ ziptgt[stack[1].entry] # 0
  BY <1>2 DEF LibsInv, StackInv
<1> QED BY <1>1, <1>2, <1>3, <1>4, <1>5 DEF Archive!Depender, Archive!Need

(* What resolve_dependencies finds or adds is placed, and gone through. *)
LEMMA Descended ==
  ASSUME RealFiles, LibsInv, Archive!Working, NEW f \in Archive!Files, Archive!Descend(f),
         file[Archive!Depender][Archive!Need] # None => f = file[Archive!Depender][Archive!Need],
         ziptgt' \in [Archive!Files -> Archive!Targets], secondary' \in [Archive!Files -> BOOLEAN],
         files_array' \in Seq(Archive!Files),
         \A g \in Archive!Files : g # f => ziptgt'[g] = ziptgt[g],
         \/ ziptgt'[f] = ziptgt[f] /\ ziptgt[f] # 0
         \/ /\ ziptgt'[f] = ziptgt[Archive!Root]
            /\ ziptgt[f] = 0 \/ ziptgt[Archive!Root] < ziptgt[f],
         Well => ziptgt'[f] <= ziptgt[Archive!Root],
         \A k \in DOMAIN files_array :
           k \in DOMAIN files_array' /\ files_array'[k] = files_array[k],
         \A k \in DOMAIN files_array' : k \notin DOMAIN files_array => files_array'[k] = f,
         \A g \in Archive!Files : ziptgt[g] # 0 => secondary'[g] = secondary[g]
  PROVE  LibsInv'
<1>0. PICK D \in Nat \ {0}, d \in Archive!Files, n \in Nat \ {0}, r \in Archive!Files :
        D = Archive!Depth /\ d = Archive!Depender /\ n = Archive!Need /\ r = Archive!Root
  <2>1. stack # <<>>
    BY DEF Archive!Working
  <2> QED BY <2>1, Tops
<1> USE <1>0
<1>1. /\ stack # <<>> /\ n <= Len(NeededBy[d])
      /\ file' = [file EXCEPT ![d][n] = f]
      /\ stack' = Append([stack EXCEPT ![D].i = stack[D].i + 1],
                         [entry |-> f, i |-> 1, result |-> TRUE])
      /\ UNCHANGED <<root, failed, chosen>>
  BY <1>0 DEF Archive!Working, Archive!Descend
<1>2. /\ D \in Nat \ {0} /\ DOMAIN stack = 1 .. D /\ stack \in Seq(Frames)
      /\ \A k \in 1 .. D : /\ stack[k] \in Frames /\ stack[k].entry \in Archive!Files
                           /\ stack[k].i \in Nat \ {0} /\ stack[k].result \in BOOLEAN
      /\ d \in Archive!Files /\ n \in Nat \ {0} /\ d = stack[D].entry /\ n = stack[D].i
      /\ root \in DOMAIN files_array /\ r \in Archive!Files /\ ziptgt[r] # 0
  BY <1>0, <1>1, Tops DEF Archive!Depender, Archive!Need
<1>3. n \in DOMAIN NeededBy[d]
  BY <1>1, <1>2 DEF RealFiles
<1>4. /\ file = [g \in Archive!Files |-> file[g]]
      /\ \A g \in Archive!Files : file[g] \in [DOMAIN NeededBy[g] -> Archive!Files \cup {None}]
  BY DEF LibsInv, Archive!TypeOK
<1>5. /\ file' = [g \in Archive!Files |-> file'[g]]
      /\ \A g \in Archive!Files : file'[g] \in [DOMAIN NeededBy[g] -> Archive!Files \cup {None}]
      /\ file'[d][n] = f
      /\ \A g \in Archive!Files : \A j \in DOMAIN NeededBy[g] :
           g # d \/ j # n => file'[g][j] = file[g][j]
  <2>1. file' = [g \in Archive!Files |-> IF g = d THEN [file[d] EXCEPT ![n] = f] ELSE file[g]]
    BY <1>1, <1>2, <1>4
  <2>2. \A g \in Archive!Files : file'[g] = IF g = d THEN [file[d] EXCEPT ![n] = f] ELSE file[g]
    BY <2>1
  <2>3. [file[d] EXCEPT ![n] = f] \in [DOMAIN NeededBy[d] -> Archive!Files \cup {None}]
    BY <1>2, <1>3, <1>4
  <2>4. \A g \in Archive!Files : file'[g] \in [DOMAIN NeededBy[g] -> Archive!Files \cup {None}]
    BY <1>4, <2>2, <2>3
  <2>5. file' = [g \in Archive!Files |-> file'[g]]
    BY <2>1, <2>2
  <2>6. [file[d] EXCEPT ![n] = f][n] = f
        /\ \A j \in DOMAIN NeededBy[d] : j # n => [file[d] EXCEPT ![n] = f][j] = file[d][j]
    BY <1>2, <1>3, <1>4
  <2> QED BY <1>2, <2>2, <2>4, <2>5, <2>6
<1>6. \A g \in Archive!Files : \A j \in DOMAIN NeededBy[g] :
        file[g][j] # None => file'[g][j] = file[g][j]
  BY <1>5
<1>7. /\ stack' \in Seq(Frames) /\ DOMAIN stack' = 1 .. D + 1 /\ stack' # <<>>
      /\ stack'[D + 1] = [entry |-> f, i |-> 1, result |-> TRUE]
      /\ \A k \in 1 .. D : /\ stack'[k].entry = stack[k].entry
                           /\ stack'[k].result = stack[k].result
                           /\ stack'[k].i = IF k = D THEN n + 1 ELSE stack[k].i
  <2> DEFINE s == [stack EXCEPT ![D].i = stack[D].i + 1]
             t == [entry |-> f, i |-> 1, result |-> TRUE]
  <2>1. t \in Frames
    BY DEF Frames
  <2>2. [stack[D] EXCEPT !.i = stack[D].i + 1] \in Frames
        /\ [stack[D] EXCEPT !.i = stack[D].i + 1].entry = stack[D].entry
        /\ [stack[D] EXCEPT !.i = stack[D].i + 1].result = stack[D].result
        /\ [stack[D] EXCEPT !.i = stack[D].i + 1].i = stack[D].i + 1
    <3>1. stack[D] \in Frames /\ stack[D].i + 1 \in Nat \ {0}
      BY <1>2
    <3> QED BY <3>1 DEF Frames
  <2>3. s = [stack EXCEPT ![D] = [stack[D] EXCEPT !.i = stack[D].i + 1]]
    BY <1>2
  <2>4. s \in Seq(Frames) /\ Len(s) = D /\ DOMAIN s = 1 .. D
        /\ s[D] = [stack[D] EXCEPT !.i = stack[D].i + 1]
        /\ \A k \in 1 .. D : k # D => s[k] = stack[k]
    <3>1. D = Len(stack)
      BY <1>0 DEF Archive!Depth
    <3> QED BY <1>2, <2>2, <2>3, <3>1
  <2> HIDE DEF s, t
  <2>5. stack' = Append(s, t)
    BY <1>1 DEF s, t
  <2>6. stack' \in Seq(Frames) /\ Len(stack') = D + 1 /\ stack'[D + 1] = t
        /\ \A k \in 1 .. D : stack'[k] = s[k]
    BY <1>2, <2>1, <2>4, <2>5, AppendProperties
  <2>7. \A k \in 1 .. D : /\ stack'[k].entry = stack[k].entry
                          /\ stack'[k].result = stack[k].result
                          /\ stack'[k].i = IF k = D THEN n + 1 ELSE stack[k].i
    <3>1. \A k \in 1 .. D : stack'[k] = IF k = D THEN s[D] ELSE stack[k]
      BY <2>4, <2>6
    <3>2. s[D].entry = stack[D].entry /\ s[D].result = stack[D].result /\ s[D].i = n + 1
      BY <1>2, <2>2, <2>4
    <3> QED BY <3>1, <3>2
  <2> QED BY <1>2, <2>6, <2>7 DEF t
<1>8. /\ ziptgt \in [Archive!Files -> Nat] /\ ziptgt' \in [Archive!Files -> Nat]
      /\ ziptgt'[r] = ziptgt[r] /\ ziptgt'[f] # 0
      /\ \A g \in Archive!Files : ziptgt[g] # 0 => ziptgt'[g] # 0 /\ ziptgt'[g] <= ziptgt[g]
  <2>1. ziptgt \in [Archive!Files -> Nat] /\ ziptgt' \in [Archive!Files -> Nat]
    <3>1. Archive!Targets \subseteq Nat
      BY DEF Archive!Targets
    <3>2. ziptgt \in [Archive!Files -> Archive!Targets]
      BY DEF LibsInv, Archive!TypeOK
    <3> QED BY <3>1, <3>2
  <2>2. ziptgt[r] \in Nat /\ ziptgt'[r] \in Nat /\ ziptgt[f] \in Nat /\ ziptgt'[f] \in Nat
    BY <1>2, <2>1
  <2>3. ziptgt'[r] = ziptgt[r]
    BY <1>2, <2>2
  <2>4. ziptgt'[f] # 0 /\ (ziptgt[f] # 0 => ziptgt'[f] <= ziptgt[f])
    BY <1>2, <2>2
  <2>5. ASSUME NEW g \in Archive!Files, ziptgt[g] # 0
        PROVE  ziptgt'[g] # 0 /\ ziptgt'[g] <= ziptgt[g]
    <3>1. CASE g = f
      BY <2>4, <2>5, <3>1
    <3>2. CASE g # f
      <4>1. ziptgt'[g] = ziptgt[g] /\ ziptgt[g] \in Nat
        BY <2>1, <3>2
      <4> QED BY <2>5, <4>1
    <3> QED BY <3>1, <3>2
  <2> QED BY <2>1, <2>3, <2>4, <2>5
<1>9. /\ Archive!Root = r /\ Archive!Root' = r
      /\ Archive!Brings(Archive!Root) = Archive!Brings(r)
      /\ Archive!Brings(Archive!Root)' = Archive!Brings(r)'
  <2>1. Archive!Root = r /\ Archive!Root' = r
    BY <1>0, <1>1, <1>2 DEF Archive!Root
  <2> QED BY <2>1 DEF Archive!Brings
<1>10. Archive!TypeOK'
  <2>1. root' \in 1 .. Len(files_array)' + 1
    <3>1. root \in DOMAIN files_array'
      BY <1>2
    <3> QED BY <1>1, <3>1
  <2> QED BY <1>1, <1>5, <1>7, <2>1 DEF LibsInv, Archive!TypeOK, Frames
<1>11. \A g : Archive!Brings(g) \subseteq Archive!Brings(g)'
  <2>1. \A g \in Archive!Files :
          DOMAIN file[g] = DOMAIN NeededBy[g] /\ DOMAIN file'[g] = DOMAIN NeededBy[g]
    BY <1>4, <1>5
  <2> QED BY <1>6, <2>1, BringsMore
<1>12. \A c : d \in Archive!Brings(c) => f \in Archive!Brings(c)'
  <2> SUFFICES ASSUME NEW c, d \in Archive!Brings(c) PROVE f \in Archive!Brings(c)'
    OBVIOUS
  <2>1. d \in Archive!Brings(c)' /\ n \in DOMAIN file'[d]
        /\ file'[d][n] \in Archive!Files /\ f # None
    BY <1>2, <1>3, <1>5, <1>11 DEF RealFiles
  <2>2. ASSUME NEW S \in SUBSET Archive!Files, c \in S,
               \A s \in S : \A k \in DOMAIN file'[s] : file'[s][k] \in S \cup {None}
        PROVE  f \in S
    <3>1. d \in S
      BY <2>1, <2>2 DEF Archive!Brings
    <3> QED BY <1>5, <2>1, <2>2, <3>1
  <2> QED BY <2>2 DEF Archive!Brings
<1>13. StackInv /\ d \in Archive!Brings(r)
  BY <1>1, <1>2, <1>9 DEF LibsInv, StackInv
<1>14. StackInv'
  <2>1. root' \in DOMAIN files_array' /\ stack'[1].entry = Archive!Root'
        /\ Archive!Root' \in ElfFiles
    BY <1>1, <1>2, <1>7, <1>9, <1>13 DEF StackInv
  <2>2. ASSUME NEW k \in 1 .. D
        PROVE  ziptgt'[stack'[k].entry] # 0 /\ stack'[k].entry \in Archive!Brings(Archive!Root)'
    <3>1. PICK g \in Archive!Files : g = stack[k].entry
      BY <1>2
    <3>2. ziptgt[g] # 0 /\ g \in Archive!Brings(r) /\ stack'[k].entry = g
      BY <1>1, <1>2, <1>7, <1>13, <3>1 DEF StackInv
    <3>3. ziptgt'[g] # 0 /\ g \in Archive!Brings(r)'
      BY <1>8, <1>11, <3>2
    <3> QED BY <1>9, <3>2, <3>3
  <2>3. ziptgt'[stack'[D + 1].entry] # 0 /\ stack'[D + 1].entry \in Archive!Brings(Archive!Root)'
    <3>1. stack'[D + 1].entry = f
      BY <1>7
    <3>2. f \in Archive!Brings(r)'
      BY <1>12, <1>13
    <3> QED BY <1>8, <1>9, <3>1, <3>2
  <2>4. \A k \in DOMAIN stack' : k \in 1 .. D \/ k = D + 1
    BY <1>2, <1>7
  <2> QED BY <2>1, <2>2, <2>3, <2>4 DEF StackInv
<1>15. \A k \in DOMAIN files_array' : files_array'[k] \in Archive!Listed'
  <2>1. \A k \in DOMAIN files_array : files_array[k] \in Archive!Files /\ ziptgt[files_array[k]] # 0
    BY DEF LibsInv, Archive!Listed, Archive!ZIP_TGT_UNKNOWN
  <2> QED BY <1>8, <2>1 DEF Archive!Listed, Archive!ZIP_TGT_UNKNOWN
<1>16. \A g \in Archive!Files : Archive!For(g) \subseteq Archive!For(g)'
  BY <1>1, <1>11 DEF Archive!For
<1>17. ASSUME NEW g \in Archive!Files
       PROVE  PlacedFor(g)' /\ (chosen'[g] # 0 => ziptgt'[g] # 0 /\ ziptgt'[g] <= chosen'[g])
  <2>1. PlacedFor(g) /\ (chosen[g] # 0 => ziptgt[g] # 0 /\ ziptgt[g] <= chosen[g])
        /\ ziptgt[g] \in Nat /\ ziptgt'[g] \in Nat /\ chosen[g] \in Nat
    BY <1>8, Targeted DEF LibsInv
  <2>2. chosen'[g] # 0 => ziptgt'[g] # 0 /\ ziptgt'[g] <= chosen'[g]
    BY <1>1, <1>8, <2>1
  <2>3. CASE ziptgt'[g] = ziptgt[g]
    BY <1>1, <1>16, <2>1, <2>2, <2>3 DEF PlacedFor
  <2>4. CASE ziptgt'[g] # ziptgt[g]
    <3>1. g = f /\ ziptgt'[g] = ziptgt[r]
      BY <2>4
    <3>2. PICK c \in Archive!For(r) : chosen[c] = ziptgt[r]
      BY <1>2 DEF LibsInv, PlacedFor
    <3>3. c \in Archive!Files /\ c \in ElfFiles /\ r \in Archive!Brings(c) /\ chosen[c] # 0
      <4>1. r \in ElfFiles
        BY <1>1, <1>13 DEF StackInv
      <4> QED BY <1>2, <4>1, BringsItself DEF Archive!For, Archive!ZIP_TGT_UNKNOWN
    <3>4. f \in Archive!Brings(c)'
      BY <1>12, <1>13, <3>3, BringsTheirs
    <3>5. c \in Archive!For(g)'
      BY <1>1, <3>1, <3>3, <3>4 DEF Archive!For, Archive!ZIP_TGT_UNKNOWN
    <3> QED BY <1>1, <2>2, <3>1, <3>2, <3>5 DEF PlacedFor
  <2> QED BY <2>3, <2>4
<1>18. ASSUME NEW g \in Archive!Files, NEW j \in DOMAIN NeededBy[g], file'[g][j] # None
       PROVE  ziptgt'[file'[g][j]] # 0
  <2>1. CASE g = d /\ j = n
    BY <1>5, <1>8, <2>1
  <2>2. CASE g # d \/ j # n
    <3>1. file'[g][j] = file[g][j] /\ file[g][j] \in Archive!Files /\ ziptgt[file[g][j]] # 0
      BY <1>4, <1>5, <1>18, <2>2 DEF LibsInv
    <3> QED BY <1>8, <3>1
  <2> QED BY <2>1, <2>2
<1>19. ASSUME Well'
       PROVE  /\ \A k \in DOMAIN stack' : DoneFor(k)'
              /\ \A g \in ElfFiles :
                   /\ ziptgt'[g] # 0 /\ ~Awaits(g)'
                   /\ OnStack(g)' => ziptgt'[g] < ziptgt'[Archive!Root']
                   => Settled(g)'
  <2>1. Well /\ ziptgt'[f] <= ziptgt[r] /\ ziptgt[r] \in Nat /\ ziptgt'[f] \in Nat
    <3>1. Well
      BY <1>1, <1>2, <1>7, <1>19 DEF Well
    <3> QED BY <1>2, <1>8, <3>1
  <2>2. \A g \in Archive!Files : \A j \in DOMAIN NeededBy[g] :
          file[g][j] # None => /\ file[g][j] \in Archive!Files /\ file'[g][j] = file[g][j]
                               /\ ziptgt'[file[g][j]] <= ziptgt[file[g][j]]
                               /\ ziptgt'[file[g][j]] \in Nat /\ ziptgt[file[g][j]] \in Nat
    <3>1. \A g \in Archive!Files : \A j \in DOMAIN NeededBy[g] :
            file[g][j] # None => file[g][j] \in Archive!Files /\ ziptgt[file[g][j]] # 0
      BY <1>4 DEF LibsInv
    <3> QED BY <1>6, <1>8, <3>1
  <2>3. ASSUME NEW k \in 1 .. D
        PROVE  DoneFor(k)'
    <3> DEFINE g == stack[k].entry
    <3>1. DoneFor(k) /\ g \in Archive!Files /\ stack[k].i \in Nat
      BY <1>2, <2>1 DEF LibsInv
    <3>2. stack'[k].entry = g /\ stack'[k].i = IF k = D THEN n + 1 ELSE stack[k].i
      BY <1>7
    <3>3. ziptgt'[g] <= ziptgt[r]
      <4>1. ziptgt[g] <= ziptgt[r]
        BY <3>1 DEF DoneFor
      <4> QED BY <2>1, <3>1, <4>1
    <3>4. ASSUME NEW j \in DOMAIN NeededBy[g], j < stack'[k].i
          PROVE  file'[g][j] # None /\ ziptgt'[file'[g][j]] <= ziptgt[r]
      <4>1. j \in Nat
        BY <3>1 DEF RealFiles
      <4>2. CASE j < stack[k].i
        <5>1. file[g][j] # None /\ ziptgt[file[g][j]] <= ziptgt[r]
          BY <3>1, <4>2 DEF DoneFor
        <5> HIDE DEF g
        <5> QED BY <2>1, <2>2, <3>1, <5>1
      <4>3. CASE ~(j < stack[k].i)
        <5>1. k = D /\ j = n /\ g = d
          BY <1>2, <3>1, <3>2, <3>4, <4>1, <4>3
        <5>2. file'[g][j] = f /\ f # None
          BY <1>5, <5>1 DEF RealFiles
        <5> QED BY <2>1, <5>2
      <4> QED BY <4>2, <4>3
    <3> HIDE DEF g
    <3> QED BY <1>8, <1>9, <3>2, <3>3, <3>4 DEF DoneFor
  <2>4. DoneFor(D + 1)'
    <3>1. stack'[D + 1].entry = f /\ stack'[D + 1].i = 1
      BY <1>7
    <3>2. \A j \in DOMAIN NeededBy[f] : ~(j < 1)
      BY DEF RealFiles
    <3>3. ziptgt'[f] <= ziptgt'[r]
      BY <1>8, <2>1
    <3> QED BY <1>9, <3>1, <3>2, <3>3 DEF DoneFor
  <2>5. ASSUME NEW k \in DOMAIN stack'
        PROVE  DoneFor(k)'
    <3>1. k \in 1 .. D \/ k = D + 1
      BY <1>2, <1>7
    <3>2. CASE k = D + 1
      <4>1. DoneFor(k)' <=> DoneFor(D + 1)'
        BY <3>2 DEF DoneFor
      <4> QED BY <2>4, <4>1
    <3> QED BY <2>3, <3>1, <3>2
  <2>6. ASSUME NEW g \in ElfFiles, ziptgt'[g] # 0, ~Awaits(g)',
               OnStack(g)' => ziptgt'[g] < ziptgt'[Archive!Root']
        PROVE  Settled(g)'
    <3>1. g \in Archive!Files /\ ziptgt[g] \in Nat /\ ziptgt'[g] \in Nat
      BY <1>8 DEF Archive!Files
    <3>2. ziptgt'[g] = ziptgt[g]
      <4>1. CASE g = f
        <5>1. OnStack(g)'
          BY <1>2, <1>7, <4>1 DEF OnStack
        <5> QED BY <1>8, <1>9, <2>6, <4>1, <5>1
      <4>2. CASE g # f
        BY <3>1, <4>2
      <4> QED BY <4>1, <4>2
    <3>3. ~Awaits(g)
      <4>1. ASSUME ~secondary[g], NEW k \in DOMAIN files_array, k >= root, files_array[k] = g
            PROVE  Awaits(g)'
        <5>1. ~secondary'[g]
          BY <2>6, <3>1, <3>2, <4>1
        <5> QED BY <1>1, <4>1, <5>1 DEF Awaits
      <4> QED BY <2>6, <4>1 DEF Awaits
    <3>4. OnStack(g) => ziptgt[g] < ziptgt[r]
      <4>1. OnStack(g) => OnStack(g)'
        <5>1. \A k \in 1 .. D : k \in DOMAIN stack'
          BY <1>2, <1>7
        <5> QED BY <1>2, <1>7, <5>1 DEF OnStack
      <4> QED BY <1>8, <1>9, <2>6, <3>2, <4>1
    <3>5. Settled(g)
      BY <2>1, <2>6, <3>2, <3>3, <3>4 DEF LibsInv
    <3>6. ASSUME NEW j \in DOMAIN NeededBy[g]
          PROVE  file'[g][j] # None /\ ziptgt'[file'[g][j]] <= ziptgt'[g]
      <4>1. file[g][j] # None /\ ziptgt[file[g][j]] <= ziptgt[g]
        BY <3>5 DEF Settled
      <4> QED BY <2>2, <3>1, <3>2, <4>1
    <3> QED BY <3>6 DEF Settled
  <2> QED BY <2>5, <2>6
<1> QED BY <1>5, <1>10, <1>14, <1>15, <1>17, <1>18, <1>19 DEF LibsInv

LEMMA StartedRoot == RealFiles /\ LibsInv /\ Archive!StartRoot => LibsInv'
<1> SUFFICES ASSUME RealFiles, LibsInv, Archive!StartRoot PROVE LibsInv'
  OBVIOUS
<1>1. PICK r \in Archive!Files : r = Archive!Root /\ ziptgt[r] # 0
  <2>1. root \in DOMAIN files_array
    BY DEF Archive!StartRoot, Archive!AtRoots, LibsInv, Archive!TypeOK
  <2>2. Archive!Root \in Archive!Listed
    BY <2>1 DEF LibsInv, Archive!Root
  <2> QED BY <2>2 DEF Archive!Listed, Archive!ZIP_TGT_UNKNOWN
<1>2. /\ stack = <<>> /\ root \in DOMAIN files_array /\ r \in ElfFiles
      /\ stack' = <<[entry |-> r, i |-> 1, result |-> TRUE]>>
      /\ UNCHANGED <<files_array, ziptgt, secondary, file, root, failed, chosen>>
  BY <1>1 DEF Archive!StartRoot, Archive!AtRoots, Archive!IsPrimary, LibsInv, Archive!TypeOK,
              Archive!Root
<1>3. /\ DOMAIN stack' = {1} /\ stack' \in Seq(Frames)
      /\ stack'[1].entry = r /\ stack'[1].i = 1 /\ Archive!Root' = r
  <2>1. [entry |-> r, i |-> 1, result |-> TRUE] \in Frames
    BY DEF Frames
  <2> QED BY <1>1, <1>2, <2>1 DEF Archive!Root
<1>4. Archive!TypeOK'
  BY <1>2, <1>3 DEF LibsInv, Archive!TypeOK, Frames
<1>5. \A g : Archive!Brings(g)' = Archive!Brings(g)
  BY <1>2 DEF Archive!Brings
<1>6. StackInv'
  <2>1. r \in Archive!Brings(r)
    BY BringsItself
  <2>2. Archive!Brings(Archive!Root)' = Archive!Brings(r)
    BY <1>2, <1>3 DEF Archive!Brings
  <2> QED BY <1>1, <1>2, <1>3, <2>1, <2>2 DEF StackInv
<1>7. \A f \in Archive!Files : PlacedFor(f)' = PlacedFor(f)
  BY <1>2, <1>5 DEF PlacedFor, Archive!For
<1>8. ASSUME NEW k \in DOMAIN stack'
      PROVE  DoneFor(k)'
  <2>1. k = 1 /\ \A j \in DOMAIN NeededBy[r] : ~(j < 1)
    BY <1>3 DEF RealFiles
  <2>2. ziptgt[r] <= ziptgt[r]
    BY Targeted
  <2> QED BY <1>2, <1>3, <2>1, <2>2 DEF DoneFor
<1>9. ASSUME Well', NEW g \in ElfFiles, ziptgt'[g] # 0, ~Awaits(g)',
             OnStack(g)' => ziptgt'[g] < ziptgt'[Archive!Root']
      PROVE  Settled(g)'
  <2>1. Well /\ ~OnStack(g)
    BY <1>2, <1>9 DEF Well, OnStack
  <2>2. ~Awaits(g)
    BY <1>2, <1>9 DEF Awaits
  <2> QED BY <1>2, <1>9, <2>1, <2>2 DEF LibsInv, Settled
<1> QED BY <1>2, <1>4, <1>6, <1>7, <1>8, <1>9 DEF LibsInv, Archive!Listed

(* What no step on the stack disturbs. *)
Kept == UNCHANGED <<files_array, ziptgt, secondary, file, chosen>>

LEMMA KeptInv ==
  ASSUME LibsInv, Kept
  PROVE  /\ \A g : Archive!Brings(g)' = Archive!Brings(g)
         /\ \A k \in DOMAIN files_array' : files_array'[k] \in Archive!Listed'
         /\ \A f \in Archive!Files : /\ PlacedFor(f)' /\ Settled(f)' = Settled(f)
                                     /\ chosen'[f] # 0 => ziptgt'[f] # 0 /\ ziptgt'[f] <= chosen'[f]
         /\ \A f \in Archive!Files : \A j \in DOMAIN NeededBy[f] :
              file'[f][j] # None => ziptgt'[file'[f][j]] # 0
         /\ file' = [f \in Archive!Files |-> file'[f]]
<1>1. \A g : Archive!Brings(g)' = Archive!Brings(g)
  BY DEF Kept, Archive!Brings
<1>2. \A f \in Archive!Files : PlacedFor(f)' = PlacedFor(f)
  BY <1>1 DEF Kept, PlacedFor, Archive!For
<1>3. \A f \in Archive!Files : Settled(f)' = Settled(f)
  BY DEF Kept, Settled
<1> QED BY <1>1, <1>2, <1>3 DEF Kept, LibsInv, Archive!Listed

LEMMA SkippedRoot == RealFiles /\ LibsInv /\ Archive!SkipRoot => LibsInv'
<1> SUFFICES ASSUME RealFiles, LibsInv, Archive!SkipRoot PROVE LibsInv'
  OBVIOUS
<1>1. /\ stack = <<>> /\ stack' = <<>> /\ root \in DOMAIN files_array /\ root' = root + 1
      /\ ~Archive!IsPrimary(files_array[root]) /\ Kept /\ failed' = failed
  BY DEF Archive!SkipRoot, Archive!AtRoots, LibsInv, Archive!TypeOK, Kept
<1>2. Archive!TypeOK'
  BY <1>1 DEF LibsInv, Archive!TypeOK, Kept
<1>3. StackInv' /\ DOMAIN stack' = {} /\ DOMAIN stack = {}
  BY <1>1 DEF StackInv
<1>4. ASSUME Well', NEW g \in ElfFiles, ziptgt'[g] # 0, ~Awaits(g)'
      PROVE  Settled(g)'
  <2>1. Well /\ ~OnStack(g)
    BY <1>1, <1>3, <1>4 DEF Well, OnStack
  <2>2. ~Awaits(g)
    <3>1. ASSUME ~secondary[g], NEW k \in DOMAIN files_array, k >= root, files_array[k] = g
          PROVE  FALSE
      <4>1. k # root
        BY <1>1, <3>1 DEF Archive!IsPrimary
      <4>2. k >= root + 1
        BY <1>1, <3>1, <4>1 DEF LibsInv, Archive!TypeOK
      <4> QED BY <1>1, <1>4, <3>1, <4>2 DEF Awaits, Kept
    <3> QED BY <3>1 DEF Awaits
  <2>3. g \in Archive!Files
    BY DEF Archive!Files
  <2> QED BY <1>1, <1>4, <2>1, <2>2, <2>3, KeptInv DEF LibsInv, Kept
<1> QED BY <1>1, <1>2, <1>3, <1>4, KeptInv DEF LibsInv

LEMMA MissedOne == RealFiles /\ LibsInv /\ Archive!Missing => LibsInv'
<1> SUFFICES ASSUME RealFiles, LibsInv, Archive!Missing PROVE LibsInv'
  OBVIOUS
<1>1. stack # <<>>
  BY DEF Archive!Missing, Archive!Working
<1>2. PICK D \in Nat \ {0} : D = Archive!Depth
  BY <1>1, Tops
<1>3. Kept /\ UNCHANGED <<root, failed>>
  BY DEF Archive!Missing, Kept
<1>4. /\ DOMAIN stack = 1 .. D /\ stack \in Seq(Frames) /\ D = Len(stack)
      /\ stack[D] \in Frames
      /\ \A k \in 1 .. D : stack[k].entry \in Archive!Files
  BY <1>1, <1>2, Tops DEF Archive!Depth
<1> DEFINE u == [stack[D] EXCEPT !.i = stack[D].i + 1]
           t == [u EXCEPT !.result = FALSE]
           s == [stack EXCEPT ![D].i = stack[D].i + 1]
<1>5. u \in Frames /\ t \in Frames /\ t.entry = stack[D].entry /\ t.result = FALSE
  <2>1. u \in Frames /\ u.entry = stack[D].entry
    BY <1>4 DEF Frames
  <2> HIDE DEF u
  <2>2. t \in Frames /\ t.entry = u.entry /\ t.result = FALSE
    BY <2>1 DEF Frames
  <2> QED BY <2>1, <2>2
<1>6. /\ stack' \in Seq(Frames) /\ DOMAIN stack' = 1 .. D /\ stack'[D] = t
      /\ \A k \in 1 .. D : k # D => stack'[k] = stack[k]
  <2>1. stack' = [s EXCEPT ![D].result = FALSE]
    BY <1>2 DEF Archive!Missing
  <2>3. s = [stack EXCEPT ![D] = u]
    BY <1>4
  <2> HIDE DEF s, u
  <2>5. s \in Seq(Frames) /\ DOMAIN s = 1 .. D /\ s[D] = u
        /\ \A k \in 1 .. D : k # D => s[k] = stack[k]
    <3>1. D \in DOMAIN stack
      BY <1>4
    <3>2. DOMAIN s = 1 .. D /\ s[D] = u /\ \A k \in 1 .. D : k # D => s[k] = stack[k]
      BY <1>4, <2>3, <3>1
    <3>3. s \in Seq(Frames)
      BY <1>4, <1>5, <2>3, <3>1
    <3> QED BY <3>2, <3>3
  <2>6. stack' = [s EXCEPT ![D] = t]
    BY <2>1, <2>5
  <2>7. Len(s) = D
    BY <2>5
  <2> HIDE DEF t
  <2> QED BY <1>5, <2>5, <2>6, <2>7
<1> HIDE DEF s, u, t
<1>7. \A k \in 1 .. D : stack'[k].entry = stack[k].entry
  BY <1>5, <1>6
<1>8. Archive!TypeOK'
  BY <1>3, <1>6 DEF LibsInv, Archive!TypeOK, Kept, Frames
<1>9. StackInv'
  <2>1. Archive!Brings(Archive!Root)' = Archive!Brings(Archive!Root) /\ Archive!Root' = Archive!Root
    BY <1>3 DEF Archive!Brings, Archive!Root, Kept
  <2>2. 1 \in 1 .. D
    OBVIOUS
  <2> QED BY <1>1, <1>3, <1>4, <1>6, <1>7, <2>1, <2>2 DEF LibsInv, StackInv, Kept
<1>10. ~Well'
  BY <1>5, <1>6 DEF Well
<1> QED BY <1>3, <1>8, <1>9, <1>10, KeptInv DEF LibsInv

(* A call that returns has found all its file needs. *)
LEMMA ReturnedDone ==
  ASSUME RealFiles, LibsInv, Well, stack # <<>>, ~Archive!Working,
         ~(ziptgt[Archive!Depender] < ziptgt[Archive!Root])
  PROVE  Settled(Archive!Depender)
<1>1. PICK D \in Nat \ {0}, d \in Archive!Files, n \in Nat \ {0} :
        /\ D = Archive!Depth /\ d = Archive!Depender /\ n = Archive!Need /\ D \in DOMAIN stack
        /\ stack[D].entry = d /\ stack[D].i = n
  BY Tops DEF Archive!Depender, Archive!Need
<1>2. DoneFor(D)
  BY <1>1 DEF LibsInv
<1>3. DOMAIN NeededBy[d] = 1 .. Len(NeededBy[d]) /\ Len(NeededBy[d]) \in Nat
  BY DEF RealFiles
<1>4. n > Len(NeededBy[d])
  BY <1>1, <1>3 DEF Archive!Working
<1>5. /\ ziptgt[d] <= ziptgt[Archive!Root]
      /\ \A j \in DOMAIN NeededBy[d] :
           j < n => file[d][j] # None /\ ziptgt[file[d][j]] <= ziptgt[Archive!Root]
  BY <1>1, <1>2 DEF DoneFor
<1>6. \A j \in DOMAIN NeededBy[d] : j < n
  BY <1>3, <1>4
<1>7. ziptgt[d] = ziptgt[Archive!Root]
  <2>1. ziptgt[d] \in Nat /\ ziptgt[Archive!Root] \in Nat
    BY Targeted, Tops
  <2> QED BY <1>1, <1>5, <2>1
<1> QED BY <1>1, <1>5, <1>6, <1>7 DEF Settled

LEMMA ReturnedOne == RealFiles /\ LibsInv /\ Archive!Return => LibsInv'
<1> SUFFICES ASSUME RealFiles, LibsInv, Archive!Return PROVE LibsInv'
  OBVIOUS
<1>1. stack # <<>> /\ ~Archive!Working /\ Kept
  BY DEF Archive!Return, Kept
<1>2. PICK D \in Nat \ {0}, d \in Archive!Files : D = Archive!Depth /\ d = Archive!Depender
  BY <1>1, Tops
<1>3. /\ DOMAIN stack = 1 .. D /\ stack \in Seq(Frames) /\ D = Len(stack) /\ D \in DOMAIN stack
      /\ \A k \in 1 .. D : /\ stack[k] \in Frames /\ stack[k].entry \in Archive!Files
                           /\ stack[k].i \in Nat \ {0} /\ stack[k].result \in BOOLEAN
      /\ stack[D].entry = d /\ root \in DOMAIN files_array
  BY <1>1, <1>2, Tops DEF Archive!Depth, Archive!Depender
<1> DEFINE below == SubSeq(stack, 1, D - 1)
           result == stack[D].result
<1>4. /\ below \in Seq(Frames) /\ Len(below) = D - 1 /\ DOMAIN below = 1 .. D - 1
      /\ \A k \in 1 .. D - 1 : below[k] = stack[k]
  BY <1>3
<1>5. \/ /\ D # 1 /\ stack' = [below EXCEPT ![D - 1].result = below[D - 1].result /\ result]
         /\ UNCHANGED <<root, failed>>
      \/ D = 1 /\ stack' = <<>> /\ root' = root + 1 /\ failed' = (failed \/ ~result)
  <2>1. below # <<>> <=> D # 1
    <3>1. below = <<>> <=> Len(below) = 0
      <4> HIDE DEF below
      <4> QED BY <1>4, EmptySeq
    <3> QED BY <1>4, <3>1
  <2> QED BY <1>2, <1>4, <2>1 DEF Archive!Return
<1>6. Well /\ ~(ziptgt[d] < ziptgt[Archive!Root]) => Settled(d)
  BY <1>1, <1>2, ReturnedDone
<1>7. CASE D # 1
  <2> DEFINE t == [below[D - 1] EXCEPT !.result = below[D - 1].result /\ result]
  <2>1. /\ D - 1 \in 1 .. D - 1 /\ below[D - 1] = stack[D - 1] /\ D - 1 \in 1 .. D
        /\ D - 1 \in DOMAIN below
    BY <1>4, <1>7
  <2>2. /\ t \in Frames /\ t.entry = stack[D - 1].entry /\ t.i = stack[D - 1].i
        /\ t.result = (stack[D - 1].result /\ result)
    BY <1>3, <2>1 DEF Frames
  <2>3. stack' = [below EXCEPT ![D - 1] = t] /\ UNCHANGED <<root, failed>>
    BY <1>4, <1>5, <1>7, <2>1
  <2> HIDE DEF t, below, result
  <2>4. /\ stack' \in Seq(Frames) /\ DOMAIN stack' = 1 .. D - 1 /\ stack'[D - 1] = t
        /\ \A k \in 1 .. D - 1 : k # D - 1 => stack'[k] = stack[k]
    <3>1. DOMAIN stack' = 1 .. D - 1 /\ stack'[D - 1] = t
          /\ \A k \in 1 .. D - 1 : k # D - 1 => stack'[k] = below[k]
      BY <1>4, <2>1, <2>3
    <3>2. stack' \in Seq(Frames)
      BY <1>4, <2>1, <2>2, <2>3
    <3> QED BY <1>4, <3>1, <3>2
  <2>5. ASSUME NEW k \in 1 .. D - 1
        PROVE  /\ k \in DOMAIN stack /\ k \in DOMAIN stack'
               /\ stack'[k].entry = stack[k].entry /\ stack'[k].i = stack[k].i
               /\ stack'[k].result => stack[k].result
    <3>1. k \in 1 .. D
      OBVIOUS
    <3> QED BY <1>3, <2>2, <2>4, <3>1
  <2>6. Archive!TypeOK'
    BY <1>1, <2>3, <2>4 DEF LibsInv, Archive!TypeOK, Kept, Frames
  <2>7. StackInv'
    <3>1. Archive!Brings(Archive!Root)' = Archive!Brings(Archive!Root)
          /\ Archive!Root' = Archive!Root
      BY <1>1, <2>3 DEF Archive!Brings, Archive!Root, Kept
    <3>2. 1 \in 1 .. D - 1
      BY <1>7
    <3> QED BY <1>1, <2>3, <2>4, <2>5, <3>1, <3>2 DEF LibsInv, StackInv, Kept
  <2>8. ASSUME Well' PROVE Well
    <3>1. result
      BY <2>2, <2>4, <2>8, <2>1 DEF Well
    <3>2. \A k \in 1 .. D : k = D \/ k \in 1 .. D - 1
      OBVIOUS
    <3> QED BY <1>3, <2>3, <2>5, <2>8, <3>1, <3>2 DEF Well, result
  <2>9. ASSUME Well', NEW k \in DOMAIN stack'
        PROVE  DoneFor(k)'
    <3>1. k \in 1 .. D - 1
      BY <2>4
    <3>2. Archive!Root' = Archive!Root
      BY <1>1, <2>3 DEF Archive!Root, Kept
    <3>3. DoneFor(k)
      BY <2>5, <2>8, <2>9, <3>1 DEF LibsInv
    <3> QED BY <1>1, <2>5, <3>1, <3>2, <3>3 DEF DoneFor, Kept
  <2>10. ASSUME Well', NEW g \in ElfFiles, ziptgt'[g] # 0, ~Awaits(g)',
                OnStack(g)' => ziptgt'[g] < ziptgt'[Archive!Root']
         PROVE  Settled(g)'
    <3>1. Well /\ ~Awaits(g) /\ Archive!Root' = Archive!Root /\ g \in Archive!Files
      BY <1>1, <2>3, <2>8, <2>10 DEF Awaits, Kept, Archive!Root, Archive!Files
    <3>2. Settled(g)
      <4>1. CASE OnStack(g)'
        BY <1>1, <2>10, <3>1, <4>1 DEF LibsInv, Kept
      <4>2. CASE ~OnStack(g)'
        <5>1. OnStack(g) => g = d
          <6>1. ASSUME NEW k \in DOMAIN stack, stack[k].entry = g
                PROVE  g = d
            <7>1. k = D \/ k \in 1 .. D - 1
              BY <1>3
            <7> QED BY <1>3, <2>5, <4>2, <6>1, <7>1 DEF OnStack
          <6> QED BY <6>1 DEF OnStack
        <5>2. CASE g = d /\ ~(ziptgt[d] < ziptgt[Archive!Root])
          BY <1>6, <3>1, <5>2
        <5>3. CASE g # d \/ ziptgt[d] < ziptgt[Archive!Root]
          BY <1>1, <2>10, <3>1, <5>1, <5>3 DEF LibsInv, Kept
        <5> QED BY <5>2, <5>3
      <4> QED BY <4>1, <4>2
    <3> QED BY <1>1, <3>1, <3>2, KeptInv
  <2> QED BY <1>1, <2>6, <2>7, <2>9, <2>10, KeptInv DEF LibsInv
<1>8. CASE D = 1
  <2>1. stack' = <<>> /\ root' = root + 1 /\ failed' = (failed \/ ~result) /\ DOMAIN stack' = {}
    BY <1>5, <1>8
  <2>2. Archive!TypeOK'
    BY <1>1, <1>3, <2>1 DEF LibsInv, Archive!TypeOK, Kept
  <2>3. d = Archive!Root /\ DOMAIN stack = {1}
    BY <1>1, <1>3, <1>8 DEF LibsInv, StackInv
  <2>4. ASSUME Well', NEW g \in ElfFiles, ziptgt'[g] # 0, ~Awaits(g)'
        PROVE  Settled(g)'
    <3>1. Well
      BY <1>8, <2>1, <2>3, <2>4 DEF Well
    <3>2. g \in Archive!Files
      BY DEF Archive!Files
    <3>3. CASE g = d
      <4>1. ~(ziptgt[d] < ziptgt[Archive!Root])
        <5>1. ziptgt[d] \in Nat
          BY Targeted
        <5> QED BY <2>3, <5>1
      <4> QED BY <1>1, <1>6, <3>1, <3>3, <4>1, KeptInv
    <3>4. CASE g # d
      <4>1. ~OnStack(g)
        BY <1>3, <1>8, <2>3, <3>4 DEF OnStack
      <4>2. ~Awaits(g)
        <5>1. ASSUME ~secondary[g], NEW k \in DOMAIN files_array, k >= root, files_array[k] = g
              PROVE  FALSE
          <6>1. k # root
            BY <2>3, <3>4, <5>1 DEF Archive!Root
          <6>2. k >= root + 1
            BY <5>1, <6>1 DEF LibsInv, Archive!TypeOK
          <6> QED BY <1>1, <2>1, <2>4, <5>1, <6>2 DEF Awaits, Kept
        <5> QED BY <5>1 DEF Awaits
      <4> QED BY <1>1, <2>4, <3>1, <3>2, <4>1, <4>2, KeptInv DEF LibsInv, Kept
    <3> QED BY <3>3, <3>4
  <2>5. StackInv'
    BY <2>1 DEF StackInv
  <2> QED BY <1>1, <2>1, <2>2, <2>4, <2>5, KeptInv DEF LibsInv
<1> QED BY <1>7, <1>8

(* The first directory of the path that holds a file decides. *)
LEMMA FirstFound ==
  ASSUME NEW T, NEW path \in Seq(T), NEW S \in SUBSET Archive!Files, RealFiles
  PROVE  /\ Archive!FirstIn(path, S) \in S \cup {None}
         /\ Archive!FirstIn(path, S) = None =>
              ~\E j \in DOMAIN path : \E f \in S : DirOf[f] = path[j]
         /\ Archive!FirstIn(path, S) # None =>
              \E j \in DOMAIN path : DirOf[Archive!FirstIn(path, S)] = path[j]
<1> DEFINE hits == {j \in DOMAIN path : \E f \in S : DirOf[f] = path[j]}
<1>1. CASE hits = {}
  BY <1>1 DEF Archive!FirstIn
<1>2. CASE hits # {}
  <2>1. hits \subseteq Nat
    OBVIOUS
  <2>2. PICK m \in hits : \A y \in hits : m <= y
    <3> HIDE DEF hits
    <3>1. PICK m \in hits : \A y \in hits : ~ (<<y, m>> \in OpToRel(<, Nat))
      BY <1>2, <2>1, NatLessThanWellFounded, WFMin
    <3>2. \A y \in hits : ~(y < m) /\ y \in Nat /\ m \in Nat
      BY <2>1, <3>1 DEF OpToRel
    <3> QED BY <3>2
  <2> DEFINE first == CHOOSE j \in hits : \A k \in hits : j <= k
  <2>3. first \in hits
    <3> HIDE DEF hits
    <3> QED BY <2>2
  <2>4. Archive!FirstIn(path, S) = CHOOSE f \in S : DirOf[f] = path[first]
    BY <1>2 DEF Archive!FirstIn
  <2> HIDE DEF first
  <2>5. \E f \in S : DirOf[f] = path[first]
    BY <2>3
  <2>6. Archive!FirstIn(path, S) \in S /\ DirOf[Archive!FirstIn(path, S)] = path[first]
    BY <2>4, <2>5
  <2>7. Archive!FirstIn(path, S) # None
    BY <2>6 DEF RealFiles
  <2> QED BY <2>3, <2>6, <2>7
<1> QED BY <1>1, <1>2

LEMMA PathIs ==
  ASSUME NEW r
  PROVE  /\ Archive!SearchPath(r) \in Seq({RpathOf[r], "/lib", "/usr/lib"})
         /\ <<"/usr/lib", "/lib">> \in Seq({"/usr/lib", "/lib"})
<1> DEFINE T == {RpathOf[r], "/lib", "/usr/lib"}
           own == IF RpathOf[r] = None THEN <<>> ELSE <<RpathOf[r]>>
<1>1. own \in Seq(T) /\ Archive!GlobalPath \in Seq(T)
  <2>1. RpathOf[r] \in T /\ "/lib" \in T /\ "/usr/lib" \in T
    OBVIOUS
  <2> HIDE DEF T
  <2>2. <<>> \in Seq(T) /\ <<RpathOf[r]>> \in Seq(T) /\ <<"/lib", "/usr/lib">> \in Seq(T)
    BY <2>1
  <2>3. Archive!GlobalPath \in Seq(T)
    BY <2>2 DEF Archive!GlobalPath
  <2>4. CASE RpathOf[r] = None
    BY <2>2, <2>3, <2>4
  <2>5. CASE RpathOf[r] # None
    BY <2>2, <2>3, <2>5
  <2> QED BY <2>4, <2>5
<1>2. Archive!SearchPath(r) = own \o Archive!GlobalPath
  BY DEF Archive!SearchPath
<1> HIDE DEF own
<1>3. Archive!SearchPath(r) \in Seq(T)
  BY <1>1, <1>2, ConcatProperties
<1> QED BY <1>3

(* A file that is looked for in vain and then found below opt/ was not yet  *)
(* in the archives.                                                        *)
LEMMA AddedIsNew ==
  ASSUME RealFiles, NEW r, NEW soname, Archive!try_to_resolve(r, soname) = None,
         Archive!to_add(r, soname) # None
  PROVE  Archive!to_add(r, soname) \in Shipped /\ Archive!to_add(r, soname) \notin Archive!Listed
<1> DEFINE path == Archive!SearchPath(r)
           S == Archive!Named(soname, Shipped)
           L == Archive!Named(soname, Archive!Listed \cap ElfFiles)
           f == Archive!FirstIn(path, S)
<1>1. path \in Seq({RpathOf[r], "/lib", "/usr/lib"})
  BY PathIs
<1>2. S \in SUBSET Archive!Files /\ L \in SUBSET Archive!Files
  BY DEF Archive!Named, Archive!Files, Archive!Listed, RealFiles
<1>3. f = Archive!to_add(r, soname) /\ f # None
  BY DEF Archive!to_add
<1>4. Archive!FirstIn(path, L) = None
  BY DEF Archive!try_to_resolve
<1> HIDE DEF path, f, L, S
<1>5. f \in S /\ \E j \in DOMAIN path : DirOf[f] = path[j]
  BY <1>1, <1>2, <1>3, FirstFound DEF f
<1>6. f \notin L
  BY <1>1, <1>2, <1>4, <1>5, FirstFound
<1>7. f \in Shipped /\ SonameOf[f] = soname /\ f \in ElfFiles
  BY <1>5 DEF S, Archive!Named, RealFiles
<1> QED BY <1>3, <1>6, <1>7 DEF L, Archive!Named

LEMMA ResolvedIs ==
  ASSUME RealFiles, LibsInv, Archive!Working, Archive!Resolved # None
  PROVE  Archive!Resolved \in Archive!Files /\ ziptgt[Archive!Resolved] # 0
<1>1. PICK d \in Archive!Files, n \in Nat \ {0} : d = Archive!Depender /\ n = Archive!Need
  BY Tops DEF Archive!Working
<1>2. n \in DOMAIN NeededBy[d]
  BY <1>1 DEF Archive!Working, RealFiles
<1>3. CASE file[d][n] # None
  <2>1. Archive!Resolved = file[d][n] /\ file[d][n] \in Archive!Files \cup {None}
    BY <1>1, <1>2, <1>3 DEF Archive!Resolved, LibsInv, Archive!TypeOK
  <2> QED BY <1>2, <1>3, <2>1 DEF LibsInv
<1>4. CASE file[d][n] = None
  <2>1. Archive!Resolved = Archive!try_to_resolve(Archive!Root, Archive!Soname)
    BY <1>1, <1>4 DEF Archive!Resolved
  <2> DEFINE L == Archive!Named(Archive!Soname, Archive!Listed \cap ElfFiles)
             K == Archive!Named(Archive!Soname, Archive!Listed \cap Symlinks)
  <2>2. /\ L \in SUBSET Archive!Files /\ K \in SUBSET Archive!Files
        /\ L \subseteq Archive!Listed /\ K \subseteq Archive!Listed
    BY DEF Archive!Named, Archive!Listed
  <2>3. Archive!Resolved \in {Archive!FirstIn(Archive!SearchPath(Archive!Root), L),
                              Archive!FirstIn(<<"/usr/lib", "/lib">>, K)}
    BY <2>1 DEF Archive!try_to_resolve
  <2> HIDE DEF L, K
  <2>4. Archive!FirstIn(Archive!SearchPath(Archive!Root), L) \in L \cup {None}
    <3>1. Archive!SearchPath(Archive!Root) \in Seq({RpathOf[Archive!Root], "/lib", "/usr/lib"})
      BY PathIs
    <3> QED BY <2>2, <3>1, FirstFound
  <2>5. Archive!FirstIn(<<"/usr/lib", "/lib">>, K) \in K \cup {None}
    BY <2>2, FirstFound, PathIs
  <2> QED BY <2>2, <2>3, <2>4, <2>5 DEF Archive!Listed, Archive!ZIP_TGT_UNKNOWN
<1> QED BY <1>3, <1>4

LEMMA FoundPresent == RealFiles /\ LibsInv /\ Archive!Present => LibsInv'
<1> SUFFICES ASSUME RealFiles, LibsInv, Archive!Present PROVE LibsInv'
  OBVIOUS
<1>1. Archive!Working /\ Archive!Resolved # None /\ stack # <<>>
  BY DEF Archive!Present, Archive!Working
<1>2. PICK f \in Archive!Files, r \in Archive!Files, D \in Nat \ {0} :
        /\ f = Archive!Resolved /\ r = Archive!Root /\ D = Archive!Depth
        /\ ziptgt[f] # 0 /\ ziptgt[r] # 0
        /\ D \in DOMAIN stack
  BY <1>1, ResolvedIs, Tops
<1>3. /\ ziptgt' = IF stack[D].result /\ ziptgt[r] < ziptgt[f]
                   THEN [ziptgt EXCEPT ![f] = ziptgt[r]] ELSE ziptgt
      /\ Archive!Descend(f) /\ UNCHANGED <<files_array, secondary>>
  BY <1>2 DEF Archive!Present
<1>4. /\ ziptgt \in [Archive!Files -> Archive!Targets] /\ secondary \in [Archive!Files -> BOOLEAN]
      /\ files_array \in Seq(Archive!Files)
  BY DEF LibsInv, Archive!TypeOK
<1>5. ziptgt[f] \in Nat /\ ziptgt[r] \in Nat
  BY Targeted
<1>6. /\ ziptgt' \in [Archive!Files -> Archive!Targets]
      /\ \A g \in Archive!Files : g # f => ziptgt'[g] = ziptgt[g]
      /\ ziptgt'[f] = IF stack[D].result /\ ziptgt[r] < ziptgt[f] THEN ziptgt[r] ELSE ziptgt[f]
  BY <1>3, <1>4
<1>7. Well => ziptgt'[f] <= ziptgt[r]
  BY <1>2, <1>5, <1>6 DEF Well
<1>8. file[Archive!Depender][Archive!Need] # None => f = file[Archive!Depender][Archive!Need]
  BY <1>2 DEF Archive!Resolved
<1> QED BY <1>1, <1>2, <1>3, <1>4, <1>6, <1>7, <1>8, Descended

LEMMA AddedOne == RealFiles /\ LibsInv /\ Archive!Added => LibsInv'
<1> SUFFICES ASSUME RealFiles, LibsInv, Archive!Added PROVE LibsInv'
  OBVIOUS
<1>1. Archive!Working /\ Archive!Resolved = None /\ stack # <<>>
  BY DEF Archive!Added, Archive!Working
<1>2. Archive!to_add(Archive!Root, Archive!Soname) # None
      /\ Archive!try_to_resolve(Archive!Root, Archive!Soname) = None
      /\ file[Archive!Depender][Archive!Need] = None
  BY <1>1 DEF Archive!Added, Archive!Resolved
<1>3. PICK f \in Archive!Files, r \in Archive!Files :
        f = Archive!to_add(Archive!Root, Archive!Soname) /\ r = Archive!Root
        /\ ziptgt[f] = 0 /\ ziptgt[r] # 0
  <2>1. Archive!to_add(Archive!Root, Archive!Soname) \in Archive!Files
    BY <1>2, AddedIsNew DEF RealFiles, Archive!Files
  <2> QED BY <1>1, <1>2, <2>1, AddedIsNew, Tops DEF Archive!Listed, Archive!ZIP_TGT_UNKNOWN
<1>4. /\ files_array' = Append(files_array, f) /\ ziptgt' = [ziptgt EXCEPT ![f] = ziptgt[r]]
      /\ secondary' = [secondary EXCEPT ![f] = TRUE] /\ Archive!Descend(f)
  BY <1>3 DEF Archive!Added
<1>5. /\ ziptgt \in [Archive!Files -> Archive!Targets] /\ secondary \in [Archive!Files -> BOOLEAN]
      /\ files_array \in Seq(Archive!Files)
  BY DEF LibsInv, Archive!TypeOK
<1>6. /\ ziptgt' \in [Archive!Files -> Archive!Targets] /\ ziptgt'[f] = ziptgt[r]
      /\ \A g \in Archive!Files : g # f => ziptgt'[g] = ziptgt[g]
      /\ secondary' \in [Archive!Files -> BOOLEAN]
      /\ \A g \in Archive!Files : ziptgt[g] # 0 => secondary'[g] = secondary[g]
  BY <1>3, <1>4, <1>5
<1>7. /\ files_array' \in Seq(Archive!Files)
      /\ \A k \in DOMAIN files_array :
           k \in DOMAIN files_array' /\ files_array'[k] = files_array[k]
      /\ \A k \in DOMAIN files_array' : k \notin DOMAIN files_array => files_array'[k] = f
  BY <1>4, <1>5
<1>8. ziptgt'[f] <= ziptgt[r]
  BY <1>6, Targeted
<1> QED BY <1>1, <1>2, <1>3, <1>4, <1>6, <1>7, <1>8, Descended

(* Every step keeps the invariant. *)
LEMMA NextLibs == RealFiles /\ LibsInv /\ [Archive!Next]_(Archive!vars) => LibsInv'
<1> SUFFICES ASSUME RealFiles, LibsInv, [Archive!Next]_(Archive!vars) PROVE LibsInv'
  OBVIOUS
<1>1. CASE UNCHANGED Archive!vars
  <2>1. Kept /\ UNCHANGED <<root, stack, failed>>
    BY <1>1 DEF Archive!vars, Kept
  <2>2. Archive!TypeOK'
    BY <2>1 DEF LibsInv, Archive!TypeOK, Kept
  <2>3. StackInv'
    <3>1. Archive!Brings(Archive!Root)' = Archive!Brings(Archive!Root)
          /\ Archive!Root' = Archive!Root
      BY <2>1 DEF Archive!Brings, Archive!Root, Kept
    <3> QED BY <2>1, <3>1 DEF LibsInv, StackInv, Kept
  <2>4. Well' = Well
    BY <2>1 DEF Well
  <2>5. ASSUME NEW k \in DOMAIN stack
        PROVE  DoneFor(k)' = DoneFor(k)
    BY <2>1 DEF DoneFor, Archive!Root, Kept
  <2>6. ASSUME NEW g \in ElfFiles
        PROVE  Awaits(g)' = Awaits(g) /\ OnStack(g)' = OnStack(g) /\ Archive!Root' = Archive!Root
    BY <2>1 DEF Awaits, OnStack, Archive!Root, Kept
  <2>7. \A g \in ElfFiles : g \in Archive!Files
    BY DEF Archive!Files
  <2>8. Well => \A k \in DOMAIN stack' : DoneFor(k)'
    BY <2>1, <2>5 DEF LibsInv
  <2>9. Well => \A g \in ElfFiles :
                  /\ ziptgt'[g] # 0 /\ ~Awaits(g)'
                  /\ OnStack(g)' => ziptgt'[g] < ziptgt'[Archive!Root']
                => Settled(g)'
    BY <2>1, <2>6, <2>7, KeptInv DEF LibsInv, Kept
  <2> QED BY <2>1, <2>2, <2>3, <2>4, <2>8, <2>9, KeptInv DEF LibsInv
<1> QED BY <1>1, StartedRoot, SkippedRoot, FoundPresent, AddedOne, MissedOne, ReturnedOne
        DEF Archive!Next

-----------------------------------------------------------------------------

(* When all roots have had their turn, nothing is awaited and all is settled. *)
LEMMA LibsPlaced ==
  ASSUME RealFiles, LibsInv, Archive!Done
  PROVE  Archive!PlacedRight
<1> SUFFICES ASSUME ~failed, NEW g \in Archive!Files
             PROVE  IF Archive!For(g) = {} THEN ziptgt[g] = Archive!ZIP_TGT_UNKNOWN
                    ELSE /\ ziptgt[g] \in {chosen[f] : f \in Archive!For(g)}
                         /\ \A f \in Archive!For(g) : ziptgt[g] <= chosen[f]
                         /\ \A j \in DOMAIN file[g] : g \in ElfFiles => file[g][j] # None
  BY DEF Archive!PlacedRight
<1>1. Well
  BY DEF Archive!Done, Well
<1>2. ASSUME NEW n \in ElfFiles, ziptgt[n] # 0
      PROVE  Settled(n)
  <2>1. ~OnStack(n)
    BY DEF OnStack, Archive!Done
  <2>2. ~Awaits(n)
    BY DEF Awaits, Archive!Done, LibsInv, Archive!TypeOK
  <2> QED BY <1>1, <1>2, <2>1, <2>2 DEF LibsInv
<1>3. /\ \A n \in Archive!Files : /\ PlacedFor(n) /\ ziptgt[n] \in Nat /\ chosen[n] \in Nat
                                  /\ chosen[n] # 0 => ziptgt[n] # 0 /\ ziptgt[n] <= chosen[n]
      /\ \A n \in Archive!Files : /\ file[n] \in [DOMAIN NeededBy[n] -> Archive!Files \cup {None}]
                                  /\ \A j \in DOMAIN NeededBy[n] :
                                       file[n][j] # None => ziptgt[file[n][j]] # 0
  BY Targeted DEF LibsInv, Archive!TypeOK
<1>4. ASSUME NEW f \in Archive!For(g)
      PROVE  ziptgt[g] # 0 /\ ziptgt[g] <= chosen[f]
  <2>1. f \in Archive!Files /\ chosen[f] # 0 /\ (g = f \/ g \in Archive!Brings(f))
    BY DEF Archive!For, Archive!ZIP_TGT_UNKNOWN
  <2> DEFINE S == {n \in Archive!Files : ziptgt[n] # 0 /\ ziptgt[n] <= ziptgt[f]}
  <2>2. f \in S /\ S \in SUBSET Archive!Files
    BY <1>3, <2>1
  <2>3. ASSUME NEW s \in S, NEW j \in DOMAIN file[s]
        PROVE  file[s][j] \in S \cup {None}
    <3>1. DOMAIN file[s] = DOMAIN NeededBy[s] /\ file[s][j] \in Archive!Files \cup {None}
      BY <1>3
    <3>2. s \in ElfFiles
      BY <3>1 DEF RealFiles, Archive!Files
    <3>3. CASE file[s][j] # None
      <4>1. ziptgt[file[s][j]] <= ziptgt[s] /\ ziptgt[file[s][j]] # 0
            /\ file[s][j] \in Archive!Files
        BY <1>2, <1>3, <3>1, <3>2, <3>3 DEF Settled
      <4>2. ziptgt[file[s][j]] \in Nat /\ ziptgt[s] \in Nat /\ ziptgt[f] \in Nat
            /\ ziptgt[s] <= ziptgt[f]
        BY <1>3, <2>1, <4>1
      <4> QED BY <4>1, <4>2
    <3> QED BY <3>3
  <2>4. g \in S
    <3>1. g \in Archive!Brings(f)
      BY <2>1, BringsItself
    <3> HIDE DEF S
    <3> QED BY <2>2, <2>3, <3>1 DEF Archive!Brings
  <2>5. ziptgt[g] \in Nat /\ ziptgt[f] \in Nat /\ chosen[f] \in Nat /\ ziptgt[f] <= chosen[f]
    BY <1>3, <2>1
  <2> QED BY <2>4, <2>5
<1>5. ziptgt[g] # 0 => \E c \in Archive!For(g) : chosen[c] = ziptgt[g]
  BY <1>3 DEF PlacedFor
<1>6. g \in ElfFiles /\ ziptgt[g] # 0 => \A j \in DOMAIN file[g] : file[g][j] # None
  BY <1>2, <1>3 DEF Settled
<1> QED BY <1>4, <1>5, <1>6 DEF Archive!ZIP_TGT_UNKNOWN

(* When the search has ended without an error, a file lies in an archive   *)
(* exactly if it was chosen or a chosen ELF file needs it, in the earliest *)
(* archive one of these lies in, and all needs are met: whatever the order *)
(* of the list, the directories, the names and the needs.                  *)
THEOREM LibrariesRight ==
  ASSUME RealFiles
  PROVE  Archive!Init /\ [][Archive!Next]_(Archive!vars) => [](Archive!Done => Archive!PlacedRight)
<1>1. Archive!Init => LibsInv
  BY InitLibs
<1>2. LibsInv /\ [Archive!Next]_(Archive!vars) => LibsInv'
  BY NextLibs
<1>3. LibsInv => (Archive!Done => Archive!PlacedRight)
  BY LibsPlaced
<1> QED BY <1>1, <1>2, <1>3, PTL
=============================================================================
