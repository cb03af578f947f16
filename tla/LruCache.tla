------------------------------ MODULE LruCache ------------------------------
(***************************************************************************)
(* LRUCache of packages/cache/src/lru.ts: two generations of entries.  New *)
(* and promoted entries go to the young one; when it holds maxSize entries *)
(* it becomes the old one, and the former old one is dropped.              *)
(*                                                                         *)
(* Keys are given values other than null and undefined, which the cache    *)
(* cannot tell from an absent entry.  The hit and miss counters are left   *)
(* out.                                                                    *)
(***************************************************************************)
EXTENDS Integers, Sequences, FiniteSets

CONSTANTS
  Keys,
  Values,
  None,             \* null: no entry
  MaxSize           \* maxSize

ASSUME CacheAssumption ==
  /\ IsFiniteSet(Keys)
  /\ None \notin Values
  /\ MaxSize \in Nat \ {0}

VARIABLES
  cache,            \* the young generation
  old,              \* the old generation
  size,             \* the number of entries of the young generation
  recent,           \* the keys used so far, the last one first (history)
  contents          \* per key: what was set last and not unset (history)

useVars == <<recent, contents>>
lruVars == <<cache, old, size, useVars>>

Empty == [k \in Keys |-> None]
Entries(gen) == {k \in Keys : gen[k] # None}

LruInit ==
  /\ cache = Empty
  /\ old = Empty
  /\ size = 0
  /\ recent = <<>>
  /\ contents = Empty

\* What get(k) answers.
Found(k) == IF cache[k] # None THEN cache[k] ELSE old[k]

\* k becomes the key used last; it was at place i, or is new and i is a new place.
Used(k) ==
  \E i \in 1..(Len(recent) + 1) :
    /\ \A j \in 1..(i - 1) : recent[j] # k
    /\ i <= Len(recent) => recent[i] = k
    /\ recent' = [j \in 1..(IF i > Len(recent) THEN i ELSE Len(recent)) |->
                    IF j = 1 THEN k ELSE IF j <= i THEN recent[j - 1] ELSE recent[j]]

\* Mutant of _set(): both generations are dropped.
PutNewDropsBoth(k, v) ==
  IF size + 1 >= MaxSize
  THEN /\ cache' = [Empty EXCEPT ![k] = v] /\ old' = Empty /\ size' = 1
  ELSE /\ cache' = [cache EXCEPT ![k] = v] /\ size' = size + 1 /\ UNCHANGED old

\* _set(): a new entry, which may turn the young generation into the old one.
PutNew(k, v) ==
  \/ /\ size + 1 >= MaxSize
     /\ size' = 0
     /\ old' = [cache EXCEPT ![k] = v]
     /\ cache' = Empty
  \/ /\ size + 1 < MaxSize
     /\ size' = size + 1
     /\ cache' = [cache EXCEPT ![k] = v]
     /\ UNCHANGED old

Set(k, v) ==
  /\ \/ cache[k] # None /\ cache' = [cache EXCEPT ![k] = v] /\ UNCHANGED <<old, size>>
     \/ cache[k] = None /\ PutNew(k, v)
  /\ Used(k)
  /\ contents' = [contents EXCEPT ![k] = v]

\* get(): an entry of the old generation is promoted.
Get(k) ==
  \/ Found(k) = None /\ UNCHANGED lruVars
  \/ cache[k] # None /\ Used(k) /\ UNCHANGED <<cache, old, size, contents>>
  \/ cache[k] = None /\ old[k] # None /\ PutNew(k, old[k]) /\ Used(k) /\ UNCHANGED contents

\* Mutant: only the young generation is told.
UnsetYoung(k) ==
  /\ cache' = [cache EXCEPT ![k] = None]
  /\ size' = IF cache[k] # None THEN size - 1 ELSE size
  /\ contents' = [contents EXCEPT ![k] = None]
  /\ UNCHANGED <<old, recent>>

Unset(k) ==
  /\ cache' = [cache EXCEPT ![k] = None]
  /\ old' = [old EXCEPT ![k] = None]
  /\ size' = IF cache[k] # None THEN size - 1 ELSE size
  /\ contents' = [contents EXCEPT ![k] = None]
  /\ UNCHANGED recent

\* The counter is the size of the young generation, which stays below maxSize
\* between calls, and the old one within it: the cache keeps "up to twice the
\* amount of entries" (lru.ts:17-20, 73-81).
WithinTwiceMaxSize ==
  /\ size = Cardinality(Entries(cache))
  /\ size < MaxSize
  /\ Cardinality(Entries(old)) <= MaxSize

LruTypeOK ==
  /\ cache \in [Keys -> Values \cup {None}]
  /\ old \in [Keys -> Values \cup {None}]
  /\ size \in Nat
  /\ WithinTwiceMaxSize
  /\ recent \in Seq(Keys)
  /\ contents \in [Keys -> Values \cup {None}]

\* The maxSize keys used last are found as they were set, however the generations
\* change: the cache evicts none of them (lru.ts:47-50, 76-80).
KeepsRecentlyUsed ==
  \A i \in 1..Len(recent) :
    i <= MaxSize => Found(recent[i]) = contents[recent[i]]

Store == INSTANCE CacheStore WITH store <- [k \in Keys |-> Found(k)]

\* The cache as a whole: a removed, replaced or forgotten value never comes
\* back, from whichever generation (lru.ts:41-71).
ImplementsStore == Store!Spec
=============================================================================
