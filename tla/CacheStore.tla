----------------------------- MODULE CacheStore -----------------------------
(***************************************************************************)
(* What a cache promises (the Cache interface of                           *)
(* packages/cache/src/cache.ts): a lookup finds what was stored last under *)
(* the key, unless that was removed, or nothing.  The cache may forget an  *)
(* entry whenever a key is stored or looked up, never the one concerned,   *)
(* and it never remembers what it had forgotten.                           *)
(***************************************************************************)
CONSTANTS Keys, Values, None

VARIABLES
  contents,   \* per key: what was stored last and not removed, or None
  store       \* per key: what a lookup finds, or None

Init ==
  /\ contents = [k \in Keys |-> None]
  /\ store = contents

\* An entry is as it was, or forgotten; that of k is not forgotten.
MayForgetBut(k) == \A j \in Keys \ {k} : store'[j] \in {store[j], None}

Store(k, v) ==
  /\ contents' = [contents EXCEPT ![k] = v]
  /\ store' \in [Keys -> Values \cup {None}]
  /\ store'[k] = v
  /\ MayForgetBut(k)

Lookup(k) ==
  /\ UNCHANGED contents
  /\ store' \in [Keys -> Values \cup {None}]
  /\ store'[k] = store[k]
  /\ MayForgetBut(k)

Remove(k) ==
  /\ contents' = [contents EXCEPT ![k] = None]
  /\ store' = [store EXCEPT ![k] = None]

Next == \E k \in Keys : Lookup(k) \/ Remove(k) \/ \E v \in Values : Store(k, v)

Spec == Init /\ [][Next]_<<contents, store>>
=============================================================================
