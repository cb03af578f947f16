---------------------------- MODULE CachedAsync ----------------------------
(***************************************************************************)
(* cachedAsync() of packages/cache/src/cache.ts over an LRUCache: callers  *)
(* that ask for a key while a promise for it is in the cache share that    *)
(* promise; a promise that is rejected is taken out again.                 *)
(*                                                                         *)
(* An action is the code between two awaits.  The promise made by a        *)
(* producer is called a flight and is the value of its key.  Others may    *)
(* use the same cache: Invalidate and Prime are their calls.               *)
(***************************************************************************)
EXTENDS LruCache

CONSTANTS
  Callers,          \* the calls of cachedAsync()
  MaxFlights        \* bound: how many promises are made

ASSUME FlightAssumption == MaxFlights \in Nat /\ Values = 1..MaxFlights

VARIABLES
  pc,               \* per caller: where it is
  key,              \* per caller: the key it asks for
  flight,           \* per caller: the promise it waits for, 0 for none
  state,            \* per flight: whether its promise has settled
  flights,          \* how many flights there have been
  displaced         \* the keys that lost an entry other than by a rejection (history)

callerVars == <<pc, key, flight>>
vars == <<lruVars, callerVars, state, flights, displaced>>

Flight  == 1..MaxFlights
Settled == {"fulfilled", "rejected"}

Init ==
  /\ LruInit
  /\ pc = [c \in Callers |-> "idle"]
  /\ key = [c \in Callers |-> None]
  /\ flight = [c \in Callers |-> 0]
  /\ state = [f \in Flight |-> "unused"]
  /\ flights = 0
  /\ displaced = {}

\* The keys whose entry this step drops or replaces.
Displaced == {k \in Keys : Found(k) # None /\ Found(k)' # Found(k)}

Waits(c, k, f, place) ==
  /\ pc' = [pc EXCEPT ![c] = place]
  /\ key' = [key EXCEPT ![c] = k]
  /\ flight' = [flight EXCEPT ![c] = f]

Launch(s) ==
  /\ flights < MaxFlights
  /\ flights' = flights + 1
  /\ state' = [state EXCEPT ![flights + 1] = s]
------------------------------------------------------------------------------
\* The key has a promise, settled or not: the caller shares it.
Join(c, k) ==
  /\ pc[c] = "idle"
  /\ Found(k) # None
  /\ Get(k)
  /\ Waits(c, k, Found(k), "joins")
  /\ displaced' = displaced \cup Displaced
  /\ UNCHANGED <<state, flights>>

\* Mutant: the promise is stored by its owner when it has settled.
ProduceUnstored(c, k) ==
  /\ pc[c] = "idle"
  /\ Found(k) = None
  /\ Launch("running")
  /\ Waits(c, k, flights + 1, "owns")
  /\ UNCHANGED <<lruVars, displaced>>

\* The producer is called and its promise stored before anything is awaited.
Produce(c, k) ==
  /\ pc[c] = "idle"
  /\ Found(k) = None
  /\ Launch("running")
  /\ Set(k, flights + 1)
  /\ Waits(c, k, flights + 1, "owns")
  /\ displaced' = displaced \cup Displaced

\* The producer throws instead of returning a promise: nothing is stored.
ProducerThrows(c, k) ==
  /\ pc[c] = "idle"
  /\ Found(k) = None
  /\ Waits(c, k, 0, "threw")
  /\ UNCHANGED <<lruVars, state, flights, displaced>>

FlightSettles(f, s) ==
  /\ state[f] = "running"
  /\ state' = [state EXCEPT ![f] = s]
  /\ UNCHANGED <<lruVars, callerVars, flights, displaced>>

Answer(c) ==
  /\ pc' = [pc EXCEPT ![c] = "answered"]
  /\ UNCHANGED <<key, flight, state, flights, displaced>>

\* Mutant: the failure stays.
OwnerFailsKeeping(c) ==
  /\ pc[c] = "owns" /\ state[flight[c]] = "rejected"
  /\ Answer(c)
  /\ UNCHANGED lruVars

\* The continuation of the caller that made the promise, in both outcomes.
OwnerSucceeds(c) ==
  /\ pc[c] = "owns" /\ state[flight[c]] = "fulfilled"
  /\ Answer(c)
  /\ UNCHANGED lruVars
OwnerFails(c) ==
  /\ pc[c] = "owns" /\ state[flight[c]] = "rejected"
  /\ Unset(key[c])
  /\ Answer(c)

JoinerAnswers(c) ==
  /\ pc[c] = "joins" /\ state[flight[c]] \in Settled
  /\ Answer(c)
  /\ UNCHANGED lruVars

\* Another user of the cache removes an entry, or stores a settled promise.
Invalidate(k) ==
  /\ Found(k) # None
  /\ Unset(k)
  /\ displaced' = displaced \cup {k}
  /\ UNCHANGED <<callerVars, state, flights>>
Prime(k) ==
  /\ Launch("fulfilled")
  /\ Set(k, flights + 1)
  /\ displaced' = displaced \cup Displaced
  /\ UNCHANGED callerVars

CallerStep(c) ==
  \/ \E k \in Keys : Join(c, k) \/ Produce(c, k) \/ ProducerThrows(c, k)
  \/ OwnerSucceeds(c)
  \/ OwnerFails(c)
  \/ JoinerAnswers(c)

Next ==
  \/ \E c \in Callers : CallerStep(c)
  \/ \E f \in Flight, s \in Settled : FlightSettles(f, s)
  \/ \E k \in Keys : Invalidate(k) \/ Prime(k)

Spec == Init /\ [][Next]_vars
------------------------------------------------------------------------------
(***************************************************************************)
(* Properties                                                              *)
(***************************************************************************)
\* The types of the cache and of the calls; the size counter of the cache is
\* right and the cache within its bounds, whoever inserts and removes.
TypeOK ==
  /\ LruTypeOK
  /\ pc \in [Callers -> {"idle", "owns", "joins", "threw", "answered"}]
  /\ key \in [Callers -> Keys \cup {None}]
  /\ flight \in [Callers -> 0..MaxFlights]
  /\ state \in [Flight -> {"unused", "running"} \cup Settled]
  /\ flights \in 0..MaxFlights
  /\ displaced \subseteq Keys

\* A rejected promise is in the cache, in either generation, only until the
\* caller that made it resumes: a failure is never served for good, whatever
\* is evicted, promoted or replaced meanwhile (cache.ts:31-36).
FailureIsNotCached ==
  \A k \in Keys, f \in Flight :
    (state[f] = "rejected" /\ (cache[k] = f \/ old[k] = f))
      => \E c \in Callers : pc[c] = "owns" /\ flight[c] = f /\ key[c] = k

\* While no entry of a key was evicted or replaced from outside, at most one
\* producer runs for the key, however many callers ask (cache.ts:24-30).
OneProducerPerKey ==
  \A c, d \in Callers :
    (/\ pc[c] = "owns" /\ pc[d] = "owns" /\ key[c] = key[d] /\ key[c] \notin displaced
     /\ state[flight[c]] = "running" /\ state[flight[d]] = "running") => c = d
=============================================================================
