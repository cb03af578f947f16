----------------------------- MODULE CacheProofs -----------------------------
(***************************************************************************)
(* Proofs about CachedAsync and the LRUCache under it, for every number of *)
(* keys, callers and flights and every maxSize.                            *)
(***************************************************************************)
EXTENDS CachedAsync, FiniteSetTheorems, TLAPS

Optional == Values \cup {None}

\* The types of TypeOK that the proofs need.
Typed ==
  /\ cache \in [Keys -> Optional]
  /\ old \in [Keys -> Optional]
  /\ contents \in [Keys -> Optional]
  /\ pc \in [Callers -> {"idle", "owns", "joins", "threw", "answered"}]
  /\ key \in [Callers -> Keys \cup {None}]
  /\ flight \in [Callers -> 0..MaxFlights]
  /\ state \in [Flight -> {"unused", "running"} \cup Settled]
  /\ flights \in 0..MaxFlights

\* What one call does to the generations: entries of k become v, and the others
\* are as they were or dropped.
Holds(k, f) == cache[k] = f \/ old[k] = f
Keeps(K) ==
  \A j \in Keys \ K : /\ Found(j)' \in {Found(j), None}
                      /\ \A f \in Values : Holds(j, f)' => Holds(j, f)

\* set() of a new entry, or the promotion of an old one.
LEMMA PutNewKeeps ==
  ASSUME Typed, NEW k \in Keys, NEW v \in Values, cache[k] = None, PutNew(k, v)
  PROVE  /\ cache' \in [Keys -> Optional] /\ old' \in [Keys -> Optional]
         /\ Found(k)' = v
         /\ Keeps({k})
         /\ \A f \in Values : Holds(k, f)' => Holds(k, f) \/ f = v
  BY CacheAssumption DEF Typed, PutNew, Optional, Empty, Found, Keeps, Holds

\* set(): the key has the new value, and nothing else comes into the cache.
LEMMA SetKeeps ==
  ASSUME Typed, NEW k \in Keys, NEW v \in Values, Set(k, v)
  PROVE  /\ cache' \in [Keys -> Optional] /\ old' \in [Keys -> Optional]
         /\ contents' \in [Keys -> Optional]
         /\ contents' = [contents EXCEPT ![k] = v]
         /\ Found(k)' = v
         /\ Keeps({k})
         /\ \A f \in Values : Holds(k, f)' => Holds(k, f) \/ f = v
<1>1. contents' = [contents EXCEPT ![k] = v] /\ contents' \in [Keys -> Optional]
  BY DEF Set, Typed, Optional
<1>2. CASE cache[k] # None
  BY <1>1, <1>2, CacheAssumption DEF Set, Typed, Optional, Found, Keeps, Holds
<1>3. CASE cache[k] = None
  <2>1. PutNew(k, v)
    BY <1>3 DEF Set
  <2> QED BY <1>1, <1>3, <2>1, PutNewKeeps
<1> QED BY <1>2, <1>3

\* get(): nothing comes into the cache, and the key keeps its entry.
LEMMA GetKeeps ==
  ASSUME Typed, NEW k \in Keys, Get(k)
  PROVE  /\ cache' \in [Keys -> Optional] /\ old' \in [Keys -> Optional]
         /\ contents' = contents
         /\ Found(k)' = Found(k)
         /\ Keeps({})
<1>1. CASE UNCHANGED <<cache, old, contents>>
  BY <1>1 DEF Typed, Found, Keeps, Holds
<1>2. CASE cache[k] = None /\ old[k] # None /\ PutNew(k, old[k]) /\ UNCHANGED contents
  <2>1. old[k] \in Values
    BY <1>2 DEF Typed, Optional
  <2>2. /\ cache' \in [Keys -> Optional] /\ old' \in [Keys -> Optional]
        /\ Found(k)' = old[k]
        /\ Keeps({k})
        /\ \A f \in Values : Holds(k, f)' => Holds(k, f) \/ f = old[k]
    BY <1>2, <2>1, PutNewKeeps
  <2>3. Found(k)' = Found(k)
    BY <1>2, <2>2 DEF Found
  <2>4. \A f \in Values : Holds(k, f)' => Holds(k, f)
    BY <2>2 DEF Holds
  <2>5. Keeps({})
    BY <2>2, <2>3, <2>4 DEF Keeps
  <2> QED BY <1>2, <2>2, <2>3, <2>5
<1> QED BY <1>1, <1>2 DEF Get, lruVars, useVars

\* unset(): the key has no entry in either generation.
LEMMA UnsetKeeps ==
  ASSUME Typed, NEW k \in Keys, Unset(k)
  PROVE  /\ cache' \in [Keys -> Optional] /\ old' \in [Keys -> Optional]
         /\ contents' \in [Keys -> Optional]
         /\ contents' = [contents EXCEPT ![k] = None]
         /\ Found(k)' = None
         /\ \A f \in Values : ~Holds(k, f)'
         /\ Keeps({})
         /\ \A j \in Keys \ {k} : Found(j)' = Found(j)
  BY CacheAssumption DEF Typed, Unset, Optional, Found, Keeps, Holds
------------------------------------------------------------------------------
(***************************************************************************)
(* The invariant behind the two properties of cachedAsync().               *)
(***************************************************************************)
Owns(c, k, f) == pc[c] = "owns" /\ key[c] = k /\ flight[c] = f

\* Flights are numbered in the order they start, in the cache as elsewhere.
FlightsNumbered ==
  /\ \A k \in Keys, f \in Flight : Holds(k, f) => f <= flights
  /\ \A f \in Flight : f > flights => state[f] = "unused"

\* A promise has one owner at most.
OwnersApart ==
  /\ \A c \in Callers : pc[c] = "owns" => key[c] \in Keys /\ flight[c] \in 1..flights
  /\ \A c, d \in Callers : (pc[c] = "owns" /\ pc[d] = "owns" /\ flight[c] = flight[d]) => c = d

\* An entry that may yet fail, or has failed, has an owner to take it out.
EntriesOwned ==
  \A k \in Keys, f \in Flight :
    (Holds(k, f) /\ state[f] \in {"running", "rejected"}) => \E c \in Callers : Owns(c, k, f)

\* Unless others interfered with the key, lookups find the promise of its owner.
OwnersFound ==
  \A c \in Callers : (pc[c] = "owns" /\ key[c] \notin displaced) => Found(key[c]) = flight[c]

IInv == Typed /\ FlightsNumbered /\ OwnersApart /\ EntriesOwned /\ OwnersFound

\* A caller that goes from "idle" or to a state other than "owns" is no owner.
OthersKept(c) ==
  \A d \in Callers \ {c} : pc'[d] = pc[d] /\ key'[d] = key[d] /\ flight'[d] = flight[d]

\* The invariant holds in the initial state: the cache is empty.
LEMMA InitHolds == Init => IInv
<1> SUFFICES ASSUME Init PROVE IInv
  OBVIOUS
<1>1. Typed
  BY FlightAssumption DEF Init, LruInit, Empty, Typed, Optional, Flight
<1>2. FlightsNumbered /\ EntriesOwned
  BY CacheAssumption, FlightAssumption
     DEF Init, LruInit, Empty, FlightsNumbered, EntriesOwned, Holds, Flight
<1>3. OwnersApart /\ OwnersFound
  BY DEF Init, OwnersApart, OwnersFound
<1> QED BY <1>1, <1>2, <1>3 DEF IInv

\* A new promise is stored under k: by Produce and by Prime.  What of the
\* invariant does not depend on who owns it.
LEMMA LaunchOK ==
  ASSUME IInv, NEW k \in Keys, NEW s \in {"running", "fulfilled"},
         Launch(s), Set(k, flights + 1)
  PROVE  /\ cache' \in [Keys -> Optional] /\ old' \in [Keys -> Optional]
         /\ contents' \in [Keys -> Optional]
         /\ flights' = flights + 1 /\ flights' \in 1..MaxFlights
         /\ state' = [state EXCEPT ![flights + 1] = s]
         /\ state' \in [Flight -> {"unused", "running"} \cup Settled]
         /\ Found(k)' = flights + 1
         /\ \A j \in Keys, f \in Flight : Holds(j, f)' => Holds(j, f) \/ (j = k /\ f = flights + 1)
         /\ FlightsNumbered'
<1> USE FlightAssumption
<1>1. flights + 1 \in Flight /\ flights' = flights + 1 /\ flights' \in 1..MaxFlights
  BY DEF Launch, IInv, Typed, Flight
<1>2. /\ state' = [state EXCEPT ![flights + 1] = s]
      /\ state' \in [Flight -> {"unused", "running"} \cup Settled]
  BY <1>1 DEF Launch, IInv, Typed, Settled
<1>3. flights + 1 \in Values
  BY <1>1 DEF Flight
<1>4. Typed
  BY DEF IInv
<1>5. /\ cache' \in [Keys -> Optional] /\ old' \in [Keys -> Optional]
      /\ contents' \in [Keys -> Optional]
      /\ Found(k)' = flights + 1
      /\ Keeps({k})
      /\ \A f \in Values : Holds(k, f)' => Holds(k, f) \/ f = flights + 1
  BY <1>3, <1>4, SetKeeps
<1>6. \A j \in Keys, f \in Flight : Holds(j, f)' => Holds(j, f) \/ (j = k /\ f = flights + 1)
  BY <1>5 DEF Keeps, Flight
<1>7. FlightsNumbered'
  BY <1>1, <1>2, <1>6 DEF IInv, Typed, FlightsNumbered, Flight
<1> QED BY <1>1, <1>2, <1>5, <1>6, <1>7

\* An owner whose key is not displaced by this step had its promise in the cache
\* before the step and has it afterwards.
LEMMA OwnersStayFound ==
  ASSUME IInv, NEW d \in Callers, pc[d] = "owns", key[d] \notin displaced \cup Displaced
  PROVE  /\ Found(key[d]) = flight[d] /\ flight[d] # None
         /\ \A k \in Keys : k = key[d] => Found(k)' = flight[d]
<1> USE FlightAssumption
<1>1. key[d] \in Keys /\ flight[d] \in Flight
  BY DEF IInv, OwnersApart, Typed, Flight
<1>2. Found(key[d]) = flight[d] /\ flight[d] # None
  BY <1>1, CacheAssumption DEF IInv, OwnersFound, Flight
<1>3. ASSUME NEW k \in Keys, k = key[d] PROVE Found(k)' = flight[d]
  BY <1>2, <1>3 DEF Displaced
<1> QED BY <1>2, <1>3

\* So the part of the invariant about them holds for an owner that the step leaves
\* alone.
LEMMA KeptOwnerFound ==
  ASSUME IInv, NEW d \in Callers, pc[d] = "owns", key[d] \notin displaced \cup Displaced,
         key'[d] = key[d], flight'[d] = flight[d]
  PROVE  Found(key[d])' = flight'[d]
<1>1. key[d] \in Keys
  BY DEF IInv, OwnersApart
<1>2. \A k \in Keys : k = key[d] => Found(k)' = flight[d]
  BY OwnersStayFound
<1> QED BY <1>1, <1>2 DEF Found

\* A caller joins: get() brings nothing into the cache.
LEMMA JoinOK ==
  ASSUME IInv, NEW c \in Callers, NEW k \in Keys, Join(c, k)
  PROVE  IInv'
<1> USE FlightAssumption
<1>1. /\ cache' \in [Keys -> Optional] /\ old' \in [Keys -> Optional]
      /\ contents' = contents /\ Keeps({})
  BY GetKeeps DEF Join, IInv
<1>2. Found(k) \in 0..MaxFlights
  BY DEF Join, IInv, Typed, Found, Optional
<1>3. Typed'
  BY <1>1, <1>2 DEF Join, Waits, IInv, Typed
<1>4. pc[c] = "idle" /\ pc'[c] = "joins" /\ OthersKept(c) /\ UNCHANGED <<state, flights>>
  BY DEF Join, Waits, OthersKept, IInv, Typed
<1>5. FlightsNumbered' /\ OwnersApart'
  BY <1>1, <1>4 DEF IInv, FlightsNumbered, OwnersApart, OthersKept, Keeps, Flight
<1>6. EntriesOwned'
  BY <1>1, <1>4 DEF IInv, EntriesOwned, OthersKept, Keeps, Flight, Owns
<1>7. OwnersFound'
  <2> SUFFICES ASSUME NEW d \in Callers, pc'[d] = "owns", key'[d] \notin displaced'
               PROVE  Found(key[d])' = flight'[d]
    BY DEF OwnersFound
  <2>1. pc[d] = "owns" /\ key'[d] = key[d] /\ flight'[d] = flight[d]
    BY <1>4 DEF OthersKept
  <2>2. key[d] \notin displaced \cup Displaced
    BY <2>1 DEF Join
  <2> QED BY <2>1, <2>2, KeptOwnerFound
<1> QED BY <1>3, <1>5, <1>6, <1>7 DEF IInv

\* The producer is called: its caller owns the new promise.
LEMMA ProduceOK ==
  ASSUME IInv, NEW c \in Callers, NEW k \in Keys, Produce(c, k)
  PROVE  IInv'
<1> USE FlightAssumption
<1>1. Launch("running") /\ Set(k, flights + 1) /\ displaced' = displaced \cup Displaced
  BY DEF Produce
<1>2. /\ cache' \in [Keys -> Optional] /\ old' \in [Keys -> Optional]
      /\ contents' \in [Keys -> Optional]
      /\ flights' = flights + 1 /\ flights' \in 1..MaxFlights
      /\ state' = [state EXCEPT ![flights + 1] = "running"]
      /\ state' \in [Flight -> {"unused", "running"} \cup Settled]
      /\ Found(k)' = flights + 1
      /\ \A j \in Keys, f \in Flight : Holds(j, f)' => Holds(j, f) \/ (j = k /\ f = flights + 1)
      /\ FlightsNumbered'
  BY <1>1, LaunchOK
<1>3. /\ pc[c] = "idle" /\ Found(k) = None
      /\ pc' = [pc EXCEPT ![c] = "owns"]
      /\ key' = [key EXCEPT ![c] = k]
      /\ flight' = [flight EXCEPT ![c] = flights + 1]
  BY DEF Produce, Waits
<1>4. Typed'
  BY <1>2, <1>3 DEF IInv, Typed
<1>5. OthersKept(c) /\ pc'[c] = "owns" /\ key'[c] = k /\ flight'[c] = flights + 1
  BY <1>3 DEF OthersKept, IInv, Typed
<1>6. OwnersApart'
  <2>1. ASSUME NEW d \in Callers, pc'[d] = "owns"
        PROVE  key'[d] \in Keys /\ flight'[d] \in 1..flights' /\ (d # c => flight'[d] # flights + 1)
    BY <2>1, <1>2, <1>5 DEF IInv, Typed, OwnersApart, OthersKept
  <2>2. ASSUME NEW d \in Callers, NEW e \in Callers,
               pc'[d] = "owns", pc'[e] = "owns", flight'[d] = flight'[e]
        PROVE  d = e
    <3>1. CASE d # c /\ e # c
      BY <2>2, <3>1, <1>5 DEF IInv, OwnersApart, OthersKept
    <3>2. CASE d = c \/ e = c
      BY <2>1, <2>2, <3>2, <1>5
    <3> QED BY <3>1, <3>2
  <2> QED BY <2>1, <2>2 DEF OwnersApart
<1>7. EntriesOwned'
  <2> SUFFICES ASSUME NEW j \in Keys, NEW f \in Flight, Holds(j, f)',
                      state'[f] \in {"running", "rejected"}
               PROVE  \E d \in Callers : Owns(d, j, f)'
    BY DEF EntriesOwned
  <2>1. CASE j = k /\ f = flights + 1
    BY <2>1, <1>5 DEF Owns
  <2>2. CASE Holds(j, f)
    <3>1. f <= flights /\ state[f] = state'[f]
      BY <2>2, <1>2 DEF IInv, FlightsNumbered, Typed, Flight
    <3>2. PICK d \in Callers : Owns(d, j, f)
      BY <2>2, <3>1 DEF IInv, EntriesOwned
    <3> QED BY <3>2, <1>3, <1>5 DEF Owns, OthersKept
  <2> QED BY <2>1, <2>2, <1>2
<1>8. OwnersFound'
  <2> SUFFICES ASSUME NEW d \in Callers, pc'[d] = "owns", key'[d] \notin displaced'
               PROVE  Found(key[d])' = flight'[d]
    BY DEF OwnersFound
  <2>1. CASE d = c
    BY <2>1, <1>2, <1>5 DEF Found
  <2>2. CASE d # c
    <3>1. pc[d] = "owns" /\ key'[d] = key[d] /\ flight'[d] = flight[d]
      BY <2>2, <1>5 DEF OthersKept
    <3>2. key[d] \notin displaced \cup Displaced
      BY <3>1, <1>1
    <3> QED BY <3>1, <3>2, KeptOwnerFound
  <2> QED BY <2>1, <2>2
<1> QED BY <1>2, <1>4, <1>6, <1>7, <1>8 DEF IInv

\* Another user of the cache stores a settled promise.
LEMMA PrimeOK ==
  ASSUME IInv, NEW k \in Keys, Prime(k)
  PROVE  IInv'
<1> USE FlightAssumption
<1>1. /\ Launch("fulfilled") /\ Set(k, flights + 1)
      /\ displaced' = displaced \cup Displaced
      /\ pc' = pc /\ key' = key /\ flight' = flight
  BY DEF Prime, callerVars
<1>2. /\ cache' \in [Keys -> Optional] /\ old' \in [Keys -> Optional]
      /\ contents' \in [Keys -> Optional]
      /\ flights' = flights + 1 /\ flights' \in 1..MaxFlights
      /\ state' = [state EXCEPT ![flights + 1] = "fulfilled"]
      /\ state' \in [Flight -> {"unused", "running"} \cup Settled]
      /\ \A j \in Keys, f \in Flight : Holds(j, f)' => Holds(j, f) \/ (j = k /\ f = flights + 1)
      /\ FlightsNumbered'
  BY <1>1, LaunchOK
<1>3. Typed'
  BY <1>1, <1>2 DEF IInv, Typed
<1>4. OwnersApart'
  BY <1>1, <1>2 DEF IInv, Typed, OwnersApart
<1>5. EntriesOwned'
  <2> SUFFICES ASSUME NEW j \in Keys, NEW f \in Flight, Holds(j, f)',
                      state'[f] \in {"running", "rejected"}
               PROVE  \E d \in Callers : Owns(d, j, f)'
    BY DEF EntriesOwned
  <2>1. f # flights + 1
    BY <1>2 DEF IInv, Typed
  <2>2. Holds(j, f) /\ state[f] = state'[f]
    BY <1>2, <2>1 DEF IInv, Typed
  <2>3. PICK d \in Callers : Owns(d, j, f)
    BY <2>2 DEF IInv, EntriesOwned
  <2> QED BY <2>3, <1>1 DEF Owns
<1>6. OwnersFound'
  <2> SUFFICES ASSUME NEW d \in Callers, pc'[d] = "owns", key'[d] \notin displaced'
               PROVE  Found(key[d])' = flight'[d]
    BY DEF OwnersFound
  <2> QED BY <1>1, KeptOwnerFound
<1> QED BY <1>2, <1>3, <1>4, <1>5, <1>6 DEF IInv

\* Another user of the cache removes an entry: its owner has nothing to do there.
LEMMA InvalidateOK ==
  ASSUME IInv, NEW k \in Keys, Invalidate(k)
  PROVE  IInv'
<1>1. /\ cache' \in [Keys -> Optional] /\ old' \in [Keys -> Optional]
      /\ contents' \in [Keys -> Optional]
      /\ \A f \in Values : ~Holds(k, f)'
      /\ Keeps({})
      /\ \A j \in Keys \ {k} : Found(j)' = Found(j)
  BY UnsetKeeps DEF Invalidate, IInv
<1>2. /\ pc' = pc /\ key' = key /\ flight' = flight /\ state' = state /\ flights' = flights
      /\ displaced' = displaced \cup {k}
  BY DEF Invalidate, callerVars
<1>3. Typed' /\ OwnersApart'
  BY <1>1, <1>2 DEF IInv, Typed, OwnersApart
<1>4. FlightsNumbered' /\ EntriesOwned'
  BY <1>1, <1>2, FlightAssumption
     DEF IInv, FlightsNumbered, EntriesOwned, Owns, Keeps, Flight
<1>5. OwnersFound'
  <2> SUFFICES ASSUME NEW d \in Callers, pc'[d] = "owns", key'[d] \notin displaced'
               PROVE  Found(key[d])' = flight'[d]
    BY DEF OwnersFound
  <2>1. key[d] \in Keys \ {k} /\ Found(key[d]) = flight[d]
    BY <1>2 DEF IInv, OwnersApart, OwnersFound
  <2> QED BY <1>1, <1>2, <2>1 DEF Found
<1> QED BY <1>3, <1>4, <1>5 DEF IInv

\* The owner of a rejected promise takes it out, with whatever came in its place.
LEMMA OwnerFailsOK ==
  ASSUME IInv, NEW c \in Callers, OwnerFails(c)
  PROVE  IInv'
<1>1. PICK k \in Keys : k = key[c] /\ pc[c] = "owns" /\ Unset(k)
  BY DEF OwnerFails, IInv, OwnersApart
<1>2. /\ key' = key /\ flight' = flight /\ state' = state /\ flights' = flights
      /\ displaced' = displaced /\ pc' = [pc EXCEPT ![c] = "answered"]
  BY DEF OwnerFails, Answer
<1>3. /\ cache' \in [Keys -> Optional] /\ old' \in [Keys -> Optional]
      /\ contents' \in [Keys -> Optional]
      /\ \A f \in Values : ~Holds(k, f)'
      /\ Keeps({})
      /\ \A j \in Keys \ {k} : Found(j)' = Found(j)
  BY <1>1, UnsetKeeps DEF IInv
<1>4. Typed'
  BY <1>2, <1>3 DEF IInv, Typed
<1>5. pc'[c] = "answered" /\ \A d \in Callers : pc'[d] = "owns" => d # c /\ pc[d] = "owns"
  BY <1>2 DEF IInv, Typed
<1>6. OwnersApart' /\ FlightsNumbered'
  BY <1>2, <1>3, <1>5, FlightAssumption
     DEF IInv, OwnersApart, FlightsNumbered, Keeps, Flight
<1>7. EntriesOwned'
  <2> SUFFICES ASSUME NEW j \in Keys, NEW f \in Flight, Holds(j, f)',
                      state'[f] \in {"running", "rejected"}
               PROVE  \E d \in Callers : Owns(d, j, f)'
    BY DEF EntriesOwned
  <2>1. Holds(j, f) /\ j # k /\ state[f] \in {"running", "rejected"}
    BY <1>2, <1>3, FlightAssumption DEF Keeps, Flight
  <2>2. PICK d \in Callers : Owns(d, j, f)
    BY <2>1 DEF IInv, EntriesOwned
  <2>3. d # c
    BY <1>1, <2>1, <2>2 DEF Owns
  <2> QED BY <1>2, <2>2, <2>3 DEF Owns, IInv, Typed
<1>8. OwnersFound'
  <2> SUFFICES ASSUME NEW d \in Callers, pc'[d] = "owns", key'[d] \notin displaced'
               PROVE  Found(key[d])' = flight'[d]
    BY DEF OwnersFound
  <2>1. d # c /\ pc[d] = "owns"
    BY <1>5
  <2>2. key[d] \in Keys /\ Found(key[d]) = flight[d]
    BY <1>2, <2>1 DEF IInv, OwnersApart, OwnersFound
  <2>3. key[d] # k
    \* Else the key has two owners and lookups find the promise of both.
    BY <1>1, <1>2, <2>1, <2>2 DEF IInv, OwnersApart, OwnersFound
  <2> QED BY <1>2, <1>3, <2>2, <2>3 DEF Found
<1> QED BY <1>4, <1>6, <1>7, <1>8 DEF IInv

\* The steps that leave the cache alone: a promise settles, and the answers that
\* follow a promise that did not fail its owner.
LEMMA OtherStepsOK ==
  ASSUME IInv,
         \/ \E c \in Callers, k \in Keys : ProducerThrows(c, k)
         \/ \E c \in Callers : OwnerSucceeds(c) \/ JoinerAnswers(c)
         \/ \E f \in Flight, s \in Settled : FlightSettles(f, s)
         \/ UNCHANGED vars
  PROVE  IInv'
<1>1. /\ cache' = cache /\ old' = old /\ contents' = contents
      /\ flights' = flights /\ displaced' = displaced
  BY DEF ProducerThrows, OwnerSucceeds, JoinerAnswers, Answer, FlightSettles,
         vars, lruVars, useVars, callerVars
<1>2. ASSUME NEW c \in Callers, NEW k \in Keys, ProducerThrows(c, k)
      PROVE  IInv'
  <2>1. /\ pc[c] = "idle" /\ pc' = [pc EXCEPT ![c] = "threw"]
        /\ key' = [key EXCEPT ![c] = k] /\ flight' = [flight EXCEPT ![c] = 0]
        /\ state' = state
    BY <1>2 DEF ProducerThrows, Waits
  <2>2. Typed'
    BY <1>1, <2>1, FlightAssumption DEF IInv, Typed
  <2>3. OthersKept(c) /\ pc'[c] = "threw"
    BY <2>1 DEF OthersKept, IInv, Typed
  <2>4. FlightsNumbered' /\ OwnersApart' /\ EntriesOwned'
    BY <1>1, <2>1, <2>3
       DEF IInv, FlightsNumbered, OwnersApart, EntriesOwned, OthersKept, Owns, Holds
  <2>5. OwnersFound'
    BY <1>1, <2>3 DEF IInv, OwnersFound, OthersKept, Found
  <2> QED BY <2>2, <2>4, <2>5 DEF IInv
<1>3. ASSUME NEW c \in Callers, OwnerSucceeds(c) \/ JoinerAnswers(c)
      PROVE  IInv'
  <2>1. /\ pc' = [pc EXCEPT ![c] = "answered"] /\ key' = key /\ flight' = flight
        /\ state' = state /\ (pc[c] = "owns" => state[flight[c]] = "fulfilled")
    BY <1>3 DEF OwnerSucceeds, JoinerAnswers, Answer
  <2>2. Typed'
    BY <1>1, <2>1 DEF IInv, Typed
  <2>3. \A d \in Callers : IF d = c THEN pc'[d] = "answered" ELSE pc'[d] = pc[d]
    BY <2>1 DEF IInv, Typed
  <2>4. FlightsNumbered' /\ OwnersApart' /\ EntriesOwned'
    BY <1>1, <2>1, <2>3
       DEF IInv, FlightsNumbered, OwnersApart, EntriesOwned, Owns, Holds
  <2>5. OwnersFound'
    BY <1>1, <2>1, <2>3 DEF IInv, OwnersFound, Found
  <2> QED BY <2>2, <2>4, <2>5 DEF IInv
<1>4. ASSUME NEW f \in Flight, NEW s \in Settled, FlightSettles(f, s)
      PROVE  IInv'
  <2>1. /\ state[f] = "running" /\ state' = [state EXCEPT ![f] = s]
        /\ pc' = pc /\ key' = key /\ flight' = flight
    BY <1>4 DEF FlightSettles, callerVars
  <2>2. Typed'
    BY <1>1, <2>1 DEF IInv, Typed
  <2>3. \A g \in Flight : state'[g] # state[g] => g = f
    BY <2>1 DEF IInv, Typed
  <2>4. FlightsNumbered' /\ OwnersApart'
    BY <1>1, <2>1, <2>3 DEF IInv, FlightsNumbered, OwnersApart, Holds
  <2>5. EntriesOwned'
    BY <1>1, <2>1, <2>3 DEF IInv, EntriesOwned, Owns, Holds
  <2>6. OwnersFound'
    BY <1>1, <2>1 DEF IInv, OwnersFound, Found
  <2> QED BY <2>2, <2>4, <2>5, <2>6 DEF IInv
<1>5. CASE UNCHANGED vars
  BY <1>5 DEF vars, lruVars, useVars, callerVars, IInv, Typed, FlightsNumbered,
     OwnersApart, EntriesOwned, OwnersFound, Owns, Holds, Found
<1> QED BY <1>2, <1>3, <1>4, <1>5

\* Every step keeps the invariant.
LEMMA StepHolds == IInv /\ [Next]_vars => IInv'
<1> SUFFICES ASSUME IInv, [Next]_vars PROVE IInv'
  OBVIOUS
<1>1. ASSUME NEW c \in Callers, CallerStep(c) PROVE IInv'
  <2>1. ASSUME NEW k \in Keys, Join(c, k) PROVE IInv'
    BY <2>1, JoinOK
  <2>2. ASSUME NEW k \in Keys, Produce(c, k) PROVE IInv'
    BY <2>2, ProduceOK
  <2>3. CASE OwnerFails(c)
    BY <2>3, OwnerFailsOK
  <2>4. CASE (\E k \in Keys : ProducerThrows(c, k)) \/ OwnerSucceeds(c) \/ JoinerAnswers(c)
    BY <2>4, OtherStepsOK
  <2> QED BY <1>1, <2>1, <2>2, <2>3, <2>4 DEF CallerStep
<1>2. ASSUME NEW k \in Keys, Invalidate(k) \/ Prime(k) PROVE IInv'
  BY <1>2, InvalidateOK, PrimeOK
<1>3. CASE (\E f \in Flight, s \in Settled : FlightSettles(f, s)) \/ UNCHANGED vars
  BY <1>3, OtherStepsOK
<1> QED BY <1>1, <1>2, <1>3 DEF Next

\* The invariant holds always.
LEMMA CacheInvariance == Spec => []IInv
  BY InitHolds, StepHolds, PTL DEF Spec

\* A failed promise is in no generation of the cache without its owner on the way
\* to take it out, whatever the number of callers and the size of the cache
\* (cache.ts:31-36).
THEOREM FailuresLeaveTheCache == Spec => []FailureIsNotCached
<1>1. IInv => FailureIsNotCached
  BY DEF IInv, EntriesOwned, FailureIsNotCached, Owns, Holds
<1> QED BY <1>1, CacheInvariance, PTL

\* One producer runs for a key that nobody else disturbs (cache.ts:24-30).
THEOREM ProducersAreShared == Spec => []OneProducerPerKey
<1>1. IInv => OneProducerPerKey
  BY DEF IInv, OwnersApart, OwnersFound, OneProducerPerKey
<1> QED BY <1>1, CacheInvariance, PTL
------------------------------------------------------------------------------
(***************************************************************************)
(* The cache implements CacheStore: what a lookup finds is the store.      *)
(***************************************************************************)
found == [k \in Keys |-> Found(k)]

\* The store has the keys and values it should have, before a step and after it.
LEMMA FoundType ==
  ASSUME cache \in [Keys -> Optional], old \in [Keys -> Optional]
  PROVE  found \in [Keys -> Optional]
  BY DEF found, Found

\* The same after a step.
LEMMA FoundTypeNext ==
  ASSUME cache' \in [Keys -> Optional], old' \in [Keys -> Optional]
  PROVE  found' \in [Keys -> Optional]
  BY DEF found, Found

\* Lookups of other keys find what they found or nothing.
LEMMA OthersForgotten ==
  ASSUME NEW K \in SUBSET Keys, Keeps(K)
  PROVE  \A j \in Keys \ K : found'[j] \in {found[j], None}
  BY DEF Keeps, found, Found

\* set() is a Store.
LEMMA SetIsStore ==
  ASSUME Typed, NEW k \in Keys, NEW v \in Values, Set(k, v)
  PROVE  Store!Store(k, v)
<1>1. /\ cache' \in [Keys -> Optional] /\ old' \in [Keys -> Optional]
      /\ contents' = [contents EXCEPT ![k] = v]
      /\ Found(k)' = v /\ Keeps({k})
  BY SetKeeps
<1>2. found' \in [Keys -> Optional] /\ found'[k] = v
  BY <1>1, FoundTypeNext DEF found, Found
<1>3. \A j \in Keys \ {k} : found'[j] \in {found[j], None}
  BY <1>1, OthersForgotten
<1> QED BY <1>1, <1>2, <1>3 DEF Store!Store, Store!MayForgetBut, found, Optional

\* get() is a Lookup.
LEMMA GetIsLookup ==
  ASSUME Typed, NEW k \in Keys, Get(k)
  PROVE  Store!Lookup(k)
<1>1. /\ cache' \in [Keys -> Optional] /\ old' \in [Keys -> Optional]
      /\ contents' = contents
      /\ Found(k)' = Found(k) /\ Keeps({})
  BY GetKeeps
<1>2. found' \in [Keys -> Optional] /\ found'[k] = found[k]
  BY <1>1, FoundTypeNext DEF found, Found
<1>3. \A j \in Keys \ {} : found'[j] \in {found[j], None}
  BY <1>1, OthersForgotten
<1> QED BY <1>1, <1>2, <1>3 DEF Store!Lookup, Store!MayForgetBut, found, Optional

\* unset() is a Remove.
LEMMA UnsetIsRemove ==
  ASSUME Typed, NEW k \in Keys, Unset(k)
  PROVE  Store!Remove(k)
<1>1. /\ contents' = [contents EXCEPT ![k] = None]
      /\ Found(k)' = None
      /\ \A j \in Keys \ {k} : Found(j)' = Found(j)
  BY UnsetKeeps
<1>2. found' = [found EXCEPT ![k] = None]
  BY <1>1 DEF found, Found
<1> QED BY <1>1, <1>2 DEF Store!Remove, found

\* Every step of the callers is one use of the cache or leaves it alone.
LEMMA StoreStep == IInv /\ [Next]_vars => [Store!Next]_<<contents, found>>
<1> SUFFICES ASSUME IInv, [Next]_vars
             PROVE  Store!Next \/ (contents' = contents /\ found' = found)
  OBVIOUS
<1>1. Typed
  BY DEF IInv
<1>2. ASSUME NEW k \in Keys, \/ Get(k) \/ Unset(k) \/ (\E v \in Values : Set(k, v))
      PROVE  Store!Next
  BY <1>1, <1>2, SetIsStore, GetIsLookup, UnsetIsRemove DEF Store!Next
<1>3. CASE UNCHANGED lruVars
  BY <1>3 DEF lruVars, useVars, found, Found
<1>4. ASSUME NEW s \in {"running", "fulfilled"}, Launch(s)
      PROVE  flights + 1 \in Values
  BY <1>1, <1>4, FlightAssumption DEF Launch, Typed
<1>5. ASSUME NEW c \in Callers, CallerStep(c)
      PROVE  Store!Next \/ UNCHANGED lruVars
  <2>1. ASSUME NEW k \in Keys, Join(c, k) PROVE Store!Next
    BY <1>2, <2>1 DEF Join
  <2>2. ASSUME NEW k \in Keys, Produce(c, k) PROVE Store!Next
    BY <1>2, <1>4, <2>2 DEF Produce
  <2>3. CASE OwnerFails(c)
    <3>1. key[c] \in Keys /\ Unset(key[c])
      BY <2>3 DEF OwnerFails, IInv, OwnersApart
    <3> QED BY <1>2, <3>1
  <2>4. CASE (\E k \in Keys : ProducerThrows(c, k)) \/ OwnerSucceeds(c) \/ JoinerAnswers(c)
    BY <2>4 DEF ProducerThrows, OwnerSucceeds, JoinerAnswers
  <2> QED BY <1>5, <2>1, <2>2, <2>3, <2>4 DEF CallerStep
<1>6. ASSUME NEW k \in Keys, Invalidate(k) \/ Prime(k)
      PROVE  Store!Next
  BY <1>2, <1>4, <1>6 DEF Invalidate, Prime
<1>7. CASE (\E f \in Flight, s \in Settled : FlightSettles(f, s)) \/ UNCHANGED vars
  BY <1>3, <1>7 DEF FlightSettles, vars
<1> QED BY <1>3, <1>5, <1>6, <1>7 DEF Next

\* Whoever uses the cache, it never serves a value that was replaced, removed or
\* forgotten (lru.ts:41-71), whatever maxSize.
THEOREM CacheImplementsStore == Spec => ImplementsStore
<1>1. Init => Store!Init
  BY DEF Init, LruInit, Empty, Store!Init, Found
<1>2. IInv /\ [Next]_vars => [Store!Next]_<<contents, [k \in Keys |-> Found(k)]>>
  BY StoreStep DEF found
<1> QED BY <1>1, <1>2, CacheInvariance, PTL DEF Spec, ImplementsStore, Store!Spec
------------------------------------------------------------------------------
(***************************************************************************)
(* What the cache evicts.  The keys in a first part of `recent` were used  *)
(* since the generations changed last, so they are in the young one unless *)
(* they were unset; those of another part were used since the change       *)
(* before, and as maxSize entries made that change they are enough.        *)
(***************************************************************************)
\* The n keys used last.
LastUsed(n) == {recent[i] : i \in 1..n}

\* A lookup finds nothing but what was set last.
FoundIsCurrent == \A k \in Keys : Found(k) \in {None, contents[k]}

\* The keys used since the generations changed last.
YoungAre(p) ==
  /\ Entries(cache) \subseteq LastUsed(p)
  /\ \A k \in LastUsed(p) : cache[k] = contents[k]

RecentInv ==
  \E p, q \in 0..Len(recent) :
    /\ YoungAre(p)
    /\ q >= MaxSize \/ q = Len(recent)
    /\ \A k \in LastUsed(p) \cup LastUsed(q) : Found(k) = contents[k]

LruInv == LruTypeOK /\ FoundIsCurrent /\ RecentInv

\* A used key joins the keys used last, however many of them are looked at.
LEMMA UsedJoins ==
  ASSUME recent \in Seq(Keys), NEW k \in Keys, Used(k)
  PROVE  /\ recent' \in Seq(Keys)
         /\ \A p \in 0..Len(recent) :
              \E r \in 0..Len(recent') :
                /\ r >= p
                /\ p = Len(recent) => r = Len(recent')
                /\ LastUsed(r)' = LastUsed(p) \cup {k}
<1>1. PICK i \in 1..(Len(recent) + 1) :
        /\ \A j \in 1..(i - 1) : recent[j] # k
        /\ i <= Len(recent) => recent[i] = k
        /\ recent' = [j \in 1..(IF i > Len(recent) THEN i ELSE Len(recent)) |->
                        IF j = 1 THEN k ELSE IF j <= i THEN recent[j - 1] ELSE recent[j]]
  BY DEF Used
<1> DEFINE n == Len(recent)
           m == IF i > n THEN i ELSE n
<1>2. /\ n \in Nat /\ i \in Nat /\ i >= 1 /\ m \in Nat /\ m >= 1 /\ n <= m
      /\ i <= n => m = n
      /\ i > n => i = n + 1 /\ m = n + 1
  OBVIOUS
<1>3. \A j \in 1..n : recent[j] \in Keys
  OBVIOUS
<1>4. recent' = [j \in 1..m |-> IF j = 1 THEN k ELSE IF j <= i THEN recent[j - 1] ELSE recent[j]]
  BY <1>1
<1>5. /\ recent'[1] = k
      /\ \A j \in 1..m : j > 1 /\ j <= i => recent'[j] = recent[j - 1] /\ j - 1 \in 1..n
      /\ \A j \in 1..m : j > i => recent'[j] = recent[j] /\ j \in 1..n
  <2> HIDE DEF n, m
  <2>1. \A j \in 1..m : j > 1 /\ j <= i => j - 1 \in 1..n
    BY <1>2
  <2>2. \A j \in 1..m : j > i => j \in 1..n /\ j > 1
    BY <1>2
  <2> QED BY <1>2, <1>4, <2>1, <2>2
<1>6. recent' \in [1..m -> Keys] /\ m \in Nat
  <2> HIDE DEF n, m
  <2>1. ASSUME NEW j \in 1..m
        PROVE  (IF j = 1 THEN k ELSE IF j <= i THEN recent[j - 1] ELSE recent[j]) \in Keys
    <3>1. (j > 1 /\ j <= i => j - 1 \in 1..n) /\ (j > i => j \in 1..n)
      BY <1>2
    <3>2. j = 1 \/ j > 1
      OBVIOUS
    <3>3. j <= i \/ j > i
      BY <1>2
    <3> QED BY <1>3, <3>1, <3>2, <3>3
  <2> QED BY <1>2, <1>4, <2>1
<1>7. recent' \in Seq(Keys) /\ Len(recent') = m
  <2> HIDE DEF n, m
  <2> QED BY <1>6
<1> HIDE DEF n, m
<1>8. ASSUME NEW p \in 0..n
      PROVE  \E r \in 0..m : /\ r >= p
                             /\ p = n => r = m
                             /\ LastUsed(r)' = LastUsed(p) \cup {k}
  <2> DEFINE r == IF i <= p THEN p ELSE p + 1
  <2>1. /\ r \in 0..m /\ r >= p /\ r >= 1 /\ (p = n => r = m)
        /\ (i <= p => r = p) /\ (i > p => r = p + 1 /\ r <= i)
    BY <1>2
  <2> HIDE DEF r
  <2>2. ASSUME NEW x \in LastUsed(r)' PROVE x \in LastUsed(p) \cup {k}
    <3>1. PICK j \in 1..r : x = recent'[j]
      BY DEF LastUsed
    <3>2. CASE j = 1
      BY <1>5, <3>1, <3>2
    <3>3. CASE j > 1 /\ j <= i
      <4>1. x = recent[j - 1] /\ j - 1 \in 1..p
        BY <1>2, <1>5, <2>1, <3>1, <3>3
      <4> QED BY <4>1 DEF LastUsed
    <3>4. CASE j > i
      <4>1. x = recent[j] /\ j \in 1..p
        BY <1>2, <1>5, <2>1, <3>1, <3>4
      <4> QED BY <4>1 DEF LastUsed
    <3> QED BY <1>2, <3>2, <3>3, <3>4
  <2>3. k \in LastUsed(r)'
    <3>1. 1 \in 1..r
      BY <2>1
    <3> QED BY <1>5, <3>1 DEF LastUsed
  <2>4. ASSUME NEW x \in LastUsed(p) PROVE x \in LastUsed(r)'
    <3>1. PICK j \in 1..p : x = recent[j]
      BY DEF LastUsed
    <3>2. CASE j < i
      <4>1. j + 1 \in 1..r /\ recent'[j + 1] = recent[j]
        BY <1>2, <1>5, <2>1, <3>2
      <4> QED BY <3>1, <4>1 DEF LastUsed
    <3>3. CASE j = i
      <4>1. x = k
        BY <1>1, <1>2, <3>1, <3>3 DEF n
      <4> QED BY <2>3, <4>1
    <3>4. CASE j > i
      <4>1. j \in 1..r /\ recent'[j] = recent[j]
        BY <1>2, <1>5, <2>1, <3>4
      <4> QED BY <3>1, <4>1 DEF LastUsed
    <3> QED BY <1>2, <3>2, <3>3, <3>4
  <2>5. LastUsed(r)' = LastUsed(p) \cup {k}
    BY <2>2, <2>3, <2>4
  <2> QED BY <2>1, <2>5
<1> QED BY <1>7, <1>8 DEF n

\* A list has no more entries than places, also a first part of it.
LEMMA PrefixFinite ==
  ASSUME NEW s \in Seq(Keys), NEW n \in 0..Len(s)
  PROVE  LET S == {s[i] : i \in 1..n} IN
         /\ S \subseteq Keys
         /\ IsFiniteSet(S) /\ Cardinality(S) \in Nat /\ Cardinality(S) <= n
<1> DEFINE f == [i \in 1..n |-> s[i]]
           S == {s[i] : i \in 1..n}
<1>1. n \in Nat /\ 1..n \subseteq 1..Len(s)
  OBVIOUS
<1>2. S \subseteq Keys
  BY <1>1
<1>3. f \in Surjection(1..n, S)
  BY DEF Surjection
<1>4. ExistsSurjection(1..n, S)
  BY <1>3 DEF ExistsSurjection
<1> HIDE DEF S
<1>5. Cardinality(S) <= n
  BY <1>1, <1>4, FS_SurjCardinalityBound
<1>6. IsFiniteSet(S)
  BY <1>2, CacheAssumption, FS_Subset
<1>7. Cardinality(S) \in Nat
  BY <1>6, FS_CardinalityType
<1> QED BY <1>2, <1>5, <1>6, <1>7 DEF S

\* The entries of a generation can be counted.
LEMMA EntriesFinite ==
  ASSUME NEW gen
  PROVE  /\ Entries(gen) \subseteq Keys
         /\ IsFiniteSet(Entries(gen)) /\ Cardinality(Entries(gen)) \in Nat
<1>1. Entries(gen) \subseteq Keys
  BY DEF Entries
<1>2. IsFiniteSet(Entries(gen))
  BY <1>1, CacheAssumption, FS_Subset
<1> QED BY <1>1, <1>2, FS_CardinalityType

\* The generations' entries, one more or one fewer.
LEMMA EntriesPlus ==
  ASSUME NEW gen \in [Keys -> Optional], NEW k \in Keys, NEW v \in Values
  PROVE  /\ Entries([gen EXCEPT ![k] = v]) = Entries(gen) \cup {k}
         /\ gen[k] = None =>
              Cardinality(Entries([gen EXCEPT ![k] = v])) = Cardinality(Entries(gen)) + 1
         /\ gen[k] # None => Entries([gen EXCEPT ![k] = v]) = Entries(gen)
<1>1. Entries([gen EXCEPT ![k] = v]) = Entries(gen) \cup {k}
  BY CacheAssumption DEF Entries
<1>2. k \in Entries(gen) <=> gen[k] # None
  BY DEF Entries
<1>3. Cardinality(Entries(gen) \cup {k}) =
        IF k \in Entries(gen) THEN Cardinality(Entries(gen)) ELSE Cardinality(Entries(gen)) + 1
  BY EntriesFinite, FS_AddElement
<1>4. gen[k] # None => Entries(gen) \cup {k} = Entries(gen)
  BY <1>2
<1> QED BY <1>1, <1>2, <1>3, <1>4

\* An entry that is taken out.
LEMMA EntriesMinus ==
  ASSUME NEW gen \in [Keys -> Optional], NEW k \in Keys
  PROVE  /\ Entries([gen EXCEPT ![k] = None]) = Entries(gen) \ {k}
         /\ Cardinality(Entries([gen EXCEPT ![k] = None])) =
              IF gen[k] # None THEN Cardinality(Entries(gen)) - 1 ELSE Cardinality(Entries(gen))
<1>1. Entries([gen EXCEPT ![k] = None]) = Entries(gen) \ {k}
  BY DEF Entries
<1>2. k \in Entries(gen) <=> gen[k] # None
  BY DEF Entries
<1>3. Cardinality(Entries(gen) \ {k}) =
        IF k \in Entries(gen) THEN Cardinality(Entries(gen)) - 1 ELSE Cardinality(Entries(gen))
  BY EntriesFinite, FS_RemoveElement
<1> QED BY <1>1, <1>2, <1>3

\* _set() keeps the counter right and the generations within their bounds.
LEMMA PutNewCounts ==
  ASSUME LruTypeOK, NEW k \in Keys, NEW v \in Values, cache[k] = None, PutNew(k, v)
  PROVE  /\ cache' \in [Keys -> Optional] /\ old' \in [Keys -> Optional]
         /\ size' \in Nat /\ WithinTwiceMaxSize'
<1>1. /\ cache \in [Keys -> Optional] /\ old \in [Keys -> Optional]
      /\ size \in Nat /\ size = Cardinality(Entries(cache)) /\ size < MaxSize
      /\ Cardinality(Entries(old)) <= MaxSize
      /\ MaxSize \in Nat /\ MaxSize >= 1
  BY CacheAssumption DEF LruTypeOK, WithinTwiceMaxSize, Optional
<1>2. v \in Optional /\ None \in Optional
  BY DEF Optional
<1>3. Empty \in [Keys -> Optional] /\ Entries(Empty) = {}
  BY <1>2 DEF Empty, Entries
<1>4. Cardinality(Entries([cache EXCEPT ![k] = v])) = size + 1
  BY <1>1, EntriesPlus
<1>5. CASE size + 1 >= MaxSize /\ size' = 0 /\ old' = [cache EXCEPT ![k] = v] /\ cache' = Empty
  <2>1. Cardinality(Entries(cache')) = 0
    BY <1>3, <1>5, FS_EmptySet
  <2>2. Cardinality(Entries(old')) = size + 1
    BY <1>4, <1>5
  <2> QED BY <1>1, <1>2, <1>3, <1>5, <2>1, <2>2 DEF WithinTwiceMaxSize
<1>6. CASE size + 1 < MaxSize /\ size' = size + 1 /\ cache' = [cache EXCEPT ![k] = v] /\ UNCHANGED old
  <2>1. Cardinality(Entries(cache')) = size + 1
    BY <1>4, <1>6
  <2> QED BY <1>1, <1>2, <1>6, <2>1 DEF WithinTwiceMaxSize
<1> QED BY <1>5, <1>6 DEF PutNew

\* A key whose entry is put into the cache as the contents say it is: the keys
\* used last stay, whether or not the generations change.
LEMMA PutNewRecent ==
  ASSUME LruInv, NEW k \in Keys, NEW v \in Values, cache[k] = None, PutNew(k, v),
         Used(k), contents' = [contents EXCEPT ![k] = v]
  PROVE  RecentInv' /\ FoundIsCurrent'
<1>1. /\ cache \in [Keys -> Optional] /\ old \in [Keys -> Optional]
      /\ contents \in [Keys -> Optional]
      /\ size \in Nat /\ size = Cardinality(Entries(cache)) /\ size < MaxSize
      /\ MaxSize \in Nat /\ MaxSize >= 1 /\ recent \in Seq(Keys)
      /\ v # None
  BY CacheAssumption DEF LruInv, LruTypeOK, WithinTwiceMaxSize, Optional
<1>2. PICK p \in 0..Len(recent), q \in 0..Len(recent) :
        /\ YoungAre(p)
        /\ q >= MaxSize \/ q = Len(recent)
        /\ \A j \in LastUsed(p) \cup LastUsed(q) : Found(j) = contents[j]
  BY DEF LruInv, RecentInv
<1>3. recent' \in Seq(Keys)
  BY <1>1, UsedJoins
<1>4. PICK r \in 0..Len(recent') : LastUsed(r)' = LastUsed(p) \cup {k}
  BY <1>1, UsedJoins
<1>5. PICK t \in 0..Len(recent') : /\ t >= q
                                   /\ q = Len(recent) => t = Len(recent')
                                   /\ LastUsed(t)' = LastUsed(q) \cup {k}
  BY <1>1, UsedJoins
<1>6. LastUsed(p) \subseteq Keys /\ LastUsed(q) \subseteq Keys
  BY <1>1, PrefixFinite DEF LastUsed
<1>7. contents'[k] = v /\ \A j \in Keys \ {k} : contents'[j] = contents[j]
  BY <1>1
<1>8. Entries([cache EXCEPT ![k] = v]) = Entries(cache) \cup {k}
      /\ Cardinality(Entries([cache EXCEPT ![k] = v])) = size + 1
  BY <1>1, EntriesPlus, ZenonT(40)
<1>9. FoundIsCurrent'
  BY <1>1, <1>7 DEF LruInv, FoundIsCurrent, PutNew, Found, Empty
<1>10. CASE size + 1 >= MaxSize /\ old' = [cache EXCEPT ![k] = v] /\ cache' = Empty
  <2>1. \A j \in LastUsed(r)' : Found(j)' = contents'[j]
    <3>1. \A j \in LastUsed(p) : cache[j] = contents[j]
      BY <1>2 DEF YoungAre
    <3>2. \A j \in Keys : Found(j)' = old'[j]
      BY <1>10 DEF Found, Empty
    <3> QED BY <1>1, <1>4, <1>6, <1>7, <1>10, <3>1, <3>2
  <2>2. LastUsed(0)' = {} /\ Entries(cache') = {}
    BY <1>10 DEF LastUsed, Entries, Empty
  <2>3. YoungAre(0)'
    BY <2>2 DEF YoungAre
  <2>4. r >= MaxSize
    <3>1. Entries(cache) \cup {k} \subseteq LastUsed(r)'
      BY <1>2, <1>4 DEF YoungAre
    <3>2. IsFiniteSet(LastUsed(r)') /\ Cardinality(LastUsed(r)') <= r /\ Cardinality(LastUsed(r)') \in Nat
      BY <1>3, PrefixFinite DEF LastUsed
    <3>3. Cardinality(Entries(cache) \cup {k}) <= Cardinality(LastUsed(r)')
      BY <3>1, <3>2, FS_Subset
    <3>4. Cardinality(Entries(cache) \cup {k}) = size + 1
      BY <1>8
    <3> QED BY <1>1, <1>10, <3>2, <3>3, <3>4
  <2>5. 0 \in 0..Len(recent')
    BY <1>3
  <2>6. \A j \in LastUsed(0)' \cup LastUsed(r)' : Found(j)' = contents'[j]
    BY <2>1, <2>2
  <2>7. RecentInv'
    BY <2>3, <2>4, <2>5, <2>6 DEF RecentInv
  <2> QED BY <1>9, <2>7
<1>11. CASE cache' = [cache EXCEPT ![k] = v] /\ UNCHANGED old
  <2>1. cache'[k] = v /\ \A j \in Keys \ {k} : cache'[j] = cache[j] /\ Found(j)' = Found(j)
    BY <1>1, <1>11 DEF Found
  <2>2. Found(k)' = v
    BY <1>1, <2>1 DEF Found
  <2>3. YoungAre(r)'
    <3>1. Entries(cache') \subseteq LastUsed(r)'
      BY <1>2, <1>4, <1>8, <1>11 DEF YoungAre
    <3>2. \A j \in LastUsed(r)' : cache'[j] = contents'[j]
      BY <1>2, <1>4, <1>6, <1>7, <2>1 DEF YoungAre
    <3> QED BY <3>1, <3>2 DEF YoungAre
  <2>4. \A j \in LastUsed(r)' \cup LastUsed(t)' : Found(j)' = contents'[j]
    BY <1>2, <1>4, <1>5, <1>6, <1>7, <2>1, <2>2
  <2>5. t >= MaxSize \/ t = Len(recent')
    BY <1>1, <1>2, <1>5
  <2>6. RecentInv'
    BY <2>3, <2>4, <2>5 DEF RecentInv
  <2> QED BY <1>9, <2>6
<1> QED BY <1>10, <1>11 DEF PutNew

\* set() evicts none of the keys used last.
LEMMA SetRecent ==
  ASSUME LruInv, NEW k \in Keys, NEW v \in Values, Set(k, v)
  PROVE  LruInv'
<1>1. /\ cache \in [Keys -> Optional] /\ old \in [Keys -> Optional]
      /\ contents \in [Keys -> Optional] /\ v \in Optional /\ v # None
      /\ recent \in Seq(Keys)
  BY CacheAssumption DEF LruInv, LruTypeOK, Optional
<1>2. contents' \in [Keys -> Optional] /\ recent' \in Seq(Keys)
  BY <1>1, UsedJoins DEF Set
<1>3. CASE cache[k] = None
  <2>1. PutNew(k, v) /\ Used(k) /\ contents' = [contents EXCEPT ![k] = v]
    BY <1>3 DEF Set
  <2>2. RecentInv' /\ FoundIsCurrent'
    BY <1>3, <2>1, PutNewRecent
  <2>3. /\ cache' \in [Keys -> Optional] /\ old' \in [Keys -> Optional]
        /\ size' \in Nat /\ WithinTwiceMaxSize'
    BY <1>3, <2>1, PutNewCounts DEF LruInv
  <2> QED BY <1>2, <2>2, <2>3 DEF LruInv, LruTypeOK, Optional
<1>4. CASE cache[k] # None
  <2>1. /\ cache' = [cache EXCEPT ![k] = v] /\ old' = old /\ size' = size
        /\ Used(k) /\ contents' = [contents EXCEPT ![k] = v]
    BY <1>4 DEF Set
  <2>2. Entries(cache') = Entries(cache)
    BY <1>1, <1>4, <2>1, EntriesPlus
  <2>3. LruTypeOK'
    BY <1>1, <1>2, <2>1, <2>2 DEF LruInv, LruTypeOK, WithinTwiceMaxSize, Optional
  <2>4. /\ cache'[k] = v /\ contents'[k] = v /\ Found(k)' = v
        /\ \A j \in Keys \ {k} : /\ cache'[j] = cache[j] /\ contents'[j] = contents[j]
                                /\ Found(j)' = Found(j)
    BY <1>1, <2>1 DEF Found
  <2>5. FoundIsCurrent'
    BY <2>4 DEF LruInv, FoundIsCurrent
  <2>6. PICK p \in 0..Len(recent), q \in 0..Len(recent) :
          /\ YoungAre(p)
          /\ q >= MaxSize \/ q = Len(recent)
          /\ \A j \in LastUsed(p) \cup LastUsed(q) : Found(j) = contents[j]
    BY DEF LruInv, RecentInv
  <2>7. PICK r \in 0..Len(recent') : LastUsed(r)' = LastUsed(p) \cup {k}
    BY <1>1, <2>1, UsedJoins
  <2>8. PICK t \in 0..Len(recent') : /\ t >= q
                                     /\ q = Len(recent) => t = Len(recent')
                                     /\ LastUsed(t)' = LastUsed(q) \cup {k}
    BY <1>1, <2>1, UsedJoins
  <2>9. LastUsed(p) \subseteq Keys /\ LastUsed(q) \subseteq Keys
    BY <1>1, PrefixFinite DEF LastUsed
  <2>10. YoungAre(r)'
    <3>1. Entries(cache') \subseteq LastUsed(r)'
      BY <2>2, <2>6, <2>7 DEF YoungAre
    <3>2. \A j \in LastUsed(r)' : cache'[j] = contents'[j]
      BY <2>4, <2>6, <2>7, <2>9 DEF YoungAre
    <3> QED BY <3>1, <3>2 DEF YoungAre
  <2>11. \A j \in LastUsed(r)' \cup LastUsed(t)' : Found(j)' = contents'[j]
    BY <2>4, <2>6, <2>7, <2>8, <2>9
  <2>12. t >= MaxSize \/ t = Len(recent')
    BY <2>6, <2>8, CacheAssumption
  <2>13. RecentInv'
    BY <2>10, <2>11, <2>12 DEF RecentInv
  <2> QED BY <2>3, <2>5, <2>13 DEF LruInv
<1> QED BY <1>3, <1>4

\* A use that changes no entry.
LEMMA UseRecent ==
  ASSUME LruInv, NEW k \in Keys, cache[k] # None, Used(k),
         UNCHANGED <<cache, old, size, contents>>
  PROVE  LruInv'
<1>1. recent \in Seq(Keys) /\ recent' \in Seq(Keys)
  BY UsedJoins DEF LruInv, LruTypeOK
<1>2. LruTypeOK' /\ FoundIsCurrent'
  BY <1>1 DEF LruInv, LruTypeOK, WithinTwiceMaxSize, FoundIsCurrent, Found, Entries
<1>3. PICK p \in 0..Len(recent), q \in 0..Len(recent) :
        /\ YoungAre(p)
        /\ q >= MaxSize \/ q = Len(recent)
        /\ \A j \in LastUsed(p) \cup LastUsed(q) : Found(j) = contents[j]
  BY DEF LruInv, RecentInv
<1>4. PICK r \in 0..Len(recent') : LastUsed(r)' = LastUsed(p) \cup {k}
  BY <1>1, UsedJoins
<1>5. PICK t \in 0..Len(recent') : /\ t >= q
                                   /\ q = Len(recent) => t = Len(recent')
                                   /\ LastUsed(t)' = LastUsed(q) \cup {k}
  BY <1>1, UsedJoins
<1>6. k \in LastUsed(p)
  BY <1>3 DEF YoungAre, Entries
<1>7. \A j : Found(j)' = Found(j)
  BY DEF Found
<1>8. YoungAre(r)'
  BY <1>3, <1>4, <1>6 DEF YoungAre, Entries
<1>9. \A j \in LastUsed(r)' \cup LastUsed(t)' : Found(j)' = contents'[j]
  BY <1>3, <1>4, <1>5, <1>6, <1>7
<1>10. t >= MaxSize \/ t = Len(recent')
  BY <1>3, <1>5, CacheAssumption
<1>11. RecentInv'
  BY <1>8, <1>9, <1>10 DEF RecentInv
<1> QED BY <1>2, <1>11 DEF LruInv

\* get() evicts none of the keys used last, also when it promotes an entry.
LEMMA GetRecent ==
  ASSUME LruInv, NEW k \in Keys, Get(k)
  PROVE  LruInv'
<1>1. CASE UNCHANGED lruVars
  BY <1>1 DEF lruVars, useVars, LruInv, LruTypeOK, WithinTwiceMaxSize, FoundIsCurrent,
              RecentInv, YoungAre, LastUsed, Found, Entries
<1>2. CASE cache[k] # None /\ Used(k) /\ UNCHANGED <<cache, old, size, contents>>
  BY <1>2, UseRecent
<1>3. CASE cache[k] = None /\ old[k] # None /\ PutNew(k, old[k]) /\ Used(k) /\ UNCHANGED contents
  <2>1. old[k] \in Values /\ contents[k] = old[k] /\ contents \in [Keys -> Optional]
    BY <1>3 DEF LruInv, LruTypeOK, FoundIsCurrent, Found, Optional
  <2>2. contents' = [contents EXCEPT ![k] = old[k]]
    BY <1>3, <2>1
  <2>3. RecentInv' /\ FoundIsCurrent'
    BY <1>3, <2>1, <2>2, PutNewRecent
  <2>4. /\ cache' \in [Keys -> Optional] /\ old' \in [Keys -> Optional]
        /\ size' \in Nat /\ WithinTwiceMaxSize'
    BY <1>3, <2>1, PutNewCounts DEF LruInv
  <2>5. recent' \in Seq(Keys)
    BY <1>3, UsedJoins DEF LruInv, LruTypeOK
  <2> QED BY <1>3, <2>1, <2>3, <2>4, <2>5 DEF LruInv, LruTypeOK, Optional
<1> QED BY <1>1, <1>2, <1>3 DEF Get

\* unset() takes the key out of the cache and of the contents.
LEMMA UnsetRecent ==
  ASSUME LruInv, NEW k \in Keys, Unset(k)
  PROVE  LruInv'
<1>1. /\ cache \in [Keys -> Optional] /\ old \in [Keys -> Optional]
      /\ contents \in [Keys -> Optional] /\ None \in Optional
      /\ recent' = recent /\ recent \in Seq(Keys)
      /\ size \in Nat /\ size = Cardinality(Entries(cache)) /\ size < MaxSize
      /\ Cardinality(Entries(old)) <= MaxSize /\ MaxSize \in Nat
  BY CacheAssumption DEF LruInv, LruTypeOK, WithinTwiceMaxSize, Optional, Unset
<1>2. /\ cache' = [cache EXCEPT ![k] = None] /\ old' = [old EXCEPT ![k] = None]
      /\ contents' = [contents EXCEPT ![k] = None]
      /\ size' = IF cache[k] # None THEN size - 1 ELSE size
  BY DEF Unset
<1>3. /\ Entries(cache') = Entries(cache) \ {k}
      /\ Cardinality(Entries(cache')) = IF cache[k] # None THEN size - 1 ELSE size
      /\ Cardinality(Entries(old')) \in Nat /\ Cardinality(Entries(old')) <= MaxSize
  <2>1. /\ Entries(cache') = Entries(cache) \ {k}
        /\ Cardinality(Entries(cache')) = IF cache[k] # None THEN size - 1 ELSE size
    BY <1>1, <1>2, EntriesMinus
  <2>2. Cardinality(Entries(old')) =
          IF old[k] # None THEN Cardinality(Entries(old)) - 1 ELSE Cardinality(Entries(old))
    BY <1>1, <1>2, EntriesMinus
  <2>3. Cardinality(Entries(old)) \in Nat /\ Cardinality(Entries(old')) \in Nat
    BY EntriesFinite
  <2> QED BY <1>1, <2>1, <2>2, <2>3
<1>4. cache[k] # None => size >= 1
  <2>1. cache[k] # None => size # 0
    <3>1. IsFiniteSet(Entries(cache))
      BY EntriesFinite
    <3>2. Cardinality(Entries(cache)) = 0 <=> Entries(cache) = {}
      BY <3>1, FS_EmptySet
    <3>3. cache[k] # None => k \in Entries(cache)
      BY DEF Entries
    <3> QED BY <1>1, <3>2, <3>3
  <2> QED BY <1>1, <2>1
<1>5. size' \in Nat /\ WithinTwiceMaxSize'
  <2>1. CASE cache[k] # None
    <3>1. size' = size - 1 /\ Cardinality(Entries(cache')) = size - 1
      BY <1>2, <1>3, <2>1
    <3> QED BY <1>1, <1>3, <1>4, <2>1, <3>1 DEF WithinTwiceMaxSize
  <2>2. CASE cache[k] = None
    <3>1. size' = size /\ Cardinality(Entries(cache')) = size
      BY <1>2, <1>3, <2>2
    <3> QED BY <1>1, <1>3, <3>1 DEF WithinTwiceMaxSize
  <2> QED BY <2>1, <2>2
<1>6. LruTypeOK'
  BY <1>1, <1>2, <1>5 DEF LruTypeOK, Optional
<1>7. /\ cache'[k] = None /\ contents'[k] = None /\ Found(k)' = None
      /\ \A j \in Keys \ {k} : /\ cache'[j] = cache[j] /\ contents'[j] = contents[j]
                              /\ Found(j)' = Found(j)
  BY <1>1, <1>2 DEF Found
<1>8. FoundIsCurrent'
  BY <1>7 DEF LruInv, FoundIsCurrent
<1>9. PICK p \in 0..Len(recent), q \in 0..Len(recent) :
        /\ YoungAre(p)
        /\ q >= MaxSize \/ q = Len(recent)
        /\ \A j \in LastUsed(p) \cup LastUsed(q) : Found(j) = contents[j]
  BY DEF LruInv, RecentInv
<1>10. \A n : LastUsed(n)' = LastUsed(n)
  BY <1>1 DEF LastUsed
<1>11. LastUsed(p) \subseteq Keys /\ LastUsed(q) \subseteq Keys
  BY <1>1, PrefixFinite DEF LastUsed
<1>12. YoungAre(p)'
  BY <1>3, <1>7, <1>9, <1>10, <1>11 DEF YoungAre
<1>13. \A j \in LastUsed(p)' \cup LastUsed(q)' : Found(j)' = contents'[j]
  BY <1>7, <1>9, <1>10, <1>11
<1>14. RecentInv'
  BY <1>1, <1>9, <1>12, <1>13 DEF RecentInv
<1> QED BY <1>6, <1>8, <1>14 DEF LruInv

\* Every step is one use of the cache or leaves it alone.
LEMMA LruStep == IInv /\ LruInv /\ [Next]_vars => LruInv'
<1> SUFFICES ASSUME IInv, LruInv, [Next]_vars PROVE LruInv'
  OBVIOUS
<1>1. Typed
  BY DEF IInv
<1>2. ASSUME NEW k \in Keys, \/ Get(k) \/ Unset(k) \/ (\E v \in Values : Set(k, v))
      PROVE  LruInv'
  BY <1>2, SetRecent, GetRecent, UnsetRecent
<1>3. ASSUME UNCHANGED lruVars PROVE LruInv'
  BY <1>3 DEF lruVars, useVars, LruInv, LruTypeOK, WithinTwiceMaxSize, FoundIsCurrent,
              RecentInv, YoungAre, LastUsed, Found, Entries
<1>4. ASSUME NEW s \in {"running", "fulfilled"}, Launch(s)
      PROVE  flights + 1 \in Values
  BY <1>1, <1>4, FlightAssumption DEF Launch, Typed
<1>5. ASSUME NEW c \in Callers, CallerStep(c)
      PROVE  LruInv'
  <2>1. ASSUME NEW k \in Keys, Join(c, k) PROVE LruInv'
    BY <1>2, <2>1 DEF Join
  <2>2. ASSUME NEW k \in Keys, Produce(c, k) PROVE LruInv'
    BY <1>2, <1>4, <2>2 DEF Produce
  <2>3. CASE OwnerFails(c)
    <3>1. key[c] \in Keys /\ Unset(key[c])
      BY <2>3 DEF OwnerFails, IInv, OwnersApart
    <3> QED BY <1>2, <3>1
  <2>4. CASE (\E k \in Keys : ProducerThrows(c, k)) \/ OwnerSucceeds(c) \/ JoinerAnswers(c)
    BY <1>3, <2>4 DEF ProducerThrows, OwnerSucceeds, JoinerAnswers
  <2> QED BY <1>5, <2>1, <2>2, <2>3, <2>4 DEF CallerStep
<1>6. ASSUME NEW k \in Keys, Invalidate(k) \/ Prime(k)
      PROVE  LruInv'
  BY <1>2, <1>4, <1>6 DEF Invalidate, Prime
<1>7. CASE (\E f \in Flight, s \in Settled : FlightSettles(f, s)) \/ UNCHANGED vars
  BY <1>3, <1>7 DEF FlightSettles, vars
<1> QED BY <1>5, <1>6, <1>7 DEF Next

\* The cache is as it should be, always.
LEMMA LruInvariance == Spec => [](IInv /\ LruInv)
<1>1. Init => LruInv
  <2> SUFFICES ASSUME Init PROVE LruInv
    OBVIOUS
  <2>1. cache = Empty /\ old = Empty /\ size = 0 /\ recent = <<>> /\ contents = Empty
    BY DEF Init, LruInit
  <2>2. Entries(cache) = {} /\ Entries(old) = {} /\ Cardinality({}) = 0
    BY <2>1, FS_EmptySet DEF Entries, Empty
  <2>3. /\ recent \in Seq(Keys) /\ Len(recent) = 0
        /\ Empty \in [Keys -> Values \cup {None}]
    BY <2>1 DEF Empty
  <2>4. LruTypeOK
    <3>1. MaxSize \in Nat /\ 0 < MaxSize /\ 0 <= MaxSize
      BY CacheAssumption
    <3>2. WithinTwiceMaxSize
      BY <2>1, <2>2, <3>1 DEF WithinTwiceMaxSize
    <3> QED BY <2>1, <2>3, <3>2 DEF LruTypeOK
  <2>5. FoundIsCurrent
    BY <2>1 DEF FoundIsCurrent, Found, Empty
  <2>6. LastUsed(0) = {} /\ YoungAre(0)
    BY <2>2 DEF LastUsed, YoungAre
  <2>7. RecentInv
    BY <2>3, <2>6 DEF RecentInv
  <2> QED BY <2>4, <2>5, <2>7 DEF LruInv
<1> QED BY <1>1, LruStep, CacheInvariance, PTL DEF Spec

\* The cache evicts none of the maxSize keys used last, however its generations
\* change and whatever is unset meanwhile (lru.ts:47-50, 76-80).
THEOREM RecentlyUsedAreKept == Spec => []KeepsRecentlyUsed
<1>1. LruInv => KeepsRecentlyUsed
  <2> SUFFICES ASSUME LruInv, NEW i \in 1..Len(recent), i <= MaxSize
               PROVE  Found(recent[i]) = contents[recent[i]]
    BY DEF KeepsRecentlyUsed
  <2>1. PICK q \in 0..Len(recent) : /\ q >= MaxSize \/ q = Len(recent)
                                    /\ \A j \in LastUsed(q) : Found(j) = contents[j]
    BY DEF LruInv, RecentInv
  <2>2. i \in 1..q
    BY <2>1, CacheAssumption
  <2> QED BY <2>1, <2>2 DEF LastUsed
<1> QED BY <1>1, LruInvariance, PTL

\* The displaced keys are keys.
LEMMA DisplacedStep == displaced \subseteq Keys /\ [Next]_vars => (displaced \subseteq Keys)'
<1> SUFFICES ASSUME displaced \subseteq Keys, [Next]_vars PROVE displaced' \subseteq Keys
  OBVIOUS
<1>1. Displaced \subseteq Keys
  BY DEF Displaced
<1>2. ASSUME NEW c \in Callers, CallerStep(c) PROVE displaced' \subseteq Keys
  BY <1>1, <1>2 DEF CallerStep, Join, Produce, ProducerThrows, OwnerSucceeds, OwnerFails,
                    JoinerAnswers, Answer
<1>3. ASSUME NEW k \in Keys, Invalidate(k) \/ Prime(k) PROVE displaced' \subseteq Keys
  BY <1>1, <1>3 DEF Invalidate, Prime
<1>4. CASE (\E f \in Flight, s \in Settled : FlightSettles(f, s)) \/ UNCHANGED vars
  BY <1>4 DEF FlightSettles, vars
<1> QED BY <1>2, <1>3, <1>4 DEF Next

\* Every variable keeps its type; the size counter is right and the cache never
\* holds more than twice maxSize entries (lru.ts:17-20, 73-81).
THEOREM CacheTypeCorrect == Spec => []TypeOK
<1>1. IInv /\ LruInv /\ displaced \subseteq Keys => TypeOK
  BY DEF IInv, Typed, LruInv, TypeOK
<1>2. Init => displaced \subseteq Keys
  BY DEF Init
<1>3. Spec => [](displaced \subseteq Keys)
  BY <1>2, DisplacedStep, PTL DEF Spec
<1> QED BY <1>1, <1>3, LruInvariance, PTL
=============================================================================
