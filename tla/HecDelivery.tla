----------------------------- MODULE HecDelivery -----------------------------
(***************************************************************************)
(* What a HEC client promises its user, with no queue, batch, timer, retry *)
(* or socket: an accepted message stays pending until the client either    *)
(* knows that HEC has it or gives it up, and it is given up only after the *)
(* client was shut down, or when the client cannot encode it (Lossy).      *)
(***************************************************************************)
EXTENDS Naturals

CONSTANT Lossy  \* whether encoding a batch (gzip) may fail

VARIABLES
  accepted,   \* how many messages were accepted; they are numbered from 1
  received,   \* the messages HEC has, whether or not the client knows it
  confirmed,  \* the messages the client knows HEC has
  abandoned,  \* the messages the client will not send any more
  closed      \* whether the client was shut down

vars == <<accepted, received, confirmed, abandoned, closed>>

Pending == (1..accepted) \ (confirmed \cup abandoned)

Init ==
  /\ accepted = 0
  /\ received = {}
  /\ confirmed = {}
  /\ abandoned = {}
  /\ closed = FALSE

Accept ==
  /\ ~closed
  /\ accepted' = accepted + 1
  /\ UNCHANGED <<received, confirmed, abandoned, closed>>

\* HEC takes in messages, perhaps a second time, and perhaps from a request that
\* was on the wire when the client gave them up.
Receive(S) ==
  /\ S \subseteq 1..accepted
  /\ received' = received \cup S
  /\ UNCHANGED <<accepted, confirmed, abandoned, closed>>

Confirm(S) ==
  /\ S \subseteq Pending \cap received
  /\ confirmed' = confirmed \cup S
  /\ UNCHANGED <<accepted, received, abandoned, closed>>

Abandon(S) ==
  /\ closed \/ Lossy
  /\ S \subseteq Pending
  /\ abandoned' = abandoned \cup S
  /\ UNCHANGED <<accepted, received, confirmed, closed>>

Close ==
  /\ closed' = TRUE
  /\ UNCHANGED <<accepted, received, confirmed, abandoned>>

Next ==
  \/ Accept
  \/ \E S \in SUBSET (1..accepted) : Receive(S) \/ Confirm(S) \/ Abandon(S)
  \/ Close

Spec == Init /\ [][Next]_vars
==============================================================================
