-------------------------- MODULE ScraperAppProofs --------------------------
(***************************************************************************)
(* Proofs about the scrape loop and its shutdown, for every configuration  *)
(* of the HEC client and every number of messages.                         *)
(***************************************************************************)
EXTENDS ScraperApp, TLAPS

\* A scrape runs beside the loop only while the loop races it, or after the loop
\* was left by an abort.
ScrapeIsRaced ==
  /\ loop \in LoopState
  /\ loop \in {"scraped", "failed", "sleeping", "slept"} => scrape = "none"

AppInv == ScrapeIsRaced /\ NoPushIsRefused

\* What a step of the client itself leaves alone: it opens and closes nothing.
LEMMA HecStepKeepsActive == HecStep => active' = active /\ UNCHANGED <<loopVars, handleVars>>
<1> SUFFICES ASSUME HecStep PROVE active' = active /\ UNCHANGED <<loopVars, handleVars>>
  OBVIOUS
<1>1. CASE Hec!TimerFires
  BY <1>1 DEF HecStep, Hec!TimerFires
<1>2. CASE Hec!DrainEnds("main") \/ Hec!DrainFails("main")
  BY <1>2 DEF HecStep, Hec!DrainEnds, Hec!DrainFails, Hec!queueVars
<1>3. ASSUME NEW b \in Hec!Handle, Hec!FlightStep(b)
      PROVE  active' = active
  BY <1>3 DEF Hec!FlightStep, Hec!CompressDone, Hec!CompressFails, Hec!HecAccepts,
     Hec!LateArrival, Hec!ResponseOk, Hec!RequestFails, Hec!HandleFailure,
     Hec!WakeUp, Hec!RemoveFromActive, Hec!queueVars
<1> QED BY <1>1, <1>2, <1>3 DEF HecStep

\* Nor does a push.
LEMMA PushKeepsActive == Hec!Push \/ UNCHANGED hecVars => active' = active
  BY DEF Hec!Push, Hec!PushFits, Hec!PushOverflows, hecVars

\* The next wait of the loop.
LEMMA ContinueLeadsOn ==
  ASSUME NEW w \in {"scraping", "sleeping"}, ContinueWith(w)
  PROVE  \/ loop' = "ended"
         \/ /\ ~aborted /\ loop' = w
            /\ w # "scraping" => scrape' = scrape
  BY DEF ContinueWith, Begins, scrapeVars

\* What the loop's steps must not do.
Sequential ==
  /\ loop # "scraping" /\ loop' = "scraping" => ~aborted /\ scrape = "none"
  /\ loop # "failed" /\ loop' = "failed" =>
       tries = ScrapeAttempts \/ scrape = "refused"

\* A step of a scrape: it may only end the loop's race with its outcome.
LEMMA ScrapeStepOK ==
  ASSUME AppInv, ScrapeRefused \/ ScrapeSucceeds \/ AttemptFails \/ TryAgain
  PROVE  AppInv' /\ Sequential
<1> USE DEF AppInv, ScrapeIsRaced, NoPushIsRefused, LoopState, Sequential
<1>1. CASE ScrapeSucceeds
  BY <1>1 DEF ScrapeSucceeds, ScrapeSettles, hecVars
<1>2. CASE AttemptFails
  BY <1>2 DEF AttemptFails, ScrapeSettles, hecVars
<1>3. CASE TryAgain
  BY <1>3 DEF TryAgain, hecVars
<1>4. CASE ScrapeRefused
  BY <1>4 DEF ScrapeRefused, ScrapeSettles, hecVars
<1> QED BY <1>1, <1>2, <1>3, <1>4

\* A step of the loop.
LEMMA LoopStepOK ==
  ASSUME AppInv, LoopStep
  PROVE  AppInv' /\ Sequential
<1>1. CASE ScrapeRefused \/ ScrapeSucceeds \/ AttemptFails \/ TryAgain
  BY <1>1, ScrapeStepOK
<1> USE DEF AppInv, ScrapeIsRaced, NoPushIsRefused, LoopState, Sequential
<1>2. CASE PushScraped
  <2>1. CASE active
    <3>1. active' = active
      BY <1>2, <2>1, PushKeepsActive DEF PushScraped
    <3>2. PICK w \in {"scraping", "sleeping"} : ContinueWith(w)
      BY <1>2, <2>1 DEF PushScraped
    <3>3. \/ loop' = "ended"
          \/ /\ ~aborted /\ loop' = w
             /\ w # "scraping" => scrape' = scrape
      BY <3>2, ContinueLeadsOn
    <3> QED BY <1>2, <2>1, <3>1, <3>3 DEF PushScraped
  <2>2. CASE ~active
    BY <1>2, <2>2 DEF PushScraped
  <2> QED BY <2>1, <2>2
<1>3. CASE ScrapeFails \/ LoopAborted
  BY <1>3 DEF ScrapeFails, LoopAborted, hecVars
<1>4. CASE DelayEnds
  BY <1>4 DEF DelayEnds, hecVars, scrapeVars
<1>5. CASE NextScrape
  <2>1. /\ active' = active /\ loop = "slept"
        /\ \/ loop' = "ended"
           \/ ~aborted /\ loop' = "scraping"
    BY <1>5, ContinueLeadsOn DEF NextScrape, hecVars
  <2> QED BY <2>1
<1> QED BY <1>1, <1>2, <1>3, <1>4, <1>5 DEF LoopStep

\* Every step keeps the invariant and begins no scrape it should not.
LEMMA AppStep == AppInv /\ [Next]_vars => AppInv' /\ Sequential
<1> SUFFICES ASSUME AppInv, [Next]_vars
             PROVE  AppInv' /\ Sequential
  OBVIOUS
<1>1. CASE LoopStep
  BY <1>1, LoopStepOK
<1>2. CASE ShutDownHec
  BY <1>2 DEF ShutDownHec, loopVars, AppInv, ScrapeIsRaced, NoPushIsRefused,
     Sequential, scrapeVars
<1>3. CASE \/ ShutDownLoop \/ Exit \/ HecStep \/ TimePasses \/ UNCHANGED vars
  <2>1. active' = active /\ loop' = loop /\ scrape' = scrape
    BY <1>3, HecStepKeepsActive
       DEF ShutDownLoop, Exit, TimePasses, vars, loopVars, hecVars, scrapeVars
  <2> QED BY <2>1 DEF AppInv, ScrapeIsRaced, NoPushIsRefused, Sequential
<1> QED BY <1>1, <1>2, <1>3 DEF Next, MainStep

\* The program begins with the client open and its first scrape.
LEMMA AppInit == Init => AppInv
  BY DEF Init, Hec!Init, AppInv, ScrapeIsRaced, NoPushIsRefused, LoopState

\* The client is closed only after the loop has ended, wherever the signal meets it
\* (index.ts:80-97).
THEOREM ClientClosesLast == Spec => []NoPushIsRefused
<1>1. AppInv => NoPushIsRefused
  BY DEF AppInv
<1> QED BY <1>1, AppInit, AppStep, PTL DEF Spec

\* No scrape begins beside another or after the loop was told to stop, and the loop
\* fails only after the last attempt of its scrape
\* (docker/prometheus-scraper-standalone/src/scrape.ts:33-54).
THEOREM ScrapesAreSequential == Spec => ScrapesDoNotOverlap
<1>1. AppInv /\ [Next]_vars => [Sequential]_vars
  BY AppStep
<1> QED BY <1>1, AppInit, AppStep, PTL DEF Spec, ScrapesDoNotOverlap, Sequential
------------------------------------------------------------------------------
(***************************************************************************)
(* The HEC client in the program                                           *)
(***************************************************************************)
\* A step of the program is one of the client's, or leaves the client alone.
LEMMA StepOfClient == [Next]_vars => [Hec!Next]_(Hec!vars)
<1> SUFFICES ASSUME [Next]_vars PROVE [Hec!Next]_(Hec!vars)
  OBVIOUS
<1>1. CASE UNCHANGED hecVars
  BY <1>1 DEF hecVars, Hec!vars, Hec!queueVars, Hec!flightVars, Hec!hecVars, Hec!callVars
<1>2. CASE LoopStep
  <2>1. Hec!Push \/ UNCHANGED hecVars
    BY <1>2 DEF LoopStep, PushScraped, ScrapeRefused, ScrapeSucceeds, AttemptFails, TryAgain,
                ScrapeFails, DelayEnds, NextScrape, LoopAborted
  <2> QED BY <1>1, <2>1 DEF Hec!Next
<1>3. CASE HecStep
  <2>1. \/ Hec!TimerFires
        \/ \E b \in Hec!Handle : Hec!FlightStep(b)
        \/ Hec!DrainEnds("main") \/ Hec!DrainFails("main")
    BY <1>3 DEF HecStep
  <2> QED BY <2>1 DEF Hec!Next, Hec!CallStep, Calls
<1>4. CASE ShutDownHec
  <2>1. Hec!CallTimedShutdown("main") \/ Hec!CallShutdown("main")
    BY <1>4 DEF ShutDownHec, HecShutdown
  <2> QED BY <2>1 DEF Hec!Next, Hec!CallStep, Calls
<1>5. CASE ShutDownLoop \/ Exit \/ TimePasses
  BY <1>1, <1>5 DEF ShutDownLoop, Exit, TimePasses
<1> QED BY <1>1, <1>2, <1>3, <1>4, <1>5 DEF Next, MainStep, vars

\* The program drives its client by the client's operations only, so that what holds of
\* HecClient holds of it (index.ts:48-57, scrape.ts:38).
THEOREM ClientIsDriven == Spec => Hec!Spec
<1>1. Init => Hec!Init
  BY DEF Init
<1> QED BY <1>1, StepOfClient, PTL DEF Spec, Hec!Spec

\* shutdown() finds every flight that still runs.
Flights == DOMAIN phase = Hec!Handle /\ Hec!RunningFlightsAreActive

\* Nothing is posted, and what sleeps or compresses has been aborted.
Quiet ==
  \A b \in Hec!Handle :
    /\ phase[b] \notin Hec!Posted
    /\ phase[b] \in Hec!InFlight => flightAborted[b]

LEMMA FlushKeepsFlights ==
  ASSUME Flights, Hec!FlushInternal \/ (\E msgs : Hec!Launch(msgs)) \/ UNCHANGED Hec!flightVars
  PROVE  Flights'
<1> USE DEF Flights, Hec!RunningFlightsAreActive
<1>1. CASE \E msgs : Hec!Launch(msgs)
  BY <1>1 DEF Hec!Launch
<1>2. CASE UNCHANGED Hec!flightVars
  BY <1>2 DEF Hec!flightVars
<1>3. CASE Hec!FlushInternal
  BY <1>1, <1>2, <1>3 DEF Hec!FlushInternal
<1> QED BY <1>1, <1>2, <1>3

LEMMA PushKeepsFlights ==
  ASSUME Flights, Hec!Push
  PROVE  Flights' /\ call' = call
<1>1. PICK n \in Lengths : Hec!PushFits(n) \/ Hec!PushOverflows(n)
  BY DEF Hec!Push
<1>2. ((\E msgs : Hec!Launch(msgs)) \/ UNCHANGED Hec!flightVars) /\ call' = call
  BY <1>1 DEF Hec!PushFits, Hec!PushOverflows, Hec!callVars
<1> QED BY <1>2, FlushKeepsFlights

LEMMA FlightStepKeepsFlights ==
  ASSUME Flights, NEW b \in Hec!Handle, Hec!FlightStep(b)
  PROVE  Flights' /\ call' = call
<1> USE DEF Flights, Hec!RunningFlightsAreActive, Hec!Goto, Hec!StaysInFlight, Hec!callVars,
            Hec!InFlight, Hec!Posted
<1>1. CASE Hec!CompressDone(b)
  BY <1>1 DEF Hec!CompressDone, Hec!BeginAttempt
<1>2. CASE Hec!CompressFails(b)
  BY <1>2 DEF Hec!CompressFails
<1>3. CASE Hec!HecAccepts(b)
  BY <1>3 DEF Hec!HecAccepts
<1>4. CASE Hec!ResponseOk(b)
  BY <1>4 DEF Hec!ResponseOk
<1>5. CASE Hec!RequestFails(b)
  BY <1>5 DEF Hec!RequestFails
<1>6. CASE Hec!HandleFailure(b)
  BY <1>6 DEF Hec!HandleFailure, Hec!BeginAttempt
<1>7. CASE Hec!WakeUp(b)
  BY <1>7 DEF Hec!WakeUp, Hec!BeginAttempt
<1>8. CASE Hec!RemoveFromActive(b)
  BY <1>8 DEF Hec!RemoveFromActive, Hec!Settled
<1>9. CASE Hec!LateArrival(b)
  BY <1>9 DEF Hec!LateArrival, Hec!flightVars
<1> QED BY <1>1, <1>2, <1>3, <1>4, <1>5, <1>6, <1>7, <1>8, <1>9 DEF Hec!FlightStep

\* Since every running flight is active, the end of shutdown() quiets them all.
LEMMA CancelQuiets ==
  ASSUME Flights, Hec!Cancel(activeFlushing)
  PROVE  Flights' /\ Quiet'
  BY DEF Flights, Quiet, Hec!Cancel, Hec!RunningFlightsAreActive, Hec!InFlight, Hec!Posted

\* A client that has shut down stays closed and quiet, and main() takes its word for it.
CloseInv ==
  /\ Flights
  /\ DOMAIN call = {"main"}
  /\ call["main"] # "idle" => ~active
  /\ call["main"] = "shutDown" => Quiet
  /\ Returned /\ clean => call["main"] = "shutDown"

\* A step that leaves client and shutdown alone.
LEMMA ElsewhereKeepsClosed ==
  ASSUME CloseInv, UNCHANGED <<hecVars, current, clean>>
  PROVE  CloseInv'
  BY DEF CloseInv, Flights, Hec!RunningFlightsAreActive, Quiet, Returned, hecVars

LEMMA HecStepKeepsClosed ==
  ASSUME CloseInv, HecStep
  PROVE  CloseInv'
<1>0. call["main"] \in {"idle", "draining"} /\ UNCHANGED <<current, clean>> /\ active' = active
  BY HecStepKeepsActive DEF HecStep, shutdownVars
<1>1. ~(Returned' /\ clean')
  BY <1>0, Zenon DEF CloseInv, Returned
<1>2. CASE Hec!TimerFires
  <2>1. Flights' /\ call' = call
    BY <1>2, FlushKeepsFlights DEF CloseInv, Hec!TimerFires, Hec!callVars
  <2> QED BY <1>0, <1>1, <2>1 DEF CloseInv
<1>3. ASSUME NEW b \in Hec!Handle, Hec!FlightStep(b) PROVE CloseInv'
  <2>1. Flights' /\ call' = call
    BY <1>3, FlightStepKeepsFlights DEF CloseInv
  <2> QED BY <1>0, <1>1, <2>1 DEF CloseInv
<1>4. CASE Hec!DrainEnds("main")
  <2>1. Flights' /\ Quiet'
    BY <1>4, CancelQuiets DEF CloseInv, Hec!DrainEnds
  <2>2. DOMAIN call' = {"main"} /\ call["main"] = "draining" /\ call'["main"] = "shutDown"
    BY <1>4 DEF CloseInv, Hec!DrainEnds, Hec!Answer
  <2> QED BY <1>0, <1>1, <2>1, <2>2 DEF CloseInv
<1>5. CASE Hec!DrainFails("main")
  <2>1. Flights'
    BY <1>5, FlushKeepsFlights DEF CloseInv, Hec!DrainFails
  <2>2. /\ DOMAIN call' = {"main"} /\ call["main"] = "draining"
        /\ call'["main"] = "shutDownRejected"
    BY <1>5 DEF CloseInv, Hec!DrainFails, Hec!Answer
  <2> QED BY <1>0, <1>1, <2>1, <2>2 DEF CloseInv
<1> QED BY <1>2, <1>3, <1>4, <1>5 DEF HecStep

LEMMA ShutDownHecKeepsClosed ==
  ASSUME CloseInv, ShutDownHec
  PROVE  CloseInv'
<1>1. current' = 2 /\ ~Returned'
  BY TwoResources DEF ShutDownHec, ResourceSettles, Tell, Returned
<1>2. active' = FALSE
  BY DEF ShutDownHec, HecShutdown, Hec!CallTimedShutdown, Hec!CallShutdown
<1>3. CASE Hec!CallTimedShutdown("main")
  <2>1. Flights'
    BY <1>3, FlushKeepsFlights DEF CloseInv, Hec!CallTimedShutdown, Hec!AwaitFlush
  <2>2. DOMAIN call' = {"main"} /\ call'["main"] = "draining"
    BY <1>3 DEF CloseInv, Hec!CallTimedShutdown, Hec!Answer
  <2> QED BY <1>1, <1>2, <2>1, <2>2 DEF CloseInv
<1>4. CASE Hec!CallShutdown("main")
  <2>1. Flights' /\ Quiet'
    BY <1>4, CancelQuiets DEF CloseInv, Hec!CallShutdown
  <2>2. DOMAIN call' = {"main"}
    BY <1>4 DEF CloseInv, Hec!CallShutdown, Hec!Answer
  <2> QED BY <1>1, <1>2, <2>1, <2>2 DEF CloseInv
<1> QED BY <1>3, <1>4 DEF ShutDownHec, HecShutdown

LEMMA CloseStep == CloseInv /\ [Next]_vars => CloseInv'
<1> SUFFICES ASSUME CloseInv, [Next]_vars PROVE CloseInv'
  OBVIOUS
<1>1. CASE UNCHANGED <<hecVars, current, clean>>
  BY <1>1, ElsewhereKeepsClosed
<1>2. CASE PushScraped /\ active /\ Hec!Push
  <2>1. Flights' /\ call' = call /\ active' = active /\ UNCHANGED <<current, clean>>
    BY <1>2, PushKeepsFlights, PushKeepsActive DEF CloseInv, PushScraped, shutdownVars
  <2>2. call["main"] = "idle"
    BY <1>2 DEF CloseInv
  <2>3. ~(Returned' /\ clean')
    BY <2>1, <2>2, Zenon DEF CloseInv, Returned
  <2> QED BY <1>2, <2>1, <2>2, <2>3 DEF CloseInv
<1>3. CASE LoopStep
  <2>1. (PushScraped /\ active /\ Hec!Push) \/ UNCHANGED <<hecVars, current, clean>>
    BY <1>3 DEF LoopStep, PushScraped, ScrapeRefused, ScrapeSucceeds, AttemptFails, TryAgain,
                ScrapeFails, DelayEnds, NextScrape, LoopAborted, shutdownVars
  <2> QED BY <1>1, <1>2, <2>1
<1>4. CASE ShutDownLoop
  <2>1. UNCHANGED hecVars /\ current' = 1
    BY <1>4 DEF ShutDownLoop, ShutdownStarts, Tell
  <2>2. ~Returned'
    BY <2>1, TwoResources DEF Returned
  <2> QED BY <2>1, <2>2 DEF CloseInv, Flights, Hec!RunningFlightsAreActive, Quiet, hecVars
<1>5. CASE Exit
  <2>1. UNCHANGED hecVars /\ clean' = (clean /\ call["main"] = "shutDown")
    BY <1>5 DEF Exit, ResourceSettles
  <2>2. Returned' /\ clean' => call'["main"] = "shutDown"
    BY <2>1 DEF hecVars
  <2> QED BY <2>1, <2>2 DEF CloseInv, Flights, Hec!RunningFlightsAreActive, Quiet, hecVars
<1>6. CASE TimePasses
  BY <1>1, <1>6 DEF TimePasses, Tick
<1>7. CASE UNCHANGED vars
  BY <1>1, <1>7 DEF vars, shutdownVars
<1> QED BY <1>3, <1>4, <1>5, <1>6, <1>7, HecStepKeepsClosed, ShutDownHecKeepsClosed
        DEF Next, MainStep

LEMMA CloseInit == Init => CloseInv
<1> SUFFICES ASSUME Init PROVE CloseInv
  OBVIOUS
<1>1. Flights
  BY DEF Init, Hec!Init, Flights, Hec!RunningFlightsAreActive, Hec!InFlight, Hec!Posted
<1>2. DOMAIN call = {"main"} /\ call["main"] = "idle" /\ active = TRUE
  BY DEF Init, Hec!Init, Calls
<1>3. ~Returned
  BY TwoResources DEF Init, ShutdownInit, Returned
<1> QED BY <1>1, <1>2, <1>3 DEF CloseInv

\* After a clean exit the loop is over, the client closed, and nothing is on its way to HEC
\* (index.ts:91-97, resource.ts:14-24).
THEOREM CleanExitLeavesNothing == Spec => []CleanExitIsQuiet
<1>1. AppInv /\ CloseInv => CleanExitIsQuiet
  BY DEF AppInv, NoPushIsRefused, CloseInv, Quiet, CleanExitIsQuiet
<1> QED BY <1>1, AppInit, AppStep, CloseInit, CloseStep, PTL DEF Spec
=============================================================================
