----------------------------- MODULE ScraperApp -----------------------------
(***************************************************************************)
(* docker/prometheus-scraper-standalone: a loop scrapes a Prometheus       *)
(* endpoint and pushes what it got to the HEC client, until a signal comes *)
(* or a scrape fails.  main() then shuts down the loop (through its        *)
(* AbortHandle) and the HEC client, and the process exits.                 *)
(*                                                                         *)
(* The state of the HEC client is that of module HecClient, whose actions  *)
(* are the client's own steps here; main() makes the one call it gets.     *)
(***************************************************************************)
EXTENDS ShutdownAll, Sequences

CONSTANTS
  MaxPushes, Lengths, MaxQueueSize, MaxQueueEntries, Gzip,
  MaxRetries, Infinity, AttemptCap,    \* those of HecClient
  ScrapeAttempts    \* attempts of a scrape; 100 unless configured

ASSUME TwoResources == Count = 2
ASSUME ScrapeAssumption == ScrapeAttempts \in Nat \ {0}

VARIABLES
  loop,             \* where scrapePeriodically() is
  scrape,           \* what a scrapePrometheusMetrics() call is doing
  tries,            \* the attempt it is at
  aborted, handles, signalled,   \* the AbortHandle of the loop
  active, queue, queueSizeBytes, flushTimer, length,
  batch, phase, attempt, flightAborted, flushes, activeFlushing,
  received, lingering, call, waits, mark    \* the HEC client

Calls == {"main"}

Abort == INSTANCE AbortHandle WITH Racers <- {"loop"}
Hec   == INSTANCE HecClient WITH aborted <- flightAborted

scrapeVars == <<scrape, tries>>
loopVars   == <<loop, scrapeVars>>
handleVars == <<aborted, handles, signalled>>
hecVars    == <<active, queue, queueSizeBytes, flushTimer, length, batch, phase,
                attempt, flightAborted, flushes, activeFlushing, received,
                lingering, call, waits, mark>>
vars == <<shutdownVars, loopVars, handleVars, hecVars>>

LoopState == {"scraping", "scraped", "failed", "sleeping", "slept", "ended"}

\* A scrape requests, or waits before it requests again; it is refused when the
\* configured URL is none.
ScrapeState == {"none", "refused", "requesting", "waiting"}

\* The loop runs up to its first await when main() calls it.
Init ==
  /\ loop = "scraping"
  /\ \/ scrape = "requesting" /\ tries = 1
     \/ scrape = "refused" /\ tries = 0
  /\ aborted = FALSE
  /\ handles = {"loop"}
  /\ signalled = {}
  /\ Hec!Init
  /\ ShutdownInit
------------------------------------------------------------------------------
(***************************************************************************)
(* scrapePrometheusMetrics()                                               *)
(***************************************************************************)
\* Its promise settles: it wins the race unless the handle was aborted before;
\* then its outcome is dropped.
ScrapeSettles(outcome) ==
  /\ scrape' = "none" /\ tries' = 0
  /\ loop' = IF loop = "scraping" /\ "loop" \notin signalled THEN outcome ELSE loop

\* `new URL()` throws: the scrape is rejected before its first attempt.
ScrapeRefused ==
  /\ scrape = "refused"
  /\ ScrapeSettles("failed")
  /\ UNCHANGED <<handleVars, hecVars, shutdownVars>>

\* A response of the right status and type whose text can be parsed.
ScrapeSucceeds ==
  /\ scrape = "requesting"
  /\ ScrapeSettles("scraped")
  /\ UNCHANGED <<handleVars, hecVars, shutdownVars>>

\* Mutant: the loop is given the error of an attempt that will be repeated.
AttemptFailsLoop ==
  /\ scrape = "requesting"
  /\ scrape' = "waiting"
  /\ loop' = IF loop = "scraping" /\ "loop" \notin signalled THEN "failed" ELSE loop
  /\ UNCHANGED <<tries, handleVars, hecVars, shutdownVars>>

\* The request, the checks of its response or the parser fail.
AttemptFails ==
  /\ scrape = "requesting"
  /\ \/ /\ tries < ScrapeAttempts
        /\ scrape' = "waiting"
        /\ UNCHANGED <<tries, loop>>
     \/ /\ tries = ScrapeAttempts
        /\ ScrapeSettles("failed")
  /\ UNCHANGED <<handleVars, hecVars, shutdownVars>>

\* The retry loop has no abort handle: it goes on when the loop was aborted.
TryAgain ==
  /\ scrape = "waiting"
  /\ scrape' = "requesting"
  /\ tries' = tries + 1
  /\ UNCHANGED <<loop, handleVars, hecVars, shutdownVars>>
------------------------------------------------------------------------------
(***************************************************************************)
(* scrapePeriodically()                                                    *)
(***************************************************************************)
\* A new scrape, when that is what the loop waits for; the URL is that of the
\* first scrape, which was none to refuse.
Begins(wait) ==
  IF wait = "scraping" THEN scrape' = "requesting" /\ tries' = 1
                       ELSE UNCHANGED scrapeVars

\* Mutant: the loop goes on whether or not its handle was aborted.
ContinueWithRegardless(wait) ==
  /\ loop' = wait
  /\ Begins(wait)
  /\ Abort!LeaveRace("loop")

\* The race the loop was in is over, and it enters the next one: the next
\* scrape, or the delay before it.  An aborted handle ends the loop.
ContinueWith(wait) ==
  \/ /\ aborted
     /\ loop' = "ended"
     /\ Abort!LeaveRace("loop")
     /\ UNCHANGED scrapeVars
  \/ /\ ~aborted
     /\ loop' = wait
     /\ Begins(wait)
     /\ Abort!EnterRace("loop")

\* The scraped metrics, if there are any, are pushed as one multi-metric; when
\* the scrape took the whole interval there is no delay.  A push to a client
\* that was shut down throws, which ends the loop.
PushScraped ==
  /\ loop = "scraped"
  /\ IF active
     THEN /\ Hec!Push \/ UNCHANGED hecVars
          /\ ContinueWith("sleeping") \/ ContinueWith("scraping")
     ELSE /\ loop' = "ended"
          /\ Abort!LeaveRace("loop")
          /\ UNCHANGED <<scrapeVars, hecVars>>
  /\ UNCHANGED shutdownVars

\* The error of a scrape is rethrown; main() catches it.
ScrapeFails ==
  /\ loop = "failed"
  /\ loop' = "ended"
  /\ Abort!LeaveRace("loop")
  /\ UNCHANGED <<scrapeVars, hecVars, shutdownVars>>

DelayEnds ==
  /\ loop = "sleeping"
  /\ "loop" \notin signalled
  /\ loop' = "slept"
  /\ UNCHANGED <<scrapeVars, handleVars, hecVars, shutdownVars>>

NextScrape ==
  /\ loop = "slept"
  /\ ContinueWith("scraping")
  /\ UNCHANGED <<hecVars, shutdownVars>>

\* The race is rejected with ABORT.  The scrape itself keeps running.
LoopAborted ==
  /\ loop \in {"scraping", "sleeping"}
  /\ "loop" \in signalled
  /\ loop' = "ended"
  /\ Abort!LeaveRace("loop")
  /\ UNCHANGED <<scrapeVars, hecVars, shutdownVars>>
------------------------------------------------------------------------------
(***************************************************************************)
(* main()                                                                  *)
(***************************************************************************)
\* A signal arrives or the loop has ended: shutdownAll() tells the first
\* resource, the loop's AbortResource, which aborts the handle.
ShutDownLoop ==
  /\ ShutdownStarts
  /\ Abort!Abort
  /\ UNCHANGED <<loopVars, hecVars>>

\* The second resource is the HEC client.
HecShutdown ==
  \/ /\ LimitNow # NoLimit
     /\ Hec!CallTimedShutdown("main")
  \/ /\ LimitNow = NoLimit \/ (activeFlushing = {} /\ queue = <<>>)
     /\ Hec!CallShutdown("main")

\* Mutant: AbortResource.shutdown() does not wait for its promise.
ShutDownHecAtOnce ==
  /\ ResourceSettles(1, TRUE)
  /\ HecShutdown
  /\ UNCHANGED <<loopVars, handleVars>>

\* The promise of the loop never rejects, since main() catches its error.
ShutDownHec ==
  /\ loop = "ended"
  /\ ResourceSettles(1, TRUE)
  /\ HecShutdown
  /\ UNCHANGED <<loopVars, handleVars>>

\* hec.shutdown() has settled; process.exit() is the end of every activity.
Exit ==
  /\ call["main"] \in {"shutDown", "shutDownRejected"}
  /\ ResourceSettles(2, call["main"] = "shutDown")
  /\ UNCHANGED <<loopVars, handleVars, hecVars>>
------------------------------------------------------------------------------
LoopStep ==
  /\ ~Returned
  /\ \/ ScrapeRefused \/ ScrapeSucceeds \/ AttemptFails \/ TryAgain
     \/ PushScraped \/ ScrapeFails
     \/ DelayEnds \/ NextScrape \/ LoopAborted

MainStep == ShutDownLoop \/ ShutDownHec \/ Exit

\* What the HEC client does by itself.  Between the end of its shutdown() and
\* process.exit() no timer and no request gets its turn; what HEC takes in
\* after that no longer concerns the program.
HecStep ==
  /\ call["main"] \in {"idle", "draining"}
  /\ \/ Hec!TimerFires
     \/ \E b \in Hec!Handle : Hec!FlightStep(b)
     \/ Hec!DrainEnds("main") \/ Hec!DrainFails("main")
  /\ UNCHANGED <<loopVars, handleVars, shutdownVars>>

TimePasses == Tick /\ UNCHANGED <<loopVars, handleVars, hecVars>>

Next == LoopStep \/ MainStep \/ HecStep \/ TimePasses

Spec == Init /\ [][Next]_vars
------------------------------------------------------------------------------
\* The types of the loop, its handle, the shutdown (a time limit is never
\* negative) and the client.
TypeOK ==
  /\ ShutdownTypeOK
  /\ loop \in LoopState
  /\ scrape \in ScrapeState
  /\ tries \in 0..ScrapeAttempts
  /\ Abort!HandleTypeOK
  /\ Hec!TypeOK

\* The client is closed only when the loop can push no more, so that no
\* scrape in progress meets a closed client, wherever the signal finds it.
NoPushIsRefused == ~active => loop = "ended"

\* The loop starts no scrape once it was told to stop, and never a second one
\* beside one that still runs or is to be retried; and it takes a scrape for
\* failed only after its last attempt, unless its URL allows none.
ScrapesDoNotOverlap ==
  [][/\ loop # "scraping" /\ loop' = "scraping" => ~aborted /\ scrape = "none"
     /\ loop # "failed" /\ loop' = "failed" =>
          tries = ScrapeAttempts \/ scrape = "refused"]_vars

\* A clean exit leaves nothing behind: the loop has ended, the client is
\* closed, and no batch is on its way to HEC or bound for a retry.
CleanExitIsQuiet ==
  Returned /\ clean =>
    /\ loop = "ended" /\ ~active
    /\ \A b \in Hec!Handle :
         /\ phase[b] \notin Hec!Posted
         /\ phase[b] \in Hec!InFlight => flightAborted[b]

\* resource.ts announces a shutdown "within max time": a resource told before
\* that time is over is given what is left of it.
TimeLeftIsGranted ==
  [][\A r \in Resource :
       current # r /\ current' = r /\ now < MaxTime
         => limit'[r] \in 1..(MaxTime - now)]_vars
------------------------------------------------------------------------------
\* Promise reactions run, and sleep() ends, whether or not HEC or Prometheus
\* ever answer.
Fairness ==
  /\ WF_vars(LoopStep /\ PushScraped)
  /\ WF_vars(LoopStep /\ ScrapeFails)
  /\ WF_vars(LoopStep /\ NextScrape)
  /\ WF_vars(LoopStep /\ LoopAborted)
  /\ WF_vars(loop = "ended" /\ ShutDownLoop)
  /\ WF_vars(ShutDownHec)
  /\ WF_vars(Exit)
  /\ WF_vars(HecStep /\ (Hec!DrainEnds("main") \/ Hec!DrainFails("main")))

FairSpec == Spec /\ Fairness

\* Once a signal has come or the loop has failed the process exits, even if
\* neither Prometheus nor HEC ever answers again.
ProcessExits == (loop = "ended" \/ current # 0) ~> Returned
=============================================================================
