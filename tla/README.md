# Verification of dlt-connect-libs

TLA+ specifications of the libraries under `packages/`, of the Prometheus scraper
program under `docker/` and of the build action under `actions/`, model-checked with
TLC and, for the safety properties that matter most, proved with TLAPS for every
value of the constants. Paths below are relative to the repository's root.

Contents: [the system](#the-system) · [modules](#the-modules-and-the-code) ·
[runs](#what-the-runs-check) · [bounds](#bounds) · [fairness](#fairness) ·
[proofs](#what-is-proved) · [findings](#where-code-and-documentation-disagree) ·
[observations](#what-else-came-to-light) · [limits](#not-modelled)

## The system

Everything is JavaScript: one thread, handlers that run to completion, and
interleaving at every `await`, timer and promise reaction. That is the grain of
the models: **an action is the code from one await or callback to the next.** Where
code calls out to its user in the middle (the stats collector's `next()`), each such
call is a step of its own. The build action is a process, of which several run at the
same time on one repository; there an action is one command or request.

| Component | Source | State it keeps | Operations | What is hard, and what makes it correct |
| --- | --- | --- | --- | --- |
| HEC client | `packages/hec-client` | `queue`, `queueSizeBytes`, `flushTimer`, `activeFlushing`, `active`; per batch an attempt counter and an abort signal | `push*`, `flush`, `shutdown`, `flushStats`, `clone`, `checkAvailable`, `waitUntilAvailable` | Pushes, two limits, the timer and callers of `flush()` flush the same queue; several batches are in the air, each with its own retries, while a shutdown with a time limit aborts them. No message lost or sent in two batches; a resolved `flush()` means delivery; nothing is sent after a shutdown; failing requests never make it give up. |
| Async tasks | `packages/async-tasks` | an `AbortHandle`'s set of registered races; per `retry()` its attempt and start time; per `parallel()` its queue and running count | `retry`, `AbortHandle.race/abort`, `withAbort`, `raceAll`, `parallel`, `waitTime` | An abort may come at any await. Attempts must not overlap, an abort must end every loop and start nothing, slots must be neither lost nor given back twice, and the losers of a race must stop. |
| Cache | `packages/cache` | two generations of entries and a size count | `get`, `set`, `unset`, `cached`, `cachedAsync` | Promotion, eviction and removal across generations; callers share a promise that may fail while others replace, remove or evict its entry. A replaced or removed value never comes back, a failure is never served for good, a key has one producer at a time. |
| Managed resources | `packages/managed-resource` | the time left of a shutdown; signal handlers | `shutdownAll`, `waitForSignal`, `rejectOnFirstSignal`, `AbortResource` | Resources are shut down one after the other within a time; one that fails must not keep the rest from it. |
| Statistics | `packages/stats-collector` | sources, the timer and its handle, the measurements since the last flush | `addSource`, `start`, `shutdown`, `next`, `AggregateMetric` | Sources and destination run inside `next()` and may throw or call the collector back. One timer at most and none after a shutdown; every measurement counted once; percentiles in order. |
| Prometheus scraper | `packages/prometheus-scraper` | the parser's `typeMap`, `helpMap`, `currentMultiSample`; the open multi-metrics objects; the attempts of a scrape | `parseText`, `convertToHecMultiMetrics`, `collapseIntoMultiMetrics`, `scrapePrometheusMetrics` | Samples of one histogram come line by line between other lines, declarations and broken lines; metrics are merged by identifier up to a limit and serialized in one of two formats. No sample lost, doubled, or given another one's labels. |
| Scraper program | `docker/prometheus-scraper-standalone` | the scrape loop | `main`, `scrapePeriodically` | A signal at any moment: the loop must push nothing to a closed client, and the process must exit. |
| Build action | `actions/build-publish-container` | image tags, release notes (outside of the process); per job the tags of its clone | build, push, tag, edit the notes | Jobs of several commits overlap, fail half-way, are run again. A tag names an image of its line, `latest` does not fall back, the notes keep what people wrote. |
| Scripts, logging | `scripts/`, `packages/debug-logging` | none | | Sequential glue, not modelled. |

How they interact: the scraper program calls `scrapePrometheusMetrics()` (which
uses `retry()`), converts the text, pushes the result to a HEC client, and on a
signal or a failed scrape runs `shutdownAll([scraper, hec], 10000)`, where
`scraper` is an `AbortResource` over the loop's `AbortHandle`. `retry()` and
`parallel()` race their promises against an `AbortHandle`. The HEC client has a
retry loop of its own and node's `AbortController`s; it is a source of the stats
collector, whose destination in turn is a HEC client. `hazards` in `PROJECT.json`
lists, line by line, what in this code is hard to test, and the property that
watches it.

## The modules and the code

```
HecDelivery   <-- refines --   HecClient      <-- instance --  ScraperApp --> ShutdownAll
AbortHandle   <-- extends --   Retry, Parallel;  instance --   ScraperApp
Parallel      <-- extends, refines --  RaceAll
CacheStore    <-- refines --   LruCache       <-- extends --   CachedAsync
PrometheusParser  <-- extends --  MultiMetrics  <-- extends --  HecMessages
AggregateMetric   <-- extends --  StatsCollector
AnchoredText      <-- extends --  Release
```

`MCx` modules give constants their values for TLC; `xProofs` hold theorems. Each
definition's lines in the source are in `map` of `PROJECT.json`. Definitions whose
comment begins with "Mutant" are plausible bugs: substituted for the definition they
belong to, each must make one property fail, which shows that the property sees that
code. They are part of no specification.

**HecClient** (`client.ts`, `compress.ts`). A message is its number and its length, a
flight (one `sendToHec`) the number of its flush. `PushFits`/`PushOverflows` are
`push*` with `pushSerializedMsg` and `scheduleFlush`, split by whether the byte
limit flushes the queue first. `TimerFires` is the flush timer. `FlightStep` is
`sendToHec`: `CompressDone/Fails`, `HecAccepts` (HEC has the batch, its answer is
under way), `ResponseOk`, `RequestFails` (error status, timeout, broken
connection, before or *after* HEC took the batch), `HandleFailure` (the catch
block), `WakeUp` (after `sleep`), `RemoveFromActive` (the reaction of a settled
flight, a step later). `CallFlush`, `CallTimedShutdown`, `CallShutdown` and the ends
of their promises are the callers' part; `mark` and `waits` record what a caller may
rely on. An abort makes a pending `fetch` fail at once and leaves every other await
as it is. What a `fetch` has sent by the time it is aborted or times out is not taken
back by closing its socket: `GiveUp` keeps the flight in `lingering`, and `LateArrival`
is HEC taking such a request in at any later time, or never. One number stands for all
copies of a batch, since a second one makes no difference to what HEC has.

**HecDelivery** is what a user is promised, with no queue, batch, timer or retry: a
message stays pending until it is confirmed (and then HEC has it) or abandoned, and
is abandoned only after a shutdown or when encoding may fail.

**AbortHandle** (`abort.ts`) is the set of registered races and who has been told.
**Retry** (`retry.ts`) composes several loops under one handle. The end of a race and
the continuation of its loop are two steps, with anything in between. The callbacks
`onRetry`, `onError` and `waitBetween`, and the task when it is called, may call
`abort()` or (the callbacks) throw at their place in the code: `MayAbort`, `HasFired`,
`CatchError`, `Sleep` and the alternatives of `BeginAttempt`. Tasks are async
functions, as everywhere in the repository, so they never throw synchronously. Each
loop has limits of its own; `waitUntilAvailable()` of the HEC client is one with a time
limit only.
**Parallel** (`parallel.ts`) keeps `next()` in one step, including
tasks that abort the handle or throw while it runs, and separates the settling of a
task from the callback that frees its slot. **RaceAll** (`abort.ts`, `signal.ts`)
puts a `parallel()` inside `withAbort()` inside `raceAll()`: `OuterSettles` is the
promise of `withAbort()`, `OuterAborts` the reaction that aborts its handle,
`RaceSettles` the end of the race with the abort of every contestant, and `rival` a
contestant that settles at will or is `rejectOnFirstSignal()`.

**LruCache** (`lru.ts`) has the two generations and the count; **CachedAsync**
(`cache.ts`) has the callers up to, between and after their awaits, and `Invalidate`
and `Prime` for other users of the same cache. **CacheStore** is the promise of a
cache: a lookup finds what was stored last and not removed, or nothing, and what was
forgotten is not remembered. `null` and `undefined` are excluded as values, since the
cache cannot tell them from an absent entry.

**ShutdownAll** (`resource.ts`) is `shutdownAll()` with a clock, in the order of its
resources. **ScraperApp** (`index.ts`, `scrape.ts` of the program, `scrape.ts` of the
package) has the scrape loop, the attempts of the scrape it waits for, `main()`, an
instance of AbortHandle, and an instance of HecClient whose steps are the client's own
and whose one caller is `main()`. The retry loop of a scrape has no abort handle: a
scrape that was left by an abort keeps running and retrying, as in the code. The first
scrape may be refused for its URL, before any attempt (`ScrapeRefused`). One scrape
pushes at most one multi-metric. Between the end of `hec.shutdown()` and
`process.exit()` nothing else gets its turn.

**PrometheusParser** (`parser/index.ts`, `line.ts`) reads a text line by line; a
line is what `parseLine()` makes of it, and a sample's value is its line number, so
that a property can say where a value came from; `nan` says that the value is NaN,
which the conversion filters out (`isValid`). Names are sequences of parts, so
that the suffix rules are those of the code. A line that throws leaves behind what it
had already changed. **MultiMetrics** (`convert/`) continues with the conversion
and, one HEC metric per step, the merging. Label values are sequences of tokens,
among them `;` and `=`, since the identifier of an object joins them unescaped. A
quantile becomes one more part of the name, `p` with two digits
(`quantileToMetricSuffix`), of which `Percent` is the number, so that the median of a
summary `x` and a gauge `x_p50` have one name, as in the code.
**HecMessages** (`client.ts`, `serialize.ts`) is the last stretch: `pushMetrics()`
with the default fields, the two formats and the field names that the single-metric
format reserves.

**StatsCollector** (`stats.ts`, and the `flushStats()` of the HEC client's
aggregates) has the timer with its handle, `next()` cut at each call of a source and
of the destination, and the program's own calls in between. **AggregateMetric**
(`aggregate.ts`) is the percentile, in hundredths, so that no fraction is lost.

**Release** (`build-publish-container/src`) has the jobs: `Start` (the checkout, with
the tags there are), `PushPrerelease`, `ReadTags`, one `PublishTag` for each tag,
`FetchRelease`, `PatchRelease`, and `Fail` at any command. A push or a PATCH can also
take effect and fail the job, when its answer is lost. Tags and notes also change
by `PushTag` and `WriteNotes`, the people of the repository. **AnchoredText** is the
text arithmetic on the notes. git, docker, the registry and the API of GitHub are
modelled from what the action asks of them.

## What the runs check

| Run | Distinct states | Question |
| --- | --- | --- |
| `hec_client` | 3.4 million | Both limits, timer, compression, retries, two callers of `flush()` and `shutdown()` at once: is every accepted message in exactly one place and in order (`NothingLostOrDoubled`), does the timer run exactly while messages wait (`TimerArmed`), do bodies and batches keep to their limits (`BodiesWithinSizeLimit`, `EntriesWithinLimit`), does a resolved `flush()` mean delivery (`FlushDelivers`), do aborted flights post nothing more, so that HEC takes in only what was on the wire before (`AbortStopsPosting`), is a drained shutdown quiet (`DrainedShutdownIsQuiet`)? |
| `hec_delivery` | 38 thousand | HecClient implements HecDelivery (`ImplementsDelivery`). Aborted flights settle even if HEC never answers (`AbortedFlightsSettle`); when HEC is up for good every message arrives (`MessagesReachHec`) and `flush()` returns (`FlushReturns`). |
| `retry_loops` | 5 thousand | Two loops under one handle, one limited by attempts and one by time, with tasks and callbacks that may fire it or throw: `EveryAwaitIsAbortable`, `AttemptsDoNotOverlap`, `AbortIsHeeded`, and that an abort (`AbortSettles`) or either limit (`RetryEnds`) brings them to their end. |
| `parallel_tasks` | 98 thousand | Four tasks, two slots, inside a race that either side may win: `ConcurrencyLimit`, `NoIdleSlot`, `StartsInOrderUntilAbort`, every task gets its turn (`EveryTaskIsRun`), and once the race is over its losers start nothing (`LosersStartNothing`) and settle (`LosersSettle`). |
| `cached_async` | 492 thousand | Three callers and other users of a cache that evicts: `FailureIsNotCached`, `OneProducerPerKey`, `KeepsRecentlyUsed`, and the refinement of CacheStore (`ImplementsStore`). |
| `scraper_app` | 13 thousand | The whole program: the client closes after the loop (`NoPushIsRefused`), a clean exit leaves nothing in the air (`CleanExitIsQuiet`), scrapes with their retries do not overlap (`ScrapesDoNotOverlap`), and the process exits although nobody answers (`ProcessExits`). |
| `multi_metrics` | 670 thousand | Every text of up to four lines out of fifteen, under three sets of options and both formats, from its lines to the messages for HEC: `GroupsStayTogether`, `SamplesCountedOnce`, and that what is converted arrives, nothing else does, and each number of an unambiguous text does with its own labels over the defaults (`SamplesReachHec`). |
| `stats_collector` | 184 thousand | Two sources that may throw, be added and call back at any point of `next()`: one timer at most, none after a shutdown (`OneTimer`), no measurement lost or doubled (`MeasuredOnce`), percentiles in order (`PercentilesInOrder`), and what a source holds is reported (`EverythingIsReported`). |
| `release` | 1.8 million | Two jobs, failing anywhere, before or after a request has taken effect, on two commits with three versions: `TagsNameTheirLine`, `LatestMovesForward`, `NotesKeepText`. |

`hec_attempts`, `shutdown_time` and `collapse_dimensions` are expected to fail; they
are [below](#where-code-and-documentation-disagree).

The conditions in the properties are deliberate.

- `DrainedShutdownIsQuiet` speaks of a shutdown that had something to wait for:
  `shutdown()` without a time does not flush, leaves its queue behind with a running
  timer, and the flight the timer starts is not aborted by anyone.
- `NoIdleSlot` and `EveryTaskIsRun` exclude tasks that throw instead of returning a
  promise, which keep their slot.
- `OneProducerPerKey` excludes keys whose entry was evicted, replaced or removed by
  others while their producer ran; then a second producer is what the code does.
- `AbortStopsPosting` is about what the client does. It allows HEC to take in a request
  that was on the wire when its flight was aborted, or that had timed out before: the
  code closes the socket and cannot do more.
- `AbortIsHeeded` allows the one task that is called although the handle has fired: that
  of an attempt whose own `onRetry` (or the task itself, as it is called) fires it, which
  `retry.ts:68-70` does not look at again. The property says that nothing else begins and
  that this task is not waited for.
- `ScrapesDoNotOverlap` lets the loop fail without an attempt only for a URL that
  `new URL()` refuses.
- `SamplesReachHec` has three parts. Every HEC metric arrives, or an earlier one of its
  name and identifier, and every measurement of a message is such a metric under its name
  (`MetricsArrive`). Messages carry numbers of samples only, never NaN, and not too many
  (`OnlySamplesArrive`). And every sample that was found and is a number arrives with its
  own labels, unless an earlier one of its series does (`SamplesArrive`). The first two
  are checked of every text. The third supposes `failOnDuplicateTypeInfo`: without it a
  type declared anew between two samples can put quantiles among the buckets of a
  histogram. It also supposes that the text is not ambiguous to the code
  (`SeriesStayApart`): a sum or count with a label `le`, the quantiles 0 and 1 of one
  summary, a gauge `x_p50` beside the median of a summary `x`, and labels whose
  identifiers coincide lose a sample. The texts of the run have the summary and the gauge,
  so that the condition is false of some of them and needed: without it TLC finds the
  gauge lost. The text of `collapse_dimensions` is another. `OnlySamplesArrive` allows an
  object one measurement more than `maxMetrics`, and `EntriesWithinLimit` a batch one
  entry more than `maxQueueEntries`, which is what `>` in the code gives.
- `MeasuredOnce` and `EverythingIsReported` exclude runs in which an exception has
  left `next()`, and sources registered under one prefix.
- `LatestMovesForward` lets `latest` fall back by a job whose clone is older than the
  tag of the newer version. `TagsNameTheirLine` holds of each tag by itself: a line half of
  whose tags name a new image and half an old one satisfies it. `NotesKeepText` excludes
  notes edited between the two requests of a job, and notes whose anchors are not in
  order.

## Bounds

Every bound is a constant of the module it bounds and is used in a guard.

- *HEC*: `MaxPushes` 3 messages in the safety run, so that batches of one and two
  messages and up to three flights overlap; sizes 1 and 2 against a limit of 2 (fits,
  exactly fits, overflows an occupied queue, alone in the queue). `AttemptCap` stops
  the attempt counter; `AttemptAssumption` (it exceeds `MaxRetries`) keeps the
  comparison with `maxRetries` what it is. Two callers, so that a flush meets a
  shutdown and a shutdown another.
- *Retry*: two loops, one limited to two attempts, one to a time of one unit (with its
  attempt counter stopped by `AttemptCap`); `elapsed` stops beyond the limit, after
  which the code tells no difference. *Parallel*: four tasks on two slots, so that slots
  are reused twice.
- *Cache*: `maxSize` 2, three keys, four promises: generations change, entries are
  promoted, evicted and displaced. Keys and callers are symmetric (no liveness is
  checked there).
- *Program*: two messages, each a batch of its own; a clock of `TimeCap` 2 around
  `MaxTime` 1, before, at and after the limit; a scrape of two attempts, so that one
  may be left waiting for the second.
- *Parser*: four lines suffice for declaration, sample, interruption, sample. The
  texts declare types of `x`, and `x_sum` as a counter of its own beside it; that two
  histograms are nested (`x` and `x_sum`) is not among them. `maxMetrics` is 1, so that
  objects overflow and reopen. The default fields give a label that samples have, too,
  and one they do not have.
- *Stats*: `MaxSources` 2 registrations of two sources, three measurements, two of them
  equal; two timers are enough for one to be stray.
- *Release*: two jobs, which may be of one commit (a job run again) or of two; a
  release, a pre-release and another release of one line; a version may have notes,
  with and without a section and with a section whose end is lost. Commits are
  symmetric (no liveness is checked there).

The proofs below have no bounds other than the named assumptions; `MaxPushes`,
`MaxFlights`, `MaxJobs` and the like are arbitrary there.

## Fairness

Weak fairness is given to what node's event loop guarantees: reactions of settled
promises, timers that are due (`TimerFires`, `WakeUp`, `SleepEnds`, `DrainEnds`), the
end of a compression, the end of a request, which the client limits by
`config.timeout`, the passing of time for a loop of `retry()` (`Tick`), and the steps of
a handler that has begun (`HandlerStep`). Nothing is assumed of callers, of the
application's pushes, of signals, or of the rival in a race; nor are `OuterAborts` and
`RaceSettles`, so that the abort may be late and the queue must be worked off without
it. What depends on others is an antecedent of the property that needs it: `HecRecovers`
(HEC takes in and answers a request that is made again and again: strong fairness,
because failures may intervene) for `MessagesReachHec` and `FlushReturns`, `TasksSettle`
for `RetryEnds` and `EveryTaskIsRun`. `AbortSettles`, `LosersSettle`,
`AbortedFlightsSettle` and `ProcessExits` need none of them: they hold with HEC,
Prometheus and every task hanging for ever. Release has no fairness: a job may stop at
any point for good.

## What is proved

Eight modules; each theorem holds for every value of the constants that satisfies the
named assumptions (`ConfigAssumption`, `AttemptAssumption`, `RetryAssumption`,
`ParallelAssumption`, `CacheAssumption`, `FlightAssumption`, `ShutdownAssumption`,
`TwoResources`, `ScrapeAssumption`, `StatsAssumption`, `ReleaseAssumption`,
`ParserAssumption`, `MaxMetricsAssumption`). Wherever a property below is also checked
by a run, the run is its small instance. Every safety
property that a passing run checks has its theorem.

Some of the proofs need an induction over data: the bytes of a batch, the ranks of a
sorted list, the concatenation of the HEC metrics of all samples. The library states
induction for a predicate that is a parameter, which the installed provers cannot
instantiate, but the same can be said of a set: that every nonempty set of natural
numbers has a least element (`LeastNatural`) follows from the well-foundedness of `<`,
and from it that a set with 0 and with every successor has every number
(`SetInduction`). A proof by induction gives the set of the numbers for which the claim
is true.

- **HecClientProofs**: `TypeCorrect`, `NothingIsLostOrDoubled`, `TimerIsArmed`,
  `RunningFlightsStayActive`, `AbortsStopPosting`, `FlushMeansDelivered`,
  `DrainedShutdownStaysQuiet`. The invariant `IInv` has five parts, each proved with
  the ones before it. `TypeInv` adds to the types that flights and queued messages
  together are no more than pushes (else a flush could run out of flight numbers).
  `QueueInv` adds to order and place that every batch precedes the queue.
  `FlightInv` says what a phase implies (used, compressing only under gzip, received
  once accepted, aborted only when closed and never while posted) and that running
  flights are active. What lingers on the wire needs no invariant: no request is added to
  it but by giving up one that was posted, and an aborted flight has none.
  `ShutdownsClose`: a caller that has shut down finds the client closed. `CallInv` is
  what each caller knows: the flights it waits for cover every message it marked, and a
  drained shutdown left no flight unaborted. The lemma `StepKeepsFlights` (messages of a
  flight never change, settled flights stay settled, a closed client with an empty queue
  stays so) carries it over the steps of others. From `IInv`, in particular that no two
  flights carry the same message, follows `ClientImplementsDelivery`, the refinement of
  HecDelivery: the messages of fulfilled flights are confirmed, those of rejected ones
  abandoned. `EntriesStayWithinLimit` and `BodiesStayWithinSizeLimit` are the two
  limits; the second is an induction over the batch, since `queueSizeBytes` is kept up
  to date by additions and the property speaks of a sum.
- **RetryProofs**: `RetryTypeCorrect`, `AwaitsAreAbortable`, `AttemptsAreSequential`,
  `OutcomesAreEarned`, `AbortStopsAttempts`. The invariant adds `PlacesOK` (what is
  known between the end of a race and its continuation); it is split into one
  condition per loop (`LoopByLoop`), so that a step is examined for the loop that
  takes it and shown to leave the others alone.
- **ParallelProofs**: `ParallelTypeCorrect`, `LimitHolds`, `SlotsAreUsed`,
  `TasksStartInOrder`. Tasks are taken in order, and `running` is the number taken
  minus the number given back; the running tasks are among those taken and not given
  back, so their number is at most `running`, and a task that is over and has not
  given its slot back shows that `running` is not 0. `RaceImplementsParallel`: inside
  a race the pool is still a `parallel()`, so that these theorems hold there, too;
  `LosersAreIdle` follows, since `RaceInv` says that the handle has fired by the time
  the race is over or the promise of `withAbort()` has had its reaction.
- **CacheProofs**: `CacheTypeCorrect`, `FailuresLeaveTheCache`, `ProducersAreShared`,
  `CacheImplementsStore`, `RecentlyUsedAreKept`. First what each cache call does to the
  two generations:
  nothing comes in but the value set, and others stay or are dropped. The invariant:
  a promise has one owner; an entry that may still fail has an owner on the way to
  remove it; and, unless others interfered with a key, lookups find the promise of
  its owner. `RecentlyUsedAreKept` needs an invariant of its own: of the
  keys in the order of their last use, one beginning covers the young generation and
  all of it is there with current values, and one of at least `maxSize` keys, or the
  whole, is still found in one of the generations (`RecentInv`).
- **ScraperAppProofs**: `ClientClosesLast`, `ScrapesAreSequential` from `AppInv`: a
  scrape runs only while the loop races it or was left by an abort. `ClientIsDriven`
  is a refinement: whatever the program does, what the HEC client sees of it is a
  behaviour of HecClient. So what HecClientProofs proves holds of the client inside
  the program, by substituting one theorem in another (which is done here and not by
  tlapm, where the theorems of an instance cannot be cited).
  `CleanExitLeavesNothing` joins `DrainedShutdownIsQuiet` with
  `CloseInv`, which ties the position of `main()` in `shutdownAll()` to the state of
  the loop and of the client's one call.
- **StatsCollectorProofs**: `StatsTypeCorrect`; `TimerIsKnown`;
  `MeasurementsAreCountedOnce`, whose invariant adds where `next()` stands among the
  sources (`Position`) and that a prefix beyond that place has no report yet
  (`ReportedBefore`), so that nothing is overwritten. `PercentilesAreInOrder` is a fact
  about the operator for every sorted list and every two percentages, and
  `ReportsAreInOrder` that what a source reports is in order, since the values of any
  set of measurements have their ranks and are sorted (`ValuesHaveRank`, by induction
  over the ranks, `ValuesSorted`).
- **PipelineProofs** is about texts of any length made of any lines. `ParserInv` proves
  `GroupsAreTogether` and `SamplesAreCountedOnce`: types come from declarations of the
  text (`DeclaredByLines`), no line is in two metrics (`LinesHeldOnce`), a histogram or
  summary that holds the last line is still being gathered (`LastLineIsGathered`; else
  the next line could not join it), its sum and count are lines of its own name and
  labels (`SumAndCountBelong`; what replaces them later supersedes no other sample), and
  each sample is held, superseded or without its threshold (`NoneIsLost`).
  `HecMetricsAreSamples`: the values of the converted metrics are the lines found, by
  induction over the concatenation. `CollapseInv` says of every object that one of the
  metrics merged so far gave it its fields and others of the same identifier its
  measurements, and of every such metric that it, or an earlier one like it, gave some
  object its value. With `SentInv` follow `MetricsReachHec` and, with `ProgressInv`,
  `PipelineTypeCorrect` and `ObjectsStayWithinLimit`.

  `EverySampleReachesHec` joins the two ends: `SamplesReachHec` holds of every text, its part
  on the arrival of every number under `SeriesStayApart`. `ParserInv` says only where
  lines are held, so it takes a second invariant, `FaithfulInv` (`MetricsAreFaithful`):
  every metric found has the name and labels of each of its lines, with the suffix its
  part must have, its buckets are in the order of the text, and metrics are found in
  that order. It also ties the metric being gathered to its declaration, since a line
  joins it by its name alone; that is where `failOnDuplicateTypeInfo` is needed.
  Conversion keeps the order (`ConvertedInOrder`, on `ConcatOrder`: the concatenation of
  sequences in order is in order) and gives each HEC metric the fields and name of its
  line (`HecMetricsFaithful`). Then an earlier metric of the same name and identifier,
  which is what displaces one when they are merged, is an earlier line, and by
  `SeriesStayApart` of the same series (`SamplesArriveApart`).
- **ReleaseProofs**: `ReleaseTypeCorrect`, `TagsNameOwnLine`, `LatestGoesForward`,
  `NotesAreKept`. Two of the properties relate tags in the registry to jobs that ended
  long ago, so `IInv` says of each job what it may still push: its clone is a past of
  the repository's tags (`CloneIsPast`), its version is one its clone has for its commit
  (`VersionIsOwn`), what is left to push are beginnings of it (`TodoIsLine`), and
  `latest` is among them only if no version of the clone is newer (`TodoIsLatest`); and
  every published tag is by a job that took it from there (`PublishedByJobs`).
  `NotesAreKept` is about every text: `ReplacedSection` and the lemma for notes without
  a section compute what `NewBody` makes of it and what is outside of its section.

Only model-checked: all liveness, which is out of the prover's reach, as is ENABLED;
and, for texts other than those `SeriesStayApart` admits, nothing is said about which of
two samples of one name and identifier should arrive: `MetricsReachHec` proves of every
text that only such a pair displaces one another, and that the earlier one arrives.

## Where code and documentation disagree

- `config.ts:46` calls `maxRetries` the "Maximum number of attempts to send a batch".
  At `client.ts:328` the catch block merely skips the wait when retries are used up:
  the loop goes on, at once and for ever (`hec_attempts`, `AttemptsWithinLimit`).
- `shutdownAll()` subtracts the wrong way round (`resource.ts:15`): while time is
  left a resource is told no limit. The HEC client then does not flush
  (`client.ts:168`), so the scraper program drops what is queued when it exits
  (`shutdown_time`, `TimeLeftIsGranted`).
- `collapse.ts:46` merges metrics "based on their dimensions"; the identifier
  (`collapse.ts:25`) joins keys and values unescaped, so different dimensions can
  share one (`collapse_dimensions`, `DimensionsKept`).

## What else came to light

Behaviour of the code that the models have and no property forbids.

- *retry()*: the time limit is compared before the delay (`retry.ts:85`), so an
  attempt may begin after it; `retry.ts:32` says that after the timeout "no more retry
  attempts will be made". An `onRetry` that aborts the handle does not keep its attempt
  from starting: `task()` is called next (`retry.ts:68-70`), and then left running.
- *raceAll() and withAbort()*: the object `withAbort()` returns has `then` without its
  promise (`abort.ts:122`), so that awaiting it throws a `TypeError` and a race it is
  part of is over at once. `rejectOnFirstSignal()` (`signal.ts:79`) never gives its
  handlers to the process, since nothing calls `listen()`: no signal reaches it.
- *stats collector*: an exception in `next()` (a source whose aggregates were not
  enabled, a destination that was shut down) stops collection for good
  (`stats.ts:59`); of two sources under one prefix one is lost (`stats.ts:64`).
- *build action*: any tag that begins like a version and is none makes every release
  fail (`tag.ts`, which parses all of them); while the greatest tag is a pre-release no
  release becomes `latest`; the tags of a major and minor version are
  moved back when an older patch is built; the pull that should warm the build cache
  names a tag of the pre-release package that is never pushed; a job that fails between
  two tags leaves the line half-moved; the answer to the PATCH of the notes is not
  looked at, edits made since they were fetched are overwritten, and a section that has
  lost its end takes the rest of the notes with it (`index.ts:120`).
- *scrape*: the header for basic authentication (`scrape.ts:59`) is the encoded name and
  password alone, without the scheme `Basic`.
- *parser*: suffixes are stripped in turn (`parser/index.ts:137`), so that a text that
  declares histograms `x` and `x_sum` is refused at `x_sum_bucket`, which is taken for
  a sample of `x`; a line with an unexpected suffix throws after the current metric was
  replaced (`parser/index.ts:239`), so that a lenient parser emits a metric with
  nothing in it.
- *conversion*: the buckets of a histogram are sent under the histogram's name with the
  label `le` (`convert/`). A sample `a{le="1"}` that comes before `# TYPE a histogram`
  is an untyped metric of the same name and fields as the bucket `a_bucket{le="1"}`
  after it, and the bucket is dropped when they are merged (`collapse.ts:64`); a label
  `le` of a sum or count is left out with that of the buckets. The name of a quantile
  keeps the last two digits of its percents (`summary.ts:14`): the quantiles 0 and 1,
  the least and the greatest value, are both `_p00`, and of a summary that reports both
  the second is dropped; so is a gauge `x_p50` beside the median of `x` if it comes later.
  NaN samples (`line.ts:41`) are dropped without a trace (`convert/index.ts:17`). An
  object may have one measurement more than `maxMetrics` (`collapse.ts:69`), which
  `collapse.ts:8` calls the "Maximum number of metric values". The percents are a
  floating-point product rounded down, so that 0.29 is `_p28` and 0.57 is `_p56`, as
  0.28 and 0.56 are.

## Not modelled

The rest of the code has no state that more than one step could bring into disorder,
or is the work of others.

- *HEC client*: `clone()` and `checkAvailable()` change nothing; the byte and message
  counters of `flushStats()`; events (their serialization has one format), time
  stamps, metadata, and the defaults and checks of the configuration (`config.ts`),
  which are data read once.
- *Async tasks*: the arithmetic of `waitTime` (a delay is a step, however long) and
  one-line helpers.
- *Cache*: `cached()` (a synchronous `get`/`set`), `NoopCache`, hit and miss counters.
- *Signals*: `waitForSignal()` is the possibility of a signal at any time;
  `dispose()` has nothing to dispose of, since no handler is ever registered.
- *Scraping, parser and conversion*: request headers and TLS options, regular
  expressions, label syntax, time stamps, fractions of a percent in quantiles, the
  contents of help texts, metadata, name prefixes; label names occur once per sample.
- *Statistics*: `disable()` of an aggregate, average and sum; `system.ts`, which reads
  numbers of the operating system.
- *Build action*: the parameters of docker and git, and the search for the package's
  page, which decides only the link in the notes.
- *Logging, scripts*: output, and files rewritten once by one process.
- *Integration tests and their helpers* (`hec-client/integration`): they start and
  stop a Splunk in docker, and are tests of the code, not part of it.
