# A TLA+ model of go-opentelemetry

This directory specifies, model-checks and proves properties of the telemetry
SDK in this repository: how spans and log records get from the
application to the collector, and what happens to them when queues fill up,
exports fail, connections break and the process shuts down; which calls are
traced, counted and logged; and how the parts are set up, registered, scraped
and shut down. Line numbers refer
to the source as it is in this repository. `PROJECT.json` maps every definition
to the lines it stands for.

1. [The system](#the-system)
2. [Modules](#modules)
3. [Runs](#runs)
4. [Fairness](#fairness)
5. [Proofs](#proofs)
6. [Where code and comments disagree](#where-code-and-comments-disagree)
7. [Abstractions](#abstractions)
8. [Not modelled](#not-modelled)
9. [Plan](#plan)

## The system

```
 application / tRPC filters
   |  span.End            |  logger.Log            |  log.Info (zap)         |  counters
   v                      v                        v                         v
 DeferredSampleProcessor  sdk/log Logger           otelzap core, Write      sdk/metric reporters
   |  OnEnd               |  Enqueue               |  Enqueue, Sync          |
   v                      v                        v                         v
 batchSpanProcessor       BatchProcessor           BatchWriteSyncer         Prometheus registry
   |  ExportSpans         |  ExportLogs            |  ExportLogs             |  Gather, Push
   v                      v                        v                         v
 otlptrace exporter       otlp.Exporter            asyncexporter.Exporter   pull, push gateway
                                                   or otlp.Exporter
 remoteConfigurator --> code mapping, server metadata        etcd registry <-- Setup
 sampler daemon ------> Sampler.ShouldSample                 admin hot switch --> trace filters
```

| Component | State it keeps | Operations | What is hard |
|---|---|---|---|
| Batch span processor `sdk/trace/batch_span_processor.go` | channel `queue`, `batch` and its size under `batchMutex`, one `time.Timer`, `stopCh`, `stopOnce`, `stopWait` | `OnEnd`, `ForceFlush`, `Shutdown`; the worker's `processQueue`, `drainQueue`; `exportSpans` by worker and flushers | two kinds of goroutine share batch and timer; the receiver closes the channel its senders use; flush markers travel among the spans; contexts end at any point |
| Asynchronous log exporter `exporter/asyncexporter` | channel `logsBatchCh`, `started`, the connection and client under an RWMutex, `lastConnectErr`, `disconnectedCh`, `stopCh` | `ExportLogs`, the workers' `exportBatches`, `indefiniteBackgroundConnection`, `Shutdown` | connection replaced under RPCs; errors saved and signalled in two steps by many; the order of taking it down |
| OTLP log exporter `exporter/otlp` | the same without channel and workers; `senderMu` | `ExportLogs`, `indefiniteBackgroundConnection`, `Shutdown` | the connection is used without the lock that guards its replacement |
| Log batch processor `sdk/log/batch_processor.go` | channel, batch, timer, `stopCh` | `Enqueue`, `processQueue`, `export`, `drainQueue`, `Shutdown` | closing the channel under a sender panics and ends the process |
| Facade `opentelemetry.go` | global providers, logger | `Setup`, `Shutdown` | one failing shutdown skips the next |
| Retry `exporter/retry` | one backoff per exporter | `RequestFunc` | the backoff is shared and reset only once |
| Zap batch writer `otelzap/writer.go` | channel, batch, timer; no lock | `Write`, `Enqueue`, `Sync`, worker | `Sync` exports on any goroutine; the batch array is reused while an exporter holds it |
| Logger, samplers `sdk/log/logger.go`, `sdk/trace/dyeing_sampler.go`, `fraction.go`, `deferred_sample_processor.go` | dyed attributes refreshed by a daemon | `Log`, `ShouldSample`, `OnEnd` | one decision taken at several places and times |
| Remote configurator, code mapping `sdk/remote`, `config/codes` | last configuration, apply functions, the mapping | `sync`, `RegisterConfigApplyFunc`, `Mapping` | late registration, an order that is none, local and remote codes |
| Log API `api/log` | global logger, the fields a context carries | `With`, `Log` | contexts append to one array |
| Metrics `sdk/metric` | Prometheus vectors, a pusher, an etcd lease | `SetupByConfig`, `DeletePrometheusPush`, `Register`, `Gather`, `Collect`, reporters | goroutines that outlive their cancel; limits that delete series in use |
| Sink of tRPC metrics `oteltrpc/metrics/prometheus` | maps from a hash to a vector | `Report` | reporters racing to make a vector; names that are converted to one |
| Container readers `pkg/runtime`, `pkg/cgroups` | none | quotas and usage | two versions of control groups, read by two parsers |
| tRPC plugin `oteltrpc` | filters, global switches | `Setup`, server, client and stream filters | the interplay of sampling, recovery, flow logs and metrics within a call |

What makes each part correct: a batch processor delivers each accepted item
exactly once and in order, in bounded batches, and leaves nothing behind on
`ForceFlush` and `Shutdown`; an exporter never takes a connection from under an
RPC, never stays disconnected without trying again, and gives its resources
back; a decision about sampling or a return code is the same wherever it is
taken; registration and push come to an end when they are told to.

## Modules

| Module | Role |
|---|---|
| `BatchPipeline` | abstract specification: what a batch processor promises its callers |
| `BatchSpanProcessor` | the trace batch processor; implements `BatchPipeline` |
| `BatchSpanProcessorProofs` | its inductive invariant and theorems |
| `BatchSpanPipelineProofs` | that it implements `BatchPipeline`, and that a flush is complete |
| `CollectorConnection` | the connection that both log exporters keep up, with the background goroutine |
| `AsyncExporter` | the asynchronous exporter: `CollectorConnection` with channel, workers and `Shutdown` |
| `AsyncExporterProofs` | its inductive invariant and theorems |
| `LogBatchProcessor` | the batch processor of the log SDK, its exporter abstract; implements `BatchPipeline` |
| `OtlpExporter` | the synchronous exporter: `CollectorConnection` with `ExportLogs` and `Shutdown` |
| `LogPipeline` | the composition that `setupLog` builds: `LogBatchProcessor` calling an instance of `OtlpExporter` |
| `LogPipelineProofs` | the refinement of `BatchPipeline` by the log processor, and the invariants of processor and exporter together |
| `BatchWriteSyncer` | the zap batch writer: `Write`, `Sync`, the worker, the array that exporters keep |
| `JsonRecord` | what the writer makes of the JSON text of an entry |
| `ZapEncoder` | the protobuf core, whose clones share a record and a buffer |
| `LogWriterSetup` | exporter, options and level of the log plugin, from its configuration |
| `Retry` | the backoff that the exports of an exporter share |
| `ZapLog` | composes the five above |
| `ZapLogProofs` | the invariants of the writer, its array and its timer, of the encoder, and of the retries |
| `Sampling` | the decision at the head, after the end, and for an exemplar |
| `CodeMapping`, `RemoteConfig` | the meaning of return codes; the daemon that replaces it |
| `RpcCall` | a unary call through the trace, metric and recovery filters; uses `Sampling` and `RemoteConfig` |
| `RpcStream` | the stream filters |
| `ContextLog` | the fields of a context, the logger, events of a span |
| `Request` | composes the six above |
| `RequestProofs` | the invariants of calls, streams, codes and lines |
| `Registry` | the registration in etcd |
| `MetricSetup` | `SetupByConfig`, the push gateway; uses `Registry` |
| `ExporterOptions`, `Telemetry` | options of the exporters; the facade's `Setup` and `Shutdown` |
| `PluginSetup` | what the plugin hands to facade and metric SDK, and the admin server |
| `MetricSink` | the sink of tRPC metrics |
| `MetricLimits` | vectors, requests that add to them, and the bounded scrape |
| `ContainerLimits` | CPU and memory limits of a container or host |
| `Control` | composes the seven above |
| `ControlProofs` | the invariants of set-ups and shutdowns, of the series a scrape finds, and of reports; what becomes of settings |
| `SequenceLemmas` | facts about sequences, flattening, sums and folds, and induction over sets of numbers and of sequences, that the proofs share |
| `MC*` | small instances for TLC |

**Conventions.** An operation is cut where another goroutine can see or change
what it touches: at a channel operation, a lock, the read of an atomic, a call of
the exporter. Local computation belongs to the step before or after it. Where a
goroutine is inside an operation is a variable (`worker`, `exp`, `at`, `bg`,
`closer`, ...). A Go channel is its buffer, a flag whether it is closed, and, if
senders wait on it, the FIFO of the parked senders: a receive from a full buffer
moves the first parked item in, as the runtime does. `select` is a choice among
the cases that are ready. A panic that nobody recovers is the state
`"panicked"`, after which nothing happens any more (`Crashed`). `exported` and
`snapshot` are history variables that no step reads.

**BatchSpanProcessor.** `Enqueue` and `Send` are
`enqueueBlockOnQueueFull`: the check of `stopCh`, then the send, which parks,
drops, or meets the closed channel and is recovered. `WorkerRecv`,
`WorkerFlush`, `WorkerAppend`, `WorkerStopTimer` and `WorkerDrainTimer` are the
body of `processQueue`; `DrainRecv` to `DrainEnd` that of `drainQueue`, in which
choosing the `default` case and closing the channel are two steps, as a producer
may get in between. `ResetTimer`, `LockBatch` and `ExportReturn` are
`exportSpans`, run by the worker and by the goroutine each `ForceFlush` starts;
the variable `exp` says where each one is, and whoever is in `"export"` holds
`batchMutex`. `FlushEnqueued` and `FlushReturn` are the rest of `ForceFlush`, and
`exp[f]` goes on after its caller has left with `ctx.Done`. `StopperClose` and
`StopperWait` are the goroutine that the first `Shutdown` starts.

**CollectorConnection.** The two exporters contain the same background goroutine
almost line by line, so it is one module. `SaveError` and `Signal` are the two
halves of `setStateDisconnected`. `BgLock` asks for the write lock and `BgSwap`
gets it when the including module says there is no reader left; in between new
readers wait, as `sync.RWMutex` has it.

**AsyncExporter.** `WorkerRecv` to `WorkerSignal` are `exportBatches` and
`exportLogsInternal`; the steps of a closer are the statements of `Shutdown` in
their order, among them the read of the connection at the start and its close
after the workers are gone.

**LogBatchProcessor, OtlpExporter, LogPipeline.** The processor's worker is the
only caller of `ExportLogs`, and its stopper of `Shutdown`. In `LogPipeline` the
call and the return are joint steps of both components (`CallExporter`,
`ExporterReturns`, `CallShutdown`, `ShutdownReturned`), everything between them
are steps of the exporter alone.

**ZapLog.** `Write` filters and parses, `Enqueue` sends or drops. The worker's
`bp.batch = append(bp.batch, r)` is `AppendLoad` and `AppendStore`, its addition to the
size `AddSize`, as `Sync` may run `export` on another goroutine between them; `export(p)` is
`ResetTimer` to `ZeroSize`, by whichever goroutine. The batch is an array and a length, and
`exports` holds the slices handed out, so that a slice sees what is written to its array
later: with the OTLP exporter until the caller's RPC returns (`OtlpExport`), with the
asynchronous one until a worker of that exporter gets to it (`AsyncExport`). A fatal
entry sets `exited`. In the encoder the record and the buffer are variables of all
loggers and `kvs` is one per logger, as in `Clone`; `Unmarshal` merges what the buffer
holds, as protobuf does. `Retry` counts ticks from `RequestFunc`; several exports
share `interval`.

**Request.** The steps of a call are the filters in their order: the trace filter makes
the span from what `carried` brings, the metric filter starts the reporter, the
recovery filter catches a panic, the handler ends in an `outcome`, then the reporter
and the span are told. A server call makes client calls while it is handled, and
those reach other server calls; the caller may stop waiting. `now` advances meanwhile,
as far as the slow option can tell apart, and `traceStatus` is the hot switch.
`RemoteConfig` cuts the daemon where it takes `mu`, and applies one function per step. The
plugin's `Setup` (`SetupCodes`, `SetMapper`) and the goroutine of `prometheus.Setup` that
registers the owners (`SetServerOwner`, `RegisterOwners`) are two processes beside it; with
metrics off the second does not exist.
A field list of `ContextLog` is a Go slice: an array known by its number, with as many
cells as its capacity, and a length.

**Control.** `keeper` is the place in `Register` and then in its goroutine; every
request to etcd fails, succeeds, or fails for the client and is applied afterwards
(`late`, `LatePut`). `MetricSetup` adds the steps of `SetupByConfig` around it and the
pushing goroutine. `Telemetry` goes through the stages of `Setup` and the parts of
`Shutdown`; a part may fail or be cut short by its context. A report of `MetricSink`
looks a vector up, makes one, stores it or takes the one stored meanwhile, registers
it, and adds, or panics where Prometheus does (`Refuses`). A scrape fails on a vector that
cannot be described or on two series that do not go together (`ScrapeFails`). A request of `MetricLimits` holds the series it has looked up while the
collector deletes it, in which case its addition goes to a series nobody sees
(`"orphan"`). The functions from a configuration to options are operators, and each
configuration looked at is an initial state.

The parts of these three compositions share little state, so `part` names the
one that a behaviour exercises and the others stay as they were. What they do share is
stepped together: calls with sampler daemon and remote configuration, `SetupByConfig`
with the registration and with the vectors, options with set-up and exporters.

## Runs

The runs need between a few seconds and two minutes.

| Run | Instance | Question |
|---|---|---|
| `BspSafety` | two spans (one fills a packet alone), one `ForceFlush` and two `Shutdown`, contexts of the flush and of one shutdown may end, queue 1, batch 2, dropping | nothing lost, duplicated or overtaken; flush and shutdown complete; timer never lost |
| `BspLive` | one span, a flush and a shutdown, queue 1, blocking | everything accepted is exported, every call returns |
| `BspDrainAwaits` | violation | a caller of `OnEnd` loses its span to the drain |
| `BspFlushReturns` | violation | a `ForceFlush` that `Shutdown` overtakes never returns |
| `AsyncSafety` | three batches, two workers, two `Shutdown` (one may be cancelled), three connections, queue 1, symmetric | RPCs keep their connection, no failure is forgotten, no leak, the queue is sent |
| `AsyncLive` | three batches, one worker, one `Shutdown`, two connections | batches settle, the exporter reconnects, `Shutdown` returns |
| `AsyncConnectionsClosed` | violation | a connection survives `Shutdown` |
| `LogPipeline` | two records, two `Shutdown` (one may be cancelled), two connections, queue 1, batch 2 | the composed pipeline: refinement, shutdown, the unlocked use of the connection |
| `LogReportedBeforeExit` | violation | an `Enqueue` racing `Shutdown` ends the process with records unreported |
| `ZapLog` | six configurations of the plugin; three entries, the last fatal, one `Sync`, queue 1 or 2, batch 2, both exporters; two loggers and two entries through the protobuf core; two exports in eight ticks | what a `Sync` or a kept array can cost, and that nothing else does; entries settled; records true to their entry; retries within the time budget |
| `Request` | a server call with every outcome and every set-up; three calls in a chain with the hot switch; a call beside both daemons; four lists of codes with two answers, with and without metrics; two streams; five contexts and two lines | failed calls are kept and logged, exemplars resolve, counters agree, the newest codes are in force, lines tell their trace |
| `Control` | three leases, two outages, six metric configurations; two set-ups and two `Shutdown`; six assignments of records to three reporters, and all pairs of ten records that are wrong in themselves or clash; three deployments with two requests and one scrape; all option lists up to length three; containers and hosts | a cancel ends what it cancels, `Shutdown` tells the truth, nothing counted is lost unnamed, settings arrive as given |

`CHECK_DEADLOCK FALSE` is stated everywhere because these systems stop: after
`Shutdown`, after a panic, when every call has been made, nothing is left to do. That nobody is stuck before
that is what the liveness properties say.

**Bounds.** Every bound is a constant in the configuration; no guard caps
anything else, as each item is handed over once. A queue of one slot makes every
send race for room, and with the item in the worker's hand two items are enough
for a full queue, a parked or dropped sender and an item under way. A batch of
two, with one item that fills a packet alone, is reached by count, by size and by
timer, and the drain can reach the limit as well. A single flush covers
the race of two exporting goroutines, worker and flusher, on the batch and the
timer; that several flushers add nothing for the type, timer, batch and shutdown
invariants is what the proofs say. Two `Shutdown` calls cover `sync.Once`, both orders and the
panic of a second close. Two workers and a background goroutine cover the
races on the error, the signal and the lock; three batches fill the channel
while both workers hold one. Three connections are the one in use, the one
being enabled, and one that a closer still refers to. A connection that is
neither open nor referred to is used again as a new one, so `Conns` bounds how
many are open at a time and not how often the exporter reconnects.
`SYMMETRY` is used only in a run without temporal properties.
In `ZapLog` three entries fill a batch of two, with one being appended or exported while
another comes; a second `Sync` would only repeat what a first does beside the
worker. In `Request` a chain of three calls is the shortest in which a server's client
call reaches another server, so a decision passes through both kinds of metadata. The
lists of codes have a rule with service only, with method only, with both and with
neither; a rule with service only and one with method only are each less than the other. In `Control` a second
outage during the recovery from the first and a third lease while two are expiring are
possible, and the name of an expired lease is used again, so `Leases` bounds only how
many live at once. Two requests and a scrape are the three parties that touch a series.
The `Shutdown` and set-up calls are two each because the second is where global providers
are replaced and results depend on the first.

**What the properties say.** `PipelineSpec` in both processors is refinement:
with `pending` mapped to batch, hand and queue, in that order, every step of the
processor is an accept, a delivery of at most one batch, the close, or a stutter
of `BatchPipeline`. `TimerArmed` is the argument why the unconditional receive
after a failed `timer.Stop` does not hang although flushers reset the same
timer. `FlushComplete` and `ShutdownComplete` compare what was accepted before
the call with what was exported when it returns. `FlushComplete` is about a
flush whose marker went through the queue: when `stopCh` is closed before the
enqueue, `ForceFlush` returns nil after exporting the batch only and leaves what
is queued to the drain. `NoExportAfterShutdown` relates the exporter's
shutdown to flusher goroutines that outlive their call. `InFlightConnOpen`,
`NeverStuckDisconnected` and `NoConnectionLeak` relate workers, background
goroutine and closers of the exporter. `UnlockedUseSafe` is why `ExportLogs` of
the OTLP exporter may read `e.logExporter` without `e.mu`: with the single
caller that the pipeline gives it nobody enables or closes a connection while it
is past the check. The asynchronous exporter, with many callers, takes the read
lock for the same purpose.

`OnlySyncLoses` and `DeliveredIntact` say exactly when the unlocked batch of the zap
writer matters: a record is lost or exported twice only if a `Sync` ran beside the
worker, and the collector gets other records than were handed over only then or with
the asynchronous exporter, which is still to read the array when the worker fills it
again. `WorkerWakesUp` shows that those `Sync`s do not cost the worker its timer, and
`RecordSettled` that a record leaves the queue although nobody ever closes `stopCh`.
`EntryFieldsDelivered`: what earlier entries left in the shared record and buffer never
hides what an entry says: its level, its message, each other field with its kind, and of
the IDs it gives the last of each, unless that is empty, which protobuf does not write.
The two conversions from JSON agree. (The opposite does not hold: attributes and IDs of an
earlier entry may be in a later record.)
`RetriesWithinBudget` is the consequence of a backoff that is reset once: the budget is
counted from the making of the exporter, also for an export that begins when it is spent.

`SpansKept` follows a call from its metadata to the deferred decision: a failed call is
kept and its flow log written unless a rule excludes it, and parent and child agree.
`ExemplarResolves` relates the metric's decision, taken before the span has ended, to
the span's, and names the two cases in which they differ. `StartedHandledAgree` is about
calls and streams together: a panic past the filters is the only way for a call to be
started and never handled, and a stream is handled as often as its user is told that it
ended. `MappingCurrent` compares owner and codes with the last answer and the configured
list, wherever the goroutine that registers the owners is when `Setup` registers the codes
and puts the mapper in force. The comparator is no order, so refreshing may exchange a rule
that names only a service with one that names only a method; that rules naming more come
first, and rules of one kind as configured, holds all the same (`Prioritised`).
`LogsTellTrace` says that a record has the fields of its own context, except
through a sibling that shares the array.

`StoppedForGood`: after a cancel the key is gone and stays gone, even when a put
that was given up is applied late; the caller of the cancel is released wherever the
goroutine was; without a cancel the instance comes back after each outage; a deleted
push ends: the gateway is changed no more from some time on, though one push under way
may come after the delete. `ShutdownReports` is what nil and an error of `Shutdown` mean for the parts
that still run. `CountsAccounted` says that a report or an addition is in the scrape but
for the named reasons: a limit that was found exceeded, a second set-up, and what
`FailuresBlamed` lists. There one report is to blame for a value that is not UTF-8, for a
negative count, for the label `le` of a histogram, and for dimension names that are not valid
and different label names (`BadValue`, `Malformed`); and two are for names converted to one, labels in
another order, a histogram's name with a suffix, and hashes that agree (`OneOfTwo`, `Suffixed`,
`HashOfTwo`). Nothing else makes a report panic or a scrape fail.
`SettingsAgree` compares what the parts are given with the configuration:
the same headers and tenant for all three signals, a log mode that silences calls only
when it says so, buckets that Prometheus takes, an address that serves what it registers,
and limits that are those of the container.

## Fairness

Safety runs assume none. The liveness runs assume:

- *Weak fairness of every goroutine that has been started.* The Go scheduler is
  preemptive and runs what can run. No call has to be made, no context has to
  end, no failure has to happen.
- *Strong fairness of the cases of a `select`* (`WorkerStop`, `WorkerTimer`,
  `WorkerRecv`, `BgStop`): a `select` picks uniformly among its ready cases, so a
  case that is ready again and again is taken.
- *Strong fairness of locks and receivers* (`LockBatch`, `WorkerAppend`,
  `DrainAppend`, `WorkerLock`, `WorkerRecv` of the exporter): a starving
  `sync.Mutex` is handed to its first waiter, a `sync.RWMutex` lets waiting
  readers in before the next writer, a channel serves its receivers in order.
- *Exports return.* In the span processor `ExportTimeout` bounds each one. In
  the asynchronous exporter nothing does: the RPC of a worker has no deadline
  (`exporter.go:164`, `:279`). There it is an assumption about the collector,
  without which `Shutdown` waits for ever whatever its context says.
- *The timer fires* after its period and the pause between connection attempts
  ends.
- *The zap writer* (`RecordSettled`): its worker and the goroutines in `export` run, RPCs
  end, and `select` takes each of its cases now and then. Nobody has to call
  `Write` or `Sync`, and a process that has exited takes no step.
- *Registration and push* (`StoppedForGood`): the keeper, the pushing goroutine and a
  waiting canceller run; pushes return; the `Done` case of the pusher's `select` is
  taken if it is ready again and again; etcd comes back after an outage, lets leases
  that are not kept expire, and is done with late requests some time. Outages are
  bounded. The repository's retry loop is written for an etcd that does come back.

## Proofs

TLAPS checks the theorems for every number of spans, records, batches, workers, callers
and calls, every queue and batch size, all sets of connections, every chain of calls and
every set of inputs. Their assumptions are those on the constants, each named in the
module that declares the constant: sizes are positive naturals, names are distinct,
there is at least one worker, only calls listed may be cancelled, a configuration, an
outcome, a scenario and a rule is a record with the fields of its type, and so is each field of
an entry. TLC evaluates
them in every run.

| Module | Theorem | States |
|---|---|---|
| `BatchSpanProcessorProofs` | `TypeCorrect` | `Spec => []TypeOK` |
| | `TimerNeverLost` | `Spec => []TimerArmed` |
| | `BatchesBounded` | `Spec => []BatchBounded` |
| | `QuietAfterShutdown` | `Spec => []NoExportAfterShutdown` |
| | `ShutdownDrains` | `Spec => []ShutdownComplete` |
| `BatchSpanPipelineProofs` | `SpansImplementPipeline` | `Spec => PipelineSpec` |
| | `FlushIsComplete` | `Spec => []FlushComplete` |
| `AsyncExporterProofs` | `TypeCorrect` | `Spec => []TypeOK` |
| | `RpcsKeepTheirConnection` | `Spec => []InFlightConnOpen` |
| | `FailuresAreSignalled` | `Spec => []NeverStuckDisconnected` |
| | `ReconnectsDoNotLeak` | `Spec => []NoConnectionLeak` |
| | `ShutdownSendsTheQueue` | `Spec => []QueueSent` |
| `LogPipelineProofs` | `PipelineRunsProcessor` | `PipeSpec => Spec` |
| | `LogImplementsPipeline` | `PipeSpec => PipelineSpec` |
| | `ShutdownExportsAccepted` | `PipeSpec => []ShutdownComplete` |
| | `LogPipelineTypeOK` | `PipeSpec => []TypeOK` |
| | `UnlockedUseIsSafe` | `PipeSpec => []UnlockedUseSafe` |
| | `SignalNeverLost` | `PipeSpec => []NeverStuckDisconnected` |
| `ZapLogProofs` | `ZapTypeOK` | `Spec => []TypeOK` |
| | `WorkerWakes` | `Spec => []WorkerWakesUp` |
| | `LossNeedsSync` | `Spec => []OnlySyncLoses` |
| | `SlicesIntact` | `Spec => []DeliveredIntact` |
| | `RetryBudgetKept` | `Spec => []RetriesWithinBudget` |
| | `FieldsReachRecords` | `Spec => []EntryFieldsDelivered` |
| `RequestProofs` | `SpansAreKept` | `Spec => []SpansKept` |
| | `ExemplarsResolve` | `Spec => []ExemplarResolves` |
| | `CountersAgree` | `Spec => []StartedHandledAgree` |
| | `MappingIsCurrent` | `Spec => []MappingCurrent` |
| | `LogsAreTold` | `Spec => []LogsTellTrace` |
| `ControlProofs` | `ShutdownTellsTruth` | `Spec => []ShutdownReports` |
| | `CountsAccountedHolds` | `Spec => []CountsAccounted` |
| | `SettingsAlwaysAgree` | `Spec => []SettingsAgree` |
| | `HashMarks` | the hash of a name and labels has as many separators as labels |

**Span processor.** None of the properties is inductive: each speaks of an
outcome and not of how it comes about. The strengthening is a conjunction whose
parts each have a lemma with one step per action. The parts say that the timer is
armed wherever the worker may wait for it; where the worker is determines
whether it is inside `exportSpans` and whether the batch may be full; at most one
goroutine is in `"export"`; the stopper, the worker and the exporter are taken
down in order, and no batch can become non-empty after the worker's exit; and a
span that was accepted is in the queue, among the parked, in the worker's hand,
in the batch, or exported. `ShutdownComplete` follows because when the worker has
exited all of these places but the last are empty.

The refinement adds the order: what the abstract pipeline has pending are, in this order,
the spans of the batch, of the worker's hand and of the queue. A step
that moves an item from the head of one place to the end of the place before it leaves
this sequence as it is, whatever sizes the places have (`MoveHead`, `SplitConcat`); a
flush marker is dropped by `OnlySpans`. An export delivers a prefix of it, since the batch
comes first. `FlushIsComplete` needs less: what a flush has to wait for is exported, in
the batch, in the hand, or ahead of its marker in the queue (`Ahead`). So when the worker
handles the marker, only the batch is left, which the flusher exports before it returns
(`FlushAt`).

**Log processor and OTLP exporter.** `PipelineRunsProcessor` projects the composition on
the processor, of which the exporter sees only calls and returns; so the processor's
invariants and its refinement are proved once, without the exporter. `Connected`
relates the two: the exporter is inside `ExportLogs` exactly when the worker waits for
it, and `Shutdown` is called by a stopper that has seen the worker exit. The exporter is
connected, or its sender about to signal a failure, only while nobody has signalled and the background
goroutine is between its attempts (`Calm`); and a single sender that has found no error saved
is the only one that could save one. So nobody enables or closes a connection
until the sender is done: this is `UnlockedUseSafe`.

**Asynchronous exporter.** The strengthening adds to the type invariant:
`DialInv`, the dialed connection is open, not the current one, and not referred
to by anyone else; `CurrentInv`, as long as a worker is left the current connection,
if there is one, is open, and the RPCs run on it; `ExitInv`, a closer past the wait means the
channel is closed and empty and every worker has exited; `PlaceInv`, each
batch is where its call says it is. `NeverStuckDisconnected` is preserved because
the error is saved before the signal is given, and the only step that consumes
the signal leads to an attempt that gives it again or clears the error.

**Zap writer.** The timer's invariant holds with any number of `Sync`s: who found it
expired has its tick, and each `Sync` leaves it armed. The other two are invariants only
as long as no `Sync` has been called. Then the worker is alone with batch, length and size; the
array agrees with what the worker has put there up to the length, the slice of a call
under way is that array up to the length of then, and a record the worker has taken is
in its hand, below the length, or handed over, once.

**Encoder.** `EncodeEntry` and `convertToRecordV2` fold over the fields of an entry. A fold
is known by its values along the list: the start, and each from the one before
(`FoldValues`, `FoldsExist`). What one step keeps, the steps after it keep (`Follows`,
`ChainSteps`): an attribute that was added stays, the flag stays set, an ID stays until a
field with the same name gives another. So every field that no later one
replaces is in the last value. It is then in what is decoded from the bytes of all entries,
whatever the ones before wrote, because the last of several scalars counts and lists
are joined (`Unmarshal`). For JSON the attributes are
followed along the fields of the object in the same way (`TagsKept`); what else a record has
both conversions take from the last field of a key. The invariant `EncoderInv` adds that there is a record enqueued, and one in the buffer, for each entry written.

**Retries.** The invariant is that a
waiting call wakes before the budget ends: `Fail` asks `Elapsed` with the wait added to the
time that has passed, and the clock does not pass a wait that has ended.

**Requests.** `CallInv` says, for each place of a call in the filters, which of its span,
its reporter and its outcome exist and how they are related: the metadata a call carries
is that of its caller's span and head decision, a span and its call have one start, and
what is told to the reporter is what the span was told, but for the codes, which either
looks up under its own name and at its own time. `SpansKept` and `ExemplarResolves`
follow from the definitions of the deferred sampler and of the two exemplar rules. For
streams the number of handled ones is the cardinality of the set of answers, to which each
answer adds one element. For the codes the proof needs that the insertion sort permutes, that
it puts what names more first although the comparator is no order (`LessOpen`: an element
is put before others only if it leaves no more open), and that an element goes behind those that name
the same (`InsertPrecedes`), however often a list is sorted (`SortPrioritised`);
`SortSlice` and `Insert` are recursive functions, and these facts are proved by induction over
the length. `ConfigInv` then says for each function whether it was applied to the last
answer, is about to be, or is not registered. For `LogsTellTrace` the invariant follows
every field list as a slice: of two contexts whose slices are in one array, either one derives
from the other and is no shorter (`Behind`), or siblings are on the way to both. A context
without siblings therefore still holds what it was given when another appends to its array.

**Facade.** A part that was started is reached by the global providers, or belongs to a
set-up that failed or is under way; the parts that `Shutdown` has passed are shut or were
given up by an earlier call. Each set-up replaces the global providers in the order of
its stages, which is why the invariant compares numbers of set-ups.

**Metrics.** `MetricInv` is a conjunction of five invariants, two about the RPC metrics and
three about the sink of tRPC metrics.

- `KeptInv`: a request that holds a series counts, and the series is there; one whose
  series is gone, or whose vector is not registered, has a family that a scrape has found above
  a limit (`Wiped`) or that a second set-up moved (`Moved`); and a collector that is about
  to delete series has raised its alert first. A deletion therefore makes an orphan only of
  a request whose family is `Wiped`, and whatever is added is in the series or excused.
- `AnswerInv`: `Gather` answers with the families before `Cut`, the first whose running
  total is above the limit, so what is answered is the total before it (`SumPart`);
  a truncated family keeps as many series as the limit says (`TruncateSize`).
- `StoreInv`: under each key is the plain vector or one that a report of that key made,
  it never changes, and what a reporter holds from its look-up on is what is stored. Hence
  no race to make a vector leaves a report with one that is not scraped.
- `CountInv`: the series summed are those of the reports that have returned, and each is the
  sum, the number or a value of the reports of its key and values. `Add` adds one
  report and one summand; a vector determines its key (`KeyDetermined`), so no other
  series changes.
- `BlameInv`: every histogram is registered, about to be, or refused because it cannot be
  described or another one is exposed under its name; and who panicked has a reason to
  (`PanicBlame`). That the number of labels is not the vector's takes, for a counter or
  gauge, two label lists of different lengths with one hash. If the names are clean
  `HashMarks` excludes it, and what can be described is clean (`DescribedClean`). For a
  histogram, which is found by its name alone, it needs a second report.
  `Blamed` derives `FailuresBlamed`: a vector in a scrape is stored, so a report made it
  (`ScrapedStored`), and what is wrong with the vector or between two series is wrong with
  these reports (`UndescribedBlamed`, `ClashBlamed`, `SuffixBlamed`); that vectors of different kinds are exposed apart follows
  from the third word of their prefixes (`ExposedKind`), whatever the names are converted to.

The assumptions: reporters are positive numbers, records have the fields of their type with
any texts, the byte 255 is one that UTF-8 does not have and the word "histogram" is in UTF-8,
readings are strings,
families are a list that is not empty, series keys are a finite set of numbers.

**Settings.** No step changes the setting, so the theorem is one about the functions that turn a
configuration into what the parts are given, for every setting (`EverySettingAgrees`). The options of a
list are applied one after the other; the configurations in between exist for lists of any length
(`ExporterStepsExist`, `SetupStepsExist`, `MetricStepsExist`), and a field that no option
after the n-th touches is at the end what it was after the n-th (`LastChange`). So the last option that sets a tenant
decides what the exporters send, and the fixed lists the plugin builds give each field what is
configured for it. Bounds that are filtered by comparing neighbours grow as a whole (`Grows`). For
the containers, the path of the process relative to the root of the mount is what is below the group
(`PathBelow`), so both packages find the files of the limits wherever the group is (`GroupsV1`).

`SettingsAssumption` says what a setting is: options with the names there are, a push configuration
with its fields and a whole number as interval, bounds up to infinity and usable default bounds, a
machine with positive numbers of CPUs and bytes. A container is one whose group, mounts and
files the kernel shows as `LimitedV1` or `LimitedV2` says; about any other machine
only `GaugesPlausible` is stated.

**Induction.** The theorems of the library that take an operator cannot be instantiated
by the provers here. `SequenceLemmas` states induction over a set instead
(`NatSetInduction`, `SeqSetInduction`): a set of naturals that has 0 and with each
number the next is `Nat`. An induction then is about the set of numbers, or sequences,
for which the claim holds. This is also why recursive helpers are functions.

**Only model-checked.** Liveness, which is out of the prover's reach: `EventuallyExported`, the
properties that a call returns, `BatchSettled`, `Reattempted`, `RecordSettled`,
`StoppedForGood`.

## Where code and comments disagree

The first four are runs that expect a violation; `PROJECT.json` quotes the lines.

- `DrainAwaitsCallers`. The comment of `drainQueue` says it awaits callers that
  have added to `stopWait`; none does. A caller past the check of `stopCh` panics
  on the closed channel, recovers, and its span is neither exported nor counted
  as dropped.
- `FlushAlwaysReturns`. `drainQueue` treats a flush marker as a span: it is handed
  to the exporter and its `ForceFlush` never returns if its context never ends.
- `ConnectionsClosed`. `Shutdown` of the asynchronous exporter closes the
  connection it read at its start; one that the background goroutine enables, or
  dials and forgets, in the meantime is not closed.
- `ReportedBeforeExit`. `Enqueue` of the log processor has no recover: racing
  `Shutdown` it ends the process while accepted records are unreported.

The rest was met while modelling. The models do what the code does, and the
properties name it as an exception.

*Exports.*
- `asyncexporter/exporter.go:251`: a second `Shutdown` that starts before the first has cleared
  `started` closes closed channels and panics. `:279`: neither an RPC nor the wait for
  the workers has a deadline, so a collector that never answers keeps `Shutdown`.
  `:124`: the recover of `ExportLogs` waits for a text that Go does not produce, so that a call
  after `Shutdown` ends the process; `BatchSettled` names that outcome. `:174`: an RPC that failed on the old connection may mark the new one
  disconnected, which costs one more attempt.
- `otelzap/writer.go:429`: the array handed to `ExportLogs` is reused. `:322`: `Sync` exports
  the batch and not the queue, so a fatal entry is often still in the queue when the
  process exits. `:399`: nobody closes `stopCh`, so `drainQueue` is unreachable.
- `otelzap/zap.go:300`: the encoder's clones share record and buffer; attributes of earlier
  entries are in later records.
- `retry.go:87`: the backoff is reset when the exporter is made, while the comment at `:45` speaks of the
  time spent on a request.
- zap's panic levels are neither errors for the sampler nor known to the level of the
  configuration.

*Requests.*
- `traces/log.go:34`: a rule also matches the caller's service and method, so a rule
  for a service silences what it calls as well as its own calls.
- `config.go:238`: a log mode that is misspelt turns the flow log on, one line per call, while
  the default is off.
- `code_mapping.go:149`, `:162`: the comparator is no order when one code names
  only a service and another only a method, and the shared list is sorted again with
  every answer. `:81`: a rule with service and method matches when one of them does.
- A wrapped error is code 999 to the span and its inner code to the metric; the span looks
  codes up by raw names, the metric by cleaned ones. Hence spans and metrics may
  disagree on a failure.
- Exemplars have a zero trace ID while tracing is switched off.
- `api/log/logger.go:79`: two contexts derived from one may write the same cell.

*Set-up and shutdown.*
- `opentelemetry.go:454`: an error of the meter provider leaves tracer and logger running. The
  second `Shutdown` stops there again, as a meter provider that is shut reports an error.
  A failed `Setup` leaves its processors running. `WithResource` is never used.
- The metric exporter keeps `http://` in its address, the trace exporter removes it; logs
  are sent with gRPC even when HTTP is enabled.
- The tenant given to the log exporter is overwritten by the headers given after it; the
  default tenant sends no tenant header.
- `README.md:71`, `:94`: `prometheus_push.enabled` does nothing as long as
  `enable_register` has its default, true.
- `DeletePrometheusPush` before the first push has ended does nothing.
- The default metrics address makes all instances share one key in etcd; with an
  unreadable certificate `newTLSConfig` returns nil, and etcd is dialled without TLS.
- `rpc_server_metrics.go:167`: bucket bounds given twice are accepted; Prometheus panics with
  the first observation.

*Metrics.*
- `limit_cardinality.go:113`: the series kept are the first by label and not the largest.
  A stream family above the metric limit resets the unary families of its side and never
  itself. Alerts of a collector are never cleared, and the value of the "total" alert is a
  number of families.
- `trpc_metric.go:185`, `:334`: dimension names become labels as they are, in vectors collected
  unchecked: one report with an invalid or repeated one, or one that is `_name` or `_type`,
  makes every later scrape fail. A value that is not UTF-8, or a negative count, panics
  in the reporter (`:197`, `:275`).
- A second enabled `SetupByConfig` replaces the server's counters and then panics; a
  reporter with additional labels panics before the first.
- Metric names that are converted to the same one, labels in another order, or a
  labelled counter named like the plain one make every scrape fail, and so does a histogram
  named like another with `_count`; a second
  histogram of such a name is never scraped; one with another number of labels panics.
- `trpc_metric.go:75` promises `_name` to be the record's; a vector shared by two records has
  the first one's.
- `total_memory_linux.go:81`: under cgroup v2 the memory used is 0 without an error, and
  the CPU quota is that of the host. `MemoryQuotaV2` reads the directory of the mount,
  whatever the process's group. The two packages translate a path outside the root of
  the mount differently. `cgroupsv2/cgroups.go:107` promises `(0, false, nil)` where -1
  is returned.

## Abstractions

- A span, a record of the SDK's processors or a batch is a name; its protobuf form is not
  modelled. Its size is a constant function, as only comparisons with the packet limit
  depend on it.
- Time is not counted, except for `Retry` and the duration of a call: a running timer
  may fire at any step, a context that can end may end at any step while its call
  runs, the pause between connection attempts may be over at any step.
- In the processors and exporters an export with its retries is one step that succeeds or
  fails; what happens meanwhile is `Retry`.
- Self-monitoring counters, logging and `otel.Handle` are left out; no step
  depends on them.
- `Start` of the exporters and the constructors are initial states: the first
  attempt to connect has succeeded or failed.
- `ShutdownReturn` sets `once` when the call returns; calls of `Shutdown` that come
  while the first runs wait for `sync.Once`.
- In the log pipeline the only caller of `ExportLogs` is the worker. Programs that
  share an OTLP exporter between processors are outside the model.
- The batch, length and size of the zap writer are loaded and stored in separate steps. Torn
  words and compiler reordering are not modelled: of the outcomes a data race may
  have, the interleavings of these steps are.
- A text whose characters matter is a sequence of words and separators; others are
  values. A map of headers is a set of pairs. A hash is what is hashed, so texts that are
  hashed alike because nothing separates their parts are kept, and collisions of
  the 64-bit hash of different texts are not.
- A trace ID is a number below `Scale`, and a fraction is a number of `Scale`-ths.
- `sort.Slice` is the insertion sort it performs on up to twelve elements; on longer lists
  of codes it is not stable, and what `MappingIsCurrent` says of their order is not
  claimed.
- Etcd, Prometheus and zap are modelled by what the code relies on: of a metric's description
  and consistency what client_golang checks in `NewDesc`, `WithLabelValues` and
  `Gather`. That names and labels may not begin with a digit, and the bounds that
  `metrics.GetHistogram` returns for a histogram, are left out.
- The fields of an entry have the types in `convertFuncs`; with another one the protobuf
  core panics in its caller (`zap.go:313`).
- etcd is either up or down; while it is down every request fails, and one that was under
  way may be applied afterwards. A lease that is not kept alive may expire.
- A series is its place in the order of labels; a vector is known by its variable.
- A machine is the contents of the files that are read, parsed into fields.

## Not modelled

- `pkg/metrics`, `pkg/debug`, `pkg/zpage`, `pkg/stack` and `oteltrpc/metrics/metrics.go`: counters,
  pages and text that nothing reads back.
- `pkg/protocol`: generated code.
- The retry policy in the gRPC service configuration (`otlp/options.go:30`): a literal that
  gRPC reads; it does not name the logs service. The exporter's own retries are `Retry`.
- Attributes taken from messages (`oteltrpc/traces`): formatting. What
  depends on it, that a body is cut within its limit, is in `RpcCall`. A limit shorter than
  the mark of a cut panics (`trace.go:113`), but nothing sets one.
- The gRPC interceptors of the exporters, and options that only fill a field of
  Prometheus or of the OpenTelemetry SDK.
- `oteltrpc/logs/zaplogs`: the plugin does not register it. Its filter assigns the global logger
  without a lock (`filter.go:55`, `:83`), which is a race on one variable and has no other
  state to relate it to.
- Examples, tests' helpers, build files.

## Plan

Modelling is complete as far as the parts have behaviour, and every safety property of the
runs is proved. What is left are the safety halves of liveness properties, which could be stated
as invariants of their own: where the keeper of a registration is after a cancel, and what a
ticker of pushing may still do after its push was deleted (`StoppedForGood`); and that the
exporter's background goroutine is, while disconnected, at a place from which it tries again
(`Reattempted`).
