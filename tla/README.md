# TLA+ models of fibratus' event pipeline

This directory has TLA+ specifications of the parts of fibratus under `src/`:

- the process/thread event processor (`internal/etw/processors/ps_windows.go`) and the process snapshot and region prober it mutates;
- the YARA scanner (`pkg/yara/scanner.go`);
- the filter field catalog (`pkg/filter/fields/fields_windows.go`);
- the NT status message cache (`pkg/kstream/interceptors/util.go`).

It also has TLC configurations that model-check them on small instances, and TLAPS proofs for every value of the constants.

## The system and how its parts interact

ETW events reach a chain of processors. The **process processor** handles three event families:

- **Process family** (CreateProcess, CreateProcessInternal, TerminateProcess, ProcessRundown, ProcessRundownInternal): it resolves the executable and the process start time, then calls `psnap.Write`. For TerminateProcess it calls `regionProber.Remove` and `psnap.Remove` instead.
- **Thread family** (CreateThread, TerminateThread, ThreadRundown): it calls `psnap.FindAndPut(pid)`, which inserts a stub for an unknown PID, then `AddThread` or `RemoveThread`.
- **Open family** (OpenProcess, OpenThread): it calls `FindAndPut` and enriches the event.

Every other type is dropped.

The snapshot is a map keyed by PID. A process is identified by (PID, start time), because PIDs are reused.

The **YARA scanner** sees the same events. The events it acts on:

- a created process;
- an unsigned, untrusted or unbacked module load;
- a created PE file or alternate data stream;
- an RWX allocation or a suspicious section view (each remembered per PID in `rwxs`/`mmaps` once matched, so it is not rescanned);
- a binary registry value.

Each of these makes it scan a process, a file or a buffer. On a match, `emit` sends one alert per match through every registered sender. A TerminateProcess deletes the PID's markers.

The **field catalog** is constant data:

- the field names of the filter language, their deprecations and the segment tables of the pseudo-fields;
- the deprecation pointers, from a deprecated field to its replacements;
- the segments a pseudo-field such as `ps._modules` accepts (`$m.name`).

## Inventory

| Part | State | Operations | Hard behaviour |
|---|---|---|---|
| process processor | none of its own | ProcessEvent per family, processEvent, getStartTime | events of several workers reordered; PID reuse between an event and its handling; start-time fallback to the event timestamp |
| process snapshot (not under src/) | PID → process entry with threads | Write, Remove, FindAndPut, AddThread, RemoveThread | stub insertion for unknown PIDs; replace on new start time |
| region prober (not under src/) | PID → open handle | Query, Remove | handle cached by PID across reuse |
| YARA scanner | `rwxs`, `mmaps` (PID → address) | ProcessEvent, Scan (one case per type), scan, emit | markers across PID reuse; marker only on match; shadowed `err`; first failing sender aborts; timeout reported as an error; marker check, scan and marker write interleaved across workers |
| scanner construction | compiled rules | NewScanner | start-up only |
| field catalog | constant tables | IsSegmentAllowed, SegmentsHint, IsSegment, IsPseudoField, IsField | table consistency, deprecations resolve |
| NT status cache (`kstream/interceptors/util.go`) | status → message | formatStatus | cache under a mutex, failures not cached |

## Modules

### `PsProcessor.tla` (with `MCPsProcessor.tla`)

**State:**

- The host is `os` (start time of the live process at each PID), `osThreads`, `clock` and `booting` (rundown phase).
- `queue[w]` holds the events received by worker `w` and not yet handled.
- The snapshot is `snap` (PID → entry `[start, gen, threads]` or `NoProc`).
- The prober's cached handles are in `handles`.
- `seenLive`/`seenThreads` are history: the (PID, start) of process events handled while the process lived, and the threads added.

**Actions:**

- Host: `SpawnProcess`, `SpawnThread`, `EndRundown`, `ExitThread`, `ExitProcess`, `AccessProcess`, `ProberQuery`. Each appends the event the OS reports to one worker's queue.
- Handlers: one action per family of `ProcessEvent`.
  - `HandleProcess`: processEvent, getStartTime (`StartTimes`: the live process's start time or the event timestamp `EvtTime`), then `Write`. For a terminate, `Remove` and the prober's `Remove`.
  - `HandleThread`: `FindAndPut` then `AddThread`/`RemoveThread`.
  - `HandleOpen`: `FindAndPut`.
  - `HandleOther`: drop.
- `gen` in an event is the start time of the process when the event was produced. The handler uses it only where the code uses the event's own timestamp.

The snapshot and prober operators are modelled from the spec, because that code is not in the repository.

### `Scanner.tla` (with `MCScanner.tla`)

**State:**

- The host is `live` and `clock`.
- `rwxs` and `mmaps` store, per PID, the start time of the process whose scan matched (0 for none). The code stores an address, but only the presence of the key is ever read.
- `result` is what the last ProcessEvent did: the scan outcome, the return value, and the emit steps attempted and the one that failed.
- `scanned`, `everScanned` and `matched` are history of the RWX and mmap scans.

**Actions:**

- One action per case of `Scan`: `CreateProcess`, `LoadImage`, `CreateFile`, `VirtualAlloc`, `MapViewFile`, `RegSetValue`.
- `TerminateProcess` is the cleanup in ProcessEvent.
- Each action includes the common tail and `emit`.
- The inputs the code reads from the event, the config and the signature cache are nondeterministic choices. The `NoScan` disjunct covers every early `return false, nil`.
- A YARA scan returns `ScanError`, `ScanTimeout` (go-yara reports the ScanTimeout set in `newInternalScanner` as an error), 0 or a number of matches up to `MaxMatches`.
- `emit` walks matches × (text rendering, then each sender) and stops at the first failure.

The host change and the event are one step, so the scanner never lags the host. The lag is studied in `PsProcessor` and in `ScannerWorkers`.

`MarkerState` maps the markers to the per-PID states of `ScanContract`: `MATCHED` while the marker is set, `UNSEEN` otherwise. `Contract == INSTANCE ScanContract WITH state <- MarkerState` gives the property `ContractSpec`.

### `ScanContract.tla`

This is the abstract specification of the scanner's deduplication, written from the spec (section 4.6). Per PID and category (`alloc`, `mmap`) the state goes UNSEEN → MATCHED.

- `Start(p)` and `Evict(p)` are a process start and end. `Evict` resets both categories of the PID.
- `ScanOnce(p, c)` scans a live PID that is UNSEEN for `c`, and may move it to MATCHED.
- `Quiet` is every event that leaves the states alone.

The module models no code, so it has no entry in the map.

### `ScannerWorkers.tla` (with `MCScannerWorkers.tla`)

This module puts the deduplicated scans under the pipeline of spec section 5: one or more workers drain a single event source, and the host runs ahead of them.

- **Host:** `Spawn`, `Exit` and `Touch` (an RWX allocation or a suspicious view in a target) change `live` and append the event to a FIFO `queue` of at most `MaxQueue` events.
- **`Take(w)`:** an idle worker takes the head event.
  - A TerminateProcess event runs the cleanup of ProcessEvent (`Cleanup`: both `delete`s).
  - An allocation or view event by a caller other than System whose target has no marker (`IsMatched`) starts a scan. `pc[w]` records the category and `job[w]` the event.
  - Every other event is dropped.
- **`Finish(w)`:** the scan returns. If it matched, the target's marker is written.

This split follows the code, which checks the marker at line 280 or 298, scans, and writes `s.rwxs[pid]` or `s.mmaps[pid]` at line 287 or 321. Each map operation is one atomic step. `markers[c][p]` is the start time of the process the event was about. `ended` and `matched` are history.

### `Fields.tla`

The tables are data:

- every key of the `fields` map, one definition per block (`KevtFields` ... `DNSFields`) and their union `Catalog`;
- `Deprecations`, the replacement list of each entry that has a `Deprecation`;
- `Segments`;
- `AllowedSegments`, whose rows keep the code's order;
- the pseudo-field list.

A field name is the sequence of its dotted components (`<<"ps", "child", "pe", "file", "name">>`). No component holds a dot, so the code's `strings.HasPrefix(f, "pe.")` is `HasPrefix(f, <<"pe">>)`, a test of the leading components. The category predicates `IsPsField` ... `IsDNSField` are not modelled. Each is a prefix test of the name, so with names encoded by their components, a property about them would only restate the encoding.

The lookups are operators. A client asking one query after another gives TLC a state space: every (field, segment) pair. The fields are the pseudo-fields, every catalog key, and `pe.timestamp` (a declared `Field` the map lacks).

### `StatusCache.tla` (with `MCStatusCache.tla`)

`formatStatus` answers statuses 0 and `notFoundNTStatus` before taking `mux`. Its remaining body runs under the lock (`defer mux.Unlock()`), so one call is one atomic step, however many goroutines call it.

**State:** `resolvedStatuses` (status → cached message, or `None`) and `last`, the status and answer of the latest call.

**Actions:** `FormatStatus` is split as the code is:

- the two fast paths;
- `Lookup`: the cache hit;
- `Format`: FormatMessage fails, or writes `SysMsg[s]` into the buffer, followed by the trim loop `TrimLen` (a recursive function counting `n` down), `Decoded` (decode and `strings.ToLower`) and the insert.

A message is a sequence of characters, and `LowerChar` lower-cases one character. A message longer than `BufLen` makes FormatMessage fail.

### `PsProcessorProofs.tla`

The TLAPS proof of `TypeOK` for PsProcessor.

### `ScannerProofs.tla`

The TLAPS proofs of the scanner's type invariant and its two safety properties, `MarkerOfLiveProcess` and `NoRescanAfterMatch`, and of the refinement of `ScanContract`.

### `PsProcessorLiveProofs.tla`

The TLAPS proof of `LiveTracked` for the single-worker pipeline.

### `PsProcessorThreadProofs.tla`

The TLAPS proof of `ThreadsTracked` for the single-worker pipeline. It extends `PsProcessorLiveProofs.tla` and builds on its invariant.

### `ScannerWorkersProofs.tla`

The TLAPS proofs of `NoMarkerOfEndedProcess` and `NoRescanAfterMatch` for the single-worker pipeline.

### `StatusCacheProofs.tla`

The TLAPS proofs that the status cache is stable (`AnswersStable`) and holds only formatted messages.

### `FieldsProofs.tla`

The TLAPS proofs of the two segment-table properties for every field name and segment.

## Runs

| Run | cfg | Result | What it shows |
|---|---|---|---|
| ps_core | MCPsProcessor.cfg | pass | One worker, 2 PIDs, 2 TIDs, 3 process creations, queues of 3: the snapshot holds every observed live process (`LiveTracked`) and its observed threads (`ThreadsTracked`). |
| ps_ghost_stub | MCPsProcessor_NoGhostEntry.cfg | violation | An OpenProcess of an exited PID leaves a stub nobody removes (spec: open events do not mutate state). |
| ps_start_time_reuse | MCPsProcessor_StartTimeFaithful.cfg | violation | A PID reused before its CreateProcess is handled gives the old entry the new process's start time. |
| ps_reorder_remove | MCPsProcessor_Reorder.cfg | violation | With two workers, the old process's TerminateProcess removes the new process (Remove is by PID). |
| scanner_core | MCScanner.cfg | pass | System plus 2 PIDs, 3 start times (one reuse), 2 senders: markers belong to the live process (`MarkerOfLiveProcess`), and no matched process is rescanned for the same reason (`NoRescanAfterMatch`). Under `MarkerState`, every scanner step is a step of `ScanContract` or leaves its state alone (`ContractSpec`). |
| scanner_errors | MCScanner_ScanErrorsSurface.cfg | violation | ADS and registry scan errors are lost to a shadowed `err`. |
| scanner_sinks | MCScanner_AllSinksAttempted.cfg | violation | The first failing sender stops delivery to the others. |
| scanner_timeout | MCScanner_TimeoutIsEmptyMatch.cfg | violation | A scan that exceeds its timeout makes Scan return an error. The spec (section 5) says it returns empty matches without erroring. |
| scanner_workers | MCScannerWorkers.cfg | pass | One worker, System plus one PID reused by three processes, a queue of 2. No marker outlives the handled exit of its process (`NoMarkerOfEndedProcess`). No matched process is rescanned (`NoRescanAfterMatch`). The marker of an exited process is eventually removed (`StaleMarkerCleared`, under the fairness below). |
| scanner_workers_stale_marker | MCScannerWorkers_NoMarkerOfEndedProcess.cfg | violation | With two workers, a scan running while the other worker handles the target's exit writes its marker after the cleanup. The PID keeps the marker of an ended process, so the next process at that PID is never scanned for that category. |
| fields_segments | MCFields.cfg | pass | IsSegmentAllowed agrees with the spec's segment table for every field and segment, and the three tables agree (`SegmentTableAsSpecified`, `SegmentsOnlyOnPseudoFields`). Every deprecation names at least one replacement, each a known field that is not itself deprecated, so the rule engine rewrites in one step (`DeprecationsResolve`, spec sections 4.5 and 8). |
| status_cache | MCStatusCache.cfg | pass | Six formattable statuses: messages ending in CR LF, all terminators, a terminator inside the text, one too long for the buffer. The cache holds only the trimmed, lower-cased system message, checked against the reference `TrimmedLenRef` (`CachedAreSystemMessages`). Entries never change, and a cached status is always answered with its entry, even when FormatMessage fails later (`AnswersStable`). |

**Why the bounds are enough:**

- Two PIDs and three start times allow one PID reuse while another process lives, which every PID-reuse hazard needs.
- Queues of 3 allow a create, a thread event and a terminate to be pending at once.
- For the status cache, the messages cover each way the trim loop can end: at the text, at `n = 0`, or before a terminator that is not at the end. Every subset of the statuses that fit the buffer can be cached.
- For the scanner, one match and two senders reach every emit branch of the passing run. The sink run uses two matches.
- For `ScannerWorkers`, one user PID with `MaxStart = 4` gives three successive processes at the same PID. A queue of 2 lets an allocation and the exit of its target be pending together, which both races need. Two workers are enough for each race.
- Symmetry is used only over the user PIDs. It is not used over TIDs, because `AnyTid` uses CHOOSE, and not over the System PID, which the scanner treats specially.

**Fairness:** only `ScannerWorkers` assumes fairness: `WF_vars(Take(w)) /\ WF_vars(Finish(w))` for each worker.
- `Take` is justified because a worker keeps draining the event source (spec section 5).
- `Finish` is justified because a scan cannot run forever: go-yara aborts it when the `ScanTimeout` set in `newInternalScanner` (scanner.go:160) elapses.
- The host's actions get no fairness, since the host may stop producing events.

Only `StaleMarkerCleared` depends on this fairness. Every other property is a safety property.

## Proofs

`PsProcessorProofs.tla` proves `THEOREM TypeCorrect == Spec => []TypeOK`. `TypeOK` alone is not inductive: a thread event in a queue must belong to a live process. So the proof uses the inductive invariant `IInv == TypeOK /\ ThreadsOfLive`, where `ThreadsOfLive` means that a PID with live threads has a live process.

The proof shows three facts:

- `InitIInv`: Init implies IInv.
- `NextIInv`: IInv is preserved by each action. There is one step per action, and typing lemmas cover `FindAndPut`, `Write`, the thread operators, `Emit` and `Tail`.
- IInv implies TypeOK.

It uses the assumption `ConstAssumption` on the constants.

`ScannerProofs.tla` proves two theorems under the assumption `ScannerAssumption`. The assumption requires that the System PID is a PID, that `MaxStart` and `MaxMatches` are positive, and that the section-protection sets are bit sets.

- `THEOREM MarkersOfLiveProcesses == Spec => []MarkerOfLiveProcess`: a non-zero `rwxs`/`mmaps` marker of a PID is the start time of the process now live at that PID. The invariant `MInv` adds only the types of `live`, `clock` and the markers.
  - Preservation has one step per action. `TerminateProcess` clears the markers with the process. A scan sets a marker only to `live[pid]` (lemma `MarkCases`). `CreateProcess` needs `live[p] = 0` and the invariant, which together give that `p` has no marker.
- `THEOREM NoRescan == Spec => NoRescanAfterMatch`: no RWX or mmap scan is made of a (PID, start time) whose scan for that reason already matched. The step formula is `RescanFree`. It is not an invariant of states, so the proof uses `RInv`, which strengthens `MInv` with:
  - every start time in `live` and in `matched` is at most `clock` (start times are never reused);
  - `MatchedMarked`: a matched (PID, start time) that is still live carries its marker.

  With `RInv`, a scan of `<<q, live[q], "alloc">>` requires `~IsRwxMatched(q)`, so the pair is not in `matched`; the same holds for mmap. The same step adds a match together with its marker. `CreateProcess` gives the new process `clock + 1`, which no matched pair has. The last step combines `InitRInv` and `NextRInv` with `PTL`.

- `THEOREM ImplementsContract == Spec => ContractSpec`: the scanner implements `ScanContract` under `MarkerState`. The proof follows the usual refinement pattern:
  - `InitContract`: Init maps to the contract's Init.
  - `StepContract`: under `MInv`, every step maps to a contract step or a stutter.
    - `CreateProcess` is `Start`, and `TerminateProcess` is `Evict`.
    - `LoadImage`, `CreateFile` and `RegSetValue` are `Quiet` (lemma `QuietSteps`).
    - `VirtualAlloc` and `MapViewFile` are `ScanOnce` of the target when they scan, and `Quiet` otherwise. Lemmas `MarkAlloc` and `MarkMmap` show that a marker write is the contract's EXCEPT on one PID.
  - The temporal step combines these with `Spec => []MInv` by `PTL`.

- `THEOREM ScannerTypeCorrect == Spec => []TypeOK`: every reachable state of the scanner model is well typed. `TypeOK` is inductive on its own. The lemmas `IdleType`, `EmitType`, `ReturnsType` and `RecordType` show that the idle result, `Emit`, the tail of a scan and the history update produce values of their types. `NextTypeOK` has one step per action.

`PsProcessorLiveProofs.tla` proves `THEOREM SingleWorkerLiveTracked`. Its hypothesis is `Workers = {w}`. With two workers, the old process's TerminateProcess can remove the entry of the new process at the same PID (run `ps_reorder_remove`). The proof adds one assumption to `PsProcessor.tla`: `NoProcAssumption`, which says that `NoProc`, the absence of an entry, is not itself an entry.

`LiveTracked` is not inductive. A TerminateProcess removes its PID's entry, whichever process the entry stands for. So the proof needs to know that the handled history then holds no other process at that PID. The inductive invariant `LInv` is `IInv` (from `PsProcessorProofs`), plus `LiveTracked`, plus `QueueLines`. `QueueLines` states, per PID `p`, four facts about the process events of `p` in the worker's queue:

- `Alt`: consecutive events alternate. A create is followed by the terminate of the same process, and a terminate by a create.
- `Front`: the first event continues the handled history `SeenOf(p)`. A create finds it empty, and a terminate finds at most its own process.
- `Back`: the last event reports the OS's state `os[p]`.
- `Quiet`: with no event of `p` queued, the history holds at most `os[p]`.

The lemmas are stated once for any sequence:

- `AppendOther`, `AppendCreate` and `AppendExit` cover the host's reports;
- `TailOther`, `TailCreate` and `TailExit` cover the worker's handling, with the index shifts in `TailShift`, `NextAfterHead` and `HeadIsLast`;
- `KeepsEntries` shows that FindAndPut, AddThread and RemoveThread never drop an entry.

`NextLInv` has one step per action.

`PsProcessorThreadProofs.tla` proves `THEOREM SingleWorkerThreadsTracked`, with the same hypothesis `Workers = {w}`. With two workers, a ThreadRundown can be handled before its ProcessRundown. FindAndPut then inserts a stub holding the thread. The rundown's `Write`, with the event timestamp as start, replaces the stub and drops the thread. TLC finds this.

`ThreadsTracked` is not inductive. A `Write` of a later rundown, a FindAndPut of an open, or an event of a reused PID could replace an entry, unless the queue orders these events. The invariant `TInv` is `LInv` plus `ThreadFacts`. `ThreadFacts` holds `HistBound`, `SingleSeen` and `ThreadsTracked`, and, for each queue, these `QueueFacts`:

- `GenBound`: no queued start time exceeds the last one handed out.
- `GenOrder`: a queued create or rundown carries a start time later than every event before it.
- `CreateFresh`: the process of a queued create is not in the handled history, and neither is a thread of it.
- `ExitStale`: the process of a queued terminate no longer runs.
- `NoThreadAfterExit`: no thread event of a process is queued behind that process's terminate.
- `ThreadOfSeen`: a queued thread event belongs to a handled process, or to one whose create is ahead of it in the queue.
- `OsCreated`: a process the OS runs is handled, or has its create queued.

`HistBound` bounds the history's start times by `clock`. `SingleSeen` says that the history holds one process per PID.

The lemmas `AppendFacts` and `TailFacts` state, once for any queue, how appending an event and taking the head keep `QueueFacts`. `SpawnFacts`, `ExitFacts` and `EmitFacts` cover the host's reports. `HandleProcessFacts`, `HandleThreadFacts` and `HandleAccessFacts` cover the worker's handlers. `ThreadOpsEffect` gives the effect of `AddThread` and `RemoveThread` on a record. It is proved with Zenon, because the SMT backend does not handle record EXCEPT.

`ScannerWorkersProofs.tla` proves `THEOREM SingleWorkerNoStaleMarker`. Its hypothesis is `Workers = {w}`, a pipeline with one worker thread. Spec section 5 allows "one or more" workers. The property is false for two: the run `scanner_workers_stale_marker` shows the race. So the theorem states exactly the case in which the property holds, and `WorkersAssumption` constrains nothing more.

The invariant is not inductive alone: a scan could write a marker for a process whose exit is already in the queue behind it, or already handled. The inductive invariant `WInv` adds facts about the FIFO queue:

- `TypeInv`: the types of every variable.
- `Bounded`: every start time in `live`, in the queue and in `ended` is at most `clock`. A new process therefore gets a start time that no queued event or ended process carries.
- `LiveOpen`: a live process has not ended, and its terminate event is not yet queued.
- `QueuedOpen`: a queued category event belongs to a process that has not ended, and whose terminate event is not ahead of it in the queue. With one worker the queue is drained in order, so the event is taken before the exit is handled.
- `JobOpen`: the event a busy worker holds has the type of its scan and belongs to a process that has not ended.

With `JobOpen`, the marker a finishing scan writes belongs to a process that has not ended. `Take` of a terminate event ends its process, and the same step clears the PID's markers. `QueuedOpen` at the head gives `JobOpen` for a newly taken event. The proof has one lemma per action (`SpawnWInv`, `ExitWInv`, `TouchWInv`, `TakeWInv`, `FinishWInv`). The tail-shift facts are steps of their own.

The same module proves `THEOREM SingleWorkerNoRescan == Spec => NoRescanAfterMatch` for `Workers = {w}`. With two workers, both workers can take allocation events of one process before either scan records its match. TLC then finds a double scan.

The step formula `RescanFree` follows from the inductive invariant `RInv == WInv /\ RExtra`. The hard case is an exit the worker handles: its cleanup must not clear the marker of another matched process at the same PID. `RExtra` adds these facts:

- `TermSorted`: queued exits of one PID are in increasing start-time order.
- `TermBeforeLive`: a queued exit is older than the process now live at its PID.
- `QueuedPending`: a queued allocation or mapping event's process is either still live, or has its exit queued behind the event. No older exit of that PID is queued behind the event.
- `JobUnmarked`: the running scan's process is unmarked in its category. It is pending, with no older exit of its PID queued.
- `MatchedMarked`: a matched process whose exit is not handled keeps its marker. It is pending, with no older exit of its PID queued.

The head exit is therefore the oldest of its PID. By `NoOlderTerm`, it is either the matched process's own exit or a newer one. A newer exit is impossible by `TermBeforeLive` and `TermSorted`.

The finishing scan's process is unmarked (`JobUnmarked`) and not ended (`JobOpen`), so it is not in `matched`.

The lemmas:

- `AppendPending` and `TailPending` state the pending facts once for any queue.
- `AppendNonTerm` serves `Spawn` and `Touch`.
- `ExitRExtra`, `TakeRExtra` and `FinishRExtra` cover the other actions.
- `FinishRescanFree` gives the step formula.

`StatusCacheProofs.tla` proves two theorems under `StatusAssumption`. Both use the inductive invariant `CInv`, made of three parts:

- the domain of the cache;
- `Unlocked`: statuses 0 and `NotFound`, answered before the lock is taken, are never cached;
- `CachedFormatted`.

The theorems:

- `THEOREM StableAnswers == Spec => AnswersStable`: a cached entry never changes, and every later call for its status returns it. Lemma `StepCInv` covers the three branches of `formatStatus`: the early return, a cache hit, and a locked FormatMessage that fails or inserts into an empty slot.
- `THEOREM OnlyFormattedCached == Spec => []CachedFormatted`: every cached entry is `Decoded(SysMsg[s], TrimLen(SysMsg[s]))`, the result of the successful branch. A failed FormatMessage is never cached.

`FieldsProofs.tla` proves `THEOREM SegmentTable == Spec => []SegmentTableAsSpecified` and `THEOREM SegmentsAgree == Spec => []SegmentsOnlyOnPseudoFields`. Both hold for every field name and segment, not only the queries TLC enumerates. The proofs rest on three lemmas:

- `SegmentLookup`: `IsSegmentAllowed(f, s)` holds if and only if `s` is in `f`'s row of the spec's table. The proof has one case per pseudo-field, plus the case of any other `f`, whose row is empty.
- `RowsAreSegments`: every row lists only segments of the `segments` map.
- `PseudoKeys`: the keys of `allowedSegments` are exactly the `IsPseudoField` fields.

**Out of the prover's reach, left to TLC:**

- Liveness (`StaleMarkerCleared`) and anything that needs ENABLED.
- What a recursive definition computes on every input. This is induction over data, which the library states only with an operator parameter that the provers cannot instantiate. It covers:
  - the trim loop `TrimLen` of the status cache. This is the `TrimLen = TrimmedLenRef` part of `CachedAreSystemMessages`, and `StatusCache`'s `TypeOK`, whose message lengths rest on it.
- `DeprecationsResolve`. It is a membership fact over the whole catalog of several hundred names. It is stated for every name, but the prover would need the catalog expanded, so it stays with TLC.
- The multi-worker behaviour of `ScannerWorkers` and `PsProcessor`. `NoMarkerOfEndedProcess`, `NoRescanAfterMatch`, `LiveTracked` and `ThreadsTracked` are false for two workers, as the runs and observations show. The theorems state them for one worker.
- The runs' bounded instances.

## Observations without a run

These disagreements came up while modelling. They have no run of their own, because the project keeps one run per question:

- `allowedSegments` lists `AddressSegment` twice for `ps._mmaps`, so `SegmentsHint` prints `address` twice (fields_windows.go:609).
- The `fields` entry under `DNSRcode` has `Field: DNSRR`, so the catalog describes `dns.rcode` as `dns.rr` (fields_windows.go:932). `Fields.tla` keeps only the keys of the map, so this is not in the model.
- `pe.timestamp` and `kevt.meta` are declared `Field` constants with no entry in the map, so `IsField` rejects them.
- The VirtualAlloc case sets the RWX marker only when the scan matched, so a process whose first scan found nothing is scanned again on its next RWX allocation. Spec scenario 4 expects one scan for two back-to-back allocations. The state machine of spec section 4.6 (UNSEEN until MATCHED) allows the rescan.
- With two workers, two allocation events of one process can both pass `isRwxMatched` before either scan returns, so the process is scanned twice. TLC finds this when `MCScannerWorkers.cfg` is given `Workers = {w1, w2}` and the property `NoRescanAfterMatch`.
- With two workers, a ThreadRundown can be handled before the ProcessRundown of its process. FindAndPut inserts a stub that holds the thread. The rundown's `Write`, with the event timestamp as start, then replaces the stub and drops the thread. TLC finds this when `MCPsProcessor.cfg` is given `Workers <- TwoWorkers` and the invariant `ThreadsTracked`.

## Not modelled

- **Scanner construction** (rule compilation): start-up I/O.
- **Command-line canonicalisation**: string formatting that only sets the `exe` parameter.
- **Alert senders**: outside src/; modelled only by whether Send fails.
- **Size of the NT status cache**: only statuses whose FormatMessage succeeded are cached, so the cache is bounded by the system's message table. The model's finite status set covers this.
- **`CodeFromNtStatus` and FormatMessage**: outside src/; modelled by their result.
- **Go's detection of concurrent map access**: `ScannerWorkers` makes each map operation atomic. It does not model the runtime aborting the process on a concurrent map read and write.
- **The pipeline itself** (not under src/): `ScannerWorkers` follows spec section 5, which says one or more workers drain one source.
