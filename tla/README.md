# Lunar GIS — verification project

TLA+ models of Lunar GIS (`src/lunar_gis/`, a QGIS plugin), the TLC runs that
check them on small instances, and theorems about them that TLAPS proves for
every value of the constants. Paths below are relative to the repository; line
numbers refer to the commit the models were written from. `PROJECT.json` has the
list of runs, the seeded bugs each property is known to catch, and for each
definition the lines it models.

Contents: [1 The system](#1-the-system) ·
[2 Plan](#2-plan) ·
[3 Modules](#3-modules-and-their-correspondence-to-the-code) ·
[4 Runs](#4-runs-what-is-checked-and-what-it-shows) ·
[5 Fairness](#5-fairness) ·
[6 Proofs](#6-proofs) ·
[7 Divergences](#7-where-code-and-documentation-disagree) ·
[8 Not modelled](#8-what-is-not-modelled-and-why)

## 1 The system

The plugin docks a *workspace* into QGIS. The user (or a language model on the
user's behalf) asks for tools; every tool call of every surface passes one
*controlled execution boundary*; downloads run as background tasks into sandbox
directories and end as project layers; pure engines compute weights and scores;
results carry provenance.

```
 workspace (GUI thread) ── plan_request ──> planner ──> provider (HTTP)
    │   │                      │
    │   │  background tasks    │ run_tool, make_confirmation
    │   └────────┐             v
    │            └──> ControlledExecutor.execute ──> policies, audit sink
    │                          │ handler
    │        ┌─────────────────┼──────────────────┬──────────────┐
    │   provider tools     data tools        analysis tools   reports …
    │        │                 │ load_into_project
    │   adapters ── transport ─┴─> sandbox directories <── sweep / Clean
    │                                  
    └── provenance store (JSONL)
```

### 1.1 Components: state, operations, hard behaviour, what makes them correct

| Component (source) | State | Operations | Hard behaviour | Correct if |
|---|---|---|---|---|
| Execution boundary (`agent/execution.py`) | none of its own; one audit list shared by all calls | `execute` (13 numbered steps), `_deny`, `_unknown_tool`, `_audit` | concurrent calls; the registry changes between steps; the sink fails at any append; handlers raise anything | no effect without permission, valid input, fitting confirmation and a recorded intent; caller and trail agree |
| Governance (`agent/governance.py`) | the sink's list | `PolicyEngine.evaluate`, `audit`, the two policies | custom policies that raise | DENY cannot be overridden |
| Registry, contracts (`agent/registry.py`) | `_tools` | `register`, `get`, `remove`; schema checks | replaced versions | a name means one tool at a time |
| Provenance store (`provenance/store.py`, `records.py`) | `_records`, `_by_identity`, the JSONL file | constructor/`_load`, `append`, `get`, queries, `lineage` | the file grows while it is loaded; failed and torn writes; restarts | an identity, once returned, means the same record for ever |
| Sandboxes (`data/sandbox.py`) | directories, modification times | `sweep_sandboxes`, `sandbox_usage` | two sweeps and a download on one directory; ages that are stale when used | for a while, running downloads and recent results survive |
| Provider tools (`data/provider_tools.py`) | one sandbox per call | `search_catalog_handler`, `download_dataset_handler` | partial failure between mkdtemp and the last byte | "ok" proves the bytes exist |
| Transport (`data/adapters/transport.py`) | ambient progress sink | `fetch_url`, `read_body_capped`, `download_to_sandbox`, `safe_extract_zip` | redirects, caps, cancellation between chunks, resolved addresses that change | caps hold on real bytes; nothing leaves the sandbox |
| Adapters (`data/adapters/*.py`) | Nominatim: cache and last-call time, per instance | `search`, `get_metadata`, `download` | a new instance per registry lookup; cached failures; ids that carry a query as text; answers in any order | a retry reaches the provider; what is downloaded is what was searched |
| Assistant loop (`ui/controller.py`) | none between calls | `plan_request`, `run_tool`, `make_confirmation` | any sequence of model answers; errors in later rounds; errors read as requests for consent | bounded rounds, no repeated effect, settled proposals stay settled |
| Planner and AI client (`ai/*.py`) | none | `plan_with_ai`, `plan_offline`, parsing, validation | refused and malformed answers, fallbacks | nothing unregistered or invalid gets through |
| Workspace (`ui/workspace.py`) | `pending_high`, `last_request`, `_active_task`, `_task_state`, `_result_refs`, `_last_download` | send, approve, decline, confirm; search, download, load; cancel; clean | results arriving while the user goes on; modal dialogs; two tasks at once | what runs is what the user was shown and confirmed |
| Background tasks (`ui/tasks.py`) | `ProgressState`: received, total, cancelled | `update`, `cancel`, `snapshot`, task `run`/`finished` | worker and GUI thread; cancellation too late | cancel is sticky; every task reports once |
| Requirements (`data/contracts.py`, `fulfillment.py`) | none | classify, satisfy, join keys, plan | three-valued knowledge, order of tests | a plan only claims what the inventory shows |
| Transformations (`data/transforms.py`, `transform_qgis.py`, `transform_tools.py`; single analyses in `analysis/gis_tools.py`) | the layer of the step before; files in a sandbox per call | `validate_chain`, `run_chain` | the project changes after the proposal; wrong late steps; failure in the middle; two runs of one request | nothing runs of a chain with a wrong step; outputs are the composition of the steps; runs keep to themselves |
| Dataset validation (`data/validation_qgis.py`) | none | file and layer checks | first failure decides | never "valid" after a failed check |
| Discovery (`data/discovery_qgis.py`, `project/context.py`) | none (snapshot) | inventory of the project | the project changes while it is read | bounded snapshots |
| AHP, sensitivity, suitability (`analysis/*.py`) | none | validation, weights, sweeps, crossovers, scores | boundaries, ties, normalisation, missing values | swept weights are positive and the others keep their ratios; reported intervals are stable; excluded units change no score |
| Cartography, reports, Processing algorithms, plugin entry | none or QGIS's | styles, layout, HTML, declarations | little | identities are those of the content |

### 1.2 Interactions

* *Calls.* Workspace, Processing algorithms and the planner call handlers only
  through `ControlledExecutor.execute`. Executors are made per job
  (`create_assistant_executor`), the registry is shared.
* *Threads.* Tool calls of the Data tab run on `QgsTask` workers
  (`_run_background`); results come back to the GUI thread as signals. Sweeps run
  inside downloads, so on workers, and in "Clean", so on the GUI thread.
* *Shared state.* The registry; the audit list; the root directory of
  sandboxes; the JSONL file; the workspace's fields (GUI thread only).
* *Callbacks.* Handlers (from the boundary), `on_done` (from tasks), progress
  and cancellation (from the transport).

### 1.3 Hazards

`PROJECT.json` lists them, each at its line with the properties that cover it,
or with a note. The ones that drove the models: the registry changing under a
call; audit appends failing before and after the effect; a file read while
`append()` extends it; a sweep that judges by an age taken earlier; a model that
repeats a call or asks for ever; decisions of the user on some proposals but not
on others.

## 2 Plan

Order of the modules, most important behaviour first.

| # | Module | Status | Abstract specification | Theorems |
|---|---|---|---|---|
| 1 | `ControlledExecution` | done | `GovernedEffect` | type, safety, action property, refinement: proved |
| 2 | `ProvenanceStore` | done | `ProvenanceLog` | memory and file, refinement: proved |
| 3 | `SandboxLifecycle` | done | – | protection, retention, loads: proved |
| 4 | `AssistantLoop` | done | – | calls once, settled proposals: proved |
| 5 | `BackgroundTasks`: task slot, cancellation, search → metadata → dialog → download | done | – | slot, button, cancellation, failures: proved |
| 6 | `Requirements`, `Fulfillment`: classification, chains, plans, validation, satisfaction, join keys | done | what it means to meet a requirement (`Meets`) | certainty, agreement, satisfaction, keys, reprojection, what a download is proposed for: proved |
| 7 | `TransformChain`: validation of chains and their execution, single analyses, the project changing in between | done | the composition of the steps (`ChainResult`) | invalid chains, files of earlier runs, the composition: proved |
| 8 | `Catalog`, `Acquisition`: throttle and cache, search ids and refetch, assets, archives | done | – | failures, caps, whole ways, refetch: proved |
| 9 | `Engines`, `Analysis`: AHP validation, sensitivity sweeps over exact fractions, suitability scores | done | – | admissible sweeps, stable offsets, monotone scores, missing values: proved |
| 10 | STAC's paging and filters, validation of files | open | – | – |

Runs. One or two per component that must pass, and the two disagreements with
documentation that matter most; others are described in section 7.

Conventions that keep the modules provable: parameters are constants with named
assumptions; one action per statement, handler or system step; recursion only
as functions or folds; operators named as in the source.

## 3 Modules and their correspondence to the code

### 3.1 `ControlledExecution` (with `GovernedEffect`)

Concurrent calls of `ControlledExecutor.execute` over one registry and one sink.

| State | In the code |
|---|---|
| `registry[n]` | `ToolRegistry._tools` |
| `artifacts` | confirmation artifacts that `make_confirmation` has returned |
| `pc[i]` | the statement of `execute()` call *i* is at |
| `call[i]`, `tool[i]` | its arguments and its local `tool` |
| `effects[i]` | how often its handler was entered |
| `trail[i]` | its records in the audit sink |
| `outcome[i]` | which `ToolResult` it returned |

Actions follow the numbered comments of `execute()`: `Resolve` (1),
`EvaluatePolicy` or `PolicyRaises` (3), `CheckHandler` (4), `ValidateInput` (5),
`CheckConfirmation` (6, 7), `AuditIntent` (8), `InvokeHandler` and
`HandlerReturns`/`HandlerRaises`/`HandlerInterrupted` (9–12), `AuditTerminal`
(13). `Exception` is the `except` clauses, the clause for `KeyError` included.
The code takes each of these steps in a thread; `Register`, `Remove` and
`Confirm` happen between any two of them. Fingerprints are the values they are
taken of (equal fingerprints mean equal inputs). The order of records of
*different* calls in the sink is left out, which no property needs.

The abstraction `GovernedEffect` knows licences, effects and verdicts only:
licence first, one effect, then a verdict; a refused call has none. The mapping
reads the licence off the trail and the verdict off the outcome.

### 3.2 `ProvenanceStore` (with `ProvenanceLog`)

`Open`, `LoadLine`, `LoadEnd` are the constructor: the loop of `_load` reads the
file a line at a time, and each line goes through `append()`, which writes to
that same file. `AppendRecord` is a caller's `append()`. A write is whole, or it
raises or is cut short, leaving nothing, a part of a line, or a line without its
newline (`CutShort`); `CrashWriting` and `Crash` end the process. A line after
one without newline continues that line, and the result is not JSON
(`Written`). Loading a line that is not JSON raises out of the constructor
(`status = "failed"`). A record is its identity and its retrieval time, the one
field identity leaves out. History variables: `promised` (what `append()`
returned), `faulted` (whether a write ever went wrong).

The abstraction `ProvenanceLog` is a map from identities to records that only
grows, save for the record of a write that was cut short, which is in doubt
until the next write. The mapping takes the *first* record of an identity in the
file, which is what a reader finds.

### 3.3 `SandboxLifecycle`

One root directory. `MakeSandbox`, `BeginSweep`, `EndSweep`, `FetchFails`,
`OpenTarget`, `WriteBody`, `Verify` are `download_dataset_handler` on its
worker with `download_to_sandbox` inside it; `Begin`, `Judge`, `EmptySandbox`,
`RemoveSandbox`, `KeepSandbox` are `sweep_sandboxes`, by a download or by
the user (`Clean`); `DownloadDone` and `LoadDownloaded` are the workspace;
`Exit` ends QGIS. The clock is read once per sweep, ages are judged by directory
modification times, and `rmtree` is two steps, the entries and then the
directory, so that other threads come between. Time is in ticks, and a download
may take any number of them: the transport has a timeout per read and a cap on
bytes, and none on the whole (`Tick`). History variables: `touched` (when a
download last put something into its sandbox, which is all a directory's age tells
of it), `raced` (downloads that opened their file while a removal was at work on
their sandbox) and `cleaned`.

### 3.4 `AssistantLoop`

`Send` is `_on_send`; `BeginPlan` to `EndRound` are `plan_request`: `Answer` takes
*any* sequence of up to `MaxAnswer` calls, valid or not, `AnswerFails` is a hard
error of the provider; a call is skipped (`SkipCall`: invalid or seen) or taken up (`Take`), which
leaves its fingerprint, and given to the executor. What comes of it is read off the
outcome, as in the code: a call whose error has "confirmation" in it is kept as a
proposal (`KeepCall`), be it the executor's refusal of a HIGH call or the error of a
handler that was entered and quotes the word (`Quoting`: a criterion's name in
`analysis.ahp`); any other counts as executed (`RunCall`). `ran` is history, the handlers
entered in this plan, and so is `settled`, the proposals that were run or taken off the
list since it was made. `Affirm`, `ConfirmNext`,
`ConfirmDeclined`, `ConfirmDone` are `_confirm_pending` and its follow-up plan of
one round; `Settle` is the Approve and Decline buttons. A tool call is its tool
and arguments; validation against schemas is the set `Valid`.

### 3.5 `BackgroundTasks`

Tasks are numbered as they are begun. The GUI thread: `ChooseProvider`, `Search`,
`Select`, `DownloadSelected`, `CancelBackground`, `Accept` and `Decline` are the
user's clicks, each the whole handler; while a dialog is open (`dialogs`, the
topmost last) only its own two are possible, but results are still delivered
(`SearchDone`, `MetadataDone`, `DownloadDone`), so that dialogs nest. `Finish` is
`FunctionTask.finished` and `_finish_background`, which clear *the* slot
(`active`, `shown`), whichever task it holds. The worker: `Start`, and the loop of
`read_body_capped` as `Poll`, `ReadChunk`, `ReadEnd`. A task shares nothing with the
GUI thread but `cancelled` and its result. A job's exceptions all become results
(`guarded`), so that `ReadEnd` has two outcomes. `late` is history: chunks read after
cancellation. A search of STAC does not poll (`_post_json`).

### 3.6 `Requirements` and `Fulfillment`

`Requirements` has no state: its operators are the functions of `contracts.py`
and `fulfillment.py`, a function or a branch each, under their own names. A box is
the set of cells it covers, so that containment is inclusion, and boxes of
different CRS are not compared; layers are numbered in the order of their ids. What
is unknown of a layer is `None` in its record: a CRS without authid, fields or an
extent that could not be read, time support. The seven checks of `_check_layer` are
`GeometryCheck` to `TemporalCheck`; `Failures` has those that fail, and the first decides.
The branch for chains that are too long is unreachable (all have one step) and left
out.

`Fulfillment` is a session: `CheckRequirement` plans on a snapshot,
`ValidateDataset` has QGIS look at one of its layers, `Satisfy` judges the report,
`ValidateJoinKey` looks at the columns of a planned join. QGIS's answers are choices:
whether it knows the CRS, how the sample of geometries turns out, whether a box in
another CRS covers, whether features are where they are asked for. Validation asks the
layer's getters anew: what the record leaves open (count, fields, CRS, extent, time) may
be answered now, or again not, and what it knows stays (`ReadAnew`; `found` is history,
the layer as it answered). Only records
`discover_project` can produce are validated (`Discovered`); `CheckRequirement` also
takes the snapshots a caller hands in. Of a join, `Collected` is the scan of a layer, which
may fail and which stops one row beyond the cap, and `Scan` the loop over the values with
its set of those seen: the left side first, then the right one against both sets, each left at the
first repetition. `Meets` and `Completions` are not in the code:
they say, once and without order or early exits, what it is to meet a requirement
and what a layer may turn out to be.

### 3.7 `TransformChain`

A call is proposed (`Propose`, the plan of the assistant or the input of the tool),
the user may add and remove layers (`ChangeProject`), and then confirms it.
`RaiseOut`, `RefuseChain` and `BeginChain` are `run_transformation_handler` up to
`run_chain`; `RunStep`, `StepFails` and `EndChain` are a round of its loop and its end;
`RefuseGis` and `RunGis` are the five handlers of `gis_tools.py`.

| State | In the code |
|---|---|
| `project` | `QgsProject.instance().mapLayers()` |
| `disk` | the files in the directories `mkdtemp` has made, by call and path |
| `request`, `stage`, `sandbox` | the tool's input, where the call is, `sandbox_dir` |
| `current`, `outputs`, `verdict` | `run_chain`'s locals and its result |

What a data set contains is its derivation, `<<op, input, overlay>>`; an algorithm
that reads the file it writes spoils it (`<<>>`). Values of parameters are what the
checks of `validate_step` tell apart. The handler runs on QGIS's main thread, so that
the project does not change during a run. Output references are sequences of
components, and `SafeOutputPath` does what `_safe_output_path` does with "..", "~", a
colon and ".".

### 3.8 `Catalog` and `Acquisition`

`Catalog` has the adapters' pure parts. Text that is taken apart again is a sequence
of symbols, in which the separators ";", "=" and "&bbox=" are symbols of their own, so
that `EncodeDatasetId`, `Decodable` and `DecodeDatasetId` do what `join`, `split` and
`partition` do; `Split` reads a text symbol by symbol, as a recursive function that can
be proved about. An id that is not `Decodable` is one the decoder returns `None` for. `Converted` is `overpass_json_to_geojson`, `AssetAccepted` the checks of
`_asset_href`, `ArchiveAccepted` and `Written` those of `safe_extract_zip` and how much
it writes of a member.

`Acquisition` has threads, each with one operation at a time. `Lookup`, `Throttle`,
`LookupDone`, `LookupCached` and `LookupInvalid` are `NominatimAdapter.search`; `Tags`
and `TagsDone` that of Overpass; `Refetch` and `RefetchDone` its `download`;
`AssetHref`, `Body` and `FetchFails` the download of an asset; `Extract` is
`safe_extract_zip`. *Handlers* are tool calls, with a new adapter each (`Adapter`, the
registry's `get`); *keepers* hold on to theirs, as a caller of the adapters' own API may:
in the repository only tests do (`tests/unit/test_data_providers.py:171`, `:334`).
Providers answer or fail at any time; `Tick` is the clock. The query in
`Refetch` and the cap in `File` are history.

### 3.9 `Engines` and `Analysis`

`Engines` has the functions of the three engines over integers: weights are parts of
`Unit`, offsets and swept weights parts of a common denominator, so that comparisons
are exact and the tolerance of rankings is `Eps` parts. `AhpError` is
`validate_ahp_input` in its order; `Clamp`, `Offsets`, `Perturbed`, `Ranking`,
`Interval`, `Crossovers` are the functions of `sensitivity.py`; `Usable`, `Column`,
`Norm`, `Score`, `ClassOf`, `Scores` the parts of `suitability_wlc`. A score is in parts of
the product of all spans (`Denominator`), so that what a criterion adds (`Part`) is its
weight, the normalised value and the spans of the others. Units are numbered in the order
of their keys as texts, which is what breaks ties. The final normalisation of swept weights is left out: they sum to one as they are. The power
iteration is not computed: `Vectors` has what it may return, which it checks to be
positive.

`Analysis` is a call: refused with the first error (`Refuse`), without a proper vector
(`NoVector`), weighed (`Weigh`; an inconsistent matrix is only flagged), swept one
criterion after the other (`Sweep`, `EndSweep`), or scored and written
(`ScoreUnits`, `BuildOutput`).

## 4 Runs: what is checked and what it shows

| Run | Module | Checks | States |
|---|---|---|---|
| `exec_one_call` | ControlledExecution | `AuthorisedEffect`, `TrailAgreesWithOutcome` | 1 call; 2 names, 2 versions, 5 tool variants, 2 inputs, 2 contexts, 2 artifacts |
| `exec_two_calls` | ControlledExecution | `IntentIffEffect`, `EffectOnRecord`, `ImplementsGovernedEffect`, `EveryCallSettles` | 2 concurrent calls; 3 tool variants |
| `provenance` | ProvenanceStore | `OneRecordPerIdentity`, `OpenMeansFile`, `PromisesKept`, `AlwaysOpens`, `ImplementsLog` | 2 identities, 2 times, 8 lines, any number of lives |
| `sandbox` | SandboxLifecycle | `InFlightProtected`, `SuccessIsKept`, `LoadsVerifiedFiles` | 2 downloads and the user, floor 2, retention 3, 5 instants |
| `assistant` | AssistantLoop | `EachCallOnce`, `SettledIsSettled`, `MessageEnds` | 4 tools, 5 valid calls, one that may quote the word, 2 rounds of up to 2 calls, any number of messages |
| `background` | BackgroundTasks | `SlotIsLive`, `EnabledIsSelected`, `CancelIsPrompt`, `FailedIsOver`, `EveryTaskReports` | 3 tasks, 2 providers, 2 chunks |
| `fulfillment` | Fulfillment | `AvailableIsCertain`, `ReprojectionRepairs`, `ProposalFillsGap`, `SatisfiedIsMeasured`, `ValidationAgrees`, `KeysIdentify` | 17 requirements, 0 to 2 layers, 7 columns, a cap of 2 rows |
| `transform` | TransformChain | `InvalidRunsNothing`, `ResultIsTheChain`, `EarlierResultsStay` | 2 layers, 2 calls, 9 right and 11 wrong steps in chains of up to 4; 8 single analyses |
| `acquisition` | Acquisition | `RefetchIsTheSearch`, `WaysAreWhole`, `SavedWithinCaps`, `NoStaleFailure` | a tool call and a caller that keeps its adapter; 10 queries, 4 answers, 6 items, 6 archives, a gap of 2 ticks |
| `analysis` | Analysis | `SweepIsAdmissible`, `StableStaysInside`, `NullsChangeNothing`, `BetterIsNotLower` | 16 matrices, 5 vectors, 9 ranges, 5 to 9 steps; tables of up to 3 units with 2 fields |

and two runs that show where the code departs from what is written about it
(section 7).

What these say, where the name does not: until the floor after it last touched its
sandbox a running download finds there what it wrote (`InFlightProtected`), and a
success keeps its file for the retention time (`SuccessIsKept`), both for downloads of
any length and save for a file opened under a removal at work; no handler is entered
twice in a plan for one call (`EachCallOnce`), and what the user confirmed, approved or
declined off the list is not on it again unless a plan proposes it anew
(`SettledIsSettled`); where a download is proposed, the layer that comes closest cannot
meet the requirement, or has an unknown geometry (`ProposalFillsGap`); data called
satisfying are so in what the getters answered (`SatisfiedIsMeasured`); validation of an
available layer finds nothing its record had shown otherwise (`ValidationAgrees`); a
valid key of complete scans tells all rows apart, save for one row over the cap
(`KeysIdentify`). A download fetches the very query that was
searched (`RefetchIsTheSearch`, for values without separators); a way has all its
points although its nodes may come after it (`WaysAreWhole`); what stays on disk is
within the caps whatever sizes are declared and whichever step fails
(`SavedWithinCaps`); a failure is never older than the call that reports it
(`NoStaleFailure`); no offset at which the ranking holds is left out of the reported
interval (`StableStaysInside`, the sound half of `IntervalIsStable`); the units that
are kept have the scores they would have without the excluded ones
(`NullsChangeNothing`), and a unit that is better in every criterion never scores less
(`BetterIsNotLower`).

Bounds, and why they are enough.

* *One call.* Everything `execute()` compares is there twice: two inputs, one of
  them valid only for the newer version; two contexts; two versions under one
  name; a permitted, a consequential, a handler-less and a denied tool. Two
  artifacts let a call hold one of the wrong kind after one of the right kind
  was made.
* *Two calls.* Calls meet only in the registry and the sink, and a property
  speaks of one call at a time; a third call could do nothing to a call that the
  other does not. The theorems of section 6 have no such bound.
* *Provenance.* A reload adds at most one line per identity, so eight lines hold
  up to four lives of two identities, or two torn writes and what follows.
  `Open` is disabled when a load could hit the bound, so the bound never cuts a
  load short.
* *Sandboxes.* Two downloads give every meeting of a download with the sweep of
  another and with the user's, and a sweep with a sweep. With five instants a
  download can be made, finish, pass the floor and pass the retention time, and a slow
  one can outlast the floor before its first byte or while it writes.
* *Assistant.* Two gated tools, one with two arguments, one that runs at once, one
  that may fail with the word in its error, and answers of two calls give repeated calls
  within an answer and over rounds, two proposals for one tool, and proposals for two
  tools. `MaxRounds = 2` is one less than the code's default: a third round meets nothing
  the second does not, as calls meet earlier rounds only in the fingerprints and the
  collected proposals.
* *Background.* Three tasks are what it takes for a download (search, metadata,
  download), and let any two meet a third; every order of begin, cancel and
  report of two tasks on the slot occurs. Two chunks let a cancellation fall
  before, between and after them.
* *Fulfillment.* A requirement that constrains everything, and those that differ
  from it in one dimension; a layer that meets it, and those that differ in up to
  two dimensions; pairs of layers that differ in one each. A property fails on one
  layer or on a pair, by one comparison or by the order of two, so that more
  layers or more differences repeat what is there. Columns have up to four values,
  with a repeated, a null and a common one among them; with `ScanCap = 2` they lie below,
  at, one above and two above the cap. The theorems have no such bounds.
* *Transformations.* A step of each operation that is right, and one that breaks each
  rule; all pairs of a right step and any step, so that a wrong one comes first, last
  or alone; some chains of three and one too long. Two calls make one run meet the
  files of another; two layers are a source and an overlay, either of which may go
  before the run. Targets are equal, different, nested, the sandbox itself and outside.
* *Acquisition.* Threads meet in nothing but time, so one of each kind is enough. Two
  ticks let a request fall into the gap, at its end and after it. The queries have each
  separator in a value, at its end, and twice; the archives yield more and less than
  they declare, and reach each cap.
* *Analysis.* 120 parts give pairs of the scale whole weights. The vectors are apart,
  tied, nearly tied and close to the ends, so that every clamp, crossover and tie
  occurs; ranges lie on either side of 0 and across it. Tables of three units with
  values missing in either field, for one and two criteria of both directions.

Deadlock is checked everywhere except for the provenance store, whose model
stops at its bound of lines, for `Fulfillment`, whose sessions end, for
`TransformChain`, which stops at its bound of calls, and for `Analysis`, whose calls
end.

## 5 Fairness

`exec_two_calls`: a call that has begun runs on (`WF` on each call's `Step`);
Python executes the statements of a method, and a handler is taken to end.
Nothing is assumed of the registry, the user or the sink.
`assistant`: handlers on the GUI thread run on; a provider answers or times out
(`ai/openrouter.py` sets a timeout) and an open dialog is answered. That the user
sends or affirms anything is not assumed. `background`: every worker runs on, a read ends or times out (the transport sets
a timeout), and the event loop, a dialog's included, delivers what has ended; the
user need do nothing, and an open dialog may stay open for ever. The other runs have no
liveness property.

## 6 Proofs

All theorems hold for any sets of calls, tools, inputs, contexts, downloads, and
any policies and ages. The assumptions are the named `ASSUME`s of the modules:
sets are of the kinds their comments say and `None` is not among the values it
is told from.

**`ControlledExecutionProofs`.** The properties are not inductive as they stand:
that a handler which runs was confirmed depends on what the earlier labels
established. The invariant `IInv` says, for each label, what the checks passed so
far have established (`AuthorityInv`), exactly which records the trail holds and
whether the handler was entered (`ProgressInv`), and what a call leaves behind
(`ClosingInv`). Each action has a lemma; `FrameStep`, `QuietStep`, `FailureStep`
and `RefusalStep` carry what actions share. From `Spec => []IInv` follow
`TypeCorrect`, `EffectsAreAuthorised`, `IntentsMatchEffects`,
`OutcomesMatchTrails` and, with the shape of single steps, `EffectsAreOnRecord`.
`Implementation` proves the refinement of `GovernedEffect`: the initial state
maps to the initial state, and each step maps to a step or a stutter
(`StepImplements`, by label).

**`SandboxLifecycleProofs`.** `FloorProtects` and `SuccessStays` hold for downloads of
any duration; what they claim is what the age of a directory can carry. The
invariant adds to the properties that a sandbox is no older on disk than what its
download last did there (`FlightInv`) and that what a removal is at work on had
reached the age of its sweep, unless its file was opened meanwhile (`VictimInv`),
which is what makes the stale age harmless. The two exceptions in the properties, a
download silent for longer than the floor and a file opened under a removal, cannot
be dropped: both lose the sandbox (section 7). `LoadInv`, for
`OnlyVerifiedFilesLoad`, says that a partial file never belongs to a successful
download.

**`FulfillmentProofs`.** The invariant `IInv` says that the plan, the report, the
judgement and the key report are each what their function makes of the inputs, and the
report of a layer as it answered, so the work is in lemmas about the functions.
`FirstIsLeast` (the choice of a least
layer exists, by well-foundedness of the naturals) and `NoFailures` give
`LocalLayerIsAvailable`: a plan that names a local layer names one that passes
all seven checks. `AvailableMeets` goes from there to `Meets` for every completion:
`AvailableLayersFit`. `KnownStaysKnown` (a layer read anew has what its record knew),
`ReportsTellTheLayer` and `NormalizedTypesFit` (normalising types
twice is normalising them once) carry the checks over to the report:
`ValidationConfirms`, and in the other direction, from the report's tests to the layer
that was read, `SatisfyingDataAreMeasured`. `ReprojectionsRepair` and `ProposalsFillGaps`
compare the planner's own tests (`_member_ok`, which looks at a layer before it is
transformed) with the checks of `_check_layer`. `ChosenIsAStep` says that the least step
exists, `PlannedReprojection` and `PlannedProvider` which tests led to a plan,
`ReprojectionPasses` that a layer those tests accept passes the seven checks once it is
reprojected, `CandidateIsClosest` that the candidate passes most checks, and `GapIsDefinite`
that a first failure which lets a download be proposed is one no completion repairs, but for
an unknown geometry. `JoinKeysIdentify` is about the loop: `ScanSeesDistinct`, by induction
over the values (`SetInduction`), says that a scan which repeated nothing has seen values
that are all different, and `CompleteIsWhole` that a complete scan, save at one row over
the cap, has the whole column.

**`TransformChainProofs`.** `InvalidChainsRunNothing` has to remember, across calls, that
files are in sandboxes of calls that were made (`FilesOfCalls`), that a call which waits
has left nothing (`WaitingIsClean`), and that what runs was validated
(`RunningIsValid`). `EarlierFilesStay` is then a matter of single steps: a step writes to
a path named by its own call. `ChainsMakeTheirResults` follows the loop of `run_chain`: the
reported outputs are the steps' so far (`OutputsOfSteps`), the files of a call are at the
targets of its steps (`FilesOfSteps`), what its steps have read can still be read
(`InputsStay`), the current layer is the last output (`CurrentIsLast`), and each output is
what `ChainResult` says, on disk as well (`OutputsAreRight`). A step that reads the path it
writes is excluded because targets differ. Assumed are that the bound on calls is
positive, that the steps of a chain are a sequence, and, as a hypothesis of the theorem
(`NoneIsApart`), that the absent layer is neither a file nor a pair.

**`AcquisitionProofs`.** `FailuresAreFresh` follows from single
steps: only `LookupCached` returns at once what was known before, and a tool call's
adapter is new, with an empty cache. `SavedFilesAreWithinCaps` and `WaysKeepTheirPoints`
share the invariant `FilesIInv`, that whatever is on disk is `Kept`. What it takes is two
facts about data of any length. The plan of an archive adds up what members declare, while
extraction writes the smaller of that and what they yield, of some of them:
`ExtractedWithinPlan`, from `SumsCompare` and `SumsAscend`. The points of a way are its
references that are known, and are all of them if all are: `AllKnown`. Both are proved by
induction, over a set of naturals instead of a predicate (`SetInduction`, from the
well-foundedness of the naturals), which the prover can instantiate. Assumed are that
handlers and keepers are different threads, that the gap, the caps and all sizes are
natural numbers, and that the references of a way are a sequence.

`RefetchesRepeatSearches` has two halves. The invariant `SearchesIInv` relates a result
to the query it is the answer of, a refetch to the id it was decoded from, and says that
cached lookups have no ids, so that no old answer passes for one. What is left is a fact
about the two functions, `IdComesBack`: an id that was joined comes apart again into the
same query. `SplitOfAppend` says what one more symbol does to the parts of a text,
`SplitOfStretch` that a stretch without separators belongs to the last part, and
`SplitOfJoin`, by induction over the number of tags, that the parts of a joined text are
the texts of its tags; `TagComesBack` takes one of them apart at its first "=", which a
value may contain again, and `BoxComesBack` the id at its only mark. Assumed are that
separators are neither keys of the allowlist nor boxes and that a query is a record of a
sequence of tags and a box. The hypothesis of `RefetchIsTheSearch` stays: values with ";" or
"&bbox=" in them, and empty ones, do not come back.

**`AnalysisProofs`.** `SweepsAreAdmissible` needs arithmetic that no instance shows: the
clamp keeps the moved weight and what is left for the others strictly between 0 and 1 at
every offset (`ClampBounds`, `OffsetBounds`, by `Between`: offsets lie between the ends of
the range), so that products are positive and ratios kept (`PerturbedAdmissible`). The
invariant `SweepIsSound` says that a sweep is under way only for validated inputs with a
proper vector (`ValidMatrix`, `ValidSensitivity`, `WeightsAreProper`). Assumed are that
`Unit` is a multiple of 20, which gives pairs of the scale whole weights, that the
tolerance is positive, that what the power iteration returns is positive and below one,
as it checks itself, and that inputs have the types of their schema.

`IntervalsCoverStableOffsets` has a condition, `Apart(weights)`: two weights are equal or
differ by more than the tolerance. The attempt to prove `StableStaysInside` without it
failed for a reason. With weights 39, 40 and 41 of 120, a tolerance of 1 and the range
from -1 to 1 in five steps (a vector the run does not have), TLC finds the last criterion
ranked [1, 0, 0] at offset 0 and again at -1, but [2, 0, 0] at -1/2: moving a weight
scales the others, and a difference of exactly the tolerance becomes more than it and
less again. The baseline's offsets are then not contiguous, and the interval, whose scans
stop at the first difference, leaves one out. Where ties are exact, every comparison
changes at most once along the sweep (`ComparisonsAreMonotone`), an equal ranking means
that all comparisons are equal (`RanksAreSame`: what comes before a criterion only grows
or only shrinks, and sets of which one includes the other are equal if they are equally
large, `EquallyMany`), so that stable offsets are contiguous (`StableIsContiguous`) and the
scans find their ends (`IntervalCovers`).

`BetterUnitsAreNotLower` and `ExcludedUnitsChangeNothing` are about layers of any size, so
`Engines` defines sums, products and sorting by what the prover can reason about:
recursive functions, and a choice among the sequences in an order. A sum is the last of its
partial sums (`SumIsLast`), which makes sums comparable term by term and lets a factor be
taken out (`SumsCompare`, `SumsScale`, `ProductsFactor`), again by `SetInduction`. A finite
set has exactly one sequence in a strict order and it has every element of the set
(`OrderExists`, `OrderCovers`, `OrderIsUnique`). The state part is small: results are the
engine's, for an accepted layer (`ScoredAsComputed`). Then the best in all of a column has a
normalised value of the whole span, the worst 0 (`NormsCompare`), and weights sum to one, so
that the score of the one is the denominator and of the other 0 (`ScoreExtremes`, whatever
the weights); between them scores follow values where no weight is negative
(`ScoresCompare`). The layer without the excluded units has the same columns
(`CompactIsSame`), so the same spans and scores; its ranking, read through the renumbering,
is in the order of the first, and there is only one such (`CompactRanks`). Assumed is only
that a field of a unit has a number or none (`SuitabilityInput`).

**`ProvenanceStoreProofs`.** That memory and file agree is not inductive, because a store
that is being opened appends to the file it reads. The invariant follows the load line by
line: what is remembered or promised is the first record of its identity on the file
(`RememberedIsFirst`, `PromisedIsFirst`), and the lines passed are remembered
(`LoadedIsKnown`), all of them once the store is open. All of that holds as long as writes
are whole; `OneRecord` and the refinement hold with failed and cut-short writes too.
`LogImplemented` needs no more than the types: appending keeps what is first
(`FirstOfAppend`), and spoiling an unended last line takes no record but its own
(`FirstOfSpoiled`), so that each write is a step of `ProvenanceLog` or none
(`WritingImplements`). The file may have any length.

**`WorkspaceProofs`.** Of the Assistant tab, the invariant ties what ran, what counts as
executed and what is kept together by the fingerprints (`PlanInv`): a call is
taken up only if it is not among them. For `SettledProposalsStaySettled` it is not
enough that what is settled is off the list, because inside the confirmation loop the list
still has what was run: there it says that what comes later has not been settled
(`AskedLater`), which holds because no two proposals are for one tool (`OneOfEach`).
The rest is what appending, dropping and removing do to the members of a list. Rounds and
answers may be of any length. Of the Data tab, `TasksIInv` adds to the four properties
what dialogs and workers may count on: only work that runs is cancelled
(`OnlyWorkIsCancelled`), a chunk read after the cancellation is the worker's last
(`LateIsLast`), and the download to load is one that was delivered (`LastIsDelivered`).
That the slot holds no task that has reported is not obvious, because it is cleared by
whichever task reports first: it may be empty while tasks run, and never the reverse.
`FailedTasksAreOver` is then a matter of single steps.

Model-checked only:

* liveness (`EveryCallSettles`, `MessageEnds`, `EveryTaskReports`), which is beyond the
  prover;
* `StableStaysInside` for weights that nearly tie is neither proved nor true: see above.

## 7 Where code and documentation disagree

Each of these two has a run whose counterexample shows it.

| Run | Written | The code |
|---|---|---|
| `exec_unknown_tool` | `execution.py:321`, `:403`: no handler execution for an unknown tool | a `KeyError` raised *by the handler* is reported and audited as an unknown tool (`:320`) |
| `sensitivity_interval` | `sensitivity.py:231`: the interval is the range "where the entire ranking remains unchanged"; `:234`: estimated conservatively | the scans start at the far ends of the sweep (`:245`, `:260`) and find the unstable offset farthest from the baseline: the interval takes in offsets at which the ranking differs; `docs/research/M3-SENSITIVITY-REPORTING-DESIGN.md` §2.7 knows of it |

Seen while modelling and not checked by a run:

* `execution.py:353`: an exception with an empty message (a bare `ValueError()` of a
  handler) makes `ToolResult` raise out of `execute()`; ADR-0010:59 says "every path
  returns a structured `ToolResult`".
* `store.py:119`: every reload appends each record to the file once more; the docstring
  (`:40`) says "without duplicating".
* `sandbox.py:82`: a sandbox whose file is a project layer is removed by age like any
  other; `:60` says "orphan sandboxes".
* `controller.py:250` takes any error with "confirmation" in it for a request for consent.
  `analysis.ahp` quotes the names of criteria in its errors (`ahp.py:298`, passed on by
  `execution.py:328`), so that a call which ran and failed over such a name becomes a
  proposal, is not reported as executed, and runs again, without asking, when the user
  confirms it; the docstring (`:188`) speaks of HIGH calls.
* `controller.py:251`: a second proposal for the same tool is dropped, and all are when a
  later round fails; `:189` says that proposals are returned.
* `sandbox.py:22` says "never remove a sandbox younger than this", because a download may
  be writing into it. The age is the directory's, which does not change while a file in it
  grows, and no limit is set on the length of a download: Clean removes the sandbox of one
  that has taken longer than the floor (60 s) since its `mkdtemp` or since it opened its
  file. And a file opened between the sweep's reading of the age and its removal is removed
  with a directory that was modified just now (`:81`, `:86`).
* `workspace.py:369`: the follow-up plan is for `last_request`, which may be a
  later request whose plan failed and left the earlier proposals pending.
* `transport.py:159–169`: the branch that follows redirects is never reached;
  with `_NoRedirect` a 3xx answer is raised as an `HTTPError`.
* `docs/ai/OPENROUTER.md` speaks of at most two model rounds; the default is
  three.
* `controller.py:55–57` describes the gated tools without
  `data.load_into_project`, which is HIGH too.
* `osm.py:8–11` promises a throttle and a cache; both live in the adapter
  object, and `adapters/registry.py:48–53` makes a new one for every call. No caller in the
  repository keeps one, so across tool calls neither holds: the models show no rate, and
  there is no property of one. Failed lookups are cached like answers (`osm.py:441`), and
  the cache ignores the query's limit (`:433`).
* Limits that nothing reads: `retries`, `cache_ttl_s`, and with them
  `RETRYABLE_ERRORS` (`base.py`).
* `osm.py:109`: values with ";" or "&bbox=" in them do not come back from the id, and
  with an empty one the search succeeds while its result cannot be downloaded (`:129`).
* `osm.py:202`: points of a way whose nodes are missing are left out without a count.
* `stac.py:192`: a download fetches its item again, which may describe another asset
  than the one the user confirmed.
* `transport.py:367`, `:419`: errors of `zipfile` other than `BadZipFile` at opening and
  `OSError` at extraction leave `safe_extract_zip` as exceptions, and an extraction that
  fails leaves the members it wrote.
* `store.py:49`: `append()` updates memory before it writes; after a failed write
  the retry finds the record in memory and never writes it, although the module
  promises an index *plus* file persistence (`store.py:3`).
* `workspace.py:365`: declining one proposal drops those after it without asking;
  `workspace.py:347` says that pending proposals are executed via dialogs.
* `workspace.py:581`: the provider is read from the combo box again when metadata
  arrive, so the confirmation dialog may name one provider and show the licence and
  the assets of another (`dialogs.py:101`: "Shows dataset identity, license, and
  per-asset id/size").
* `workspace.py:115`: one slot for the background task; a second task replaces
  the first, and the first to finish clears the slot of the other: Cancel then
  reaches only the newest task, or none.
* `contracts.py:1542`: a key value that is on both sides of a join counts as a
  duplicate, so a join that matches anything is refused; the docstring (`:1490`)
  says "no duplicates on the 1:1-required side", a unit test
  (`test_cross_side_duplicates_rejected`) wants the code's behaviour.
* `contracts.py:1155`: a chain needs the layer's box to cover the asked one in the
  *same* CRS before reprojection, so a requirement whose extent is in the CRS it asks
  for never gets a reprojection of a discovered layer.
* `contracts.py:881–884` leaves partial coverage under a threshold below one to
  validation, which computes no ratio: such a requirement is never satisfied by
  partial coverage.
* `contracts.py:1109`: a join is planned when the required fields are present
  between two layers, whatever their types.
* `fulfillment.py:129–131` keeps truncated snapshots without proposal, but only where the
  best layer fails on geometry or time; with another gap a download is proposed, and
  a truncated snapshot without an acceptable project source is "no-layer". Only the layer
  that passes most checks is looked at: one behind it may leave values open, and the
  download is proposed all the same. A layer of unknown geometry counts as one of another
  geometry.
* `contracts.py:898`: an unknown feature count passes the check on emptiness, so that a
  layer called available may be found empty; the docstring of `classify_requirement` says that
  "UNKNOWN states never satisfy a check".
* `contracts.py:1575` ("never claims SATISFIED from UNKNOWN states"): data whose
  geometries could not be sampled (`UNCHECKED`), or whose feature count is unknown, are
  called satisfying.
* `validation_qgis.py:821–835`: a scan stops at one row more than the cap and compares
  as many as the cap; a layer of exactly one row more counts as complete (`:832`) although that row was
  not compared, where `contracts.py:1439` says "False = capped sample".
* `validation_qgis.py:5` has the first failure win, but a layer that fails coverage is
  still `VALID`; a layer without CRS passes the CRS check as "aspatial-only" and is
  `INVALID` for want of an extent; `data_tools.py:342` passes no snapshot, so the freshness
  check never runs.
* The chains classification plans cannot be run as they are: `transforms.py`
  (81–150) refuses their parameters, and their output names contain a colon, which
  `transform_qgis.py:49` takes for an escape from the sandbox.
* `transform_qgis.py:142`: a step's `input_refs` are ignored in favour of the previous
  output, and the outputs of earlier steps stay after a failure. Two steps may name the
  same file, and the second then overwrites the first's result, or reads what it writes.
  The reported `output_ref` of a memory layer is the text of a Python object (`:170`).
* `transform_tools.py:84` ("Never raises"): `input_refs` that cannot be iterated over
  raise out of `validate_chain` (`transforms.py:293`) and of the handler.
* `transform_qgis.py:165`, `gis_tools.py:139`, `suitability_tools.py:223`: memory layers
  are reported by name and are gone when the handler returns; nothing adds them to the
  project. `suitability_tools.py:218` ignores whether the commit succeeded.
* Discovery never reports "Raster" or "Table", so operations on rasters are planned
  only for snapshots a caller hands in, from which `data_tools.py` drops
  the time support.
* `sensitivity.py:219`: a range without 0 that the clamp turns around (its lower end above
  what the weight leaves) is swept backwards with negative weights.
* `sensitivity.py:276`: crossovers are all offsets with another ranking, where the
  docstring speaks of where it "first differs".
* `suitability.py:103` accepts negative weights, as long as the sum is one.

## 8 What is not modelled, and why

* *Within the modelled components*: queries and lineage of the store (they
  change nothing); the second root that Clean sweeps (the same model with other
  directories); loads that the assistant runs on directories of its choice; the
  removal of layers by the user; the texts of results; validation of files; a
  project that changes between its snapshot and the validation of a layer
  (`TransformChain` has one that changes between proposal and run); the scan caps of samples, beyond their verdict `PARTIAL`.
* *Not yet*: section 2, row 10; the JSON schema subset of tool contracts; the checks of
  provenance fields.
* *Out of reach or without state worth checking*: the floating-point iterations of
  AHP and rounding in the other engines, calls into QGIS (validation probes, Processing, layouts), HTTP and TLS,
  HTML, dialogs' layout, the API-key store.
