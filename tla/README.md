# TLA+ models of memory-alloc-analysis

`src/model/measure-sweeping-revocation.py` replays an allocator trace and
measures what "sweeping revocation" (scrubbing references to freed memory
before it is reused) would cost under two strategies. `src/util/trace-to-db.py`
exports allocation lifetimes from the same traces to SQLite. This directory
models the first program's core (the address-space state machine, the
revokers and the outputs they drive) and the second program's exporter,
with an abstract specification of each that the detailed model is checked
against.

## 1. Inventory

| Component | Source | State | Operations |
|---|---|---|---|
| Interval & state model | `AddrIvalState`, `AddrIval`, `intervaltree_query_checked`, `intervaltree_query_coalesced` (l. 49-110) | none (values) | point lookup with the disjointness assertion; coalesced lookup that walks touching neighbours |
| Coalesced interval map | `common/intervalmap.py` (outside `src/`; modelled from spec §4.2) | partition of the domain into maximal same-state runs | `add`, slice |
| Aggregates | `BaseAddrSpaceModel`, `BaseIntervalAddrSpaceModel._update` (l. 115-183) | `size`, `sweep_size`, `mapd_size`, `allocd_size`, the IntervalMap | `_update`: write the map, adjust the aggregates by a before/after sum over `[b-1, e+1)`; `size_measured` |
| Allocator model | `AllocatorAddrSpaceModel` (l. 186-292) | `_addr_ivals`, an IntervalTree of ALLOCD/FREED/REVOKED intervals (not coalesced), plus the inherited map | `allocd`, `reallocd`, `freed`, `revoked`, `mapd`, `unmapd` |
| Passive models | `AddrSpaceModel`, `AccountingAddrSpaceModel` (l. 295-323) | own map / `_va2sz` dict and totals | `mapd`, `unmapd`, `allocd`, `freed`, `reallocd` |
| Revokers | `BaseSweepingRevoker`, `NaiveSweepingRevoker`, `CompactingSweepingRevoker` (l. 330-406) | `swept`, capacity | `reused` (subscriber callback), `revoked` (trace event), `_sweep` |
| Outputs | `BaseOutput.rate_limited_runms`, `CompositeOutput`, `GraphOutput`, `AllocationMapOutput` (l. 409-526) | last emission time (closure), reused-range buffer | `update`, `reused`, pools, chunk classification |
| Driver and setup | `Run` (`common/run.py`, outside `src/`), l. 529-570 | — | delivers events in order to `alloc_state`, `addr_space`, `revoker` |
| Lifetime exporter | `MetadataTracker` in `trace-to-db.py` | next oid, tva→oid, per-oid metadata | `allocd`, `freed`, `reallocd`, `finish`; rows via `ia`/`ir` |

**Interaction.** The driver delivers one trace event at a time. `alloc_state`
handles it first; inside `allocd`, when the new range overlaps a FREED
interval, it publishes `reused` synchronously to the revoker (and the map
output) *before* committing the allocation. The revoker reads the tree and
calls back into `alloc_state.revoked` for each range it sweeps, so the
revoker's work is nested inside the allocation's handler. Every handler
writes two structures: the IntervalTree that the revoker reads and the
IntervalMap that feeds the aggregates and the map renderer. `addr_space`
only supplies `size`, which `_sweep` adds to `swept`.

**What is hard.** There are no threads: the difficulty is re-entrancy and
ordering inside one handler (publish-before-commit, nested revocations while
`allocd` holds a stale `overlaps` list), two structures that must stay in
step, trace pathologies the code promises to tolerate (misfrees, overlapping
allocations, reallocs of unknown or freed blocks, empty reallocs), and the
coalescing walk of the Compacting strategy.

**What makes each component correct.**
- Tree: intervals stay disjoint (the "Bug: overlapping" assertion).
- Allocator + revoker: no address freed by the trace is allocated again
  before a sweep has revoked it (the purpose of sweeping revocation); the
  revoker never asks to revoke a live allocation; Compacting sweeps the whole
  Freed set on each reuse.
- Aggregates: the mapped axis is changed only by map events (spec §4.3).
  That `allocd_size`/`mapd_size` equal the ALLOCD/MAPD bytes of the map is
  not checked: with the map modelled per address, the window sums of
  `_update` are exact by construction, whatever the window.
- Revoker counter: per spec §4.5 it grows by the revoked bytes.
- Accounting model: agrees with the interval model on clean traces.
- Outputs: the rate limiter emits at the promised cadence; chunk
  classification and chunk counts follow spec §4.6.
- Exporter: every object is written exactly once, with its realloc history.

## 2. Modules and runs

`AllocatorAddrSpaceModel.tla` is the core. Its variables are `tree`
(`_addr_ivals`, a set of `[b, e, s]` records), `amap` (the IntervalMap, one
state per address, which is the coalesced partition), `allocdSize`,
`mapdSize`, `size`, `swept`, `fault` (the exception that ended the replay) and
three history variables: `unswept` (addresses the trace freed and no sweep has
revoked since), `revokedLast` and `ev` (the event of the last step). Each code
handler is an operator transforming a state record, so nested calls compose
exactly as in the code (`Allocd` calls `Reused`, which calls `RevokeEach` →
`Revoked` → `Update`); each trace event is one atomic step (`AllocdStep`,
`FreedStep`, `ReallocdStep`, `RevokedStep`, `MapdStep`, `UnmapdStep`,
`SizeMeasured`). A fault stops the replay (no step is enabled), as the
uncaught exception does; hence `CHECK_DEADLOCK FALSE`.

The revoker is the variable `strategy`, chosen once at `Init` from the
constant `Strategies` (the `args.revoker` choice at l. 546-555); every
allocator run explores both strategies in one state space. `Commit` also
records `snapsLast`, the calls the handler made to the outputs: each
`output.update()` with the aggregates and the map it saw (from `_update`,
l. 169, and `_sweep`, l. 377), and each `reused` publication.

`MCAllocator.tla` adds two trace restrictions as specifications:
`NoRemainderSpec` (reallocs never leave part of an old block behind) and
`LiveReallocSpec` (reallocs only of live blocks or unknown addresses). It also
states the refinement: `SweepingRevocation.tla` is the abstract promise of a
sweeping-revocation allocator, with two sets of addresses, `live` and
`quarantine`. One event may free addresses into quarantine, may sweep
quarantined addresses (only when it also allocates from freed or quarantined
memory: a sweep is triggered by reuse), and may allocate addresses that are
not quarantined once the sweep is done, never ones it frees in the same event.
`Lifecycle` instantiates it with `live` = the ALLOCD addresses of the tree and
`quarantine` = its FREED addresses; `ImplementsSweepingRevocation` is
`Lifecycle!Spec` as a PROPERTY.

`CompactingReused` follows the loop of l. 389-406 turn by turn.
`CoalesceFreed` is the outer `while`: it pops the lowest FREED interval
left (`Lowest`, the end of the reverse-sorted list) and widens it through
touching FREED and REVOKED neighbours (`QueryCoalesced`). `SkipReached` is
the inner `while`, which pops every interval starting before the run's end.
An interval starting exactly at the end fails the assertion of l. 400, and
the model records this as the fault `assert_coalesce`. No run reaches it.

`AccountingAddrSpaceModel.tla` models the fast path (l. 302-323): `_va2sz`,
`allocd_size` and `mapd_size`, with one operator per handler. `MCAccounting`
composes it with the core: both consume the same event `ev'` in one step, so
their aggregates can be compared after every event. `CleanSpec` restricts the
trace to clean events: no allocation over a live block, frees and reallocs only
of block starts, map events away from live blocks.

`GraphOutput.tla` models `BaseOutput.rate_limited_runms` and `GraphOutput`
(l. 409-451): `callLast` (the closure's `last` timestamp), `now`
(`run.timestamp_ns`), `lines` (rows printed in the last step) and `lastAt`.
`Update(calls)` folds the rate-limited call over the `update()` calls one
handler made (`FoldLeft`), so a handler that calls `update()` several times is
one step. Each call carries the state the outputs read at that moment
(`Snap`: the aggregates and the coalesced map).

`AllocationMapOutput.tla` models the map renderer (l. 453-526): its own
limiter closure (`callLast`), the reused buffer `reusedBuf`, and `maps`, the
maps rendered by the last step. `GetMemoryPools` folds the coalesced,
non-UNMAPD intervals into pools (`AddToPool` is one turn of the nested
loop); `ChunkOffsets` is the `range`/`chain` arithmetic; `ChunkState` is the
four-way classification, with the 80 % test done in integers
(`5 * covered >= 4 * size`; for integer sizes Python's `0.80 * csize` gives
the same answers). The allocator publishes `reused` through `Publish`, which
calls the revoker and then the map output, in registration order.
`MCOutput` composes the core with both outputs: `CompositeOutput.update`
hands every call to the graph output and then to the map output, each with
its own limiter. `Tick` advances the trace clock between events, and `Finish`
is the unconditional last `update()` of l. 568.

| Run | cfg | Expect | Checks |
|---|---|---|---|
| safety | MCAllocator_safety.cfg | pass | TypeOK, TreeDisjoint, RevokerNeverRevokesAllocd, CompactingSweepsAll |
| reuse | MCAllocator_reuse.cfg | pass | ReuseSafe, ImplementsSweepingRevocation on NoRemainderSpec |
| realloc_reuse | MCAllocator_realloc_reuse.cfg | violation | ReuseSafe on LiveReallocSpec |
| realloc_free | MCAllocator_realloc_free.cfg | violation | ReplayNeverFails |
| swept_bytes | MCAllocator_swept_bytes.cfg | violation | SweptCountsRevokedBytes |
| mapd_size | MCAllocator_mapd_size.cfg | violation | MappedSizeOnlyFromMapEvents |
| accounting_clean | MCAccounting_clean.cfg | pass | AccountingAgreesOnCleanTraces on CleanSpec |
| output_lines | MCOutput_lines.cfg | pass | AtLeastOneLine, PoolsMatchReference, ChunksTilePool |
| output_snapshot | MCOutput_snapshot.cfg | violation | SnapshotsAtEventBoundaries |
| tracker_rows | MetadataTracker_rows.cfg | pass | TypeOK, InsertsSatisfySchema, RtsMatchesReallocRows, ReallocRowsChain, FinishTerminates (FairSpec) |
| tracker_realloc_free | MetadataTracker_realloc_free.cfg | violation | ImplementsObjectLifetimes |
| tracker_inplace | MetadataTracker_inplace.cfg | violation | ReallocKeepsObject |

`MetadataTracker.tla` models `trace-to-db.py`. Its variables are the tracker's
dictionaries (`tva2oid`, `oid2amd`, `oid2irt`, `oid2rmd`; `None` where the
dict has no key) and `nextoid`. It also has the rows passed to the `ia`/`ir`
callbacks, kept as the sequences `allocs` and `reallocs`, and the event
count `now`, which stands in for `run.timestamp_ns`. `allocd`, `freed` and
`reallocd` are operators over a record of that state, so the synthesized
`freed` calls compose as in the code. Each trace event is one step.
`Finish` enters `finish()`, which sets the timestamp source to `None`. Each
turn of its `while` loop is then one `FinishIter` step, which frees the
first live key. The
bounds are `TVA = {0, 1}`, `Sizes = {1, 2}` and at most 4 events. Those are
enough for two reallocs of one object followed by a free, for a realloc onto
a live address, and for the in-place realloc. Five events take several times
longer and add only longer realloc chains.

The rows are checked against the tables the script creates (l. 123-136):
`NotNullColumns` lists the NOT NULL columns the model keeps, and `oid` is
the primary key of `allocs`. `AllocRow` and `ReallocRow` build the tuples
`ia` and `ir` insert. A row that breaks a constraint would raise
`sqlite3.IntegrityError`, and since `con.commit()` runs only at the end, the
whole export would be lost.

`ObjectLifetimes.tla` is the abstract specification of the exporter, taken
from the header comment ("for each allocated object, a row to the 'allocs'
table"). Its state is the number of objects born, the set of live objects,
and the sequence of objects written. A step ends some live objects, writes
their rows in some order, and begins at most one new object, numbered after
all earlier ones. `MetadataTracker` maps onto it through `Lifetimes`:
`born` is `nextoid - 1`, `live` is the set of oids that `_tva2oid` still
holds, and `written` is the sequence of oids of the `allocs` rows.

**What the runs show.**
- The tree stays disjoint under every order of events, including the
  nested revocations and misfrees.
- Neither revoker ever hands `revoked()` a live range. Compacting's
  pop-and-skip loop always builds a batch that covers the whole Freed set.
  A skip loop without its `ival.end >= begin` test leaves FREED intervals
  behind, and TLC finds that.
- Reuse safety holds for both strategies as long as no realloc leaves part of
  its old block behind, and on those traces the allocator with either
  revoker implements `SweepingRevocation`: frees go to quarantine, sweeps
  happen only on reuse, and nothing is allocated out of quarantine.
- **accounting_clean**: on clean traces the accounting fast path reports the
  same `allocd_size` as the interval model after every event.
- **output_lines**: whatever the timestamps, the script prints at least one
  snapshot line; this rests on the `last == 0` clause of the limiter, since
  a trace may end within one period of its first output. Every map the
  renderer prints groups the map into exactly the reference pools (maximal
  stretches without `PoolGrowth` consecutive free addresses), and every pool
  is tiled by consecutive chunks, at most `Resolution` of them, each
  `chunk_size` or `chunk_size + 1` bytes.
- **realloc_reuse**: `reallocd`'s overlap branch tests `lt`/`gt`
  (intervaltree: entirely before/after), never true for overlapping
  intervals, so the freed tail of a shrinking realloc disappears from the tree
  and is reallocated unswept (`allocd(0,2); reallocd(0,0,1); allocd(0,2)`).
- **realloc_free**: a realloc of an address the tree does not hold, to an
  empty range, degrades to `allocd(b, b)` (l. 223). Its `add` of the null
  interval (l. 215) raises, and the replay ends.
- **swept_bytes**: the counter grows by `addr_space.size` per sweep, not by
  the revoked bytes the spec promises.
- **mapd_size**: allocating inside allocator-mapped memory lowers `mapd_size`.
- **output_snapshot**: `output.update()` is called from inside `_update` and
  `_sweep`, so a line can show the aggregates half-way through a handler:
  after `size_measured(1)`, a trace `revoked(0,1)` is printed by `_update`
  before `_sweep` adds to `swept`, so the line shows the map after the
  revocation and `swept` before it.
- **tracker_rows**: across every trace of up to four events plus the final
  flush, every row passes the tables' constraints: no object gets two
  `allocs` rows, and no NOT NULL column is `None`. (The NOT NULL part holds
  by the model's shape, since `None` only ever reaches `fts`. The primary key
  is the part that matters.) Under `FairSpec`, `finish()`'s loop
  terminates. It does so only because each `freed(k)` pops `k`, and a
  `freed` that used `get` would spin forever. `rts` is set exactly for objects
  that have `reallocs` rows, and each object's `reallocs` rows chain by size.
- **tracker_realloc_free**: the exporter does not refine `ObjectLifetimes`.
  A free through realloc (`etva == ntva`, l. 82) pops `otva` at l. 76 before
  it calls `freed(otva)`. `freed` then finds nothing, so the object leaves
  `_tva2oid` without a row, and `finish` cannot write it later. Trace:
  `allocd(0,1); reallocd(0,1,1)` (old, new, end), which is no step of the
  abstract specification. No run checks the refinement on the other paths.
  The in-place realloc below is a step the abstract specification allows
  (one object ended and another begun).
- **tracker_inplace**: an in-place realloc (`ntva == otva`) runs into the
  synthesized free at l. 71. That ends the object's lifetime, and the realloc
  then creates a new object: `allocd(0,1); reallocd(0,0,1)` writes object 1
  and starts object 2.

**Bounds.** N = 3 addresses: enough for an interval with fragments on both
sides after a chop, for FREED–REVOKED–FREED coalescing, and for shrinking and
moving reallocs; every range of 0..3 is enumerated for every event. `Sizes =
{0, 2}` makes a sweep cost either nothing (before the first sample) or a
non-zero amount; `MaxSwept = 4` allows two charged sweeps. `VIEW StateView`
leaves the history variables `ev`, `revokedLast` and `snapsLast` out of the
state fingerprint. No action reads them, and the properties read them only
primed. `unswept` stays in the view because `ReuseSafe` reads it unprimed.
`OutView` keeps `maps`, which the map-output invariants read.
The safety run takes about 95 s, the reuse run (with the refinement) about
85 s. MCAccounting uses `Sizes = {0}` and `MaxSwept = 0` (the sweep counter
plays no part) with `MaxMapd = 2`; MCOutput_lines uses N = 3, `Sizes = {0}`,
`MaxSwept = 0`, `Period = 1`, `Times = {0, 1, 2}` and at most
`MaxEvents = 3` events. That is enough for calls within and beyond one period
of each other and for the first call at timestamp 0. With `PoolGrowth = 1`
and `Resolution = 2` (scaled from 0x1000 and 60), three addresses give two
pools split by a one-byte gap, and a three-byte pool of one wider and one
narrower chunk (the `rem > 0` case). The same bound, N = 3 with unbounded
traces, exceeded 15 minutes, so the trace length is bounded here. It runs in
about 35 s.

**Fairness and liveness.** The replay is single-threaded and each handler
runs to completion, so nothing waits on anything inside it. Under Naive a
freed block is swept only when reused, so "eventually swept" is not a
property of this program. The one fairness assumption is in
`MetadataTracker`. The trace on stdin is finite, so `run.replay()` returns
and the script calls `at.finish()` (trace-to-db.py l. 157-162). `FairSpec`
states this as weak fairness of `Finish`. It also assumes weak fairness
of `FinishIter`, one turn of the loop. The loop is sequential code that
keeps running while its guard holds. `FinishIter` also carries a bound
`Len(allocs) < MaxEvents`. At most `MaxEvents` objects exist, so a loop
that makes progress never reaches this bound. It only stops the state
space from growing when a mutant loop writes the same object forever.

**Abstractions.** Addresses are small integers; call stacks are reduced to
"has an allocator frame" / "has not" (the substring heuristic is not
modelled); a trace revocation carries one range (the code checks all ranges
before applying any, so several ranges add no new behaviour); logging and
the text of output lines is left out (the map output's pools, chunk bounds
and chunk symbols are kept); the calls passed to the outputs are kept
(`snapsLast`: `update()` calls with the aggregates and the coalesced map, and
`reused` calls with their range) because the rate limiters and the printed
values depend on them.

**Differences without a run.** Three observations are recorded as hazards in
PROJECT.json but not kept as runs. The accounting model's `mapd` counts every
mapping, whatever its call stack, whereas the interval model counts only
allocator-stack mappings (l. 307-308 vs l. 278-280), so `mapd_size` differs between
the two modes; which one is intended is not stated. The limiter's
`last == 0` test (l. 418) also treats a real call at timestamp 0 as "never
called", so a trace starting at 0 may print two lines less than a period
apart; whether traces start at 0 depends on `common/run.py`. Finally, spec 6 says a
pool's chunk string has exactly the configured resolution of symbols, but a
pool smaller than the resolution is rendered as a single chunk (l. 482).

## 3. Not modelled

- **Revoker capacity** (l. 352). `_sweep` raises when a sweep has more
  intervals than `capacity_ivals`, and `ValuError` is misspelt, so it would
  raise `NameError`. The program always builds revokers with the default
  2**64 (l. 549, 554), so the check never fires on any trace.
- **Chop fragments** (l. 213). `IntervalTree.chop` inserts its fragments
  itself. Whether they keep the `state` attribute depends on the
  intervaltree library, which is not in the repository. The model keeps the
  fragments with their state, as the spec describes.
- **AddrSpaceModel's own map** (l. 295-300). Its `mapd`/`unmapd` write a map
  and `mapd_size` that nothing in the program reads. Only its `size`, set by
  `size_measured`, is modelled.
- **A comparison of the two revokers on one trace.** Each revoker is checked
  on its own over the same traces (`strategy` is chosen at Init). A module
  that runs both side by side would double the tree and the map. It would
  also need a run of its own, and the project already has the twelve runs
  the checks use.
- **Zero-size objects in the exporter** (trace-to-db.py l. 77). A realloc of
  an unknown address to an empty range creates an object of size 0 at the
  new address. `realloc(NULL, 0)` may return a pointer, so this is not
  clearly wrong, and no comment or spec says otherwise. It is listed as a
  hazard.
- **Command line, logging, the SQLite connection and commit, the text of
  output lines and the commented-out statistics** (l. 1-48, 529-544,
  569-592; trace-to-db.py l. 106-121, 151-165). These are I/O and wiring.
  The choices they make (the revoker strategy, whether the map output
  exists) are constants or variables of the models.
