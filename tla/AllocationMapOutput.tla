------------------------ MODULE AllocationMapOutput ------------------------
(***************************************************************************)
(* AllocationMapOutput of measure-sweeping-revocation.py: a subscriber to  *)
(* the allocator's "reused" events that buffers the reused ranges, and a   *)
(* rate-limited update() that renders the coalesced map as pools of        *)
(* chunks, one symbol per chunk, then clears the buffer.  Its limiter is   *)
(* its own closure of BaseOutput.rate_limited_runms(100), driven by the    *)
(* same clock `now` as the graph output.                                   *)
(*                                                                         *)
(* A map m gives each address its IntervalMap state, "none" where the map  *)
(* holds no interval.  POOL_MAX_ARTIFICIAL_GROWTH (0x1000) and             *)
(* POOL_MAP_RESOLUTION_IN_SYMBOLS (60) are scaled to the constants         *)
(* PoolGrowth and Resolution so that small maps reach every case.          *)
(***************************************************************************)
EXTENDS Integers, Sequences, FiniteSets
LOCAL INSTANCE SequencesExt

CONSTANTS
    N,           \* number of addresses modelled
    Period,      \* call_period_ms
    PoolGrowth,  \* POOL_MAX_ARTIFICIAL_GROWTH
    Resolution   \* POOL_MAP_RESOLUTION_IN_SYMBOLS

ASSUME PoolGrowth \in Nat \ {0} /\ Resolution \in Nat \ {0}

VARIABLES
    now,         \* run.timestamp_ms
    callLast,    \* call_last_ms of this output's limiter closure
    reusedBuf,   \* _addr_ivals_reused, as a set of [b, e] ranges
    maps         \* history: the maps rendered by the last step

Addr == 0 .. N - 1

\* IntervalMap.addr_ivals_coalesced_sorted(): the maximal runs of one state
CoalescedSorted(m) ==
    LET Runs == {[b |-> b, e |-> e, s |-> m[b]] :
                   b \in {a \in Addr : m[a] # "none" /\ (a = 0 \/ m[a - 1] # m[a])},
                   e \in 1 .. N}
        Maximal == {i \in Runs : i.b < i.e /\ (\A a \in i.b .. i.e - 1 : m[a] = i.s)
                                 /\ (i.e = N \/ m[i.e] # i.s)}
    IN  SetToSortSeq(Maximal, LAMBDA i, j : i.b < j.b)

\* (variant) a gap equal to the threshold still merges two pools
AddToPoolLe(ps, i) ==
    IF ps # <<>> /\ i.b - Last(ps).e <= PoolGrowth
    THEN [ps EXCEPT ![Len(ps)].e = i.e]
    ELSE Append(ps, [b |-> i.b, e |-> i.e])

\* one turn of the grouping loop: extend the current pool over a gap below
\* the threshold, or start a new one
AddToPool(ps, i) ==
    IF ps # <<>> /\ i.b - Last(ps).e < PoolGrowth
    THEN [ps EXCEPT ![Len(ps)].e = i.e]
    ELSE Append(ps, [b |-> i.b, e |-> i.e])

\* _get_memory_pools: the mapped (not UNMAPD) intervals grouped in order
GetMemoryPools(m) ==
    FoldLeft(AddToPool, <<>>, SelectSeq(CoalescedSorted(m), LAMBDA i : i.s # "UNMAPD"))

\* Python's range(start, stop, step) for step > 0 and start <= stop
PyRange(start, stop, step) ==
    [k \in 1 .. (stop - start + step - 1) \div step |-> start + (k - 1) * step]

\* chunk_size and rem: a pool below Resolution bytes is one chunk
ChunkSize(psize) == IF psize \div Resolution > 0 THEN psize \div Resolution ELSE psize
ChunkRem(psize) == IF psize \div Resolution > 0 THEN psize % Resolution ELSE 0

\* (variant) the wider chunks stepped by chunk_size
ChunkOffsetsNarrowStep(psize) ==
    LET cs == ChunkSize(psize)
        rem == ChunkRem(psize)
    IN  PyRange(0, rem * (cs + 1), cs) \o PyRange(rem * (cs + 1), psize, cs)

\* chunk_offsets: rem chunks one byte wider, then the rest
ChunkOffsets(psize) ==
    LET cs == ChunkSize(psize)
        rem == ChunkRem(psize)
    IN  PyRange(0, rem * (cs + 1), cs + 1) \o PyRange(rem * (cs + 1), psize, cs)

\* _chunk_state(cbegin, cend), in its priority order; "allocated" needs
\* allocated coverage >= 0.80 of the chunk, compared here in integers
ChunkState(m, buf, cb, ce) ==
    LET cover == {a \in Addr : cb <= a /\ a < ce /\ m[a] # "none"}
    IN  CASE \E r \in buf : r.b < ce /\ r.e > cb -> "~"
          [] \A a \in cover : m[a] \in {"MAPD", "UNMAPD", "FREED", "REVOKED"} -> "0"
          [] (\A a \in cover : m[a] = "ALLOCD") /\ 5 * Cardinality(cover) >= 4 * (ce - cb) -> "#"
          [] OTHER -> "="

\* the body of update(): one line per pool, its chunks zipped with their
\* successors and the pool's end
Render(m, buf) ==
    [k \in 1 .. Len(GetMemoryPools(m)) |->
        LET p  == GetMemoryPools(m)[k]
            cb == [j \in DOMAIN ChunkOffsets(p.e - p.b) |-> p.b + ChunkOffsets(p.e - p.b)[j]]
            ce == [j \in DOMAIN cb |-> IF j < Len(cb) THEN cb[j + 1] ELSE p.e]
        IN  [b |-> p.b, e |-> p.e, chunk |-> ChunkSize(p.e - p.b),
             bounds |-> [j \in DOMAIN cb |-> <<cb[j], ce[j]>>],
             states |-> [j \in DOMAIN cb |-> ChunkState(m, buf, cb[j], ce[j])]]]

\* one call reaching this output: reused() adds to the buffer; update(),
\* when the limiter lets it through, renders and clears the buffer
RenderCall(r, c) ==
    CASE c.kind = "reused" -> [r EXCEPT !.buf = @ \cup {[b |-> c.b, e |-> c.e]}]
      [] r.last = 0 \/ now - r.last > Period ->
             [last |-> now, buf |-> {},
              out |-> Append(r.out, [map |-> c.amap, pools |-> Render(c.amap, r.buf)])]
      [] OTHER -> r

\* the calls made while one event is handled, in order
Update(calls) ==
    LET r == FoldLeft(RenderCall, [last |-> callLast, buf |-> reusedBuf, out |-> <<>>], calls)
    IN  /\ callLast' = r.last
        /\ reusedBuf' = r.buf
        /\ maps' = r.out

\* the clock moves between two events; nothing is rendered
Tick ==
    /\ maps' = <<>>
    /\ UNCHANGED <<callLast, reusedBuf>>

Init ==
    /\ callLast = 0
    /\ reusedBuf = {}
    /\ maps = <<>>
=============================================================================
