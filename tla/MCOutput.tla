------------------------------ MODULE MCOutput ------------------------------
(***************************************************************************)
(* The allocator model and its revoker composed with the outputs they     *)
(* call: _update and _sweep call the global output.update() as they go,  *)
(* a CompositeOutput of the graph output and the allocation-map output,  *)
(* and allocd publishes "reused" to the map output after the revoker.    *)
(* Each trace event hands both outputs the calls made while it was       *)
(* handled.  After the replay the script calls output.update() once more *)
(* "to ensure at least one line of output".                              *)
(***************************************************************************)
EXTENDS AllocatorAddrSpaceModel

CONSTANTS
    Period, Times, PoolGrowth, Resolution,
    MaxEvents   \* bound on the trace length

VARIABLES
    now, callLast, lines, lastAt, mapCallLast, reusedBuf, maps,
    events,     \* trace events delivered so far
    done        \* the replay has returned

Out == INSTANCE GraphOutput

Map == INSTANCE AllocationMapOutput WITH callLast <- mapCallLast

allVars == <<vars, now, callLast, lines, lastAt, mapCallLast, reusedBuf, maps, events, done>>

\* a trace event, delivered at the current timestamp
EventStep ==
    /\ ~done /\ events < MaxEvents
    /\ Next
    /\ Out!Update(snapsLast') /\ Map!Update(snapsLast')
    /\ events' = events + 1
    /\ UNCHANGED done

\* the driver's clock advances between two events
TickStep ==
    /\ ~done /\ Running
    /\ Out!Tick /\ Map!Tick
    /\ UNCHANGED <<vars, events, done>>

\* the replay ends: the final output.update() of the script
Finish ==
    /\ ~done /\ Running
    /\ done' = TRUE
    /\ Out!Update(<<Snap(State0)>>) /\ Map!Update(<<Snap(State0)>>)
    /\ UNCHANGED <<vars, events>>

OutInit == Init /\ Out!Init /\ Map!Init /\ events = 0 /\ done = FALSE

OutNext == EventStep \/ TickStep \/ Finish

OutSpec == OutInit /\ [][OutNext]_allVars

OutView == <<StateView, now, callLast, lastAt, mapCallLast, reusedBuf, maps, events, done>>

\* The comment at the script's final output.update(): once the replay has
\* finished, at least one snapshot line has been printed, whatever the
\* timestamps and whichever handlers called the limiter before.
AtLeastOneLine == done => lastAt # -1

\* Spec 5: a listener handles an event completely before the next one is
\* delivered, so a printed snapshot reports the aggregates between two
\* events: those the event it is printed in leaves behind.
SnapshotsAtEventBoundaries ==
    [][ \A k \in DOMAIN lines' :
          lines'[k][2] = [allocd |-> allocdSize', mapd |-> mapdSize', swept |-> swept'] ]_allVars

\* the addresses a pool may cover: mapped in some state other than UNMAPD
Occupied(m) == {a \in Addr : m[a] \notin {NoData, "UNMAPD"}}

\* reference pools: the maximal stretches from a mapped address to a
\* mapped address in which no PoolGrowth consecutive addresses are free
RefPools(m) ==
    {p \in [b : Occupied(m), e : {a + 1 : a \in Occupied(m)}] :
        /\ p.b < p.e
        /\ \A x \in p.b .. p.e - PoolGrowth : \E y \in x .. x + PoolGrowth - 1 : y \in Occupied(m)
        /\ \A a \in Occupied(m) : a < p.b => p.b - (a + 1) >= PoolGrowth
        /\ \A a \in Occupied(m) : a >= p.e => a - p.e >= PoolGrowth}

\* Spec 4.6: the map renderer groups the occupied intervals into pools by
\* merging neighbours whose gap is below the growth threshold.  The pools
\* _get_memory_pools builds in its nested loop, over the coalesced map the
\* update() call saw, are exactly the reference pools.
PoolsMatchReference ==
    \A k \in DOMAIN maps :
        {[b |-> l.b, e |-> l.e] : l \in {maps[k].pools[i] : i \in DOMAIN maps[k].pools}}
            = RefPools(maps[k].map)

\* Spec 4.6 renders each pool as chunks of equal width, one symbol each.
\* The chunk_offsets arithmetic of update() and the zip with the pool's end
\* give consecutive chunks from the pool's begin to its end, each
\* chunk_size bytes or one byte more, and no more of them than
\* POOL_MAP_RESOLUTION_IN_SYMBOLS (fewer for a pool smaller than that).
ChunksTilePool ==
    \A k \in DOMAIN maps : \A i \in DOMAIN maps[k].pools :
        LET l == maps[k].pools[i]
            n == Len(l.bounds)
        IN  /\ n \in 1 .. Resolution /\ Len(l.states) = n
            /\ l.bounds[1][1] = l.b /\ l.bounds[n][2] = l.e
            /\ \A j \in 1 .. n - 1 : l.bounds[j][2] = l.bounds[j + 1][1]
            /\ \A j \in 1 .. n : l.bounds[j][2] - l.bounds[j][1] \in {l.chunk, l.chunk + 1}
=============================================================================
