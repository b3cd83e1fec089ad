---------------------- MODULE AllocatorAddrSpaceModel ----------------------
(***************************************************************************)
(* The allocator address-space model of measure-sweeping-revocation.py     *)
(* together with the sweeping revoker subscribed to its "reused" events.   *)
(*                                                                         *)
(* The model keeps two structures that every handler updates in lockstep:  *)
(*   tree : the IntervalTree `_addr_ivals` of lifecycle intervals          *)
(*          (ALLOCD, FREED, REVOKED), not coalesced, read by the revoker;  *)
(*   amap : the coalesced IntervalMap of BaseIntervalAddrSpaceModel,       *)
(*          written by `_update`, with the running aggregates allocd_size  *)
(*          and mapd_size kept by a windowed before/after delta.           *)
(* The revoker (Naive or Compacting) runs synchronously inside `allocd`,   *)
(* before the new allocation is committed, so every handler below is one   *)
(* atomic step of the single-threaded trace replay.                        *)
(*                                                                         *)
(* Addresses are 0 .. N-1; an interval [b, e) is a record [b, e, s].       *)
(* Call stacks are abstracted to whether they name an allocator frame.     *)
(***************************************************************************)
EXTENDS Integers, FiniteSets, Sequences

CONSTANTS
    N,               \* number of addresses modelled
    Strategies,      \* revoker classes the command line may select
    Sizes,           \* values the driver may report for addr_space.size
    MaxSwept,        \* bound on the cumulative swept counter
    ZeroSizeRealloc  \* whether the trace carries reallocs to an empty range

ASSUME N \in Nat \ {0}
ASSUME Strategies \subseteq {"Naive", "Compacting"} /\ Strategies # {}
ASSUME Sizes \subseteq Nat /\ 0 \in Sizes
ASSUME MaxSwept \in Nat
ASSUME ZeroSizeRealloc \in BOOLEAN

VARIABLES
    strategy,    \* the revoker class chosen at startup (args.revoker)
    tree,        \* AllocatorAddrSpaceModel._addr_ivals
    amap,        \* BaseIntervalAddrSpaceModel.__addr_ivals, one state per address
    allocdSize,  \* allocd_size
    mapdSize,    \* mapd_size
    size,        \* addr_space.size, sampled by the driver
    swept,       \* revoker.swept
    fault,       \* the exception that ended the replay, or "none"
    unswept,     \* history: addresses freed by the trace and not revoked since
    revokedLast, \* history: addresses revoked by the last step
    snapsLast,   \* history: the aggregates at each output.update() of the last step
    ev           \* history: the trace event delivered by the last step

vars == <<strategy, tree, amap, allocdSize, mapdSize, size, swept, fault, unswept, revokedLast, snapsLast, ev>>

LifeStates == {"ALLOCD", "FREED", "REVOKED"}
MapStates  == LifeStates \cup {"MAPD", "UNMAPD"}
NoData     == "none"       \* the value None of an IntervalMap interval
Addr       == 0 .. N - 1
Stacks     == {"malloc", "other"}   \* has / has not an allocator frame
Faults     == {"none", "revoke_allocd", "null_interval", "assert_coalesce"}

Ival(b, e, s) == [b |-> b, e |-> e, s |-> s]
Ivals == {i \in [b : Addr, e : 1 .. N, s : LifeStates] : i.b < i.e}
NoIval == Ival(0, 0, NoData)
Span(i) == {a \in Addr : i.b <= a /\ a < i.e}

(***************************************************************************)
(* IntervalTree queries and updates used by the model.                     *)
(***************************************************************************)
Overlapping(t, b, e) ==
    IF b >= e THEN {} ELSE {i \in t : i.b < e /\ i.e > b}

Containing(t, p) == {i \in t : i.b <= p /\ p < i.e}

\* tree.chop(b, e): cut [b, e) out, keeping the fragments outside it
Chop(t, b, e) ==
    LET hit == Overlapping(t, b, e)
    IN  (t \ hit)
          \cup {Ival(i.b, b, i.s) : i \in {h \in hit : h.b < b}}
          \cup {Ival(e, i.e, i.s) : i \in {h \in hit : h.e > e}}

\* intervaltree_query_checked: the interval covering p, or none
QueryChecked(t, p) ==
    IF Containing(t, p) = {} THEN NoIval ELSE CHOOSE i \in Containing(t, p) : TRUE

\* the lifecycle state the tree records at address a
TState(t, a) == QueryChecked(t, a).s

\* intervaltree_query_coalesced: widen the interval at p through touching
\* neighbours whose state is its own or in `with`
RECURSIVE WalkLeft(_, _, _), WalkRight(_, _, _)
WalkLeft(t, begin, ok) ==
    LET l == QueryChecked(t, begin - 1)
    IN  IF l # NoIval /\ l.s \in ok THEN WalkLeft(t, l.b, ok) ELSE begin
WalkRight(t, end, ok) ==
    LET r == QueryChecked(t, end)
    IN  IF r # NoIval /\ r.s \in ok THEN WalkRight(t, r.e, ok) ELSE end
QueryCoalesced(t, p, with) ==
    LET i  == QueryChecked(t, p)
        ok == {i.s} \cup with
    IN  Ival(WalkLeft(t, i.b, ok), WalkRight(t, i.e, ok), i.s)

(***************************************************************************)
(* A handler transforms a record S of the model's state; the history       *)
(* fields freedNow / revokedNow collect the addresses it frees and         *)
(* revokes so that `unswept` can be maintained; `snaps` collects what the  *)
(* global output.update() would print each time _update or _sweep calls it.*)
(***************************************************************************)
State0 == [tree |-> tree, amap |-> amap, allocd |-> allocdSize, mapd |-> mapdSize,
           swept |-> swept, fault |-> "none", freedNow |-> {}, revokedNow |-> {},
           snaps |-> <<>>]

\* an output.update() call and the state its outputs read: the aggregates
\* of GraphOutput's line and the map AllocationMapOutput renders
Snap(S) == [kind |-> "update", allocd |-> S.allocd, mapd |-> S.mapd, swept |-> S.swept,
            amap |-> S.amap]

\* output.update(), called at the end of _update and of _sweep
OutputUpdate(S) == [S EXCEPT !.snaps = Append(@, Snap(S))]

\* BaseIntervalAddrSpaceModel._update: write [b, e) into the map and adjust
\* the aggregates by the difference of the sums over the window [b-1, e+1)
Update(S, b, e, s) ==
    LET W == {a \in Addr : b - 1 <= a /\ a < e + 1}
        m == [a \in Addr |-> IF b <= a /\ a < e THEN s ELSE S.amap[a]]
        Amount(f, st) == Cardinality({a \in W : f[a] = st})
    IN  OutputUpdate([S EXCEPT !.amap   = m,
                               !.mapd   = @ + Amount(m, "MAPD") - Amount(S.amap, "MAPD"),
                               !.allocd = @ + Amount(m, "ALLOCD") - Amount(S.amap, "ALLOCD")])

\* the assertion of AllocatorAddrSpaceModel.revoked
RevokesAllocd(S, b, e) == \E i \in Overlapping(S.tree, b, e) : i.s = "ALLOCD"

\* AllocatorAddrSpaceModel.revoked(b, e)
Revoked(S, b, e) ==
    IF RevokesAllocd(S, b, e) THEN [S EXCEPT !.fault = "revoke_allocd"]
    ELSE LET S1 == Update(S, b, e, "REVOKED")
         IN  [S1 EXCEPT !.tree = Chop(@, b, e) \cup {Ival(b, e, "REVOKED")},
                        !.revokedNow = @ \cup Span(Ival(b, e, "REVOKED"))]

\* the revoker's loop calling alloc_state.revoked on each interval in turn
RECURSIVE RevokeEach(_, _)
RevokeEach(S, rs) ==
    IF rs = {} \/ S.fault # "none" THEN S
    ELSE LET r == CHOOSE r \in rs : \A q \in rs : r.b <= q.b
         IN  RevokeEach(Revoked(S, r.b, r.e), rs \ {r})

\* BaseSweepingRevoker._sweep: charge the address-space size once
Sweep(S) == OutputUpdate([S EXCEPT !.swept = @ + size])

\* (variant) revoking the whole reused range instead of each FREED interval
NaiveReusedRevokesRange(S, b, e) ==
    LET ivs == {i \in Overlapping(S.tree, b, e) : i.s = "FREED"}
    IN  IF ivs = {} THEN S ELSE Revoked(Sweep(S), b, e)

NaiveReused(S, b, e) ==
    LET ivs == {i \in Overlapping(S.tree, b, e) : i.s = "FREED"}
    IN  IF ivs = {} THEN S ELSE RevokeEach(Sweep(S), ivs)

\* intervals.pop() on the list sorted in reverse: the lowest interval left
Lowest(is) == CHOOSE i \in is : \A j \in is : i.b <= j.b

\* (variant) the inner loop without its `ival.end >= begin` test: every
\* remaining interval is popped after the first run
SkipReachedAll(iv, is) == [rest |-> {}, failed |-> FALSE]

\* the inner while loop: pop the intervals that start before the run's end;
\* one starting exactly at its end fails the assertion of l. 400
RECURSIVE SkipReached(_, _)
SkipReached(iv, is) ==
    IF is = {} \/ iv.e < Lowest(is).b THEN [rest |-> is, failed |-> FALSE]
    ELSE IF iv.e = Lowest(is).b THEN [rest |-> is, failed |-> TRUE]
    ELSE SkipReached(iv, is \ {Lowest(is)})

\* the outer while loop: coalesce the lowest FREED interval left through
\* touching FREED and REVOKED neighbours, keep the run, skip what it reached
RECURSIVE CoalesceFreed(_, _, _)
CoalesceFreed(t, is, runs) ==
    IF is = {} THEN [runs |-> runs, failed |-> FALSE]
    ELSE LET iv == QueryCoalesced(t, Lowest(is).b, {"REVOKED"})
             sk == SkipReached(iv, is \ {Lowest(is)})
         IN  IF sk.failed THEN [runs |-> runs, failed |-> TRUE]
             ELSE CoalesceFreed(t, sk.rest, runs \cup {iv})

CompactingReused(S, b, e) ==
    LET r == CoalesceFreed(S.tree, {i \in S.tree : i.s = "FREED"}, {})
    IN  IF r.failed THEN [S EXCEPT !.fault = "assert_coalesce"]
        ELSE IF r.runs = {} THEN S ELSE RevokeEach(Sweep(S), r.runs)

\* the subscriber's `reused` callback, published before the commit
Reused(S, b, e) ==
    IF strategy = "Naive" THEN NaiveReused(S, b, e) ELSE CompactingReused(S, b, e)

\* Publisher._publish('reused', b, e): the subscribers in the order they
\* registered, the revoker, then the allocation-map output's `reused`
Publish(S, b, e) ==
    LET S1 == Reused(S, b, e)
    IN  IF S1.fault # "none" THEN S1
        ELSE [S1 EXCEPT !.snaps = Append(@, [kind |-> "reused", b |-> b, e |-> e])]

\* (variant) the new interval added without chopping the overlapped ones
AllocdNoChop(S, b, e) ==
    LET ov == Overlapping(S.tree, b, e)
        S1 == IF \E i \in ov : i.s = "FREED" THEN Publish(S, b, e) ELSE S
        S2 == Update(S1, b, e, "ALLOCD")
    IN  IF b >= e THEN [S EXCEPT !.fault = "null_interval"]
        ELSE IF S1.fault # "none" THEN S1
        ELSE [S2 EXCEPT !.tree = @ \cup {Ival(b, e, "ALLOCD")}]

\* (variant) "reused" published after the new allocation is committed
AllocdPublishAfterCommit(S, b, e) ==
    LET ov == Overlapping(S.tree, b, e)
        S2 == Update([S EXCEPT !.tree = IF ov # {} THEN Chop(@, b, e) ELSE @],
                     b, e, "ALLOCD")
        S3 == [S2 EXCEPT !.tree = @ \cup {Ival(b, e, "ALLOCD")}]
    IN  IF b >= e THEN [S EXCEPT !.fault = "null_interval"]
        ELSE IF \E i \in ov : i.s = "FREED" THEN Publish(S3, b, e) ELSE S3

\* AllocatorAddrSpaceModel.allocd(b, e); an empty range cannot enter the tree
Allocd(S, b, e) ==
    LET ov == Overlapping(S.tree, b, e)
        S1 == IF \E i \in ov : i.s = "FREED" THEN Publish(S, b, e) ELSE S
        S2 == Update([S1 EXCEPT !.tree = IF ov # {} THEN Chop(@, b, e) ELSE @],
                     b, e, "ALLOCD")
    IN  IF b >= e THEN [S EXCEPT !.fault = "null_interval"]
        ELSE IF S1.fault # "none" THEN S1
        ELSE [S2 EXCEPT !.tree = @ \cup {Ival(b, e, "ALLOCD")}]

\* (variant) an unknown address freed as a two-byte interval
FreedSynthTooLong(S, p) ==
    LET i  == QueryChecked(S.tree, p)
        f  == IF i = NoIval THEN Ival(p, p + 2, "FREED") ELSE Ival(i.b, i.e, "FREED")
        S1 == Update([S EXCEPT !.tree = @ \ {i}], f.b, f.e, "FREED")
    IN  [S1 EXCEPT !.tree = @ \cup {f}, !.freedNow = @ \cup Span(f)]

\* (variant) the freed interval re-added as its first byte only
FreedFirstByte(S, p) ==
    LET i  == QueryChecked(S.tree, p)
        f  == IF i = NoIval THEN Ival(p, p + 1, "FREED") ELSE Ival(i.b, i.b + 1, "FREED")
        S1 == Update([S EXCEPT !.tree = @ \ {i}], f.b, f.e, "FREED")
    IN  [S1 EXCEPT !.tree = @ \cup {f}, !.freedNow = @ \cup Span(f)]

\* AllocatorAddrSpaceModel.freed(p)
Freed(S, p) ==
    LET i  == QueryChecked(S.tree, p)
        f  == IF i = NoIval THEN Ival(p, p + 1, "FREED") ELSE Ival(i.b, i.e, "FREED")
        S1 == Update([S EXCEPT !.tree = @ \ {i}], f.b, f.e, "FREED")
    IN  [S1 EXCEPT !.tree = @ \cup {f}, !.freedNow = @ \cup Span(f)]

\* AllocatorAddrSpaceModel.reallocd(ob, nb, ne); Interval.lt / Interval.gt
\* of the new interval against the old one mean "entirely before / after"
Reallocd(S, ob, nb, ne) ==
    LET old  == QueryChecked(S.tree, ob)
        new  == Ival(nb, ne, "ALLOCD")
        rest == (IF new.e <= old.b THEN {Ival(new.e, old.e, "FREED")} ELSE {})
                  \cup (IF new.b >= old.e THEN {Ival(old.b, new.b, "FREED")} ELSE {})
        S1   == Update(S, old.b, old.e, "FREED")
        S2   == [S1 EXCEPT !.tree = (@ \ {old}) \cup rest,
                           !.freedNow = @ \cup (Span(old) \ Span(new))]
    IN  IF old = NoIval THEN Allocd(S, nb, ne)
        ELSE IF nb >= ne THEN [S EXCEPT !.fault = "null_interval"]
        ELSE IF old.b < ne /\ old.e > nb THEN Allocd(S2, nb, ne)
        ELSE Allocd(Freed(S, ob), nb, ne)

\* AllocatorAddrSpaceModel.mapd / unmapd
Mapd(S, cs, b, e) == IF cs = "malloc" THEN Update(S, b, e, "MAPD") ELSE S
Unmapd(S, b, e) == Update(S, b, e, "UNMAPD")

(***************************************************************************)
(* Steps: one trace event delivered to the model and its subscribers.      *)
(***************************************************************************)
Commit(S, e) ==
    /\ S.swept <= MaxSwept
    /\ tree' = S.tree
    /\ amap' = S.amap
    /\ allocdSize' = S.allocd
    /\ mapdSize' = S.mapd
    /\ swept' = S.swept
    /\ fault' = S.fault
    /\ unswept' = (unswept \cup S.freedNow) \ S.revokedNow
    /\ revokedLast' = S.revokedNow
    /\ snapsLast' = S.snaps
    /\ ev' = e
    /\ UNCHANGED <<strategy, size>>

Ranges == {r \in (Addr \X (1 .. N)) : r[1] < r[2]}

Running == fault = "none"

AllocdStep ==
    \E r \in Ranges : Commit(Allocd(State0, r[1], r[2]), <<"allocd", r[1], r[2]>>)

FreedStep ==
    \E p \in Addr : Commit(Freed(State0, p), <<"freed", p>>)

ReallocdStep ==
    \E ob \in Addr, nb \in Addr, ne \in 1 .. N :
        /\ nb < ne \/ (ZeroSizeRealloc /\ nb = ne)
        /\ Commit(Reallocd(State0, ob, nb, ne), <<"reallocd", ob, nb, ne>>)

\* a revocation recorded in the trace: the model, then the revoker
RevokedStep ==
    \E r \in Ranges :
        LET S == Revoked(State0, r[1], r[2])
        IN  Commit(IF S.fault = "none" THEN Sweep(S) ELSE S, <<"revoked", r[1], r[2]>>)

MapdStep ==
    \E cs \in Stacks, r \in Ranges : Commit(Mapd(State0, cs, r[1], r[2]), <<"mapd", r[1], r[2], cs>>)

UnmapdStep ==
    \E r \in Ranges : Commit(Unmapd(State0, r[1], r[2]), <<"unmapd", r[1], r[2]>>)

\* BaseAddrSpaceModel.size_measured on addr_space
SizeMeasured ==
    \E s \in Sizes :
        /\ size' = s
        /\ ev' = <<"size_measured", s>>
        /\ revokedLast' = {}
        /\ snapsLast' = <<>>
        /\ UNCHANGED <<strategy, tree, amap, allocdSize, mapdSize, swept, fault, unswept>>

Init ==
    /\ strategy \in Strategies
    /\ tree = {}
    /\ amap = [a \in Addr |-> NoData]
    /\ allocdSize = 0
    /\ mapdSize = 0
    /\ size = 0
    /\ swept = 0
    /\ fault = "none"
    /\ unswept = {}
    /\ revokedLast = {}
    /\ snapsLast = <<>>
    /\ ev = <<"init">>

Next ==
    /\ Running
    /\ \/ AllocdStep
       \/ FreedStep
       \/ ReallocdStep
       \/ RevokedStep
       \/ MapdStep
       \/ UnmapdStep
       \/ SizeMeasured

Spec == Init /\ [][Next]_vars

\* The state without its history variables ev, revokedLast and snapsLast,
\* which no action reads; properties only read them primed.
StateView == <<strategy, tree, amap, allocdSize, mapdSize, size, swept, fault, unswept>>

(***************************************************************************)
(* Properties                                                              *)
(***************************************************************************)

\* Every variable holds a value of its type.
TypeOK ==
    /\ strategy \in Strategies
    /\ tree \subseteq Ivals
    /\ amap \in [Addr -> MapStates \cup {NoData}]
    /\ allocdSize \in 0 .. N /\ mapdSize \in 0 .. N
    /\ size \in Sizes /\ swept \in 0 .. MaxSwept
    /\ fault \in Faults
    /\ unswept \subseteq Addr /\ revokedLast \subseteq Addr

\* No two intervals of `_addr_ivals` overlap, whatever the order of
\* allocd / freed / reallocd / revoked calls and the revoker's nested
\* revocations (the "Bug: overlapping address intervals" assertion of
\* intervaltree_query_checked never fires).
TreeDisjoint ==
    \A i, j \in tree : i # j => Overlapping({j}, i.b, i.e) = {}

\* The revoker's purpose: an address the trace freed is never allocated
\* again until a sweep has revoked it (allocd publishes "reused" before it
\* commits, and the revoker revokes every FREED interval it must).
ReuseSafe ==
    \A a \in unswept : TState(tree, a) # "ALLOCD"

\* The revoker never hands alloc_state.revoked a range that still holds a
\* live allocation, so the "Bug: revoking ... still allocated" assertion
\* only ever fires on a revocation that came from the trace itself.
RevokerNeverRevokesAllocd ==
    [][ fault' = "revoke_allocd" => ev'[1] = "revoked" ]_vars

\* Compacting: after a reuse, no FREED interval is left anywhere in the
\* tree: the batch swept covers the whole Freed set, not just the range.
\* This rests on the pop/skip loop of CompactingSweepingRevoker.reused: an
\* interval is skipped only when the run just coalesced reaches past its
\* begin, so the run must really contain it, and the walk through REVOKED
\* neighbours must not stop early.
CompactingSweepsAll ==
    [][ (strategy = "Compacting" /\ ev'[1] \in {"allocd", "reallocd"}
         /\ fault' = "none" /\ revokedLast' # {})
        => \A i \in tree' : i.s # "FREED" ]_vars

\* The replay survives every event a driver may deliver: no handler raises.
ReplayNeverFails == fault \notin {"null_interval"}

\* Spec 4.5: the sweep a reusing allocation triggers adds the total size of
\* the intervals it revokes to the swept counter ("allocate(0,100); free(0); allocate(50,150) increases
\* swept bytes by exactly 50").
SweptCountsRevokedBytes ==
    [][ ev'[1] = "allocd" => swept' - swept = Cardinality(revokedLast') ]_vars

\* Spec 4.3: allocation-lifecycle events never change the allocator's
\* mapped-bytes aggregate; only mapd / unmapd do.
MappedSizeOnlyFromMapEvents ==
    [][ ev'[1] \in {"allocd", "freed", "reallocd", "revoked"} => mapdSize' = mapdSize ]_vars
=============================================================================
