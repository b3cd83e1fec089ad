---------------------------- MODULE MCAccounting ----------------------------
(***************************************************************************)
(* The two alloc_state implementations the program chooses between at     *)
(* startup, driven by one trace: each step delivers the same event to the  *)
(* interval model (with its revoker) and to the accounting fast path.      *)
(* The fast path is meant for traces free of the overlap and misfree       *)
(* pathologies the interval model repairs; CleanSpec restricts the trace   *)
(* to such events.                                                         *)
(***************************************************************************)
EXTENDS AllocatorAddrSpaceModel

CONSTANTS MaxMapd

VARIABLES va2sz, accAllocd, accMapd

Acc == INSTANCE AccountingAddrSpaceModel WITH allocdSize <- accAllocd, mapdSize <- accMapd

allVars == <<vars, va2sz, accAllocd, accMapd>>

Live(a) == TState(tree, a) = "ALLOCD"

\* an ALLOCD interval of the tree starts exactly at p
StartsLive(p) == \E i \in tree : i.b = p /\ i.s = "ALLOCD"

RangeOf(b, e) == {a \in Addr : b <= a /\ a < e}

\* the event of this step is one a clean trace can carry, judged on the
\* state it is delivered in: allocations only over memory no live block
\* holds, frees and reallocs only of the start of a live block, a realloc
\* growing only over its own block, and map events only over memory no
\* live block holds
CleanEvent ==
    LET e == ev'
    IN  CASE e[1] = "allocd" -> \A a \in RangeOf(e[2], e[3]) : ~Live(a)
          [] e[1] = "freed" -> StartsLive(e[2])
          [] e[1] = "reallocd" ->
                /\ StartsLive(e[2])
                /\ \A a \in RangeOf(e[3], e[4]) : Live(a) => a \in Span(QueryChecked(tree, e[2]))
          [] e[1] \in {"mapd", "unmapd", "revoked"} -> \A a \in RangeOf(e[2], e[3]) : ~Live(a)
          [] OTHER -> TRUE

BothInit == Init /\ Acc!Init

BothNext == Next /\ Acc!Deliver(ev')

CleanSpec == BothInit /\ [][BothNext /\ CleanEvent]_allVars

BothView == <<StateView, va2sz, accAllocd, accMapd>>

\* Spec 4.4: on a clean trace the accounting fast path reports the same
\* allocated bytes as the interval model, although one keeps a dictionary
\* of start addresses and the other windowed sums over a coalesced map
\* (through realloc's overlap branch, trace revocations and the revoker's
\* nested revocations).
AccountingAgreesOnCleanTraces == accAllocd = allocdSize
=============================================================================
