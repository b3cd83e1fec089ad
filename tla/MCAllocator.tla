---------------------------- MODULE MCAllocator ----------------------------
(***************************************************************************)
(* Model-checking harness for AllocatorAddrSpaceModel.                     *)
(***************************************************************************)
EXTENDS AllocatorAddrSpaceModel

(***************************************************************************)
(* Traces whose reallocs never leave part of an old block behind: the old  *)
(* block is absent, lies apart from the new one, or is a live allocation   *)
(* that the new one covers.  ReuseSafe is checked on these traces,      *)
(* where reallocd does not lose freed memory.                              *)
(***************************************************************************)
ReallocLeavesNoRemainder ==
    ev'[1] = "reallocd" =>
        LET old == QueryChecked(tree, ev'[2])
            nb  == ev'[3]
            ne  == ev'[4]
        IN  \/ old = NoIval
            \/ ~(old.b < ne /\ old.e > nb)
            \/ old.s = "ALLOCD" /\ nb <= old.b /\ old.e <= ne

(***************************************************************************)
(* Traces that only ever realloc a live allocation or an unknown address.  *)
(***************************************************************************)
ReallocOfLiveBlock ==
    ev'[1] = "reallocd" =>
        LET old == QueryChecked(tree, ev'[2])
        IN  old = NoIval \/ old.s = "ALLOCD"

LiveReallocSpec == Init /\ [][Next /\ ReallocOfLiveBlock]_vars

NoRemainderSpec == Init /\ [][Next /\ ReallocLeavesNoRemainder]_vars

(***************************************************************************)
(* Refinement mapping: the tree's ALLOCD addresses are the live memory and *)
(* its FREED addresses the quarantine; REVOKED and untracked addresses are *)
(* neither.                                                                *)
(***************************************************************************)
Lifecycle == INSTANCE SweepingRevocation WITH
    live <- {a \in Addr : TState(tree, a) = "ALLOCD"},
    quarantine <- {a \in Addr : TState(tree, a) = "FREED"}

\* The allocator model with its revoker implements sweeping revocation:
\* every handler (allocd with the nested sweep, freed, reallocd, revoked,
\* mapd, unmapd) is a free, a sweep of non-live memory, an allocation of
\* non-quarantined memory, or a combination in that order; memory never
\* leaves the live or quarantined sets any other way.
ImplementsSweepingRevocation == Lifecycle!Spec
=============================================================================
