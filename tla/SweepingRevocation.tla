------------------------- MODULE SweepingRevocation -------------------------
(***************************************************************************)
(* What sweeping revocation promises, independent of any strategy: memory  *)
(* the trace frees is quarantined, and it may be allocated again only once *)
(* a sweep has revoked it; a sweep never revokes live memory.  One trace   *)
(* event frees a set F, sweeps a set Sw and allocates a set R, in that     *)
(* order; any of them may be empty (a free, a trace revocation, an         *)
(* allocation with the sweep it triggers, or a realloc).  A sweep happens  *)
(* only when the allocation reuses quarantined memory, or on its own as a  *)
(* revocation.  What an event frees it does not allocate: a realloc frees *)
(* only the part of the old block the new one does not cover.             *)
(***************************************************************************)
EXTENDS FiniteSets

CONSTANT Addr

VARIABLES
    live,       \* addresses of live allocations
    quarantine  \* addresses freed and not revoked since

vars == <<live, quarantine>>

Event(F, Sw, R) ==
    LET q == (quarantine \cup F) \ Sw
    IN  /\ F \cap R = {}
        /\ Sw # {} => R \cap (quarantine \cup F) # {} \/ (F = {} /\ R = {})
        /\ Sw \cap (live \ F) = {}
        /\ R \cap q = {}
        /\ live' = (live \ F) \cup R
        /\ quarantine' = q

Init == live = {} /\ quarantine = {}

\* (revoking memory outside the quarantine changes nothing here, so a sweep
\* is taken to be a set of quarantined addresses)
Next ==
    \E F \in SUBSET Addr :
        \E Sw \in SUBSET (quarantine \cup F), R \in SUBSET Addr : Event(F, Sw, R)

Spec == Init /\ [][Next]_vars

\* Every variable holds a value of its type.
TypeOK == live \subseteq Addr /\ quarantine \subseteq Addr

\* Nothing is live and quarantined at once.
LiveNotQuarantined == live \cap quarantine = {}
=============================================================================
