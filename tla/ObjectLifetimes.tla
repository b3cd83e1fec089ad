-------------------------- MODULE ObjectLifetimes --------------------------
(***************************************************************************)
(* What trace-to-db.py promises in its header: for each allocated object,  *)
(* one row in the `allocs` table.  An object is born, stays live until its *)
(* lifetime ends, and its row is written in the step that ends it; objects *)
(* are numbered in order of birth.  One step of the exporter may end       *)
(* several objects (a synthesized free, the final flush) and begin at most *)
(* one.                                                                    *)
(***************************************************************************)
EXTENDS Naturals, Sequences, FiniteSets

VARIABLES
    born,       \* the number of objects born so far (1 .. born)
    live,       \* the objects whose lifetime has not ended
    written     \* the objects of the `allocs` rows, in the order written

vars == <<born, live, written>>

\* the rows a step appends name exactly the objects it ends, once each
AppendsRowsOf(D) ==
    /\ Len(written') = Len(written) + Cardinality(D)
    /\ SubSeq(written', 1, Len(written)) = written
    /\ {written'[i] : i \in Len(written) + 1 .. Len(written')} = D

\* the objects of D end and are written; k (0 or 1) new objects begin
Step(D, k) ==
    /\ D \subseteq live
    /\ born' = born + k
    /\ live' = (live \ D) \cup (born + 1 .. born + k)
    /\ AppendsRowsOf(D)

Init ==
    /\ born = 0
    /\ live = {}
    /\ written = <<>>

Next == \E D \in SUBSET live, k \in {0, 1} : Step(D, k)

Spec == Init /\ [][Next]_vars
=============================================================================
