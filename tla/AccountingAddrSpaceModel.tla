---------------------- MODULE AccountingAddrSpaceModel ----------------------
(***************************************************************************)
(* AccountingAddrSpaceModel of measure-sweeping-revocation.py: the fast    *)
(* path selected by the "account" revoker choice.  It keeps two running    *)
(* totals and a dictionary from allocation start to size, with no          *)
(* interval structure and no revocation.  Call stacks are ignored by every *)
(* handler of this class, so events carry none here.                       *)
(***************************************************************************)
EXTENDS Integers, Functions, TLC

CONSTANTS
    N,          \* number of addresses modelled
    MaxMapd     \* bound on |mapd_size|: repeated mapd events grow it forever

VARIABLES
    va2sz,      \* _va2sz, a function whose domain is the dict's keys
    allocdSize, \* allocd_size
    mapdSize    \* mapd_size

vars == <<va2sz, allocdSize, mapdSize>>

Addr == 0 .. N - 1

\* allocd(begin, end): overwrite the entry, add the size
Allocd(A, b, e) ==
    [A EXCEPT !.va2sz = (b :> e - b) @@ @, !.allocd = @ + (e - b)]

\* freed(begin): subtract and delete the entry, if there is one
Freed(A, b) ==
    IF b \in DOMAIN A.va2sz
    THEN [A EXCEPT !.allocd = @ - A.va2sz[b], !.va2sz = Restrict(@, DOMAIN @ \ {b})]
    ELSE A

\* (variant) the new block recorded before the old one is freed
ReallocdAllocFirst(A, ob, nb, ne) == Freed(Allocd(A, nb, ne), ob)

\* reallocd(obegin, nbegin, nend)
Reallocd(A, ob, nb, ne) == Allocd(Freed(A, ob), nb, ne)

\* mapd / unmapd: every mapping counts, whatever its call stack
Mapd(A, b, e) == [A EXCEPT !.mapd = @ + (e - b)]
Unmapd(A, b, e) == [A EXCEPT !.mapd = @ - (e - b)]

\* the trace listener's dispatch of one event; revoked and size_measured
\* reach no method of this class
Handle(A, ev) ==
    CASE ev[1] = "allocd"   -> Allocd(A, ev[2], ev[3])
      [] ev[1] = "freed"    -> Freed(A, ev[2])
      [] ev[1] = "reallocd" -> Reallocd(A, ev[2], ev[3], ev[4])
      [] ev[1] = "mapd"     -> Mapd(A, ev[2], ev[3])
      [] ev[1] = "unmapd"   -> Unmapd(A, ev[2], ev[3])
      [] OTHER              -> A

Deliver(ev) ==
    LET A == Handle([va2sz |-> va2sz, allocd |-> allocdSize, mapd |-> mapdSize], ev)
    IN  /\ A.mapd \in -MaxMapd .. MaxMapd
        /\ va2sz' = A.va2sz
        /\ allocdSize' = A.allocd
        /\ mapdSize' = A.mapd

Ranges == {r \in Addr \X (1 .. N) : r[1] < r[2]}

Events ==
    {<<"allocd", r[1], r[2]>> : r \in Ranges}
      \cup {<<"freed", p>> : p \in Addr}
      \cup {<<"reallocd", ob, r[1], r[2]>> : ob \in Addr, r \in Ranges}
      \cup {<<k, r[1], r[2]>> : k \in {"mapd", "unmapd"}, r \in Ranges}

Init ==
    /\ va2sz = <<>>
    /\ allocdSize = 0
    /\ mapdSize = 0

Next == \E ev \in Events : Deliver(ev)

Spec == Init /\ [][Next]_vars

\* Every variable holds a value of its type.
TypeOK ==
    /\ DOMAIN va2sz \subseteq Addr
    /\ \A a \in DOMAIN va2sz : va2sz[a] \in 0 .. N
    /\ allocdSize \in Int
    /\ mapdSize \in -MaxMapd .. MaxMapd
=============================================================================
