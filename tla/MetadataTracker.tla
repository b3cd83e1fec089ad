-------------------------- MODULE MetadataTracker --------------------------
(***************************************************************************)
(* MetadataTracker of trace-to-db.py: gives every allocated object an oid, *)
(* follows it through reallocs by address (tva) and, when it is freed or   *)
(* when the trace ends, writes one row to `allocs` and the last realloc to *)
(* `reallocs` (the callbacks ia / ir, modelled as sequences of rows).      *)
(* Timestamps are the number of events delivered so far; at finish they    *)
(* are None.  Call stacks are left out: no property reads them.            *)
(***************************************************************************)
EXTENDS Naturals, Sequences, FiniteSets

CONSTANTS
    TVA,        \* addresses objects may start at
    Sizes,      \* object sizes (end - begin) the trace may carry
    MaxEvents,  \* bound on the trace length (and on oids)
    None        \* Python's None: a model value

ASSUME TVA \subseteq Nat /\ Sizes \subseteq Nat \ {0} /\ MaxEvents \in Nat

Oids == 1 .. MaxEvents + 1

VARIABLES
    nextoid,    \* _nextoid
    tva2oid,    \* _tva2oid, None where the dict has no key
    oid2amd,    \* _oid2amd: [ts, sz] of the allocation
    oid2irt,    \* _oid2irt: initial realloc timestamp
    oid2rmd,    \* _oid2rmd: [ts, osz, nsz] of the latest realloc
    allocs,     \* rows passed to ia
    reallocs,   \* rows passed to ir
    now,        \* run.timestamp_ns as seen by tslam
    finished,   \* finish() has run
    ev          \* history: the event of the last step

vars == <<nextoid, tva2oid, oid2amd, oid2irt, oid2rmd, allocs, reallocs, now, finished, ev>>

T0 == [nextoid |-> nextoid, tva2oid |-> tva2oid, amd |-> oid2amd, irt |-> oid2irt,
       rmd |-> oid2rmd, allocs |-> allocs, reallocs |-> reallocs]

\* MetadataTracker._allocd
NewOid(T, tva, sz, t) ==
    [T EXCEPT !.nextoid = @ + 1,
              !.tva2oid[tva] = T.nextoid,
              !.amd[T.nextoid] = [ts |-> t, sz |-> sz]]

\* ia(oid, amd, irt, fts): the allocs row of an object
AllocRow(oid, amd, irt, t) == [oid |-> oid, sz |-> amd.sz, ats |-> amd.ts, rts |-> irt, fts |-> t]

\* ir(oid, rmd, fts)
ReallocRow(oid, r, t) == [oid |-> oid, osz |-> r.osz, nsz |-> r.nsz, ats |-> r.ts, fts |-> t]

\* (variant) freed() looking the object up with get instead of pop
FreedGetNotPop(T, tva, t) ==
    LET oid == T.tva2oid[tva]
        T1  == [T EXCEPT !.irt[oid] = None, !.rmd[oid] = None,
                         !.allocs = Append(@, AllocRow(oid, T.amd[oid], T.irt[oid], t))]
    IN  IF oid = None THEN T
        ELSE IF T.rmd[oid] = None THEN T1
        ELSE [T1 EXCEPT !.reallocs = Append(@, ReallocRow(oid, T.rmd[oid], t))]

\* MetadataTracker.freed: pop the object, write its allocs row and its
\* pending realloc row
Freed(T, tva, t) ==
    LET oid == T.tva2oid[tva]
        T1  == [T EXCEPT !.tva2oid[tva] = None, !.irt[oid] = None, !.rmd[oid] = None,
                         !.allocs = Append(@, AllocRow(oid, T.amd[oid], T.irt[oid], t))]
    IN  IF oid = None THEN T
        ELSE IF T.rmd[oid] = None THEN T1
        ELSE [T1 EXCEPT !.reallocs = Append(@, ReallocRow(oid, T.rmd[oid], t))]

\* (variant) the object's size taken as its end address
AllocdSizeAsEnd(T, b, sz, t) ==
    LET T1 == IF T.tva2oid[b] # None THEN Freed(T, b, t) ELSE T
    IN  [NewOid(T1, b, b + sz, t) EXCEPT !.rmd[T1.nextoid] = None]

\* MetadataTracker.allocd: synthesize a free of an object already at begin
Allocd(T, b, sz, t) ==
    LET T1 == IF T.tva2oid[b] # None THEN Freed(T, b, t) ELSE T
    IN  [NewOid(T1, b, sz, t) EXCEPT !.rmd[T1.nextoid] = None]

\* (variant) a realloc-created object without its initial realloc time
ReallocdNoIrt(T, o, n, nsz, t) ==
    LET T1  == IF T.tva2oid[n] # None THEN Freed(T, n, t) ELSE T
        oid == T1.tva2oid[o]
        T2  == [T1 EXCEPT !.tva2oid[o] = None]
        r   == T2.rmd[oid]
        T3  == IF r # None THEN [T2 EXCEPT !.reallocs = Append(@, ReallocRow(oid, r, t))]
               ELSE [T2 EXCEPT !.irt[oid] = t]
        osz == IF r # None THEN r.nsz ELSE T2.amd[oid].sz
    IN  IF oid = None
        THEN [NewOid(T2, n, nsz, t) EXCEPT !.rmd[T2.nextoid] = [ts |-> t, osz |-> 0, nsz |-> nsz]]
        ELSE IF nsz = 0 THEN Freed(T2, o, t)
        ELSE [T3 EXCEPT !.rmd[oid] = [ts |-> t, osz |-> osz, nsz |-> nsz], !.tva2oid[n] = oid]

\* (variant) the old size always taken from the allocation record
ReallocdOszFromAmd(T, o, n, nsz, t) ==
    LET T1  == IF T.tva2oid[n] # None THEN Freed(T, n, t) ELSE T
        oid == T1.tva2oid[o]
        T2  == [T1 EXCEPT !.tva2oid[o] = None]
        r   == T2.rmd[oid]
        T3  == IF r # None THEN [T2 EXCEPT !.reallocs = Append(@, ReallocRow(oid, r, t))]
               ELSE [T2 EXCEPT !.irt[oid] = t]
    IN  IF oid = None
        THEN [NewOid(T2, n, nsz, t) EXCEPT !.irt[T2.nextoid] = t,
                                          !.rmd[T2.nextoid] = [ts |-> t, osz |-> 0, nsz |-> nsz]]
        ELSE IF nsz = 0 THEN Freed(T2, o, t)
        ELSE [T3 EXCEPT !.rmd[oid] = [ts |-> t, osz |-> T2.amd[oid].sz, nsz |-> nsz],
                        !.tva2oid[n] = oid]

\* (variant) the object looked up at o with get instead of pop
ReallocdGetNotPop(T, o, n, nsz, t) ==
    LET T1  == IF T.tva2oid[n] # None THEN Freed(T, n, t) ELSE T
        oid == T1.tva2oid[o]
        r   == T1.rmd[oid]
        T3  == IF r # None THEN [T1 EXCEPT !.reallocs = Append(@, ReallocRow(oid, r, t))]
               ELSE [T1 EXCEPT !.irt[oid] = t]
        osz == IF r # None THEN r.nsz ELSE T1.amd[oid].sz
    IN  IF oid = None
        THEN [NewOid(T1, n, nsz, t) EXCEPT !.irt[T1.nextoid] = t,
                                          !.rmd[T1.nextoid] = [ts |-> t, osz |-> 0, nsz |-> nsz]]
        ELSE IF nsz = 0 THEN Freed(T1, o, t)
        ELSE [T3 EXCEPT !.rmd[oid] = [ts |-> t, osz |-> osz, nsz |-> nsz], !.tva2oid[n] = oid]

\* MetadataTracker.reallocd(o, n, n + nsz): free whatever sits at n, then
\* pop the object at o and move it to n (nsz = 0: free through realloc)
Reallocd(T, o, n, nsz, t) ==
    LET T1  == IF T.tva2oid[n] # None THEN Freed(T, n, t) ELSE T
        oid == T1.tva2oid[o]
        T2  == [T1 EXCEPT !.tva2oid[o] = None]
        r   == T2.rmd[oid]
        T3  == IF r # None THEN [T2 EXCEPT !.reallocs = Append(@, ReallocRow(oid, r, t))]
               ELSE [T2 EXCEPT !.irt[oid] = t]
        osz == IF r # None THEN r.nsz ELSE T2.amd[oid].sz
    IN  IF oid = None
        THEN [NewOid(T2, n, nsz, t) EXCEPT !.irt[T2.nextoid] = t,
                                          !.rmd[T2.nextoid] = [ts |-> t, osz |-> 0, nsz |-> nsz]]
        ELSE IF nsz = 0 THEN Freed(T2, o, t)
        ELSE [T3 EXCEPT !.rmd[oid] = [ts |-> t, osz |-> osz, nsz |-> nsz], !.tva2oid[n] = oid]

Commit(T, e) ==
    /\ nextoid' = T.nextoid
    /\ tva2oid' = T.tva2oid
    /\ oid2amd' = T.amd
    /\ oid2irt' = T.irt
    /\ oid2rmd' = T.rmd
    /\ allocs' = T.allocs
    /\ reallocs' = T.reallocs
    /\ ev' = e

Event(T, e) ==
    /\ ~finished /\ now < MaxEvents
    /\ Commit(T, e)
    /\ now' = now + 1
    /\ UNCHANGED finished

AllocdStep ==
    \E b \in TVA, sz \in Sizes : Event(Allocd(T0, b, sz, now), <<"allocd", b, sz>>)

FreedStep ==
    \E b \in TVA : Event(Freed(T0, b, now), <<"freed", b>>)

ReallocdStep ==
    \E o, n \in TVA, nsz \in Sizes \cup {0} :
        Event(Reallocd(T0, o, n, nsz, now), <<"reallocd", o, n, nsz>>)

\* MetadataTracker.finish(), entered once the replay has returned: the
\* timestamp source becomes None
Finish ==
    /\ ~finished
    /\ finished' = TRUE
    /\ ev' = <<"finish">>
    /\ UNCHANGED <<nextoid, tva2oid, oid2amd, oid2irt, oid2rmd, allocs, reallocs, now>>

\* one turn of finish()'s while loop: free the first key of a fresh
\* iterator.  At most MaxEvents objects exist, so at most MaxEvents rows:
\* the bound on allocs never blocks a loop that makes progress.
FinishIter ==
    /\ finished
    /\ \E a \in TVA : tva2oid[a] # None
    /\ Len(allocs) < MaxEvents
    /\ Commit(Freed(T0, CHOOSE a \in TVA : tva2oid[a] # None, None), <<"flush">>)
    /\ UNCHANGED <<now, finished>>

Init ==
    /\ nextoid = 1
    /\ tva2oid = [a \in TVA |-> None]
    /\ oid2amd = [o \in Oids |-> None]
    /\ oid2irt = [o \in Oids |-> None]
    /\ oid2rmd = [o \in Oids |-> None]
    /\ allocs = <<>>
    /\ reallocs = <<>>
    /\ now = 0
    /\ finished = FALSE
    /\ ev = <<"init">>

Next == AllocdStep \/ FreedStep \/ ReallocdStep \/ Finish \/ FinishIter

Spec == Init /\ [][Next]_vars

\* The trace on stdin is finite: run.replay() returns and the script then
\* calls at.finish(), whose loop is sequential code that runs while its
\* guard holds.
FairSpec == Spec /\ WF_vars(Finish) /\ WF_vars(FinishIter)

\* the columns the CREATE TABLE statements declare NOT NULL, among those
\* the model keeps (stk, NOT NULL in both tables, is left out)
NotNullColumns == [allocs |-> {"oid", "sz", "ats"}, reallocs |-> {"oid", "osz", "nsz", "ats"}]

\* the header's promise: one allocs row per object, written when its
\* lifetime ends; the live objects are those an address still names
Lifetimes == INSTANCE ObjectLifetimes WITH
    born    <- nextoid - 1,
    live    <- {tva2oid[a] : a \in TVA} \ {None},
    written <- [k \in DOMAIN allocs |-> allocs[k].oid]

StateView == <<nextoid, tva2oid, oid2amd, oid2irt, oid2rmd, allocs, reallocs, now, finished>>

(***************************************************************************)
(* Properties                                                              *)
(***************************************************************************)
Written(oid) == {k \in DOMAIN allocs : allocs[k].oid = oid}

\* Every variable holds a value of its type.
TypeOK ==
    /\ nextoid \in 1 .. MaxEvents + 1
    /\ tva2oid \in [TVA -> Oids \cup {None}]
    /\ \A o \in Oids : oid2amd[o] = None \/ oid2amd[o].sz \in Sizes \cup {0}
    /\ \A o \in Oids : oid2rmd[o] = None \/ oid2rmd[o].osz \in Sizes \cup {0}
    /\ now \in 0 .. MaxEvents /\ finished \in BOOLEAN

\* ia and ir INSERT without ON CONFLICT into tables whose oid is the
\* PRIMARY KEY of allocs and whose columns above are NOT NULL; a violating
\* row raises sqlite3.IntegrityError and, as con.commit() runs only after
\* finish(), the whole export is lost.  Every row the callbacks get is
\* accepted: no object is written to allocs twice, whatever the mix of
\* synthesized frees (allocd / reallocd over a live address) and the final
\* flush, and no NOT NULL column is None, the timestamp finish() passes
\* included.
InsertsSatisfySchema ==
    /\ \A o \in Oids : Cardinality(Written(o)) <= 1
    /\ \A k \in DOMAIN allocs : \A c \in NotNullColumns.allocs : allocs[k][c] # None
    /\ \A k \in DOMAIN reallocs : \A c \in NotNullColumns.reallocs : reallocs[k][c] # None

\* An object's `allocs` row carries an initial-realloc time exactly when a
\* `reallocs` row was written for it: both come from the same freed() call.
RtsMatchesReallocRows ==
    \A k \in DOMAIN allocs :
        (allocs[k].rts # None) <=> (\E j \in DOMAIN reallocs : reallocs[j].oid = allocs[k].oid)

\* The `reallocs` rows of one object chain: each starts from the size the
\* previous one ended with.
ReallocRowsChain ==
    \A j, k \in DOMAIN reallocs :
        (j < k /\ reallocs[j].oid = reallocs[k].oid
               /\ ~\E m \in j + 1 .. k - 1 : reallocs[m].oid = reallocs[k].oid)
            => reallocs[k].osz = reallocs[j].nsz

\* finish()'s loop terminates: it restarts a fresh iterator after each
\* freed() because freed() deletes from _tva2oid, and it ends only because
\* every freed(k) removes the key k it is handed.  Eventually no address
\* names a live object, so every object live at the end of the trace has
\* been flushed to the rows.
FinishTerminates == <>[](finished /\ \A a \in TVA : tva2oid[a] = None)

\* The header comment: "for each allocated object, a row to the 'allocs'
\* table".  Every step of the exporter is a step of ObjectLifetimes: an
\* object leaves _tva2oid only in the step that writes its row, and every
\* object _allocd creates gets a row once.
ImplementsObjectLifetimes == Lifetimes!Spec

\* A realloc to a non-empty range never ends the lifetime of the object it
\* reallocates: that object gets no `allocs` row in the step.
ReallocKeepsObject ==
    [][ (ev'[1] = "reallocd" /\ ev'[4] > 0 /\ tva2oid[ev'[2]] # None)
          => \A k \in DOMAIN allocs' \ DOMAIN allocs : allocs'[k].oid # tva2oid[ev'[2]] ]_vars
=============================================================================
