---------------------------- MODULE GraphOutput ----------------------------
(***************************************************************************)
(* GraphOutput of measure-sweeping-revocation.py with the rate limiter of  *)
(* BaseOutput.rate_limited_runms(100) around its update().  The limiter's  *)
(* closure variable call_last_ms is `callLast`; the trace clock            *)
(* run.timestamp_ms is `now`.  A step hands update() the sequence of       *)
(* calls (and "reused" publications) made while one event was handled;     *)
(* the clock does not move inside an event.                                *)
(***************************************************************************)
EXTENDS Integers, Sequences
LOCAL INSTANCE SequencesExt

CONSTANTS
    Period,     \* call_period_ms
    Times       \* trace timestamps, in ms, the driver may report

VARIABLES
    now,        \* run.timestamp_ms
    callLast,   \* call_last_ms of the limiter's closure
    lines,      \* history: the lines <<timestamp, snapshot>> printed by the last step
    lastAt      \* history: timestamp of the last line printed, -1 before the first

vars == <<now, callLast, lines, lastAt>>

\* the line GraphOutput.update prints for an output.update() call
Line(c) == <<now, [allocd |-> c.allocd, mapd |-> c.mapd, swept |-> c.swept]>>

\* (variant) the limiter without its "call_last_ms == 0" clause
RateLimitedCallNoZero(r, c) ==
    IF c.kind = "update" /\ now - r.last > Period
    THEN [last |-> now, out |-> Append(r.out, Line(c))]
    ELSE r

\* rate_limited_meth: print and remember the time, or do nothing; a
\* "reused" publication is not a call of this output
RateLimitedCall(r, c) ==
    IF c.kind = "update" /\ (r.last = 0 \/ now - r.last > Period)
    THEN [last |-> now, out |-> Append(r.out, Line(c))]
    ELSE r

\* the update() calls made while one event is handled, in order
Update(calls) ==
    LET r == FoldLeft(RateLimitedCall, [last |-> callLast, out |-> <<>>], calls)
    IN  /\ callLast' = r.last
        /\ lines' = r.out
        /\ lastAt' = IF r.out = <<>> THEN lastAt ELSE now
        /\ UNCHANGED now

\* the driver moves on to a later timestamp
Tick ==
    \E t \in Times :
        /\ t > now
        /\ now' = t
        /\ lines' = <<>>
        /\ UNCHANGED <<callLast, lastAt>>

Init ==
    /\ now \in Times
    /\ callLast = 0
    /\ lines = <<>>
    /\ lastAt = -1

\* Every variable holds a value of its type.
TypeOK ==
    /\ now \in Times /\ callLast \in {0} \cup Times
    /\ lastAt \in {-1} \cup Times
    /\ \A k \in DOMAIN lines : lines[k][1] = now
=============================================================================
