------------------------------- MODULE Timing -------------------------------
(***************************************************************************)
(* Time: the timer that calls functions when it has passed (core/timer.hpp)*)
(* and the statistics of how much of it passed (core/statistics.hpp).      *)
(***************************************************************************)
EXTENDS Integers, Sequences

-----------------------------------------------------------------------------
(***************************************************************************)
(* BasicTimer (core/timer.hpp): a timerfd whose expirations the reactor's  *)
(* thread turns into calls of _callback.  The setters assign _callback and *)
(* then program the timerfd; they are called by the callback itself, by    *)
(* the reactor's thread between two events, or by one other thread, which  *)
(* nothing synchronises with the reactor's.                                *)
(***************************************************************************)
CONSTANTS
    TimerFns,     \* the functions given to the setters
    NoFn,         \* the empty std::function
    TornFn,       \* a std::function read while another thread assigns it
    MaxTicks,     \* bound: expirations between two reads
    MaxArmings    \* bound: calls of the setters

VARIABLES
    tmCallback,   \* _callback
    tmOneShot,    \* _oneShot
    tmArmed,      \* the timerfd: "off", "once" or "periodic"
    tmTicks,      \* expirations not read yet
    tmOwner,      \* the function whose arming the timerfd was programmed for
    tmLoop,       \* onReadable: the rounds left, whose expirations were read, with no setter under way (clean)
    tmSetter,     \* the other thread's setter: what it has still to do
    tmStale,      \* _callback was assigned since the expirations in hand were read
    tmCalled,     \* the last call: what was called, and for whose expiration
    tmArmings

timerVars == <<tmCallback, tmOneShot, tmArmed, tmTicks, tmOwner, tmLoop, tmSetter, tmStale,
               tmCalled, tmArmings>>

Idle == [left |-> 0, owner |-> NoFn, in |-> FALSE, clean |-> TRUE]
Rounds == [left |-> tmTicks, owner |-> tmOwner, in |-> FALSE, clean |-> tmSetter = <<>>]
NoCallYet == [fn |-> NoFn, owner |-> NoFn, made |-> FALSE]

TimerInit ==
    /\ tmCallback = NoFn /\ tmOneShot = TRUE /\ tmArmed = "off" /\ tmTicks = 0 /\ tmOwner = NoFn
    /\ tmLoop = Idle /\ tmSetter = <<>> /\ tmStale = FALSE /\ tmCalled = NoCallYet /\ tmArmings = 0

\* timerfd_settime: it also discards the expirations nobody has read.
Settime(mode, fn) == tmArmed' = mode /\ tmOwner' = fn /\ tmTicks' = 0

\* A setter called in the reactor's thread: nothing of onReadable runs in between.
SetInLoop(fn, mode) ==
    /\ tmArmings < MaxArmings /\ tmArmings' = tmArmings + 1
    /\ tmLoop.left = 0 \/ tmLoop.in
    /\ tmSetter = <<>>
    /\ tmCallback' = fn /\ tmOneShot' = (mode # "periodic") /\ Settime(mode, fn)
    /\ tmStale' = (tmStale \/ tmLoop.left > 0)
    /\ UNCHANGED <<tmLoop, tmSetter, tmCalled>>

\* The other thread: the assignment is not atomic, and the timerfd is programmed after it.
SetterBegins(fn, mode) ==
    /\ tmArmings < MaxArmings /\ tmArmings' = tmArmings + 1
    /\ tmSetter = <<>> /\ tmSetter' = <<[fn |-> fn, mode |-> mode, torn |-> TRUE]>>
    /\ tmCallback' = TornFn
    /\ tmStale' = (tmStale \/ tmLoop.left > 0)
    /\ UNCHANGED <<tmOneShot, tmArmed, tmTicks, tmOwner, tmLoop, tmCalled>>

SetterAssigns ==
    /\ tmSetter # <<>> /\ tmSetter[1].torn
    /\ tmCallback' = tmSetter[1].fn /\ tmOneShot' = (tmSetter[1].mode # "periodic")
    /\ tmSetter' = <<[tmSetter[1] EXCEPT !.torn = FALSE]>>
    /\ tmStale' = (tmStale \/ tmLoop.left > 0)
    /\ UNCHANGED <<tmArmed, tmTicks, tmOwner, tmLoop, tmCalled, tmArmings>>

SetterArms ==
    /\ tmSetter # <<>> /\ ~tmSetter[1].torn
    /\ Settime(tmSetter[1].mode, tmSetter[1].fn) /\ tmSetter' = <<>>
    /\ UNCHANGED <<tmCallback, tmOneShot, tmLoop, tmStale, tmCalled, tmArmings>>

SetOneShot == \E fn \in TimerFns : SetInLoop(fn, "once") \/ SetterBegins(fn, "once")
SetInterval == \E fn \in TimerFns : SetInLoop(fn, "periodic") \/ SetterBegins(fn, "periodic")
Cancel == SetInLoop(NoFn, "off") \/ SetterBegins(NoFn, "off")

Expire ==
    /\ tmArmed # "off" /\ tmTicks < MaxTicks /\ tmTicks' = tmTicks + 1
    /\ tmArmed' = IF tmArmed = "once" THEN "off" ELSE tmArmed
    /\ UNCHANGED <<tmCallback, tmOneShot, tmOwner, tmLoop, tmSetter, tmStale, tmCalled, tmArmings>>

\* The read, and the one test of _callback; a torn one tests as set.
OnReadable ==
    /\ tmLoop.left = 0 /\ tmTicks > 0
    /\ tmLoop' = IF tmCallback # NoFn THEN Rounds ELSE Idle
    /\ tmTicks' = 0 /\ tmStale' = (tmCallback = TornFn)
    /\ UNCHANGED <<tmCallback, tmOneShot, tmArmed, tmOwner, tmSetter, tmCalled, tmArmings>>

CallBegins ==
    /\ tmLoop.left > 0 /\ ~tmLoop.in
    /\ tmCalled' = [fn |-> tmCallback, owner |-> tmLoop.owner, made |-> TRUE]
    /\ tmLoop' = [tmLoop EXCEPT !.in = TRUE]
    /\ UNCHANGED <<tmCallback, tmOneShot, tmArmed, tmTicks, tmOwner, tmSetter, tmStale, tmArmings>>

CallEnds ==
    /\ tmLoop.in
    /\ tmLoop' = IF tmLoop.left > 1 THEN [tmLoop EXCEPT !.left = @ - 1, !.in = FALSE] ELSE Idle
    /\ tmCalled' = NoCallYet
    /\ UNCHANGED <<tmCallback, tmOneShot, tmArmed, tmTicks, tmOwner, tmSetter, tmStale, tmArmings>>

TimerNext ==
    \/ SetOneShot \/ SetInterval \/ Cancel \/ SetterAssigns \/ SetterArms
    \/ Expire \/ OnReadable \/ CallBegins \/ CallEnds

(* onReadable calls an empty or a torn function only when a setter ran after the       *)
(* expirations in hand were read, and a function other than the one the timer expired  *)
(* for only when one was under way: the single test of _callback covers all rounds.    *)
TimerCallsExpired ==
    (tmCalled.made /\ ~tmStale) =>
        /\ tmCalled.fn \notin {NoFn, TornFn}
        /\ tmLoop.clean => tmCalled.fn = tmCalled.owner

-----------------------------------------------------------------------------
(***************************************************************************)
(* BasicStats (core/statistics.hpp): threads record durations with         *)
(* relaxed atomic operations, one per step, while another thread reads the *)
(* figures for a report and a third may reset them.  The release of        *)
(* _count publishes what the same thread wrote before it, so a step per    *)
(* atomic operation loses no behaviour the reader's acquire allows.        *)
(***************************************************************************)
CONSTANTS
    Recorders,      \* threads that call stop
    Durations,      \* durations, in nanoseconds, above 0
    HalfMagnitude,  \* _subBucketHalfCountMagnitude
    BucketCount,    \* _bucketCount
    Percents,       \* percentiles asked for, below 100
    MaxStops        \* bound: calls of stop; the reset examined comes after the last has begun

VARIABLES
    st,             \* the figures: count, last, min, max, sum and the histogram counts
    stStop,         \* recorder: the steps of stop it has left, and the duration
    stRead,         \* the report: what it has read so far
    stReset,        \* the steps of reset left
    stSeen,         \* durations whose stop has begun since the last reset began
    stDirty,        \* a reset overlapped a stop or a report
    stStops

statsVars == <<st, stStop, stRead, stReset, stSeen, stDirty, stStops>>

SubBucketHalfCount == 2 ^ HalfMagnitude
SubBucketCount == 2 * SubBucketHalfCount
Buckets == (BucketCount + 1) * SubBucketHalfCount
OverflowIdx == Buckets
MaxTrackableValue == SubBucketCount * 2 ^ (BucketCount - 1)
Infinite == 2 ^ 20    \* numeric_limits<uint64_t>::max ()

\* The bits of v, at least those of SubBucketCount - 1: 64 - clz (v | SubBucketCount - 1).
BitsOf(v) == CHOOSE b \in HalfMagnitude + 1 .. 20 : v < 2 ^ b /\ (b = HalfMagnitude + 1 \/ v >= 2 ^ (b - 1))
HdrBucketIndex(v) == BitsOf(v) - (HalfMagnitude + 1)

CountsIndex(ns) ==
    LET bi == HdrBucketIndex(ns)
        idx == (bi + 1) * SubBucketHalfCount + ns \div 2 ^ bi - SubBucketHalfCount
    IN  IF idx >= Buckets THEN OverflowIdx ELSE idx

BucketUpperBound(idx) ==
    IF idx >= OverflowIdx THEN MaxTrackableValue
    ELSE LET q == idx \div SubBucketHalfCount - 1
             bi == IF q > 0 THEN q ELSE 0
         IN  (idx - bi * SubBucketHalfCount + 1) * 2 ^ bi

Zero == [count |-> 0, last |-> 0, min |-> Infinite, max |-> 0, sum |-> 0, counts |-> [i \in 0..Buckets |-> 0]]
NotReading == [at |-> "idle"]

StatsInit ==
    /\ st = Zero /\ stStop = [r \in Recorders |-> [left |-> <<>>, ns |-> 0]] /\ stRead = NotReading
    /\ stReset = <<>> /\ stSeen = {} /\ stDirty = FALSE /\ stStops = 0

\* Mutant: _count is published before the buckets.
StopOrderEarly == <<"sum", "last", "min", "max", "count", "counts">>

\* The order of the atomic operations of stop: _count comes last.
StopOrder == <<"sum", "last", "min", "max", "counts", "count">>

StopBegins(r, ns) ==
    /\ stStop[r].left = <<>> /\ stStops < MaxStops /\ stStops' = stStops + 1
    /\ stStop' = [stStop EXCEPT ![r] = [left |-> StopOrder, ns |-> ns]]
    /\ stSeen' = stSeen \cup {ns} /\ stDirty' = (stDirty \/ stReset # <<>>)
    /\ UNCHANGED <<st, stRead, stReset>>

\* One atomic operation of stop; the loops on _min and _max end with their exchange done or not needed.
StopStep(r) ==
    LET ns == stStop[r].ns IN
    /\ stStop[r].left # <<>> /\ stStop' = [stStop EXCEPT ![r].left = Tail(@)]
    /\ st' = CASE Head(stStop[r].left) = "sum" -> [st EXCEPT !.sum = @ + ns]
               [] Head(stStop[r].left) = "last" -> [st EXCEPT !.last = ns]
               [] Head(stStop[r].left) = "min" -> [st EXCEPT !.min = IF ns < @ THEN ns ELSE @]
               [] Head(stStop[r].left) = "max" -> [st EXCEPT !.max = IF ns > @ THEN ns ELSE @]
               [] Head(stStop[r].left) = "counts" -> [st EXCEPT !.counts[CountsIndex(ns)] = @ + 1]
               [] OTHER -> [st EXCEPT !.count = @ + 1]
    /\ UNCHANGED <<stRead, stReset, stSeen, stDirty, stStops>>

ResetBegins ==
    /\ stReset = <<>> /\ stStops = MaxStops /\ stSeen # {} /\ stReset' = <<"count", "last", "min", "max", "sum", "counts">>
    /\ stSeen' = {}
    /\ stDirty' = (stDirty \/ stRead.at # "idle" \/ \E r \in Recorders : stStop[r].left # <<>>)
    /\ UNCHANGED <<st, stStop, stRead, stStops>>

ResetStep ==
    /\ stReset # <<>> /\ stReset' = Tail(stReset)
    /\ st' = [st EXCEPT ![Head(stReset)] = Zero[Head(stReset)]]
    /\ UNCHANGED <<stStop, stRead, stSeen, stDirty, stStops>>

\* The report: min () and then max (), each after _count; an empty figure ends it.
ReadMin ==
    /\ stRead.at = "idle" /\ st.count > 0
    /\ stRead' = [at |-> "max", min |-> st.min]
    /\ stDirty' = (stDirty \/ stReset # <<>>) /\ UNCHANGED <<st, stStop, stReset, stSeen, stStops>>

ReadMax ==
    /\ stRead.at = "max"
    /\ stRead' = IF st.count = 0 THEN NotReading ELSE [at |-> "target", min |-> stRead.min, max |-> st.max]
    /\ UNCHANGED <<st, stStop, stReset, stSeen, stDirty, stStops>>

\* percentile: _count, then the counters one by one until they exceed the target.
PercentileBegins(p) ==
    /\ stRead.at = "target"
    /\ stRead' = IF st.count = 0 THEN NotReading
                 ELSE [at |-> "scan", min |-> stRead.min, max |-> stRead.max,
                       target |-> (p * st.count) \div 100, i |-> 0, cumulative |-> 0]
    /\ UNCHANGED <<st, stStop, stReset, stSeen, stDirty, stStops>>

PercentileStep ==
    LET c == stRead.cumulative + st.counts[stRead.i]
        Result(v) == [at |-> "done", min |-> stRead.min, max |-> stRead.max, percentile |-> v] IN
    /\ stRead.at = "scan"
    /\ stRead' = IF c > stRead.target THEN Result(BucketUpperBound(stRead.i))
                 ELSE IF stRead.i = Buckets THEN Result(MaxTrackableValue)
                 ELSE [stRead EXCEPT !.i = @ + 1, !.cumulative = c]
    /\ UNCHANGED <<st, stStop, stReset, stSeen, stDirty, stStops>>

ReportEnds == stRead.at = "done" /\ stRead' = NotReading /\ UNCHANGED <<st, stStop, stReset, stSeen, stDirty, stStops>>

StatsNext ==
    \/ \E r \in Recorders : StopStep(r) \/ \E ns \in Durations : StopBegins(r, ns)
    \/ ResetBegins \/ ResetStep
    \/ ReadMin \/ ReadMax \/ (\E p \in Percents : PercentileBegins(p)) \/ PercentileStep \/ ReportEnds

(* A report read while threads record is one of recorded durations: its min is not     *)
(* above its max, and a percentile is the upper bound of a recorded duration, off by   *)
(* at most one part in _subBucketHalfCount.  Only a reset that overlaps a stop or the  *)
(* report itself can break it (a count whose histogram was cleared reports the largest *)
(* trackable value).                                                                   *)
ReportRecorded ==
    (stRead.at = "done" /\ ~stDirty) =>
        /\ stRead.min <= stRead.max
        /\ \E v \in stSeen :
            \/ v < stRead.percentile /\ (stRead.percentile - v) * SubBucketHalfCount <= v + SubBucketHalfCount
            \/ v >= MaxTrackableValue /\ stRead.percentile = MaxTrackableValue
=============================================================================
