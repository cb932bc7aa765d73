------------------------------- MODULE Mutators -----------------------------
(***************************************************************************)
(* Package mutator: the labels in the meta of a task that change its       *)
(* parameters before AddTask.  A random value is any value the code may    *)
(* draw, so a mutator maps a parameter to a set; the empty set is a panic. *)
(* Constant operators only.                                                *)
(*                                                                         *)
(* A time.Duration is a number of ticks of DurationBits bits, two's        *)
(* complement, as it is an int64 of nanoseconds in the code.               *)
(***************************************************************************)
EXTENDS TaskData

CONSTANTS
    Durations,     (* what time.ParseDuration and ParseInt understand: a   *)
                   (* function from texts to durations                     *)
    DurationBits

LabelRandomizeScheduledAtMin == "ngicks.RandomizeScheduledAt.min"
LabelRandomizeScheduledAtMax == "ngicks.RandomizeScheduledAt.max"
LabelScheduleAtNow == "ngicks.ScheduleAtNow"

HalfRange == 2 ^ (DurationBits - 1)

ASSUME DurationsAssumption ==
    /\ HalfRange \in Nat \ {0}
    /\ \A s \in DOMAIN Durations : Durations[s] \in -HalfRange .. HalfRange - 1
    /\ None \notin Int

Wrap(d) == ((d + HalfRange) % (2 * HalfRange)) - HalfRange

(* None is an error. *)
parseDur(s) ==
    IF s = <<>> THEN 0 ELSE IF s \in DOMAIN Durations THEN Durations[s] ELSE None

(* What a decoder finds: a sequence of at most one mutator, None is an     *)
(* error.                                                                  *)
DecodeRandomizeScheduledAt(meta) ==
    LET Bound(label) == IF label \in DOMAIN meta THEN parseDur(meta[label]) ELSE 0
        max == Bound(LabelRandomizeScheduledAtMax)
        min == Bound(LabelRandomizeScheduledAtMin)
    IN  IF {LabelRandomizeScheduledAtMax, LabelRandomizeScheduledAtMin}
           \cap DOMAIN meta = {} THEN <<>>
        ELSE IF max = None \/ min = None THEN None
        ELSE <<[name |-> "RandomizeScheduledAt", min |-> min, max |-> max]>>

DecodeScheduleAtNow(meta) ==
    IF LabelScheduleAtNow \in DOMAIN meta THEN <<[name |-> "ScheduleAtNow"]>>
    ELSE <<>>

(* defaultMutatorStore.Load *)
Load(meta) ==
    LET now == DecodeScheduleAtNow(meta)
        random == DecodeRandomizeScheduledAt(meta)
    IN  IF random = None THEN None ELSE now \o random

-----------------------------------------------------------------------------
ScheduleAtNow(now, p) ==
    NormalizeParam(UpdateParam(p, [scheduled_at |-> now]))

ShiftsWithoutSign(r) ==
    LET diff == Wrap(r.max - r.min)
        size == IF diff < 0 THEN Wrap(-diff) ELSE diff
    IN  {Wrap(r.min + v) : v \in 0 .. size - 1}

(* rand.Int draws from 0 up to, and without, its bound and panics if that  *)
(* is not positive.                                                        *)
Shifts(r) ==
    LET diff == Wrap(r.max - r.min)
        size == IF diff < 0 THEN Wrap(-diff) ELSE diff
    IN  {Wrap(r.min + (IF diff < 0 THEN -v ELSE v)) : v \in 0 .. size - 1}

(* A parameter that says no time is shifted from time.Time{}.              *)
RandomizeScheduledAt(r, p) ==
    LET at == IF "scheduled_at" \in DOMAIN p THEN p.scheduled_at ELSE ZeroTime
    IN  {UpdateParam(p, [scheduled_at |-> at + shift]) : shift \in Shifts(r)}

Mutate(m, now, p) ==
    IF m.name = "ScheduleAtNow" THEN {ScheduleAtNow(now, p)}
    ELSE RandomizeScheduledAt(m, p)

(* Mutators.Apply: one after the other.                                    *)
Apply(ms, now, p) ==
    LET after[k \in 0 .. Len(ms)] ==
            IF k = 0 THEN {p}
            ELSE UNION {Mutate(ms[k], now, q) : q \in after[k - 1]}
    IN  after[Len(ms)]

MetaOf(p) == IF "meta" \in DOMAIN p THEN MapOf(p.meta) ELSE EmptyMap
=============================================================================
