------------------------------ MODULE Cadence -------------------------------
(***************************************************************************)
(* The numbers that pace retries, on their way from config.toml and the    *)
(* environment (internal/config) to the worker's setters (SetCircuitBackoff*)
(* and its kin) and to the delay schedule (internal/backoff).  A wrong turn*)
(* on the way shows as a delay of 0, a busy loop, or one past its maximum. *)
(* The file counts seconds and hours, the worker 64-bit nanoseconds: the   *)
(* product of a large number wraps around after the clamps have seen it.   *)
(*                                                                         *)
(* open and base are the breaker's longest and first window, missCap and   *)
(* missBase those of a miss, maxMiss the number of misses after which a    *)
(* track is given up.                                                      *)
(***************************************************************************)
EXTENDS Backoff

CONSTANTS
    Unset, Garbage,  \* a key or variable that is not there; one that is no number
    OpenDefault, OpenMin, BaseDefault, BaseMin,
    MissBaseDefault, MissCapDefault, MissBaseMin, MaxMissDefault,
    Second, Hour,    \* time.Second and time.Hour, in the unit of a time.Duration
    HalfWord,        \* 2^63: a time.Duration is at least -HalfWord and below HalfWord
    Configurations,  \* the files and environments looked at
    MaxAttempts      \* and the number of attempts

ASSUME CadenceAssumption ==
    /\ {OpenDefault, OpenMin, BaseDefault, BaseMin,
        MissBaseDefault, MissCapDefault, MissBaseMin, MaxMissDefault} \subseteq Int
    /\ 0 < BaseMin /\ BaseMin <= BaseDefault /\ BaseDefault <= OpenDefault
    /\ BaseMin <= OpenMin /\ OpenMin <= OpenDefault
    /\ 0 < MissBaseMin /\ MissBaseMin <= MissBaseDefault /\ MissBaseDefault <= MissCapDefault
    /\ 0 <= MaxMissDefault
    /\ {Second, Hour, HalfWord} \subseteq Nat \ {0}
    /\ OpenDefault * Second < HalfWord /\ MissCapDefault * Hour < HalfWord
    /\ MaxAttempts \in Nat /\ Unset \notin Int /\ Garbage \notin Int

VARIABLES
    written,   \* the numbers of the file
    exported,  \* those of the environment
    attempt    \* how often the lookup failed

cadenceVars == <<written, exported, attempt>>

Number == {"open", "base", "missBase", "missCap", "maxMiss"}

\* A file with something else than a number is refused before it comes here.
ASSUME ConfigurationsAssumption ==
    \A c \in Configurations : /\ c.file \in [Number -> Int \cup {Unset}]
                              /\ c.env \in [Number -> Int \cup {Unset, Garbage}]

defaults == [open |-> OpenDefault, base |-> BaseDefault, missBase |-> MissBaseDefault,
             missCap |-> MissCapDefault, maxMiss |-> MaxMissDefault]

-----------------------------------------------------------------------------
(* LoadWithSources                                                         *)

\* The file on top of the defaults. 0 stands for "not set" but for maxMiss,
\* where it is a choice: no limit.
Decoded(file) ==
    [x \in Number |-> IF file[x] = Unset \/ (file[x] = 0 /\ x # "maxMiss") THEN defaults[x]
                      ELSE file[x]]

\* A variable that is no number, or not a positive one, is passed over.
EnvAccepted(x, value) == value \notin {Unset, Garbage} /\ (x = "maxMiss" \/ value > 0)

applyEnvOverrides(cfg, env) ==
    [x \in Number |-> IF EnvAccepted(x, env[x]) THEN env[x] ELSE cfg[x]]

clampCircuitOpenDuration(cfg) ==
    [cfg EXCEPT !.open = IF @ <= 0 THEN OpenDefault ELSE IF @ < OpenMin THEN OpenMin ELSE @]

clampCircuitBackoffBase(cfg) ==
    LET base == IF cfg.base <= 0 THEN BaseDefault
                ELSE IF cfg.base < BaseMin THEN BaseMin ELSE cfg.base
    IN  [cfg EXCEPT !.base = IF base > cfg.open THEN cfg.open ELSE base]

clampMissBackoff(cfg) ==
    LET base == IF cfg.missBase < MissBaseMin THEN MissBaseMin ELSE cfg.missBase
    IN  [cfg EXCEPT !.missBase = base,
                    !.missCap = IF @ < base THEN base ELSE @,
                    !.maxMiss = IF @ < 0 THEN 0 ELSE @]

\* Faulty: the base is clamped against the maximum as it was configured.
LoadBaseFirst(file, env) ==
    clampMissBackoff(clampCircuitOpenDuration(clampCircuitBackoffBase(
        applyEnvOverrides(Decoded(file), env))))

\* The base is clamped against the clamped maximum, so it comes second.
LoadWithSources(file, env) ==
    clampMissBackoff(clampCircuitBackoffBase(clampCircuitOpenDuration(
        applyEnvOverrides(Decoded(file), env))))

-----------------------------------------------------------------------------
(* runServe hands the numbers to the worker                                *)

Unit(x) == IF x \in {"open", "base"} THEN Second ELSE Hour

\* time.Duration(n) * unit, in 64-bit arithmetic.
Duration(n, unit) == ((n * unit + HalfWord) % (2 * HalfWord)) - HalfWord

\* The worker's setters keep what it has when a value is not positive.
Positive(stored, value) == IF value > 0 THEN value ELSE stored

\* SetCircuitOpenDuration, SetCircuitBackoff, SetMissBackoff, SetMaxMissAttempts
\* on a new worker, whose own defaults are those of the configuration.
WorkerCadence(cfg) ==
    [x \in Number |-> IF x = "maxMiss" THEN (IF cfg[x] < 0 THEN 0 ELSE cfg[x])
                      ELSE Positive(defaults[x] * Unit(x), Duration(cfg[x], Unit(x)))]

-----------------------------------------------------------------------------
CadenceInit ==
    /\ attempt = 0
    /\ \E c \in Configurations : written = c.file /\ exported = c.env

Attempt ==
    /\ attempt < MaxAttempts /\ attempt' = attempt + 1
    /\ UNCHANGED <<written, exported>>

CadenceSpec == CadenceInit /\ [][Attempt]_cadenceVars

Least(a, b) == IF a <= b THEN a ELSE b

\* Doubling from base, as often as attempts failed after the first, and only
\* then capped at max.
CappedDoubling(delay, base, max) ==
    LET n == IF attempt < 1 THEN 1 ELSE attempt
        doubled[i \in 1 .. n] == IF i = 1 THEN base ELSE 2 * doubled[i - 1]
    IN  delay = Least(max, doubled[n])

\* Whatever the file and the environment say, zero, negative and unreadable
\* numbers and products that wrap around too, the delay before the next attempt
\* is the doubling of the base in force, exact where the loop stops early so
\* that no doubling overflows; it is never 0 and never above the maximum in
\* force. Where the configured maximum is below HalfWord as a duration (292
\* years in the code), the delay is not below the least one either, and the
\* maximum is the environment's where the environment has a valid one.
PacedRetries ==
    LET l == LoadWithSources(written, exported)
        c == WorkerCadence(l)
        window == Geometric(attempt, c.base, c.open)
        cooldown == MissCooldown(attempt, c.missBase, c.missCap)
    IN  /\ CappedDoubling(window, c.base, c.open) /\ CappedDoubling(cooldown, c.missBase, c.missCap)
        /\ 0 < window /\ window <= c.open /\ 0 < cooldown /\ cooldown <= c.missCap
        /\ l.open * Second < HalfWord =>
              /\ BaseMin * Second <= window /\ OpenMin * Second <= c.open
              /\ EnvAccepted("open", exported.open) =>
                    c.open = (IF exported.open < OpenMin THEN OpenMin ELSE exported.open) * Second
        /\ l.missCap * Hour < HalfWord => MissBaseMin * Hour <= cooldown
        /\ 0 <= c.maxMiss

=============================================================================
