-------------------------- MODULE PerformanceMonitor -------------------------
(****************************************************************************)
(* Performance contexts, metrics, statistics and sampling,                  *)
(* kernel/performance/performance.c.                                        *)
(*                                                                          *)
(* The statistics are updated and copied under perf_lock; metrics and the   *)
(* sampling of a context are not locked, so each of their assignments is a  *)
(* step.  ktime_get never goes back.  A metric belongs to who created it;   *)
(* this module does not free it.  The time of a metric and the end of a     *)
(* sampling are stored where no code reads them, and are left out.          *)
(****************************************************************************)
EXTENDS ContextRefs

CONSTANTS
  Metrics,       \* the metrics
  Values,        \* the values and thresholds callers give
  Normal,        \* QUANTUM_PERF_THRESHOLD_NORMAL (80)
  NoTask, NoMetric,
  Samplers,      \* the tasks that call the functions of sampling
  MaxTime,       \* bound: the clock stops there
  MaxUpdates     \* bound: updates begin while total_metrics is below it

ASSUME PerformanceConstants ==
  /\ Values \subseteq Nat /\ Normal \in Nat
  /\ NoTask \notin Tasks /\ NoMetric \notin Metrics
  /\ Samplers \subseteq Tasks
  /\ MaxTime \in Nat \ {0} /\ MaxUpdates \in Nat

VARIABLES
  now,             \* the clock
  perf_lock,       \* the task that holds perf_lock
  total_metrics, threshold_exceeded, last_update,    \* global_stats
  created, value, threshold,                         \* of each metric
  sampling_active, sampling_start,                   \* of each context
  pc,              \* where each task is in a call
  metric, ctx,     \* the arguments of its call
  given,           \* the value it stores
  clock,           \* what ktime_get returned to it
  began,           \* history: when sampling of each context became active
  mixed            \* history: the contexts on which a start overlapped another
                   \* start or a duration since they were allocated

stats == <<total_metrics, threshold_exceeded, last_update>>
metrics == <<created, value, threshold>>
sampleHistory == <<began, mixed>>
sampling == <<sampling_active, sampling_start, sampleHistory>>
call == <<metric, ctx, given, clock>>
perfVars == <<refVars, now, perf_lock, stats, metrics, sampling, pc, call>>

Stages == {"idle", "lock", "count", "date", "store_date", "compare",
           "activate", "start", "store_start", "deactivate",
           "clock_first", "start_first"}

\* Inside quantum_perf_start_sampling, past its test; and inside
\* quantum_perf_get_sampling_duration.
Starting == {"activate", "start", "store_start"}

Measuring == {"clock_first", "start_first"}

At(t, stage) == pc[t] = stage

Goto(t, stage) == pc' = [pc EXCEPT ![t] = stage]

PerfInit ==
  /\ RefsInit
  /\ now = 1 /\ perf_lock = NoTask
  /\ total_metrics = 0 /\ threshold_exceeded = 0 /\ last_update = 0
  /\ created = {}
  /\ value = [m \in Metrics |-> 0] /\ threshold = [m \in Metrics |-> 0]
  /\ sampling_active = [c \in Contexts |-> FALSE]
  /\ sampling_start = [c \in Contexts |-> 0]
  /\ began = [c \in Contexts |-> 0]
  /\ mixed = {}
  /\ pc = [t \in Tasks |-> "idle"]
  /\ metric = [t \in Tasks |-> NoMetric] /\ ctx = [t \in Tasks |-> NoContext]
  /\ given = [t \in Tasks |-> 0] /\ clock = [t \in Tasks |-> 0]

Tick ==
  /\ now < MaxTime
  /\ now' = now + 1
  /\ UNCHANGED <<refVars, perf_lock, stats, metrics, sampling, pc, call>>

(****************************************************************************)
(* Contexts                                                                 *)
(****************************************************************************)
\* kzalloc: the fields of a new context are 0.
Zeroed(c) ==
  /\ sampling_active' = [sampling_active EXCEPT ![c] = FALSE]
  /\ sampling_start' = [sampling_start EXCEPT ![c] = 0]
  /\ began' = [began EXCEPT ![c] = 0]
  /\ mixed' = mixed \ {c}

Others == <<now, perf_lock, metrics, pc, call>>

\* global_stats is static, so it is 0 when the module is loaded again.
LoadMonitor(c) ==
  /\ Publish(c)
  /\ Zeroed(c)
  /\ total_metrics' = 0 /\ threshold_exceeded' = 0 /\ last_update' = 0
  /\ UNCHANGED Others

CreatePerfContext(t, c) ==
  /\ At(t, "idle") /\ Create(t, c)
  /\ Zeroed(c)
  /\ UNCHANGED <<stats, Others>>

\* Exit, get and put.
ContextCall(c) ==
  /\ \/ (\A t \in Tasks : At(t, "idle")) /\ Unpublish
     \/ Release
     \/ \E t \in Tasks : At(t, "idle") /\ (Get(t) \/ Put(t, c))
  /\ UNCHANGED <<sampling, stats, Others>>

(****************************************************************************)
(* Metrics and statistics                                                   *)
(****************************************************************************)
\* Two metrics that were created are two addresses.
CreateMetric(m) ==
  /\ loaded /\ m \notin created
  /\ created' = created \cup {m}
  /\ value' = [value EXCEPT ![m] = 0]
  /\ threshold' = [threshold EXCEPT ![m] = Normal]
  /\ UNCHANGED <<refVars, now, perf_lock, stats, sampling, pc, call>>

SetThreshold(t, m, v) ==
  /\ loaded /\ At(t, "idle") /\ m \in created
  /\ threshold' = [threshold EXCEPT ![m] = v]
  /\ UNCHANGED <<refVars, now, perf_lock, stats, created, value, sampling, pc,
                 call>>

Update(t, m, v) ==
  /\ loaded /\ At(t, "idle") /\ m \in created
  /\ total_metrics < MaxUpdates
  /\ value' = [value EXCEPT ![m] = v]
  /\ metric' = [metric EXCEPT ![t] = m]
  /\ given' = [given EXCEPT ![t] = v]
  /\ Goto(t, "lock")
  /\ UNCHANGED <<refVars, now, perf_lock, stats, created, threshold, sampling,
                 ctx, clock>>

Lock(t) ==
  /\ At(t, "lock") /\ perf_lock = NoTask
  /\ perf_lock' = t
  /\ Goto(t, "count")
  /\ UNCHANGED <<refVars, now, stats, metrics, sampling, call>>

CountMetric(t) ==
  /\ At(t, "count")
  /\ total_metrics' = total_metrics + 1
  /\ Goto(t, "date")
  /\ UNCHANGED <<refVars, now, perf_lock, threshold_exceeded, last_update,
                 metrics, sampling, call>>

\* ktime_get, and then the assignment of what it returned.
Date(t) ==
  /\ At(t, "date")
  /\ clock' = [clock EXCEPT ![t] = now]
  /\ Goto(t, "store_date")
  /\ UNCHANGED <<refVars, now, perf_lock, stats, metrics, sampling, metric,
                 ctx, given>>

StoreDate(t) ==
  /\ At(t, "store_date")
  /\ last_update' = clock[t]
  /\ Goto(t, "compare")
  /\ UNCHANGED <<refVars, now, perf_lock, total_metrics, threshold_exceeded,
                 metrics, sampling, call>>

\* And the unlock.
Compare(t) ==
  /\ At(t, "compare")
  /\ threshold_exceeded' = IF given[t] > threshold[metric[t]]
                           THEN threshold_exceeded + 1 ELSE threshold_exceeded
  /\ perf_lock' = NoTask
  /\ Goto(t, "idle")
  /\ metric' = [metric EXCEPT ![t] = NoMetric]
  /\ given' = [given EXCEPT ![t] = 0] /\ clock' = [clock EXCEPT ![t] = 0]
  /\ UNCHANGED <<refVars, now, total_metrics, last_update, metrics, sampling,
                 ctx>>

\* Mutant: the reset is made without the lock.
ResetUnlocked(t) ==
  /\ loaded /\ At(t, "idle")
  /\ total_metrics' = 0 /\ threshold_exceeded' = 0 /\ last_update' = 0
  /\ UNCHANGED <<refVars, now, perf_lock, metrics, sampling, pc, call>>

ResetStats(t) ==
  /\ loaded /\ At(t, "idle") /\ perf_lock = NoTask
  /\ total_metrics' = 0 /\ threshold_exceeded' = 0 /\ last_update' = 0
  /\ UNCHANGED <<refVars, now, perf_lock, metrics, sampling, pc, call>>

(****************************************************************************)
(* Sampling                                                                 *)
(****************************************************************************)
MaySample(t, c) == t \in Samplers /\ At(t, "idle") /\ c \in held[t]

Enter(t, c, stage) ==
  /\ Goto(t, stage)
  /\ ctx' = [ctx EXCEPT ![t] = c]

Leave(t) ==
  /\ Goto(t, "idle")
  /\ ctx' = [ctx EXCEPT ![t] = NoContext]
  /\ clock' = [clock EXCEPT ![t] = 0]

\* Calls of other tasks at these stages are under way on c.
Overlaps(c, stages) == \E u \in Tasks : pc[u] \in stages /\ ctx[u] = c

Mix(c, stages) == mixed' = IF Overlaps(c, stages) THEN mixed \cup {c} ELSE mixed

StartTest(t, c) ==
  /\ MaySample(t, c) /\ ~sampling_active[c]
  /\ Enter(t, c, "activate")
  /\ Mix(c, Starting \cup Measuring)
  /\ UNCHANGED <<refVars, now, perf_lock, stats, metrics, sampling_active,
                 sampling_start, began, metric, given, clock>>

Activate(t) ==
  /\ At(t, "activate")
  /\ sampling_active' = [sampling_active EXCEPT ![ctx[t]] = TRUE]
  /\ began' = [began EXCEPT ![ctx[t]] = now]
  /\ Goto(t, "start")
  /\ UNCHANGED <<refVars, now, perf_lock, stats, metrics, sampling_start,
                 mixed, call>>

\* ktime_get, and then the assignment of what it returned.
Start(t) ==
  /\ At(t, "start")
  /\ clock' = [clock EXCEPT ![t] = now]
  /\ Goto(t, "store_start")
  /\ UNCHANGED <<refVars, now, perf_lock, stats, metrics, sampling, metric,
                 ctx, given>>

\* Mutant: the time of the start is not stored.
StartUnstamped(t) ==
  /\ At(t, "store_start")
  /\ Leave(t)
  /\ UNCHANGED <<refVars, now, perf_lock, stats, metrics, sampling, metric,
                 given>>

StoreStart(t) ==
  /\ At(t, "store_start")
  /\ sampling_start' = [sampling_start EXCEPT ![ctx[t]] = clock[t]]
  /\ Leave(t)
  /\ UNCHANGED <<refVars, now, perf_lock, stats, metrics, sampling_active,
                 sampleHistory, metric, given>>

StopTest(t, c) ==
  /\ MaySample(t, c) /\ sampling_active[c]
  /\ Enter(t, c, "deactivate")
  /\ UNCHANGED <<refVars, now, perf_lock, stats, metrics, sampling, metric,
                 given, clock>>

Deactivate(t) ==
  /\ At(t, "deactivate")
  /\ sampling_active' = [sampling_active EXCEPT ![ctx[t]] = FALSE]
  /\ Leave(t)
  /\ UNCHANGED <<refVars, now, perf_lock, stats, metrics, sampling_start,
                 sampleHistory, metric, given>>

\* Which of the two arguments of ktime_sub is read first is for the compiler.
DurationTest(t, c) ==
  /\ MaySample(t, c) /\ sampling_active[c]
  /\ \/ Enter(t, c, "clock_first") /\ clock' = [clock EXCEPT ![t] = now]
     \/ /\ Enter(t, c, "start_first")
        /\ clock' = [clock EXCEPT ![t] = sampling_start[c]]
  /\ Mix(c, Starting)
  /\ UNCHANGED <<refVars, now, perf_lock, stats, metrics, sampling_active,
                 sampling_start, began, metric, given>>

Elapsed(t) == IF At(t, "clock_first") THEN clock[t] - sampling_start[ctx[t]]
              ELSE now - clock[t]

\* *duration is Elapsed(t).
Duration(t) ==
  /\ pc[t] \in Measuring
  /\ Leave(t)
  /\ UNCHANGED <<refVars, now, perf_lock, stats, metrics, sampling, metric,
                 given>>

(****************************************************************************)
(* The specification                                                        *)
(****************************************************************************)
StatsStep(t) ==
  \/ \E m \in Metrics, v \in Values : SetThreshold(t, m, v) \/ Update(t, m, v)
  \/ Lock(t)
  \/ CountMetric(t)
  \/ Date(t)
  \/ StoreDate(t)
  \/ Compare(t)
  \/ ResetStats(t)

SamplingStep(t) ==
  \/ \E c \in Contexts : StartTest(t, c) \/ StopTest(t, c) \/ DurationTest(t, c)
  \/ Activate(t)
  \/ Start(t)
  \/ StoreStart(t)
  \/ Deactivate(t)
  \/ Duration(t)

PerfNext ==
  \/ Tick
  \/ \E c \in Contexts : \/ LoadMonitor(c)
                        \/ ContextCall(c)
                        \/ \E t \in Tasks : CreatePerfContext(t, c)
  \/ \E m \in Metrics : CreateMetric(m)
  \/ \E t \in Tasks : StatsStep(t) \/ SamplingStep(t)

PerfSpec == PerfInit /\ [][PerfNext]_perfVars

(****************************************************************************)
(* Properties                                                               *)
(****************************************************************************)
PerfTypeOK ==
  /\ RefsOK
  /\ now \in 1 .. MaxTime
  /\ perf_lock \in Tasks \cup {NoTask}
  /\ total_metrics \in Nat /\ threshold_exceeded \in Nat
  /\ last_update \in 0 .. MaxTime
  /\ created \subseteq Metrics
  /\ value \in [Metrics -> Nat] /\ threshold \in [Metrics -> Nat]
  /\ sampling_active \in [Contexts -> BOOLEAN]
  /\ sampling_start \in [Contexts -> 0 .. MaxTime]
  /\ began \in [Contexts -> 0 .. MaxTime] /\ mixed \subseteq Contexts
  /\ pc \in [Tasks -> Stages]
  /\ metric \in [Tasks -> Metrics \cup {NoMetric}]
  /\ ctx \in [Tasks -> Contexts \cup {NoContext}]
  /\ given \in [Tasks -> Nat] /\ clock \in [Tasks -> 0 .. MaxTime]

\* The updates that exceeded their threshold are among the updates, whatever
\* resets come between; and whoever finds the lock free, to copy the statistics,
\* finds the time of an update exactly when one is counted (lines 140-146,
\* 190-202).
StatsConsistent ==
  /\ threshold_exceeded <= total_metrics
  /\ perf_lock = NoTask => (total_metrics = 0 <=> last_update = 0)

Within(t) == 0 <= Elapsed(t) /\ Elapsed(t) <= now - began[ctx[t]]

\* A duration of a context is not negative and not longer than the time since
\* the context became active, as long as no start of it overlaps another start
\* or a duration: stops may come at any moment, by any task, and between calls
\* it may be stopped, restarted, freed and allocated again (lines 208-251).
DurationWithinSampling ==
  [][\A t \in Tasks : Duration(t) /\ ctx[t] \notin mixed => Within(t)]_perfVars
==============================================================================
