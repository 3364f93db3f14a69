------------------------------ MODULE Reports ------------------------------
(***************************************************************************)
(* Reports on a schedule: ReportScheduler, the renderer and the pushes of  *)
(* one execution.  APScheduler (external) calls a job in a thread, with a  *)
(* loop of its own; trigger() runs in the caller's thread.  Called from a  *)
(* coroutine it waits for the very loop it holds: it gives up after sixty  *)
(* seconds, and the execution it had asked for follows.                    *)
(***************************************************************************)
EXTENDS Naturals, FiniteSets

CONSTANTS
    JobIds,     \* ids of scheduled reports
    Executions, \* calls of a job, by its schedule or by trigger()
    Targets,    \* places a report is pushed to
    MaxJobs     \* bound: ScheduledReport objects made

NoJob == 0
JobObjects == 1..MaxJobs

VARIABLES
    jobs,       \* the object of each id, NoJob without one
    registry,   \* the object APScheduler calls for an id
    started,    \* the scheduler has been started
    made,       \* objects made so far
    disabled,   \* objects that are disabled
    badCron,    \* objects whose expression cannot be read
    execution,  \* the calls
    loopHeld,   \* TRUE while trigger() holds the event loop
    pushed      \* delivery log: execution, target and outcome

reportVars == <<jobs, registry, started, made, disabled, badCron, execution, loopHeld, pushed>>
scheduled == <<jobs, registry, started, made, disabled, badCron>>

ReportsInit ==
    /\ jobs = [j \in JobIds |-> NoJob] /\ registry = jobs
    /\ started = FALSE /\ made = 0 /\ disabled = {} /\ badCron = {}
    /\ execution = [c \in Executions |-> [pc |-> "new", job |-> NoJob, inLoop |-> FALSE, successes |-> 0]]
    /\ loopHeld = FALSE /\ pushed = {}

\* _register_aps_job: an expression that cannot be read leaves what was there.
Registered(reg, table, bad) ==
    [j \in JobIds |-> IF table[j] # NoJob /\ table[j] \notin bad THEN table[j] ELSE reg[j]]

Schedule(j) ==
    /\ made < MaxJobs
    /\ made' = made + 1
    /\ jobs' = [jobs EXCEPT ![j] = made']
    /\ \E bad \in {{}, {made'}} :
          /\ badCron' = badCron \union bad
          /\ registry' = IF started /\ bad = {} THEN [registry EXCEPT ![j] = made'] ELSE registry
    /\ UNCHANGED <<started, disabled, execution, loopHeld, pushed>>

\* Mutant of Unschedule: APScheduler is not told.
UnscheduleKeepsFiring(j) ==
    /\ jobs[j] # NoJob
    /\ jobs' = [jobs EXCEPT ![j] = NoJob]
    /\ UNCHANGED <<registry, started, made, disabled, badCron, execution, loopHeld, pushed>>

Unschedule(j) ==
    /\ jobs[j] # NoJob
    /\ registry' = [registry EXCEPT ![j] = NoJob]
    /\ jobs' = [jobs EXCEPT ![j] = NoJob]
    /\ UNCHANGED <<started, made, disabled, badCron, execution, loopHeld, pushed>>

StartScheduler ==
    /\ ~started /\ started' = TRUE
    /\ registry' = Registered(registry, jobs, badCron)
    /\ UNCHANGED <<jobs, made, disabled, badCron, execution, loopHeld, pushed>>

\* Executions that have begun go on.
ShutdownScheduler ==
    /\ started /\ started' = FALSE
    /\ registry' = [j \in JobIds |-> NoJob]
    /\ UNCHANGED <<jobs, made, disabled, badCron, execution, loopHeld, pushed>>

EnableOrDisable(j) ==
    /\ jobs[j] # NoJob
    /\ disabled' \in {disabled \union {jobs[j]}, disabled \ {jobs[j]}}
    /\ UNCHANGED <<jobs, registry, started, made, badCron, execution, loopHeld, pushed>>

-----------------------------------------------------------------------------
(* Executions. *)

\* The time of a registered job has come; whether it is enabled is not asked.
Fire(c, j) ==
    /\ execution[c].pc = "new" /\ registry[j] # NoJob
    /\ execution' = [execution EXCEPT ![c].pc = "render", ![c].job = registry[j]]
    /\ UNCHANGED <<scheduled, loopHeld, pushed>>

TriggerReport(c, j) ==
    /\ execution[c].pc = "new" /\ jobs[j] # NoJob /\ ~loopHeld
    /\ IF jobs[j] \in disabled
       THEN execution' = [execution EXCEPT ![c].pc = "disabled", ![c].job = jobs[j]] /\ UNCHANGED loopHeld
       ELSE \E inside \in BOOLEAN :
              /\ loopHeld' = inside
              /\ execution' = [execution EXCEPT ![c].pc = "render", ![c].job = jobs[j], ![c].inLoop = inside]
    /\ UNCHANGED <<scheduled, pushed>>

\* future.result(timeout=60): the caller gets the error, the loop its freedom.
TriggerTimesOut ==
    /\ loopHeld /\ loopHeld' = FALSE
    /\ UNCHANGED <<scheduled, execution, pushed>>

MayRun(c) == execution[c].inLoop => ~loopHeld

\* A required variable may be missing, a template may not render.
RenderReport(c) ==
    /\ execution[c].pc = "render" /\ MayRun(c)
    /\ \E pc \in {"push", "error"} : execution' = [execution EXCEPT ![c].pc = pc]
    /\ UNCHANGED <<scheduled, loopHeld, pushed>>

PushedBy(c) == {e \in pushed : e.by = c}

\* push_many: one target after the other, whatever became of the one before.
PushOne(c) ==
    /\ execution[c].pc = "push" /\ MayRun(c)
    /\ \E t \in Targets, ok \in BOOLEAN :
          /\ \A e \in PushedBy(c) : e.to # t
          /\ pushed' = pushed \union {[by |-> c, to |-> t, success |-> ok]}
          /\ execution' = [execution EXCEPT ![c].successes = IF ok THEN @ + 1 ELSE @]
    /\ UNCHANGED <<scheduled, loopHeld>>

FinishPush(c) ==
    /\ execution[c].pc = "push" /\ MayRun(c)
    /\ Cardinality(PushedBy(c)) = Cardinality(Targets)
    /\ execution' = [execution EXCEPT ![c].pc = "done"]
    /\ UNCHANGED <<scheduled, loopHeld, pushed>>

ReportsNext ==
    \/ \E j \in JobIds :
          \/ Schedule(j) \/ Unschedule(j) \/ EnableOrDisable(j)
          \/ \E c \in Executions : Fire(c, j) \/ TriggerReport(c, j)
    \/ StartScheduler \/ ShutdownScheduler \/ TriggerTimesOut
    \/ \E c \in Executions : RenderReport(c) \/ PushOne(c) \/ FinishPush(c)

ReportsSpec == ReportsInit /\ [][ReportsNext]_reportVars

-----------------------------------------------------------------------------
(* Properties. *)

\* APScheduler calls only what is scheduled, through replaced ids, unreadable
\* expressions, restarts of the scheduler and jobs removed before or after it
\* started (ReportScheduler.schedule, unschedule, start and shutdown).  The
\* object it calls may be one that a later schedule() of the id replaced.
FiresOnlyScheduled ==
    \A j \in JobIds : registry[j] # NoJob =>
        started /\ jobs[j] # NoJob /\ registry[j] <= jobs[j]
=============================================================================
