-------------------------- MODULE SessionSupervisor --------------------------
(***************************************************************************)
(* The seatshell-session process: it launches the compositor, the admin    *)
(* daemon, the user agent and the shell, waits until each is ready,        *)
(* restarts the ones that exit, and kills them all when the session ends.  *)
(*                                                                         *)
(* The supervisor is one task.  Its steps take no time; time passes only   *)
(* while it awaits a timer, a D-Bus reply or the end of a killed child     *)
(* (Tick).  Children exit and acquire bus names at any moment, and signals *)
(* arrive at any moment.                                                   *)
(*                                                                         *)
(* A VecDeque of restart instants is the set of those instants: a restart  *)
(* follows the check that allowed it by at least Backoff > 0, so instants  *)
(* never repeat and front-to-back order is numeric order.                  *)
(***************************************************************************)
EXTENDS Integers, FiniteSets, Sequences

CONSTANTS
    Windowed,         \* --windowed: nested mode, no compositor is launched
    StartupTimeout,   \* STARTUP_TIMEOUT
    Poll,             \* STARTUP_POLL_INTERVAL
    Grace,            \* LABWC_GRACE_PERIOD
    Backoff,          \* RESTART_BACKOFF
    Window,           \* RESTART_WINDOW
    MaxRestarts,      \* MAX_RESTARTS_PER_WINDOW
    QueryTimeout,     \* the 1200 ms given to a bus ownership query
    MayExit,          \* roles whose process may exit by itself
    Leftover,         \* roles whose bus name another process may hold at first
    Signals,          \* signals the environment may send to the supervisor
    IntIgnored,       \* SIGINT was ignored when the supervisor was started
    Faults,           \* operating-system and bus errors that may occur
    MaxLag,           \* bound: how late a timer may be served
    MaxTime           \* bound: the clock stops here

LaunchOrder == <<"labwc", "admin", "agent", "shell">>
Last == 4
Role == {"labwc", "admin", "agent", "shell"}
FaultKind == {"launch", "respawn", "bus", "wait", "kill"}

ASSUME SupervisorAssumption ==
    /\ Windowed \in BOOLEAN /\ IntIgnored \in BOOLEAN
    /\ StartupTimeout \in Nat /\ Poll \in Nat \ {0} /\ Grace \in Nat
    /\ Backoff \in Nat \ {0} /\ Window \in Nat /\ MaxRestarts \in Nat
    /\ QueryTimeout \in Nat /\ MaxLag \in Nat /\ MaxTime \in Nat
    /\ MayExit \subseteq Role /\ Leftover \subseteq Role \ {"labwc"}
    /\ Signals \subseteq {"SIGINT", "SIGTERM"} /\ Faults \subseteq FaultKind

VARIABLES
    pc,          \* where the supervisor task is
    cur,         \* the position in LaunchOrder its current loop has reached
    phase,       \* "startup" until startup is declared complete
    outcome,     \* why run() returned
    handler,     \* tokio's SIGINT handler is installed
    wakeAt,      \* when the timer the task awaits is due
    now,         \* the clock
    proc,        \* proc[r]: the life of r's current process
    owner,       \* owner[r]: who holds r's bus name
    healthy,     \* ManagedChild.healthy
    startedAt,   \* ManagedChild.started_at
    attempts,    \* ManagedChild.restart_attempts
    history,     \* history variable: every instant at which r was restarted
    appeared     \* history variable: r's name was owned at some time since
                 \* r's current process was started

control   == <<pc, cur, phase, outcome, handler, wakeAt>>
records   == <<healthy, startedAt, attempts, history>>
world     == <<proc, owner, appeared>>
vars == <<control, records, world, now>>

-----------------------------------------------------------------------------
First == IF Windowed THEN 2 ELSE 1                     \* should_spawn
Child == {LaunchOrder[i] : i \in First..Last}
Named == Role \ {"labwc"}                              \* readiness_name

Finished == pc \in {"ended", "killed", "aborted"}
Awaiting == pc \in {"query", "backoff", "pause", "select", "reap"}
Due == now >= wakeAt

ControlOK ==
    /\ pc \in {"launch", "refresh", "query", "check", "backoff", "pause",
               "select", "stop", "reap", "ended", "killed", "aborted"}
    /\ cur \in 0..Last + 1
    /\ phase \in {"startup", "supervising"}
    /\ outcome \in {"none", "interrupt", "timeout", "exit", "crashLoop",
                    "error"}
    /\ handler \in BOOLEAN
    /\ wakeAt \in Nat

RecordsOK ==
    /\ healthy \in [Role -> BOOLEAN]
    /\ startedAt \in [Role -> Nat]
    /\ attempts \in [Role -> SUBSET Nat]
    /\ history \in [Role -> SUBSET Nat]

WorldOK ==
    /\ proc \in [Role -> {"absent", "running", "exited", "reaped"}]
    /\ owner \in [Role -> {"none", "child", "other"}]
    /\ appeared \in [Role -> BOOLEAN]

TypeOK == /\ ControlOK /\ RecordsOK /\ WorldOK
          /\ now \in Nat

Init ==
    /\ pc = "launch" /\ cur = First /\ phase = "startup"
    /\ outcome = "none" /\ handler = FALSE /\ wakeAt = 0 /\ now = 0
    /\ proc = [r \in Role |-> "absent"]
    /\ \E held \in SUBSET Leftover :
         owner = [r \in Role |-> IF r \in held THEN "other" ELSE "none"]
    /\ healthy = [r \in Role |-> FALSE]
    /\ startedAt = [r \in Role |-> 0]
    /\ attempts = [r \in Role |-> {}]
    /\ history = [r \in Role |-> {}]
    /\ appeared = [r \in Role |-> FALSE]

-----------------------------------------------------------------------------
(* Moving between the loops of the task.                                   *)

GoTo(p, c) == pc' = p /\ cur' = c

Sleep(p, c, d) == GoTo(p, c) /\ wakeAt' = now + d

\* Mutated form of the next definition: the reason is noted, the loop goes on.
FinishLater(why) == GoTo("check", Last + 1) /\ outcome' = why
\* run() returns; main goes on to shutdown_all.
Finish(why) == GoTo("stop", Last) /\ outcome' = why

Here == LaunchOrder[cur]

\* A fresh process for r; a name held by another process is already there.
Spawn(r) ==
    /\ proc' = [proc EXCEPT ![r] = "running"]
    /\ appeared' = [appeared EXCEPT ![r] = owner[r] # "none"]
    /\ UNCHANGED owner

(* SessionSupervisor::new                                                  *)

Launch ==
    /\ pc = "launch"
    /\ Spawn(Here)
    /\ startedAt' = [startedAt EXCEPT ![Here] = now]
    /\ IF cur < Last THEN GoTo("launch", cur + 1) ELSE GoTo("refresh", First)
    /\ UNCHANGED <<phase, outcome, handler, wakeAt, healthy, attempts,
                   history, now>>

\* `?` in new() and in main(): the process returns before shutdown_all.
LaunchFails ==
    /\ pc = "launch" /\ "launch" \in Faults
    /\ pc' = "aborted"
    /\ outcome' = "error"
    /\ UNCHANGED <<cur, phase, handler, wakeAt, records, world, now>>

-----------------------------------------------------------------------------
(* refresh_readiness: the children in launch order.                        *)

MarkHealthy(isUp) ==
    /\ healthy' = [healthy EXCEPT ![Here] = isUp]
    /\ GoTo("refresh", cur + 1)
    /\ UNCHANGED <<startedAt, attempts, history, phase, outcome, handler>>

RefreshSkips ==
    /\ pc = "refresh" /\ cur <= Last
    /\ healthy[Here]
    /\ GoTo("refresh", cur + 1)
    /\ UNCHANGED <<phase, outcome, handler, wakeAt, records, world, now>>

RefreshCompositor ==
    /\ pc = "refresh" /\ cur <= Last
    /\ ~healthy[Here] /\ Here \notin Named
    /\ MarkHealthy(now - startedAt[Here] >= Grace)
    /\ UNCHANGED <<wakeAt, world, now>>

AskBus ==
    /\ pc = "refresh" /\ cur <= Last
    /\ ~healthy[Here] /\ Here \in Named
    /\ Sleep("query", cur, QueryTimeout)
    /\ UNCHANGED <<phase, outcome, handler, records, world, now>>

BusReplies ==
    /\ pc = "query"
    /\ MarkHealthy(owner[Here] # "none")
    /\ UNCHANGED <<wakeAt, world, now>>

BusIsSilent ==
    /\ pc = "query" /\ Due
    /\ MarkHealthy(FALSE)
    /\ UNCHANGED <<wakeAt, world, now>>

BusFails ==
    /\ pc = "query" /\ "bus" \in Faults
    /\ Finish("error")
    /\ UNCHANGED <<phase, handler, wakeAt, records, world, now>>

\* Mutated form of the next definition: only the bus names are waited for.
StartupCompleteByNames == \A r \in Child \cap Named : healthy[r]

StartupComplete == \A r \in Child : healthy[r]

\* select! polls ctrl_c() and a fresh timer; the first poll of ctrl_c()
\* installs the SIGINT handler, which then stays for good.
EnterSelect == Sleep("select", cur, Poll) /\ handler' = TRUE

DeclareReady ==
    /\ pc = "refresh" /\ cur > Last
    /\ phase = "startup" /\ StartupComplete
    /\ phase' = "supervising"
    /\ EnterSelect
    /\ UNCHANGED <<outcome, records, world, now>>

RefreshDone ==
    /\ pc = "refresh" /\ cur > Last
    /\ ~(phase = "startup" /\ StartupComplete)
    /\ GoTo("check", First)
    /\ UNCHANGED <<phase, outcome, handler, wakeAt, records, world, now>>

-----------------------------------------------------------------------------
(* check_for_exits: the children in launch order.                          *)

Reap(r) ==
    /\ proc[r] = "exited"
    /\ proc' = [proc EXCEPT ![r] = "reaped"]
    /\ UNCHANGED <<owner, appeared>>

\* try_wait() returns None.
\* Mutated form of StillRunning: healthy children are not asked.
StillRunningOrHealthy(r) == proc[r] = "running" \/ healthy[r]
StillRunning(r) == proc[r] = "running"

\* Mutated form of the next definition: an unready shell is given a chance.
MustFailCompositor(r) == r = "labwc"

\* exit_policy
MustFail(r) ==
    \/ r = "labwc"
    \/ phase = "startup" /\ r = "shell" /\ ~healthy[r]

\* restart_budget_available: the instants its loop leaves, and its verdict.
\* Mutated forms: the window is too short; one restart too many.
UnexpiredShort(instants) == {t \in instants : now - t < Window - 1}
BudgetLeftPlusOne(instants) == Cardinality(instants) <= MaxRestarts
Unexpired(instants) == {t \in instants : now - t <= Window}
BudgetLeft(instants) == Cardinality(instants) < MaxRestarts

CheckPasses ==
    /\ pc = "check" /\ cur <= Last
    /\ StillRunning(Here)
    /\ GoTo("check", cur + 1)
    /\ UNCHANGED <<phase, outcome, handler, wakeAt, records, world, now>>

ExitIsFatal ==
    /\ pc = "check" /\ cur <= Last
    /\ Reap(Here)
    /\ MustFail(Here)
    /\ Finish("exit")
    /\ UNCHANGED <<phase, handler, wakeAt, records, now>>

ExitWithoutBudget ==
    /\ pc = "check" /\ cur <= Last
    /\ Reap(Here)
    /\ ~MustFail(Here)
    /\ attempts' = [attempts EXCEPT ![Here] = Unexpired(@)]
    /\ ~BudgetLeft(attempts'[Here])
    /\ Finish("crashLoop")
    /\ UNCHANGED <<phase, handler, wakeAt, healthy, startedAt, history, now>>

\* The task sleeps inside check_for_exits: no other child is looked after.
ExitWithBudget ==
    /\ pc = "check" /\ cur <= Last
    /\ Reap(Here)
    /\ ~MustFail(Here)
    /\ attempts' = [attempts EXCEPT ![Here] = Unexpired(@)]
    /\ BudgetLeft(attempts'[Here])
    /\ Sleep("backoff", cur, Backoff)
    /\ UNCHANGED <<phase, outcome, handler, healthy, startedAt, history, now>>

\* Mutated forms: the healthy flag of the dead process is kept; the new
\* process is dated back so that it counts as past its grace period.
MarkRestartedStillHealthy(r) ==
    /\ UNCHANGED healthy
    /\ startedAt' = [startedAt EXCEPT ![r] = now]
    /\ attempts' = [attempts EXCEPT ![r] = @ \cup {now}]
    /\ history' = [history EXCEPT ![r] = @ \cup {now}]

MarkRestartedBackdated(r) ==
    /\ healthy' = [healthy EXCEPT ![r] = FALSE]
    /\ startedAt' = [startedAt EXCEPT ![r] = now - Window]
    /\ attempts' = [attempts EXCEPT ![r] = @ \cup {now}]
    /\ history' = [history EXCEPT ![r] = @ \cup {now}]

MarkRestarted(r) ==
    /\ healthy' = [healthy EXCEPT ![r] = FALSE]
    /\ startedAt' = [startedAt EXCEPT ![r] = now]
    /\ attempts' = [attempts EXCEPT ![r] = @ \cup {now}]
    /\ history' = [history EXCEPT ![r] = @ \cup {now}]

Respawn ==
    /\ pc = "backoff" /\ Due
    /\ Spawn(Here)
    /\ MarkRestarted(Here)
    /\ GoTo("check", cur + 1)
    /\ UNCHANGED <<phase, outcome, handler, wakeAt, now>>

RespawnFails ==
    /\ pc = "backoff" /\ Due /\ "respawn" \in Faults
    /\ Finish("error")
    /\ UNCHANGED <<phase, handler, wakeAt, records, world, now>>

\* try_wait returns an error.
WaitFails ==
    /\ pc = "check" /\ cur <= Last /\ "wait" \in Faults
    /\ Finish("error")
    /\ UNCHANGED <<phase, handler, wakeAt, records, world, now>>

\* Mutated forms: the deadline follows the restarts; there is none.
PastDeadlineOfShell == now >= startedAt["shell"] + StartupTimeout
PastDeadlineNever == FALSE

\* wait_for_startup began, and set its deadline, at time 0.
PastDeadline == now >= StartupTimeout

\* The end of an iteration of wait_for_startup.
StartupTimesOut ==
    /\ pc = "check" /\ cur > Last /\ phase = "startup"
    /\ PastDeadline
    /\ Finish("timeout")
    /\ UNCHANGED <<phase, handler, wakeAt, records, world, now>>

PauseStartup ==
    /\ pc = "check" /\ cur > Last /\ phase = "startup"
    /\ ~PastDeadline
    /\ Sleep("pause", cur, Poll)
    /\ UNCHANGED <<phase, outcome, handler, records, world, now>>

\* The end of an iteration of supervise.
SuperviseAgain ==
    /\ pc = "check" /\ cur > Last /\ phase = "supervising"
    /\ EnterSelect
    /\ UNCHANGED <<phase, outcome, records, world, now>>

PollTimerFires ==
    /\ pc \in {"pause", "select"} /\ Due
    /\ GoTo("refresh", First)
    /\ UNCHANGED <<phase, outcome, handler, wakeAt, records, world, now>>

-----------------------------------------------------------------------------
(* shutdown_all: the children in reverse order.                            *)

\* Mutated form of NoId: unready children are passed over.
NoIdIfUnready(r) == ~healthy[r]

\* child.id() is None once try_wait or wait has returned the exit status.
NoId(r) == proc[r] = "reaped"

StopSkips ==
    /\ pc = "stop" /\ cur >= First
    /\ NoId(Here)
    /\ GoTo("stop", cur - 1)
    /\ UNCHANGED <<phase, outcome, handler, wakeAt, records, world, now>>

StopKills ==
    /\ pc = "stop" /\ cur >= First
    /\ ~NoId(Here)
    /\ Sleep("reap", cur, 0)
    /\ UNCHANGED <<phase, outcome, handler, records, world, now>>

\* start_kill fails: the child is left as it is, and is not waited for.
StopRefused ==
    /\ pc = "stop" /\ cur >= First /\ "kill" \in Faults
    /\ ~NoId(Here)
    /\ GoTo("stop", cur - 1)
    /\ UNCHANGED <<phase, outcome, handler, wakeAt, records, world, now>>

StopReaps ==
    /\ pc = "reap"
    /\ Reap(Here)
    /\ GoTo("stop", cur - 1)
    /\ UNCHANGED <<phase, outcome, handler, wakeAt, records, now>>

StopDone ==
    /\ pc = "stop" /\ cur < First
    /\ pc' = "ended"
    /\ UNCHANGED <<cur, phase, outcome, handler, wakeAt, records, world, now>>

-----------------------------------------------------------------------------
(* The environment: time, the children, other processes, signals.          *)

Tick ==
    /\ Awaiting
    /\ now < wakeAt + MaxLag /\ now < MaxTime
    /\ now' = now + 1
    /\ UNCHANGED <<control, records, world>>

\* r's process ends; the bus drops the names of its connection.
Dies(r) ==
    /\ ~Finished /\ proc[r] = "running"
    /\ proc' = [proc EXCEPT ![r] = "exited"]
    /\ owner' = [owner EXCEPT ![r] = IF @ = "child" THEN "none" ELSE @]
    /\ UNCHANGED <<appeared, control, records, now>>

ChildExits(r) == r \in MayExit /\ Dies(r)

KilledChildDies == pc = "reap" /\ Dies(Here)

ChildTakesName(r) ==
    /\ ~Finished /\ proc[r] = "running" /\ owner[r] = "none"
    /\ owner' = [owner EXCEPT ![r] = "child"]
    /\ appeared' = [appeared EXCEPT ![r] = TRUE]
    /\ UNCHANGED <<proc, control, records, now>>

LeftoverEnds(r) ==
    /\ ~Finished /\ owner[r] = "other"
    /\ owner' = [owner EXCEPT ![r] = "none"]
    /\ UNCHANGED <<proc, appeared, control, records, now>>

\* SIGINT while select! is waiting: supervise returns Ok.
InterruptHeard ==
    /\ "SIGINT" \in Signals /\ pc = "select"
    /\ Finish("interrupt")
    /\ UNCHANGED <<phase, handler, wakeAt, records, world, now>>

\* SIGINT with the handler installed and nobody waiting for it, or ignored
\* from the start: nothing happens.
InterruptLost ==
    /\ "SIGINT" \in Signals /\ ~Finished /\ pc # "select"
    /\ handler \/ IntIgnored
    /\ UNCHANGED <<control, records, world, now>>

Killed ==
    /\ pc' = "killed"
    /\ UNCHANGED <<cur, phase, outcome, handler, wakeAt, records, world, now>>

\* SIGINT before the first select!: the default action ends the process.
InterruptKills ==
    /\ "SIGINT" \in Signals /\ ~Finished
    /\ ~handler /\ ~IntIgnored
    /\ Killed

\* No handler for SIGTERM is ever installed.
TerminateKills ==
    /\ "SIGTERM" \in Signals /\ ~Finished
    /\ Killed

-----------------------------------------------------------------------------
Refresh == RefreshSkips \/ RefreshCompositor \/ AskBus \/ BusReplies
           \/ BusIsSilent \/ BusFails \/ DeclareReady \/ RefreshDone

CheckExits == CheckPasses \/ ExitIsFatal \/ ExitWithoutBudget \/ ExitWithBudget
              \/ Respawn \/ RespawnFails \/ WaitFails \/ StartupTimesOut
              \/ PauseStartup \/ SuperviseAgain

Shutdown == StopSkips \/ StopKills \/ StopRefused \/ StopReaps \/ StopDone

Supervisor == Launch \/ LaunchFails \/ Refresh \/ CheckExits
              \/ PollTimerFires \/ Shutdown

Children ==
    \/ KilledChildDies
    \/ \E r \in Role : ChildExits(r)
    \/ \E r \in Named : ChildTakesName(r) \/ LeftoverEnds(r)

Signal == InterruptHeard \/ InterruptLost \/ InterruptKills \/ TerminateKills

Next == Supervisor \/ Tick \/ Children \/ Signal

Spec == Init /\ [][Next]_vars

\* The runtime goes on polling a task that can run, the clock advances, and
\* SIGKILL, once sent, ends a process.  Nothing is assumed of children, bus or signals.
Fairness == WF_vars(Supervisor) /\ WF_vars(Tick) /\ WF_vars(KilledChildDies)

FairSpec == Spec /\ Fairness

-----------------------------------------------------------------------------
(* Properties.                                                             *)

\* ARCHITECTURE.md "attempts bounded restarts": in any stretch of Window +
\* Backoff that ends with a restart of a role, the role was restarted at
\* most MaxRestarts times, however its exits interleave with those of the
\* other roles and with backoffs spent on them.
RestartBudget ==
    \A r \in Role : \A t \in history[r] :
        Cardinality({u \in history[r] : t - (Window + Backoff) <= u /\ u <= t})
            <= MaxRestarts

\* A healthy mark is about the current process: its bus name was owned at
\* some moment since that process was started, never only before.
HealthyMeansAppeared ==
    \A r \in Child \cap Named : healthy[r] => appeared[r]

\* main's exit path leaves nothing behind: once shutdown_all has returned no
\* child is running, whatever was being restarted when the session ended,
\* unless the system refuses to kill one.
NoSurvivors ==
    pc = "ended" /\ "kill" \notin Faults => \A r \in Role : proc[r] # "running"

\* Startup never outlasts its deadline by more than one poll interval and
\* one pass over the children, each of which can cost a silent bus query and
\* a backoff; every timer may be served MaxLag late.
StartupBound ==
    phase = "startup" /\ outcome = "none" =>
        now < StartupTimeout + Poll + MaxLag
              + Cardinality(Child \cap Named)
                    * (QueryTimeout + Backoff + 2 * MaxLag)

\* Startup is declared complete only when the name of every child has been
\* owned during the life of its current process, and the compositor has been
\* given its grace period (ARCHITECTURE.md, "Runtime Model", step 5).
ReadyOnlyWhenUp ==
    [][phase # phase' =>
         /\ \A r \in Child \cap Named : appeared[r]
         /\ \A r \in Child \ Named : now - startedAt[r] >= Grace]_vars

\* During startup a shell is replaced only if its name had appeared: two
\* shells in a row that never came up end the session.
ShellMustComeUp ==
    [][phase = "startup" /\ history'["shell"] # history["shell"]
         => appeared["shell"]]_vars

\* Startup is decided: it completes or the session ends.
StartupDecided == <>(phase = "supervising" \/ Finished)

\* The end of a session comes: once run() has returned, main returns.
ShutdownCompletes == outcome # "none" ~> Finished

\* An exit is noticed and acted upon (given time to do so before the clock
\* stops): the process is reaped or the session is over.
Reaction == Poll + Cardinality(Child) * (QueryTimeout + Backoff) + 1
ExitIsNoticed ==
    \A r \in Child :
        proc[r] = "exited" /\ now + Reaction <= MaxTime
            ~> proc[r] # "exited" \/ Finished

\* The implemented abstraction.
Limiter == INSTANCE RestartLimiter WITH
    Horizon <- MaxTime, Limit <- MaxRestarts, Span <- Window + Backoff, restarts <- history
LimiterSpec == Limiter!Spec
=============================================================================
