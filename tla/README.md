# SeatShell: verification project

SeatShell is a Wayland desktop shell written in Rust: a session process that
launches and supervises the desktop, a shell UI, a user agent and an admin
daemon that talk over D-Bus. This directory holds TLA+ models of the parts whose
correctness depends on the order in which things happen, the TLC
configurations that check them on small instances, and TLAPS proofs of their
most important properties for all values of the constants.

`tlc -config X.cfg M.tla` repeats a run and `tlapm MProofs.tla` a proof. Every
run, mutant, theorem, hazard and the source lines behind every definition are
listed in `PROJECT.json`.

## The system

| Part | State | Operations | Talks to |
|---|---|---|---|
| `seatshell-session` | children with pid, healthy flag, start instant, restart instants; startup or supervising | launch, poll readiness, reap and restart, time out, shut down | child processes, the bus (name ownership), signals |
| shell: notification store | list under a mutex, id and revision atomics | post, replace, dismiss, clear, snapshot | two D-Bus threads, the UI's callbacks and its 350 ms timer |
| shell: surfaces | seven visibility flags, a one-byte command slot | nine remote commands, UI callbacks, a 120 ms timer | the shell's D-Bus thread |
| shell: windows | stack of windows, minimized, maximized; running counts | open, focus, minimize, close, move, resize | launcher, taskbar, processes |
| shell: desktop shortcuts | saved positions, selection, focus | snap, nudge, arrange, marquee | state file |
| shell: launcher | filter, selection, favorites, recents | search, accept, pin, launch | user agent, state files |
| `seatshell-admin-daemon` | none between calls (sessions and users are discovered anew) | lock, logout, restart, power off, message, lists | logind, polkit, audit file, notification service |
| `seatshell-user-agent` | none between calls | launch a command or desktop file, list running apps | processes |
| configuration | none; read once at each start | merge of the system and the user layer | files |

What is hard in each, and what makes it correct:

- **Session supervisor.** One task polls children that exit, come up and
  vanish at any moment, sleeps inside its own loops, and may be interrupted
  anywhere. Correct means: crash loops are bounded, readiness is about the
  process that lives now, startup is decided in bounded time, exits are noticed,
  and nothing is left running when the session ends.
- **Notification store.** Three threads change one list, two of its fields
  are atomics outside the mutex, and the display polls. Correct means: ids are
  unique, no update is lost to the display, each call is atomic.
- **Surfaces.** Remote commands and clicks interleave through a slot that keeps
  only the last command. Correct means: popups exclude each other, full pages
  exclude each other, a command is served.
- **Windows, shortcuts, launcher.** Long sequences of legal operations on
  related structures; counts, selections and positions must stay consistent
  with the lists they index, and shortcuts must not overlap.
- **Admin daemon.** Each handler awaits several services, and one thread runs
  all handlers and the commands they start; what a handler has read may have
  changed when it acts. Correct means: an action is authorized on the session it
  is applied to, and leaves an audit line.
- **Composition.** The shell's UI thread blocks on the admin daemon, which
  calls the shell's notification service. Correct means: no cycle of waiting.

The hazards behind this list, each at its line with the properties that would
catch it, are under `hazards` in `PROJECT.json`.

## The plan

1. `SessionSupervisor`, with the abstract `RestartLimiter` it implements, and
   `SessionSupervisorProofs`, `RestartLimiterProofs`; `SmokeScript`, the script that
   starts a session, waits for it and ends it: done.
2. `NotificationStore`, with the abstract `NotificationCenter` it implements, and
   `NotificationStoreProofs`: done.
3. `ShellSurfaces` (flags, command slot, timer, callbacks, start and end) on top of
   `ConfigLayers` (the two configuration files), `ShellSurfacesMC` and
   `ShellSurfacesProofs`: done.
4. `AdminDaemon` (concurrent calls that take turns on one thread, against sessions
   that come and go): done; its proofs are the first half of `SessionBusProofs`.
5. `SessionBus` (UI thread, admin daemon, notification service and their waiting)
   and `SessionBusProofs`: done.
6. `ShellApps` (launcher, lists, windows and taskbar in one module, because every
   handler changes one of them and redraws some of the others), `ShellAppsMC` and
   `ShellAppsProofs`: done.
7. `DesktopShortcuts`, `DesktopShortcutsMC` and `DesktopShortcutsProofs`: done. To do:
   four shortcuts, for which the arrow keys may not reach all of them.

`Lists` is what sorting and filtering return, used by 2, 6 and 7, with its facts in
`ListsProofs`. Every safety and action property of a run is proved; to do: abstract
specifications of the taskbar and of the desktop that say who may change them, shown
to be implemented.

## Session supervisor

`SessionSupervisor.tla` models `seatshell-session`. `pc` says where the task is
and `cur` which child its loop has reached (`launch` in `new`, `refresh` and
`query` in `refresh_readiness`, `check` and `backoff` in `check_for_exits`,
`pause` and `select` at the end of the two loops, `stop` and `reap` in
`shutdown_all`). `healthy`, `startedAt` and `attempts` are the fields of
`ManagedChild`; `proc` and `owner` are the processes and the bus names, changed
by the children themselves. The clock `now` advances only while the task awaits
something (`Tick`), because the task's own steps are short against its timers.
Each iteration of a loop over the children is one action, since a child may
exit or take its name between any two of them.

Abstractions: the deque of restart instants is the set of those instants (they
are strictly increasing, because a backoff lies between any two); logging, path
resolution and the dry-run mode are left out.

The environment: a role in `MayExit` may exit at any moment, a running child may
take its name at any moment, another process may hold a name at first
(`Leftover`), a bus query may be answered, fail or stay silent, signals may
arrive at any moment, operations in `Faults` may fail, `start_kill` among them
(`StopRefused`).

`RestartLimiter.tla` is the promise behind "attempts bounded restarts"
(`docs/ARCHITECTURE.md`): a role is restarted only if fewer than `Limit` of its
restarts lie within the last `Span`. The supervisor implements it with `Span =
Window + Backoff`, not `Window`: the code counts the restarts of the window
before the exit and restarts one backoff later. That no `Span` then holds more than
`Limit` restarts (`Bounded`) is proved.

| Run | Shows | Bounds |
|---|---|---|
| `supervision` | `TypeOK`, `RestartBudget`, `LimiterSpec` (refinement), `StartupDecided`, `ShutdownCompletes`, `ExitIsNoticed` | two roles that exit freely, 11 instants: the window of 3 slides past the first restart, so the budget is used up, recovers, and is used again; `start_kill` may fail |
| `startup` | `HealthyMeansAppeared`, `StartupBound`, `ReadyOnlyWhenUp`, `ShellMustComeUp`, `NoSurvivors` | with the compositor, one name held by another process, silent and failing queries, two roles that exit, both signals and every fault but a failing `start_kill` (with which `NoSurvivors` says nothing) at every step, timers served one unit late; 17 instants, more than `StartupBound` allows |
| `smoke_shutdown` | violation of `CleanShutdown` | one unit is 250 ms, and the durations are those of the code and the script, to the next unit |

Fairness (`FairSpec`): the runtime goes on polling a task that can run
(`WF(Supervisor)`), the clock advances (`WF(Tick)`) and SIGKILL, once sent, ends a
process (`WF(KilledChildDies)`). Nothing is assumed of children, the bus or signals.
Clocks stop at `MaxTime`; `ExitIsNoticed` therefore speaks only of exits early
enough for the supervisor's reaction, which it bounds.

`SmokeScript.tla` extends the supervisor with `scripts/smoke-session-linux.sh`, which
starts it with `&` from a non-interactive shell, so with SIGINT ignored (`IntIgnored`).
The script sees the three names one after the other, sends SIGINT, and sends SIGTERM if
the process still runs 2 s later (`Patience`). Giving up on a name, and the SIGKILL 2 s
after SIGTERM, are left out: the first is not about a session that came up, the second
is never reached, because SIGTERM ends the process.

**Finding.** `docs/TESTING.md:103-105` says the session smoke waits for the three
bus names and "then shuts the session down cleanly". The supervisor installs its
SIGINT handler on the first poll of `ctrl_c()` in `supervise`, one poll interval and one
pass after the names have appeared at the latest. The run `smoke_shutdown` shows the
script's SIGINT in that gap: it is lost, the supervisor goes on, and SIGTERM, for which
there is no handler, ends it without `shutdown_all` while the three children keep
running. An interrupt from a terminal, where SIGINT is not ignored, ends the supervisor
in the same gap at once (`InterruptKills`, in the run `startup`).

## Notification store

`NotificationStore.tla` models the store and its three threads. `pc[t]` is how far
thread `t` is: `posting` lies between `fetch_add` on the id counter and the
mutex, `committing` between the change of the list and the bump of the
revision, under the mutex; `refreshing` and `showing` are the steps of the
timer between loading the revision, copying the list, and setting the display.
`IdMax` is `u32::MAX`; the counter wraps as `fetch_add` does and the id
saturates as `saturating_add` does. The user dismisses what is displayed,
which may be stale, and D-Bus clients close or replace any id.

`NotificationCenter.tla` is the promise: calls are atomic, ids are fresh, the
display moves from one real list to a later one. A call takes effect when it
changes `items`; the display changes when the timer takes its snapshot (between
`Snapshot` and `Show` the abstract display is already the `copy`).
`NotificationList.tla` holds the operations on the list that both use.

| Run | Shows | Bounds |
|---|---|---|
| `notifications` | `TypeOK`, `IdsDistinct`, `ZeroIsNeverAnId`, `ShownIsCurrent`, `CenterSpec` (refinement), `DisplayConverges` | two messages, so a replacement is visible; ids 1..3 and 4 posts, so three are on their way at once, the last id saturates and the counter goes round (what is issued after that is not in the instance); a list of 2, so it overflows |

`CenterSpec` promises fresh ids until the counter has gone round (`posts <= IdMax`):
after 2^32 posts the code starts over, and an id may be given to two entries.

Fairness: a thread finishes the operation it began (`WF(Continue(t))`) and the
timer goes on (`WF(Timer)`). No fairness of the mutex is needed: posts are
bounded, so it is free in the end.

## Shell surfaces

`ShellSurfaces.tla` models which surfaces are open: `open` is the set of the
`show-...` properties of `AppWindow` that are true, `slot` the byte
`remote_commands`. `Send` stands for the nine methods of `org.seatshell.Shell`
that write the slot (`PostNotification` belongs to the store), `RemoteTimer` for
one firing of the 120 ms timer that finds a command. The other actions are the
callbacks of Slint and of `main.rs`, each enabled while the surface that offers it
is visible: a page is hidden, but stays open, under the settings. What a callback
does besides (launching, filtering, notifying) belongs to other components.
`served` and `newest` are history variables.

The shell ends at any moment (`End`) and is started again (`Start`): open surfaces and
the slot are gone, nothing of either is saved. A shell serves the bus or, if it cannot
have its name there, runs alone. A view on the command line opens a surface only where
the session bus could not be reached; otherwise it is a command to the running shell.
At each start the two configuration files may hold anything in `Files`, and whether the
overview and the switcher are offered follows from them.

`ConfigLayers.tla` models `seatshell-config`: a file is a table of sections, `Merged` is
`merge_value`, `Valid` the deserialization of the result, `Setting` an option with its
default. If the merged document is refused, or a file cannot be parsed, `load_config`
fails and the shell does not start.

| Run | Shows | Bounds |
|---|---|---|
| `surfaces` | `TypeOK`, `OneOfEach`, `NewestIsServed`, `CommandsAreServed` | the state space is finite; the two sections the surfaces depend on, in every pair of files that leave a section or an option out, set it, set it to something else, or cannot be parsed |

Fairness: the event loop goes on firing the timer (`WF(RemoteTimer)`). Nothing is
assumed of clicks, of the bus or of starts. A command may be overwritten before it is
served, or die with the shell that took it; `CommandsAreServed` speaks of the others. The
timer cannot fire while the UI thread waits for the admin daemon; when that ends is the
subject of `SessionBus`.

A remote command opens the overview even where the configuration disables it
(`After` has no such guard, as in `main.rs`); no document says it should not.

## Shell apps

`ShellApps.tla` models the launcher, the pinned and recent apps, the windows and the
taskbar. All callbacks run on the UI thread, one after the other, so each is one
action. What may disagree are the copies: `matches` and `selected` against
`screen.launcher`, `windows` against `screen.desk`, `favorites` and `recents` against
their files (`saved`) and the lists drawn, and `running`, the counts read once at the
start, against the processes there are (`procs`). Each handler replaces some of the
lists on the screen, from counts of its own choice: launching, minimizing and closing
use the counts with the windows and the limit 5 (`PanelLimit`), the arrow keys of the
launcher and pinning the counts alone and the limit 8 (`WideLimit`, in `Refreshed`).
`Taskbar` keeps a detail of the code: the limit is met only exactly, so it does not stop
the loop where the pinned apps fill the taskbar alone.

The environment: apps start and exit on their own (`AppStarts`, `AppExits`), also by way
of the user agent; what cannot be launched leaves a window all the same (`Spawned`);
the shell ends between two handlers and is started again (`Restart`), by when other apps
may be installed, and the processes may be told by the user agent, by `ps`, or by
neither. `launched` and `since` are history variables: who was launched after whom.

Left out: the place and the size of windows, featured and active apps (the active ones
are passed to the desktop, which does not draw them), names (apps are sorted by number).
Writes of the state files are taken to succeed, and reads of files once written.

| Run | Shows | Bounds |
|---|---|---|
| `shell_apps` | `TypeOK`, `ScreenShowsStack`, `EnterLaunchesHighlighted`, `TaskbarIsPinnedThenRunning`, `RecentsAreTheLatest`, `ListsSurvive` | three apps, one of them the fallback, two with processes; two windows; lists of 2 and taskbars of 1 and 2, so that each overflows; at each start the fallback alone or all the other apps installed; the empty query and one that leaves some of the apps or none |
| `shell_presence` | violation of `PresenceFollows` | one app that may run |

Fairness (`FairSpec`, for `PresenceFollows` only): the event loop fires a timer that is
there (`WF(RunningTimer)`).

**Finding.** `docs/UI_PROBLEM_MAP.md:34`: "desktop and dock presence come from discovered
running processes". `running_timer`, which should read the processes every 4 s, is a
local of the block that ends at `main.rs:575`; Slint stops a timer that is dropped, so
this one never fires (the other timers live as long as `main`). The run
`shell_presence` shows an app that starts after the shell and is never shown as running.
`RunningTimerIsAlive` is this fact; with `TRUE` in its place the same run finds no error.

`TaskbarIsPinnedThenRunning` does not say that every app with a window is on the taskbar,
for it need not be: an arrow key in the launcher, or pinning an app, fills the taskbar
again without the windows, until the next launch or click on a window.

## Admin daemon

`AdminDaemon.tla` models the five methods that act. `pc[c]` is how far call `c` is:
`identify` awaits the bus, `discover` logind, `decide` reads the group and makes the
plan, `reauth` waits for `pkcheck`, `act` runs `loginctl`, `systemctl` or the
notification, `audit` writes the line, `notify` announces a lock. `grant[c]` is the
ground on which the call was authorized, `AuthorizedAction.reauthenticated` refined.
Each stage is an action, since sessions, the group and the daemon itself may change or
end there. The blank message is refused first, and a disabled action before
anyone is asked. If logind fails or has no session the daemon's own stands in
(`Discovered`). Users are reduced to whether a session is the daemon user's
(`Mine`) and whether a caller is (`request[c].caller`): the code compares no more.
`Nowhere` is a session id that nobody has.

zbus is built without its tokio feature (`Cargo.toml`), so that one executor thread of its
own runs the tasks of all calls. They take turns only where they await something: the
bus, logind, the notification service. From the list of sessions to the audit line a
call does not (`Blocking`; only a message awaits its delivery), for `pkcheck`,
`loginctl` and `systemctl` are run with `std::process::Command::status`. Meanwhile no
other call goes on and none is received (`At`).

| Run | Shows | Bounds |
|---|---|---|
| `admin` | `TypeOK`, `OnlyAuthorized`, `AuditTrail`, `CallsAreAnswered` | two calls with any of the five actions on the own, another user's and no session, one action disabled |
| `audit_order` | violation of `LoggedBeforeControl` | one call |

Fairness: the executor polls a call that is ready, and commands end (`WF(Progress(c))`).
`Progress(c)` is not enabled while another call holds the thread; as there are finitely
many calls, each of finitely many steps, that delays `c` but does not starve it.
Nothing is assumed of `pkcheck`, which waits for a user who may never answer:
`CallsAreAnswered` says that this, for whichever call, is all that can keep a call waiting.

**Finding.** `docs/SECURITY.md:9`: "admin actions must be logged before they control
another user session". All five methods write the audit line after the action. The
run `audit_order` shows a lock of another user's session with no line yet; if the
daemon ends there, or the log cannot be written, there never is one. `AuditTrail`
says what holds instead.

## Shell and daemon over the bus

`SessionBus.tla` extends `AdminDaemon` with the shell's UI thread, the thread that
serves `org.freedesktop.Notifications` and the mutex of the notification list. A
click in the power menu blocks the UI thread (`UiRequests`) until the daemon
answers; `lock_session` and `send_message` call the notification thread back (`Asks`,
`NotifierTakes` to `NotifierPosts`, `GoesOn`), which needs the mutex. Other clients
call the daemon at the same time. The third thread of the store, that of
`org.seatshell.Shell`, only holds the mutex for moments and waits for nobody. The shell
asks for its own session, or for one the daemon does not know: without
`XDG_SESSION_ID` the shell's `current_session_id` says `local` (`main.rs:2350`), the
daemon's `local-<uid>` (`main.rs:837`).

| Run | Shows | Bounds |
|---|---|---|
| `session_bus` | `BusTypeOK`, `LoggedMessagesArrived`, `UiComesBack` | two calls on the own, another user's and no session, of the two actions that call back; what is disabled is answered at once and does not matter here |

Fairness: each thread goes on with what it can do (`WF(UiStep)`, `WF(NotifierStep)`,
`WF(DaemonStep(c))`, the daemon's one call at a time). While the UI thread waits it takes
no mutex, so weak fairness of the notification thread is enough.

While `pkcheck` waits for the user, be it for a call of another client, the daemon's
thread waits with it, and so does a UI thread that has called the daemon: the window
is frozen until polkit answers. `UiComesBack` promises the return of the UI thread but for
this. No document says that the shell stays responsive meanwhile.

## Desktop shortcuts

`DesktopShortcuts.tla` models the shortcuts on the desktop. All callbacks run on the UI
thread, one after the other, so each is one action; what may disagree are the
positions the user asked for (`stored`, and `disk` for `desktop-shortcuts.toml`), those
computed from them for some size of the lane (`shown`, for the size `laidOutFor`), and
the size the lane has now. `Layout` is `effective_desktop_shortcut_positions`: one
shortcut after the other gets the free slot nearest to where it should be. `Refresh` is
how every callback ends, `OtherCallback` a callback of another component that ends so
too. `Drop` is the end of a drag: `desktop.slint` calls `moved` and then
`selection-requested` in the same event. `Resize` changes the lane and tells nobody.
`Restart` reads the file again. It lays the shortcuts out, as the first start does
(`main.rs:118-124`), before the panel's height, the requested size and full screen are
known: for the default size of the window, `StartLane`, whatever the lane will be. The
first callback lays them out for the lane there is. Which of two shortcuts as near an arrow key goes to is left
open, as the iteration order of the hash map leaves it.

Left out: running marks and icons, and failing writes of the file. A file that cannot
be read counts as an empty one, which is among the initial states.

| Run | Shows | Bounds |
|---|---|---|
| `desktop` | `TypeOK`, `CellsAreApart`, `EnterLaunchesSelected`, `OthersStay`, `MoveTogether`, `LayoutSurvives` | three apps, the last of which may become a favorite and so the first; the grid constants of `main.rs`; lanes of 2 x 2 cells, of 3 cells in a row the last of which is off the grid, and of 2 cells; saved positions absent, on a cell, off the grid and far outside, in every combination; the default size is one of the three |
| `desktop_resize` | violation of `DrawnApart` | a lane of 2 x 2 cells, which is the default size, and one of 3 x 2 |

The lanes are the cases of the grid: `(120, 132)` lies on it in both axes, `(168, 12)`
has a last column narrower than a step, and the two cells of `(120, 12)` are one too few
for three shortcuts.
A lane of size 0, for which `Bounds` takes a fallback, is in the module but not in the
instances.

**Finding.** `docs/UI_PROBLEM_MAP.md:13-14`: shortcut positions are "dynamically
bounded to the live desktop lane" and shortcuts "snap to collision-free grid cells".
The first layout is for the default size of the window, and no callback computes it
again when the lane has, or later gets, another size; `desktop.slint:1158` only cuts each
coordinate off at the edge. The run `desktop_resize` shows two shortcuts of different cells
drawn at one place, the lane having room for all, when a window is made narrower after a
callback has used its last column; a window that starts narrower than the default one
shows the same. It stays so until some callback refreshes the model.

For the same reason a restarted shell may at first draw a shortcut elsewhere than where
it was left, in full screen for instance. `LayoutSurvives` therefore speaks of what the
shell has read: laid out for the size the lane had, it is the layout that was on the
screen.

## What is proved

All theorems hold for every value of the constants allowed by the named
assumptions (`LimiterConstants`, `SupervisorAssumption`, `ListAssumption`,
`StoreAssumption`, `ConfigAssumption`, `FilesAssumption`, `AppsAssumption`,
`AdminAssumption`, `DesktopAssumption`), which say only that durations, counts and
sizes are natural numbers, which of them are positive, that files hold documents and
defaults fit their options, that no file of an app has the id of a fallback and none is
featured twice, that the two lengths of the taskbar are in the order of the code's (5
and 8), that the daemon's own session belongs to its user and that `Nowhere` is no session. Every safety invariant
and every action property that a passing run checks is stated by one of them.

- `ListsProofs`: a list filtered by `Picked` holds the entries picked, in their order and
  none twice (`PickedProperties`, `PickedRange`, `PickedDistinct`), and `Ordered` sorts a
  finite set by any strict total order (`OrderedProperties`). The library's induction
  theorems take an operator as a parameter; its theorems on well-founded relations take
  sets, and from them follow the least element of a set of naturals, induction up to a
  bound and the existence of a function defined by primitive recursion, which is the
  induction all the proofs about lists and layouts use. `Lists` was written for this:
  `SelectSeq` and `SortSeq` return the same lists, but nothing can be proved of them.

- `RestartLimiterProofs`: `LimiterTypeCorrect` and `LimiterBounded`. A window that
  ends with a restart of the role consists of what `Granted` counted and of the
  restart itself.
- `SessionSupervisorProofs`:
  - `TypeCorrect`; the invariant `PositionOK` adds where `cur` may stand for each `pc`,
    without which `LaunchOrder[cur]` has no type.
  - `ImplementsLimiter`, from `BudgetInv`: `attempts` are the restarts of `history`
    within the window, none lies in the future, and during a backoff the wake-up
    time is one backoff after the count. `RestartsAreBounded` follows by
    `LimiterBounded` through the refinement.
  - `HealthIsCurrent`, `ReadyIsEarned` and `ShellIsGivenOneChance`, from `ReadyInv`: the
    healthy flag, the name, the start instant and the process are those of one
    and the same incarnation of the child.
  - `NothingSurvivesShutdown`, from `StopInv`: in shutdown the roles after `cur`
    have been reaped, unless the system refuses to kill one, and roles never launched
    never run.
  - `StartupIsBounded`, from `PassInv`: a pass over the children starts within the
    deadline, one poll interval and a lag; the clock is then charged one silent query
    for each named child the refresh has passed and one backoff for each named child
    the check has passed. The compositor costs nothing, since its exit is fatal.
- `NotificationStoreProofs`:
  - `NoUpdateIsLost`, from `LockInv` (the holder of the mutex is the thread that is
    committing) and `FreshInv` (`seen <= revision`; while the two are equal and the
    mutex is free, the copy, or else the display, is the list).
  - `ZeroIsNeverIssued`, from `IdRange`.
  - `ImplementsCenter`, with `IdUnique`: ids of posts under way differ from each other
    and from all ids issued, as long as no more than `IdMax` posts have been made. Nothing
    is assumed of the number of posts: `CenterSpec` promises nothing after that.
  - `IdsAreDistinct` and `StoreTypeCorrect`, from `IdUnique` with `ListInv` and
    `DistinctInv`: the ids of the list were issued, so a new one is not among them, and
    `Inserted`, `Replaced` and `Without` keep distinct ids distinct and the list short.
- `ShellSurfacesProofs`: `SurfacesExclude` (`OneOfEach` is inductive; each handler
  replaces the open surfaces, closes some, or puts one popup where none is) and
  `NoCommandIsLost` and `SurfacesTypeCorrect`, for all configuration files and across
  starts of the shell. Of the files themselves: `UserLayersOverSystem` is the layering
  `README.md:170` promises, option by option; `GoodFilesMergeWell` and `SettingsFit` say
  that two valid files give a valid configuration. They speak of operators and need no
  invariant.
- `ShellAppsProofs`:
  - `EnterIsHonest`, from `SearchInv`: the selection is listed, or there is nothing to
    select; what the launcher shows as selected is the selection or nothing, and nothing
    only while the first app is selected.
  - `StackIsShown`, from `StackInv`: one window for an app, and the desk on the screen is that
    of the stack, so the focus follows from what `Desk` returns.
  - `RecentsAreLatest`, from `RecentInv` (what was launched since an app of the list is what
    stands before it, and each app that is not listed has a full list launched since), and
    from `FileInv` (files and lists agree between two handlers), which also gives
    `ListsAreKept`.
  - `TypeCorrect`, from these and `TypeInv`, which adds the pinned apps and the counts.
  - `TaskbarIsHonest`, from `PanelInv`: the taskbar on the screen is `Taskbar` of the pinned
    apps there are now and of counts, of either length, that are positive only for apps
    with a window or a process at the start. What `Taskbar` returns then gives the theorem;
    `PanelLimit <= WideLimit` is needed, for a shorter list of the other handlers would
    cut off pinned apps.
- `DesktopShortcutsProofs`, for every grid, every set of lanes, every saved position and any
  number of shortcuts:
  - The layout is characterized by `Greedy`: each shortcut is settled next to where it
    should be with the cells of the earlier ones taken (`LayoutIsGreedy`), and only one
    assignment does that (`GreedyIsUnique`). So a layout with cells enough puts no two
    shortcuts into one cell (`LayoutIsInjective`), and one computed from its own cells is the
    same (`LayoutIsStable`). Where there are as many shortcuts as cells, pigeonholing gives
    the free cell, by the cardinality theorems of the library.
  - `DesktopInvariant`: what is shown is the layout of what is stored, and the file holds
    what is stored. `ShortcutsHaveTheirOwnCells`, `EnterLaunchesAHighlighted`, `DesktopTypeCorrect` and
    `LayoutSurvivesRestart` follow from it.
  - `OthersStayWhereTheyAre` and `SelectedMoveTogether`: a drag or an arrow key stores a layout
    without overlaps, which by `LayoutIsStable` is the one shown next. They speak of steps
    between two models for the size the lane has (`Steady`), which is not 0: in a lane of
    size 0 the code computes what it shows for the fallback size and what it stores for the
    size 0. So they say nothing of a restart, unless the lane has the default size.
- `SessionBusProofs`, of the daemon alone: `ActionsAreAuthorized` and `AuditLogIsTrue`, from
  `AuthInv`: what each stage of a call has established, and that an action once carried
  out keeps its ground; `DaemonTypeCorrect` from the same. Of the composition:
  - `BusImplementsDaemon` (every step of the composition is a step of the daemon or a
    stutter), hence all of the above holds in it.
  - `LoggedMeansArrived` from `DeliveryInv`.
  - `BusTypeCorrect` and `WaitingHoldsNothing`, from `ThreadInv` (the mutex is held by the
    thread that works on the list). The second is why the circle of calls does not
    deadlock: while the UI thread waits for the daemon, the mutex is free or held by the
    thread that the daemon waits for. That the UI thread then does go on, unless `pkcheck`
    holds the daemon (`UiComesBack`), is liveness.

Only model-checked: the liveness properties `StartupDecided`, `ShutdownCompletes`,
`ExitIsNoticed`, `DisplayConverges`, `CommandsAreServed`, `CallsAreAnswered` and
`UiComesBack` (TLAPS has no fairness or ENABLED reasoning here), and the four
violations.

## What is not modelled, and why

- Status texts, network, power and volume controls, Slint layout: sequential text
  processing, host commands and drawing, without state that two actors share.
- The parsing of `.desktop` files: of app discovery `ShellApps` has what it returns.
- The user agent's check of the caller and `GetSessionInfo`: they change no state. What the
  agent launches, and the list of processes it returns, are in `ShellApps`.
- Protocol constants and shared types: they appear as the constants of the models.
- Scripts and installation, but for `smoke-session-linux.sh` (`SmokeScript`).
- A child that cannot be launched ends `new` before `shutdown_all`, and SIGTERM is
  never handled: both are in the model (`aborted`, `TerminateKills`) and no
  property is stated about what they leave behind, since no document promises any.
