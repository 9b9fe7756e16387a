------------------------------ MODULE ShellApps ------------------------------
(***************************************************************************)
(* The apps of the shell: the catalog found at the start, the launcher     *)
(* with its search and its selection, pinned and recent apps with their    *)
(* files, the stack of windows, and the taskbar that mixes what is pinned  *)
(* with what runs.                                                         *)
(*                                                                         *)
(* Every handler runs on the UI thread, changes the state it is about and  *)
(* then replaces some of the lists on the screen; which ones, each handler *)
(* decides for itself.  The processes of the apps come and go on their     *)
(* own.  Apps are numbered in the order discover_apps() lists them, and    *)
(* names are taken to sort the same way; the place and the size of a       *)
(* window are left out.                                                    *)
(***************************************************************************)
EXTENDS Lists, SequencesExt

CONSTANTS
    AppCount,      \* apps that may ever be installed
    Fallback,      \* fallback_apps(): no file has the id of one
    Found,         \* what desktop_dirs() may hold: sets of apps
    Queries,       \* the sets of apps that some query matches
    Tracked,       \* apps whose processes carry their name in the list of ps
    PanelLimit,    \* 5: entries of the taskbar
    WideLimit,     \* 8: the same, in some of the handlers
    RecentLimit,   \* 6: recent apps on the screen
    Kept,          \* 12: pinned and recent apps kept
    MaxProcs,      \* bound: processes of one app
    MaxWindows     \* bound: windows open at once

App == 1..AppCount
None == 0
Step == {-1, 1}
Flag == {"minimized", "maximized"}
Window == [app : App, flags : SUBSET Flag]

ASSUME AppsAssumption ==
    /\ AppCount \in Nat
    /\ Fallback \subseteq App /\ Fallback # {}
    /\ Found \subseteq SUBSET (App \ Fallback)
    /\ Queries \subseteq SUBSET App
    /\ Tracked \subseteq App
    /\ PanelLimit \in Nat \ {0} /\ WideLimit \in Nat /\ PanelLimit <= WideLimit
    /\ RecentLimit \in Nat \ {0} /\ Kept \in Nat \ {0}
    /\ MaxProcs \in Nat /\ MaxWindows \in Nat

VARIABLES
    catalog,     \* all_apps
    windows,     \* shell_windows: the last one is on top
    procs,       \* the processes of each tracked app
    running,     \* running_counts
    favorites,   \* favorite_app_ids
    recents,     \* recent_app_ids
    saved,       \* favorite-apps.txt and recent-apps.txt
    matches,     \* filtered_apps
    selected,    \* selected_app_id
    screen,      \* the lists the UI has been given
    launched,    \* history variable: the apps ever launched
    since        \* history variable: since[a]: launched since a last was

lists   == <<favorites, recents, saved>>
search  == <<matches, selected>>
history == <<launched, since>>
vars    == <<catalog, windows, procs, running, lists, search, screen, history>>

-----------------------------------------------------------------------------
(* Helpers.                                                                *)

\* Mutated form of the next definition: one too many.
FirstAndOneMore(s, limit) == SubSeq(s, 1, IF Len(s) <= limit THEN Len(s) ELSE limit + 1)
FirstOf(s, limit) == SubSeq(s, 1, IF Len(s) <= limit THEN Len(s) ELSE limit)
HeadOf(s) == IF s = <<>> THEN None ELSE s[1]

\* The apps of a set in the order of discover_apps(): there is one such list.
Listings(apps) ==
    {s \in [1..Cardinality(apps) -> apps] :
        \A i, j \in DOMAIN s : i < j => s[i] < s[j]}

\* The ids that name an app, in the order given.
Known(apps, ids) == Picked(ids, {i \in DOMAIN ids : ids[i] \in apps})

Index(s, a) == CHOOSE i \in DOMAIN s : s[i] = a

\* retain(): the lists hold an app at most once.
Without(s, a) == IF Contains(s, a) THEN RemoveAt(s, Index(s, a)) ELSE s

\* Mutated form of the next definition: inserted where it was not removed.
RecordedAgain(ids, a) == FirstOf(IF Contains(ids, a) THEN ids ELSE <<a>> \o ids, Kept)
\* record_recent_launch: moved to the front.
Recorded(ids, a) == FirstOf(<<a>> \o Without(ids, a), Kept)

\* toggle_favorite_app_id
Toggled(ids, a) ==
    FirstOf(IF Contains(ids, a) THEN Without(ids, a) ELSE <<a>> \o ids, Kept)

\* Entries that are not to be displayed are passed over, the same entry in
\* several directories counts once.
Discovered(found) == IF found = {} THEN Fallback ELSE found

-----------------------------------------------------------------------------
(* Windows.                                                                *)

AppsOf(stack) == {stack[i].app : i \in DOMAIN stack}
IsOpen(a) == a \in AppsOf(windows)
At(a) == CHOOSE i \in DOMAIN windows : windows[i].app = a
Flags(a) == windows[At(a)].flags
IsShown(w) == "minimized" \notin w.flags

\* The window of a goes on top.
Raised(a, flags) ==
    Append(RemoveAt(windows, At(a)), [app |-> a, flags |-> flags])

\* Mutated form of the next definition: a window minimized is opened anew.
OpenedTwice(a) ==
    IF \E i \in DOMAIN windows : windows[i].app = a /\ IsShown(windows[i])
    THEN Raised(a, Flags(a) \ {"minimized"})
    ELSE Append(windows, [app |-> a, flags |-> {}])
\* open_shell_window
Opened(a) ==
    IF IsOpen(a) THEN Raised(a, Flags(a) \ {"minimized"})
    ELSE Append(windows, [app |-> a, flags |-> {}])

\* The windows as drawn: the topmost that is not minimized has the focus.
Desk(stack) ==
    [stack |-> stack,
     focus |-> {stack[i].app : i \in {j \in DOMAIN stack :
                   /\ IsShown(stack[j])
                   /\ \A k \in DOMAIN stack : k > j => ~IsShown(stack[k])}}]

-----------------------------------------------------------------------------
(* What runs, and the lists on the screen.                                 *)

NoProcs == [a \in Tracked |-> 0]

\* running_counts_for_apps
Counts(ps) == [a \in App |-> IF a \in Tracked THEN ps[a] ELSE 0]

\* visual_running_counts: a window counts for a process.
Visual(ps, stack) ==
    [a \in App |-> IF a \in AppsOf(stack) /\ Counts(ps)[a] = 0 THEN 1
                   ELSE Counts(ps)[a]]

\* The running apps, the one with most processes first.
Active(apps, counts) == {a \in apps : counts[a] > 0}
Busier(counts, b, a) ==
    counts[b] > counts[a] \/ (counts[b] = counts[a] /\ b < a)
ByCount(apps, counts) ==
    LET active == Active(apps, counts)
    IN  Ordered(active, [a \in active |-> {b \in active : Busier(counts, b, a)}])

\* taskbar_apps: the limit stops the loop only when it is met exactly.
Taskbar(apps, favs, counts, limit) ==
    LET pinned == FirstOf(Known(apps, favs), limit)
        sorted == ByCount(apps, counts)
        others == Picked(sorted, {i \in DOMAIN sorted :
                                     ~Contains(pinned, sorted[i])})
        both   == IF Len(pinned) = limit THEN pinned \o others
                  ELSE FirstOf(pinned \o others, limit)
    IN [apps |-> both, running |-> {a \in ToSet(both) : counts[a] > 0}]

RecentApps(apps, recs) == FirstOf(Known(apps, recs), RecentLimit)

Launcher(apps, highlighted, favs) ==
    [apps |-> apps, selected |-> highlighted,
     stars |-> ToSet(apps) \cap ToSet(favs)]

\* What main() puts on the screen before the event loop runs.
FirstScreen(apps, listed, favs, recs, counts) ==
    [launcher |-> Launcher(listed, None, favs),
     recent   |-> RecentApps(apps, recs),
     panel    |-> Taskbar(apps, favs, counts, PanelLimit),
     desk     |-> Desk(<<>>)]

Init ==
    /\ \E found \in Found : catalog = Discovered(found)
    /\ windows = <<>>
    /\ procs = NoProcs /\ running = NoProcs
    /\ favorites = <<>> /\ recents = <<>>
    /\ saved = [favorites |-> <<>>, recents |-> <<>>]
    /\ matches \in Listings(catalog) /\ selected = HeadOf(matches)
    /\ screen = FirstScreen(catalog, matches, favorites, recents, Counts(running))
    /\ launched = {} /\ since = [a \in App |-> {}]

-----------------------------------------------------------------------------
(* The launcher.                                                           *)

\* Mutated form of the next definition: the selection stays where it was.
SearchKeepingSelection(query) ==
    /\ matches' \in Listings(catalog \cap query)
    /\ screen' = [screen EXCEPT !.launcher =
                    Launcher(matches', selected, favorites)]
    /\ UNCHANGED <<catalog, windows, procs, running, lists, selected, history>>
Search(query) ==
    /\ matches' \in Listings(catalog \cap query)
    /\ selected' = HeadOf(matches')
    /\ screen' = [screen EXCEPT !.launcher =
                    Launcher(matches', selected', favorites)]
    /\ UNCHANGED <<catalog, windows, procs, running, lists, history>>

\* selected_app: what Enter launches.
Chosen == IF Contains(matches, selected) THEN selected ELSE HeadOf(matches)

Clamped(i) == IF i < 1 THEN 1 ELSE IF i > Len(matches) THEN Len(matches) ELSE i

\* move_selected_app_id
Moved(step) ==
    IF matches = <<>> THEN None
    ELSE matches[Clamped(step + IF Contains(matches, selected)
                                THEN Index(matches, selected) ELSE 1)]

\* The launcher, the recent apps and the taskbar, as two of the handlers
\* replace them: from the running counts alone, and with another limit.
Refreshed(highlighted, favs) ==
    [screen EXCEPT
       !.launcher = Launcher(matches, highlighted, favs),
       !.recent = RecentApps(catalog, recents),
       !.panel = Taskbar(catalog, favs, Counts(running), WideLimit)]

MoveSelection(step) ==
    /\ selected' = Moved(step)
    /\ screen' = Refreshed(selected', favorites)
    /\ UNCHANGED <<catalog, windows, procs, running, lists, matches, history>>

\* Mutated form of the next definition: the taskbar is forgotten.
ToggleFavoriteOnly(a) ==
    /\ a \in catalog
    /\ favorites' = Toggled(favorites, a)
    /\ saved' = [saved EXCEPT !.favorites = favorites']
    /\ screen' = [screen EXCEPT !.launcher = Launcher(matches, selected, favorites')]
    /\ UNCHANGED <<catalog, windows, procs, running, recents, search, history>>

\* Mutated form of the next definition: the file is written first, of what
\* is in memory before the app is put in or taken out.
ToggleFavoriteSavedFirst(a) ==
    /\ a \in catalog
    /\ favorites' = Toggled(favorites, a)
    /\ saved' = [saved EXCEPT !.favorites = favorites]
    /\ screen' = Refreshed(selected, favorites')
    /\ UNCHANGED <<catalog, windows, procs, running, recents, search, history>>
ToggleFavorite(a) ==
    /\ a \in catalog
    /\ favorites' = Toggled(favorites, a)
    /\ saved' = [saved EXCEPT !.favorites = favorites']
    /\ screen' = Refreshed(selected, favorites')
    /\ UNCHANGED <<catalog, windows, procs, running, recents, search, history>>

\* launch_app: what cannot be launched is only warned about.
Spawned(a) ==
    {procs} \cup IF a \in Tracked /\ procs[a] < MaxProcs
                 THEN {[procs EXCEPT ![a] = @ + 1]} ELSE {}

Launch(a) ==
    /\ IsOpen(a) \/ Len(windows) < MaxWindows
    /\ procs' \in IF IsOpen(a) THEN {procs} ELSE Spawned(a)
    /\ windows' = Opened(a)
    /\ recents' = Recorded(recents, a)
    /\ saved' = [saved EXCEPT !.recents = recents']
    /\ screen' = [screen EXCEPT
                    !.recent = RecentApps(catalog, recents'),
                    !.panel = Taskbar(catalog, favorites,
                                      Visual(running, windows'), PanelLimit),
                    !.desk = Desk(windows')]
    /\ launched' = launched \cup {a}
    /\ since' = [b \in App |-> IF b = a THEN {}
                               ELSE IF b \in launched THEN since[b] \cup {a}
                               ELSE {}]
    /\ UNCHANGED <<catalog, running, favorites, search>>

\* A click on an app in any list; Enter in the launcher.
LaunchApp(a) == a \in catalog /\ Launch(a)
AcceptSearch == Chosen # None /\ Launch(Chosen)

-----------------------------------------------------------------------------
(* The buttons of a window, which are there while it is not minimized.     *)

Clickable(a) == a \in catalog /\ IsOpen(a) /\ "minimized" \notin Flags(a)

Restacked ==
    /\ screen' = [screen EXCEPT !.desk = Desk(windows')]
    /\ UNCHANGED <<catalog, procs, running, lists, search, history>>

FocusWindow(a) ==
    /\ Clickable(a)
    /\ windows' = Raised(a, Flags(a) \ {"minimized"})
    /\ Restacked

MaximizeWindow(a) ==
    /\ Clickable(a)
    /\ windows' = Raised(a, IF "maximized" \in Flags(a) THEN {} ELSE {"maximized"})
    /\ Restacked

\* By a drag of its header or of its corner; both end at a maximized window.
MoveWindow(a) ==
    /\ Clickable(a) /\ "maximized" \notin Flags(a)
    /\ windows' = Raised(a, {})
    /\ Restacked

ResizeWindow(a) ==
    /\ Clickable(a) /\ "maximized" \notin Flags(a)
    /\ windows' = Raised(a, {})
    /\ Restacked

\* The taskbar and the windows.
Replaced(stack) ==
    /\ windows' = stack
    /\ screen' = [screen EXCEPT
                    !.panel = Taskbar(catalog, favorites,
                                      Visual(running, windows'), PanelLimit),
                    !.desk = Desk(windows')]
    /\ UNCHANGED <<catalog, procs, running, lists, search, history>>

MinimizeWindow(a) ==
    /\ Clickable(a)
    /\ Replaced([windows EXCEPT ![At(a)] =
                   [app |-> a, flags |-> Flags(a) \cup {"minimized"}]])

CloseWindow(a) == Clickable(a) /\ Replaced(RemoveAt(windows, At(a)))

-----------------------------------------------------------------------------
(* The world.                                                              *)

AppStarts(a) ==
    /\ procs[a] < MaxProcs
    /\ procs' = [procs EXCEPT ![a] = @ + 1]
    /\ UNCHANGED <<catalog, windows, running, lists, search, screen, history>>

AppExits(a) ==
    /\ procs[a] > 0
    /\ procs' = [procs EXCEPT ![a] = @ - 1]
    /\ UNCHANGED <<catalog, windows, running, lists, search, screen, history>>

\* The shell ends, at any moment between two handlers, and is started again:
\* by then apps may have been installed or removed, and the list of processes
\* may come from the user agent, from ps, or from neither.
Restart ==
    /\ \E found \in Found : catalog' = Discovered(found)
    /\ running' \in {procs, NoProcs}
    /\ windows' = <<>>
    /\ favorites' = saved.favorites /\ recents' = saved.recents
    /\ matches' \in Listings(catalog') /\ selected' = HeadOf(matches')
    /\ screen' = FirstScreen(catalog', matches', favorites', recents',
                             Counts(running'))
    /\ UNCHANGED <<procs, saved, history>>

Next ==
    \/ \E query \in Queries : Search(query)
    \/ \E step \in Step : MoveSelection(step)
    \/ AcceptSearch
    \/ \E a \in App : ToggleFavorite(a) \/ LaunchApp(a) \/ FocusWindow(a)
                      \/ MaximizeWindow(a) \/ MoveWindow(a) \/ ResizeWindow(a)
                      \/ MinimizeWindow(a) \/ CloseWindow(a)
    \/ \E a \in Tracked : AppStarts(a) \/ AppExits(a)
    \/ Restart

Spec == Init /\ [][Next]_vars

\* running_timer is a local of the block that starts it, and a timer that is
\* dropped fires no more: it is gone before the event loop runs.
RunningTimerIsAlive == FALSE

RunningTimer ==
    /\ RunningTimerIsAlive
    /\ running' = procs /\ running' # running
    /\ screen' = [screen EXCEPT
                    !.launcher = Launcher(matches, selected, favorites),
                    !.recent = RecentApps(catalog, recents),
                    !.panel = Taskbar(catalog, favorites,
                                      Visual(running', windows), PanelLimit),
                    !.desk = Desk(windows)]
    /\ UNCHANGED <<catalog, windows, procs, lists, search, history>>

\* The event loop fires a timer that is there.
FairSpec == Init /\ [][Next \/ RunningTimer]_vars /\ WF_vars(RunningTimer)

-----------------------------------------------------------------------------
(* Properties.                                                             *)

TypeOK ==
    /\ catalog \in (SUBSET App) \ {{}}
    /\ windows \in Seq(Window)
    /\ procs \in [Tracked -> 0..MaxProcs]
    /\ running \in [Tracked -> 0..MaxProcs]
    /\ favorites \in Seq(App) /\ Len(favorites) <= Kept
    /\ recents \in Seq(App) /\ Len(recents) <= Kept
    /\ matches \in Seq(App) /\ selected \in App \cup {None}
    /\ launched \subseteq App /\ since \in [App -> SUBSET App]

(* However windows are opened, raised, minimized and closed, by whichever   *)
(* of eight handlers, no app has two of them, the screen shows the stack    *)
(* as it is, and the focus is on the topmost window that is not minimized   *)
(* and on no other.                                                         *)
ScreenShowsStack ==
    /\ \A i, j \in DOMAIN windows : windows[i].app = windows[j].app => i = j
    /\ screen.desk.stack = windows
    /\ \A i \in DOMAIN windows :
          windows[i].app \in screen.desk.focus
            <=> /\ IsShown(windows[i])
                /\ \A j \in i + 1..Len(windows) : ~IsShown(windows[j])

(* Enter launches the app that the launcher shows as selected, or the       *)
(* first where it shows none, and the stars are those of the pinned apps:   *)
(* searches, arrow keys, pins, launches and restarts never leave the list   *)
(* on the screen behind the one the handlers act upon.                      *)
EnterLaunchesHighlighted ==
    /\ screen.launcher.apps = matches
    /\ screen.launcher.stars = ToSet(matches) \cap ToSet(favorites)
    /\ IF screen.launcher.selected = None THEN Chosen = HeadOf(matches)
       ELSE Chosen = screen.launcher.selected

(* The taskbar begins with the pinned apps that are installed, in their     *)
(* order, holds no app twice, and what else it holds has a window or had a  *)
(* process when the shell was started, although some handlers fill it from  *)
(* other counts and to another length than the rest.                        *)
TaskbarIsPinnedThenRunning ==
    LET apps   == screen.panel.apps
        pinned == FirstOf(Known(catalog, favorites), PanelLimit)
    IN /\ FirstOf(apps, Len(pinned)) = pinned
       /\ \A i, j \in DOMAIN apps : apps[i] = apps[j] => i = j
       /\ ToSet(apps) \subseteq
             ToSet(favorites) \cup AppsOf(windows)
                \cup {a \in Tracked : running[a] > 0}

(* The recent apps are those launched last, the last one first, each once,  *)
(* and none is missing that was launched after one that is there: whatever  *)
(* is launched how often and however often the shell is started again.      *)
RecentsAreTheLatest ==
    /\ \A i \in DOMAIN recents :
          /\ recents[i] \in launched
          /\ since[recents[i]] = {recents[j] : j \in 1..i - 1}
    /\ \A a \in launched \ ToSet(recents) :
          Len(recents) = Kept /\ ToSet(recents) \subseteq since[a]

(* A shell that is started again, after whatever was pinned, unpinned and   *)
(* launched, has the pinned and the recent apps its predecessor had.        *)
ListsSurvive ==
    [][Restart => favorites' = favorites /\ recents' = recents]_vars

(* UI_PROBLEM_MAP.md:34 "desktop and dock presence come from discovered     *)
(* running processes": where the taskbar and the processes disagree about   *)
(* an installed app that has no window, they come to agree, or it gets one. *)
Disagree(a) ==
    /\ a \in catalog /\ ~IsOpen(a)
    /\ procs[a] > 0 <=> a \notin screen.panel.running
PresenceFollows == \A a \in Tracked : Disagree(a) ~> ~Disagree(a)
=============================================================================
