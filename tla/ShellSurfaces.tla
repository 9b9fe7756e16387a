---------------------------- MODULE ShellSurfaces ----------------------------
(***************************************************************************)
(* Which surfaces of the shell are open.  The UI thread changes them on    *)
(* clicks and keys and, every 120 ms, on the remote command it finds in a  *)
(* one-byte slot; the thread that serves org.seatshell.Shell writes the    *)
(* slot at any moment.  The seven show-... flags are the set of surfaces   *)
(* whose flag is true.  The shell ends and is started again at any moment, *)
(* each time with the configuration its two files give it then.            *)
(***************************************************************************)
EXTENDS ConfigLayers, Naturals, FiniteSets

CONSTANT Files      \* what the two configuration files may hold

ASSUME FilesAssumption == Files \subseteq Document \cup {Unreadable}

Page == {"launcher", "overview", "command"}
Popup == {"notifications", "system", "power"}
Surface == Page \cup Popup \cup {"settings"}

\* The surface a ShellView opens; the other views are "desktop" and "none".
Opening == Surface \ {"command"}
Toggle == {"toggle launcher", "toggle overview"}
View == Opening \cup Toggle \cup {"desktop", "none"}
Command == View \ {"none"}

VARIABLES
    shell,      \* "down", "alone" without its D-Bus service, or "serving"
    overviewEnabled,  \* overview-enabled
    showUserSwitcher, \* show-user-switcher
    open,       \* the open surfaces
    slot,       \* remote_commands
    served,     \* history variable: the last command the timer served
    newest      \* history variable: the newest command sent

vars == <<shell, overviewEnabled, showUserSwitcher, open, slot, served, newest>>

\* What a shell that runs does not change: it reads its configuration once.
started == <<shell, overviewEnabled, showUserSwitcher>>

TypeOK ==
    /\ shell \in {"down", "alone", "serving"}
    /\ overviewEnabled \in BOOLEAN /\ showUserSwitcher \in BOOLEAN
    /\ open \subseteq Surface
    /\ slot \in View /\ served \in View /\ newest \in View

Flipped(s) == IF s \in open THEN {} ELSE {s}

\* Mutated form of the next definition: the view itself is taken for a surface.
InitiallyItself(v) == IF v = "none" THEN {} ELSE {v}
\* The surface a shell starts with, given the view on its command line.
Initially(v) ==
    CASE v \in Opening -> {v}
      [] v = "toggle launcher" -> {"launcher"}
      [] v = "toggle overview" -> {"overview"}
      [] v \in {"desktop", "none"} -> {}

Init ==
    /\ shell = "down" /\ overviewEnabled = FALSE /\ showUserSwitcher = FALSE
    /\ open = {} /\ slot = "none" /\ served = "none" /\ newest = "none"

-----------------------------------------------------------------------------
(* The shell starts and ends.                                              *)

\* A view on the command line opens a surface here only if the session bus is
\* out of reach, at that moment: otherwise the view is sent to the shell that
\* runs (Send) and none starts.  A shell whose configuration does not load
\* exits at once, which is no step.
Start ==
    /\ shell = "down"
    /\ \E system, user \in Files :
          /\ Loads(system, user)
          /\ LET On(s, k) == Setting(Merged(system, user), s, k) = "true" IN
             /\ overviewEnabled' = On("overview", "enabled")
             /\ showUserSwitcher' = (On("panel", "show_user_switcher")
                                      /\ On("overview", "enabled"))
    /\ shell' \in {"alone", "serving"}
    /\ \E v \in View : open' = Initially(v)
    /\ UNCHANGED <<slot, served, newest>>

\* The window is closed, or the process dies: nothing of this is saved.
End ==
    /\ shell # "down"
    /\ shell' = "down" /\ overviewEnabled' = FALSE /\ showUserSwitcher' = FALSE
    /\ open' = {} /\ slot' = "none" /\ served' = "none" /\ newest' = "none"

-----------------------------------------------------------------------------
(* The D-Bus service and the timer that serves the slot.                   *)

Send(v) ==
    /\ shell = "serving"
    /\ slot' = v
    /\ newest' = v
    /\ UNCHANGED <<started, open, served>>

\* Mutated form of the next definition: the settings open over a popup.
AfterOverPopups(v) ==
    CASE v \in Opening \ {"settings"} -> {v}
      [] v = "settings" -> (open \cap Popup) \cup {v}
      [] v = "toggle launcher" -> Flipped("launcher")
      [] v = "toggle overview" -> Flipped("overview")
      [] v = "desktop" -> {}
      [] v = "none" -> open
After(v) ==
    CASE v \in Opening -> {v}
      [] v = "toggle launcher" -> Flipped("launcher")
      [] v = "toggle overview" -> Flipped("overview")
      [] v = "desktop" -> {}
      [] v = "none" -> open

\* Mutated form of the next definition: the slot is read and emptied in two
\* steps, between which a command may arrive.
RemoteTimerInTwoSteps ==
    /\ slot # "none"
    /\ open' = After(slot)
    /\ served' = slot
    /\ slot' = "none"
    /\ newest' \in Command
    /\ UNCHANGED started

\* The slot is read and emptied by one atomic swap.
RemoteTimer ==
    /\ slot # "none"
    /\ open' = After(slot)
    /\ served' = slot
    /\ slot' = "none"
    /\ UNCHANGED <<started, newest>>

-----------------------------------------------------------------------------
(* Clicks and keys.  A surface is offered only while it is visible.        *)

SettingsShown == "settings" \in open
OverviewShown == "overview" \in open /\ ~SettingsShown
LauncherShown == "launcher" \in open /\ ~SettingsShown
DesktopShown == open \cap {"settings", "overview", "launcher"} = {}
CommandShown == "command" \in open /\ DesktopShown

Set(s) ==
    /\ shell # "down"
    /\ open' = s
    /\ UNCHANGED <<started, slot, served, newest>>

\* The panel, the launcher and the overview.
ShowDesktop == Set({})

\* The panel and the desktop's context menu.
ToggleLauncher == Set(Flipped("launcher"))

ToggleOverview == showUserSwitcher /\ Set(Flipped("overview"))

\* The desktop's context menu, and the surface itself.
ToggleCommand == DesktopShown /\ Set(Flipped("command"))

\* The command surface closes itself before it opens another page.
CommandOpens ==
    /\ CommandShown
    /\ \/ Set({"launcher"})
       \/ Set(IF overviewEnabled THEN {"overview"} ELSE {})

\* The panel, the system center and the notification center.
Notified(s) ==
    IF "notifications" \in s THEN s \ {"notifications"} ELSE {"notifications"}

ToggleNotifications == Set(Notified(open))

\* Mutated form of the next definition: the power menu is forgotten.
SystemToggledOverMenu ==
    IF "system" \in open THEN open \ {"system", "notifications"}
    ELSE (open \ {"notifications"}) \cup {"system"}
SystemToggled ==
    IF "system" \in open THEN open \ {"system", "notifications", "power"}
    ELSE (open \ {"notifications", "power"}) \cup {"system"}

ToggleSystem == Set(SystemToggled)

SystemCenterOpens ==
    /\ "system" \in open
    /\ LET rest == open \ {"system"} IN
       \/ Set(rest)
       \/ Set(Notified(rest))
       \/ Set(rest \cup {"settings"})
       \/ Set(rest \cup {"power"})

SystemCenterOpensOverview ==
    /\ "system" \in open
    /\ Set(IF ~overviewEnabled THEN open \ {"system"}
           ELSE Flipped("overview"))

CloseSettings == SettingsShown /\ Set(open \ {"settings"})

\* Closed by the user, or before an action is requested.
ClosePowerMenu == "power" \in open /\ Set(open \ {"power"})

\* launch_app, from the panel, the desktop, the launcher, the command surface.
LaunchApp == Set({})

AcceptSearch ==
    /\ LauncherShown
    /\ Set(open \ {"launcher", "notifications", "system", "power", "settings"})

ActivateSession == OverviewShown /\ Set(open \ {"overview"})

-----------------------------------------------------------------------------
Click == ShowDesktop \/ ToggleLauncher \/ ToggleOverview \/ ToggleCommand
         \/ CommandOpens \/ ToggleNotifications \/ ToggleSystem
         \/ SystemCenterOpens \/ SystemCenterOpensOverview \/ CloseSettings
         \/ ClosePowerMenu \/ LaunchApp \/ AcceptSearch \/ ActivateSession

Next == Start \/ End \/ RemoteTimer \/ Click \/ \E v \in Command : Send(v)

Spec == Init /\ [][Next]_vars

\* The event loop keeps firing the 120 ms timer.
FairSpec == Spec /\ WF_vars(RemoteTimer)

-----------------------------------------------------------------------------
AtMostOne(S) == \A s, t \in S : s = t

(* The flags of the seven surfaces are set one by one in two dozen places, *)
(* by clicks and by remote commands in any order; still no two pages are   *)
(* open at once, nor two popups, and the notification center shares the    *)
(* screen with nothing but the desktop.                                    *)
OneOfEach ==
    /\ AtMostOne(open \cap Page)
    /\ AtMostOne(open \cap Popup)
    /\ "notifications" \in open => open = {"notifications"}

(* The bus thread may write the slot while the timer empties it: the       *)
(* newest command is nevertheless waiting in the slot or the last one that *)
(* was served, so a later command is never lost to an earlier one.         *)
NewestIsServed == newest = IF slot = "none" THEN served ELSE slot

(* A command that a shell has taken gets its surface onto the screen,      *)
(* alone, whatever is open and however the user clicks meanwhile, unless   *)
(* another command takes its place before the timer comes round, or the    *)
(* shell ends with the command in its slot.                                *)
CommandsAreServed ==
    \A v \in Opening :
        slot = v ~> \/ served = v /\ open = {v}
                    \/ slot \notin {v, "none"}
                    \/ shell = "down"
=============================================================================
