----------------------------- MODULE SessionBus -----------------------------
(***************************************************************************)
(* The circle of calls between the shell and the admin daemon.  A click in *)
(* the power menu blocks the shell's UI thread on a call to the daemon; a  *)
(* lock and a message make the daemon call back the notification service,  *)
(* which another thread of the same shell serves; that thread needs the    *)
(* mutex of the notification list, which the UI thread takes as well.      *)
(* The daemon's own thread is shared by its calls, so that a click also    *)
(* waits for a command that another client's call runs.                    *)
(***************************************************************************)
EXTENDS AdminDaemon

VARIABLES
    ui,         \* what the UI thread does
    uiCall,     \* the call it waits for: one or none
    mutex,      \* who holds NotificationStore.items
    inbox,      \* Notify requests sent and not yet taken up
    notifier,   \* the requests the notification thread works on: one or none
    posted,     \* calls whose notification is in the list
    replied     \* calls whose Notify has been answered

shell == <<ui, uiCall, mutex, inbox, notifier, posted, replied>>
busVars == <<vars, shell>>

UiState == {"idle", "waiting", "posting", "locked"}

BusTypeOK ==
    /\ TypeOK
    /\ ui \in UiState /\ uiCall \subseteq Calls
    /\ mutex \in {"free", "ui", "notifier"}
    /\ inbox \subseteq Calls /\ notifier \subseteq Calls
    /\ posted \subseteq Calls /\ replied \subseteq posted

BusInit ==
    /\ Init
    /\ ui = "idle" /\ uiCall = {} /\ mutex = "free"
    /\ inbox = {} /\ notifier = {} /\ posted = {} /\ replied = {}

-----------------------------------------------------------------------------
(* The UI thread.                                                          *)

\* Mutated form of the next definition: the list is locked for the request.
UiRequestsLocked(c) ==
    /\ ui = "idle" /\ pc[c] = "idle" /\ mutex = "free"
    /\ request[c] \in [action : Action \ {"send message"},
                       session : {Own, Nowhere}, caller : {"self"}]
    /\ ui' = "waiting" /\ uiCall' = {c} /\ mutex' = "ui"
    /\ UNCHANGED <<vars, inbox, notifier, posted, replied>>
\* request_admin_session_action, for the session the shell takes for its own:
\* "local" where the environment names none, which the daemon does not know.
\* Nothing else happens on this thread.
UiRequests(c) ==
    /\ ui = "idle" /\ pc[c] = "idle"
    /\ request[c] \in [action : Action \ {"send message"},
                       session : {Own, Nowhere}, caller : {"self"}]
    /\ ui' = "waiting" /\ uiCall' = {c}
    /\ UNCHANGED <<vars, mutex, inbox, notifier, posted, replied>>

\* The answer, or the error of a call that no daemon received.
UiReturns ==
    /\ ui = "waiting" /\ \A c \in uiCall : pc[c] \in Answer \cup {"idle"}
    /\ ui' = "posting" /\ uiCall' = {}
    /\ UNCHANGED <<vars, mutex, inbox, notifier, posted, replied>>

\* The outcome is posted, or the notification timer copies the list.
UiLocks ==
    /\ ui \in {"idle", "posting"} /\ mutex = "free"
    /\ ui' = "locked" /\ mutex' = "ui"
    /\ UNCHANGED <<vars, uiCall, inbox, notifier, posted, replied>>

UiUnlocks ==
    /\ ui = "locked"
    /\ ui' = "idle" /\ mutex' = "free"
    /\ UNCHANGED <<vars, uiCall, inbox, notifier, posted, replied>>

-----------------------------------------------------------------------------
(* The notification thread.                                                *)

NotifierTakes(c) ==
    /\ c \in inbox /\ notifier = {}
    /\ inbox' = inbox \ {c} /\ notifier' = {c}
    /\ UNCHANGED <<vars, ui, uiCall, mutex, posted, replied>>

NotifierLocks ==
    /\ notifier # {} /\ mutex = "free"
    /\ mutex' = "notifier"
    /\ UNCHANGED <<vars, ui, uiCall, inbox, notifier, posted, replied>>

\* Mutated form of the next definition: answered without being posted.
NotifierAnswersUnposted ==
    /\ mutex = "notifier"
    /\ mutex' = "free"
    /\ replied' = replied \cup notifier
    /\ notifier' = {}
    /\ UNCHANGED <<vars, ui, uiCall, inbox, posted>>
NotifierPosts ==
    /\ mutex = "notifier"
    /\ mutex' = "free"
    /\ posted' = posted \cup notifier /\ replied' = replied \cup notifier
    /\ notifier' = {}
    /\ UNCHANGED <<vars, ui, uiCall, inbox>>

-----------------------------------------------------------------------------
(* The daemon: a lock and a message wait for the notification service.     *)

Sends(c) == pc[c] = "act" /\ request[c].action = "send message" /\ Possible(c)
Notifies(c) == pc[c] = "notify" \/ Sends(c)

Works(c) ==
    /\ ~Notifies(c) /\ pc[c] # "reauth"
    /\ Handle(c)
    /\ UNCHANGED shell

PolkitAnswers(c) == Reauthenticate(c) /\ UNCHANGED shell

Asks(c) ==
    /\ Notifies(c) /\ At(c, pc[c]) /\ c \notin inbox \cup notifier \cup posted
    /\ inbox' = inbox \cup {c}
    /\ UNCHANGED <<vars, ui, uiCall, mutex, notifier, posted, replied>>

\* Mutated form of the next definition: sent is taken for delivered.
GoesOnOnceSent(c) ==
    /\ Notifies(c) /\ c \in inbox \cup notifier \cup replied
    /\ Act(c) \/ Notify(c)
    /\ UNCHANGED shell
GoesOn(c) ==
    /\ Notifies(c) /\ c \in replied
    /\ Act(c) \/ Notify(c)
    /\ UNCHANGED shell

\* Nobody serves notifications, or the service ends before it answers.
NotificationFails(c) ==
    /\ Notifies(c)
    /\ ActFails(c) \/ Notify(c)
    /\ UNCHANGED shell

World ==
    /\ SessionStarts \/ SessionEnds \/ GroupChanges \/ Killed
    /\ UNCHANGED shell

-----------------------------------------------------------------------------
UiStep == UiReturns \/ UiLocks \/ UiUnlocks
NotifierStep == NotifierLocks \/ NotifierPosts \/ \E c \in Calls : NotifierTakes(c)
DaemonStep(c) == Works(c) \/ Asks(c) \/ GoesOn(c)

BusNext ==
    \/ UiStep \/ NotifierStep \/ World
    \/ \E c \in Calls : DaemonStep(c) \/ UiRequests(c) \/ PolkitAnswers(c)
                        \/ NotificationFails(c)

BusSpec == BusInit /\ [][BusNext]_busVars

\* Every thread goes on with what it can do, the daemon's with one call at a
\* time.  Nothing is assumed of polkit, of further clicks, or of what goes
\* wrong.
BusFairSpec ==
    /\ BusSpec
    /\ WF_busVars(UiStep) /\ WF_busVars(NotifierStep)
    /\ \A c \in Calls : WF_busVars(DaemonStep(c))

-----------------------------------------------------------------------------
(* The shell waits for a daemon that waits for the shell.  The circle      *)
(* never closes, because the notification thread needs nothing that the    *)
(* waiting UI thread holds: the UI thread comes back, unless polkit waits  *)
(* for the user.  It need not be for the UI's call: while pkcheck runs for *)
(* any client, the daemon serves nobody and the shell's window is frozen.  *)
UiComesBack ==
    ui = "waiting" ~> ui = "idle" \/ \E c \in Calls : pc[c] = "reauth"

(* A message whose delivery is in the audit log is in the shell's list of  *)
(* notifications: it is logged after the service has answered, and the     *)
(* service answers after it has posted (an entry may be dismissed later).  *)
LoggedMessagesArrived ==
    \A c \in audited : request[c].action = "send message" => c \in posted
=============================================================================
