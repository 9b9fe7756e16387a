----------------------------- MODULE AdminDaemon -----------------------------
(***************************************************************************)
(* seatshell-admin-daemon: session actions requested over the bus.  Every  *)
(* call is a task, and one executor thread runs them all: calls take turns *)
(* where they await the bus, logind or the notification service, but wait  *)
(* for each other where one runs a command, pkcheck included.  Meanwhile   *)
(* sessions come and go, group membership changes, and the daemon may be   *)
(* killed.                                                                 *)
(***************************************************************************)
EXTENDS FiniteSets

CONSTANTS
    Calls,          \* calls of the five methods that act
    Sessions,       \* session ids
    Mine,           \* those that belong to the daemon's own user
    Own,            \* current_session_id()
    Nowhere,        \* a session id that no session has
    Asked,          \* actions that callers ask for
    Allowed,        \* actions the policy allows
    RequireReauth,  \* policy.require_reauth
    LogActions,     \* log_actions
    NotifyUser      \* notify_user_on_admin_action

ASSUME AdminAssumption ==
    /\ Mine \subseteq Sessions /\ Own \in Mine /\ Nowhere \notin Sessions
    /\ {RequireReauth, LogActions, NotifyUser} \subseteq BOOLEAN

Action == {"lock", "logout", "restart", "power off", "send message"}

\* The sender of a call: the user the daemon runs as, or another one.
Request == [action : Action, session : Sessions \cup {Nowhere},
            caller : {"self", "other"}]

Answer == {"ok", "denied", "failed", "invalid", "lost"}
Stage == {"idle", "identify", "discover", "decide", "reauth", "act", "audit",
          "notify"} \cup Answer

\* AuthorizedAction.reauthenticated, and what else the plan rested on.
Grant == {"none", "same user", "admin", "reauthenticated"}

VARIABLES
    alive,      \* sessions logind has
    fresh,      \* session ids logind has not given out yet
    isAdmin,    \* whether the daemon's user is in the allowed group
    pc,         \* pc[c]: how far call c is
    request,    \* request[c]: what it asks for
    grant,      \* grant[c]: on what ground it is authorized
    performed,  \* calls whose action has been carried out
    audited,    \* calls with a line in the audit log
    unwritten   \* calls whose audit line could not be written

host == <<alive, fresh, isAdmin>>
effects == <<performed, audited, unwritten>>
vars == <<host, pc, request, grant, effects>>

TypeOK ==
    /\ alive \subseteq Sessions /\ fresh \subseteq Sessions
    /\ isAdmin \in BOOLEAN
    /\ pc \in [Calls -> Stage]
    /\ request \in [Calls -> Request]
    /\ grant \in [Calls -> Grant]
    /\ performed \subseteq Calls
    /\ audited \subseteq Calls /\ unwritten \subseteq Calls

Init ==
    /\ alive \in SUBSET Sessions
    /\ fresh = Sessions \ (alive \cup {Own})
    /\ isAdmin \in BOOLEAN
    /\ pc = [c \in Calls |-> "idle"]
    /\ request \in [Calls -> {r \in Request : r.action \in Asked}]
    /\ grant = [c \in Calls |-> "none"]
    /\ performed = {} /\ audited = {} /\ unwritten = {}

-----------------------------------------------------------------------------
(* The executor.                                                           *)

\* From the list of sessions to the audit line a call never awaits, but for
\* the message it sends: commands are run to their end on this very thread.
Blocking(c) == \/ pc[c] \in {"decide", "reauth", "audit"}
               \/ pc[c] = "act" /\ request[c].action # "send message"

\* It is c's turn, at stage s: no other call holds the thread.
At(c, s) == pc[c] = s /\ \A d \in Calls \ {c} : ~Blocking(d)

-----------------------------------------------------------------------------
(* A call is received and authorized.                                      *)

Goto(c, s) == pc' = [pc EXCEPT ![c] = s]
Keep == UNCHANGED <<host, request, effects>>

Enabled(c) ==
    request[c].action \in Allowed \/ request[c].action = "send message"

\* A blank message is refused before anything else.
RefuseBlank(c) ==
    /\ At(c, "idle") /\ request[c].action = "send message"
    /\ Goto(c, "invalid")
    /\ Keep /\ UNCHANGED grant

Receive(c) ==
    /\ At(c, "idle")
    /\ Goto(c, IF Enabled(c) THEN "identify" ELSE "denied")
    /\ Keep /\ UNCHANGED grant

\* The bus tells who the caller is, or cannot because it is gone.
Identify(c) ==
    /\ At(c, "identify")
    /\ \/ Goto(c, IF request[c].caller = "self" THEN "discover" ELSE "denied")
       \/ Goto(c, "denied")
    /\ Keep /\ UNCHANGED grant

\* Those of logind's sessions that still have details, or the daemon's own if
\* logind fails or none is left.
Discovered == {{Own}} \cup (SUBSET alive \ {{}})

Discover(c) ==
    /\ At(c, "discover")
    /\ \E found \in Discovered :
           Goto(c, IF request[c].session \in found THEN "decide" ELSE "failed")
    /\ Keep /\ UNCHANGED grant

\* Mutated form of the next definition: the refusal is returned as a plan.
PlanOrRefusal(c) ==
    IF request[c].session \in Mine THEN "same user"
    ELSE IF isAdmin THEN "admin"
    ELSE "admin required"
\* authorization_plan
Plan(c) ==
    IF request[c].session \in Mine THEN "same user"
    ELSE IF isAdmin THEN "admin"
    ELSE "none"

\* Mutated form of the next definition: an answer of polkit is remembered.
DecideRemembering(c) ==
    /\ At(c, "decide")
    /\ grant' = [grant EXCEPT ![c] = Plan(c)]
    /\ Goto(c, CASE Plan(c) = "none" -> "denied"
                 [] Plan(c) = "admin" /\ RequireReauth
                    /\ ~\E d \in Calls : grant[d] = "reauthenticated" -> "reauth"
                 [] OTHER -> "act")
    /\ Keep
\* The list may be stale by now; the group is read here.
Decide(c) ==
    /\ At(c, "decide")
    /\ grant' = [grant EXCEPT ![c] = Plan(c)]
    /\ Goto(c, CASE Plan(c) = "none" -> "denied"
                 [] Plan(c) = "admin" /\ RequireReauth -> "reauth"
                 [] OTHER -> "act")
    /\ Keep

\* pkcheck asks the user, who may take any time; the thread waits for it.
Reauthenticate(c) ==
    /\ At(c, "reauth")
    /\ \/ /\ grant' = [grant EXCEPT ![c] = "reauthenticated"]
          /\ Goto(c, "act")
       \/ Goto(c, "denied") /\ UNCHANGED grant
    /\ Keep

-----------------------------------------------------------------------------
(* The action is carried out, logged and announced.                        *)

\* loginctl knows only sessions that exist; a message is for this session.
Possible(c) ==
    CASE request[c].action \in {"lock", "logout"} -> request[c].session \in alive
      [] request[c].action = "send message" -> request[c].session = Own
      [] OTHER -> TRUE

\* Mutated form of the next definition: it is logged on failure as well.
ActFailsLogged(c) ==
    /\ At(c, "act")
    /\ Goto(c, "audit")
    /\ Keep /\ UNCHANGED grant
\* Mutated form of the next definition: a failed command is tried again.
ActFailsRetried(c) ==
    /\ At(c, "act")
    /\ Goto(c, "act")
    /\ Keep /\ UNCHANGED grant
\* Any command may fail, also both of the two that can restart the machine.
ActFails(c) ==
    /\ At(c, "act")
    /\ Goto(c, "failed")
    /\ Keep /\ UNCHANGED grant

Act(c) ==
    /\ At(c, "act") /\ Possible(c)
    /\ alive' = IF request[c].action = "logout"
                THEN alive \ {request[c].session} ELSE alive
    /\ performed' = performed \cup {c}
    /\ Goto(c, "audit")
    /\ UNCHANGED <<fresh, isAdmin, request, grant, audited, unwritten>>

Logged(c) ==
    Goto(c, IF request[c].action = "lock" /\ NotifyUser THEN "notify" ELSE "ok")

\* A line that cannot be written is only warned about.
Audit(c) ==
    /\ At(c, "audit")
    /\ Logged(c)
    /\ IF LogActions
       THEN \/ audited' = audited \cup {c} /\ UNCHANGED unwritten
            \/ unwritten' = unwritten \cup {c} /\ UNCHANGED audited
       ELSE UNCHANGED <<audited, unwritten>>
    /\ UNCHANGED <<host, request, grant, performed>>

\* The outcome of the notification is ignored.
Notify(c) ==
    /\ At(c, "notify")
    /\ Goto(c, "ok")
    /\ Keep /\ UNCHANGED grant

-----------------------------------------------------------------------------
(* The world around the daemon.                                            *)

SessionStarts ==
    \E s \in fresh :
        /\ alive' = alive \cup {s} /\ fresh' = fresh \ {s}
        /\ UNCHANGED <<isAdmin, pc, request, grant, effects>>

SessionEnds ==
    \E s \in alive :
        /\ alive' = alive \ {s}
        /\ UNCHANGED <<fresh, isAdmin, pc, request, grant, effects>>

GroupChanges ==
    /\ isAdmin' = ~isAdmin
    /\ UNCHANGED <<alive, fresh, pc, request, grant, effects>>

\* The daemon is killed: with its session, by the supervisor, by a restart.
Killed ==
    /\ \E c \in Calls : pc[c] \notin Answer \cup {"idle"}
    /\ pc' = [c \in Calls |->
                 IF pc[c] \in Answer \cup {"idle"} THEN pc[c] ELSE "lost"]
    /\ Keep /\ UNCHANGED grant

-----------------------------------------------------------------------------
Handle(c) ==
    \/ RefuseBlank(c) \/ Receive(c) \/ Identify(c) \/ Discover(c) \/ Decide(c)
    \/ Reauthenticate(c) \/ ActFails(c) \/ Act(c) \/ Audit(c) \/ Notify(c)

Next ==
    \/ \E c \in Calls : Handle(c)
    \/ SessionStarts \/ SessionEnds \/ GroupChanges \/ Killed

Spec == Init /\ [][Next]_vars

\* The executor polls every call that is ready, and a command ends, unless
\* it is pkcheck that waits for the user: then no call makes progress.
Progress(c) == Handle(c) /\ pc[c] # "reauth"

FairSpec == Spec /\ \A c \in Calls : WF_vars(Progress(c))

-----------------------------------------------------------------------------
(* Calls overtake each other, the group and the sessions change while they *)
(* wait; still an action is carried out only if the policy allows it, for  *)
(* the daemon's own user, and on another user's session only on the ground *)
(* of group membership and, where the policy asks for it, of a             *)
(* re-authentication made for this very call.                              *)
Justified(c) == \/ request[c].session \in Mine
                \/ grant[c] = "reauthenticated"
                \/ grant[c] = "admin" /\ ~RequireReauth

OnlyAuthorized ==
    \A c \in performed :
        Enabled(c) /\ request[c].caller = "self" /\ Justified(c)

(* The audit log tells the truth: a line stands for an action that was     *)
(* carried out, and an action without a line is one whose line could not   *)
(* be written or whose daemon was killed before it came to write it.  An   *)
(* action counts as carried out when its command has reported success.     *)
AuditTrail ==
    /\ audited \subseteq performed
    /\ LogActions =>
           \A c \in performed \ (audited \cup unwritten) :
               pc[c] \in {"audit", "lost"}

(* A call that is received is answered whatever fails or changes on the    *)
(* way and whatever other calls do, unless polkit waits for the user, be   *)
(* it for another call: pkcheck then holds the thread that runs them all.  *)
CallsAreAnswered ==
    \A c \in Calls :
        pc[c] = "identify" ~> \/ pc[c] \in Answer
                              \/ \E d \in Calls : pc[d] = "reauth"

(* What docs/SECURITY.md asks for: an action on another user's session is  *)
(* logged before it is carried out.                                        *)
LoggedBeforeControl ==
    [][\A c \in performed' \ performed :
           request[c].session \notin Mine => c \in audited]_vars
=============================================================================
