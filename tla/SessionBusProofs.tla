-------------------------- MODULE SessionBusProofs --------------------------
(***************************************************************************)
(* Proofs about the admin daemon, on its own and on the bus, for any       *)
(* number of calls and sessions and any policy.  AuthInv says what each    *)
(* stage of a call has established; the ground it acts on no longer        *)
(* changes once its action is carried out.  Within the composition the     *)
(* daemon does nothing it does not do on its own, so what is proved of it  *)
(* holds there too; the log of messages agrees with the shell's list, and  *)
(* a thread that waits for the daemon holds nothing the others need.       *)
(***************************************************************************)
EXTENDS SessionBus, TLAPS

-----------------------------------------------------------------------------
(* The daemon.                                                             *)

Acting == {"act", "audit", "notify", "ok"}
Known == {"discover", "decide", "reauth"} \cup Acting

\* What holds of a call at each stage.
Stands(c) ==
    /\ pc[c] \in {"identify"} \cup Known => Enabled(c)
    /\ pc[c] \in Known => request[c].caller = "self"
    /\ pc[c] \in Acting => Justified(c)
    /\ pc[c] \in {"audit", "notify", "ok"} => c \in performed
    /\ c \in performed => /\ pc[c] \in {"audit", "notify", "ok", "lost"}
                          /\ Enabled(c) /\ request[c].caller = "self"
                          /\ Justified(c)
    /\ c \in audited \cup unwritten => c \in performed
    /\ LogActions /\ pc[c] \in {"notify", "ok"} => c \in audited \cup unwritten

AuthInv == \A c \in Calls : Stands(c)

Inv == TypeOK /\ AuthInv

USE DEF Action, Request, Answer, Stage, Grant, At

LEMMA InitInv == Init => Inv
<1> SUFFICES ASSUME Init PROVE Inv
  OBVIOUS
<1>1. TypeOK
  BY AdminAssumption DEF Init, TypeOK
<1>2. AuthInv
  BY DEF Init, AuthInv, Stands, Known, Acting
<1> QED
  BY <1>1, <1>2 DEF Inv

LEMMA NextType == TypeOK /\ [Next]_vars => TypeOK'
<1> SUFFICES ASSUME TypeOK, [Next]_vars PROVE TypeOK'
  OBVIOUS
<1> USE DEF TypeOK, Goto, Keep, host, effects
<1>1. ASSUME NEW c \in Calls, RefuseBlank(c) \/ Receive(c) \/ Identify(c)
             \/ Discover(c) \/ ActFails(c) \/ Notify(c)
      PROVE  TypeOK'
  BY <1>1 DEF RefuseBlank, Receive, Identify, Discover, ActFails, Notify
<1>2. ASSUME NEW c \in Calls, Decide(c) PROVE TypeOK'
  BY <1>2 DEF Decide, Plan
<1>3. ASSUME NEW c \in Calls, Reauthenticate(c) PROVE TypeOK'
  BY <1>3 DEF Reauthenticate
<1>4. ASSUME NEW c \in Calls, Act(c) PROVE TypeOK'
  BY <1>4 DEF Act
<1>5. ASSUME NEW c \in Calls, Audit(c) PROVE TypeOK'
  BY <1>5 DEF Audit, Logged
<1>6. CASE SessionStarts \/ SessionEnds \/ GroupChanges
  BY <1>6 DEF SessionStarts, SessionEnds, GroupChanges
<1>7. CASE Killed
  BY <1>7 DEF Killed
<1>8. CASE UNCHANGED vars
  BY <1>8 DEF vars
<1> QED
  BY <1>1, <1>2, <1>3, <1>4, <1>5, <1>6, <1>7, <1>8 DEF Next, Handle

\* A call whose own state does not change keeps its standing.
Untouched(d) ==
    /\ pc'[d] = pc[d] /\ request'[d] = request[d] /\ grant'[d] = grant[d]
    /\ d \in performed' <=> d \in performed
    /\ d \in audited' <=> d \in audited
    /\ d \in unwritten' <=> d \in unwritten

LEMMA UntouchedStands ==
  ASSUME NEW d \in Calls, Stands(d), Untouched(d) PROVE Stands(d)'
  BY DEF Stands, Untouched, Enabled, Justified

\* A handler touches no call but its own.
LEMMA OtherUntouched ==
  ASSUME TypeOK, NEW c \in Calls, NEW d \in Calls, c # d, Handle(c)
  PROVE  Untouched(d)
<1> USE DEF TypeOK, Goto, Keep, host, effects, Untouched
<1>1. CASE RefuseBlank(c) \/ Receive(c) \/ Identify(c) \/ Discover(c)
           \/ ActFails(c) \/ Notify(c)
  BY <1>1 DEF RefuseBlank, Receive, Identify, Discover, ActFails, Notify
<1>2. CASE Decide(c) \/ Reauthenticate(c)
  BY <1>2 DEF Decide, Reauthenticate
<1>3. CASE Act(c)
  BY <1>3 DEF Act
<1>4. CASE Audit(c)
  <2>1. /\ pc'[d] = pc[d]
        /\ UNCHANGED <<request, grant, performed>>
    BY <1>4 DEF Audit, Logged
  <2>2. audited' \in {audited, audited \cup {c}}
        /\ unwritten' \in {unwritten, unwritten \cup {c}}
    BY <1>4 DEF Audit
  <2> QED
    BY <2>1, <2>2
<1> QED
  BY <1>1, <1>2, <1>3, <1>4 DEF Handle

\* A handler leaves its own call in good standing.
LEMMA HandlerStands ==
  ASSUME TypeOK, NEW c \in Calls, Stands(c), Handle(c)
  PROVE  Stands(c)'
<1> USE DEF TypeOK, Goto, Keep, host, effects, Stands, Acting, Known, Enabled
<1>0. pc[c] \in {"idle", "identify", "discover", "decide", "reauth", "act"} =>
          c \notin performed
  OBVIOUS
<1>1. CASE RefuseBlank(c) \/ Receive(c) \/ Identify(c) \/ Discover(c)
           \/ ActFails(c)
  <2>1. UNCHANGED <<request, grant, effects>> /\ c \notin performed
    BY <1>0, <1>1 DEF RefuseBlank, Receive, Identify, Discover, ActFails
  <2>2. pc'[c] \in {"invalid", "identify", "denied", "discover", "decide",
                    "failed"}
    BY <1>1 DEF RefuseBlank, Receive, Identify, Discover, ActFails
  <2>3. pc'[c] \in {"identify"} \cup Known => Enabled(c)
    BY <1>1 DEF RefuseBlank, Receive, Identify, Discover, ActFails
  <2>4. pc'[c] \in Known => request[c].caller = "self"
    BY <1>1 DEF RefuseBlank, Receive, Identify, Discover, ActFails
  <2> QED
    BY <2>1, <2>2, <2>3, <2>4
<1>2. CASE Decide(c)
  <2>1. /\ grant'[c] = Plan(c)
        /\ c \notin performed /\ UNCHANGED <<request, effects>>
        /\ pc'[c] \in {"denied", "reauth", "act"}
        /\ pc'[c] = "act" => Plan(c) # "none" /\ ~(Plan(c) = "admin" /\ RequireReauth)
    BY <1>0, <1>2 DEF Decide
  <2>2. pc'[c] = "act" => Justified(c)'
    BY <2>1 DEF Plan, Justified
  <2>3. Enabled(c) /\ request[c].caller = "self"
    BY <1>2 DEF Decide
  <2> QED
    BY <2>1, <2>2, <2>3
<1>3. CASE Reauthenticate(c)
  <2>1. /\ c \notin performed /\ UNCHANGED <<request, effects>>
        /\ \/ pc'[c] = "act" /\ grant'[c] = "reauthenticated"
           \/ pc'[c] = "denied"
    BY <1>0, <1>3 DEF Reauthenticate
  <2>2. Enabled(c) /\ request[c].caller = "self"
    BY <1>3 DEF Reauthenticate
  <2>3. pc'[c] = "act" => Justified(c)'
    BY <2>1 DEF Justified
  <2> QED
    BY <2>1, <2>2, <2>3
<1>4. CASE Act(c)
  BY <1>4 DEF Act, Justified
<1>5. CASE Audit(c)
  <2>1. /\ UNCHANGED <<request, grant, performed>> /\ c \in performed
        /\ pc'[c] \in {"notify", "ok"}
        /\ Enabled(c) /\ request[c].caller = "self" /\ Justified(c)
    BY <1>5 DEF Audit, Logged
  <2>2. LogActions => c \in audited' \cup unwritten'
    BY <1>5 DEF Audit
  <2> QED
    BY <2>1, <2>2 DEF Justified
<1>6. CASE Notify(c)
  BY <1>6 DEF Notify, Justified
<1> QED
  BY <1>1, <1>2, <1>3, <1>4, <1>5, <1>6 DEF Handle

LEMMA NextAuth == TypeOK /\ AuthInv /\ [Next]_vars => AuthInv'
<1> SUFFICES ASSUME TypeOK, AuthInv, [Next]_vars, NEW d \in Calls
             PROVE  Stands(d)'
  BY DEF AuthInv
<1>0. Stands(d)
  BY DEF AuthInv
<1>1. ASSUME NEW c \in Calls, Handle(c) PROVE Stands(d)'
  BY <1>0, <1>1, HandlerStands, OtherUntouched, UntouchedStands
<1>2. CASE SessionStarts \/ SessionEnds \/ GroupChanges \/ UNCHANGED vars
  <2>1. Untouched(d)
    BY <1>2 DEF SessionStarts, SessionEnds, GroupChanges, vars, effects,
       Untouched
  <2> QED
    BY <1>0, <2>1, UntouchedStands
<1>3. CASE Killed
  <2>1. /\ UNCHANGED <<request, grant, effects>>
        /\ pc'[d] = pc[d] \/ pc'[d] = "lost"
    BY <1>3 DEF Killed, Keep, TypeOK
  <2> QED
    BY <1>0, <2>1 DEF Stands, Enabled, Justified, Known, Acting, effects
<1> QED
  BY <1>1, <1>2, <1>3 DEF Next

(* The types are right and each stage of a call has established its share. *)
THEOREM Established == Spec => []Inv
<1>1. Inv /\ [Next]_vars => Inv'
  BY NextType, NextAuth DEF Inv
<1> QED
  BY <1>1, InitInv, PTL DEF Spec

(* Whatever the policy, however many calls there are and whatever changes  *)
(* while they wait: every action carried out was allowed by the policy,    *)
(* asked for by the daemon's own user and, on another user's session,      *)
(* justified by the group and by a re-authentication of its own.           *)
THEOREM ActionsAreAuthorized == Spec => []OnlyAuthorized
<1>1. Inv => OnlyAuthorized
  BY DEF Inv, AuthInv, Stands, OnlyAuthorized, TypeOK
<1> QED
  BY <1>1, Established, PTL

(* The audit log has no line without an action, and an action without a    *)
(* line is one whose line failed or whose daemon was killed before it.     *)
THEOREM AuditLogIsTrue == Spec => []AuditTrail
<1>1. Inv => AuditTrail
  BY DEF Inv, AuthInv, Stands, AuditTrail, TypeOK
<1> QED
  BY <1>1, Established, PTL

(* Every call has a request, a ground and a stage of its handler, and no    *)
(* effect is recorded of anything but a call.                               *)
THEOREM DaemonTypeCorrect == Spec => []TypeOK
<1>1. Inv => TypeOK
  BY DEF Inv
<1> QED
  BY <1>1, Established, PTL

-----------------------------------------------------------------------------
(* The composition.                                                        *)


\* Every step of the composition is a step of the daemon or leaves it alone.
LEMMA BusStep == [BusNext]_busVars => [Next]_vars
<1> SUFFICES ASSUME [BusNext]_busVars PROVE [Next]_vars
  OBVIOUS
<1>1. CASE UiStep \/ NotifierStep
  BY <1>1 DEF UiStep, UiReturns, UiLocks, UiUnlocks, NotifierStep,
     NotifierTakes, NotifierLocks, NotifierPosts
<1>2. CASE World
  BY <1>2 DEF World, Next
<1>3. ASSUME NEW c \in Calls, UiRequests(c) \/ Asks(c)
      PROVE  [Next]_vars
  BY <1>3 DEF UiRequests, Asks
<1>4. ASSUME NEW c \in Calls, Works(c) \/ GoesOn(c) \/ PolkitAnswers(c)
                              \/ NotificationFails(c)
      PROVE  [Next]_vars
  <2>1. Handle(c)
    BY <1>4 DEF Works, GoesOn, PolkitAnswers, NotificationFails, Handle
  <2> QED
    BY <2>1 DEF Next
<1>5. CASE UNCHANGED busVars
  BY <1>5 DEF busVars
<1> QED
  BY <1>1, <1>2, <1>3, <1>4, <1>5 DEF BusNext, DaemonStep

(* The composition implements the daemon's specification: waiting for the  *)
(* shell's own notification thread takes nothing away from what is proved  *)
(* about authorization and the audit log.                                  *)
THEOREM BusImplementsDaemon == BusSpec => Spec
<1>1. BusInit => Init
  BY DEF BusInit
<1> QED
  BY <1>1, BusStep, PTL DEF BusSpec, Spec

\* What is answered has been posted, and a message carried out was answered.
DeliveryInv ==
    /\ replied \subseteq posted
    /\ \A c \in performed :
           request[c].action = "send message" => c \in posted

LEMMA DeliveryInit == BusInit => DeliveryInv
  BY DEF BusInit, Init, DeliveryInv

LEMMA DeliveryNext == Inv /\ DeliveryInv /\ [BusNext]_busVars => DeliveryInv'
<1> SUFFICES ASSUME Inv, DeliveryInv, [BusNext]_busVars PROVE DeliveryInv'
  OBVIOUS
<1> USE DEF DeliveryInv
<1>1. CASE UiStep \/ NotifierStep
  BY <1>1 DEF UiStep, UiReturns, UiLocks, UiUnlocks, NotifierStep,
     NotifierTakes, NotifierLocks, NotifierPosts, vars, effects
<1>2. CASE World
  BY <1>2 DEF World, shell, SessionStarts, SessionEnds, GroupChanges, Killed,
     Keep, effects
<1>3. ASSUME NEW c \in Calls, UiRequests(c) \/ Asks(c) PROVE DeliveryInv'
  BY <1>3 DEF UiRequests, Asks, vars, effects
<1>4. ASSUME NEW c \in Calls, GoesOn(c) PROVE DeliveryInv'
  <2>1. request' = request /\ UNCHANGED shell /\ c \in posted
        /\ performed' \in {performed, performed \cup {c}}
    BY <1>4 DEF GoesOn, Act, Notify, Keep, effects
  <2> QED
    BY <2>1 DEF shell
<1>5. ASSUME NEW c \in Calls, Works(c) PROVE DeliveryInv'
  <2>1. request' = request /\ UNCHANGED shell
        /\ \/ performed' = performed
           \/ performed' = performed \cup {c} /\ Act(c)
    BY <1>5 DEF Works, Handle, RefuseBlank, Receive, Identify, Discover, Decide,
       Reauthenticate, ActFails, Audit, Notify, Act, Keep, effects
  <2>2. Act(c) => request[c].action # "send message"
    BY <1>5 DEF Works, Notifies, Sends, Act
  <2> QED
    BY <2>1, <2>2 DEF shell
<1>6. ASSUME NEW c \in Calls, PolkitAnswers(c) \/ NotificationFails(c)
      PROVE  DeliveryInv'
  BY <1>6 DEF PolkitAnswers, NotificationFails, Reauthenticate, ActFails, Notify,
     Keep, effects, shell
<1>7. CASE UNCHANGED busVars
  BY <1>7 DEF busVars, vars, effects, shell
<1> QED
  BY <1>1, <1>2, <1>3, <1>4, <1>5, <1>6, <1>7 DEF BusNext, DaemonStep

(* A message logged as delivered is in the shell's list of notifications,  *)
(* for any number of concurrent calls.                                     *)
THEOREM LoggedMeansArrived == BusSpec => []LoggedMessagesArrived
<1>1. Inv /\ DeliveryInv => LoggedMessagesArrived
  BY DEF Inv, TypeOK, AuthInv, Stands, DeliveryInv, LoggedMessagesArrived
<1>2. BusSpec => []Inv
  BY BusImplementsDaemon, Established, PTL
<1> QED
  BY <1>1, <1>2, DeliveryInit, DeliveryNext, PTL DEF BusSpec

-----------------------------------------------------------------------------
(* Threads and the mutex.                                                  *)

\* The mutex is held by the thread that works on the list and by no other.
ThreadInv ==
    /\ ui \in UiState /\ uiCall \subseteq Calls
    /\ mutex \in {"free", "ui", "notifier"}
    /\ inbox \subseteq Calls /\ notifier \subseteq Calls
    /\ posted \subseteq Calls /\ replied \subseteq posted
    /\ mutex = "ui" <=> ui = "locked"
    /\ mutex = "notifier" => notifier # {}

LEMMA ThreadInit == BusInit => ThreadInv
  BY DEF BusInit, ThreadInv, UiState

LEMMA ThreadNext == ThreadInv /\ [BusNext]_busVars => ThreadInv'
<1> SUFFICES ASSUME ThreadInv, [BusNext]_busVars PROVE ThreadInv'
  OBVIOUS
<1> USE DEF ThreadInv, UiState
<1>1. CASE UiStep
  BY <1>1 DEF UiStep, UiReturns, UiLocks, UiUnlocks
<1>2. CASE NotifierStep
  BY <1>2 DEF NotifierStep, NotifierTakes, NotifierLocks, NotifierPosts
<1>3. ASSUME NEW c \in Calls, UiRequests(c) PROVE ThreadInv'
  BY <1>3 DEF UiRequests
<1>4. ASSUME NEW c \in Calls, Asks(c) PROVE ThreadInv'
  BY <1>4 DEF Asks
<1>5. CASE UNCHANGED shell
  BY <1>5 DEF shell
<1>6. CASE World
  BY <1>5, <1>6 DEF World
<1>7. ASSUME NEW c \in Calls, Works(c) \/ GoesOn(c) \/ PolkitAnswers(c)
                              \/ NotificationFails(c)
      PROVE  ThreadInv'
  BY <1>5, <1>7 DEF Works, GoesOn, PolkitAnswers, NotificationFails
<1>8. CASE UNCHANGED busVars
  BY <1>5, <1>8 DEF busVars
<1> QED
  BY <1>1, <1>2, <1>3, <1>4, <1>6, <1>7, <1>8 DEF BusNext, DaemonStep

LEMMA Threads == BusSpec => []ThreadInv
  BY ThreadInit, ThreadNext, PTL DEF BusSpec

(* Requests, answers and posts are of calls, and nothing is answered that   *)
(* has not been posted.                                                     *)
THEOREM BusTypeCorrect == BusSpec => []BusTypeOK
<1>1. TypeOK /\ ThreadInv => BusTypeOK
  BY DEF ThreadInv, BusTypeOK
<1> QED
  BY <1>1, Threads, BusImplementsDaemon, DaemonTypeCorrect, PTL

(* The UI thread waits for the daemon with the mutex in other hands or in   *)
(* none: the notification thread that the daemon waits for never waits for  *)
(* the UI thread, so the circle of calls does not close.                    *)
THEOREM WaitingHoldsNothing ==
  BusSpec => [](ui = "waiting" =>
                  \/ mutex = "free"
                  \/ mutex = "notifier" /\ notifier # {})
<1>1. ThreadInv => (ui = "waiting" =>
                      \/ mutex = "free"
                      \/ mutex = "notifier" /\ notifier # {})
  BY DEF ThreadInv
<1> QED
  BY <1>1, Threads, PTL
=============================================================================
