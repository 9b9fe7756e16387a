----------------------- MODULE SessionSupervisorProofs -----------------------
(***************************************************************************)
(* Theorems about the session supervisor, for every value of its timing    *)
(* constants, every set of children that may exit and every fault.         *)
(***************************************************************************)
EXTENDS SessionSupervisor, FiniteSetTheorems, TLAPS

\* Where the loops of the task may stand.
PositionOK ==
    /\ pc \in {"launch", "query", "backoff", "reap"} => cur \in First..Last
    /\ pc \in {"refresh", "check"} => cur \in First..Last + 1
    /\ pc = "stop" => cur \in 0..Last

LEMMA FirstInRange == First \in 1..2
  BY SupervisorAssumption DEF First

LEMMA PositionIsRole == \A i \in 1..Last : LaunchOrder[i] \in Role
  BY DEF LaunchOrder, Last, Role

-----------------------------------------------------------------------------
(* What the building blocks of the actions do to the types.                *)

LEMMA SpawnKeepsWorld ==
  ASSUME WorldOK, NEW r, Spawn(r) PROVE WorldOK'
<1>1. proc' \in [Role -> {"absent", "running", "exited", "reaped"}]
  BY DEF WorldOK, Spawn
<1>2. appeared' \in [Role -> BOOLEAN]
  <2> DEFINE up == owner[r] # "none"
  <2>1. up \in BOOLEAN OBVIOUS
  <2> HIDE DEF up
  <2>2. appeared' = [appeared EXCEPT ![r] = up]
    BY DEF Spawn, up
  <2> QED BY <2>1, <2>2 DEF WorldOK
<1> QED BY <1>1, <1>2 DEF WorldOK, Spawn

LEMMA SpawnEffect ==
  ASSUME WorldOK, NEW r \in Role, Spawn(r)
  PROVE  /\ UNCHANGED owner
         /\ \A q \in Role : proc'[q] = IF q = r THEN "running" ELSE proc[q]
         /\ \A q \in Role \ {r} : appeared'[q] = appeared[q]
         /\ owner[r] # "none" => appeared'[r]
<1> DEFINE up == owner[r] # "none"
<1>1. appeared' = [appeared EXCEPT ![r] = up]
  BY DEF Spawn
<1>2. appeared'[r] = up /\ \A q \in Role \ {r} : appeared'[q] = appeared[q]
  BY <1>1, Zenon DEF WorldOK
<1> QED BY <1>2 DEF Spawn, WorldOK

LEMMA ReapKeepsWorld ==
  ASSUME WorldOK, NEW r, Reap(r) PROVE WorldOK'
  BY DEF WorldOK, Reap

LEMMA DeathKeepsWorld ==
  ASSUME WorldOK, NEW r, Dies(r) PROVE WorldOK'
<1>1. proc' \in [Role -> {"absent", "running", "exited", "reaped"}]
  BY DEF WorldOK, Dies
<1>2. owner' \in [Role -> {"none", "child", "other"}]
  BY DEF WorldOK, Dies
<1> QED BY <1>1, <1>2 DEF WorldOK, Dies

LEMMA NameKeepsWorld ==
  ASSUME WorldOK, NEW r, ChildTakesName(r) \/ LeftoverEnds(r) PROVE WorldOK'
  BY DEF WorldOK, ChildTakesName, LeftoverEnds

LEMMA MarkHealthyKeepsRecords ==
  ASSUME RecordsOK, NEW b \in BOOLEAN, MarkHealthy(b) PROVE RecordsOK'
  BY DEF RecordsOK, MarkHealthy

LEMMA PruneKeepsRecords ==
  ASSUME RecordsOK, NEW r,
         attempts' = [attempts EXCEPT ![r] = Unexpired(@)],
         UNCHANGED <<healthy, startedAt, history>>
  PROVE  RecordsOK'
<1>1. attempts' \in [Role -> SUBSET Nat]
  BY DEF RecordsOK, Unexpired
<1> QED BY <1>1 DEF RecordsOK

LEMMA MarkRestartedKeepsRecords ==
  ASSUME RecordsOK, now \in Nat, NEW r, MarkRestarted(r) PROVE RecordsOK'
<1>1. healthy' \in [Role -> BOOLEAN] /\ startedAt' \in [Role -> Nat]
  BY DEF RecordsOK, MarkRestarted
<1>2. attempts' \in [Role -> SUBSET Nat] /\ history' \in [Role -> SUBSET Nat]
  BY DEF RecordsOK, MarkRestarted
<1> QED BY <1>1, <1>2 DEF RecordsOK

-----------------------------------------------------------------------------
(* Each part of the type invariant is preserved by every step.             *)

LEMMA WorldStep ==
  ASSUME WorldOK, [Next]_vars PROVE WorldOK'
<1>1. CASE UNCHANGED world
  BY <1>1 DEF world, WorldOK
<1>2. CASE Launch \/ Respawn
  BY <1>2, SpawnKeepsWorld DEF Launch, Respawn
<1>3. CASE ExitIsFatal \/ ExitWithoutBudget \/ ExitWithBudget \/ StopReaps
  BY <1>3, ReapKeepsWorld
     DEF ExitIsFatal, ExitWithoutBudget, ExitWithBudget, StopReaps
<1>4. CASE Children
  BY <1>4, DeathKeepsWorld, NameKeepsWorld
     DEF Children, KilledChildDies, ChildExits
<1>5. CASE Refresh
  BY <1>1, <1>5 DEF Refresh, RefreshSkips, RefreshCompositor, AskBus,
     BusReplies, BusIsSilent, BusFails, DeclareReady, RefreshDone
<1>6. CASE CheckPasses \/ RespawnFails \/ WaitFails \/ StartupTimesOut
           \/ PauseStartup \/ SuperviseAgain
  BY <1>1, <1>6 DEF CheckPasses, RespawnFails, WaitFails, StartupTimesOut,
     PauseStartup, SuperviseAgain
<1>7. CASE LaunchFails \/ PollTimerFires \/ StopSkips \/ StopKills
           \/ StopRefused \/ StopDone \/ Tick \/ Signal
  BY <1>1, <1>7 DEF LaunchFails, PollTimerFires, StopSkips, StopKills,
     StopRefused, StopDone, Tick, Signal, InterruptHeard, InterruptLost, InterruptKills,
     TerminateKills, Killed
<1>8. CASE UNCHANGED vars
  BY <1>1, <1>8 DEF vars
<1> QED BY <1>2, <1>3, <1>4, <1>5, <1>6, <1>7, <1>8
        DEF Next, Supervisor, CheckExits, Shutdown

LEMMA RecordsStep ==
  ASSUME TypeOK, PositionOK, [Next]_vars PROVE RecordsOK'
<1> USE DEF TypeOK
<1>1. CASE UNCHANGED records
  BY <1>1 DEF records, RecordsOK
<1>2. CASE Launch
  BY <1>2 DEF Launch, RecordsOK
<1>3. CASE RefreshCompositor
  <2> DEFINE up == now - startedAt[Here] >= Grace
  <2>1. up \in BOOLEAN
    OBVIOUS
  <2> QED BY <1>3, <2>1, MarkHealthyKeepsRecords DEF RefreshCompositor
<1>4. CASE BusReplies
  <2>1. (owner[Here] # "none") \in BOOLEAN
    OBVIOUS
  <2> QED BY <1>4, <2>1, MarkHealthyKeepsRecords DEF BusReplies
<1>5. CASE BusIsSilent
  BY <1>5, MarkHealthyKeepsRecords DEF BusIsSilent
<1>6. CASE ExitWithoutBudget \/ ExitWithBudget
  BY <1>6, PruneKeepsRecords DEF ExitWithoutBudget, ExitWithBudget
<1>7. CASE Respawn
  BY <1>7, MarkRestartedKeepsRecords DEF Respawn
<1>8. CASE RefreshSkips \/ AskBus \/ BusFails \/ DeclareReady \/ RefreshDone
  BY <1>1, <1>8 DEF RefreshSkips, AskBus, BusFails, DeclareReady, RefreshDone
<1>9. CASE CheckPasses \/ ExitIsFatal \/ RespawnFails \/ WaitFails
           \/ StartupTimesOut \/ PauseStartup \/ SuperviseAgain
  BY <1>1, <1>9 DEF CheckPasses, ExitIsFatal, RespawnFails, WaitFails,
     StartupTimesOut, PauseStartup, SuperviseAgain
<1>10. CASE LaunchFails \/ PollTimerFires \/ Shutdown \/ Tick
  BY <1>1, <1>10 DEF LaunchFails, PollTimerFires, Shutdown, StopSkips,
     StopKills, StopRefused, StopReaps, StopDone, Tick
<1>11. CASE Children \/ Signal
  BY <1>1, <1>11 DEF Children, KilledChildDies, ChildExits, Dies,
     ChildTakesName, LeftoverEnds, Signal, InterruptHeard, InterruptLost,
     InterruptKills, TerminateKills, Killed
<1>12. CASE UNCHANGED vars
  BY <1>1, <1>12 DEF vars
<1> QED BY <1>2, <1>3, <1>4, <1>5, <1>6, <1>7, <1>8, <1>9, <1>10, <1>11, <1>12
        DEF Next, Supervisor, Refresh, CheckExits

LEMMA ControlStep ==
  ASSUME TypeOK, PositionOK, [Next]_vars PROVE ControlOK' /\ PositionOK'
<1> USE FirstInRange, SupervisorAssumption
    DEF TypeOK, ControlOK, PositionOK, Last, GoTo, Sleep, Finish
<1>1. CASE Launch \/ LaunchFails
  BY <1>1 DEF Launch, LaunchFails
<1>2. CASE RefreshSkips \/ AskBus \/ BusFails \/ RefreshDone
  BY <1>2 DEF RefreshSkips, AskBus, BusFails, RefreshDone
<1>3. CASE RefreshCompositor \/ BusReplies \/ BusIsSilent
  BY <1>3 DEF RefreshCompositor, BusReplies, BusIsSilent, MarkHealthy
<1>4. CASE CheckPasses \/ ExitIsFatal \/ ExitWithoutBudget \/ ExitWithBudget
  BY <1>4 DEF CheckPasses, ExitIsFatal, ExitWithoutBudget, ExitWithBudget
<1>5. CASE Respawn \/ RespawnFails \/ WaitFails
  BY <1>5 DEF Respawn, RespawnFails, WaitFails
<1>6. CASE StartupTimesOut \/ PauseStartup \/ PollTimerFires
  BY <1>6 DEF StartupTimesOut, PauseStartup, PollTimerFires
<1>7. CASE Shutdown
  BY <1>7 DEF Shutdown, StopSkips, StopKills, StopRefused, StopReaps, StopDone
<1>8. CASE Tick \/ Children
  BY <1>8 DEF Tick, Children, KilledChildDies, ChildExits, Dies,
     ChildTakesName, LeftoverEnds, control
<1>9. CASE Signal
  BY <1>9 DEF Signal, InterruptHeard, InterruptLost, InterruptKills,
     TerminateKills, Killed, control
<1>10. CASE UNCHANGED vars
  BY <1>10 DEF vars, control
<1>11. CASE DeclareReady \/ SuperviseAgain
  <2>1. /\ pc' = "select" /\ cur' = cur /\ handler' = TRUE
        /\ wakeAt' = now + Poll /\ outcome' = outcome
    BY <1>11 DEF DeclareReady, SuperviseAgain, EnterSelect
  <2>2. phase' \in {"startup", "supervising"}
    BY <1>11 DEF DeclareReady, SuperviseAgain
  <2> QED BY <2>1, <2>2
<1> QED BY <1>1, <1>2, <1>3, <1>4, <1>5, <1>6, <1>7, <1>8, <1>9, <1>10, <1>11
        DEF Next, Supervisor, Refresh, CheckExits

LEMMA ClockStep ==
  ASSUME TypeOK, [Next]_vars
  PROVE  now' \in Nat /\ now <= now'
<1> USE DEF TypeOK
<1>1. CASE UNCHANGED now
  BY <1>1
<1>2. CASE Launch \/ LaunchFails
  BY <1>1, <1>2 DEF Launch, LaunchFails
<1>3. CASE Refresh
  BY <1>1, <1>3 DEF Refresh, RefreshSkips, RefreshCompositor, AskBus,
     BusReplies, BusIsSilent, BusFails, DeclareReady, RefreshDone
<1>4. CASE CheckExits
  BY <1>4 DEF CheckExits, CheckPasses, ExitIsFatal, ExitWithoutBudget,
     ExitWithBudget, Respawn, RespawnFails, WaitFails, StartupTimesOut,
     PauseStartup, SuperviseAgain
<1>5. CASE PollTimerFires \/ Shutdown
  BY <1>5 DEF PollTimerFires, Shutdown, StopSkips, StopKills,
     StopRefused, StopReaps, StopDone
<1>6. CASE Tick \/ Children
  BY <1>6 DEF Tick, Children, KilledChildDies, ChildExits, Dies,
     ChildTakesName, LeftoverEnds
<1>7. CASE Signal
  BY <1>7 DEF Signal, InterruptHeard, InterruptLost, InterruptKills,
     TerminateKills, Killed
<1>8. CASE UNCHANGED vars
  BY <1>8 DEF vars
<1> QED BY <1>2, <1>3, <1>4, <1>5, <1>6, <1>7, <1>8
        DEF Next, Supervisor

\* The state keeps its shape, and the loops of the task stay within the
\* children vector, through every interleaving of the task, its children, the
\* clock and signals.
THEOREM TypeCorrect == Spec => [](TypeOK /\ PositionOK)
<1>1. Init => TypeOK /\ PositionOK
  <2> SUFFICES ASSUME Init PROVE TypeOK /\ PositionOK
    OBVIOUS
  <2>1. ControlOK /\ PositionOK
    <3>1. /\ pc = "launch" /\ cur = First /\ phase = "startup"
          /\ outcome = "none" /\ wakeAt = 0
      BY DEF Init
    <3>2. handler \in BOOLEAN
      BY DEF Init
    <3> QED BY <3>1, <3>2, FirstInRange DEF ControlOK, PositionOK, Last
  <2>2. RecordsOK
    BY DEF Init, RecordsOK
  <2>3. WorldOK
    BY DEF Init, WorldOK
  <2> QED BY <2>1, <2>2, <2>3 DEF Init, TypeOK
<1>2. TypeOK /\ PositionOK /\ [Next]_vars => (TypeOK /\ PositionOK)'
  BY WorldStep, RecordsStep, ControlStep, ClockStep DEF TypeOK
<1> QED BY <1>1, <1>2, PTL DEF Spec

-----------------------------------------------------------------------------
(* The restart budget.                                                     *)

\* The queue of attempts holds every restart young enough to count, and a
\* backoff in progress was granted with room for one more in the stretch of
\* Window + Backoff that ends when its timer is due.
BudgetInv ==
    /\ \A r \in Role : /\ IsFiniteSet(history[r])
                       /\ attempts[r] \subseteq history[r]
                       /\ \A u \in history[r] :
                            u <= now /\ (now - u <= Window => u \in attempts[r])
    /\ pc = "backoff" =>
         /\ wakeAt <= now + Backoff
         /\ Cardinality(attempts[Here]) < MaxRestarts
         /\ \A u \in history[Here] :
              wakeAt <= u + Window + Backoff => u \in attempts[Here]

\* What a step that has nothing to do with the budget leaves alone.
Untouched ==
    /\ UNCHANGED <<now, history, attempts>>
    /\ pc' = "backoff" => pc = "backoff" /\ UNCHANGED <<wakeAt, cur>>

LEMMA BudgetActions ==
  ASSUME [Next]_vars
  PROVE  Tick \/ ExitWithBudget \/ ExitWithoutBudget \/ Respawn \/ Untouched
<1> USE DEF GoTo, Sleep, Finish, Untouched, records
<1>1. CASE LaunchFails \/ Refresh
  BY <1>1 DEF LaunchFails, Refresh, RefreshSkips, RefreshCompositor,
     MarkHealthy, AskBus, BusReplies, BusIsSilent, BusFails, DeclareReady,
     EnterSelect, RefreshDone
<1>2. CASE Launch
  BY <1>2 DEF Launch
<1>3. CASE CheckPasses \/ ExitIsFatal \/ RespawnFails \/ WaitFails
           \/ StartupTimesOut \/ PauseStartup \/ SuperviseAgain
  BY <1>3 DEF CheckPasses, ExitIsFatal, RespawnFails, WaitFails,
     StartupTimesOut, PauseStartup, SuperviseAgain, EnterSelect
<1>4. CASE PollTimerFires \/ Shutdown
  BY <1>4 DEF PollTimerFires, Shutdown, StopSkips, StopKills,
     StopRefused, StopReaps, StopDone
<1>5. CASE Children
  BY <1>5 DEF Children, KilledChildDies, ChildExits, Dies, ChildTakesName,
     LeftoverEnds, control
<1>6. CASE Signal
  BY <1>6 DEF Signal, InterruptHeard, InterruptLost, InterruptKills,
     TerminateKills, Killed, control
<1>7. CASE UNCHANGED vars
  BY <1>7 DEF vars, control
<1> QED BY <1>1, <1>2, <1>3, <1>4, <1>5, <1>6, <1>7
        DEF Next, Supervisor, CheckExits

LEMMA BudgetInvInit == Init => BudgetInv
  BY FS_EmptySet DEF Init, BudgetInv

LEMMA BudgetInvStep ==
  ASSUME TypeOK, PositionOK, BudgetInv, [Next]_vars PROVE BudgetInv'
<1> USE SupervisorAssumption DEF TypeOK, ControlOK, RecordsOK, Here
<1>1. CASE Untouched
  BY <1>1 DEF Untouched, BudgetInv
<1>2. CASE Tick
  BY <1>2 DEF Tick, BudgetInv, control, records
<1>3. ASSUME ExitWithBudget \/ ExitWithoutBudget PROVE BudgetInv'
  <2> DEFINE left == Unexpired(attempts[Here])
  <2>1. /\ attempts' = [attempts EXCEPT ![Here] = left]
        /\ UNCHANGED <<now, history>>
    BY <1>3 DEF ExitWithBudget, ExitWithoutBudget
  <2>2. /\ left \subseteq attempts[Here]
        /\ \A u \in attempts[Here] : now - u <= Window => u \in left
    BY DEF Unexpired
  <2>3. ASSUME NEW r \in Role
        PROVE  /\ IsFiniteSet(history'[r])
               /\ attempts'[r] \subseteq history'[r]
               /\ \A u \in history'[r] :
                    u <= now' /\ (now' - u <= Window => u \in attempts'[r])
    BY <2>1, <2>2 DEF BudgetInv
  <2>4. CASE ExitWithoutBudget
    <3>1. pc' # "backoff"
      BY <2>4 DEF ExitWithoutBudget, Finish, GoTo
    <3> QED BY <2>3, <3>1 DEF BudgetInv
  <2>5. CASE ExitWithBudget
    <3>1. cur \in 1..Last /\ cur' = cur /\ wakeAt' = now + Backoff
      BY <2>5, FirstInRange DEF ExitWithBudget, Sleep, GoTo, PositionOK, Last
    <3>2. Here \in Role /\ Here' = Here
      BY <3>1, PositionIsRole
    <3>3. attempts'[Here] = left /\ Cardinality(left) < MaxRestarts
      BY <2>1, <2>5, <3>2 DEF ExitWithBudget, BudgetLeft
    <3>4. \A u \in history[Here] :
             wakeAt' <= u + Window + Backoff => u \in left
      BY <2>2, <3>1, <3>2 DEF BudgetInv
    <3> QED BY <2>1, <2>3, <3>1, <3>2, <3>3, <3>4 DEF BudgetInv
  <2> QED BY <1>3, <2>4, <2>5
<1>4. CASE Respawn
  <2>1. /\ attempts' = [attempts EXCEPT ![Here] = @ \cup {now}]
        /\ history' = [history EXCEPT ![Here] = @ \cup {now}]
        /\ now' = now /\ pc' = "check"
    BY <1>4 DEF Respawn, MarkRestarted, GoTo
  <2>2. ASSUME NEW r \in Role
        PROVE  /\ IsFiniteSet(history'[r])
               /\ attempts'[r] \subseteq history'[r]
               /\ \A u \in history'[r] :
                    u <= now' /\ (now' - u <= Window => u \in attempts'[r])
    <3>1. IsFiniteSet(history[r] \cup {now})
      BY FS_AddElement DEF BudgetInv
    <3>2. \/ history'[r] = history[r] /\ attempts'[r] = attempts[r]
          \/ /\ history'[r] = history[r] \cup {now}
             /\ attempts'[r] = attempts[r] \cup {now}
      BY <2>1
    <3>3. /\ IsFiniteSet(history[r]) /\ attempts[r] \subseteq history[r]
          /\ \A u \in history[r] :
               u <= now /\ (now - u <= Window => u \in attempts[r])
      BY DEF BudgetInv
    <3>4. now' = now /\ now \in Nat
      BY <2>1
    <3>5. CASE history'[r] = history[r] /\ attempts'[r] = attempts[r]
      BY <3>3, <3>4, <3>5
    <3>6. CASE /\ history'[r] = history[r] \cup {now}
               /\ attempts'[r] = attempts[r] \cup {now}
      BY <3>1, <3>3, <3>4, <3>6
    <3> QED BY <3>2, <3>5, <3>6
  <2> QED BY <2>1, <2>2 DEF BudgetInv
<1> QED BY <1>1, <1>2, <1>3, <1>4, BudgetActions

LEMMA BudgetInvAlways == Spec => []BudgetInv
  BY BudgetInvInit, BudgetInvStep, TypeCorrect, PTL DEF Spec

\* The limiter counts as the supervisor does.
LEMMA SameCount == \A S : Limiter!Cardinality(S) = Cardinality(S)
  BY DEF Limiter!Cardinality, Cardinality

\* The supervisor implements the abstract limiter: whatever exits, fails or
\* comes late, it never grants a restart the limiter would refuse.
THEOREM ImplementsLimiter == Spec => LimiterSpec
<1>1. Init => Limiter!Init
  BY DEF Init, Limiter!Init
<1>2. TypeOK /\ PositionOK /\ BudgetInv /\ [Next]_vars
        => [Limiter!Next]_(Limiter!vars)
  <2> SUFFICES ASSUME TypeOK, PositionOK, BudgetInv, [Next]_vars
               PROVE  [Limiter!Next]_(Limiter!vars)
    OBVIOUS
  <2>1. CASE Tick
    BY <2>1 DEF Tick, records, Limiter!Next, Limiter!Advance
  <2>2. CASE Respawn
    <3>1. cur \in 1..Last
      BY <2>2, FirstInRange DEF Respawn, PositionOK, Last
    <3>2. Here \in Role
      BY <3>1, PositionIsRole DEF Here
    <3>3. pc = "backoff" /\ now >= wakeAt
      BY <2>2 DEF Respawn, Due
    <3>4. Limiter!Recent(Here) \subseteq attempts[Here]
      BY <3>2, <3>3, SupervisorAssumption
         DEF Limiter!Recent, BudgetInv, TypeOK, ControlOK, RecordsOK
    <3>5. IsFiniteSet(attempts[Here])
      BY <3>2, FS_Subset DEF BudgetInv
    <3>6. Cardinality(Limiter!Recent(Here)) <= Cardinality(attempts[Here])
      BY <3>4, <3>5, FS_Subset
    <3>7. /\ Cardinality(attempts[Here]) < MaxRestarts
          /\ Cardinality(attempts[Here]) \in Nat
          /\ Cardinality(Limiter!Recent(Here)) \in Nat
      BY <3>3, <3>4, <3>5, FS_Subset, FS_CardinalityType DEF BudgetInv
    <3>8. Limiter!Granted(Here)
      BY <3>6, <3>7, SameCount, SupervisorAssumption DEF Limiter!Granted
    <3>9. /\ history' = [history EXCEPT ![Here] = @ \cup {now}]
          /\ UNCHANGED now
      BY <2>2 DEF Respawn, MarkRestarted
    <3> QED BY <3>2, <3>8, <3>9 DEF Limiter!Next, Limiter!Restart
  <2>3. CASE ExitWithBudget \/ ExitWithoutBudget \/ Untouched
    BY <2>3 DEF ExitWithBudget, ExitWithoutBudget, Untouched, Limiter!vars
  <2> QED BY <2>1, <2>2, <2>3, BudgetActions
<1> QED BY <1>1, <1>2, TypeCorrect, BudgetInvAlways, PTL
        DEF Spec, LimiterSpec, Limiter!Spec

-----------------------------------------------------------------------------
\* The limiter's own theorem, read in terms of the supervisor's variables.
LimiterProofs == INSTANCE RestartLimiterProofs WITH
    Horizon <- MaxTime, Limit <- MaxRestarts, Span <- Window + Backoff,
    restarts <- history

LEMMA SameCountInProofs == \A S : LimiterProofs!Cardinality(S) = Cardinality(S)
  BY DEF LimiterProofs!Cardinality, Cardinality

\* In no stretch of Window + Backoff is a role restarted more than
\* MaxRestarts times.
THEOREM RestartsAreBounded == Spec => []RestartBudget
<1>1. LimiterSpec => LimiterProofs!Spec
  <2>1. Limiter!Init => LimiterProofs!Init
    BY DEF Limiter!Init, LimiterProofs!Init
  <2>2. [Limiter!Next]_(Limiter!vars) =>
          [LimiterProofs!Next]_(LimiterProofs!vars)
    BY SameCount, SameCountInProofs
       DEF Limiter!Next, LimiterProofs!Next, Limiter!vars, LimiterProofs!vars,
       Limiter!Advance, LimiterProofs!Advance, Limiter!Restart,
       LimiterProofs!Restart, Limiter!Granted, LimiterProofs!Granted,
       Limiter!Recent, LimiterProofs!Recent
  <2> QED BY <2>1, <2>2, PTL
          DEF LimiterSpec, Limiter!Spec, LimiterProofs!Spec
<1>2. LimiterProofs!Bounded => RestartBudget
  BY SameCountInProofs DEF LimiterProofs!Bounded, LimiterProofs!Within, RestartBudget
<1>3. LimiterProofs!Spec => []LimiterProofs!Bounded
  BY SupervisorAssumption, LimiterProofs!LimiterBounded
     DEF LimiterProofs!LimiterConstants
<1> QED BY <1>1, <1>2, <1>3, ImplementsLimiter, PTL

-----------------------------------------------------------------------------
(* Readiness.                                                              *)

\* Health is a statement about the current process: its name has appeared,
\* or, for the compositor, its grace period has passed.
HealthOK ==
    \A r \in Role : healthy[r] =>
        /\ pc # "launch"
        /\ r \in Named => appeared[r]
        /\ r \notin Named => now - startedAt[r] >= Grace

\* A name owned while a process of the role exists has appeared since that
\* process was started: an ownership reply is evidence about it.
NamesOK == \A r \in Named : owner[r] # "none" => proc[r] = "absent" \/ appeared[r]

\* Every child the task deals with after the launch has been launched.
LaunchedOK ==
    /\ pc = "query" => Here \in Named
    /\ \A i \in First..Last :
         \/ Finished
         \/ pc = "launch" /\ cur <= i
         \/ proc[LaunchOrder[i]] # "absent"

\* A shell waiting to be restarted during startup had been healthy.
ShellOK ==
    pc = "backoff" /\ phase = "startup" /\ Here = "shell" => healthy["shell"]

ReadyInv == HealthOK /\ NamesOK /\ LaunchedOK /\ ShellOK

LEMMA PositionsDiffer ==
  \A i, j \in 1..Last : LaunchOrder[i] = LaunchOrder[j] => i = j
  BY DEF LaunchOrder, Last

LEMMA ReadyInvInit == Init => ReadyInv
<1> SUFFICES ASSUME Init PROVE ReadyInv
  OBVIOUS
<1>1. /\ \A r \in Role : ~healthy[r]
      /\ \A r \in Role : proc[r] = "absent"
      /\ pc = "launch" /\ cur = First
  BY DEF Init
<1> QED BY <1>1, FirstInRange
        DEF ReadyInv, HealthOK, NamesOK, LaunchedOK, ShellOK, Named, Finished

\* Steps of the task that only move it, leaving children and records alone.
Moves ==
    /\ UNCHANGED <<proc, owner, appeared, healthy, startedAt, now>>
    /\ pc \notin {"launch", "ended", "killed", "aborted"}
    /\ pc' \notin {"launch", "backoff"}
    /\ pc' = "query" => Here' \in Named

LEMMA TaskMoves ==
  ASSUME \/ RefreshSkips \/ AskBus \/ BusFails \/ DeclareReady \/ RefreshDone
         \/ CheckPasses \/ RespawnFails \/ WaitFails \/ StartupTimesOut
         \/ PauseStartup \/ SuperviseAgain \/ PollTimerFires \/ StopSkips
         \/ StopKills \/ StopRefused \/ StopDone
  PROVE  Moves
<1> USE DEF GoTo, Sleep, Finish, Moves, records, world, Here
<1>1. CASE RefreshSkips \/ AskBus \/ BusFails \/ DeclareReady \/ RefreshDone
  BY <1>1 DEF RefreshSkips, AskBus, BusFails, DeclareReady, EnterSelect,
     RefreshDone
<1>2. CASE CheckPasses \/ RespawnFails \/ WaitFails \/ StartupTimesOut
           \/ PauseStartup \/ SuperviseAgain \/ PollTimerFires
  BY <1>2 DEF CheckPasses, RespawnFails, WaitFails, StartupTimesOut,
     PauseStartup, SuperviseAgain, EnterSelect, PollTimerFires
<1>3. CASE StopSkips \/ StopKills \/ StopRefused \/ StopDone
  BY <1>3 DEF StopSkips, StopKills, StopRefused, StopDone
<1> QED BY <1>1, <1>2, <1>3

\* Steps that take the status of an exited child.
TakesStatus ==
    /\ Reap(Here)
    /\ UNCHANGED <<healthy, startedAt, now, phase>>
    /\ pc \in {"check", "reap"} /\ pc' \in {"stop", "backoff"}
    /\ pc' = "backoff" => cur' = cur /\ ~MustFail(Here)

LEMMA StatusTaken ==
  ASSUME ExitIsFatal \/ ExitWithoutBudget \/ ExitWithBudget \/ StopReaps
  PROVE  TakesStatus
  BY DEF ExitIsFatal, ExitWithoutBudget, ExitWithBudget, StopReaps, TakesStatus,
     GoTo, Sleep, Finish, records

LEMMA ReadyInvStep ==
  ASSUME TypeOK, PositionOK, ReadyInv, [Next]_vars PROVE ReadyInv'
<1> USE FirstInRange, SupervisorAssumption
    DEF ReadyInv, HealthOK, NamesOK, LaunchedOK, ShellOK, Finished
<1>1. CASE Moves
  BY <1>1 DEF Moves
<1>2. CASE TakesStatus
  BY <1>2 DEF TakesStatus, Reap, MustFail, Here, TypeOK, WorldOK
<1>3. CASE Tick
  BY <1>3 DEF Tick, control, records, world, Here, TypeOK, RecordsOK, Named
<1>4. CASE Launch
  <2>1. /\ pc = "launch" /\ cur \in 1..Last /\ Here \in Role
        /\ \A r \in Role : ~healthy[r]
    BY <1>4, PositionIsRole DEF Launch, PositionOK, Here
  <2>2. /\ UNCHANGED healthy
        /\ \/ pc' = "launch" /\ cur' = cur + 1 /\ cur < Last
           \/ pc' = "refresh" /\ cur = Last
    BY <1>4, <2>1 DEF Launch, GoTo, Last
  <2>6. /\ UNCHANGED owner
        /\ \A q \in Role : proc'[q] = IF q = Here THEN "running" ELSE proc[q]
        /\ \A q \in Role \ {Here} : appeared'[q] = appeared[q]
        /\ owner[Here] # "none" => appeared'[Here]
    BY <1>4, <2>1, SpawnEffect DEF Launch, TypeOK
  <2>3. HealthOK' /\ ShellOK'
    BY <2>1, <2>2
  <2>4. NamesOK'
    BY <2>6 DEF Named
  <2>5. LaunchedOK'
    <3> SUFFICES ASSUME NEW i \in First..Last, ~(pc' = "launch" /\ cur' <= i)
                 PROVE  proc'[LaunchOrder[i]] # "absent"
      BY <2>2
    <3>1. i \in 1..Last /\ LaunchOrder[i] \in Role
      BY PositionIsRole DEF Last
    <3>2. i <= cur
      BY <2>1, <2>2, <3>1 DEF Last
    <3>3. CASE i = cur
      BY <2>6, <3>1, <3>3 DEF Here
    <3>4. CASE i < cur
      BY <2>1, <2>6, <3>1, <3>4 DEF Last
    <3> QED BY <2>1, <3>1, <3>2, <3>3, <3>4 DEF Last
  <2> QED BY <2>3, <2>4, <2>5
<1>5. ASSUME RefreshCompositor \/ BusReplies \/ BusIsSilent PROVE ReadyInv'
  <2>1. /\ pc \in {"refresh", "query"} /\ cur \in First..Last
        /\ pc' = "refresh"
        /\ UNCHANGED <<proc, owner, appeared, now, startedAt>>
    BY <1>5 DEF RefreshCompositor, BusReplies, BusIsSilent, MarkHealthy, GoTo,
       world, PositionOK
  <2>2. cur \in 1..Last /\ Here \in Role /\ Here = LaunchOrder[cur]
    BY <2>1, PositionIsRole DEF Here, Last
  <2>3. proc[Here] # "absent"
    BY <2>1, <2>2
  <2>4. ASSUME NEW up \in BOOLEAN, healthy' = [healthy EXCEPT ![Here] = up],
               up => /\ Here \in Named => appeared[Here]
                     /\ Here \notin Named => now - startedAt[Here] >= Grace
        PROVE  HealthOK'
    BY <2>1, <2>2, <2>4 DEF TypeOK, RecordsOK
  <2>5. CASE RefreshCompositor
    <3> DEFINE up == now - startedAt[Here] >= Grace
    <3>1. up \in BOOLEAN /\ Here \notin Named
          /\ healthy' = [healthy EXCEPT ![Here] = up]
      BY <2>5 DEF RefreshCompositor, MarkHealthy
    <3>2. HealthOK'
      BY <2>4, <3>1
    <3> QED BY <2>1, <3>2
  <2>6. CASE BusReplies
    <3> DEFINE up == owner[Here] # "none"
    <3>1. up \in BOOLEAN /\ Here \in Named
          /\ healthy' = [healthy EXCEPT ![Here] = up]
      BY <2>6 DEF BusReplies, MarkHealthy
    <3>2. up => appeared[Here]
      BY <2>3, <3>1
    <3>3. HealthOK'
      BY <2>4, <3>1, <3>2
    <3> QED BY <2>1, <3>3
  <2>7. CASE BusIsSilent
    <3>1. healthy' = [healthy EXCEPT ![Here] = FALSE]
      BY <2>7 DEF BusIsSilent, MarkHealthy
    <3>2. HealthOK'
      BY <2>4, <3>1
    <3> QED BY <2>1, <3>2
  <2> QED BY <1>5, <2>5, <2>6, <2>7
<1>6. CASE Respawn
  <2>1. /\ pc = "backoff" /\ pc' = "check"
        /\ healthy' = [healthy EXCEPT ![Here] = FALSE]
        /\ startedAt' = [startedAt EXCEPT ![Here] = now]
        /\ UNCHANGED now
    BY <1>6 DEF Respawn, MarkRestarted, GoTo
  <2>5. Here \in Role
    BY <2>1, PositionIsRole DEF PositionOK, Here, Last
  <2>6. /\ UNCHANGED owner
        /\ \A q \in Role : proc'[q] = IF q = Here THEN "running" ELSE proc[q]
        /\ \A q \in Role \ {Here} : appeared'[q] = appeared[q]
        /\ owner[Here] # "none" => appeared'[Here]
    BY <1>6, <2>5, SpawnEffect DEF Respawn, TypeOK
  <2>2. HealthOK'
    BY <2>1, <2>6 DEF TypeOK, RecordsOK
  <2>3. NamesOK'
    BY <2>6 DEF Named
  <2>4. LaunchedOK' /\ ShellOK'
    BY <2>1, <2>6, PositionIsRole DEF Last
  <2> QED BY <2>2, <2>3, <2>4
<1>7. ASSUME NEW r \in Role, Dies(r) PROVE ReadyInv'
  BY <1>7 DEF Dies, control, records, TypeOK, WorldOK, Here
<1>8. ASSUME NEW r \in Role, ChildTakesName(r) \/ LeftoverEnds(r)
      PROVE ReadyInv'
  <2>1. /\ UNCHANGED <<proc, healthy, startedAt, now, pc, cur, phase>>
        /\ \A q \in Role \ {r} : owner'[q] = owner[q]
    BY <1>8 DEF ChildTakesName, LeftoverEnds, control, records, TypeOK, WorldOK
  <2>2. \A q \in Role : appeared[q] => appeared'[q]
    BY <1>8, Zenon DEF ChildTakesName, LeftoverEnds, TypeOK, WorldOK
  <2>3. owner'[r] = "none" \/ appeared'[r]
    BY <1>8 DEF ChildTakesName, LeftoverEnds, TypeOK, WorldOK
  <2> QED BY <2>1, <2>2, <2>3 DEF Here, Named
<1>9. CASE Signal \/ LaunchFails
  <2>1. /\ UNCHANGED <<proc, owner, appeared, healthy, startedAt, now>>
        /\ \/ pc' \in {"killed", "aborted"}
           \/ pc = "select" /\ pc' = "stop"
           \/ UNCHANGED <<pc, cur, phase>>
    BY <1>9 DEF Signal, LaunchFails, InterruptHeard, InterruptLost,
       InterruptKills, TerminateKills, Killed, Finish, GoTo, control, records,
       world
  <2> QED BY <2>1 DEF Here, TypeOK, ControlOK
<1>10. CASE UNCHANGED vars
  BY <1>10 DEF vars, control, records, world, Here
<1>11. CASE KilledChildDies
  <2>1. Here \in Role
    BY <1>11, PositionIsRole DEF KilledChildDies, PositionOK, Here, Last
  <2> QED BY <1>7, <1>11, <2>1 DEF KilledChildDies
<1> QED BY <1>1, <1>2, <1>3, <1>4, <1>5, <1>6, <1>7, <1>8, <1>9, <1>10, <1>11,
           TaskMoves, StatusTaken
        DEF Next, Supervisor, Refresh, CheckExits, Shutdown, Children,
            ChildExits, Named

LEMMA ReadyInvAlways == Spec => []ReadyInv
  BY ReadyInvInit, ReadyInvStep, TypeCorrect, PTL DEF Spec

\* A healthy mark is never left over from an earlier process.
THEOREM HealthIsCurrent == Spec => []HealthyMeansAppeared
<1>1. ReadyInv => HealthyMeansAppeared
  BY DEF ReadyInv, HealthOK, HealthyMeansAppeared, Named
<1> QED BY <1>1, ReadyInvAlways, PTL

LEMMA PhaseActions ==
  ASSUME [Next]_vars, phase' # phase PROVE DeclareReady
<1> USE DEF MarkHealthy, control
<1>1. CASE Launch \/ LaunchFails \/ Refresh
  BY <1>1 DEF Launch, LaunchFails, Refresh, RefreshSkips, RefreshCompositor,
     AskBus, BusReplies, BusIsSilent, BusFails, RefreshDone
<1>2. CASE CheckExits
  BY <1>2 DEF CheckExits, CheckPasses, ExitIsFatal, ExitWithoutBudget,
     ExitWithBudget, Respawn, RespawnFails, WaitFails, StartupTimesOut,
     PauseStartup, SuperviseAgain
<1>3. CASE PollTimerFires \/ Shutdown \/ Tick
  BY <1>3 DEF PollTimerFires, Shutdown, StopSkips, StopKills,
     StopRefused, StopReaps, StopDone, Tick
<1>4. CASE Children
  BY <1>4 DEF Children, KilledChildDies, ChildExits, Dies, ChildTakesName,
     LeftoverEnds
<1>5. CASE Signal
  BY <1>5 DEF Signal, InterruptHeard, InterruptLost, InterruptKills,
     TerminateKills, Killed
<1> QED BY <1>1, <1>2, <1>3, <1>4, <1>5 DEF Next, Supervisor, vars

\* Startup is declared complete only when every name has appeared for the
\* process that is now there, and the compositor is past its grace period.
THEOREM ReadyIsEarned == Spec => ReadyOnlyWhenUp
<1>1. ReadyInv /\ [Next]_vars =>
        [phase # phase' =>
           /\ \A r \in Child \cap Named : appeared[r]
           /\ \A r \in Child \ Named : now - startedAt[r] >= Grace]_vars
  <2> SUFFICES ASSUME ReadyInv, [Next]_vars, phase # phase'
               PROVE  /\ \A r \in Child \cap Named : appeared[r]
                      /\ \A r \in Child \ Named : now - startedAt[r] >= Grace
    OBVIOUS
  <2>1. \A r \in Child : healthy[r]
    BY PhaseActions DEF DeclareReady, StartupComplete
  <2>2. Child \subseteq Role
    BY PositionIsRole, FirstInRange DEF Child, Last
  <2> QED BY <2>1, <2>2 DEF ReadyInv, HealthOK
<1> QED BY <1>1, ReadyInvAlways, PTL DEF Spec, ReadyOnlyWhenUp

\* During startup only a shell whose name had appeared is replaced.
THEOREM ShellIsGivenOneChance == Spec => ShellMustComeUp
<1>1. TypeOK /\ PositionOK /\ ReadyInv /\ [Next]_vars =>
        [phase = "startup" /\ history'["shell"] # history["shell"]
           => appeared["shell"]]_vars
  <2> SUFFICES ASSUME TypeOK, PositionOK, ReadyInv, [Next]_vars,
                      phase = "startup", history'["shell"] # history["shell"]
               PROVE  appeared["shell"]
    OBVIOUS
  <2>1. Respawn
    BY BudgetActions DEF Tick, records, ExitWithBudget, ExitWithoutBudget,
       Untouched
  <2>2. pc = "backoff" /\ Here = "shell"
    BY <2>1 DEF Respawn, MarkRestarted, TypeOK, RecordsOK
  <2> QED BY <2>2 DEF ReadyInv, ShellOK, HealthOK, Role, Named
<1> QED BY <1>1, ReadyInvAlways, TypeCorrect, PTL DEF Spec, ShellMustComeUp

-----------------------------------------------------------------------------
(* Shutdown.                                                               *)

\* shutdown_all works downwards: what lies above its position is reaped (if
\* the system kills what it is asked to), and what is not in the children
\* vector was never started.
StopInv ==
    /\ pc \in {"stop", "reap"} /\ "kill" \notin Faults =>
         \A i \in First..Last : cur < i => proc[LaunchOrder[i]] = "reaped"
    /\ pc = "ended" /\ "kill" \notin Faults =>
         \A i \in First..Last : proc[LaunchOrder[i]] = "reaped"
    /\ \A i \in 1..First - 1 : proc[LaunchOrder[i]] = "absent"

\* A step that changes no process and does not move shutdown_all's loop.
StopUntouched ==
    /\ UNCHANGED proc
    /\ \/ pc' \notin {"stop", "reap", "ended"}
       \/ pc' = "stop" /\ cur' = Last
       \/ UNCHANGED <<pc, cur>>

\* check_for_exits takes the status of a child.
ExitTaken == TakesStatus /\ pc = "check" /\ (pc' = "stop" => cur' = Last)

LEMMA StopActions ==
  ASSUME [Next]_vars
  PROVE  \/ Launch \/ Respawn \/ ExitTaken
         \/ StopReaps \/ StopSkips \/ StopKills \/ StopRefused \/ StopDone
         \/ (\E r \in Role \cup {Here} : Dies(r)) \/ StopUntouched
<1> USE DEF GoTo, Sleep, Finish, StopUntouched, records, world, control
<1>1. CASE LaunchFails \/ Refresh
  BY <1>1 DEF LaunchFails, Refresh, RefreshSkips, RefreshCompositor,
     MarkHealthy, AskBus, BusReplies, BusIsSilent, BusFails, DeclareReady,
     EnterSelect, RefreshDone
<1>2. CASE CheckPasses \/ RespawnFails \/ WaitFails \/ StartupTimesOut
           \/ PauseStartup \/ SuperviseAgain \/ PollTimerFires \/ Tick
  BY <1>2 DEF CheckPasses, RespawnFails, WaitFails, StartupTimesOut,
     PauseStartup, SuperviseAgain, EnterSelect, PollTimerFires, Tick
<1>3. CASE ExitIsFatal \/ ExitWithoutBudget \/ ExitWithBudget
  BY <1>3, StatusTaken
     DEF ExitTaken, ExitIsFatal, ExitWithoutBudget, ExitWithBudget
<1>4. CASE Children
  BY <1>4 DEF Children, KilledChildDies, ChildExits, ChildTakesName,
     LeftoverEnds
<1>5. CASE Signal
  BY <1>5 DEF Signal, InterruptHeard, InterruptLost, InterruptKills,
     TerminateKills, Killed
<1>6. CASE UNCHANGED vars
  BY <1>6 DEF vars
<1> QED BY <1>1, <1>2, <1>3, <1>4, <1>5, <1>6
        DEF Next, Supervisor, CheckExits, Shutdown

LEMMA StopInvStep ==
  ASSUME TypeOK, PositionOK, StopInv, [Next]_vars PROVE StopInv'
<1> USE FirstInRange, PositionIsRole, PositionsDiffer
    DEF StopInv, TypeOK, ControlOK, WorldOK, PositionOK, Last, Here
<1>1. CASE Launch
  <2>1. /\ cur \in First..Last /\ pc' \in {"launch", "refresh"}
        /\ proc' = [proc EXCEPT ![Here] = "running"]
    BY <1>1 DEF Launch, Spawn, GoTo
  <2> QED BY <2>1
<1>2. CASE Respawn
  <2>1. /\ cur \in First..Last /\ pc' = "check"
        /\ proc' = [proc EXCEPT ![Here] = "running"]
    BY <1>2 DEF Respawn, Spawn, GoTo
  <2> QED BY <2>1
<1>3. CASE ExitTaken
  BY <1>3 DEF ExitTaken, TakesStatus, Reap
<1>4. CASE StopReaps
  BY <1>4 DEF StopReaps, Reap, GoTo
<1>5. CASE StopSkips \/ StopKills \/ StopRefused
  BY <1>5 DEF StopSkips, StopKills, StopRefused, NoId, GoTo, Sleep, world
<1>6. CASE StopDone
  BY <1>6 DEF StopDone, world
<1>7. ASSUME NEW r \in Role \cup {Here}, Dies(r) PROVE StopInv'
  BY <1>7 DEF Dies, control, Finished
<1>8. CASE StopUntouched
  BY <1>8 DEF StopUntouched
<1> QED BY <1>1, <1>2, <1>3, <1>4, <1>5, <1>6, <1>7, <1>8, StopActions

\* When main has returned from shutdown_all no child is running, unless the
\* system refused to kill one.
THEOREM NothingSurvivesShutdown == Spec => []NoSurvivors
<1>1. Init => StopInv
  <2> SUFFICES ASSUME Init PROVE StopInv
    OBVIOUS
  <2>1. pc = "launch" /\ \A r \in Role : proc[r] = "absent"
    BY DEF Init
  <2> QED BY <2>1, FirstInRange, PositionIsRole DEF StopInv, Last
<1>2. StopInv => NoSurvivors
  <2>1. \A r \in Role : \E i \in 1..Last : r = LaunchOrder[i]
    BY DEF Role, LaunchOrder, Last
  <2> QED BY <2>1, FirstInRange DEF StopInv, NoSurvivors, Last
<1> QED BY <1>1, <1>2, StopInvStep, TypeCorrect, PTL DEF Spec
-----------------------------------------------------------------------------
(* The time startup takes.                                                 *)

\* What one silent query, one backoff and one pause can cost, served late.
QueryCost == QueryTimeout + MaxLag
BackoffCost == Backoff + MaxLag
PassStart == StartupTimeout + Poll + MaxLag

\* The cost of the named children a loop over the children has passed.
Passed(c, cost) == IF c <= 2 THEN 0
                   ELSE IF c = 3 THEN cost
                   ELSE IF c = 4 THEN 2 * cost ELSE 3 * cost

\* A pass starts before PassStart: the pause before it was entered before the
\* deadline.  From there on the clock is charged to the children passed.
PassInv ==
    /\ pc \in {"launch", "refresh", "query", "check", "backoff", "pause",
               "killed"}
    /\ pc = "launch" => now = 0
    /\ pc = "refresh" => now < PassStart + Passed(cur, QueryCost)
    /\ pc = "query" =>
         /\ cur >= 2 /\ now <= wakeAt + MaxLag
         /\ wakeAt < PassStart + Passed(cur, QueryCost) + QueryTimeout
    /\ pc = "check" =>
         now < PassStart + 3 * QueryCost + Passed(cur, BackoffCost)
    /\ pc = "backoff" =>
         /\ cur >= 2 /\ now <= wakeAt + MaxLag
         /\ wakeAt < PassStart + 3 * QueryCost + Passed(cur, BackoffCost)
                       + Backoff
    /\ pc = "pause" =>
         now <= wakeAt + MaxLag /\ wakeAt < StartupTimeout + Poll
    /\ pc = "killed" => now < PassStart + 3 * QueryCost + 3 * BackoffCost

Undecided == phase = "startup" /\ outcome = "none"

\* Steps that charge nothing: they leave the task where it is, kill it, or
\* decide the startup.
Charges ==
    \/ UNCHANGED <<pc, cur, wakeAt, now, phase, outcome>>
    \/ /\ pc' = "killed" /\ ~Finished
       /\ UNCHANGED <<cur, wakeAt, now, phase, outcome>>
    \/ ~Undecided'

\* Steps of shutdown or of supervision change nothing of what was decided.
LEMMA DecidedStays ==
  ASSUME [Next]_vars, ~Undecided, TypeOK PROVE ~Undecided'
<1> USE DEF Undecided, TypeOK, ControlOK, MarkHealthy, Finish, control
<1>1. CASE Launch \/ LaunchFails \/ Refresh
  BY <1>1 DEF Launch, LaunchFails, Refresh, RefreshSkips, RefreshCompositor,
     AskBus, BusReplies, BusIsSilent, BusFails, RefreshDone, DeclareReady
<1>2. CASE CheckExits
  BY <1>2 DEF CheckExits, CheckPasses, ExitIsFatal, ExitWithoutBudget,
     ExitWithBudget, Respawn, RespawnFails, WaitFails, StartupTimesOut,
     PauseStartup, SuperviseAgain
<1>3. CASE PollTimerFires \/ Shutdown \/ Tick
  BY <1>3 DEF PollTimerFires, Shutdown, StopSkips, StopKills,
     StopRefused, StopReaps, StopDone, Tick
<1>4. CASE Children
  BY <1>4 DEF Children, KilledChildDies, ChildExits, Dies, ChildTakesName,
     LeftoverEnds
<1>5. CASE Signal
  BY <1>5 DEF Signal, InterruptHeard, InterruptLost, InterruptKills,
     TerminateKills, Killed
<1> QED BY <1>1, <1>2, <1>3, <1>4, <1>5 DEF Next, Supervisor, vars

\* Every other step of an undecided startup is one of the task's.
LEMMA PassActions ==
  ASSUME [Next]_vars, Undecided, PassInv
  PROVE  \/ Launch \/ Tick \/ RefreshSkips \/ RefreshCompositor \/ AskBus
         \/ BusReplies \/ BusIsSilent \/ RefreshDone \/ CheckPasses
         \/ ExitWithBudget \/ Respawn \/ PauseStartup \/ PollTimerFires
         \/ Charges
<1> USE DEF Charges, Undecided, Finish
<1>1. CASE LaunchFails \/ BusFails \/ DeclareReady \/ ExitIsFatal
           \/ ExitWithoutBudget \/ RespawnFails \/ WaitFails \/ StartupTimesOut
           \/ SuperviseAgain
  BY <1>1 DEF LaunchFails, BusFails, DeclareReady, ExitIsFatal,
     ExitWithoutBudget, RespawnFails, WaitFails, StartupTimesOut,
     SuperviseAgain
<1>2. CASE Shutdown
  BY <1>2 DEF Shutdown, StopSkips, StopKills,
     StopRefused, StopReaps,
     StopDone, PassInv
<1>3. CASE Children
  BY <1>3 DEF Children, KilledChildDies, ChildExits, Dies, ChildTakesName,
     LeftoverEnds, control
<1>4. CASE Signal
  BY <1>4 DEF Signal, InterruptHeard, InterruptLost, InterruptKills,
     TerminateKills, Killed, control
<1>5. CASE UNCHANGED vars
  BY <1>5 DEF vars, control
<1> QED BY <1>1, <1>2, <1>3, <1>4, <1>5
        DEF Next, Supervisor, Refresh, CheckExits

\* The compositor is neither asked for on the bus nor restarted.
LEMMA FirstIsCompositor ==
  ASSUME NEW i \in First..Last
  PROVE  LaunchOrder[i] = "labwc" <=> i = 1
  BY FirstInRange DEF LaunchOrder, Last

LEMMA PassInvStep ==
  ASSUME TypeOK, PositionOK, Undecided, PassInv, [Next]_vars
  PROVE  Undecided' => PassInv'
<1> SUFFICES ASSUME Undecided' PROVE PassInv'
  OBVIOUS
<1> USE SupervisorAssumption, FirstInRange
    DEF PassInv, TypeOK, ControlOK, PositionOK, Last, GoTo, Sleep, Passed,
        QueryCost, BackoffCost, PassStart
<1>1. CASE Launch
  BY <1>1 DEF Launch
<1>2. CASE Tick
  BY <1>2 DEF Tick, Awaiting, control
<1>3. CASE RefreshSkips \/ RefreshCompositor \/ AskBus
  BY <1>3, FirstIsCompositor
     DEF RefreshSkips, RefreshCompositor, AskBus, MarkHealthy, Here, Named, Role
<1>4. CASE BusReplies \/ BusIsSilent
  BY <1>4 DEF BusReplies, BusIsSilent, MarkHealthy
<1>5. CASE RefreshDone
  BY <1>5 DEF RefreshDone
<1>6. CASE CheckPasses
  BY <1>6 DEF CheckPasses
<1>7. CASE ExitWithBudget
  BY <1>7, FirstIsCompositor DEF ExitWithBudget, MustFail, Here
<1>8. CASE Respawn
  BY <1>8 DEF Respawn
<1>9. CASE PauseStartup \/ PollTimerFires
  BY <1>9 DEF PauseStartup, PastDeadline, PollTimerFires, Undecided
<1>10. CASE Charges
  BY <1>10 DEF Charges, Finished
<1> QED BY <1>1, <1>2, <1>3, <1>4, <1>5, <1>6, <1>7, <1>8, <1>9, <1>10,
           PassActions

LEMMA ThreeNames == Cardinality(Child \cap Named) = 3
<1>1. Child \cap Named = {"admin", "agent", "shell"}
  BY SupervisorAssumption
     DEF Child, Named, Role, LaunchOrder, First, Last
<1>2. Cardinality({"admin"}) = 1 /\ IsFiniteSet({"admin"})
  BY FS_Singleton
<1>3. Cardinality({"admin", "agent"}) = 2 /\ IsFiniteSet({"admin", "agent"})
  BY <1>2, FS_AddElement, {"admin", "agent"} = {"admin"} \cup {"agent"}
<1>4. Cardinality({"admin", "agent", "shell"}) = 3
  BY <1>3, FS_AddElement,
     {"admin", "agent", "shell"} = {"admin", "agent"} \cup {"shell"}
<1> QED BY <1>1, <1>4

\* Startup is bounded: the deadline, one poll interval and one pass in which
\* every query is silent and every named child is restarted, all timers late.
THEOREM StartupIsBounded == Spec => []StartupBound
<1>1. Init => (Undecided => PassInv)
  BY SupervisorAssumption DEF Init, PassInv
<1>2. TypeOK /\ PositionOK /\ (Undecided => PassInv) /\ [Next]_vars
        => (Undecided => PassInv)'
  BY PassInvStep, DecidedStays
<1>3. TypeOK /\ PositionOK /\ (Undecided => PassInv) => StartupBound
  <2> SUFFICES ASSUME TypeOK, PositionOK, Undecided, PassInv
               PROVE  now < StartupTimeout + Poll + MaxLag
                            + 3 * (QueryTimeout + Backoff + 2 * MaxLag)
    BY ThreeNames DEF StartupBound, Undecided
  <2> QED BY SupervisorAssumption, FirstInRange
          DEF PassInv, TypeOK, ControlOK, PositionOK, Last, Passed, QueryCost,
              BackoffCost, PassStart
<1> QED BY <1>1, <1>2, <1>3, TypeCorrect, PTL DEF Spec
=============================================================================
