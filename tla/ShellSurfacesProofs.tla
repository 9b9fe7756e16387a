------------------------ MODULE ShellSurfacesProofs ------------------------
(***************************************************************************)
(* Proofs about the configuration and the surfaces.  What merging the two  *)
(* files comes to, for every set of sections, options and values; and what *)
(* may be open at once, whatever the files hold.                           *)
(* OneOfEach is inductive as it stands: every handler either replaces the  *)
(* set of open surfaces by a set with one of each, or closes surfaces, or  *)
(* exchanges one popup for another.                                        *)
(***************************************************************************)
EXTENDS ShellSurfaces, TLAPS

-----------------------------------------------------------------------------
(* The configuration.                                                      *)

\* The merged entry of a section both documents have.
LEMMA EntryIsLayered ==
  ASSUME NEW old \in Entry, NEW new \in Entry, NEW k
  PROVE  LET merged == MergedEntry(old, new) IN
         merged.table =>
           /\ new.table
           /\ k \in DOMAIN merged.keys
                <=> k \in DOMAIN new.keys \cup DOMAIN old.keys
           /\ k \in DOMAIN new.keys => merged.keys[k] = new.keys[k]
           /\ k \in DOMAIN old.keys \ DOMAIN new.keys
                => merged.keys[k] = old.keys[k]
<1> DEFINE merged == MergedEntry(old, new)
<1> SUFFICES ASSUME merged.table
             PROVE  /\ new.table
                    /\ k \in DOMAIN merged.keys
                         <=> k \in DOMAIN new.keys \cup DOMAIN old.keys
                    /\ k \in DOMAIN new.keys => merged.keys[k] = new.keys[k]
                    /\ k \in DOMAIN old.keys \ DOMAIN new.keys
                         => merged.keys[k] = old.keys[k]
  OBVIOUS
<1>1. CASE old.table /\ new.table
  BY <1>1 DEF MergedEntry, Over
<1>2. CASE ~old.table
  <2>1. DOMAIN old.keys = {}
    BY <1>2 DEF Entry, Table
  <2> QED
    BY <1>2, <2>1 DEF MergedEntry
<1>3. CASE ~new.table
  BY <1>3 DEF MergedEntry
<1> QED
  BY <1>1, <1>2, <1>3

(* The user's file replaces single options: every option the user mentions *)
(* has the user's value, every other option the value it would have had    *)
(* without a user's file, and never is a section lost as a whole.          *)
THEOREM UserLayersOverSystem ==
  ASSUME NEW system \in Document, NEW user \in Document, Loads(system, user),
         NEW s, NEW k
  PROVE  Setting(Merged(system, user), s, k) =
           IF Mentions(user, s, k) THEN user[s].keys[k]
           ELSE Setting(system, s, k)
<1> DEFINE merged == Merged(system, user)
<1>0. /\ \A t \in DOMAIN system : system[t] \in Entry
      /\ \A t \in DOMAIN user : user[t] \in Entry
  BY DEF Document, Table
<1>1. \A t \in DOMAIN merged : merged[t].table
  BY DEF Loads, Valid
<1>2. DOMAIN merged = DOMAIN system \cup DOMAIN user
  BY DEF Merged
<1>3. CASE s \in DOMAIN system /\ s \in DOMAIN user
  <2>1. merged[s] = MergedEntry(system[s], user[s])
    BY <1>3 DEF Merged
  <2>2. system[s] \in Entry /\ user[s] \in Entry
    BY <1>0, <1>3
  <2>3. MergedEntry(system[s], user[s]).table
    BY <1>1, <1>2, <1>3, <2>1
  <2>4. /\ k \in DOMAIN merged[s].keys
             <=> k \in DOMAIN user[s].keys \cup DOMAIN system[s].keys
        /\ k \in DOMAIN user[s].keys => merged[s].keys[k] = user[s].keys[k]
        /\ k \in DOMAIN system[s].keys \ DOMAIN user[s].keys
             => merged[s].keys[k] = system[s].keys[k]
    BY <2>1, <2>2, <2>3, EntryIsLayered
  <2> HIDE DEF merged
  <2>5. Setting(merged, s, k) = IF Mentions(user, s, k) THEN user[s].keys[k]
                                ELSE Setting(system, s, k)
    BY <1>2, <1>3, <2>4 DEF Setting, Mentions
  <2> QED
    BY <2>5 DEF merged
<1>4. CASE s \in DOMAIN system /\ s \notin DOMAIN user
  <2>1. merged[s] = system[s]
    BY <1>4 DEF Merged
  <2> QED
    BY <1>2, <1>4, <2>1 DEF Setting, Mentions
<1>5. CASE s \notin DOMAIN system /\ s \in DOMAIN user
  <2>1. merged[s] = user[s]
    BY <1>5 DEF Merged
  <2> QED
    BY <1>2, <1>5, <2>1 DEF Setting, Mentions
<1>6. CASE s \notin DOMAIN system /\ s \notin DOMAIN user
  BY <1>2, <1>6 DEF Setting, Mentions
<1> QED
  BY <1>3, <1>4, <1>5, <1>6

(* Two files that each load alone load together: no option a user sets     *)
(* keeps the shell or the daemon from starting unless the user's own file  *)
(* is wrong or the system's is.                                            *)
THEOREM GoodFilesMergeWell ==
  ASSUME NEW system \in Document, NEW user \in Document,
         Valid(system), Valid(user)
  PROVE  Valid(Merged(system, user))
<1> DEFINE merged == Merged(system, user)
<1>1. DOMAIN merged = DOMAIN system \cup DOMAIN user
  BY DEF Merged
<1> SUFFICES ASSUME NEW s \in DOMAIN merged
             PROVE  /\ merged[s].table
                    /\ \A k \in DOMAIN merged[s].keys :
                          merged[s].keys[k] \in Fits[s, k]
  BY DEF Valid
<1>2. CASE s \in DOMAIN system /\ s \in DOMAIN user
  <2>1. merged[s] = [table |-> TRUE,
                     keys |-> Over(user[s].keys, system[s].keys)]
    BY <1>2 DEF Merged, MergedEntry, Valid
  <2> DEFINE keys == Over(user[s].keys, system[s].keys)
  <2>2. ASSUME NEW k \in DOMAIN keys PROVE keys[k] \in Fits[s, k]
    <3>1. CASE k \in DOMAIN user[s].keys
      BY <1>2, <3>1 DEF Over, Valid
    <3>2. CASE k \notin DOMAIN user[s].keys
      BY <1>2, <3>2 DEF Over, Valid
    <3> QED
      BY <3>1, <3>2
  <2> HIDE DEF merged, keys
  <2>3. merged[s].table /\ merged[s].keys = keys
    BY <2>1 DEF keys
  <2> QED
    BY <2>2, <2>3
<1>3. CASE s \notin DOMAIN user
  <2>1. s \in DOMAIN system /\ merged[s] = system[s]
    BY <1>1, <1>3 DEF Merged
  <2> QED
    BY <2>1 DEF Valid
<1>4. CASE s \notin DOMAIN system
  <2>1. s \in DOMAIN user /\ merged[s] = user[s]
    BY <1>1, <1>4 DEF Merged
  <2> QED
    BY <2>1 DEF Valid
<1> QED
  BY <1>2, <1>3, <1>4

(* An option of a configuration that loads has a value its type accepts.   *)
THEOREM SettingsFit ==
  ASSUME NEW system \in Document, NEW user \in Document, Loads(system, user),
         NEW s \in Section, NEW k \in Key
  PROVE  Setting(Merged(system, user), s, k) \in Fits[s, k]
BY ConfigAssumption DEF Setting, Mentions, Loads, Valid

-----------------------------------------------------------------------------
(* The surfaces.                                                           *)

Inv == TypeOK /\ OneOfEach

USE DEF Page, Popup, Surface, Opening, Toggle, View, Command

\* One of each in a given set of surfaces.
OneIn(s) ==
    /\ s \subseteq Surface
    /\ AtMostOne(s \cap Page)
    /\ AtMostOne(s \cap Popup)
    /\ "notifications" \in s => s = {"notifications"}

LEMMA OneInOpen == (open \subseteq Surface /\ OneOfEach) <=> OneIn(open)
  BY DEF OneOfEach, OneIn

\* No surface, or a single one, is one of each.
LEMMA Single == OneIn({}) /\ \A s \in Surface : OneIn({s})
  BY DEF OneIn, AtMostOne

\* Closing surfaces keeps one of each.
LEMMA Closing == ASSUME NEW s, NEW t, OneIn(s), t \subseteq s PROVE OneIn(t)
  BY DEF OneIn, AtMostOne

LEMMA FlippedIsOne == ASSUME NEW s \in Surface PROVE OneIn(Flipped(s))
  BY Single DEF Flipped

LEMMA NotifiedIsOne ==
  ASSUME NEW s, OneIn(s) PROVE OneIn(Notified(s))
  BY Single, Closing DEF Notified

\* The system center and the power menu, opened when no other popup is.
LEMMA PopupOverNone ==
  ASSUME NEW s, OneIn(s), s \cap Popup = {}, NEW p \in {"system", "power"}
  PROVE  OneIn(s \cup {p})
  BY DEF OneIn, AtMostOne

LEMMA SettingsOver ==
  ASSUME NEW s, OneIn(s), "notifications" \notin s
  PROVE  OneIn(s \cup {"settings"})
  BY DEF OneIn, AtMostOne

LEMMA SystemToggledIsOne ==
  ASSUME OneIn(open) PROVE OneIn(SystemToggled)
<1>1. CASE "system" \in open
  BY <1>1, Closing DEF SystemToggled
<1>2. CASE "system" \notin open
  <2> DEFINE rest == open \ {"notifications", "power"}
  <2>1. OneIn(rest) /\ rest \cap Popup = {}
    BY <1>2, Closing
  <2> QED
    BY <1>2, <2>1, PopupOverNone DEF SystemToggled
<1> QED
  BY <1>1, <1>2

LEMMA InitiallyIsOne == ASSUME NEW v \in View PROVE OneIn(Initially(v))
  BY Single DEF Initially

LEMMA AfterIsOne == ASSUME NEW v \in View, OneIn(open) PROVE OneIn(After(v))
  BY Single, FlippedIsOne DEF After

LEMMA InitInv == Init => Inv
  BY Single, OneInOpen DEF Init, Inv, TypeOK

\* A click changes the open surfaces only, and leaves one of each.
LEMMA ClickIsOne ==
  ASSUME OneIn(open), Click
  PROVE  OneIn(open') /\ UNCHANGED <<started, slot, served, newest>>
<1>1. CASE ShowDesktop \/ LaunchApp
  BY <1>1, Single DEF ShowDesktop, LaunchApp, Set
<1>2. CASE ToggleLauncher \/ ToggleOverview \/ ToggleCommand
  BY <1>2, FlippedIsOne DEF ToggleLauncher, ToggleOverview, ToggleCommand, Set
<1>3. CASE CommandOpens
  BY <1>3, Single DEF CommandOpens, Set
<1>4. CASE ToggleNotifications
  BY <1>4, NotifiedIsOne DEF ToggleNotifications, Set
<1>5. CASE ToggleSystem
  BY <1>5, SystemToggledIsOne DEF ToggleSystem, Set
<1>6. CASE SystemCenterOpens
  <2> DEFINE rest == open \ {"system"}
  <2>1. /\ UNCHANGED <<started, slot, served, newest>>
        /\ \/ open' = rest
           \/ open' = Notified(rest)
           \/ open' = rest \cup {"settings"}
           \/ open' = rest \cup {"power"}
    BY <1>6 DEF SystemCenterOpens, Set
  <2>2. OneIn(rest) /\ rest \cap Popup = {}
    BY <1>6, Closing DEF SystemCenterOpens, OneIn, AtMostOne
  <2>3. OneIn(rest \cup {"settings"}) /\ OneIn(rest \cup {"power"})
    BY <2>2, SettingsOver, PopupOverNone
  <2> QED
    BY <2>1, <2>2, <2>3, NotifiedIsOne
<1>7. CASE SystemCenterOpensOverview
  BY <1>7, Closing, FlippedIsOne DEF SystemCenterOpensOverview, Set
<1>8. CASE CloseSettings \/ ClosePowerMenu \/ AcceptSearch \/ ActivateSession
  BY <1>8, Closing DEF CloseSettings, ClosePowerMenu, AcceptSearch,
     ActivateSession, Set
<1> QED
  BY <1>1, <1>2, <1>3, <1>4, <1>5, <1>6, <1>7, <1>8 DEF Click

LEMMA NextInv == Inv /\ [Next]_vars => Inv'
<1> SUFFICES ASSUME Inv, [Next]_vars PROVE Inv'
  OBVIOUS
\* The two Booleans are dealt with apart from the rest.
<1> DEFINE Typed == /\ shell \in {"down", "alone", "serving"}
                    /\ slot \in View /\ served \in View /\ newest \in View
<1> DEFINE Configured == /\ overviewEnabled \in BOOLEAN
                         /\ showUserSwitcher \in BOOLEAN
<1>0. OneIn(open) /\ Typed
  BY OneInOpen DEF Inv, TypeOK
<1>c. Configured
  BY DEF Inv, TypeOK
<1>1. Configured'
  <2>1. CASE Start
    BY <2>1 DEF Start
  <2>2. CASE End
    BY <2>2 DEF End
  <2>3. CASE UNCHANGED started
    BY <1>c, <2>3 DEF started
  <2>4. CASE ~Start /\ ~End
    BY <1>0, <2>3, <2>4, ClickIsOne DEF Next, RemoteTimer, Send, vars, started
  <2> QED
    BY <2>1, <2>2, <2>4
<1>q. SUFFICES OneIn(open') /\ Typed'
  BY <1>1, OneInOpen DEF Inv, TypeOK, OneOfEach, OneIn
<1>2. CASE Start
  <2>1. /\ shell' \in {"down", "alone", "serving"}
        /\ \E v \in View : open' = Initially(v)
        /\ UNCHANGED <<slot, served, newest>>
    BY <1>2 DEF Start
  <2> QED
    BY <1>0, <2>1, InitiallyIsOne
<1>3. CASE End
  BY <1>3, Single DEF End
<1>4. CASE RemoteTimer
  BY <1>0, <1>4, AfterIsOne DEF RemoteTimer, started
<1>5. CASE Click
  <2>1. OneIn(open') /\ UNCHANGED <<started, slot, served, newest>>
    BY <1>0, <1>5, ClickIsOne
  <2>2. shell' = shell /\ slot' = slot /\ served' = served /\ newest' = newest
    BY <2>1 DEF started
  <2>3. Typed'
    BY <1>0, <2>2
  <2> QED
    BY <2>1, <2>3
<1>6. ASSUME NEW v \in Command, Send(v) PROVE OneIn(open') /\ Typed'
  BY <1>0, <1>6 DEF Send, started
<1>7. CASE UNCHANGED vars
  BY <1>0, <1>7 DEF vars
<1> QED
  BY <1>2, <1>3, <1>4, <1>5, <1>6, <1>7 DEF Next

(* Whatever the configuration, in whatever order clicks and remote         *)
(* commands arrive and however often the shell ends and starts again, no   *)
(* two pages and no two popups are ever open at once.                      *)
THEOREM SurfacesExclude == Spec => [](TypeOK /\ OneOfEach)
<1>1. Inv => TypeOK /\ OneOfEach
  BY DEF Inv
<1> QED
  BY <1>1, InitInv, NextInv, PTL DEF Spec

(* The flags of the shell, its slot and its set of open surfaces have their *)
(* types in every state.                                                    *)
THEOREM SurfacesTypeCorrect == Spec => []TypeOK
  BY SurfacesExclude, PTL

(* The atomic swap of the slot loses no command that no later one replaced. *)
THEOREM NoCommandIsLost == Spec => []NewestIsServed
<1>1. Init => NewestIsServed
  BY DEF Init, NewestIsServed
<1>2. Inv /\ NewestIsServed /\ [Next]_vars => NewestIsServed'
  <2> SUFFICES ASSUME Inv, NewestIsServed, [Next]_vars PROVE NewestIsServed'
    OBVIOUS
  <2>1. CASE RemoteTimer
    BY <2>1 DEF RemoteTimer, NewestIsServed
  <2>2. CASE Click
    <3>1. UNCHANGED <<slot, served, newest>>
      BY <2>2, ClickIsOne, OneInOpen DEF Inv, TypeOK
    <3> QED
      BY <3>1 DEF NewestIsServed
  <2>3. ASSUME NEW v \in Command, Send(v) PROVE NewestIsServed'
    BY <2>3 DEF Send, NewestIsServed
  <2>4. CASE Start
    BY <2>4 DEF Start, NewestIsServed
  <2>5. CASE End
    BY <2>5 DEF End, NewestIsServed
  <2>6. CASE UNCHANGED vars
    BY <2>6 DEF vars, NewestIsServed
  <2> QED
    BY <2>1, <2>2, <2>3, <2>4, <2>5, <2>6 DEF Next
<1>3. Spec => []Inv
  BY InitInv, NextInv, PTL DEF Spec
<1> QED
  BY <1>1, <1>2, <1>3, PTL DEF Spec
=============================================================================
