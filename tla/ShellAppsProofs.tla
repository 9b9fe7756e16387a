--------------------------- MODULE ShellAppsProofs ---------------------------
(***************************************************************************)
(* Proofs about ShellApps, for any number of apps, any catalog found at    *)
(* each start, all limits and all bounds: the screen shows the stack of    *)
(* windows, Enter launches what is highlighted, the taskbar holds what is  *)
(* pinned and then what runs, the recent apps are those launched last, and *)
(* the lists survive the shell.                                            *)
(***************************************************************************)
EXTENDS ShellApps, ListsProofs

-----------------------------------------------------------------------------
(* Sequences.                                                              *)

\* What is left when one entry is removed.
LEMMA Removal ==
  ASSUME NEW S, NEW s \in Seq(S), NEW i \in 1..Len(s)
  PROVE  /\ RemoveAt(s, i) \in Seq(S)
         /\ Len(RemoveAt(s, i)) = Len(s) - 1
         /\ \A k \in 1..Len(s) - 1 :
               RemoveAt(s, i)[k] = IF k < i THEN s[k] ELSE s[k + 1]
<1> DEFINE front == SubSeq(s, 1, i - 1)
           back  == SubSeq(s, i + 1, Len(s))
<1>1. /\ front \in Seq(S) /\ Len(front) = i - 1
      /\ \A k \in 1..i - 1 : front[k] = s[k]
  OBVIOUS
<1>2. /\ back \in Seq(S) /\ Len(back) = Len(s) - i
      /\ \A k \in 1..Len(s) - i : back[k] = s[i + k]
  OBVIOUS
<1> HIDE DEF front, back
<1>3. front \o back \in Seq(S) /\ Len(front \o back) = Len(s) - 1
  BY <1>1, <1>2
<1>4. ASSUME NEW k \in 1..Len(s) - 1
      PROVE  (front \o back)[k] = IF k < i THEN s[k] ELSE s[k + 1]
  <2>1. CASE k < i
    BY <1>1, <1>2, <2>1
  <2>2. CASE ~(k < i)
    <3>1. k - (i - 1) \in 1..Len(s) - i
      BY <2>2
    <3>2. (front \o back)[k] = back[k - (i - 1)]
      BY <1>1, <1>2, <2>2
    <3> QED
      BY <1>2, <2>2, <3>1, <3>2
  <2> QED
    BY <2>1, <2>2
<1> QED
  BY <1>3, <1>4 DEF RemoveAt, front, back

\* A list cut to a limit.
LEMMA Cut ==
  ASSUME NEW S, NEW s \in Seq(S), NEW limit \in Nat
  PROVE  /\ FirstOf(s, limit) \in Seq(S)
         /\ Len(FirstOf(s, limit)) = IF Len(s) <= limit THEN Len(s) ELSE limit
         /\ \A k \in 1..Len(FirstOf(s, limit)) : FirstOf(s, limit)[k] = s[k]
  BY DEF FirstOf

\* The position of an entry.
LEMMA Position ==
  ASSUME NEW S, NEW s \in Seq(S), NEW a, Contains(s, a)
  PROVE  Index(s, a) \in 1..Len(s) /\ s[Index(s, a)] = a
<1>1. \E i \in DOMAIN s : s[i] = a
  BY DEF Contains
<1> QED
  BY <1>1 DEF Index

\* An app taken out of a list.
LEMMA TakenOut ==
  ASSUME NEW S, NEW s \in Seq(S), NEW a
  PROVE  /\ Without(s, a) \in Seq(S)
         /\ Len(Without(s, a)) = IF Contains(s, a) THEN Len(s) - 1 ELSE Len(s)
<1>1. CASE Contains(s, a)
  BY <1>1, Position, Removal DEF Without
<1>2. CASE ~Contains(s, a)
  BY <1>2 DEF Without
<1> QED
  BY <1>1, <1>2

\* An app put in front of a list that is cut to Kept.
LEMMA PutInFront ==
  ASSUME NEW s \in Seq(App), NEW a \in App
  PROVE  /\ FirstOf(<<a>> \o s, Kept) \in Seq(App)
         /\ Len(FirstOf(<<a>> \o s, Kept)) =
               IF Len(s) < Kept THEN Len(s) + 1 ELSE Kept
         /\ FirstOf(<<a>> \o s, Kept)[1] = a
         /\ \A k \in 2..Len(FirstOf(<<a>> \o s, Kept)) :
               FirstOf(<<a>> \o s, Kept)[k] = s[k - 1]
<1> DEFINE t == <<a>> \o s
<1>1. /\ t \in Seq(App) /\ Len(t) = Len(s) + 1 /\ t[1] = a
      /\ \A k \in 2..Len(t) : t[k] = s[k - 1]
  OBVIOUS
<1>2. Kept \in Nat \ {0}
  BY AppsAssumption
<1> HIDE DEF t
<1>3. /\ FirstOf(t, Kept) \in Seq(App)
      /\ Len(FirstOf(t, Kept)) = IF Len(t) <= Kept THEN Len(t) ELSE Kept
      /\ \A k \in 1..Len(FirstOf(t, Kept)) : FirstOf(t, Kept)[k] = t[k]
  BY <1>1, <1>2, Cut
<1>4. Len(s) \in Nat /\ 1 <= Len(FirstOf(t, Kept))
  BY <1>1, <1>2, <1>3
<1>5. /\ FirstOf(t, Kept)[1] = a
      /\ \A k \in 2..Len(FirstOf(t, Kept)) : FirstOf(t, Kept)[k] = s[k - 1]
  BY <1>1, <1>2, <1>3, <1>4
<1>6. Len(FirstOf(t, Kept)) = IF Len(s) < Kept THEN Len(s) + 1 ELSE Kept
  BY <1>1, <1>2, <1>3, <1>4
<1> QED
  BY <1>3, <1>5, <1>6 DEF t

-----------------------------------------------------------------------------
(* The launcher.                                                           *)

\* The screen has its four parts.
IsScreen(s) == s = [launcher |-> s.launcher, recent |-> s.recent,
                    panel |-> s.panel, desk |-> s.desk]

\* What is selected is listed, and what is highlighted is selected.
IsSelection(list, a) ==
    IF list = <<>> THEN a = None ELSE Contains(list, a)

SearchInv ==
    /\ catalog \in SUBSET App
    /\ matches \in Seq(App) /\ IsSelection(matches, selected)
    /\ IsScreen(screen)
    /\ screen.launcher \in {Launcher(matches, selected, favorites),
                            Launcher(matches, None, favorites)}
    /\ screen.launcher.selected = None => selected = HeadOf(matches)

LEMMA ListingIsSeq ==
  ASSUME NEW apps \in SUBSET App, NEW s \in Listings(apps)
  PROVE  s \in Seq(App)
<1>1. IsFiniteSet(App)
  BY AppsAssumption, FS_Interval DEF App
<1>2. Cardinality(apps) \in Nat
  BY <1>1, FS_Subset, FS_CardinalityType
<1>3. s \in [1..Cardinality(apps) -> apps]
  BY DEF Listings
<1> QED
  BY <1>2, <1>3

LEMMA HeadIsSelection ==
  ASSUME NEW s \in Seq(App) PROVE IsSelection(s, HeadOf(s))
<1>1. CASE s = <<>>
  BY <1>1 DEF IsSelection, HeadOf
<1>2. CASE s # <<>>
  <2>1. 1 \in 1..Len(s)
    BY <1>2
  <2> QED
    BY <1>2, <2>1 DEF IsSelection, HeadOf, Contains
<1> QED
  BY <1>1, <1>2

LEMMA NoneIsHead ==
  ASSUME NEW s \in Seq(App), IsSelection(s, None) PROVE HeadOf(s) = None
<1>1. CASE s = <<>>
  BY <1>1 DEF HeadOf
<1>2. CASE s # <<>>
  <2>1. PICK i \in 1..Len(s) : s[i] = None
    BY <1>2 DEF IsSelection, Contains
  <2>2. s[i] \in App /\ None \notin App
    BY AppsAssumption DEF App, None
  <2> QED
    BY <2>1, <2>2
<1> QED
  BY <1>1, <1>2

LEMMA DiscoveredAreApps ==
  ASSUME NEW found \in Found PROVE Discovered(found) \in SUBSET App
  BY AppsAssumption DEF Discovered

\* Enter launches an app or nothing.
LEMMA ChosenIsApp ==
  ASSUME SearchInv, Chosen # None PROVE Chosen \in App /\ Chosen = selected
<1>1. matches # <<>>
  BY DEF SearchInv, Chosen, HeadOf, Contains, IsSelection
<1>2. Contains(matches, selected)
  BY <1>1 DEF SearchInv, IsSelection
<1>3. PICK i \in 1..Len(matches) : matches[i] = selected
  BY <1>2 DEF Contains
<1> QED
  BY <1>2, <1>3 DEF SearchInv, Chosen

LEMMA MovedIsSelection ==
  ASSUME matches \in Seq(App), NEW step \in Step
  PROVE  IsSelection(matches, Moved(step))
<1>1. CASE matches = <<>>
  BY <1>1 DEF Moved, IsSelection
<1>2. CASE matches # <<>>
  <2> DEFINE i == IF Contains(matches, selected)
                  THEN Index(matches, selected) ELSE 1
  <2>1. i \in Int /\ step \in Int /\ Len(matches) \in Nat \ {0}
    BY <1>2, Position DEF Step
  <2> HIDE DEF i
  <2>2. Clamped(step + i) \in 1..Len(matches)
    BY <2>1 DEF Clamped
  <2>3. Moved(step) = matches[Clamped(step + i)]
    BY <1>2 DEF Moved, i
  <2> QED
    BY <1>2, <2>2, <2>3 DEF IsSelection, Contains
<1> QED
  BY <1>1, <1>2

LEMMA SearchInit == Init => SearchInv
<1> SUFFICES ASSUME Init PROVE SearchInv
  OBVIOUS
<1>1. catalog \in SUBSET App
  BY DiscoveredAreApps DEF Init
<1>2. matches \in Seq(App) /\ selected = HeadOf(matches)
  BY <1>1, ListingIsSeq DEF Init
<1>3. /\ IsScreen(screen)
      /\ screen.launcher = Launcher(matches, None, favorites)
  BY DEF Init, FirstScreen, IsScreen
<1> QED
  BY <1>1, <1>2, <1>3, HeadIsSelection DEF SearchInv

LEMMA SearchStep == SearchInv /\ [Next]_vars => SearchInv'
<1> SUFFICES ASSUME SearchInv, [Next]_vars PROVE SearchInv'
  OBVIOUS
<1> USE DEF SearchInv
\* The handlers that leave the launcher alone.
<1>1. ASSUME UNCHANGED <<catalog, search, favorites>>,
             IsScreen(screen'), screen'.launcher = screen.launcher
      PROVE  SearchInv'
  BY <1>1 DEF search
<1>2. ASSUME NEW query \in Queries, Search(query) PROVE SearchInv'
  <2>1. matches' \in Seq(App) /\ selected' = HeadOf(matches')
    BY <1>2, ListingIsSeq DEF Search
  <2>2. /\ IsScreen(screen')
        /\ screen'.launcher = Launcher(matches', selected', favorites')
    BY <1>2 DEF Search, IsScreen, lists
  <2> QED
    BY <1>2, <2>1, <2>2, HeadIsSelection DEF Search
<1>3. ASSUME NEW step \in Step, MoveSelection(step) PROVE SearchInv'
  <2>1. IsSelection(matches', selected')
    BY <1>3, MovedIsSelection DEF MoveSelection
  <2>2. /\ IsScreen(screen')
        /\ screen'.launcher = Launcher(matches', selected', favorites')
    BY <1>3 DEF MoveSelection, Refreshed, IsScreen, lists
  <2>3. matches' \in Seq(App) /\ catalog' \in SUBSET App
    BY <1>3 DEF MoveSelection
  <2>4. screen'.launcher.selected = selected'
    BY <2>2 DEF Launcher
  <2>5. selected' = None => selected' = HeadOf(matches')
    BY <2>1, <2>3, NoneIsHead
  <2> QED
    BY <2>1, <2>2, <2>3, <2>4, <2>5
<1>4. ASSUME NEW a, Launch(a) PROVE SearchInv'
  <2>1. IsScreen(screen') /\ screen'.launcher = screen.launcher
    BY <1>4 DEF Launch, IsScreen
  <2> QED
    BY <1>1, <1>4, <2>1 DEF Launch
<1>5. ASSUME NEW a \in App, ToggleFavorite(a) PROVE SearchInv'
  <2>1. UNCHANGED <<catalog, matches, selected>>
    BY <1>5 DEF ToggleFavorite, search
  <2>2. /\ IsScreen(screen')
        /\ screen'.launcher = Launcher(matches', selected', favorites')
    BY <1>5, <2>1 DEF ToggleFavorite, Refreshed, IsScreen
  <2>3. screen'.launcher.selected = selected'
    BY <2>2 DEF Launcher
  <2>4. selected' = None => selected' = HeadOf(matches')
    BY <2>1, NoneIsHead
  <2> QED
    BY <2>1, <2>2, <2>3, <2>4
<1>6. ASSUME Restacked PROVE SearchInv'
  <2>1. IsScreen(screen') /\ screen'.launcher = screen.launcher
    BY <1>6 DEF Restacked, IsScreen
  <2> QED
    BY <1>1, <1>6, <2>1 DEF Restacked, lists
<1>7. ASSUME NEW stack, Replaced(stack) PROVE SearchInv'
  <2>1. IsScreen(screen') /\ screen'.launcher = screen.launcher
    BY <1>7 DEF Replaced, IsScreen
  <2> QED
    BY <1>1, <1>7, <2>1 DEF Replaced, lists
<1>8. ASSUME NEW a \in Tracked, AppStarts(a) \/ AppExits(a) PROVE SearchInv'
  BY <1>1, <1>8 DEF AppStarts, AppExits, lists
<1>9. CASE Restart
  <2>1. catalog' \in SUBSET App
    BY <1>9, DiscoveredAreApps DEF Restart
  <2>2. matches' \in Seq(App) /\ selected' = HeadOf(matches')
    BY <1>9, <2>1, ListingIsSeq DEF Restart
  <2>3. /\ IsScreen(screen')
        /\ screen'.launcher = Launcher(matches', None, favorites')
    BY <1>9 DEF Restart, FirstScreen, IsScreen
  <2> QED
    BY <2>1, <2>2, <2>3, HeadIsSelection
<1>10. CASE UNCHANGED vars
  BY <1>1, <1>10 DEF vars, lists
<1> QED
  BY <1>2, <1>3, <1>4, <1>5, <1>6, <1>7, <1>8, <1>9, <1>10
  DEF Next, AcceptSearch, LaunchApp, FocusWindow, MaximizeWindow, MoveWindow,
      ResizeWindow, MinimizeWindow, CloseWindow

-----------------------------------------------------------------------------
(* The stack of windows.                                                   *)

\* Every app has one window at most.
OneEach(stack) ==
    \A i, j \in DOMAIN stack : stack[i].app = stack[j].app => i = j

LEMMA OneEachRemoved ==
  ASSUME NEW s \in Seq(Window), OneEach(s), NEW i \in 1..Len(s)
  PROVE  /\ OneEach(RemoveAt(s, i))
         /\ \A k \in 1..Len(RemoveAt(s, i)) : RemoveAt(s, i)[k].app # s[i].app
<1> DEFINE t == RemoveAt(s, i)
<1>1. /\ t \in Seq(Window) /\ Len(t) = Len(s) - 1
      /\ \A k \in 1..Len(s) - 1 : t[k] = IF k < i THEN s[k] ELSE s[k + 1]
  BY Removal
<1>2. DOMAIN t = 1..Len(s) - 1 /\ DOMAIN s = 1..Len(s) /\ Len(s) \in Nat
  BY <1>1
<1> HIDE DEF t
<1> DEFINE before(k) == IF k < i THEN k ELSE k + 1
<1>3. ASSUME NEW k \in DOMAIN t
      PROVE  before(k) \in DOMAIN s \ {i} /\ t[k] = s[before(k)]
  BY <1>1, <1>2
<1>4. ASSUME NEW j \in DOMAIN t, NEW k \in DOMAIN t, t[j].app = t[k].app
      PROVE  j = k
  <2>1. before(j) = before(k)
    BY <1>3, <1>4 DEF OneEach
  <2> QED
    BY <1>2, <2>1
<1>5. ASSUME NEW k \in 1..Len(t) PROVE t[k].app # s[i].app
  BY <1>1, <1>2, <1>3 DEF OneEach
<1> QED
  BY <1>4, <1>5 DEF OneEach, t

LEMMA OneEachAppended ==
  ASSUME NEW s \in Seq(Window), OneEach(s), NEW w \in Window,
         \A k \in 1..Len(s) : s[k].app # w.app
  PROVE  Append(s, w) \in Seq(Window) /\ OneEach(Append(s, w))
<1> DEFINE t == Append(s, w)
<1>1. /\ t \in Seq(Window) /\ Len(t) = Len(s) + 1 /\ t[Len(s) + 1] = w
      /\ \A k \in 1..Len(s) : t[k] = s[k]
  OBVIOUS
<1>2. DOMAIN t = 1..Len(s) + 1 /\ DOMAIN s = 1..Len(s) /\ Len(s) \in Nat
  BY <1>1
<1> HIDE DEF t
<1>3. ASSUME NEW j \in DOMAIN t, NEW k \in DOMAIN t, t[j].app = t[k].app
      PROVE  j = k
  BY <1>1, <1>2, <1>3 DEF OneEach
<1> QED
  BY <1>1, <1>3 DEF OneEach, t

LEMMA OneEachReplaced ==
  ASSUME NEW s \in Seq(Window), OneEach(s), NEW i \in 1..Len(s),
         NEW w \in Window, w.app = s[i].app
  PROVE  [s EXCEPT ![i] = w] \in Seq(Window) /\ OneEach([s EXCEPT ![i] = w])
<1> DEFINE t == [s EXCEPT ![i] = w]
<1>1. /\ t \in Seq(Window) /\ DOMAIN t = DOMAIN s
      /\ \A k \in DOMAIN s : t[k].app = s[k].app
  OBVIOUS
<1> HIDE DEF t
<1> QED
  BY <1>1 DEF OneEach, t

\* The window of an app that has one.
LEMMA TheWindow ==
  ASSUME windows \in Seq(Window), NEW a, IsOpen(a)
  PROVE  /\ At(a) \in 1..Len(windows)
         /\ windows[At(a)].app = a
         /\ Flags(a) \in SUBSET Flag
<1>1. PICK i \in DOMAIN windows : windows[i].app = a
  BY DEF IsOpen, AppsOf
<1>2. At(a) \in DOMAIN windows /\ windows[At(a)].app = a
  BY <1>1 DEF At
<1>3. windows[At(a)] \in Window
  BY <1>2
<1> QED
  BY <1>2, <1>3 DEF Flags, Window

\* A window raised, whichever of its flags change.
LEMMA RaisedIsOneEach ==
  ASSUME windows \in Seq(Window), OneEach(windows), NEW a \in App, IsOpen(a),
         NEW flags \in SUBSET Flag
  PROVE  Raised(a, flags) \in Seq(Window) /\ OneEach(Raised(a, flags))
<1> DEFINE w    == [app |-> a, flags |-> flags]
           rest == RemoveAt(windows, At(a))
<1>1. At(a) \in 1..Len(windows) /\ windows[At(a)].app = a
  BY TheWindow
<1>2. w \in Window /\ w.app = a
  BY DEF Window
<1>3. rest \in Seq(Window)
  BY <1>1, Removal
<1>4. OneEach(rest) /\ \A k \in 1..Len(rest) : rest[k].app # a
  BY <1>1, OneEachRemoved
<1> HIDE DEF w, rest
<1>5. Append(rest, w) \in Seq(Window) /\ OneEach(Append(rest, w))
  BY <1>2, <1>3, <1>4, OneEachAppended
<1> QED
  BY <1>5 DEF Raised, w, rest

\* A window opened, or raised where there is one.
LEMMA OpenedIsOneEach ==
  ASSUME windows \in Seq(Window), OneEach(windows), NEW a \in App
  PROVE  Opened(a) \in Seq(Window) /\ OneEach(Opened(a))
<1>1. CASE IsOpen(a)
  <2>1. Flags(a) \ {"minimized"} \in SUBSET Flag
    BY <1>1, TheWindow
  <2> QED
    BY <1>1, <2>1, RaisedIsOneEach DEF Opened
<1>2. CASE ~IsOpen(a)
  <2> DEFINE w == [app |-> a, flags |-> {}]
  <2>1. w \in Window /\ w.app = a
    BY DEF Window
  <2>2. \A k \in 1..Len(windows) : windows[k].app # a
    BY <1>2 DEF IsOpen, AppsOf
  <2> HIDE DEF w
  <2>3. Append(windows, w) \in Seq(Window) /\ OneEach(Append(windows, w))
    BY <2>1, <2>2, OneEachAppended
  <2> QED
    BY <1>2, <2>3 DEF Opened, w
<1> QED
  BY <1>1, <1>2

\* The screen shows the stack.
StackInv ==
    /\ windows \in Seq(Window) /\ OneEach(windows)
    /\ IsScreen(screen) /\ screen.desk = Desk(windows)

LEMMA StackInit == Init => StackInv
<1> SUFFICES ASSUME Init PROVE StackInv
  OBVIOUS
<1>1. windows = <<>> /\ OneEach(windows) /\ windows \in Seq(Window)
  BY DEF Init, OneEach
<1>2. IsScreen(screen) /\ screen.desk = Desk(<<>>)
  BY DEF Init, FirstScreen, IsScreen
<1> QED
  BY <1>1, <1>2 DEF StackInv

LEMMA StackStep == SearchInv /\ StackInv /\ [Next]_vars => StackInv'
<1> SUFFICES ASSUME SearchInv, StackInv, [Next]_vars PROVE StackInv'
  OBVIOUS
<1> USE DEF StackInv
<1>1. ASSUME NEW a \in App, NEW flags \in SUBSET Flag, IsOpen(a),
             windows' = Raised(a, flags), Restacked
      PROVE  StackInv'
  <2>1. windows' \in Seq(Window) /\ OneEach(windows')
    BY <1>1, RaisedIsOneEach
  <2>2. IsScreen(screen') /\ screen'.desk = Desk(windows')
    BY <1>1 DEF Restacked, IsScreen
  <2> QED
    BY <2>1, <2>2
<1>2. ASSUME NEW stack \in Seq(Window), OneEach(stack), Replaced(stack)
      PROVE  StackInv'
  <2>1. windows' \in Seq(Window) /\ OneEach(windows')
    BY <1>2 DEF Replaced
  <2>2. IsScreen(screen') /\ screen'.desk = Desk(windows')
    BY <1>2 DEF Replaced, IsScreen
  <2> QED
    BY <2>1, <2>2
<1>3. ASSUME NEW query \in Queries, Search(query) PROVE StackInv'
  BY <1>3 DEF Search, IsScreen
<1>4. ASSUME NEW step \in Step, MoveSelection(step) PROVE StackInv'
  BY <1>4 DEF MoveSelection, Refreshed, IsScreen
<1>5. ASSUME NEW a \in App, Launch(a) PROVE StackInv'
  <2>1. windows' \in Seq(Window) /\ OneEach(windows')
    BY <1>5, OpenedIsOneEach DEF Launch
  <2>2. IsScreen(screen') /\ screen'.desk = Desk(windows')
    BY <1>5 DEF Launch, IsScreen
  <2> QED
    BY <2>1, <2>2
<1>6. ASSUME NEW a \in App, ToggleFavorite(a) PROVE StackInv'
  BY <1>6 DEF ToggleFavorite, Refreshed, IsScreen
<1>7. ASSUME NEW a \in App, FocusWindow(a) PROVE StackInv'
  <2>1. IsOpen(a) /\ Flags(a) \ {"minimized"} \in SUBSET Flag
    BY <1>7, TheWindow DEF FocusWindow, Clickable
  <2> QED
    BY <1>1, <1>7, <2>1 DEF FocusWindow
<1>8. ASSUME NEW a \in App, MaximizeWindow(a) PROVE StackInv'
  <2>1. /\ IsOpen(a)
        /\ (IF "maximized" \in Flags(a) THEN {} ELSE {"maximized"})
              \in SUBSET Flag
    BY <1>8 DEF MaximizeWindow, Clickable, Flag
  <2> QED
    BY <1>1, <1>8, <2>1 DEF MaximizeWindow
<1>9. ASSUME NEW a \in App, MoveWindow(a) \/ ResizeWindow(a) PROVE StackInv'
  <2>1. IsOpen(a) /\ {} \in SUBSET Flag
    BY <1>9 DEF MoveWindow, ResizeWindow, Clickable
  <2> QED
    BY <1>1, <1>9, <2>1 DEF MoveWindow, ResizeWindow
<1>10. ASSUME NEW a \in App, MinimizeWindow(a) PROVE StackInv'
  <2> DEFINE w == [app |-> a, flags |-> Flags(a) \cup {"minimized"}]
  <2>1. /\ At(a) \in 1..Len(windows) /\ windows[At(a)].app = a
        /\ Flags(a) \in SUBSET Flag
    BY <1>10, TheWindow DEF MinimizeWindow, Clickable
  <2>2. w \in Window /\ w.app = a
    BY <2>1 DEF Window, Flag
  <2>3. Replaced([windows EXCEPT ![At(a)] = w])
    BY <1>10 DEF MinimizeWindow
  <2> HIDE DEF w
  <2>4. /\ [windows EXCEPT ![At(a)] = w] \in Seq(Window)
        /\ OneEach([windows EXCEPT ![At(a)] = w])
    BY <2>1, <2>2, OneEachReplaced
  <2> QED
    BY <1>2, <2>3, <2>4
<1>11. ASSUME NEW a \in App, CloseWindow(a) PROVE StackInv'
  <2>1. At(a) \in 1..Len(windows)
    BY <1>11, TheWindow DEF CloseWindow, Clickable
  <2>2. RemoveAt(windows, At(a)) \in Seq(Window)
    BY <2>1, Removal
  <2>3. OneEach(RemoveAt(windows, At(a)))
    BY <2>1, OneEachRemoved
  <2> QED
    BY <1>2, <1>11, <2>2, <2>3 DEF CloseWindow
<1>12. ASSUME NEW a \in Tracked, AppStarts(a) \/ AppExits(a) PROVE StackInv'
  BY <1>12 DEF AppStarts, AppExits
<1>13. CASE Restart
  <2>1. windows' = <<>> /\ windows' \in Seq(Window) /\ OneEach(windows')
    BY <1>13 DEF Restart, OneEach
  <2>2. IsScreen(screen') /\ screen'.desk = Desk(<<>>)
    BY <1>13 DEF Restart, FirstScreen, IsScreen
  <2> QED
    BY <2>1, <2>2
<1>14. CASE UNCHANGED vars
  BY <1>14 DEF vars
<1>15. CASE AcceptSearch
  BY <1>5, <1>15, ChosenIsApp DEF AcceptSearch
<1> QED
  BY <1>3, <1>4, <1>5, <1>6, <1>7, <1>8, <1>9, <1>10, <1>11, <1>12, <1>13,
     <1>14, <1>15 DEF Next, LaunchApp

-----------------------------------------------------------------------------
(* Recent and pinned apps.                                                 *)

\* RecentsAreTheLatest, with what makes it inductive: the list holds apps,
\* each once, and an app is not among those launched since its own launch.
RecentInv ==
    /\ recents \in Seq(App) /\ Len(recents) <= Kept
    /\ \A i, j \in 1..Len(recents) : recents[i] = recents[j] => i = j
    /\ launched \in SUBSET App /\ since \in [App -> SUBSET App]
    /\ \A i \in 1..Len(recents) :
          /\ recents[i] \in launched
          /\ since[recents[i]] = {recents[j] : j \in 1..i - 1}
    /\ \A a \in launched :
          \/ \E i \in 1..Len(recents) : recents[i] = a
          \/ /\ Len(recents) = Kept
             /\ \A i \in 1..Len(recents) : recents[i] \in since[a]

\* A list without one of its apps: where each of the others comes from.
LEMMA WithoutOne ==
  ASSUME NEW s \in Seq(App), NEW a \in App,
         \A i, j \in 1..Len(s) : s[i] = s[j] => i = j
  PROVE  /\ Without(s, a) \in Seq(App)
         /\ Len(Without(s, a)) = IF Contains(s, a) THEN Len(s) - 1 ELSE Len(s)
         /\ \E p \in 1..Len(s) + 1 :
               /\ p <= Len(s) <=> Contains(s, a)
               /\ p <= Len(s) => s[p] = a
               /\ \A k \in 1..Len(Without(s, a)) :
                     Without(s, a)[k] = IF k < p THEN s[k] ELSE s[k + 1]
<1>1. CASE Contains(s, a)
  <2> DEFINE i == Index(s, a)
  <2>1. i \in 1..Len(s) /\ s[i] = a
    BY <1>1, Position
  <2>2. Without(s, a) = RemoveAt(s, i)
    BY <1>1 DEF Without
  <2> HIDE DEF i
  <2>3. /\ RemoveAt(s, i) \in Seq(App) /\ Len(RemoveAt(s, i)) = Len(s) - 1
        /\ \A k \in 1..Len(s) - 1 :
              RemoveAt(s, i)[k] = IF k < i THEN s[k] ELSE s[k + 1]
    BY <2>1, Removal
  <2>4. i <= Len(s) /\ i \in 1..Len(s) + 1
    BY <2>1
  <2> QED
    BY <1>1, <2>1, <2>2, <2>3, <2>4
<1>2. CASE ~Contains(s, a)
  <2>1. Without(s, a) = s
    BY <1>2 DEF Without
  <2>2. Len(s) \in Nat /\ Len(s) + 1 \in 1..Len(s) + 1
    OBVIOUS
  <2> QED
    BY <1>2, <2>1, <2>2
<1> QED
  BY <1>1, <1>2

\* A launch: the list and what was launched since, as functions of the past.
LEMMA RecentLaunch ==
  ASSUME RecentInv, NEW a \in App, Launch(a) PROVE RecentInv'
<1> DEFINE rest == Without(recents, a)
           n    == Len(recents)
<1> USE DEF RecentInv
<1>1. /\ rest \in Seq(App)
      /\ Len(rest) = IF Contains(recents, a) THEN n - 1 ELSE n
  BY WithoutOne
<1>2. PICK p \in 1..n + 1 :
         /\ p <= n <=> Contains(recents, a)
         /\ p <= n => recents[p] = a
         /\ \A k \in 1..Len(rest) :
               rest[k] = IF k < p THEN recents[k] ELSE recents[k + 1]
  BY WithoutOne
<1>3. Kept \in Nat \ {0} /\ n \in Nat /\ n <= Kept
  BY AppsAssumption
<1>4. recents' = FirstOf(<<a>> \o rest, Kept)
  BY DEF Launch, Recorded
<1>5. /\ launched' = launched \cup {a}
      /\ since' = [b \in App |-> IF b = a THEN {}
                                 ELSE IF b \in launched THEN since[b] \cup {a}
                                 ELSE {}]
  BY DEF Launch
<1> HIDE DEF rest
<1>6. /\ recents' \in Seq(App)
      /\ Len(recents') = IF Len(rest) < Kept THEN Len(rest) + 1 ELSE Kept
      /\ recents'[1] = a
      /\ \A k \in 2..Len(recents') : recents'[k] = rest[k - 1]
  <2> DEFINE new == FirstOf(<<a>> \o rest, Kept)
  <2>1. /\ new \in Seq(App)
        /\ Len(new) = IF Len(rest) < Kept THEN Len(rest) + 1 ELSE Kept
        /\ new[1] = a
        /\ \A k \in 2..Len(new) : new[k] = rest[k - 1]
    BY <1>1, PutInFront
  <2>2. recents' = new
    BY <1>4
  <2> HIDE DEF new
  <2> QED
    BY <2>1, <2>2
\* Where the others were: an entry before the one taken out moves down by one.
<1> DEFINE was(k) == IF k - 1 < p THEN k - 1 ELSE k
<1>7. ASSUME NEW k \in 2..Len(recents')
      PROVE  was(k) \in (1..n) \ {p} /\ recents'[k] = recents[was(k)]
  <2>1. k - 1 \in 1..Len(rest)
    BY <1>1, <1>3, <1>6
  <2>2. recents'[k] = IF k - 1 < p THEN recents[k - 1] ELSE recents[k]
    BY <1>2, <1>6, <2>1
  <2>3. was(k) \in (1..n) \ {p}
    BY <1>1, <1>2, <1>3, <2>1
  <2> QED
    BY <2>2, <2>3
<1>8. ASSUME NEW i \in 1..n, i # p PROVE recents[i] # a
  BY <1>2, <1>8 DEF Contains
<1>9. ASSUME NEW k \in 2..Len(recents') PROVE recents'[k] # a
  BY <1>7, <1>8
<1>10. ASSUME NEW i \in 1..Len(recents'), NEW j \in 1..Len(recents'),
              recents'[i] = recents'[j]
       PROVE  i = j
  <2>1. CASE i = 1 \/ j = 1
    BY <1>6, <1>9, <1>10, <2>1
  <2>2. CASE i # 1 /\ j # 1
    <3>1. was(i) = was(j)
      BY <1>7, <1>10, <2>2
    <3> QED
      BY <1>3, <1>6, <1>7, <2>2, <3>1
  <2> QED
    BY <2>1, <2>2
<1>11. launched' \in SUBSET App /\ since' \in [App -> SUBSET App]
  BY <1>5
<1>12. ASSUME NEW i \in 1..Len(recents')
       PROVE  /\ recents'[i] \in launched'
              /\ since'[recents'[i]] = {recents'[j] : j \in 1..i - 1}
  <2>1. CASE i = 1
    BY <1>5, <1>6, <2>1
  <2>2. CASE i # 1
    <3> DEFINE b == recents[was(i)]
    <3>1. was(i) \in 1..n /\ was(i) # p /\ recents'[i] = b /\ i \in 2..Len(recents')
      BY <1>6, <1>7, <2>2
    <3>2. b \in launched /\ b # a /\ b \in App
      BY <3>1, <1>8
    <3>3. since'[b] = since[b] \cup {a}
      BY <1>5, <3>2
    <3>4. since[b] = {recents[j] : j \in 1..was(i) - 1}
      BY <3>1
    <3> HIDE DEF b
    <3>5. ASSUME NEW j \in 1..i - 1
          PROVE  recents'[j] \in since[b] \cup {a}
      <4>1. CASE j = 1
        BY <1>6, <4>1
      <4>2. CASE j # 1
        <5>1. /\ j \in 2..Len(recents')
              /\ was(j) \in 1..was(i) - 1
          BY <1>6, <1>7, <3>1, <4>2
        <5> QED
          BY <1>7, <3>4, <5>1
      <4> QED
        BY <4>1, <4>2
    <3>6. ASSUME NEW j \in 1..was(i) - 1
          PROVE  \E m \in 1..i - 1 : recents'[m] = recents[j]
      <4>1. CASE j = p
        BY <1>2, <1>6, <3>1, <4>1
      <4>2. CASE j < p
        <5>1. j + 1 \in 2..i - 1 /\ was(j + 1) = j /\ i - 1 < Len(recents')
          BY <1>3, <1>6, <3>1, <4>2
        <5>2. recents'[j + 1] = recents[j]
          BY <1>7, <3>1, <5>1
        <5> QED
          BY <5>1, <5>2
      <4>3. CASE j > p
        <5>1. j \in 2..i - 1 /\ was(j) = j /\ i - 1 < Len(recents')
          BY <1>3, <1>6, <3>1, <4>3
        <5>2. recents'[j] = recents[j]
          BY <1>7, <3>1, <5>1
        <5> QED
          BY <5>1, <5>2
      <4> QED
        BY <4>1, <4>2, <4>3
    <3>7. recents'[1] = a /\ 1 \in 1..i - 1
      BY <1>6, <3>1
    <3>8. since[b] \cup {a} = {recents'[j] : j \in 1..i - 1}
      <4>1. ASSUME NEW x \in since[b]
            PROVE  x \in {recents'[j] : j \in 1..i - 1}
        <5>1. PICK j \in 1..was(i) - 1 : x = recents[j]
          BY <3>4
        <5>2. PICK m \in 1..i - 1 : recents'[m] = recents[j]
          BY <3>6, <5>1
        <5> QED
          BY <5>1, <5>2
      <4> QED
        BY <3>5, <3>7, <4>1
    <3> QED
      BY <1>5, <3>1, <3>2, <3>3, <3>8
  <2> QED
    BY <2>1, <2>2
<1>13. ASSUME NEW b \in launched', \A i \in 1..Len(recents') : recents'[i] # b
       PROVE  /\ Len(recents') = Kept
              /\ \A i \in 1..Len(recents') : recents'[i] \in since'[b]
  <2>1. b # a /\ b \in launched /\ b \in App
    <3>1. 1 \in 1..Len(recents')
      BY <1>1, <1>3, <1>6
    <3> QED
      BY <1>5, <1>6, <1>13, <3>1
  <2>2. since'[b] = since[b] \cup {a}
    BY <1>5, <2>1
  <2>3. CASE \E i \in 1..n : recents[i] = b
    \* The list was full, and b was the last of it.
    <3>1. PICK i \in 1..n : recents[i] = b
      BY <2>3
    <3>2. i # p
      BY <1>2, <2>1, <3>1
    <3> DEFINE k == IF i < p THEN i + 1 ELSE i
    <3>3. k \in 2..n + 1 /\ was(k) = i
      BY <1>3, <3>2
    <3>4. ASSUME k \in 2..Len(recents') PROVE FALSE
      <4>1. recents'[k] = recents[was(k)] /\ k \in 1..Len(recents')
        BY <1>7, <3>4
      <4> QED
        BY <1>13, <3>1, <3>3, <4>1
    <3>5. Len(recents') = Kept /\ i = Kept /\ n = Kept /\ p = n + 1
      BY <1>1, <1>2, <1>3, <1>6, <3>3, <3>4
    <3>6. ASSUME NEW j \in 2..Len(recents') PROVE recents'[j] \in since[b]
      <4>1. recents'[j] = recents[j - 1] /\ j - 1 \in 1..i - 1
        BY <1>3, <1>7, <3>5
      <4> QED
        BY <3>1, <4>1
    <3> QED
      BY <1>6, <2>2, <3>5, <3>6
  <2>4. CASE ~\E i \in 1..n : recents[i] = b
    <3>1. n = Kept /\ \A i \in 1..n : recents[i] \in since[b]
      BY <2>1, <2>4
    <3>2. Len(recents') = Kept
      BY <1>1, <1>3, <1>6, <3>1
    <3>3. ASSUME NEW j \in 2..Len(recents') PROVE recents'[j] \in since[b]
      BY <1>7, <3>1
    <3> QED
      BY <1>6, <2>2, <3>2, <3>3
  <2> QED
    BY <2>3, <2>4
<1>14. Len(recents') <= Kept
  BY <1>1, <1>3, <1>6
<1> QED
  BY <1>6, <1>10, <1>11, <1>12, <1>13, <1>14

\* The files are as the lists.
FileInv == saved = [favorites |-> favorites, recents |-> recents]

LEMMA FileInit == Init => FileInv
  BY DEF Init, FileInv

LEMMA FileStep == FileInv /\ [Next]_vars => FileInv'
<1> SUFFICES ASSUME FileInv, [Next]_vars PROVE FileInv'
  OBVIOUS
<1> USE DEF FileInv
<1>1. ASSUME NEW a, Launch(a) PROVE FileInv'
  BY <1>1 DEF Launch
<1>2. ASSUME NEW a, ToggleFavorite(a) PROVE FileInv'
  BY <1>2 DEF ToggleFavorite
<1>3. CASE Restart
  BY <1>3 DEF Restart
<1>4. CASE UNCHANGED lists
  BY <1>4 DEF lists
<1>5. ASSUME NEW query \in Queries, Search(query) PROVE UNCHANGED lists
  BY <1>5 DEF Search
<1>6. ASSUME NEW step \in Step, MoveSelection(step) PROVE UNCHANGED lists
  BY <1>6 DEF MoveSelection
<1>7. ASSUME NEW a, \/ FocusWindow(a) \/ MaximizeWindow(a) \/ MoveWindow(a)
                    \/ ResizeWindow(a) \/ MinimizeWindow(a) \/ CloseWindow(a)
      PROVE  UNCHANGED lists
  BY <1>7 DEF FocusWindow, MaximizeWindow, MoveWindow, ResizeWindow,
              MinimizeWindow, CloseWindow, Restacked, Replaced
<1>8. ASSUME NEW a \in Tracked, AppStarts(a) \/ AppExits(a)
      PROVE  UNCHANGED lists
  BY <1>8 DEF AppStarts, AppExits
<1>9. CASE UNCHANGED vars
  BY <1>9 DEF vars, lists
<1> QED
  BY <1>1, <1>2, <1>3, <1>4, <1>5, <1>6, <1>7, <1>8, <1>9
  DEF Next, AcceptSearch, LaunchApp

LEMMA RecentInit == Init => RecentInv
<1> SUFFICES ASSUME Init PROVE RecentInv
  OBVIOUS
<1>1. recents = <<>> /\ launched = {} /\ since = [a \in App |-> {}]
  BY DEF Init
<1> QED
  BY <1>1, AppsAssumption DEF RecentInv

LEMMA RecentStep == SearchInv /\ FileInv /\ RecentInv /\ [Next]_vars => RecentInv'
<1> SUFFICES ASSUME SearchInv, FileInv, RecentInv, [Next]_vars PROVE RecentInv'
  OBVIOUS
<1>1. CASE UNCHANGED <<recents, launched, since>>
  BY <1>1 DEF RecentInv
<1>2. ASSUME NEW a \in App, LaunchApp(a) PROVE RecentInv'
  BY <1>2, RecentLaunch DEF LaunchApp
<1>3. CASE AcceptSearch
  BY <1>3, ChosenIsApp, RecentLaunch DEF AcceptSearch
<1>4. CASE Restart
  BY <1>1, <1>4 DEF Restart, FileInv, history
<1>5. ASSUME NEW query \in Queries, Search(query)
      PROVE  UNCHANGED <<recents, launched, since>>
  BY <1>5 DEF Search, lists, history
<1>6. ASSUME NEW step \in Step, MoveSelection(step)
      PROVE  UNCHANGED <<recents, launched, since>>
  BY <1>6 DEF MoveSelection, lists, history
<1>7. ASSUME NEW a, \/ ToggleFavorite(a) \/ FocusWindow(a)
                    \/ MaximizeWindow(a) \/ MoveWindow(a) \/ ResizeWindow(a)
                    \/ MinimizeWindow(a) \/ CloseWindow(a)
      PROVE  UNCHANGED <<recents, launched, since>>
  BY <1>7 DEF ToggleFavorite, FocusWindow, MaximizeWindow, MoveWindow,
              ResizeWindow, MinimizeWindow, CloseWindow, Restacked, Replaced,
              lists, history
<1>8. ASSUME NEW a \in Tracked, AppStarts(a) \/ AppExits(a)
      PROVE  UNCHANGED <<recents, launched, since>>
  BY <1>8 DEF AppStarts, AppExits, lists, history
<1>9. CASE UNCHANGED vars
  BY <1>1, <1>9 DEF vars, lists, history
<1> QED
  BY <1>1, <1>2, <1>3, <1>4, <1>5, <1>6, <1>7, <1>8, <1>9 DEF Next

-----------------------------------------------------------------------------
(* Types.                                                                  *)

\* The part of TypeOK that the invariants above do not hold.
TypeInv ==
    /\ catalog # {}
    /\ procs \in [Tracked -> 0..MaxProcs]
    /\ running \in [Tracked -> 0..MaxProcs]
    /\ favorites \in Seq(App) /\ Len(favorites) <= Kept

LEMMA ToggledIsKept ==
  ASSUME NEW ids \in Seq(App), Len(ids) <= Kept, NEW a \in App
  PROVE  Toggled(ids, a) \in Seq(App) /\ Len(Toggled(ids, a)) <= Kept
<1>1. Kept \in Nat \ {0} /\ Len(ids) \in Nat
  BY AppsAssumption
<1>2. CASE Contains(ids, a)
  <2>1. Without(ids, a) \in Seq(App)
    BY TakenOut
  <2>2. Toggled(ids, a) = FirstOf(Without(ids, a), Kept)
    BY <1>2 DEF Toggled
  <2> QED
    BY <1>1, <2>1, <2>2, Cut
<1>3. CASE ~Contains(ids, a)
  <2>1. Toggled(ids, a) = FirstOf(<<a>> \o ids, Kept)
    BY <1>3 DEF Toggled
  <2> QED
    BY <1>1, <2>1, PutInFront
<1> QED
  BY <1>2, <1>3

LEMMA DiscoveredIsSome ==
  ASSUME NEW found \in Found PROVE Discovered(found) # {}
  BY AppsAssumption DEF Discovered

LEMMA NoProcsIsTyped == NoProcs \in [Tracked -> 0..MaxProcs]
  BY AppsAssumption DEF NoProcs

\* One process more or less.
LEMMA ProcsAreTyped ==
  ASSUME procs \in [Tracked -> 0..MaxProcs], NEW a \in Tracked
  PROVE  /\ procs[a] < MaxProcs
              => [procs EXCEPT ![a] = @ + 1] \in [Tracked -> 0..MaxProcs]
         /\ procs[a] > 0
              => [procs EXCEPT ![a] = @ - 1] \in [Tracked -> 0..MaxProcs]
<1>1. MaxProcs \in Nat /\ procs[a] \in 0..MaxProcs
  BY AppsAssumption
<1>2. /\ procs[a] < MaxProcs => procs[a] + 1 \in 0..MaxProcs
      /\ procs[a] > 0 => procs[a] - 1 \in 0..MaxProcs
  BY <1>1
<1> QED
  BY <1>2

LEMMA TypeInit == Init => TypeInv
<1> SUFFICES ASSUME Init PROVE TypeInv
  OBVIOUS
<1>1. catalog # {}
  BY DiscoveredIsSome DEF Init
<1>2. procs = NoProcs /\ running = NoProcs /\ favorites = <<>>
  BY DEF Init
<1> QED
  BY <1>1, <1>2, NoProcsIsTyped, AppsAssumption DEF TypeInv

LEMMA TypeStep == SearchInv /\ FileInv /\ TypeInv /\ [Next]_vars => TypeInv'
<1> SUFFICES ASSUME SearchInv, FileInv, TypeInv, [Next]_vars PROVE TypeInv'
  OBVIOUS
<1> USE DEF TypeInv
<1>1. CASE UNCHANGED <<catalog, procs, running, favorites>>
  BY <1>1
<1>2. ASSUME NEW a, Launch(a) PROVE TypeInv'
  <2>1. procs' \in [Tracked -> 0..MaxProcs]
    <3>1. procs' = procs \/ /\ a \in Tracked /\ procs[a] < MaxProcs
                            /\ procs' = [procs EXCEPT ![a] = @ + 1]
      BY <1>2 DEF Launch, Spawned
    <3> QED
      BY <3>1, ProcsAreTyped
  <2> QED
    BY <1>2, <2>1 DEF Launch
<1>3. ASSUME NEW a \in App, ToggleFavorite(a) PROVE TypeInv'
  <2>1. favorites' \in Seq(App) /\ Len(favorites') <= Kept
    BY <1>3, ToggledIsKept DEF ToggleFavorite
  <2> QED
    BY <1>3, <2>1 DEF ToggleFavorite
<1>4. ASSUME NEW a \in Tracked, AppStarts(a) \/ AppExits(a) PROVE TypeInv'
  <2>1. procs' \in [Tracked -> 0..MaxProcs]
    BY <1>4, ProcsAreTyped DEF AppStarts, AppExits
  <2> QED
    BY <1>4, <2>1 DEF AppStarts, AppExits, lists
<1>5. CASE Restart
  <2>1. catalog' # {}
    BY <1>5, DiscoveredIsSome DEF Restart
  <2>2. favorites' = favorites /\ procs' = procs
    BY <1>5 DEF Restart, FileInv
  <2> QED
    BY <1>5, <2>1, <2>2, NoProcsIsTyped DEF Restart
<1>6. ASSUME NEW query \in Queries, Search(query) PROVE TypeInv'
  BY <1>1, <1>6 DEF Search, lists
<1>7. ASSUME NEW step \in Step, MoveSelection(step) PROVE TypeInv'
  BY <1>1, <1>7 DEF MoveSelection, lists
<1>8. ASSUME NEW a, \/ FocusWindow(a) \/ MaximizeWindow(a) \/ MoveWindow(a)
                    \/ ResizeWindow(a) \/ MinimizeWindow(a) \/ CloseWindow(a)
      PROVE  TypeInv'
  <2>1. UNCHANGED <<catalog, procs, running, favorites>>
    BY <1>8 DEF FocusWindow, MaximizeWindow, MoveWindow, ResizeWindow,
                MinimizeWindow, CloseWindow, Restacked, Replaced, lists
  <2> QED
    BY <1>1, <2>1
<1>9. CASE UNCHANGED vars
  BY <1>1, <1>9 DEF vars, lists
<1> QED
  BY <1>2, <1>3, <1>4, <1>5, <1>6, <1>7, <1>8, <1>9
  DEF Next, AcceptSearch, LaunchApp

-----------------------------------------------------------------------------
(* The taskbar.                                                            *)

LEMMA CutIsInjective ==
  ASSUME NEW S, NEW s \in Seq(S), NEW limit \in Nat, IsInjective(s)
  PROVE  IsInjective(FirstOf(s, limit))
<1>1. /\ FirstOf(s, limit) \in Seq(S)
      /\ Len(FirstOf(s, limit)) <= Len(s)
      /\ \A k \in 1..Len(FirstOf(s, limit)) : FirstOf(s, limit)[k] = s[k]
  BY Cut
<1>2. \A k \in DOMAIN FirstOf(s, limit) :
         k \in DOMAIN s /\ FirstOf(s, limit)[k] = s[k]
  BY <1>1
<1> QED
  BY <1>2 DEF IsInjective

\* A list without duplicates of which some entries are picked.
LEMMA PickedIsInjective ==
  ASSUME NEW S, NEW s \in Seq(S), IsInjective(s), NEW I \in SUBSET DOMAIN s
  PROVE  /\ Picked(s, I) \in Seq(S) /\ IsInjective(Picked(s, I))
         /\ ToSet(Picked(s, I)) = {s[i] : i \in I}
<1>1. \A i, j \in DOMAIN s : s[i] = s[j] => i = j
  BY DEF IsInjective
<1>2. \A j, k \in DOMAIN Picked(s, I) :
         Picked(s, I)[j] = Picked(s, I)[k] => j = k
  BY <1>1, PickedDistinct
<1>3. Picked(s, I) \in Seq(S)
  BY PickedProperties
<1>4. {Picked(s, I)[k] : k \in DOMAIN Picked(s, I)} = {s[i] : i \in I}
  BY PickedRange
<1> QED
  BY <1>2, <1>3, <1>4 DEF IsInjective, ToSet

LEMMA KnownProperties ==
  ASSUME NEW apps, NEW ids \in Seq(App), IsInjective(ids)
  PROVE  /\ Known(apps, ids) \in Seq(App) /\ IsInjective(Known(apps, ids))
         /\ ToSet(Known(apps, ids)) \subseteq ToSet(ids)
<1> DEFINE I == {i \in DOMAIN ids : ids[i] \in apps}
<1>1. I \in SUBSET DOMAIN ids
  OBVIOUS
<1>2. {ids[i] : i \in I} \subseteq ToSet(ids)
  BY DEF ToSet
<1> HIDE DEF I
<1>3. /\ Picked(ids, I) \in Seq(App) /\ IsInjective(Picked(ids, I))
      /\ ToSet(Picked(ids, I)) \subseteq ToSet(ids)
  BY <1>1, <1>2, PickedIsInjective
<1> QED
  BY <1>3 DEF Known, I

\* The active apps, each once.
LEMMA ByCountProperties ==
  ASSUME NEW apps \in SUBSET App, NEW counts \in [App -> Nat]
  PROVE  /\ ByCount(apps, counts) \in Seq(Active(apps, counts))
         /\ IsInjective(ByCount(apps, counts))
<1> DEFINE active == Active(apps, counts)
           below == [a \in active |-> {b \in active : Busier(counts, b, a)}]
           n == Cardinality(active)
<1>1. active \in SUBSET (1..AppCount) /\ AppCount \in Nat
  BY AppsAssumption DEF Active, App
<1>2. IsFiniteSet(active)
  BY <1>1, InInterval
<1>3. \A a \in active : a \in Int /\ counts[a] \in Int
  BY DEF Active, App
<1>4. StrictlyOrders(below, active)
  <2> HIDE DEF active
  <2>1. below \in [active -> SUBSET active]
    OBVIOUS
  <2>2. \A x \in active : x \notin below[x]
    BY <1>3 DEF Busier
  <2>3. ASSUME NEW x \in active, NEW y \in active, x \in below[y],
               NEW z \in below[x]
        PROVE  z \in below[y]
    BY <1>3, <2>3 DEF Busier
  <2>4. \A x, y \in active : x = y \/ x \in below[y] \/ y \in below[x]
    BY <1>3 DEF Busier
  <2> HIDE DEF below
  <2> QED
    BY <2>1, <2>2, <2>3, <2>4 DEF StrictlyOrders
<1>5. ByCount(apps, counts) = Ordered(active, below)
  BY DEF ByCount
<1> HIDE DEF active, below
<1>6. /\ n \in Nat /\ Ordered(active, below) \in [1..n -> active]
      /\ \A i, j \in 1..n :
            i < j => Ordered(active, below)[i] \in below[Ordered(active, below)[j]]
  BY <1>2, <1>4, OrderedProperties
<1>7. ASSUME NEW i \in 1..n, NEW j \in 1..n, i < j
      PROVE  Ordered(active, below)[i] # Ordered(active, below)[j]
  BY <1>4, <1>6, <1>7 DEF StrictlyOrders
<1>8. ASSUME NEW i \in 1..n, NEW j \in 1..n,
             Ordered(active, below)[i] = Ordered(active, below)[j]
      PROVE  i = j
  <2>1. ~(i < j) /\ ~(j < i)
    BY <1>7, <1>8
  <2> QED
    BY <1>6, <2>1
<1>9. IsInjective(Ordered(active, below))
  BY <1>6, <1>8 DEF IsInjective
<1>10. Ordered(active, below) \in Seq(active)
  BY <1>6
<1> QED
  BY <1>5, <1>9, <1>10 DEF active

\* What taskbar_apps returns for a limit that is as large as another one.
LEMMA TaskbarProperties ==
  ASSUME NEW apps \in SUBSET App, NEW favs \in Seq(App), IsInjective(favs),
         NEW counts \in [App -> Nat],
         NEW limit \in Nat, NEW few \in Nat, few <= limit
  PROVE  LET bar    == Taskbar(apps, favs, counts, limit).apps
             pinned == FirstOf(Known(apps, favs), few)
         IN  /\ FirstOf(bar, Len(pinned)) = pinned
             /\ IsInjective(bar)
             /\ ToSet(bar) \subseteq ToSet(favs) \cup {a \in App : counts[a] > 0}
<1> DEFINE known == Known(apps, favs)
           front == FirstOf(known, limit)
           sorted == ByCount(apps, counts)
           I == {i \in DOMAIN sorted : ~Contains(front, sorted[i])}
           others == Picked(sorted, I)
           both == front \o others
           bar == IF Len(front) = limit THEN both ELSE FirstOf(both, limit)
           pinned == FirstOf(known, few)
<1>1. Taskbar(apps, favs, counts, limit).apps = bar
  BY DEF Taskbar
<1>2. known \in Seq(App) /\ IsInjective(known) /\ ToSet(known) \subseteq ToSet(favs)
  BY KnownProperties
<1>3. Active(apps, counts) \subseteq {a \in App : counts[a] > 0}
  BY DEF Active
<1>4. sorted \in Seq(Active(apps, counts)) /\ IsInjective(sorted)
  BY ByCountProperties
<1>5. I \in SUBSET DOMAIN sorted
  OBVIOUS
<1>6. /\ others \in Seq(Active(apps, counts)) /\ IsInjective(others)
      /\ ToSet(others) = {sorted[i] : i \in I}
  <2> HIDE DEF sorted, I
  <2> QED
    BY <1>4, <1>5, PickedIsInjective
<1> HIDE DEF known
<1>7. /\ front \in Seq(App) /\ IsInjective(front)
      /\ Len(front) = IF Len(known) <= limit THEN Len(known) ELSE limit
      /\ \A k \in 1..Len(front) : front[k] = known[k]
  BY <1>2, Cut, CutIsInjective
<1>8. /\ pinned \in Seq(App)
      /\ Len(pinned) = IF Len(known) <= few THEN Len(known) ELSE few
      /\ \A k \in 1..Len(pinned) : pinned[k] = known[k]
  BY <1>2, Cut
<1>9. Range(front) \cap Range(others) = {}
  <2>1. Range(others) = {sorted[i] : i \in I}
    BY <1>6 DEF Range, ToSet
  <2>2. \A i \in I : \A k \in DOMAIN front : front[k] # sorted[i]
    <3> HIDE DEF front, sorted
    <3> QED
      BY DEF Contains
  <2> HIDE DEF front, others, sorted, I
  <2> QED
    BY <2>1, <2>2 DEF Range
<1> HIDE DEF front, others, pinned, sorted, I
<1>10. others \in Seq(App)
  BY <1>3, <1>6
<1>11. both \in Seq(App) /\ IsInjective(both)
  BY <1>6, <1>7, <1>9, <1>10, ConcatenationIsInjective
<1>12. /\ Len(both) = Len(front) + Len(others)
       /\ \A k \in 1..Len(front) : both[k] = front[k]
       /\ \A k \in DOMAIN both :
             both[k] \in ToSet(front) \/ both[k] \in ToSet(others)
  <2>1. /\ Len(both) = Len(front) + Len(others)
        /\ DOMAIN both = 1..Len(front) + Len(others)
        /\ \A k \in 1..Len(front) : both[k] = front[k] /\ front[k] \in Range(front)
        /\ \A k \in 1..Len(front) + Len(others) : k \notin 1..Len(front) =>
              both[k] = others[k - Len(front)]
              /\ others[k - Len(front)] \in Range(others)
    <3>1. front \in Seq(App) /\ others \in Seq(App)
      BY <1>7, <1>10
    <3>2. /\ Len(front \o others) = Len(front) + Len(others)
          /\ DOMAIN (front \o others) = 1..Len(front) + Len(others)
          /\ \A k \in 1..Len(front) :
                (front \o others)[k] = front[k] /\ front[k] \in Range(front)
          /\ \A k \in 1..Len(front) + Len(others) : k \notin 1..Len(front) =>
                /\ k - Len(front) \in DOMAIN others
                /\ (front \o others)[k] = others[k - Len(front)]
                /\ others[k - Len(front)] \in Range(others)
      BY <3>1, ConcatenationProperties, Zenon
    <3>3. both = front \o others
      OBVIOUS
    <3> HIDE DEF both
    <3> QED
      BY <3>2, <3>3, Zenon
  <2> HIDE DEF both
  <2>2. Range(front) = ToSet(front) /\ Range(others) = ToSet(others)
    BY DEF ToSet, Range
  <2>3. ASSUME NEW k \in DOMAIN both
        PROVE  both[k] \in ToSet(front) \/ both[k] \in ToSet(others)
    <3>1. CASE k \in 1..Len(front)
      BY <2>1, <2>2, <3>1
    <3>2. CASE k \notin 1..Len(front)
      BY <2>1, <2>2, <2>3, <3>2
    <3> QED
      BY <3>1, <3>2
  <2> QED
    BY <2>1, <2>3
<1>13. ToSet(front) \subseteq ToSet(favs)
  <2>1. DOMAIN front = 1..Len(front) /\ DOMAIN known = 1..Len(known)
        /\ Len(known) \in Nat
    BY <1>2, <1>7
  <2>2. \A k \in DOMAIN front : k \in DOMAIN known /\ front[k] = known[k]
    BY <1>7, <2>1
  <2>3. \A k \in DOMAIN known : known[k] \in ToSet(favs)
    BY <1>2 DEF ToSet
  <2> QED
    BY <2>2, <2>3 DEF ToSet
<1>14. ToSet(others) \subseteq {a \in App : counts[a] > 0}
  BY <1>3, <1>6 DEF ToSet
<1>15. /\ Len(front) \in Nat /\ Len(others) \in Nat /\ Len(pinned) \in Nat
       /\ Len(pinned) <= Len(front) /\ Len(front) <= limit
  BY <1>2, <1>7, <1>8, <1>10
<1> HIDE DEF both
<1>16. /\ bar \in Seq(App) /\ IsInjective(bar)
       /\ Len(front) <= Len(bar)
       /\ \A k \in DOMAIN bar : k \in DOMAIN both /\ bar[k] = both[k]
  <2>1. CASE Len(front) = limit
    BY <1>11, <1>12, <1>15, <2>1
  <2>2. CASE Len(front) # limit
    <3>1. /\ FirstOf(both, limit) \in Seq(App)
          /\ Len(FirstOf(both, limit))
               = IF Len(both) <= limit THEN Len(both) ELSE limit
          /\ \A k \in 1..Len(FirstOf(both, limit)) :
                FirstOf(both, limit)[k] = both[k]
          /\ IsInjective(FirstOf(both, limit))
      BY <1>11, Cut, CutIsInjective
    <3>2. bar = FirstOf(both, limit)
      BY <2>2
    <3> HIDE DEF bar
    <3>3. Len(both) \in Nat /\ DOMAIN both = 1..Len(both)
          /\ DOMAIN bar = 1..Len(bar) /\ Len(bar) \in Nat
      BY <1>11, <3>1, <3>2
    <3>4. Len(front) <= Len(bar) /\ Len(bar) <= Len(both)
      <4>1. Len(both) >= Len(front)
        BY <1>12, <1>15
      <4>2. Len(bar) = IF Len(both) <= limit THEN Len(both) ELSE limit
        BY <3>1, <3>2
      <4> QED
        BY <1>15, <3>3, <4>1, <4>2
    <3>5. \A k \in DOMAIN bar : k \in DOMAIN both /\ bar[k] = both[k]
      <4>1. \A k \in 1..Len(bar) : bar[k] = both[k]
        BY <3>1, <3>2
      <4>2. Len(bar) \in Nat /\ 1..Len(bar) \subseteq 1..Len(both)
        BY <3>3, <3>4
      <4> QED
        BY <3>3, <4>1, <4>2
    <3>6. bar \in Seq(App) /\ IsInjective(bar)
      BY <3>1, <3>2
    <3> QED
      BY <3>4, <3>5, <3>6
  <2> QED
    BY <2>1, <2>2
<1> HIDE DEF bar
<1>17. ToSet(bar) \subseteq ToSet(favs) \cup {a \in App : counts[a] > 0}
  BY <1>12, <1>13, <1>14, <1>16 DEF ToSet
<1>18. FirstOf(bar, Len(pinned)) = pinned
  <2> DEFINE m == Len(pinned)
  <2>1. m \in Nat /\ m <= Len(front) /\ m <= Len(bar) /\ Len(bar) \in Nat
    BY <1>15, <1>16
  <2> HIDE DEF m
  <2>2. /\ FirstOf(bar, m) \in Seq(App) /\ Len(FirstOf(bar, m)) = m
        /\ \A k \in 1..m : FirstOf(bar, m)[k] = bar[k]
    <3>1. /\ FirstOf(bar, m) \in Seq(App)
          /\ Len(FirstOf(bar, m)) = IF Len(bar) <= m THEN Len(bar) ELSE m
          /\ \A k \in 1..Len(FirstOf(bar, m)) : FirstOf(bar, m)[k] = bar[k]
      <4>1. bar \in Seq(App) /\ m \in Nat
        BY <1>16, <2>1
      <4> QED
        BY <4>1, Cut
    <3>2. Len(FirstOf(bar, m)) = m
      BY <2>1, <3>1
    <3> QED
      BY <3>1, <3>2
  <2>3. \A k \in 1..m : k \in 1..Len(front) /\ k \in DOMAIN bar
    BY <1>15, <1>16, <2>1
  <2>4. \A k \in 1..m : bar[k] = pinned[k]
    BY <1>7, <1>8, <1>12, <1>16, <2>3 DEF m
  <2>5. FirstOf(bar, m) = pinned
    <3>1. /\ pinned \in Seq(App) /\ FirstOf(bar, m) \in Seq(App)
          /\ Len(pinned) = m /\ Len(FirstOf(bar, m)) = m
          /\ \A k \in 1..m : FirstOf(bar, m)[k] = pinned[k]
      BY <1>8, <2>2, <2>4 DEF m
    <3> HIDE DEF m
    <3> DEFINE cut == FirstOf(bar, m)
    <3>2. cut \in Seq(App) /\ Len(cut) = m /\ \A k \in 1..m : cut[k] = pinned[k]
      BY <3>1
    <3> HIDE DEF cut
    <3>3. cut = pinned
      BY <3>1, <3>2
    <3> QED
      BY <3>3 DEF cut
  <2> QED
    BY <2>5 DEF m
<1> QED
  BY <1>1, <1>16, <1>17, <1>18 DEF known, pinned

\* No app is pinned twice, and what the taskbar shows was computed from what
\* is pinned now and from counts of apps that have a window or a process.
PanelInv ==
    /\ IsInjective(favorites)
    /\ \E counts \in [App -> Nat], limit \in {PanelLimit, WideLimit} :
          /\ screen.panel = Taskbar(catalog, favorites, counts, limit)
          /\ \A a \in App : counts[a] > 0 =>
                a \in AppsOf(windows) \/ (a \in Tracked /\ running[a] > 0)

LEMMA CountsProperties ==
  ASSUME NEW ps \in [Tracked -> 0..MaxProcs], NEW stack
  PROVE  /\ Counts(ps) \in [App -> Nat]
         /\ \A a \in App : Counts(ps)[a] > 0 => a \in Tracked /\ ps[a] > 0
         /\ Visual(ps, stack) \in [App -> Nat]
         /\ \A a \in App : Visual(ps, stack)[a] > 0 =>
               a \in AppsOf(stack) \/ (a \in Tracked /\ ps[a] > 0)
<1>1. MaxProcs \in Nat
  BY AppsAssumption
<1>2. /\ Counts(ps) \in [App -> Nat]
      /\ \A a \in App : Counts(ps)[a] = IF a \in Tracked THEN ps[a] ELSE 0
  BY <1>1 DEF Counts
<1>3. /\ Visual(ps, stack) \in [App -> Nat]
      /\ \A a \in App : Visual(ps, stack)[a] =
            IF a \in AppsOf(stack) /\ Counts(ps)[a] = 0 THEN 1 ELSE Counts(ps)[a]
  BY <1>2 DEF Visual
<1> QED
  BY <1>2, <1>3

\* A window that is raised is still there, and so are the others.
LEMMA RaisedKeepsApps ==
  ASSUME windows \in Seq(Window), NEW a, IsOpen(a), NEW flags
  PROVE  AppsOf(windows) \subseteq AppsOf(Raised(a, flags))
<1> DEFINE w    == [app |-> a, flags |-> flags]
           i    == At(a)
           rest == RemoveAt(windows, i)
<1>1. i \in 1..Len(windows) /\ windows[i].app = a
  BY TheWindow
<1> HIDE DEF i
<1>2. /\ rest \in Seq(Window) /\ Len(rest) = Len(windows) - 1
      /\ \A k \in 1..Len(windows) - 1 :
            rest[k] = IF k < i THEN windows[k] ELSE windows[k + 1]
  BY <1>1, Removal
<1> HIDE DEF rest
<1>3. /\ \A k \in 1..Len(rest) : Append(rest, w)[k] = rest[k]
      /\ Append(rest, w)[Len(rest) + 1] = w
      /\ DOMAIN Append(rest, w) = 1..Len(rest) + 1
      /\ Len(rest) \in Nat
  BY <1>2
<1>4. ASSUME NEW j \in 1..Len(windows)
      PROVE  \E k \in DOMAIN Append(rest, w) : Append(rest, w)[k].app = windows[j].app
  <2>1. CASE j < i
    <3>1. j \in 1..Len(windows) - 1 /\ j \in 1..Len(rest)
      BY <1>1, <1>2, <2>1
    <3> QED
      BY <1>2, <1>3, <2>1, <3>1
  <2>2. CASE j = i
    BY <1>1, <1>3, <2>2
  <2>3. CASE j > i
    <3>1. j - 1 \in 1..Len(windows) - 1 /\ ~(j - 1 < i) /\ (j - 1) + 1 = j
      BY <1>1, <2>3
    <3>2. j - 1 \in 1..Len(rest) /\ rest[j - 1] = windows[j]
      BY <1>2, <3>1
    <3> QED
      BY <1>3, <3>2
  <2> QED
    BY <1>1, <2>1, <2>2, <2>3
<1>5. Raised(a, flags) = Append(rest, w)
  BY DEF Raised, rest, i
<1> HIDE DEF w
<1> QED
  BY <1>4, <1>5 DEF AppsOf

LEMMA ToggledIsInjective ==
  ASSUME NEW ids \in Seq(App), IsInjective(ids), NEW a \in App
  PROVE  IsInjective(Toggled(ids, a))
<1>1. Kept \in Nat
  BY AppsAssumption
<1>2. CASE Contains(ids, a)
  <2> DEFINE t == Without(ids, a)
  <2>1. \A i, j \in 1..Len(ids) : ids[i] = ids[j] => i = j
    BY DEF IsInjective
  <2>2. t \in Seq(App) /\ Len(t) = Len(ids) - 1
    BY <1>2, <2>1, WithoutOne
  <2>3. PICK p \in 1..Len(ids) + 1 :
           \A k \in 1..Len(t) : t[k] = IF k < p THEN ids[k] ELSE ids[k + 1]
    BY <2>1, WithoutOne
  <2> HIDE DEF t
  <2>4. ASSUME NEW i \in 1..Len(t), NEW j \in 1..Len(t), t[i] = t[j]
        PROVE  i = j
    BY <2>1, <2>2, <2>3, <2>4
  <2>5. IsInjective(t)
    BY <2>2, <2>4 DEF IsInjective
  <2>6. Toggled(ids, a) = FirstOf(t, Kept)
    BY <1>2 DEF Toggled, t
  <2> QED
    BY <1>1, <2>2, <2>5, <2>6, CutIsInjective
<1>3. CASE ~Contains(ids, a)
  <2> DEFINE one == <<a>>
  <2>1. one \in Seq(App) /\ IsInjective(one) /\ Range(one) = {a}
    BY DEF IsInjective, Range
  <2> HIDE DEF one
  <2>2. Range(one) \cap Range(ids) = {}
    BY <1>3, <2>1 DEF Contains, Range
  <2>3. one \o ids \in Seq(App) /\ IsInjective(one \o ids)
    BY <2>1, <2>2, ConcatenationIsInjective
  <2>4. Toggled(ids, a) = FirstOf(one \o ids, Kept)
    BY <1>3 DEF Toggled, one
  <2> QED
    BY <1>1, <2>3, <2>4, CutIsInjective
<1> QED
  BY <1>2, <1>3

LEMMA PanelInit == Init => PanelInv
<1> SUFFICES ASSUME Init PROVE PanelInv
  OBVIOUS
<1>1. running \in [Tracked -> 0..MaxProcs] /\ favorites = <<>>
  BY NoProcsIsTyped DEF Init
<1>2. screen.panel = Taskbar(catalog, favorites, Counts(running), PanelLimit)
  BY DEF Init, FirstScreen
<1>3. IsInjective(favorites)
  BY <1>1 DEF IsInjective
<1> QED
  BY <1>1, <1>2, <1>3, CountsProperties DEF PanelInv

LEMMA PanelStep ==
  SearchInv /\ StackInv /\ FileInv /\ TypeInv /\ PanelInv /\ [Next]_vars
     => PanelInv'
<1> SUFFICES ASSUME SearchInv, StackInv, FileInv, TypeInv, PanelInv, [Next]_vars
             PROVE  PanelInv'
  OBVIOUS
<1>1. running' \in [Tracked -> 0..MaxProcs]
  BY TypeStep DEF TypeInv
<1>2. /\ IsInjective(favorites) /\ favorites \in Seq(App)
      /\ windows \in Seq(Window) /\ IsScreen(screen)
  BY DEF PanelInv, TypeInv, StackInv
\* The taskbar stays, is computed from the counts, or from the windows too.
<1>3. ASSUME UNCHANGED <<catalog, favorites, running>>,
             screen'.panel = screen.panel,
             AppsOf(windows) \subseteq AppsOf(windows')
      PROVE  PanelInv'
  <2>1. PICK counts \in [App -> Nat], limit \in {PanelLimit, WideLimit} :
           /\ screen.panel = Taskbar(catalog, favorites, counts, limit)
           /\ \A a \in App : counts[a] > 0 =>
                 a \in AppsOf(windows) \/ (a \in Tracked /\ running[a] > 0)
    BY DEF PanelInv
  <2>2. screen'.panel = Taskbar(catalog', favorites', counts, limit)
    BY <1>3, <2>1
  <2>3. \A a \in App : counts[a] > 0 =>
           a \in AppsOf(windows') \/ (a \in Tracked /\ running'[a] > 0)
    BY <1>3, <2>1
  <2>4. IsInjective(favorites')
    BY <1>2, <1>3
  <2> QED
    BY <2>2, <2>3, <2>4 DEF PanelInv
<1>4. ASSUME IsInjective(favorites'), NEW limit \in {PanelLimit, WideLimit},
             screen'.panel
               = Taskbar(catalog', favorites', Counts(running'), limit)
      PROVE  PanelInv'
  BY <1>1, <1>4, CountsProperties DEF PanelInv
<1>5. ASSUME UNCHANGED favorites,
             screen'.panel = Taskbar(catalog', favorites',
                                     Visual(running', windows'), PanelLimit)
      PROVE  PanelInv'
  <2>1. IsInjective(favorites')
    BY <1>2, <1>5
  <2> QED
    BY <1>1, <1>5, <2>1, CountsProperties DEF PanelInv
\* One step per handler.
<1>6. ASSUME NEW query \in Queries, Search(query) PROVE PanelInv'
  BY <1>2, <1>3, <1>6 DEF Search, lists, IsScreen
<1>7. ASSUME NEW step \in Step, MoveSelection(step) PROVE PanelInv'
  <2>1. UNCHANGED <<catalog, running, favorites>>
    BY <1>7 DEF MoveSelection, lists
  <2>2. screen'.panel = Taskbar(catalog, favorites, Counts(running), WideLimit)
    BY <1>2, <1>7 DEF MoveSelection, Refreshed, IsScreen
  <2> QED
    BY <1>2, <1>4, <2>1, <2>2
<1>8. ASSUME NEW a \in App, ToggleFavorite(a) PROVE PanelInv'
  <2>1. UNCHANGED <<catalog, running>> /\ favorites' = Toggled(favorites, a)
    BY <1>8 DEF ToggleFavorite
  <2>2. screen'.panel = Taskbar(catalog, favorites', Counts(running), WideLimit)
    BY <1>2, <1>8 DEF ToggleFavorite, Refreshed, IsScreen
  <2>3. IsInjective(favorites')
    BY <1>2, <2>1, ToggledIsInjective
  <2> QED
    BY <1>4, <2>1, <2>2, <2>3
<1>9. ASSUME NEW a, Launch(a) PROVE PanelInv'
  BY <1>2, <1>5, <1>9 DEF Launch, IsScreen
<1>10. ASSUME NEW a, NEW flags, IsOpen(a), windows' = Raised(a, flags), Restacked
       PROVE  PanelInv'
  <2>1. AppsOf(windows) \subseteq AppsOf(windows')
    BY <1>2, <1>10, RaisedKeepsApps
  <2> QED
    BY <1>2, <1>3, <1>10, <2>1 DEF Restacked, lists, IsScreen
<1>11. ASSUME NEW a, \/ FocusWindow(a) \/ MaximizeWindow(a)
                     \/ MoveWindow(a) \/ ResizeWindow(a)
       PROVE  PanelInv'
  <2>1. IsOpen(a) /\ Restacked /\ \E flags : windows' = Raised(a, flags)
    BY <1>11 DEF FocusWindow, MaximizeWindow, MoveWindow, ResizeWindow, Clickable
  <2> QED
    BY <1>10, <2>1
<1>12. ASSUME NEW stack, Replaced(stack) PROVE PanelInv'
  BY <1>2, <1>5, <1>12 DEF Replaced, lists, IsScreen
<1>13. ASSUME NEW a, MinimizeWindow(a) \/ CloseWindow(a) PROVE PanelInv'
  BY <1>12, <1>13 DEF MinimizeWindow, CloseWindow
<1>14. ASSUME NEW a \in Tracked, AppStarts(a) \/ AppExits(a) PROVE PanelInv'
  BY <1>3, <1>14 DEF AppStarts, AppExits, lists
<1>15. CASE Restart
  <2>1. favorites' = favorites
    BY <1>15 DEF Restart, FileInv
  <2>2. screen'.panel
          = Taskbar(catalog', favorites', Counts(running'), PanelLimit)
    BY <1>15 DEF Restart, FirstScreen
  <2> QED
    BY <1>2, <1>4, <2>1, <2>2
<1>16. CASE UNCHANGED vars
  BY <1>3, <1>16 DEF vars, lists
<1> QED
  BY <1>6, <1>7, <1>8, <1>9, <1>11, <1>13, <1>14, <1>15, <1>16
  DEF Next, AcceptSearch, LaunchApp

-----------------------------------------------------------------------------
(* Theorems.                                                               *)

Inv ==
    SearchInv /\ StackInv /\ FileInv /\ RecentInv /\ TypeInv /\ PanelInv

LEMMA Inductive == Spec => []Inv
<1>1. Init => Inv
  BY SearchInit, StackInit, FileInit, RecentInit, TypeInit, PanelInit DEF Inv
<1>2. Inv /\ [Next]_vars => Inv'
  BY SearchStep, StackStep, FileStep, RecentStep, TypeStep, PanelStep DEF Inv
<1> QED
  BY <1>1, <1>2, PTL DEF Spec

(* Every variable has its type: pinned and recent apps are apps, and no     *)
(* more of them are kept than the files may hold.                           *)
THEOREM TypeCorrect == Spec => []TypeOK
<1>1. Inv => TypeOK
  <2> SUFFICES ASSUME Inv PROVE TypeOK
    OBVIOUS
  <2>1. selected \in App \cup {None}
    <3>1. CASE matches = <<>>
      BY <3>1 DEF Inv, SearchInv, IsSelection
    <3>2. CASE matches # <<>>
      BY <3>2 DEF Inv, SearchInv, IsSelection, Contains
    <3> QED
      BY <3>1, <3>2
  <2>2. catalog \in (SUBSET App) \ {{}} /\ matches \in Seq(App)
    BY DEF Inv, SearchInv, TypeInv
  <2>3. windows \in Seq(Window)
    BY DEF Inv, StackInv
  <2>4. /\ recents \in Seq(App) /\ Len(recents) <= Kept
        /\ launched \subseteq App /\ since \in [App -> SUBSET App]
    BY DEF Inv, RecentInv
  <2>5. /\ procs \in [Tracked -> 0..MaxProcs]
        /\ running \in [Tracked -> 0..MaxProcs]
        /\ favorites \in Seq(App) /\ Len(favorites) <= Kept
    BY DEF Inv, TypeInv
  <2> QED
    BY <2>1, <2>2, <2>3, <2>4, <2>5 DEF TypeOK
<1> QED
  BY <1>1, Inductive, PTL

(* No app ever has two windows, the screen shows the stack as it is, and    *)
(* the focus is on the topmost window that is not minimized.                *)
THEOREM StackIsShown == Spec => []ScreenShowsStack
<1>1. Inv => ScreenShowsStack
  <2> SUFFICES ASSUME Inv PROVE ScreenShowsStack
    OBVIOUS
  <2>1. /\ windows \in Seq(Window) /\ DOMAIN windows = 1..Len(windows)
        /\ Len(windows) \in Nat
        /\ \A i, j \in DOMAIN windows : windows[i].app = windows[j].app => i = j
        /\ screen.desk = Desk(windows)
    BY DEF Inv, StackInv, OneEach
  <2>2. /\ screen.desk.stack = windows
        /\ screen.desk.focus =
             {windows[i].app : i \in {j \in DOMAIN windows :
                /\ IsShown(windows[j])
                /\ \A k \in DOMAIN windows : k > j => ~IsShown(windows[k])}}
    BY <2>1 DEF Desk
  <2>3. ASSUME NEW i \in DOMAIN windows
        PROVE  windows[i].app \in screen.desk.focus
                 <=> /\ IsShown(windows[i])
                     /\ \A j \in i + 1..Len(windows) : ~IsShown(windows[j])
    <3>1. windows[i].app \in screen.desk.focus
            <=> /\ IsShown(windows[i])
                /\ \A k \in DOMAIN windows : k > i => ~IsShown(windows[k])
      BY <2>1, <2>2
    <3>2. \A k : k \in i + 1..Len(windows) <=> k \in DOMAIN windows /\ k > i
      BY <2>1
    <3> QED
      BY <3>1, <3>2
  <2> QED
    BY <2>1, <2>2, <2>3 DEF ScreenShowsStack
<1> QED
  BY <1>1, Inductive, PTL

(* Enter launches what the launcher highlights, or the first where it       *)
(* highlights nothing, and the stars are those of the pinned apps.          *)
THEOREM EnterIsHonest == Spec => []EnterLaunchesHighlighted
<1>1. Inv => EnterLaunchesHighlighted
  <2> SUFFICES ASSUME Inv PROVE EnterLaunchesHighlighted
    OBVIOUS
  <2>1. /\ screen.launcher.apps = matches
        /\ screen.launcher.stars = ToSet(matches) \cap ToSet(favorites)
        /\ screen.launcher.selected \in {selected, None}
    BY DEF Inv, SearchInv, Launcher
  <2>2. CASE screen.launcher.selected = None
    <3>1. selected = HeadOf(matches)
      BY <2>2 DEF Inv, SearchInv
    <3>2. Chosen = HeadOf(matches)
      BY <3>1 DEF Chosen
    <3> QED
      BY <2>1, <2>2, <3>2 DEF EnterLaunchesHighlighted
  <2>3. CASE screen.launcher.selected # None
    <3>1. Contains(matches, selected)
      BY <2>1, <2>3 DEF Inv, SearchInv, IsSelection
    <3> QED
      BY <2>1, <2>3, <3>1 DEF EnterLaunchesHighlighted, Chosen
  <2> QED
    BY <2>2, <2>3
<1> QED
  BY <1>1, Inductive, PTL

(* The recent apps are those launched last, in that order, each once, over  *)
(* any number of launches, pins and restarts.                               *)
THEOREM RecentsAreLatest == Spec => []RecentsAreTheLatest
<1>1. Inv => RecentsAreTheLatest
  <2> SUFFICES ASSUME RecentInv PROVE RecentsAreTheLatest
    BY DEF Inv
  <2>1. DOMAIN recents = 1..Len(recents)
    BY DEF RecentInv
  <2> QED
    BY <2>1 DEF RecentInv, RecentsAreTheLatest, ToSet
<1> QED
  BY <1>1, Inductive, PTL

(* The taskbar begins with the pinned apps that are installed, holds no app *)
(* twice, and what else it holds has a window or had a process when the     *)
(* shell was started: for every limit of one handler that is at least that  *)
(* of the others, every catalog and every count.                            *)
THEOREM TaskbarIsHonest == Spec => []TaskbarIsPinnedThenRunning
<1>1. Inv => TaskbarIsPinnedThenRunning
  <2> SUFFICES ASSUME Inv PROVE TaskbarIsPinnedThenRunning
    OBVIOUS
  <2>1. /\ catalog \in SUBSET App /\ favorites \in Seq(App)
        /\ IsInjective(favorites)
    BY DEF Inv, SearchInv, TypeInv, PanelInv
  <2>2. PICK counts \in [App -> Nat], limit \in {PanelLimit, WideLimit} :
           /\ screen.panel = Taskbar(catalog, favorites, counts, limit)
           /\ \A a \in App : counts[a] > 0 =>
                 a \in AppsOf(windows) \/ (a \in Tracked /\ running[a] > 0)
    BY DEF Inv, PanelInv
  <2>3. PanelLimit \in Nat /\ limit \in Nat /\ PanelLimit <= limit
    BY AppsAssumption
  <2> DEFINE bar == screen.panel.apps
             pinned == FirstOf(Known(catalog, favorites), PanelLimit)
  <2>4. /\ FirstOf(bar, Len(pinned)) = pinned
        /\ IsInjective(bar)
        /\ ToSet(bar) \subseteq ToSet(favorites) \cup {a \in App : counts[a] > 0}
    <3>1. bar = Taskbar(catalog, favorites, counts, limit).apps
      BY <2>2
    <3> HIDE DEF bar
    <3> QED
      BY ONLY <2>1, <2>3, <3>1, counts \in [App -> Nat], TaskbarProperties
      DEF pinned
  <2> HIDE DEF bar, pinned
  <2>5. \A i, j \in DOMAIN bar : bar[i] = bar[j] => i = j
    BY <2>4 DEF IsInjective
  <2>6. ToSet(bar) \subseteq ToSet(favorites) \cup AppsOf(windows)
                               \cup {a \in Tracked : running[a] > 0}
    BY <2>2, <2>4
  <2> QED
    BY <2>4, <2>5, <2>6 DEF TaskbarIsPinnedThenRunning, bar, pinned
<1> QED
  BY <1>1, Inductive, PTL

(* A shell that is started again has the pinned and the recent apps its     *)
(* predecessor had.                                                         *)
THEOREM ListsAreKept == Spec => ListsSurvive
<1>1. Inv /\ [Next]_vars
        => [Restart => favorites' = favorites /\ recents' = recents]_vars
  BY DEF Inv, FileInv, Restart
<1> QED
  BY <1>1, Inductive, PTL DEF Spec, ListsSurvive
=============================================================================
