-------------------------- MODULE DesktopShortcuts --------------------------
(***************************************************************************)
(* The shortcuts on the desktop of seatshell-shell: where they are put,    *)
(* which of them are selected, and how the user moves them.  All callbacks *)
(* run on the UI thread, one after the other; what makes them interesting  *)
(* is that three things may disagree: the positions the user asked for     *)
(* (stored), those computed from them for some size of the lane (shown),   *)
(* and the size the lane has now.                                          *)
(***************************************************************************)
EXTENDS Lists, Functions

CONSTANTS
    Featured,       \* featured_apps: the apps in the order of their score
    Limit,          \* how many shortcuts are displayed
    FavoritesKept,  \* how many favorites are kept
    Favorable,      \* bound: the apps the user marks as favorites
    OriginX, OriginY, StepX, StepY, Width, Height,
    FallbackX, FallbackY,
    Lanes,          \* sizes of the lane: <<max_x, max_y>>
    StartLane,      \* the size it has before the window is shown
    SavedPoints     \* bound: the positions an earlier session may have saved

ASSUME DesktopAssumption ==
    /\ Featured \in Seq(Range(Featured)) /\ IsInjective(Featured)
    /\ Limit \in Nat \ {0} /\ FavoritesKept \in Nat \ {0}
    /\ Favorable \subseteq Range(Featured)
    /\ {OriginX, OriginY} \subseteq Nat /\ {StepX, StepY} \subseteq Nat \ {0}
    /\ {Width, Height} \subseteq Nat /\ {FallbackX, FallbackY} \subseteq Nat
    /\ Lanes \subseteq Nat \X Nat /\ StartLane \in Nat \X Nat
    /\ SavedPoints \subseteq Int \X Int

App == Range(Featured)
Nobody == "nobody"
Arrow == {<<-1, 0>>, <<1, 0>>, <<0, -1>>, <<0, 1>>}

VARIABLES
    favorites,  \* favorite_app_ids
    stored,     \* desktop_shortcut_positions
    disk,       \* desktop-shortcuts.toml
    selected,   \* selected_desktop_shortcut_ids
    focus,      \* focused_desktop_shortcut_id, the one that Enter launches
    lane,       \* the size the lane has now
    shown,      \* the positions in the model the window was last given
    laidOutFor  \* history variable: the size they were computed for

vars == <<favorites, stored, disk, selected, focus, lane, shown, laidOutFor>>

-----------------------------------------------------------------------------
(* The grid.                                                               *)

Smallest(S) == CHOOSE m \in S : \A n \in S : m <= n
Lesser(m, n) == IF m < n THEN m ELSE n
Gap(m, n) == IF m < n THEN n - m ELSE m - n
Distance(p, q) == Gap(p[1], q[1]) + Gap(p[2], q[2])

\* The last column and the last row touch the edge, off the grid if need be.
AxisValue(origin, step, max, k) ==
    IF max < origin THEN 0 ELSE Lesser(origin + k * step, max)
AxisLength(origin, step, max) ==
    IF max < origin THEN 1 ELSE (max - origin + step - 1) \div step + 1
AxisValues(origin, step, max) ==
    LET last == AxisLength(origin, step, max) - 1
    IN  {AxisValue(origin, step, max, k) : k \in 0..last}

Columns(max) == AxisLength(OriginX, StepX, max[1])
Slots(max) ==
    AxisValues(OriginX, StepX, max[1]) \X AxisValues(OriginY, StepY, max[2])

\* grid_slots lists the rows from the top, each from the left.
Before(s, t) == s[2] < t[2] \/ (s[2] = t[2] /\ s[1] < t[1])
Slot(n, max) ==
    << AxisValue(OriginX, StepX, max[1], (n - 1) % Columns(max)),
       AxisValue(OriginY, StepY, max[2], (n - 1) \div Columns(max)) >>

DefaultPosition(n, max) ==
    IF n <= Cardinality(Slots(max)) THEN Slot(n, max) ELSE <<OriginX, OriginY>>

Nearest(v, values) ==
    Smallest({c \in values : \A d \in values : Gap(c, v) <= Gap(d, v)})

Snap(p, max) == << Nearest(p[1], AxisValues(OriginX, StepX, max[1])),
                   Nearest(p[2], AxisValues(OriginY, StepY, max[2])) >>

\* The slots that are not taken, and of these the one nearest to p; of
\* several as near, the first from the top left.
Free(taken, max) == Slots(max) \ taken
Precedes(s, t, cell) ==
    \/ Distance(s, cell) < Distance(t, cell)
    \/ Distance(s, cell) = Distance(t, cell) /\ Before(s, t)
NearestOf(free, p, max) ==
    LET cell == Snap(p, max)
    IN  CHOOSE s \in free : \A t \in free \ {s} : Precedes(s, t, cell)

\* Mutated form of Settle: the taken slots are not looked at.
SettleAnyway(p, taken, max) == Snap(p, max)
\* Mutated form: without a slot, a shortcut stays where it was saved.
SettleUnsnapped(p, taken, max) ==
    LET free == Free(taken, max)
    IN  IF free = {} THEN p ELSE NearestOf(free, p, max)
Settle(p, taken, max) ==
    LET free == Free(taken, max)
    IN  IF free = {} THEN Snap(p, max) ELSE NearestOf(free, p, max)

Index(ids, a) == CHOOSE n \in DOMAIN ids : ids[n] = a

\* Where the n-th shortcut should be.
Desired(ids, wanted, max, n) ==
    IF ids[n] \in DOMAIN wanted THEN wanted[ids[n]] ELSE DefaultPosition(n, max)

\* effective_desktop_shortcut_positions: one shortcut after the other gets
\* the slot nearest to where it should be.
Layout(ids, wanted, max) ==
    LET cells[n \in 0..Len(ids)] ==
            IF n = 0 THEN <<>>
            ELSE LET earlier == cells[n - 1]
                     p == Desired(ids, wanted, max, n)
                 IN  Append(earlier, Settle(p, Range(earlier), max))
        all == cells[Len(ids)]
    IN  [a \in Range(ids) |-> all[Index(ids, a)]]

-----------------------------------------------------------------------------
(* What is displayed.                                                      *)

UpTo(n, s) == SubSeq(s, 1, Lesser(n, Len(s)))

\* featured_or_favorite_apps
Displayed(favs) ==
    LET featured == UpTo(Limit, Featured)
        isNew == {i \in DOMAIN featured : featured[i] \notin Range(favs)}
    IN  UpTo(Limit, favs \o Picked(featured, isNew))

Ids == Displayed(favorites)

\* desktop_shortcut_bounds_for_ui: a size of 0 is taken for an unknown one.
Bounds(max) == << IF max[1] = 0 THEN FallbackX ELSE max[1],
                  IF max[2] = 0 THEN FallbackY ELSE max[2] >>

\* The last thing a callback does: the window is given a new model.
Refresh ==
    /\ shown' = Layout(Displayed(favorites'), stored', Bounds(lane'))
    /\ laidOutFor' = lane'

TypeOK ==
    /\ favorites \in Seq(Favorable) /\ Len(favorites) <= FavoritesKept
    /\ DOMAIN stored \subseteq App /\ Range(stored) \subseteq Int \X Int
    /\ DOMAIN disk \subseteq App /\ Range(disk) \subseteq Int \X Int
    /\ selected \subseteq App /\ focus \in App \cup {Nobody}
    /\ lane \in Lanes /\ laidOutFor \in Lanes \cup {StartLane}
    /\ DOMAIN shown = Range(Ids)
    /\ Range(shown) \subseteq Slots(Bounds(laidOutFor))

\* main computes the first model for the default size of the window; the
\* configured panel, the requested size and full screen come after it.
Init ==
    /\ favorites = <<>>
    /\ \E known \in SUBSET App : disk \in [known -> SavedPoints]
    /\ stored = disk /\ selected = {} /\ focus = Nobody
    /\ lane \in Lanes /\ laidOutFor = StartLane
    /\ shown = Layout(Ids, stored, Bounds(StartLane))

-----------------------------------------------------------------------------
(* The callbacks.  Each ends with Refresh.                                 *)

Persist == disk' = stored'
KeepPositions == UNCHANGED <<stored, disk>>
KeepSelection == UNCHANGED <<selected, focus>>

ChooseOnly(a) == selected' = {a} /\ focus' = a

\* The first of the displayed shortcuts that is in S.
FirstOf(S) ==
    LET ids == Ids
        hits == {n \in DOMAIN ids : ids[n] \in S}
    IN  IF hits = {} THEN Nobody ELSE ids[Smallest(hits)]

Select(a) ==
    /\ ChooseOnly(a)
    /\ KeepPositions /\ UNCHANGED <<favorites, lane>> /\ Refresh

\* Mutated form of the next definition: the focus stays where it is.
ClearKeepingFocus ==
    /\ selected' = {} /\ UNCHANGED focus
    /\ KeepPositions /\ UNCHANGED <<favorites, lane>> /\ Refresh
ClearSelection ==
    /\ selected' = {} /\ focus' = Nobody
    /\ KeepPositions /\ UNCHANGED <<favorites, lane>> /\ Refresh

SelectAll ==
    /\ selected' = Range(Ids) /\ focus' = FirstOf(Range(Ids))
    /\ KeepPositions /\ UNCHANGED <<favorites, lane>> /\ Refresh

\* The shortcuts that a rectangle with corners p and q touches.
Touched(p, q) ==
    LET at == Layout(Ids, stored, lane)
    IN  {a \in DOMAIN at :
            /\ at[a][1] < q[1] /\ at[a][1] + Width > p[1]
            /\ at[a][2] < q[2] /\ at[a][2] + Height > p[2]}

MarqueeSelect(p, q) ==
    /\ selected' = Touched(p, q) /\ focus' = FirstOf(selected')
    /\ KeepPositions /\ UNCHANGED <<favorites, lane>> /\ Refresh

\* move_desktop_shortcut_focus: the nearest shortcut in direction d, first
\* along the axis of the arrow, then across it.  Of two as near, whichever
\* comes first in the hash map.
Ahead(at, a, d) ==
    {b \in DOMAIN at \ {a} :
        /\ d[1] < 0 => at[b][1] < at[a][1]
        /\ d[1] > 0 => at[b][1] > at[a][1]
        /\ d[2] < 0 => at[b][2] < at[a][2]
        /\ d[2] > 0 => at[b][2] > at[a][2]}
Nearer(at, a, d, b, c) ==
    LET along == IF d[1] # 0 THEN 1 ELSE 2
        Away(s, axis) == Gap(at[s][axis], at[a][axis])
    IN  \/ Away(b, along) < Away(c, along)
        \/ /\ Away(b, along) = Away(c, along)
           /\ Away(b, 3 - along) <= Away(c, 3 - along)
NextFocus(at, a, d) ==
    IF Ahead(at, a, d) = {} THEN {a}
    ELSE {b \in Ahead(at, a, d) :
             \A c \in Ahead(at, a, d) : Nearer(at, a, d, b, c)}

MoveFocus(d) ==
    LET at == Layout(Ids, stored, Bounds(lane))
        from == IF focus \in DOMAIN at THEN focus ELSE Head(Ids)
    IN  /\ Ids # <<>>
        /\ \E a \in NextFocus(at, from, d) : ChooseOnly(a)
        /\ KeepPositions /\ UNCHANGED <<favorites, lane>> /\ Refresh

\* Ctrl and an arrow: all that are selected move by one cell, or none.
Targets(at, d) ==
    [a \in DOMAIN at \cap selected |->
        Snap(<<at[a][1] + d[1] * StepX, at[a][2] + d[2] * StepY>>, lane)]

\* Mutated form of the next definition: only the others are in the way.
CanMoveOverSelected(at, to) ==
    /\ DOMAIN to # {}
    /\ \A a \in DOMAIN to : \A b \in DOMAIN at \ selected : to[a] # at[b]
CanMove(at, to) ==
    /\ DOMAIN to # {}
    /\ \A a \in DOMAIN to : to[a] # at[a]
    /\ \A a \in DOMAIN to : \A b \in DOMAIN at \ selected : to[a] # at[b]
    /\ IsInjective(to)

\* layout.extend(targets)
Extended(at, to) ==
    [a \in DOMAIN at |-> IF a \in DOMAIN to THEN to[a] ELSE at[a]]

Nudge(d) ==
    LET at == Layout(Ids, stored, lane)
    IN  /\ IF CanMove(at, Targets(at, d))
           THEN stored' = Extended(at, Targets(at, d)) /\ Persist
           ELSE KeepPositions
        /\ KeepSelection /\ UNCHANGED <<favorites, lane>> /\ Refresh

\* Mutated form of the next definition: only the dropped one is written.
DropAlone(a, p) ==
    LET at == Layout(Ids, stored, lane)
        free == Free({at[b] : b \in DOMAIN at \ {a}}, lane)
    IN  /\ IF free # {}
           THEN /\ stored' = [at EXCEPT ![a] = NearestOf(free, p, lane)]
                /\ disk' = [b \in {a} |-> NearestOf(free, p, lane)]
           ELSE KeepPositions
        /\ ChooseOnly(a) /\ UNCHANGED <<favorites, lane>> /\ Refresh
\* Mutated form of the next definition: it is put where it is dropped.
DropOnTop(a, p) ==
    LET at == Layout(Ids, stored, lane)
    IN  /\ stored' = [at EXCEPT ![a] = Snap(p, lane)] /\ Persist
        /\ ChooseOnly(a) /\ UNCHANGED <<favorites, lane>> /\ Refresh
\* The end of a drag: moved, then selection-requested, in the same event.
Drop(a, p) ==
    LET at == Layout(Ids, stored, lane)
        free == Free({at[b] : b \in DOMAIN at \ {a}}, lane)
    IN  /\ IF free # {}
           THEN stored' = [at EXCEPT ![a] = NearestOf(free, p, lane)] /\ Persist
           ELSE KeepPositions
        /\ ChooseOnly(a) /\ UNCHANGED <<favorites, lane>> /\ Refresh

\* Shortcuts for which there is no slot get no position.
AutoArrange ==
    /\ stored' = [a \in Range(UpTo(Cardinality(Slots(lane)), Ids)) |->
                     Slot(Index(Ids, a), lane)]
    /\ Persist
    /\ KeepSelection /\ UNCHANGED <<favorites, lane>> /\ Refresh

-----------------------------------------------------------------------------
(* The rest of the shell, the window and the session.                      *)

\* toggle_favorite_app_id puts a new favorite first.
ToggleFavorite(a) ==
    /\ favorites' = UpTo(FavoritesKept,
                        IF a \in Range(favorites)
                        THEN Picked(favorites,
                                    DOMAIN favorites \ {Index(favorites, a)})
                        ELSE <<a>> \o favorites)
    /\ KeepPositions /\ KeepSelection /\ UNCHANGED lane /\ Refresh

\* Launching, closing a window and searching give the window a new model.
OtherCallback ==
    /\ KeepPositions /\ KeepSelection /\ UNCHANGED <<favorites, lane>>
    /\ Refresh

\* Nobody is told: the window goes on with the model it has.
Resize ==
    /\ lane' \in Lanes \ {lane}
    /\ UNCHANGED <<favorites, stored, disk, selected, focus, shown, laidOutFor>>

\* The shell is started again: it reads what an earlier session has saved,
\* and lays it out before it knows how large its window will be.
Restart ==
    /\ stored' = disk /\ selected' = {} /\ focus' = Nobody
    /\ lane' \in Lanes /\ laidOutFor' = StartLane
    /\ shown' = Layout(Ids, disk, Bounds(StartLane))
    /\ UNCHANGED <<favorites, disk>>

Next ==
    \/ \E a \in Range(Ids) : Select(a)
    \/ ClearSelection \/ SelectAll \/ AutoArrange
    \/ \E p, q \in Slots(lane) :
           p[1] <= q[1] /\ p[2] <= q[2] /\ MarqueeSelect(p, q)
    \/ \E d \in Arrow : MoveFocus(d) \/ Nudge(d)
    \/ \E a \in Range(Ids), p \in Slots(lane) : Drop(a, p)
    \/ \E a \in Favorable : ToggleFavorite(a)
    \/ OtherCallback \/ Resize \/ Restart

Spec == Init /\ [][Next]_vars

-----------------------------------------------------------------------------
(* Properties.                                                             *)

Roomy == Cardinality(Slots(Bounds(laidOutFor))) >= Len(Ids)

(* However the saved positions overlap, lie off the grid or come from a    *)
(* lane of another size, the layout the window is given puts no two        *)
(* shortcuts into the same cell if there are cells enough                  *)
(* (effective_desktop_shortcut_positions).                                 *)
CellsAreApart == Roomy => IsInjective(shown)

(* The shortcut that Enter launches is one of those that are highlighted.  *)
EnterLaunchesSelected == focus # Nobody => focus \in selected

\* The window has a model for its size, which is not 0, and gets another for
\* the same size, if any: in a lane of size 0 a drag is for that size, the
\* model for the fallback, and a new shell starts with a model for StartLane.
Steady ==
    /\ laidOutFor = lane /\ Bounds(lane) = lane /\ Roomy
    /\ UNCHANGED <<lane, laidOutFor, favorites>>

(* A drag moves the shortcut that was dragged, an arrow key those that are *)
(* selected; unless the user asks for an arrangement, nothing pushes       *)
(* another shortcut out of its cell.                                       *)
OthersStay ==
    [][Steady /\ (\E a \in DOMAIN shown \ selected' : shown'[a] # shown[a])
          => AutoArrange]_vars

(* The selected shortcuts move together: if one of them cannot, none does. *)
MoveTogether ==
    [][Steady /\ shown' # shown /\ (\E d \in Arrow : Nudge(d)) =>
          \A a \in DOMAIN shown \cap selected : shown'[a] # shown[a]]_vars

(* What a shell that is started again has read is the layout that was on   *)
(* the screen, whatever had moved the shortcuts there: laid out for a      *)
(* window of the same size it puts every shortcut where it was (which the  *)
(* shell does at its first callback; until then it shows the layout for    *)
(* the size before the window is shown).                                   *)
LayoutSurvives ==
    [][Restart /\ laidOutFor = lane =>
          Layout(Displayed(favorites'), stored', Bounds(lane)) = shown]_vars

(* docs/UI_PROBLEM_MAP.md:13-14: shortcut positions are "dynamically       *)
(* bounded to the live desktop lane", shortcuts "snap to collision-free    *)
(* grid cells".  desktop.slint draws a shortcut at its position in the     *)
(* model, cut off at the edge of the lane.  No two are drawn at one place. *)
Drawn(a) == << Lesser(shown[a][1], lane[1]), Lesser(shown[a][2], lane[2]) >>
DrawnApart ==
    Cardinality(Slots(Bounds(lane))) >= Len(Ids)
        => \A a, b \in DOMAIN shown : a # b => Drawn(a) # Drawn(b)
=============================================================================
