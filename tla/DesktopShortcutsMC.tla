------------------------- MODULE DesktopShortcutsMC -------------------------
(* Instances of DesktopShortcuts with the grid of main.rs.                 *)
EXTENDS DesktopShortcuts

\* The apps "files", "mail" and "web", in the order of their score.
ThreeApps == <<"files", "mail", "web">>

\* Two by two cells; one row whose last cell is off the grid; one cell too
\* few for three shortcuts.
SmallLanes == {<<120, 132>>, <<168, 12>>, <<120, 12>>}

\* Two by two cells.
SquareLane == <<120, 132>>

\* Two by two cells; three by two.
RoomyLanes == {<<120, 132>>, <<228, 132>>}

\* On the first cell; near it; far outside.
Points == {<<12, 12>>, <<22, 18>>, <<500, 500>>}
=============================================================================
