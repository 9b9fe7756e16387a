----------------------------- MODULE ShellAppsMC -----------------------------
(* Instances of ShellApps.                                                 *)
EXTENDS ShellApps

\* Nothing, so that the fallback is used, or all there are.
MayBeFound == {{}, App \ Fallback}

\* The empty query, and one that leaves some of the apps or, where only the
\* fallback is installed, none.
SomeQueries == {App, {3}}

NoSearch == {App}
=============================================================================
