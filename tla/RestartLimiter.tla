--------------------------- MODULE RestartLimiter ---------------------------
(***************************************************************************)
(* What the session supervisor promises about restarts, with everything    *)
(* else left out: a role may be restarted at any moment, as long as fewer  *)
(* than Limit restarts of that role lie in the last Span units of time.    *)
(* SessionSupervisor implements it with Span = Window + Backoff.           *)
(***************************************************************************)
EXTENDS Integers, FiniteSets

CONSTANTS
    Role,    \* the child roles that can be restarted
    Limit,   \* restarts granted in any Span
    Span,    \* the length of the interval the limit speaks of
    Horizon  \* bound: the clock stops here

\* What the constants are; SessionSupervisor's own assumption implies it.
LimiterConstants == Limit \in Nat /\ Span \in Nat

VARIABLES
    now,       \* the clock
    restarts   \* restarts[r]: the moments at which r was restarted

vars == <<now, restarts>>

Init == now = 0 /\ restarts = [r \in Role |-> {}]

\* The restarts of r that still count against the limit.
Recent(r) == {t \in restarts[r] : now - Span <= t}

Advance ==
    /\ now < Horizon
    /\ now' = now + 1
    /\ UNCHANGED restarts

Granted(r) == Cardinality(Recent(r)) < Limit

Restart(r) ==
    /\ Granted(r)
    /\ restarts' = [restarts EXCEPT ![r] = @ \cup {now}]
    /\ UNCHANGED now

Next == Advance \/ \E r \in Role : Restart(r)

Spec == Init /\ [][Next]_vars

-----------------------------------------------------------------------------
\* The restarts of r in the Span that ends at t.
Within(r, t) == {u \in restarts[r] : t - Span <= u /\ u <= t}

\* However a role's exits are spaced, no Span that ends with a restart of
\* that role holds more than Limit of its restarts; so no Span at all does.
Bounded ==
    \A r \in Role : \A t \in restarts[r] : Cardinality(Within(r, t)) <= Limit
=============================================================================
