--------------------------- MODULE NotificationList ---------------------------
(***************************************************************************)
(* The list the shell keeps of the notifications that stand: newest first, *)
(* at most Cap of them, each under the id its sender was given.            *)
(***************************************************************************)
EXTENDS Lists, FiniteSetsExt

CONSTANTS
    Message,     \* a title, a body and an urgency
    Welcome,     \* the message main() posts before any thread is started
    Cap          \* 32

ASSUME ListAssumption == Welcome \in Message /\ Cap \in Nat \ {0}

Ids(s) == {s[i].id : i \in DOMAIN s}

\* items.truncate(32)
\* Mutated form of Truncated: one more is kept.
TruncatedLate(s) == SubSeq(s, 1, Min({Len(s), Cap + 1}))
Truncated(s) == SubSeq(s, 1, Min({Len(s), Cap}))

Inserted(s, id, m) == Truncated(<<[id |-> id, msg |-> m]>> \o s)

Position(s, id) ==
    CHOOSE i \in DOMAIN s : s[i].id = id /\ \A j \in 1..i - 1 : s[j].id # id

\* items.retain(..)
Without(s, id) == Picked(s, {i \in DOMAIN s : s[i].id # id})

\* The first notification with that id, replaced where it stands.
Replaced(s, id, m) == [s EXCEPT ![Position(s, id)] = [id |-> id, msg |-> m]]
=============================================================================
