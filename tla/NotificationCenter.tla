-------------------------- MODULE NotificationCenter --------------------------
(***************************************************************************)
(* What the notification center promises to those who post, replace and    *)
(* dismiss notifications and to the one who looks at them: each call takes *)
(* effect at one instant, an id is never given twice, and the display      *)
(* shows a list that really was the list at some instant, never an older   *)
(* one after a newer one, and in the end the last one.                     *)
(***************************************************************************)
EXTENDS NotificationList

CONSTANT Id

VARIABLES
    list,        \* the notifications that stand
    issued,      \* the ids given so far
    display      \* what the user sees

vars == <<list, issued, display>>

Init ==
    /\ \E id \in Id : /\ list = <<[id |-> id, msg |-> Welcome]>>
                      /\ issued = {id}
    /\ display = <<>>

Post(m) ==
    /\ \E id \in Id \ issued : /\ list' = Inserted(list, id, m)
                               /\ issued' = issued \cup {id}
    /\ UNCHANGED display

Replace(id, m) ==
    /\ list' = Replaced(list, id, m)
    /\ UNCHANGED <<issued, display>>

Dismiss(id) ==
    /\ list' = Without(list, id)
    /\ UNCHANGED <<issued, display>>

Clear ==
    /\ list' = <<>>
    /\ UNCHANGED <<issued, display>>

Refresh ==
    /\ display' = list
    /\ UNCHANGED <<list, issued>>

Next ==
    \/ \E m \in Message : Post(m)
    \/ \E m \in Message, id \in Ids(list) : Replace(id, m)
    \/ \E id \in Id : Dismiss(id)
    \/ Clear
    \/ Refresh

Spec == Init /\ [][Next]_vars
=============================================================================
