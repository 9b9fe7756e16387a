-------------------------- MODULE NotificationStore --------------------------
(***************************************************************************)
(* The shell's NotificationStore and the three threads that use it: the UI *)
(* thread (user actions, and a 350 ms timer that copies the store to the   *)
(* display), the thread that serves org.seatshell.Shell and the one that   *)
(* serves org.freedesktop.Notifications.                                   *)
(*                                                                         *)
(* Each thread runs one operation at a time.  The list is guarded by a     *)
(* mutex; the id counter and the revision are atomics read and written     *)
(* outside it too, and an operation may be overtaken between any two of    *)
(* its accesses.                                                           *)
(***************************************************************************)
EXTENDS NotificationList

CONSTANTS
    IdMax,       \* u32::MAX
    MaxPosts     \* bound: notifications posted

ASSUME StoreAssumption ==
    IdMax \in Nat \ {0} /\ MaxPosts \in Nat \ {0}

Thread == {"ui", "shell", "desktop"}
Id == 1..IdMax
NoReplacement == 0                 \* replaces_id = 0, and push()
NoJob == [id |-> 0, replaces |-> NoReplacement, msg |-> Welcome]

VARIABLES
    items,       \* NotificationStore.items
    holder,      \* the threads that hold its mutex: none or one
    nextId,      \* NotificationStore.next_id
    revision,    \* NotificationStore.revision
    pc,          \* pc[t]: how far t is in its operation
    job,         \* job[t]: what t posts
    seen,        \* notification_revision of the UI's timer
    copy,        \* the timer's snapshot
    shown,       \* the notifications in the UI's model
    issued,      \* history variable: ids under which something was inserted
    posts        \* history variable: posts begun

store == <<items, issued>>
ui    == <<seen, copy, shown>>
vars  == <<items, holder, nextId, revision, pc, job, seen, copy, shown, issued,
           posts>>

Job == [id : 0..IdMax, replaces : 0..IdMax, msg : Message]
Entry == [id : Id, msg : Message]

TypeOK ==
    /\ items \in Seq(Entry) /\ Len(items) <= Cap
    /\ holder \in SUBSET Thread
    /\ nextId \in 0..IdMax
    /\ revision \in Nat
    /\ pc \in [Thread -> {"idle", "posting", "committing", "refreshing",
                          "showing"}]
    /\ job \in [Thread -> Job]
    /\ seen \in Nat
    /\ copy \in Seq(Entry) /\ shown \in Seq(Entry)
    /\ issued \subseteq Id
    /\ posts \in Nat

\* main() has posted its welcome and emptied the display.
Init ==
    /\ items = <<[id |-> 1, msg |-> Welcome]>>
    /\ holder = {} /\ nextId = 1 /\ revision = 1
    /\ pc = [t \in Thread |-> "idle"]
    /\ job = [t \in Thread |-> NoJob]
    /\ seen = 0 /\ copy = <<>> /\ shown = <<>>
    /\ issued = {1} /\ posts = 1

At(t, p) == pc' = [pc EXCEPT ![t] = p]
Free == holder = {}

-----------------------------------------------------------------------------
(* push_or_replace, dismiss, clear                                         *)

\* fetch_add wraps; saturating_add does not.
\* Mutated form of IdAfter: the id wraps with the counter.
IdAfterWrapping(count) == (count + 1) % (IdMax + 1)
IdAfter(count) == IF count = IdMax THEN IdMax ELSE count + 1
Incremented(count) == (count + 1) % (IdMax + 1)

\* The ids a thread may ask to have replaced: only Notify carries one.
Replaceable(t) == IF t = "desktop" THEN 0..IdMax ELSE {NoReplacement}

BeginPost(t, replaces, m) ==
    /\ pc[t] = "idle" /\ posts < MaxPosts
    /\ replaces \in Replaceable(t)
    /\ job' = [job EXCEPT ![t] =
                 [id |-> IdAfter(nextId), replaces |-> replaces, msg |-> m]]
    /\ nextId' = Incremented(nextId)
    /\ posts' = posts + 1
    /\ At(t, "posting")
    /\ UNCHANGED <<holder, revision, store, ui>>

\* Mutated form of the next definition: the id asked for is used anyway.
InsertedIdAsAsked(j) ==
    IF j.replaces # NoReplacement THEN j.replaces ELSE j.id
InsertedId(j) == j.id

Replaces(j) == j.replaces # NoReplacement /\ j.replaces \in Ids(items)

FinishPost(t) ==
    /\ pc[t] = "posting" /\ Free
    /\ IF Replaces(job[t])
       THEN /\ items' = Replaced(items, job[t].replaces, job[t].msg)
            /\ UNCHANGED issued
       ELSE /\ items' = Inserted(items, InsertedId(job[t]), job[t].msg)
            /\ issued' = issued \cup {InsertedId(job[t])}
    /\ holder' = {t}
    /\ At(t, "committing")
    /\ job' = [job EXCEPT ![t] = NoJob]
    /\ UNCHANGED <<nextId, revision, ui, posts>>

\* Who dismisses what: the user what the display shows, CloseNotification
\* any id.  An id that is not in the list changes nothing.
Dismissable(t) ==
    CASE t = "ui" -> Ids(shown)
      [] t = "desktop" -> Id
      [] t = "shell" -> {}

\* Mutated form of Dismiss: the revision is left alone.
DismissQuietly(t, id) ==
    /\ pc[t] = "idle" /\ Free
    /\ id \in Dismissable(t) \cap Ids(items)
    /\ items' = Without(items, id)
    /\ UNCHANGED <<holder, pc, nextId, revision, job, ui, issued, posts>>

Dismiss(t, id) ==
    /\ pc[t] = "idle" /\ Free
    /\ id \in Dismissable(t) \cap Ids(items)
    /\ items' = Without(items, id)
    /\ holder' = {t}
    /\ At(t, "committing")
    /\ UNCHANGED <<nextId, revision, job, ui, issued, posts>>

Clear(t) ==
    /\ t \in {"ui", "shell"}
    /\ pc[t] = "idle" /\ Free
    /\ items # <<>>
    /\ items' = <<>>
    /\ holder' = {t}
    /\ At(t, "committing")
    /\ UNCHANGED <<nextId, revision, job, ui, issued, posts>>

\* The revision is bumped and, at the end of the function, the mutex freed.
Commit(t) ==
    /\ pc[t] = "committing"
    /\ revision' = revision + 1
    /\ holder' = {}
    /\ At(t, "idle")
    /\ UNCHANGED <<nextId, job, store, ui, posts>>

-----------------------------------------------------------------------------
(* notification_timer: the revision, then the list, then the display.      *)

TimerFires ==
    /\ pc["ui"] = "idle"
    /\ revision # seen
    /\ seen' = revision
    /\ At("ui", "refreshing")
    /\ UNCHANGED <<holder, nextId, revision, job, store, copy, shown, posts>>

Snapshot ==
    /\ pc["ui"] = "refreshing" /\ Free
    /\ copy' = items
    /\ At("ui", "showing")
    /\ UNCHANGED <<holder, nextId, revision, job, store, seen, shown, posts>>

\* Mutated form of Show: the revision is noted last.
ShowThenNote ==
    /\ pc["ui"] = "showing"
    /\ shown' = copy /\ copy' = <<>>
    /\ seen' = revision
    /\ At("ui", "idle")
    /\ UNCHANGED <<holder, nextId, revision, job, store, posts>>

Show ==
    /\ pc["ui"] = "showing"
    /\ shown' = copy /\ copy' = <<>>
    /\ At("ui", "idle")
    /\ UNCHANGED <<holder, nextId, revision, job, store, seen, posts>>

-----------------------------------------------------------------------------
Call(t) ==
    \/ \E replaces \in 0..IdMax, m \in Message : BeginPost(t, replaces, m)
    \/ \E id \in Id : Dismiss(t, id)
    \/ Clear(t)

Continue(t) == FinishPost(t) \/ Commit(t)

Timer == TimerFires \/ Snapshot \/ Show

Next == Timer \/ \E t \in Thread : Call(t) \/ Continue(t)

Spec == Init /\ [][Next]_vars

\* A thread in the middle of an operation goes on, the UI timer fires again
\* and again.  Nobody has to call, and the mutex favours no one.
Fairness == WF_vars(Timer) /\ \A t \in Thread : WF_vars(Continue(t))

FairSpec == Spec /\ Fairness

-----------------------------------------------------------------------------
(* Properties.                                                             *)

\* No two notifications of the list have the same id, whoever posts and
\* replaces what concurrently, until the 32-bit counter has gone round.
IdsDistinct ==
    posts <= IdMax =>
        \A i, j \in DOMAIN items : items[i].id = items[j].id => i = j

\* 0 means "replaces nothing" in Notify: it is never handed out as an id,
\* not even where the counter wraps to 0.
ZeroIsNeverAnId == \A t \in Thread : pc[t] = "posting" => job[t].id # 0

\* No update is lost: when the timer would find nothing new and nobody is in
\* the middle of a change, the display shows the list.
ShownIsCurrent ==
    Free /\ pc["ui"] = "idle" /\ seen = revision => shown = items

\* The display catches up again and again.
DisplayConverges == []<>(shown = items)

\* The abstraction: a call takes effect when it changes the list, the
\* display when the timer takes its snapshot.  What the center promises is
\* promised until the counter has gone round: from then on ids come again.
Center == INSTANCE NotificationCenter WITH
    list <- items,
    display <- IF pc["ui"] = "showing" THEN copy ELSE shown
CenterSpec ==
    Center!Init /\ [][posts <= IdMax => Center!Next]_(Center!vars)
=============================================================================
