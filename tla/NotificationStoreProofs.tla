------------------------ MODULE NotificationStoreProofs ------------------------
(***************************************************************************)
(* The display never misses an update, no id is 0 and none is given twice, *)
(* and the store implements the notification center, for every list        *)
(* length, every number of messages and every interleaving of the three    *)
(* threads.                                                                *)
(***************************************************************************)
EXTENDS NotificationStore, ListsProofs

\* What the threads and the mutex owe each other: the holder of the mutex is
\* the one thread that is committing, and only the UI thread refreshes.
LockInv ==
    /\ pc \in [Thread -> {"idle", "posting", "committing", "refreshing",
                          "showing"}]
    /\ holder \in SUBSET Thread
    /\ \A t \in Thread : t \in holder <=> pc[t] = "committing"
    /\ \A t, u \in holder : t = u
    /\ \A t \in Thread \ {"ui"} : ~(pc[t] \in {"refreshing", "showing"})

\* Whatever the timer has last noted was true of what it copied or showed.
FreshInv ==
    /\ revision \in Nat /\ seen \in Nat /\ seen <= revision
    /\ Free /\ seen = revision /\ pc["ui"] = "showing" => copy = items
    /\ Free /\ seen = revision /\ ~(pc["ui"] \in {"refreshing", "showing"})
         => shown = items

-----------------------------------------------------------------------------
LEMMA LockInit == Init => LockInv
BY DEF Init, LockInv, Thread

LEMMA LockStep == LockInv /\ [Next]_vars => LockInv'
<1> SUFFICES ASSUME LockInv, [Next]_vars PROVE LockInv'
  OBVIOUS
<1> USE DEF LockInv, Thread, At, Free
<1>1. ASSUME NEW t \in Thread, NEW r \in 0..IdMax, NEW m \in Message,
             BeginPost(t, r, m)
      PROVE  LockInv'
  BY <1>1 DEF BeginPost
<1>2. ASSUME NEW t \in Thread, FinishPost(t) PROVE LockInv'
  BY <1>2 DEF FinishPost
<1>3. ASSUME NEW t \in Thread, NEW id \in Id, Dismiss(t, id) PROVE LockInv'
  BY <1>3 DEF Dismiss
<1>4. ASSUME NEW t \in Thread, Clear(t) PROVE LockInv'
  BY <1>4 DEF Clear
<1>5. ASSUME NEW t \in Thread, Commit(t) PROVE LockInv'
  BY <1>5 DEF Commit
<1>6. CASE TimerFires
  BY <1>6 DEF TimerFires
<1>7. CASE Snapshot
  BY <1>7 DEF Snapshot
<1>8. CASE Show
  BY <1>8 DEF Show
<1>9. CASE UNCHANGED vars
  BY <1>9 DEF vars
<1> QED
  BY <1>1, <1>2, <1>3, <1>4, <1>5, <1>6, <1>7, <1>8, <1>9
     DEF Next, Timer, Call, Continue

LEMMA FreshInit == Init => FreshInv
BY DEF Init, FreshInv, Thread

LEMMA FreshStep == LockInv /\ FreshInv /\ [Next]_vars => FreshInv'
<1> SUFFICES ASSUME LockInv, FreshInv, [Next]_vars PROVE FreshInv'
  OBVIOUS
<1> USE DEF LockInv, FreshInv, Thread, At, Free
<1>1. ASSUME NEW t \in Thread, NEW r \in 0..IdMax, NEW m \in Message,
             BeginPost(t, r, m)
      PROVE  FreshInv'
  BY <1>1 DEF BeginPost, store, ui
<1>2. ASSUME NEW t \in Thread, FinishPost(t) PROVE FreshInv'
  BY <1>2 DEF FinishPost, store, ui
<1>3. ASSUME NEW t \in Thread, NEW id \in Id, Dismiss(t, id) PROVE FreshInv'
  BY <1>3 DEF Dismiss, store, ui
<1>4. ASSUME NEW t \in Thread, Clear(t) PROVE FreshInv'
  BY <1>4 DEF Clear, store, ui
<1>5. ASSUME NEW t \in Thread, Commit(t) PROVE FreshInv'
  BY <1>5 DEF Commit, store, ui
<1>6. CASE TimerFires
  BY <1>6 DEF TimerFires, store, ui
<1>7. CASE Snapshot
  BY <1>7 DEF Snapshot, store, ui
<1>8. CASE Show
  BY <1>8 DEF Show, store, ui
<1>9. CASE UNCHANGED vars
  BY <1>9 DEF vars
<1> QED
  BY <1>1, <1>2, <1>3, <1>4, <1>5, <1>6, <1>7, <1>8, <1>9
     DEF Next, Timer, Call, Continue

\* The timer reads the revision before the list, and a change bumps it after
\* changing the list, under the mutex: so no change is ever missed.
THEOREM NoUpdateIsLost == Spec => []ShownIsCurrent
<1>1. LockInv /\ FreshInv => ShownIsCurrent
  BY DEF LockInv, FreshInv, ShownIsCurrent, Thread
<1> QED
  BY LockInit, LockStep, FreshInit, FreshStep, <1>1, PTL DEF Spec

-----------------------------------------------------------------------------
\* The ids handed out, to posts under way and to notifications, are all
\* different and accounted for by the counter until it has gone round.
IdRange ==
    /\ nextId \in 0..IdMax
    /\ \A t \in Thread : pc[t] = "posting" => job[t].id \in Id

IdUnique ==
    /\ posts <= IdMax => nextId = posts
    /\ posts <= IdMax => issued \subseteq 1..posts
    /\ posts <= IdMax =>
         \A t \in Thread : pc[t] = "posting" =>
            /\ job[t].id \in 1..posts /\ job[t].id \notin issued
            /\ \A u \in Thread \ {t} :
                  pc[u] = "posting" => job[u].id # job[t].id

JobInv ==
    /\ job \in [Thread -> Job]
    /\ posts \in Nat /\ posts <= MaxPosts

LEMMA IdRangeInit == Init => IdRange
BY StoreAssumption DEF Init, IdRange, Thread

LEMMA IdRangeStep == LockInv /\ JobInv /\ IdRange /\ [Next]_vars => IdRange'
<1> SUFFICES ASSUME LockInv, JobInv, IdRange, [Next]_vars PROVE IdRange'
  OBVIOUS
<1> USE StoreAssumption
    DEF LockInv, JobInv, Job, IdRange, Thread, At, Free, Id
<1>1. ASSUME NEW t \in Thread, NEW r \in 0..IdMax, NEW m \in Message,
             BeginPost(t, r, m)
      PROVE  IdRange'
  BY <1>1 DEF BeginPost, IdAfter, Incremented
<1>2. ASSUME NEW t \in Thread, FinishPost(t) PROVE IdRange'
  BY <1>2 DEF FinishPost
<1>3. ASSUME NEW t \in Thread, NEW id \in Id, Dismiss(t, id) PROVE IdRange'
  BY <1>3 DEF Dismiss
<1>4. ASSUME NEW t \in Thread, Clear(t) PROVE IdRange'
  BY <1>4 DEF Clear
<1>5. ASSUME NEW t \in Thread, Commit(t) PROVE IdRange'
  BY <1>5 DEF Commit
<1>6. CASE Timer
  BY <1>6 DEF Timer, TimerFires, Snapshot, Show
<1>7. CASE UNCHANGED vars
  BY <1>7 DEF vars
<1> QED
  BY <1>1, <1>2, <1>3, <1>4, <1>5, <1>6, <1>7 DEF Next, Call, Continue

LEMMA NoJobIsAJob == NoJob \in Job
BY ListAssumption, StoreAssumption DEF NoJob, Job, NoReplacement

LEMMA JobInit == Init => JobInv
BY NoJobIsAJob, StoreAssumption DEF Init, JobInv, Thread

LEMMA JobStep == LockInv /\ JobInv /\ IdRange /\ [Next]_vars => JobInv'
<1> SUFFICES ASSUME LockInv, JobInv, IdRange, [Next]_vars PROVE JobInv'
  OBVIOUS
<1> USE ListAssumption, StoreAssumption DEF JobInv
<1>1. ASSUME NEW t \in Thread, NEW r \in 0..IdMax, NEW m \in Message,
             BeginPost(t, r, m)
      PROVE  JobInv'
  BY <1>1 DEF BeginPost, IdAfter, IdRange, Job
<1>2. ASSUME NEW t \in Thread, FinishPost(t) PROVE JobInv'
  <2>1. job' = [job EXCEPT ![t] = NoJob] /\ posts' = posts
    BY <1>2 DEF FinishPost
  <2> QED BY <2>1, NoJobIsAJob
<1>3. ASSUME NEW t \in Thread, NEW id \in Id, Dismiss(t, id) PROVE JobInv'
  BY <1>3 DEF Dismiss
<1>4. ASSUME NEW t \in Thread, Clear(t) PROVE JobInv'
  BY <1>4 DEF Clear
<1>5. ASSUME NEW t \in Thread, Commit(t) PROVE JobInv'
  BY <1>5 DEF Commit
<1>6. CASE Timer
  BY <1>6 DEF Timer, TimerFires, Snapshot, Show
<1>7. CASE UNCHANGED vars
  BY <1>7 DEF vars
<1> QED
  BY <1>1, <1>2, <1>3, <1>4, <1>5, <1>6, <1>7 DEF Next, Call, Continue

\* Not even where the 32-bit counter wraps is 0 handed out as an id.
THEOREM ZeroIsNeverIssued == Spec => []ZeroIsNeverAnId
<1>1. LockInv /\ IdRange => ZeroIsNeverAnId
  BY DEF LockInv, IdRange, ZeroIsNeverAnId, Id
<1> QED
  BY LockInit, LockStep, JobInit, JobStep, IdRangeInit, IdRangeStep, <1>1, PTL
     DEF Spec

-----------------------------------------------------------------------------
LEMMA IdUniqueInit == Init => IdUnique
BY StoreAssumption DEF Init, IdUnique, Thread

LEMMA IdUniqueStep ==
    LockInv /\ JobInv /\ IdRange /\ IdUnique /\ [Next]_vars => IdUnique'
<1> SUFFICES ASSUME LockInv, JobInv, IdRange, IdUnique, [Next]_vars
             PROVE  IdUnique'
  OBVIOUS
<1> USE StoreAssumption DEF LockInv, JobInv, Job, IdUnique, At, Free
<1>1. ASSUME NEW t \in Thread, NEW r \in 0..IdMax, NEW m \in Message,
             BeginPost(t, r, m)
      PROVE  IdUnique'
  BY <1>1 DEF BeginPost, IdAfter, Incremented, IdRange, store
<1>2. ASSUME NEW t \in Thread, FinishPost(t) PROVE IdUnique'
  BY <1>2 DEF FinishPost, InsertedId
<1>3. ASSUME NEW t \in Thread, NEW id \in Id, Dismiss(t, id) PROVE IdUnique'
  BY <1>3 DEF Dismiss
<1>4. ASSUME NEW t \in Thread, Clear(t) PROVE IdUnique'
  BY <1>4 DEF Clear
<1>5. ASSUME NEW t \in Thread, Commit(t) PROVE IdUnique'
  BY <1>5 DEF Commit, store
<1>6. CASE Timer
  BY <1>6 DEF Timer, TimerFires, Snapshot, Show, store, Thread
<1>7. CASE UNCHANGED vars
  BY <1>7 DEF vars
<1> QED
  BY <1>1, <1>2, <1>3, <1>4, <1>5, <1>6, <1>7 DEF Next, Call, Continue

-----------------------------------------------------------------------------
(* The list.                                                               *)

\* The list is one of entries under ids that were issued, and so are the
\* copies of it.
ListInv ==
    /\ items \in Seq(Entry) /\ Len(items) <= Cap
    /\ copy \in Seq(Entry) /\ shown \in Seq(Entry)
    /\ Ids(items) \subseteq issued /\ issued \subseteq Id

DistinctInv ==
    posts <= IdMax =>
        \A i, j \in DOMAIN items : items[i].id = items[j].id => i = j

LEMMA TruncatedProperties ==
  ASSUME NEW S, NEW s \in Seq(S)
  PROVE  /\ Truncated(s) \in Seq(S)
         /\ Len(Truncated(s)) <= Cap /\ Len(Truncated(s)) <= Len(s)
         /\ \A i \in 1..Len(Truncated(s)) : Truncated(s)[i] = s[i]
<1> DEFINE m == Min({Len(s), Cap})
<1>1. Len(s) \in Nat /\ Cap \in Nat
  BY ListAssumption
<1>2. m \in {Len(s), Cap} /\ m <= Len(s) /\ m <= Cap
  <2>1. \E x \in {Len(s), Cap} : \A y \in {Len(s), Cap} : x <= y
    BY <1>1
  <2> QED
    BY <2>1 DEF Min
<1>3. m \in 0..Len(s) /\ Truncated(s) = SubSeq(s, 1, m)
  BY <1>1, <1>2 DEF Truncated
<1> HIDE DEF m
<1>4. SubSeq(s, 1, m) \in Seq(S) /\ Len(SubSeq(s, 1, m)) = m
  BY <1>1, <1>3
<1>5. \A i \in 1..m : SubSeq(s, 1, m)[i] = s[i]
  BY <1>1, <1>3
<1> QED
  BY <1>1, <1>2, <1>3, <1>4, <1>5

\* Inserted puts the new entry first and shifts the others.
LEMMA InsertedProperties ==
  ASSUME NEW s \in Seq(Entry), NEW id \in Id, NEW m \in Message
  PROVE  /\ Inserted(s, id, m) \in Seq(Entry) /\ Len(Inserted(s, id, m)) <= Cap
         /\ Len(Inserted(s, id, m)) <= Len(s) + 1
         /\ \A i \in 1..Len(Inserted(s, id, m)) :
               Inserted(s, id, m)[i] = IF i = 1 THEN [id |-> id, msg |-> m]
                                       ELSE s[i - 1]
<1> DEFINE longer == <<[id |-> id, msg |-> m]>> \o s
<1>1. longer \in Seq(Entry) /\ Len(longer) = Len(s) + 1 /\ Len(s) \in Nat
  BY DEF Entry
<1>2. \A i \in 1..Len(longer) :
         longer[i] = IF i = 1 THEN [id |-> id, msg |-> m] ELSE s[i - 1]
  BY <1>1
<1>3. Inserted(s, id, m) = Truncated(longer)
  BY DEF Inserted
<1> HIDE DEF longer
<1>4. /\ Truncated(longer) \in Seq(Entry)
      /\ Len(Truncated(longer)) <= Cap
      /\ Len(Truncated(longer)) <= Len(longer)
      /\ \A i \in 1..Len(Truncated(longer)) : Truncated(longer)[i] = longer[i]
  BY <1>1, TruncatedProperties
<1>5. Len(Truncated(longer)) \in Nat
  BY <1>4
<1> QED
  BY <1>1, <1>2, <1>3, <1>4, <1>5

\* The entry with that id stands where it stood, under the same id.
LEMMA ReplacedProperties ==
  ASSUME NEW s \in Seq(Entry), NEW id \in Ids(s), NEW m \in Message
  PROVE  /\ Replaced(s, id, m) \in Seq(Entry)
         /\ Len(Replaced(s, id, m)) = Len(s)
         /\ \A i \in DOMAIN s : Replaced(s, id, m)[i].id = s[i].id
<1>1. \E i \in DOMAIN s : s[i].id = id /\ \A j \in 1..i - 1 : s[j].id # id
  <2> DEFINE H == {i \in DOMAIN s : s[i].id = id}
  <2>1. H # {} /\ H \in SUBSET Nat
    BY DEF Ids
  <2>2. PICK i \in H : \A j \in H : i <= j
    BY <2>1, LeastNatural
  <2>3. ASSUME NEW j \in 1..i - 1 PROVE s[j].id # id
    BY <2>2
  <2> QED
    BY <2>2, <2>3
<1>2. Position(s, id) \in DOMAIN s /\ s[Position(s, id)].id = id
  BY <1>1 DEF Position
<1>3. s[Position(s, id)] \in Entry
  BY <1>2
<1>4. [id |-> id, msg |-> m] \in Entry
  BY <1>2, <1>3 DEF Entry
<1> QED
  BY <1>2, <1>4 DEF Replaced

\* What is left keeps its order, each entry under its own id.
LEMMA WithoutProperties ==
  ASSUME NEW s \in Seq(Entry), NEW id
  PROVE  /\ Without(s, id) \in Seq(Entry) /\ Len(Without(s, id)) <= Len(s)
         /\ Ids(Without(s, id)) \subseteq Ids(s)
         /\ (\A i, j \in DOMAIN s : s[i].id = s[j].id => i = j)
              => \A i, j \in DOMAIN Without(s, id) :
                    Without(s, id)[i].id = Without(s, id)[j].id => i = j
<1> DEFINE I == {i \in DOMAIN s : s[i].id # id}
           n == Cardinality(I)
<1>1. I \in SUBSET (DOMAIN s) /\ Without(s, id) = Picked(s, I)
  BY DEF Without
<1> HIDE DEF I
<1>2. PICK at \in [1..n -> I] :
         /\ \A k \in 1..n : Picked(s, I)[k] = s[at[k]]
         /\ \A j, k \in 1..n : j < k => at[j] < at[k]
  BY <1>1, PickedProperties
<1>3. /\ Picked(s, I) \in Seq(Entry) /\ Len(Picked(s, I)) <= Len(s)
      /\ DOMAIN Picked(s, I) = 1..n /\ n \in Nat
  BY <1>1, PickedProperties
<1>4. Ids(Picked(s, I)) \subseteq Ids(s)
  BY <1>1, <1>2, <1>3 DEF Ids
<1>5. ASSUME \A i, j \in DOMAIN s : s[i].id = s[j].id => i = j,
             NEW i \in 1..n, NEW j \in 1..n, i # j
      PROVE  Picked(s, I)[i].id # Picked(s, I)[j].id
  <2>1. at[i] \in DOMAIN s /\ at[j] \in DOMAIN s /\ at[i] # at[j]
    BY <1>1, <1>2, <1>3, <1>5
  <2> QED
    BY <1>2, <1>5, <2>1
<1> QED
  BY <1>1, <1>3, <1>4, <1>5

LEMMA ListInit == Init => ListInv /\ DistinctInv
<1> SUFFICES ASSUME Init PROVE ListInv /\ DistinctInv
  OBVIOUS
<1>1. [id |-> 1, msg |-> Welcome] \in Entry
  BY ListAssumption, StoreAssumption DEF Entry, Id
<1>2. items = <<[id |-> 1, msg |-> Welcome]>> /\ Len(items) = 1
  BY DEF Init
<1>3. Ids(items) = {1}
  BY <1>2 DEF Ids
<1> QED
  BY <1>1, <1>2, <1>3, ListAssumption, StoreAssumption
     DEF Init, ListInv, DistinctInv, Id

\* Only a post, a dismissal and a clearing change the list.
LEMMA ListIsLeftAlone ==
  ASSUME ListInv, DistinctInv, UNCHANGED <<items, issued>>,
         copy' = copy \/ copy' = items \/ copy' = <<>>,
         shown' = shown \/ shown' = copy,
         posts' <= IdMax => posts <= IdMax
  PROVE  ListInv' /\ DistinctInv'
<1>1. <<>> \in Seq(Entry)
  OBVIOUS
<1>2. copy' \in Seq(Entry) /\ shown' \in Seq(Entry)
  BY <1>1 DEF ListInv
<1>3. Ids(items)' = Ids(items)
  BY DEF Ids
<1> QED
  BY <1>2, <1>3 DEF ListInv, DistinctInv

LEMMA ListStep ==
  ASSUME LockInv, JobInv, IdRange, IdUnique, ListInv, DistinctInv, [Next]_vars
  PROVE  ListInv' /\ DistinctInv'
<1>1. ASSUME NEW t \in Thread, NEW r \in 0..IdMax, NEW m \in Message,
             BeginPost(t, r, m)
      PROVE  ListInv' /\ DistinctInv'
  BY <1>1, ListIsLeftAlone, StoreAssumption DEF BeginPost, store, ui, JobInv
<1>2. ASSUME NEW t \in Thread, FinishPost(t) PROVE ListInv' /\ DistinctInv'
  <2>1. /\ job[t].msg \in Message /\ job[t].id \in Id
        /\ posts <= IdMax => job[t].id \notin issued
    BY <1>2 DEF FinishPost, JobInv, Job, IdUnique, IdRange
  <2>2. UNCHANGED <<copy, shown, posts>>
    BY <1>2 DEF FinishPost, ui
  <2>3. items \in Seq(Entry) /\ Len(items) <= Cap /\ Ids(items) \subseteq issued
    BY DEF ListInv
  <2>4. CASE Replaces(job[t])
    <3>1. items' = Replaced(items, job[t].replaces, job[t].msg) /\ issued' = issued
      BY <1>2, <2>4 DEF FinishPost
    <3>2. job[t].replaces \in Ids(items)
      BY <2>4 DEF Replaces
    <3>3. /\ items' \in Seq(Entry) /\ Len(items') = Len(items)
          /\ \A i \in DOMAIN items : items'[i].id = items[i].id
      BY <2>1, <2>3, <3>1, <3>2, ReplacedProperties
    <3>4. DOMAIN items' = DOMAIN items
      BY <2>3, <3>3
    <3>5. Ids(items)' = Ids(items)
      BY <3>3, <3>4 DEF Ids
    <3>6. ListInv'
      BY <2>2, <2>3, <3>1, <3>3, <3>5 DEF ListInv
    <3>7. DistinctInv'
      BY <2>2, <3>3, <3>4 DEF DistinctInv
    <3> QED
      BY <3>6, <3>7
  <2>5. CASE ~Replaces(job[t])
    <3> DEFINE id == job[t].id
    <3>1. items' = Inserted(items, id, job[t].msg) /\ issued' = issued \cup {id}
      BY <1>2, <2>5 DEF FinishPost, InsertedId
    <3>2. id \in Id /\ (posts <= IdMax => id \notin issued)
      BY <2>1
    <3> HIDE DEF id
    <3>3. /\ items' \in Seq(Entry) /\ Len(items') <= Cap
          /\ Len(items') <= Len(items) + 1
          /\ \A i \in 1..Len(items') :
                items'[i] = IF i = 1 THEN [id |-> id, msg |-> job[t].msg]
                            ELSE items[i - 1]
      BY <2>1, <2>3, <3>1, <3>2, InsertedProperties
    <3>4. ASSUME NEW i \in 1..Len(items'), i # 1
          PROVE  /\ i - 1 \in DOMAIN items /\ items'[i] = items[i - 1]
                 /\ items[i - 1].id \in issued
      <4>1. i - 1 \in DOMAIN items /\ items'[i] = items[i - 1]
        BY <2>3, <3>3, <3>4
      <4> QED
        BY <2>3, <4>1 DEF Ids
    <3>5. \A i \in 1..Len(items') : i = 1 => items'[i].id = id
      BY <3>3
    <3>6. DOMAIN items' = 1..Len(items')
      BY <3>3
    <3>7. ListInv'
      <4>1. Ids(items)' \subseteq issued'
        BY <3>1, <3>4, <3>5, <3>6 DEF Ids
      <4>2. issued' \subseteq Id
        BY <3>1, <3>2 DEF ListInv
      <4> QED
        BY <2>2, <3>3, <4>1, <4>2 DEF ListInv
    <3>8. ASSUME posts <= IdMax,
                 NEW i \in 1..Len(items'), NEW j \in 1..Len(items'),
                 items'[i].id = items'[j].id
          PROVE  i = j
      <4>1. id \notin issued
        BY <3>8, <3>2
      <4>2. CASE i = 1 \/ j = 1
        BY <3>4, <3>5, <3>8, <4>1, <4>2
      <4>3. CASE i # 1 /\ j # 1
        BY <3>4, <3>8, <4>3 DEF DistinctInv
      <4> QED
        BY <4>2, <4>3
    <3> QED
      BY <2>2, <3>6, <3>7, <3>8 DEF DistinctInv
  <2> QED
    BY <2>4, <2>5
<1>3. ASSUME NEW t \in Thread, NEW id \in Id, Dismiss(t, id)
      PROVE  ListInv' /\ DistinctInv'
  <2>1. items' = Without(items, id) /\ UNCHANGED <<copy, shown, issued, posts>>
    BY <1>3 DEF Dismiss, ui
  <2>2. items \in Seq(Entry) /\ Len(items) <= Cap
    BY DEF ListInv
  <2>3. /\ Len(Without(items, id)) \in Nat /\ Len(items) \in Nat
        /\ Cap \in Nat
    BY <2>2, WithoutProperties, ListAssumption
  <2> QED
    BY <2>1, <2>2, <2>3, WithoutProperties DEF ListInv, DistinctInv
<1>4. ASSUME NEW t \in Thread, Clear(t) PROVE ListInv' /\ DistinctInv'
  <2>1. items' = <<>> /\ UNCHANGED <<copy, shown, issued, posts>>
    BY <1>4 DEF Clear, ui
  <2> QED
    BY <2>1, ListAssumption DEF ListInv, DistinctInv, Ids
<1>5. ASSUME NEW t \in Thread, Commit(t) PROVE ListInv' /\ DistinctInv'
  BY <1>5, ListIsLeftAlone DEF Commit, store, ui
<1>6. CASE TimerFires
  BY <1>6, ListIsLeftAlone DEF TimerFires, store
<1>7. CASE Snapshot
  BY <1>7, ListIsLeftAlone DEF Snapshot, store
<1>8. CASE Show
  BY <1>8, ListIsLeftAlone DEF Show, store
<1>9. CASE UNCHANGED vars
  BY <1>9, ListIsLeftAlone DEF vars, store, ui
<1> QED
  BY <1>1, <1>2, <1>3, <1>4, <1>5, <1>6, <1>7, <1>8, <1>9
     DEF Next, Timer, Call, Continue

Promises == LockInv /\ JobInv /\ IdRange /\ IdUnique /\ ListInv /\ DistinctInv

LEMMA PromisesInit == Init => Promises
BY LockInit, JobInit, IdRangeInit, IdUniqueInit, ListInit DEF Promises

LEMMA PromisesStep == Promises /\ [Next]_vars => Promises'
BY LockStep, JobStep, IdRangeStep, IdUniqueStep, ListStep DEF Promises

\* Whoever posts, replaces and dismisses what concurrently, no two entries
\* of the list have one id until the counter has gone round: an id taken
\* before the mutex is nobody else's when its notification is inserted.
THEOREM IdsAreDistinct == Spec => []IdsDistinct
<1>1. Promises => IdsDistinct
  BY DEF Promises, DistinctInv, IdsDistinct
<1> QED
  BY PromisesInit, PromisesStep, <1>1, PTL DEF Spec

\* The list never grows beyond its limit, and list, copy and display hold
\* notifications under ids that were issued.
THEOREM StoreTypeCorrect == Spec => []TypeOK
<1>1. Promises /\ FreshInv => TypeOK
  BY DEF Promises, FreshInv, LockInv, JobInv, IdRange, ListInv, TypeOK
<1> QED
  BY PromisesInit, PromisesStep, FreshInit, FreshStep, <1>1, PTL
     DEF Spec, Promises

-----------------------------------------------------------------------------
(* The notification center.                                                *)

\* What the display is in the eyes of the notification center.
LEMMA CenterInit == Init => Center!Init
BY StoreAssumption
   DEF Init, Center!Init, Id, Thread

LEMMA CenterStep ==
    Promises /\ [Next]_vars => [posts <= IdMax => Center!Next]_(Center!vars)
<1> SUFFICES ASSUME Promises, [Next]_vars, posts <= IdMax
             PROVE  [Center!Next]_(Center!vars)
  OBVIOUS
<1> USE StoreAssumption DEF Promises, LockInv, Thread, At, store, ui
<1>1. ASSUME NEW t \in Thread, NEW r \in 0..IdMax, NEW m \in Message,
             BeginPost(t, r, m)
      PROVE  UNCHANGED Center!vars
  BY <1>1 DEF BeginPost, Center!vars
<1>2. ASSUME NEW t \in Thread, FinishPost(t)
      PROVE  Center!Next
  <2>1. /\ job[t].msg \in Message /\ job[t].id \in Id \ issued
    BY <1>2 DEF FinishPost, JobInv, Job, IdUnique, IdRange
  <2>2. UNCHANGED IF pc["ui"] = "showing" THEN copy ELSE shown
    BY <1>2 DEF FinishPost
  <2>3. CASE Replaces(job[t])
    <3>1. Center!Replace(job[t].replaces, job[t].msg)
      BY <1>2, <2>2, <2>3
         DEF FinishPost, Center!Replace, Replaced, Center!Replaced, Position,
             Center!Position
    <3>2. job[t].replaces \in Center!Ids(items)
      BY <2>3 DEF Replaces, Ids, Center!Ids
    <3> QED BY <2>1, <3>1, <3>2 DEF Center!Next
  <2>4. CASE ~Replaces(job[t])
    <3>1. Center!Post(job[t].msg)
      BY <1>2, <2>1, <2>2, <2>4
         DEF FinishPost, InsertedId, Center!Post, Inserted, Center!Inserted,
             Truncated, Center!Truncated, Min, Center!Min
    <3> QED BY <2>1, <3>1 DEF Center!Next
  <2> QED BY <2>3, <2>4
<1>3. ASSUME NEW t \in Thread, NEW id \in Id, Dismiss(t, id)
      PROVE  Center!Next
  <2>1. Without(items, id) = Center!Without(items, id)
    BY DEF Without, Center!Without, Picked, Center!Picked, Ordered,
           Center!Ordered, Cardinality, Center!Cardinality
  <2>2. Center!Dismiss(id)
    BY <1>3, <2>1 DEF Dismiss, Center!Dismiss
  <2> QED BY <1>3, <2>2 DEF Center!Next
<1>4. ASSUME NEW t \in Thread, Clear(t) PROVE Center!Next
  BY <1>4 DEF Clear, Center!Clear, Center!Next
<1>5. ASSUME NEW t \in Thread, Commit(t) PROVE UNCHANGED Center!vars
  BY <1>5 DEF Commit, Center!vars
<1>6. CASE TimerFires
  BY <1>6 DEF TimerFires, Center!vars
<1>7. CASE Snapshot
  BY <1>7 DEF Snapshot, Center!Refresh, Center!Next
<1>8. CASE Show
  BY <1>8 DEF Show, Center!vars
<1>9. CASE UNCHANGED vars
  BY <1>9 DEF vars, Center!vars
<1> QED
  BY <1>1, <1>2, <1>3, <1>4, <1>5, <1>6, <1>7, <1>8, <1>9
     DEF Next, Timer, Call, Continue

\* Until the id counter has gone round, each call takes effect at one
\* instant under a fresh id, and the display only ever moves on to a list
\* that stood after the one it shows.
THEOREM ImplementsCenter == Spec => CenterSpec
<1>1. Init => Center!Init
  BY CenterInit
<1>2. Promises /\ [Next]_vars
        => [posts <= IdMax => Center!Next]_(Center!vars)
  BY CenterStep
<1> QED
  BY PromisesInit, PromisesStep, <1>1, <1>2, PTL DEF Spec, CenterSpec
=============================================================================
