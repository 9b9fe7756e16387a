------------------------ MODULE RestartLimiterProofs ------------------------
(***************************************************************************)
(* The abstract limiter keeps its promise, for every Limit and Span.       *)
(***************************************************************************)
EXTENDS RestartLimiter, FiniteSetTheorems, TLAPS

\* Restarts are finitely many and lie in the past.
LimiterTypeOK ==
    /\ now \in Nat
    /\ restarts \in [Role -> SUBSET Nat]
    /\ \A r \in Role : IsFiniteSet(restarts[r])
    /\ \A r \in Role : \A t \in restarts[r] : t <= now

\* Restarts lie in the past and form finite sets, whatever the schedule: the
\* ground on which they can be counted.
THEOREM LimiterTypeCorrect == Spec => []LimiterTypeOK
<1>1. Init => LimiterTypeOK
  BY FS_EmptySet DEF Init, LimiterTypeOK
<1>2. LimiterTypeOK /\ [Next]_vars => LimiterTypeOK'
  <2> SUFFICES ASSUME LimiterTypeOK, [Next]_vars PROVE LimiterTypeOK'
    OBVIOUS
  <2>1. CASE Advance
    BY <2>1 DEF Advance, LimiterTypeOK
  <2>2. ASSUME NEW r \in Role, Restart(r) PROVE LimiterTypeOK'
    <3>1. IsFiniteSet(restarts[r] \cup {now})
      BY FS_AddElement DEF LimiterTypeOK
    <3>2. now \in Nat /\ now' = now
          /\ restarts' = [restarts EXCEPT ![r] = @ \cup {now}]
      BY <2>2 DEF Restart, LimiterTypeOK
    <3> QED BY <3>1, <3>2 DEF LimiterTypeOK
  <2>3. CASE UNCHANGED vars
    BY <2>3 DEF vars, LimiterTypeOK
  <2> QED BY <2>1, <2>2, <2>3 DEF Next
<1> QED BY <1>1, <1>2, PTL DEF Spec

\* No Span that ends with a restart of a role holds more than Limit restarts
\* of that role.
THEOREM LimiterBounded ==
    ASSUME LimiterConstants PROVE Spec => []Bounded
<1> USE DEF LimiterConstants
<1>1. Init => Bounded
  BY DEF Init, Bounded
<1>2. LimiterTypeOK /\ Bounded /\ [Next]_vars => Bounded'
  <2> SUFFICES ASSUME LimiterTypeOK, Bounded, [Next]_vars,
                      NEW q \in Role, NEW t \in restarts'[q]
               PROVE  Cardinality(Within(q, t)') <= Limit
    BY DEF Bounded, Within
  <2>1. CASE UNCHANGED restarts
    BY <2>1 DEF Bounded, Within
  <2>2. ASSUME NEW r \in Role, Restart(r)
        PROVE  Cardinality(Within(q, t)') <= Limit
    <3>1. now \in Nat /\ restarts' = [restarts EXCEPT ![r] = @ \cup {now}]
      BY <2>2 DEF Restart, LimiterTypeOK
    <3>2. CASE q # r \/ t # now
      <4>1. t \in restarts[q] /\ t \in Nat /\ t <= now
        BY <3>1, <3>2 DEF LimiterTypeOK
      <4>2. Within(q, t)' = Within(q, t)
        BY <3>1, <3>2, <4>1 DEF Within, LimiterTypeOK
      <4> QED BY <4>1, <4>2 DEF Bounded
    <3>3. CASE q = r /\ t = now
      <4>1. Within(q, t)' = Recent(r) \cup {now}
        BY <3>1, <3>3 DEF Within, Recent, LimiterTypeOK
      <4>2. IsFiniteSet(Recent(r))
        BY FS_Subset DEF Recent, LimiterTypeOK
      <4>3. Cardinality(Recent(r)) \in Nat /\ Cardinality(Recent(r)) < Limit
        BY <2>2, <4>2, FS_CardinalityType DEF Restart, Granted
      <4>4. \/ Cardinality(Recent(r) \cup {now}) = Cardinality(Recent(r))
            \/ Cardinality(Recent(r) \cup {now}) = Cardinality(Recent(r)) + 1
        BY <4>2, FS_AddElement
      <4> QED BY <4>1, <4>3, <4>4
    <3> QED BY <3>2, <3>3
  <2> QED BY <2>1, <2>2 DEF Next, Advance, vars
<1> QED BY <1>1, <1>2, LimiterTypeCorrect, PTL DEF Spec
=============================================================================
