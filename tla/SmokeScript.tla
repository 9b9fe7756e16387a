----------------------------- MODULE SmokeScript -----------------------------
(***************************************************************************)
(* scripts/smoke-session-linux.sh, which starts the session process in the *)
(* background, waits for the three bus names one after the other and then  *)
(* asks it to end: with SIGINT first, and with SIGTERM if it still runs    *)
(* after a while.  What the supervisor does with a signal it gets is in    *)
(* SessionSupervisor; here it gets them when the script sends them.  A     *)
(* shell starts a background job with SIGINT ignored (IntIgnored).         *)
(***************************************************************************)
EXTENDS SessionSupervisor

CONSTANT Patience      \* the 20 times 0.1 s that shutdown_session waits

VARIABLES
    seen,              \* how many of the names the script has seen
    sent,              \* the last signal it has sent
    sentAt             \* when

script == <<seen, sent, sentAt>>
smokeVars == <<vars, script>>

WaitOrder == <<"admin", "agent", "shell">>

SmokeInit == Init /\ seen = 0 /\ sent = "none" /\ sentAt = 0

\* wait_for_name: NameHasOwner is asked until it says true.
NameSeen ==
    /\ seen < Len(WaitOrder) /\ owner[WaitOrder[seen + 1]] # "none"
    /\ seen' = seen + 1
    /\ UNCHANGED <<vars, sent, sentAt>>

\* shutdown_session, first part.
SendInt ==
    /\ seen = Len(WaitOrder) /\ sent = "none"
    /\ InterruptHeard \/ InterruptLost \/ InterruptKills
    /\ sent' = "SIGINT" /\ sentAt' = now
    /\ UNCHANGED seen

\* Second part: kill -0 still finds the process.
SendTerm ==
    /\ sent = "SIGINT" /\ now >= sentAt + Patience
    /\ TerminateKills
    /\ sent' = "SIGTERM" /\ sentAt' = now
    /\ UNCHANGED seen

SmokeNext ==
    \/ NameSeen \/ SendInt \/ SendTerm
    \/ (Supervisor \/ Tick \/ Children) /\ UNCHANGED script

SmokeSpec == SmokeInit /\ [][SmokeNext]_smokeVars

-----------------------------------------------------------------------------
(* docs/TESTING.md on this script: it "waits for [the three names], and    *)
(* then shuts the session down cleanly".  Once it has seen the names and   *)
(* the session process is gone, no child of the session is running.        *)
CleanShutdown ==
    seen = Len(WaitOrder) /\ Finished => \A r \in Role : proc[r] # "running"
=============================================================================
