----------------------------- MODULE Supervise -----------------------------
(***************************************************************************)
(* What gcdsd's sessions rely on while a command runs (daemon/live.h): the  *)
(* command ends by itself, or the session is lost because its client went   *)
(* away; meanwhile control sessions are served one at a time, each to its   *)
(* end.  Gcdsd is written against this behaviour (RunExit, RunLost,         *)
(* JobExit, CtlAccept, CtlEof); LiveExec implements it.                     *)
(***************************************************************************)
EXTENDS Naturals

VARIABLES
    st,      \* "running", "exit" (an exit code was returned) or "lost" (-2)
    client,  \* the client of the session is still there
    ctl      \* the control connection: "none", "queued", "served", "closed"

svars == <<st, client, ctl>>

SInit == st = "running" /\ client = TRUE /\ ctl = "none"

ClientGone == client /\ client' = FALSE /\ UNCHANGED <<st, ctl>>

CtlConnects == ctl = "none" /\ ctl' = "queued" /\ UNCHANGED <<st, client>>
CtlServed == st = "running" /\ ctl = "queued" /\ ctl' = "served" /\ UNCHANGED <<st, client>>
CtlLeaves == ctl = "served" /\ ctl' = "closed" /\ UNCHANGED <<st, client>>
CtlEnds == st = "running" /\ ctl = "closed" /\ ctl' = "none" /\ UNCHANGED <<st, client>>

\* Never from within a control session.
Ends ==
    /\ st = "running" /\ ctl \in {"none", "queued"}
    /\ st' = "exit" \/ (st' = "lost" /\ ~client)
    /\ UNCHANGED <<client, ctl>>

SNext == ClientGone \/ CtlConnects \/ CtlServed \/ CtlLeaves \/ CtlEnds \/ Ends

SSpec == SInit /\ [][SNext]_svars
=============================================================================
