----------------------------- MODULE AsyncJobs -----------------------------
(***************************************************************************)
(* Remote execution over TCP: any number of gcds clients against one gcdsd. *)
(* Composes GcdsClient and Gcdsd over the connections of Gcdsp, together    *)
(* with a network that loses connections and a daemon that is restarted.    *)
(***************************************************************************)
EXTENDS Gcdsd, GcdsClient

CONSTANT MaxDrops      \* bound: connections the network loses

ASSUME DropsAssumption == MaxDrops \in Nat

VARIABLE drops

vars == <<netVars, daemonVars, clientVars, drops>>

Init == NetInit /\ DaemonInit /\ ClientInit /\ drops = 0

Daemon ==
    /\ SessionStep \/ ControlStep \/ CommandEnds \/ Restart
    /\ UNCHANGED <<clientVars, drops>>

Client ==
    /\ \E c \in Clients : Invoke(c) \/ OpenFails(c) \/ Proceed(c) \/ ReplyTimeout(c)
    /\ UNCHANGED <<daemonVars, drops>>

Drop ==
    /\ drops < MaxDrops
    /\ drops' = drops + 1
    /\ \E i \in Conns : NetDrop(i)
    /\ UNCHANGED <<daemonVars, clientVars>>

\* No invocation is left and the daemon waits in accept(): the only state in
\* which nothing happens any more.
Quiescent ==
    /\ \A c \in Clients : pc[c] \in {"idle", "done"}
    /\ started = MaxInvoke
    /\ phase = "accept" /\ backlog = <<>>
    /\ UNCHANGED vars

Next == Daemon \/ Client \/ Drop \/ Quiescent

Spec == Init /\ [][Next]_vars

-----------------------------------------------------------------------------
(* Safety.                                                                  *)

TypeOK ==
    /\ NetTypeOK /\ DaemonTypeOK /\ ClientTypeOK
    /\ drops \in 0..MaxDrops

\* Job numbers are reused: after a restart, and after JobMax further jobs.
\* Until then the number jobid[c] still means c's own job.
Reused(c) == own[c][1] # life \/ nsub >= own[c][2] + JobMax

\* A gcds that was told its job's number and then ends with an exit code ends
\* with the exit code of the job it submitted, whatever other clients did to
\* the single result slot meanwhile (asyncjob.c poll_result, session.c RESULT),
\* as long as the daemon was not restarted and has not wrapped its job numbers.
OwnExitCode ==
    \A c \in Clients :
        polling[c] /\ exit[c].why = "ok" => exit[c].code = own[c] \/ Reused(c)

\* ... and what it wrote to stdout and stderr is that job's output: the slot
\* and the capture files are replaced together (session.c send_file, main.c
\* run_pending).  Stated for a tmpdir that does not depend on CWD.
OwnOutput ==
    \A c \in Clients :
        polling[c] /\ exit[c].why = "ok" /\ ~TmpRel => got[c] = own[c] \/ Reused(c)

\* The daemon has, or is about to produce, the result of job u.
Obtainable(u) ==
    \/ res.valid /\ res.uid = u
    \/ phase \in {"pending", "job"} /\ job.uid = u

\* poll_result gives up for "OK idle" or for a foreign "OK result" only when its
\* result can never be had again: it was dropped by a later RUN or RUNA, the
\* command could not be started, or the daemon was restarted.  (A second try
\* after a broken fetch is excluded: see FetchIsRetried.)
GivesUpOnlyWhenLost ==
    \A c \in Clients :
        /\ polling[c] /\ exit[c].why \in {"idle", "status"} /\ want[c] = "OK_result"
        => ~Obtainable(own[c])

\* A job runs in the directory its submitter named with CWD: the process-wide
\* directory is not changed between RUNA and the end of the job, also not by a
\* control session (session.c CWD, ctl_session).
RunsWhereAsked ==
    phase \in {"pending", "job"} /\ job.dir # NoDir => cwd = job.dir

-----------------------------------------------------------------------------
(* Statements of the documentation that the code does not keep.             *)

\* PLAN_01_PROTOCOL.md on RESULT: a fetch that breaks is recovered by trying
\* again.  So no gcds reports an unexpected status while the daemon holds
\* exactly the result it asks for.
FetchIsRetried ==
    \A c \in Clients :
        polling[c] /\ exit[c].why = "status" => ~(res.valid /\ res.uid = own[c])

\* PLAN_01_PROTOCOL.md on RESULT and STAT: a number from before a restart is
\* unknown, so no gcds ends with the exit code of another client's job.
NoForeignExitCode ==
    \A c \in Clients : polling[c] /\ exit[c].why = "ok" => exit[c].code = own[c]

\* PLAN_01_PROTOCOL.md on RESULT: the result is kept until the next RUN or RUNA
\* is accepted; doc/win32.md: the default tmpdir "." is the directory gcdsd runs
\* in.  So a gcds that gets its own exit code also gets that job's output.
OutputKeptUntilNextRun ==
    \A c \in Clients :
        polling[c] /\ exit[c].why = "ok" /\ exit[c].code = own[c] => got[c] = own[c]

-----------------------------------------------------------------------------
(* Liveness.  Each program takes its next step when it has one; a command   *)
(* terminates; live_exec looks at the child once per turn of its loop, also *)
(* after each control session, so its end is noticed however often clients  *)
(* poll (strong fairness).                                                  *)

Fairness ==
    /\ WF_vars(SessionStep /\ UNCHANGED <<clientVars, drops>>)
    /\ WF_vars(ControlStep /\ UNCHANGED <<clientVars, drops>>)
    /\ SF_vars(CommandEnds /\ UNCHANGED <<clientVars, drops>>)
    /\ \A c \in Clients : WF_vars(Proceed(c) /\ UNCHANGED <<daemonVars, drops>>)

FairSpec == Spec /\ Fairness

\* Every gcds that has been started ends, however often other clients poll or
\* hold the daemon and whichever connections are lost.
EveryRunEnds == \A c \in Clients : pc[c] \notin {"idle", "done"} ~> pc[c] = "done"

\* An accepted job is run, and the daemon returns to accept().
ReturnsToAccept == phase # "accept" ~> phase = "accept"
=============================================================================
