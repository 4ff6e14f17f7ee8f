------------------------------- MODULE Gcdsd -------------------------------
(***************************************************************************)
(* The daemon gcdsd in TCP mode (daemon/main.c, daemon/session.c): one      *)
(* process that serves one session at a time, runs an accepted job after    *)
(* the session that submitted it has been closed, keeps the last result in  *)
(* a single slot and, on a LIVE build, answers control sessions while a     *)
(* command runs (daemon/live.c).  The command itself is abstracted to its   *)
(* start and its exit; module LiveExec opens it up.                         *)
(***************************************************************************)
EXTENDS Gcdsp

CONSTANTS
    Live,        \* built with GCDS_HAS_LIVE and in TCP mode
    TmpRel,      \* the configured tmpdir is a relative path (the Win32/DOS default ".")
    TmpDir,      \* the directory an absolute tmpdir names
    StartDir,    \* the directory gcdsd is started in
    JobMax,      \* GCDSP_JOB_MAX, 32767 in include/gcdsp.h
    Denied,      \* clients the allow-list rejects
    MaxLives     \* bound: how often gcdsd is started

ASSUME GcdsdAssumption ==
    /\ Live \in BOOLEAN
    /\ TmpRel \in BOOLEAN
    /\ StartDir \in Dirs
    /\ TmpDir \notin Dirs
    /\ JobMax \in Nat \ {0}
    /\ MaxLives \in Nat \ {0}

VARIABLES
    phase,    \* where the process is, see Phases
    sc,       \* the connection session_run serves
    sauth,    \* session_run's authed
    cc,       \* the connection ctl_session serves
    cauth,    \* ctl_session's authed
    job,      \* g_job (dir: ghost, the directory its client asked for)
    res,      \* g_res
    jn,       \* the static counter of next_jobid
    cwd,      \* the working directory of the process
    files,    \* files[d]: the job whose output the capture file in d holds
    life,     \* ghost: which life of the daemon this is
    nsub      \* ghost: jobs accepted in this life

slotVars == <<job, res, jn, files, nsub>>
daemonVars == <<phase, sc, sauth, cc, cauth, job, res, jn, cwd, files, life, nsub>>

\* "accept": in net_accept.  "session": in lio_get_line of session_run.
\* "run": in live_exec/run_command for RUN.  "pending": session_run returned
\* after RUNA.  "job": in run_pending's live_exec/run_command.
Phases == {"accept", "session", "run", "pending", "job"}

Jobs == [pending : BOOLEAN, jobid : Nat, uid : Uids, dir : Dirs \cup {NoDir}]
Results == [valid : BOOLEAN, jobid : Nat, uid : Uids]

DaemonTypeOK ==
    /\ phase \in Phases
    /\ sc \in Conns \cup {NoConn}
    /\ sauth \in BOOLEAN
    /\ cc \in Conns \cup {NoConn}
    /\ cauth \in BOOLEAN
    /\ job \in Jobs
    /\ res \in Results
    /\ jn \in 0..JobMax
    /\ cwd \in Dirs
    /\ files \in [Dirs \cup {TmpDir} -> Uids]
    /\ life \in Nat
    /\ nsub \in Nat

NullJob == [pending |-> FALSE, jobid |-> 0, uid |-> NoJob, dir |-> NoDir]
NullRes == [valid |-> FALSE, jobid |-> 0, uid |-> NoJob]

DaemonInit ==
    /\ phase = "accept"
    /\ sc = NoConn /\ sauth = FALSE
    /\ cc = NoConn /\ cauth = FALSE
    /\ job = NullJob
    /\ res = NullRes
    /\ jn = 0
    /\ cwd = StartDir
    /\ files = [d \in Dirs \cup {TmpDir} |-> NoJob]
    /\ life = 1
    /\ nsub = 0

\* Slip: an absolute tmpdir is not kept absolute.
CapturePathInCwd == cwd

\* Where the capture files gcds_ro.tmp and gcds_re.tmp are: join_tmp keeps a
\* relative tmpdir relative, so the path follows the process's directory.
CapturePath == IF TmpRel THEN cwd ELSE TmpDir

-----------------------------------------------------------------------------
(* Connections, seen from the daemon.                                       *)

Reply(i, ms) == down' = [down EXCEPT ![i] = DownAfter(i, ms)]

\* Take the next command line of connection i.
Take(i) == up' = [up EXCEPT ![i] = Tail(@)]

\* Serve the head of the backlog: greet an allowed peer, close another one.
Greet(i) ==
    /\ send' = [send EXCEPT ![i] = "open"]
    /\ Reply(i, <<Rep("GCDS")>>)

Reject(i) ==
    /\ send' = [send EXCEPT ![i] = "none"]
    /\ UNCHANGED down

-----------------------------------------------------------------------------
(* serve_tcp and the commands of session_run.                               *)

\* net_accept, the allow-list, and session_run up to its greeting.
Accept ==
    /\ phase = "accept" /\ backlog # <<>>
    /\ backlog' = Tail(backlog)
    /\ LET i == Head(backlog) IN
       IF addr[i] \in Denied
         THEN Reject(i) /\ UNCHANGED <<phase, sc, sauth, job>>
         ELSE /\ Greet(i)
              /\ phase' = "session" /\ sc' = i /\ sauth' = FALSE
              /\ job' = [job EXCEPT !.pending = FALSE]
    /\ UNCHANGED <<addr, cend, cut, up, cc, cauth, res, jn, cwd, files, life, nsub>>

\* session_run returns and serve_tcp closes the connection; run_pending has
\* nothing to do.
CloseSession ==
    /\ phase' = "accept" /\ sc' = NoConn /\ sauth' = FALSE
    /\ send' = [send EXCEPT ![sc] = "none"]

Reading == phase = "session" /\ up[sc] # <<>>
Line == Head(up[sc])

\* Slip: the error of lio_get_line is not looked at.
SessionEofIgnored == FALSE

SessionEof ==
    /\ phase = "session" /\ ServerEof(sc)
    /\ CloseSession
    /\ UNCHANGED <<addr, cend, cut, up, down, backlog, cc, cauth, slotVars, cwd, life>>

\* handle_auth: anything but the right AUTH line ends the session.
Auth ==
    /\ Reading /\ ~sauth
    /\ Take(sc)
    /\ IF Line.t = "AUTH" /\ Line.tok
         THEN Reply(sc, <<Rep("OK")>>) /\ sauth' = TRUE /\ UNCHANGED <<phase, sc, send>>
         ELSE Reply(sc, <<Rep("ERR")>>) /\ CloseSession
    /\ UNCHANGED <<addr, cend, cut, backlog, cc, cauth, slotVars, cwd, life>>

\* A command of an authenticated session that changes nothing but the reply.
Answer(t, ms) ==
    /\ Reading /\ sauth /\ Line.t = t
    /\ Take(sc) /\ Reply(sc, ms)
    /\ UNCHANGED <<addr, cend, send, cut, backlog, phase, sc, sauth, cc, cauth,
                   slotVars, cwd, life>>

Ping == Answer("PING", <<Rep("OK")>>)

StatReply == IF res.valid THEN RepId("RESULT", res.jobid) ELSE Rep("IDLE")
Stat == Answer("STAT", <<StatReply>>)

\* The capture is read from the path the file names have now; an absent file
\* is no output.  The exit code is the one kept in the slot.
ResultReply(n) ==
    IF res.valid /\ res.jobid = n
      THEN <<RepUid("OUT", n, files[CapturePath]), RepUid("X", n, res.uid)>>
      ELSE <<Rep("ERR")>>
Result == Answer("RESULT", ResultReply(Line.id))

\* chdir() of the whole process.
Cwd ==
    /\ Reading /\ sauth /\ Line.t = "CWD"
    /\ Take(sc) /\ Reply(sc, <<Rep("OK")>>)
    /\ cwd' = Line.dir
    /\ UNCHANGED <<addr, cend, send, cut, backlog, phase, sc, sauth, cc, cauth,
                   slotVars, life>>

\* chdir() fails, for a directory that is not there.
CwdFails == Answer("CWD", <<Rep("ERR")>>)

\* RUN: the stored result is dropped before the command is started.
Run ==
    /\ Reading /\ sauth /\ Line.t = "RUN"
    /\ Take(sc)
    /\ res' = [res EXCEPT !.valid = FALSE]
    /\ phase' = "run"
    /\ UNCHANGED <<addr, cend, send, cut, down, backlog, sc, sauth, cc, cauth,
                   job, jn, cwd, files, life, nsub>>

\* The command exits (X frame) or could not be started (ERR 500); either way
\* the session goes on.  On a LIVE build the supervisor must not be inside a
\* control session to notice.
RunExit ==
    /\ phase = "run" /\ cc = NoConn
    /\ phase' = "session"
    /\ \/ Reply(sc, <<RepUid("X", 0, NoJob)>>)
       \/ Reply(sc, <<Rep("ERR")>>)
    /\ UNCHANGED <<addr, cend, send, cut, up, backlog, sc, sauth, cc, cauth,
                   slotVars, cwd, life>>

\* live_exec finds the session readable during RUN: the client is gone, the
\* command is killed and the session ends.
RunLost ==
    /\ phase = "run" /\ Live /\ cc = NoConn
    /\ ServerEof(sc)
    /\ CloseSession
    /\ UNCHANGED <<addr, cend, cut, up, down, backlog, cc, cauth, slotVars, cwd, life>>

\* Slips: the counter wraps one job too early, or never.
NextJobidEarlyWrap == IF jn + 1 >= JobMax THEN 1 ELSE jn + 1
NextJobidNoWrap == jn + 1

NextJobid == IF jn + 1 > JobMax THEN 1 ELSE jn + 1

\* RUNA: drop the stored result, take a number, answer, return.  Whether the
\* answer could be written is not looked at.
Runa ==
    /\ Reading /\ sauth /\ Line.t = "RUNA"
    /\ LET u == <<life, nsub + 1>> IN
       /\ job' = [pending |-> TRUE, jobid |-> NextJobid, uid |-> u, dir |-> Line.dir]
       /\ Reply(sc, <<RepUid("JOB", NextJobid, u)>>)
    /\ res' = [res EXCEPT !.valid = FALSE]
    /\ jn' = NextJobid
    /\ nsub' = nsub + 1
    /\ phase' = "pending" /\ sc' = NoConn /\ sauth' = FALSE
    /\ Take(sc)
    /\ send' = [send EXCEPT ![sc] = "none"]
    /\ UNCHANGED <<addr, cend, cut, backlog, cc, cauth, cwd, files, life>>

-----------------------------------------------------------------------------
(* run_pending.                                                             *)

\* The capture files are opened with O_TRUNC and the command is started.
JobStart ==
    /\ phase = "pending" /\ job.pending
    /\ job' = [job EXCEPT !.pending = FALSE]
    /\ files' = [files EXCEPT ![CapturePath] = NoJob]
    /\ phase' = "job"
    /\ UNCHANGED <<netVars, sc, sauth, cc, cauth, res, jn, cwd, life, nsub>>

JobExit ==
    /\ phase = "job" /\ cc = NoConn
    /\ files' = [files EXCEPT ![CapturePath] = job.uid]
    /\ res' = [valid |-> TRUE, jobid |-> job.jobid, uid |-> job.uid]
    /\ phase' = "accept"
    /\ UNCHANGED <<netVars, sc, sauth, cc, cauth, job, jn, cwd, life, nsub>>

\* live_exec or run_command returned -1: before the capture files were opened
\* (script too long) or after (open, fork, an unusable exit status).
JobFail ==
    /\ phase \in {"pending", "job"} /\ cc = NoConn
    /\ job' = [job EXCEPT !.pending = FALSE]
    /\ res' = [res EXCEPT !.valid = FALSE]
    /\ phase' = "accept"
    /\ UNCHANGED <<netVars, sc, sauth, cc, cauth, jn, cwd, files, life, nsub>>

-----------------------------------------------------------------------------
(* Control sessions: live_exec accepts on the listen socket while a command *)
(* runs, and serves ctl_session to its end before it looks at anything else.*)

CtlAccept ==
    /\ Live /\ phase \in {"run", "job"} /\ cc = NoConn /\ backlog # <<>>
    /\ backlog' = Tail(backlog)
    /\ LET i == Head(backlog) IN
       IF addr[i] \in Denied
         THEN Reject(i) /\ UNCHANGED <<cc, cauth>>
         ELSE Greet(i) /\ cc' = i /\ cauth' = FALSE
    /\ UNCHANGED <<addr, cend, cut, up, phase, sc, sauth, slotVars, cwd, life>>

CloseCtl ==
    /\ cc' = NoConn /\ cauth' = FALSE
    /\ send' = [send EXCEPT ![cc] = "none"]

\* Slip: the error of lio_get_line is not looked at.
CtlEofIgnored == FALSE

CtlEof ==
    /\ cc # NoConn /\ ServerEof(cc)
    /\ CloseCtl
    /\ UNCHANGED <<addr, cend, cut, up, down, backlog, phase, sc, sauth, slotVars,
                   cwd, life>>

CtlAuth ==
    /\ cc # NoConn /\ up[cc] # <<>> /\ ~cauth
    /\ Take(cc)
    /\ LET m == Head(up[cc]) IN
       IF m.t = "AUTH" /\ m.tok
         THEN Reply(cc, <<Rep("OK")>>) /\ cauth' = TRUE /\ UNCHANGED <<cc, send>>
         ELSE Reply(cc, <<Rep("ERR")>>) /\ CloseCtl
    /\ UNCHANGED <<addr, cend, cut, backlog, phase, sc, sauth, slotVars, cwd, life>>

BusyId == IF phase = "job" THEN job.jobid ELSE 0

\* Slip: a control session answers STAT from the (empty) result slot.
CtlReplyIdle(t) ==
    CASE t = "PING" -> Rep("OK")
      [] t = "STAT" -> Rep("IDLE")
      [] OTHER -> Rep("ERR")

\* PING and STAT are answered, every other command is refused with ERR 409.
CtlReply(t) ==
    CASE t = "PING" -> Rep("OK")
      [] t = "STAT" -> RepId("BUSY", BusyId)
      [] OTHER -> Rep("ERR")

\* Slip: a control session accepts CWD like a full session.
CtlCommandChdir ==
    /\ cc # NoConn /\ up[cc] # <<>> /\ cauth
    /\ Take(cc)
    /\ LET m == Head(up[cc]) IN
       IF m.t = "CWD" THEN cwd' = m.dir /\ Reply(cc, <<Rep("OK")>>)
                      ELSE UNCHANGED cwd /\ Reply(cc, <<CtlReply(m.t)>>)
    /\ UNCHANGED <<addr, cend, send, cut, backlog, phase, sc, sauth, cc, cauth,
                   slotVars, life>>

CtlCommand ==
    /\ cc # NoConn /\ up[cc] # <<>> /\ cauth
    /\ Take(cc)
    /\ Reply(cc, <<CtlReply(Head(up[cc]).t)>>)
    /\ UNCHANGED <<addr, cend, send, cut, backlog, phase, sc, sauth, cc, cauth,
                   slotVars, cwd, life>>

-----------------------------------------------------------------------------
\* The daemon stops and is started again.  SIGTERM and SIGINT run on_term,
\* which unlinks the capture files; a crash of the host leaves them.  Nothing
\* else survives.  Each client receives at most n more lines (a reply that was
\* being written may be cut after its first line).
Restart ==
    /\ life < MaxLives
    /\ life' = life + 1
    /\ \E clean \in BOOLEAN :
          files' = IF clean THEN [files EXCEPT ![CapturePath] = NoJob] ELSE files
    /\ \E n \in 0..2 :
          down' = [i \in Conns |-> IF Len(down[i]) > n THEN SubSeq(down[i], 1, n)
                                                       ELSE down[i]]
    /\ phase' = "accept"
    /\ sc' = NoConn /\ sauth' = FALSE /\ cc' = NoConn /\ cauth' = FALSE
    /\ job' = NullJob /\ res' = NullRes
    /\ jn' = 0 /\ nsub' = 0
    /\ cwd' = StartDir
    /\ send' = [i \in Conns |-> "none"]
    /\ up' = [i \in Conns |-> <<>>]
    /\ backlog' = <<>>
    /\ UNCHANGED <<addr, cend, cut>>

SessionStep ==
    \/ Accept \/ SessionEof \/ Auth \/ Ping \/ Stat \/ Result \/ Cwd \/ CwdFails
    \/ Run \/ RunLost \/ Runa \/ JobStart

ControlStep == CtlAccept \/ CtlEof \/ CtlAuth \/ CtlCommand

CommandEnds == RunExit \/ JobExit \/ JobFail
=============================================================================
