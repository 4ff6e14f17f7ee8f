----------------------------- MODULE GcdsClient -----------------------------
(***************************************************************************)
(* The client gcds over TCP (client/main.c, remote.c, asyncjob.c): one      *)
(* process per invocation that opens a connection, authenticates, maps its  *)
(* directory with CWD, and runs a command with RUN, or submits it with RUNA *)
(* and then polls, a new connection per poll, until it has the result.      *)
(***************************************************************************)
EXTENDS Gcdsp

CONSTANTS
    Invocations,  \* what a user may start: [op, dir, tok]
    MaxInvoke,    \* bound: invocations in one behaviour
    MaxTmo        \* bound: replies that do not arrive in GREET_TMO seconds

Ops == {"PING", "STAT", "RUN", "RUNA"}

CmdLines == [op : Ops, dir : Dirs \cup {NoDir}, tok : BOOLEAN]

ASSUME InvocationsAssumption == Invocations \subseteq CmdLines
ASSUME ClientBounds == MaxInvoke \in Nat /\ MaxTmo \in Nat

VARIABLES
    pc,      \* what the process waits for, see PCs
    polling, \* in poll_result (asyncjob.c)
    inv,     \* the command line
    sk,      \* the open connection
    jobid,   \* main's jobid
    own,     \* ghost: the job that jobid was given to
    want,    \* the text in poll_result's buffer want
    got,     \* what was written to stdout and stderr
    exit,    \* why the process ended, and the remote exit code
    started, \* bounded: invocations so far
    tmo      \* bounded: timeouts so far

clientVars == <<pc, polling, inv, sk, jobid, own, want, got, exit, started, tmo>>

\* "open": about to connect.  "greet", "auth", "cwd", "cmd" and "stat": in
\* lio_get_line for that reply, with the alarm armed.  "stream": in rc_stream,
\* no alarm.  "done": the process has exited.
PCs == {"idle", "open", "greet", "auth", "cwd", "cmd", "stat", "stream", "done"}
Armed == {"greet", "auth", "cwd", "cmd", "stat"}

NullInv == [op |-> "PING", dir |-> NoDir, tok |-> TRUE]
Exits == [why : {"none", "ok", "fail", "auth", "idle", "status"}, code : Uids]
NoExit == [why |-> "none", code |-> NoJob]

ClientTypeOK ==
    /\ pc \in [Clients -> PCs]
    /\ polling \in [Clients -> BOOLEAN]
    /\ inv \in [Clients -> CmdLines]
    /\ sk \in [Clients -> Conns \cup {NoConn}]
    /\ jobid \in [Clients -> Nat]
    /\ own \in [Clients -> Uids]
    /\ want \in [Clients -> {"OK_result", "RESULT"}]
    /\ got \in [Clients -> Uids]
    /\ exit \in [Clients -> Exits]
    /\ started \in 0..MaxInvoke
    /\ tmo \in 0..MaxTmo

ClientInit ==
    /\ pc = [c \in Clients |-> "idle"]
    /\ polling = [c \in Clients |-> FALSE]
    /\ inv = [c \in Clients |-> NullInv]
    /\ sk = [c \in Clients |-> NoConn]
    /\ jobid = [c \in Clients |-> 0]
    /\ own = [c \in Clients |-> NoJob]
    /\ want = [c \in Clients |-> "OK_result"]
    /\ got = [c \in Clients |-> NoJob]
    /\ exit = [c \in Clients |-> NoExit]
    /\ started = 0
    /\ tmo = 0

-----------------------------------------------------------------------------
(* Steps of the process, and what they do to its connection.                *)

Waits(c, l, t) == pc[c] = l /\ down[sk[c]] # <<>> /\ Head(down[sk[c]]).t = t
Got(c) == Head(down[sk[c]])

\* Consume one line and send the next command.
ReadSend(c, m) ==
    /\ down' = [down EXCEPT ![sk[c]] = Tail(@)]
    /\ up' = [up EXCEPT ![sk[c]] = UpAfter(sk[c], m)]
    /\ UNCHANGED <<addr, cend, send, cut, backlog, sk>>

\* Consume one line and keep reading.
ReadOn(c) ==
    /\ down' = [down EXCEPT ![sk[c]] = Tail(@)]
    /\ UNCHANGED <<addr, cend, send, cut, up, backlog, sk>>

\* rc_close: what the daemon still sends is lost, what the client has sent
\* the daemon can still read.
Hangup(c) ==
    /\ cend' = [cend EXCEPT ![sk[c]] = FALSE]
    /\ down' = [down EXCEPT ![sk[c]] = <<>>]
    /\ sk' = [sk EXCEPT ![c] = NoConn]
    /\ UNCHANGED <<addr, send, cut, up, backlog>>

Goto(c, l) == pc' = [pc EXCEPT ![c] = l]

\* The process exits.
Leave(c, why, code) ==
    /\ Goto(c, "done")
    /\ exit' = [exit EXCEPT ![c] = [why |-> why, code |-> code]]

\* main's rc_open, rc_cmd or rc_stream failed: EX_FAIL.  In poll_result the
\* same failure means "continue".
FailOrRetry(c, why) ==
    IF polling[c] THEN Goto(c, "open") /\ UNCHANGED exit
                  ELSE Leave(c, why, NoJob)

-----------------------------------------------------------------------------
Invoke(c) ==
    /\ pc[c] \in {"idle", "done"} /\ started < MaxInvoke
    /\ started' = started + 1
    /\ \E v \in Invocations : inv' = [inv EXCEPT ![c] = v]
    /\ Goto(c, "open")
    /\ polling' = [polling EXCEPT ![c] = FALSE]
    /\ jobid' = [jobid EXCEPT ![c] = 0]
    /\ own' = [own EXCEPT ![c] = NoJob]
    /\ want' = [want EXCEPT ![c] = "OK_result"]
    /\ got' = [got EXCEPT ![c] = NoJob]
    /\ exit' = [exit EXCEPT ![c] = NoExit]
    /\ UNCHANGED <<netVars, sk, tmo>>

\* rc_open: connect, then wait for the greeting.
Open(c) ==
    /\ pc[c] = "open"
    /\ \E i \in Conns :
          /\ \A j \in 1..(i - 1) : ~Free(j)
          /\ NetConnect(c, i)
          /\ sk' = [sk EXCEPT ![c] = i]
    /\ Goto(c, "greet")
    /\ UNCHANGED <<polling, inv, jobid, own, want, got, exit, started, tmo>>

\* connect() is refused or times out.  A poll just tries again.
OpenFails(c) ==
    /\ pc[c] = "open" /\ ~polling[c]
    /\ Leave(c, "fail", NoJob)
    /\ UNCHANGED <<netVars, polling, inv, sk, jobid, own, want, got, started, tmo>>

\* rc_open returns, rc_auth sends the token.
Greeted(c) ==
    /\ Waits(c, "greet", "GCDS")
    /\ ReadSend(c, [Cmd("AUTH") EXCEPT !.tok = inv[c].tok])
    /\ Goto(c, "auth")
    /\ UNCHANGED <<polling, inv, jobid, own, want, got, exit, started, tmo>>

\* The command line main sends once the directory is set.
OpCmd(c) == [Cmd(inv[c].op) EXCEPT !.dir = inv[c].dir]
OpWait(c) == IF inv[c].op = "RUN" THEN "stream" ELSE "cmd"

\* rc_auth returns: poll_result asks for the status; main maps its directory
\* first when it runs a command and pm_cwd found a mapping.
Authed(c) ==
    /\ Waits(c, "auth", "OK")
    /\ IF polling[c] THEN ReadSend(c, Cmd("STAT")) /\ Goto(c, "stat")
       ELSE IF inv[c].op \in {"RUN", "RUNA"} /\ inv[c].dir # NoDir
              THEN /\ ReadSend(c, [Cmd("CWD") EXCEPT !.dir = inv[c].dir])
                   /\ Goto(c, "cwd")
              ELSE ReadSend(c, OpCmd(c)) /\ Goto(c, OpWait(c))
    /\ UNCHANGED <<polling, inv, jobid, own, want, got, exit, started, tmo>>

CwdDone(c) ==
    /\ Waits(c, "cwd", "OK")
    /\ ReadSend(c, OpCmd(c))
    /\ Goto(c, OpWait(c))
    /\ UNCHANGED <<polling, inv, jobid, own, want, got, exit, started, tmo>>

\* AUTH, CWD or the command is refused: EX_FAIL; an AUTH refusal also ends a poll.
Refused(c) ==
    /\ \E l \in {"auth", "cwd", "cmd"} : Waits(c, l, "ERR")
    /\ Hangup(c)
    /\ Leave(c, IF pc[c] = "auth" THEN "auth" ELSE "fail", NoJob)
    /\ UNCHANGED <<polling, inv, jobid, own, want, got, started, tmo>>

\* --ping and --stat print the reply.
Answered(c) ==
    /\ inv[c].op \in {"PING", "STAT"}
    /\ \E t \in {"OK", "RESULT", "BUSY", "IDLE"} : Waits(c, "cmd", t)
    /\ Hangup(c)
    /\ Leave(c, "ok", NoJob)
    /\ UNCHANGED <<polling, inv, jobid, own, want, got, started, tmo>>

\* "OK <jobid>": close, then poll_result.
Submitted(c) ==
    /\ Waits(c, "cmd", "JOB")
    /\ jobid' = [jobid EXCEPT ![c] = Got(c).id]
    /\ own' = [own EXCEPT ![c] = Got(c).uid]
    /\ Hangup(c)
    /\ polling' = [polling EXCEPT ![c] = TRUE]
    /\ Goto(c, "open")
    /\ UNCHANGED <<inv, want, got, exit, started, tmo>>

\* "OK result <jobid>" equal to want: ask for it.  The RESULT line is built in
\* the very buffer want, which is not restored.
StatMatches(c) ==
    /\ Waits(c, "stat", "RESULT")
    /\ want[c] = "OK_result" /\ Got(c).id = jobid[c]
    /\ ReadSend(c, [Cmd("RESULT") EXCEPT !.id = jobid[c]])
    /\ want' = [want EXCEPT ![c] = "RESULT"]
    /\ Goto(c, "stream")
    /\ UNCHANGED <<polling, inv, jobid, own, got, exit, started, tmo>>

StatBusy(c) ==
    /\ Waits(c, "stat", "BUSY")
    /\ Hangup(c)
    /\ Goto(c, "open")
    /\ UNCHANGED <<polling, inv, jobid, own, want, got, exit, started, tmo>>

\* "OK idle": the result is gone.
StatIdle(c) ==
    /\ Waits(c, "stat", "IDLE")
    /\ Hangup(c)
    /\ Leave(c, "idle", NoJob)
    /\ UNCHANGED <<polling, inv, jobid, own, want, got, started, tmo>>

\* Any other status line.
StatOther(c) ==
    /\ Waits(c, "stat", "RESULT")
    /\ want[c] # "OK_result" \/ Got(c).id # jobid[c]
    /\ Hangup(c)
    /\ Leave(c, "status", NoJob)
    /\ UNCHANGED <<polling, inv, jobid, own, want, got, started, tmo>>

\* rc_stream: O and E frames are copied out, X ends the run.
StreamOut(c) ==
    /\ Waits(c, "stream", "OUT")
    /\ got' = [got EXCEPT ![c] = Got(c).uid]
    /\ ReadOn(c)
    /\ UNCHANGED <<pc, polling, inv, jobid, own, want, exit, started, tmo>>

StreamExit(c) ==
    /\ Waits(c, "stream", "X")
    /\ Leave(c, "ok", Got(c).uid)
    /\ Hangup(c)
    /\ UNCHANGED <<polling, inv, jobid, own, want, got, started, tmo>>

\* rc_stream returns -1: an ERR line or a broken connection.
StreamBroken(c) ==
    /\ pc[c] = "stream"
    /\ ClientEof(sk[c]) \/ Waits(c, "stream", "ERR")
    /\ Hangup(c)
    /\ FailOrRetry(c, "fail")
    /\ UNCHANGED <<polling, inv, jobid, own, want, got, started, tmo>>

\* rc_open or rc_cmd gets no line.  rc_auth does not tell this from a refusal,
\* so it ends even a poll.
NoReply(c) ==
    /\ Hangup(c)
    /\ IF pc[c] = "auth" THEN Leave(c, "auth", NoJob) ELSE FailOrRetry(c, "fail")
    /\ UNCHANGED <<polling, inv, jobid, own, want, got, started>>

\* ... because the connection is gone,
ReplyEof(c) ==
    /\ pc[c] \in Armed /\ ClientEof(sk[c])
    /\ NoReply(c)
    /\ UNCHANGED tmo

\* ... or because the alarm went off first.
ReplyTimeout(c) ==
    /\ pc[c] \in Armed /\ down[sk[c]] = <<>> /\ tmo < MaxTmo
    /\ NoReply(c)
    /\ tmo' = tmo + 1

\* The steps a running client takes by itself.
Proceed(c) ==
    \/ Open(c) \/ Greeted(c) \/ Authed(c) \/ CwdDone(c) \/ Refused(c) \/ Answered(c)
    \/ Submitted(c) \/ StatMatches(c) \/ StatBusy(c) \/ StatIdle(c) \/ StatOther(c)
    \/ StreamOut(c) \/ StreamExit(c) \/ StreamBroken(c) \/ ReplyEof(c)
=============================================================================
