----------------------------- MODULE SerialLink -----------------------------
(***************************************************************************)
(* gcds and gcdsd on a serial line: no connection, no end-of-file, and one  *)
(* session after the other on the same two streams of lines.  rc_open sends *)
(* QUIT and HELLO and drops what comes until a greeting (remote.c); the     *)
(* daemon drops everything but HELLO between sessions (serve_serial) and    *)
(* reads nothing while a command runs.                                      *)
(*                                                                          *)
(* The user starts gcds again and again, for RUN or for RUNA with polling,  *)
(* and may interrupt it at any time.  No directory is mapped: gcds sends no *)
(* CWD.                                                                     *)
(***************************************************************************)
EXTENDS Integers, Sequences, SequencesExt

CONSTANTS
    MaxInvoke,   \* bound: invocations of gcds
    MaxTmo       \* bound: timeouts while a command runs

ASSUME SerialAssumption == {MaxInvoke, MaxTmo} \subseteq Nat

VARIABLES
    live,   \* the daemon watches the line during RUN (POSIX with LIVE)
    toD,    \* lines to the daemon
    toC,    \* lines to the client
    dst,    \* the daemon: "idle", "auth", "sess", "run" or "job"
    run,    \* the invocation whose command runs
    jobs,   \* next_jobid's counter
    res,    \* the stored result [id, p], id 0 for none
    cst,    \* where gcds is
    p,      \* the current invocation
    op,     \* "RUN" or "RUNA"
    id,     \* the job it polls for, -1 before it has one
    want,   \* the string want still is "OK result <id>" (asyncjob.c 53)
    got,    \* the invocation whose exit code gcds returned
    skew,   \* an earlier greeting was outstanding at an attempt of this invocation
    tmo     \* bounded: timeouts while a command ran

daemonVars == <<live, dst, run, jobs, res>>
clientVars == <<cst, p, op, id, want, got, skew, tmo>>
vars == <<daemonVars, clientVars, toD, toC>>

\* A line and its number: an invocation for RUN, RUNA and X, a job otherwise.
\* cur: it belongs to the current attempt, not to one that was given up.
Line(t, v) == [t |-> t, v |-> v, cur |-> TRUE]

Old(q) == [i \in 1..Len(q) |-> [q[i] EXCEPT !.cur = FALSE]]

Busy == dst \in {"run", "job"}
Ended == {"none", "done", "failed", "idle", "status", "killed"}
Waiting == {"greet", "auth", "submit", "stat"}
Places == Ended \cup Waiting \cup {"stream", "fetch", "sleep"}

Commands == {"QUIT", "HELLO", "AUTH", "RUN", "RUNA", "STAT", "RESULT"}
Replies == {"GCDS", "OK", "OK id", "OK result", "OK idle", "ERR", "O", "X"}

TypeOK ==
    /\ {live, want, skew} \subseteq BOOLEAN
    /\ toD \in Seq([t : Commands, v : -1 .. MaxInvoke, cur : BOOLEAN])
    /\ toC \in Seq([t : Replies, v : 0..MaxInvoke, cur : BOOLEAN])
    /\ dst \in {"idle", "auth", "sess", "run", "job"} /\ cst \in Places
    /\ {run, p, got, jobs, res.id, res.p} \subseteq 0..MaxInvoke
    /\ op \in {"RUN", "RUNA"} /\ id \in -1 .. MaxInvoke /\ tmo \in 0..MaxTmo
    /\ Busy => run > 0 /\ (res.id = 0)

Init ==
    /\ live \in BOOLEAN /\ toD = <<>> /\ toC = <<>>
    /\ dst = "idle" /\ run = 0 /\ jobs = 0 /\ res = [id |-> 0, p |-> 0]
    /\ cst = "none" /\ p = 0 /\ op = "RUN" /\ id = -1 /\ want = TRUE
    /\ got = 0 /\ skew = FALSE /\ tmo = 0

-----------------------------------------------------------------------------
(* gcdsd.                                                                   *)

Reply(ls) == toC' = toC \o ls

Answer(t, v) == Reply(<<[Head(toD) EXCEPT !.t = t, !.v = v]>>)

\* serve_serial between sessions.
Attention ==
    /\ dst = "idle" /\ toD # <<>> /\ toD' = Tail(toD)
    /\ IF Head(toD).t = "HELLO" THEN Answer("GCDS", 0) /\ dst' = "auth"
       ELSE UNCHANGED <<toC, dst>>
    /\ UNCHANGED <<live, run, jobs, res>>

handle_auth ==
    /\ dst = "auth" /\ toD # <<>> /\ toD' = Tail(toD)
    /\ \/ Head(toD).t = "QUIT" /\ Answer("OK", 0) /\ dst' = "idle"
       \/ Head(toD).t = "AUTH" /\ Answer("OK", 0) /\ dst' = "sess"
       \/ Head(toD).t \notin {"QUIT", "AUTH"} /\ Answer("ERR", 0) /\ dst' = "idle"
    /\ UNCHANGED <<live, run, jobs, res>>

\* Slip: the old result survives the next command.
KeptResult == res

NoResult == [id |-> 0, p |-> 0]

\* session_run: one command of an open session.
Command(l) ==
    CASE l.t = "QUIT" -> Answer("OK", 0) /\ dst' = "idle" /\ UNCHANGED <<run, jobs, res>>
      [] l.t = "STAT" ->
           /\ IF res.id # 0 THEN Answer("OK result", res.id) ELSE Answer("OK idle", 0)
           /\ UNCHANGED <<dst, run, jobs, res>>
      [] l.t = "RESULT" ->
           /\ IF res.id # 0 /\ res.id = l.v THEN Reply(<<[l EXCEPT !.t = "O"], [l EXCEPT !.t = "X", !.v = res.p]>>)
              ELSE Answer("ERR", 0)
           /\ UNCHANGED <<dst, run, jobs, res>>
      [] l.t = "RUN" ->
           dst' = "run" /\ run' = l.v /\ res' = NoResult /\ UNCHANGED <<toC, jobs>>
      [] l.t = "RUNA" ->
           /\ dst' = "job" /\ run' = l.v /\ res' = NoResult /\ jobs' = jobs + 1
           /\ Answer("OK id", jobs + 1)
      [] OTHER -> Answer("ERR", 0) /\ UNCHANGED <<dst, run, jobs, res>>

Session ==
    /\ dst = "sess" /\ toD # <<>> /\ toD' = Tail(toD)
    /\ Command(Head(toD)) /\ UNCHANGED live

\* RUN ends, with output and exit code or (exec failed) without, and the session
\* goes on.
RunExit ==
    /\ dst = "run" /\ dst' = "sess"
    /\ LET l == [Line("O", run) EXCEPT !.cur = (run = p)]
       IN Reply(<<l, [l EXCEPT !.t = "X"]>>) \/ Reply(<<[l EXCEPT !.t = "ERR"]>>)
    /\ UNCHANGED <<live, run, jobs, res, toD>>

\* live_exec takes a readable session for a lost one, kills the command and
\* leaves the line unread.
RunLost ==
    /\ live /\ dst = "run" /\ toD # <<>>
    /\ dst' = "idle" /\ UNCHANGED <<live, run, jobs, res, toD, toC>>

\* run_pending: the job ends, with a result or (exec failed) without.
JobExit ==
    /\ dst = "job" /\ dst' = "idle"
    /\ res' \in {NoResult, [id |-> jobs, p |-> run]}
    /\ UNCHANGED <<live, run, jobs, toD, toC>>

Daemon ==
    /\ Attention \/ handle_auth \/ Session \/ RunExit \/ RunLost \/ JobExit
    /\ UNCHANGED clientVars

-----------------------------------------------------------------------------
(* gcds.                                                                    *)

\* Lines sent while the daemon reads nothing may overrun its receiver.
Send(q, ls) == \E s \in IF Busy THEN SubSeqs(ls) ELSE {ls} : toD' = q \o s

Greetings(q) == {i \in 1..Len(q) : q[i].t \in {"HELLO", "GCDS"}}

\* Slip: HELLO first.
rc_openSwapped(before) ==
    /\ \E q \in {toC, <<>>} :
          /\ toC' = Old(q)
          /\ skew' = (before \/ Greetings(q) # {} \/ Greetings(toD) # {})
    /\ Send(Old(toD), <<Line("HELLO", 0), Line("QUIT", 0)>>)
    /\ cst' = "greet"

\* QUIT, HELLO.  What has arrived since the port was last closed is there or
\* not, as the system keeps it.
rc_open(before) ==
    /\ \E q \in {toC, <<>>} :
          /\ toC' = Old(q)
          /\ skew' = (before \/ Greetings(q) # {} \/ Greetings(toD) # {})
    /\ Send(Old(toD), <<Line("QUIT", 0), Line("HELLO", 0)>>)
    /\ cst' = "greet"

Start ==
    /\ cst \in Ended /\ p < MaxInvoke
    /\ p' = p + 1 /\ op' \in {"RUN", "RUNA"} /\ id' = -1 /\ want' = TRUE /\ got' = 0
    /\ rc_open(FALSE) /\ UNCHANGED tmo

\* poll_result tries again.
Poll == cst = "sleep" /\ rc_open(skew) /\ UNCHANGED <<p, op, id, want, got, tmo>>

Goto(place) == cst' = place /\ UNCHANGED toD

\* Slip: the first line is taken for the greeting.
ReadGreetingAny(l) ==
    /\ Send(toD, <<Line("AUTH", 0)>>) /\ cst' = "auth"
    /\ UNCHANGED <<id, want, got>>

\* Lines are dropped up to a greeting.
ReadGreeting(l) ==
    /\ IF l.t = "GCDS" THEN Send(toD, <<Line("AUTH", 0)>>) /\ cst' = "auth"
       ELSE UNCHANGED <<toD, cst>>
    /\ UNCHANGED <<id, want, got>>

\* rc_auth, and the command that comes after it.
ReadAuth(l) ==
    /\ IF l.t # "OK" THEN Goto("failed")
       ELSE IF id # -1 THEN Send(toD, <<Line("STAT", 0)>>) /\ cst' = "stat"
       ELSE Send(toD, <<Line(op, p)>>) /\ cst' = (IF op = "RUN" THEN "stream" ELSE "submit")
    /\ UNCHANGED <<id, want, got>>

\* The number behind "OK "; atol of a word is 0.
ReadSubmit(l) ==
    /\ IF l.t \in {"OK id", "OK result", "OK idle"}
         THEN id' = (IF l.t = "OK id" THEN l.v ELSE 0) /\ Goto("sleep")
         ELSE Goto("failed") /\ UNCHANGED id
    /\ UNCHANGED <<want, got>>

ReadStat(l) ==
    /\ IF want /\ l.t = "OK result" /\ l.v = id
         THEN Send(toD, <<Line("RESULT", id)>>) /\ cst' = "fetch" /\ want' = FALSE
         ELSE Goto(IF l.t = "OK idle" THEN "idle" ELSE "status") /\ UNCHANGED want
    /\ UNCHANGED <<id, got>>

\* rc_stream.
ReadStream(l) ==
    /\ \/ l.t = "O" /\ UNCHANGED <<cst, toD, got>>
       \/ l.t = "X" /\ Goto("done") /\ got' = l.v
       \/ l.t \notin {"O", "X"} /\ Goto(IF cst = "fetch" THEN "sleep" ELSE "failed") /\ UNCHANGED got
    /\ UNCHANGED <<id, want>>

Read ==
    /\ toC # <<>> /\ toC' = Tail(toC)
    /\ \/ cst = "greet" /\ ReadGreeting(Head(toC))
       \/ cst = "auth" /\ ReadAuth(Head(toC))
       \/ cst = "submit" /\ ReadSubmit(Head(toC))
       \/ cst = "stat" /\ ReadStat(Head(toC))
       \/ cst \in {"stream", "fetch"} /\ ReadStream(Head(toC))
    /\ UNCHANGED <<p, op, skew, tmo>>

\* GREET_TMO is over: while a command keeps the daemon, or when nothing is
\* under way.  Polling goes on, except during AUTH.
Timeout ==
    /\ cst \in Waiting /\ toC = <<>>
    /\ IF Busy THEN tmo < MaxTmo /\ tmo' = tmo + 1 ELSE toD = <<>> /\ UNCHANGED tmo
    /\ Goto(IF cst = "stat" \/ (cst = "greet" /\ id # -1) THEN "sleep" ELSE "failed")
    /\ UNCHANGED <<p, op, id, want, got, skew, toC>>

Client == (Start \/ Poll \/ Read \/ Timeout) /\ UNCHANGED daemonVars

\* The user interrupts gcds.
Interrupt ==
    /\ cst \notin Ended /\ Goto("killed")
    /\ UNCHANGED <<p, op, id, want, got, skew, tmo, toC, daemonVars>>

\* The user has had enough.
Done == cst \in Ended /\ p = MaxInvoke /\ toD = <<>> /\ ~Busy /\ UNCHANGED vars

Next == Daemon \/ Client \/ Interrupt \/ Done

\* The daemon reads on, commands end, and gcds reads, polls and times out.
Fairness ==
    /\ WF_vars(Daemon)
    /\ WF_vars((Poll \/ Read \/ Timeout) /\ UNCHANGED daemonVars)

Spec == Init /\ [][Next]_vars /\ Fairness

-----------------------------------------------------------------------------
(* Properties.                                                              *)

\* The resync rule, as far as it goes: an invocation that finds no greeting of
\* an earlier attempt outstanding reads after its greeting only answers to its
\* own lines, whatever sessions, commands and lines interrupted invocations and
\* timeouts have left behind; it returns the exit code of its own command and
\* never takes the result of its job for something else (remote.c 124-172,
\* main.c 127-135, session.c 371).
InSync ==
    ~skew =>
        /\ cst \in {"auth", "submit", "stat", "stream", "fetch"} /\ toC # <<>> => Head(toC).cur
        /\ cst = "done" => got = p
        /\ cst # "status"

\* And it ends: gcds does not wait for ever, though rc_stream has no timeout
\* (remote.c 363).
Ends == cst \notin Ended ~> cst \in Ended \/ skew

\* What PLAN_01_PROTOCOL.md 1.1 says of polling on a serial line: trying HELLO
\* again is enough, so gcds does not give a job up for an unexpected status
\* while the daemon holds its result.
JobReported == cst = "status" => res.id # id
=============================================================================
