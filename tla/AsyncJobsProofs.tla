-------------------------- MODULE AsyncJobsProofs --------------------------
(***************************************************************************)
(* What a gcds reports of its job is true for any number of clients,        *)
(* connections, directories, restarts, lost connections and timeouts.       *)
(*                                                                          *)
(* The inductive invariant has three parts, shown one after the other: the  *)
(* types; the connections (who holds which, whom the daemon serves, and     *)
(* that each connection is half duplex); and the jobs.  For the second part *)
(* the actions are first sorted into a few shapes (Stay, End, Begin, Open   *)
(* for the client, DaemonNet for the daemon), so that each conjunct is      *)
(* shown once per shape and not once per action.                            *)
(***************************************************************************)
EXTENDS AsyncJobsInv, TLAPS, SequenceTheorems

-----------------------------------------------------------------------------
(* Type correctness: every action keeps TypeOK.                             *)

\* The ghost of "no job" is an identity.
LEMMA NoJobTyped == NoJob \in Uids
BY DEF NoJob, Uids

\* The command and reply lines the programs build are lines of the protocol.
LEMMA LinesTyped ==
    /\ \A t \in {"AUTH", "PING", "STAT", "RUN", "RUNA", "RESULT"} : Cmd(t) \in Cmds
    /\ \A t \in {"GCDS", "OK", "ERR", "IDLE"} : Rep(t) \in Replies
    /\ \A t \in {"RESULT", "BUSY"}, n \in Nat : RepId(t, n) \in Replies
    /\ \A t \in {"JOB", "OUT", "X"}, n \in Nat, u \in Uids : RepUid(t, n, u) \in Replies
BY NoJobTyped DEF Cmds, CmdFields, Replies, Cmd, Rep, RepId, RepUid

\* The initial records are well typed.
LEMMA ConstantsTyped ==
    NullJob \in Jobs /\ NullRes \in Results /\ NullInv \in CmdLines /\ NoExit \in Exits
BY NoJobTyped DEF NullJob, NullRes, NullInv, NoExit, Jobs, Results, CmdLines, Exits, Ops

\* The initial state is well typed.
LEMMA InitTypeOK == Init => TypeOK
<1> SUFFICES ASSUME Init PROVE TypeOK
  OBVIOUS
<1>1. NetTypeOK
  BY DEF Init, NetInit, NetTypeOK
<1>b. sauth \in BOOLEAN /\ cauth \in BOOLEAN
  BY Zenon DEF Init, DaemonInit
<1>2. DaemonTypeOK
  BY <1>b, NoJobTyped, ConstantsTyped, GcdsdAssumption DEF Init, DaemonInit, DaemonTypeOK, NoConn, Phases
<1>3. ClientTypeOK
  BY NoJobTyped, ConstantsTyped, ClientBounds DEF Init, ClientInit, ClientTypeOK, NoConn, PCs
<1> QED
  BY <1>1, <1>2, <1>3, DropsAssumption DEF Init, TypeOK

\* Writing lines to a connection keeps its queue a sequence of lines.
LEMMA DownTyped ==
    ASSUME NetTypeOK, NEW i, NEW ms \in Seq(Replies)
    PROVE  [down EXCEPT ![i] = DownAfter(i, ms)] \in [Conns -> Seq(Replies)]
<1>1. CASE i \in Conns
  <2>1. down[i] \in Seq(Replies)
    BY <1>1 DEF NetTypeOK
  <2>2. down[i] \o ms \in Seq(Replies)
    BY <2>1, ConcatProperties
  <2> QED
    BY <1>1, <2>1, <2>2 DEF DownAfter, NetTypeOK
<1>2. CASE i \notin Conns
  BY <1>2 DEF NetTypeOK
<1> QED
  BY <1>1, <1>2

\* Sending one command keeps the direction to the daemon typed.
LEMMA UpTyped ==
    ASSUME NetTypeOK, NEW i, NEW m \in Cmds
    PROVE  [up EXCEPT ![i] = UpAfter(i, m)] \in [Conns -> Seq(Cmds)]
<1>1. CASE i \in Conns
  BY <1>1 DEF UpAfter, NetTypeOK
<1>2. CASE i \notin Conns
  BY <1>2 DEF NetTypeOK
<1> QED
  BY <1>1, <1>2

\* Consuming one line keeps a direction typed.
LEMMA TailTyped ==
    ASSUME NEW S, NEW f \in [Conns -> Seq(S)], NEW i, f[i] # <<>>
    PROVE  [f EXCEPT ![i] = Tail(@)] \in [Conns -> Seq(S)]
<1>1. CASE i \in Conns
  BY <1>1
<1>2. CASE i \notin Conns
  BY <1>2
<1> QED
  BY <1>1, <1>2

\* The first line of a direction is a line.
LEMMA HeadTyped ==
    ASSUME NEW S, NEW f \in [Conns -> Seq(S)], NEW i \in Conns, f[i] # <<>>
    PROVE  Head(f[i]) \in S
OBVIOUS

\* One line is a sequence of lines.
LEMMA OneTyped ==
    ASSUME NEW m \in Replies PROVE <<m>> \in Seq(Replies)
OBVIOUS

\* A session that reads a command has a connection, and the line is a command.
LEMMA ReadingTyped ==
    ASSUME TypeOK, ServeInv, Reading
    PROVE  sc \in Conns /\ sc # NoConn /\ up[sc] # <<>> /\ Line \in Cmds
BY HeadTyped DEF TypeOK, NetTypeOK, DaemonTypeOK, ServeInv, Reading, Line, NoConn, Conns

\* Two numbers make a job identity.
LEMMA UidTyped == ASSUME NEW m \in Nat, NEW n \in Nat PROVE <<m, n>> \in Uids
BY DEF Uids

\* join_tmp names a directory that has capture files.
LEMMA PathTyped == ASSUME TypeOK PROVE CapturePath \in Dirs \cup {TmpDir}
BY DEF TypeOK, DaemonTypeOK, CapturePath

\* next_jobid returns a number from 1 to JobMax.
LEMMA JobidTyped == ASSUME TypeOK PROVE NextJobid \in 1..JobMax
BY GcdsdAssumption DEF TypeOK, DaemonTypeOK, NextJobid

\* A reply keeps the direction to the client typed.
LEMMA ReplyTyped ==
    ASSUME NetTypeOK, NEW i, NEW m \in Replies, Reply(i, <<m>>)
    PROVE  down' \in [Conns -> Seq(Replies)]
BY OneTyped, DownTyped DEF Reply

\* The replies without a number are lines of the protocol.
LEMMA RepTyped == Rep("GCDS") \in Replies /\ Rep("OK") \in Replies /\ Rep("ERR") \in Replies
BY LinesTyped

\* The authed flags of a session and of a control session stay Boolean.
LEMMA AuthTyped ==
    ASSUME TypeOK, SessionStep \/ ControlStep \/ CommandEnds \/ Restart
    PROVE  sauth' \in BOOLEAN /\ cauth' \in BOOLEAN
<1> USE DEF TypeOK, DaemonTypeOK
<1>1. CASE Accept
  BY <1>1, Zenon DEF Accept
<1>2. CASE Auth \/ SessionEof \/ RunLost
  BY <1>2, Zenon DEF Auth, SessionEof, RunLost, CloseSession
<1>3. CASE Ping \/ Stat \/ Result \/ Cwd \/ CwdFails \/ Run
  BY <1>3, Zenon DEF Ping, Stat, Result, Answer, Cwd, CwdFails, Run
<1>4. CASE Runa \/ JobStart \/ CommandEnds
  BY <1>4, Zenon DEF Runa, JobStart, CommandEnds, RunExit, JobExit, JobFail
<1>5. CASE ControlStep
  BY <1>5, Zenon DEF ControlStep, CtlAccept, CtlEof, CtlAuth, CtlCommand, CloseCtl
<1>6. CASE Restart
  BY <1>6, Zenon DEF Restart
<1> QED
  BY <1>1, <1>2, <1>3, <1>4, <1>5, <1>6 DEF SessionStep

\* Every step of the daemon keeps TypeOK, one case per action.
LEMMA DaemonTypeStep ==
    ASSUME TypeOK, ServeInv, Daemon
    PROVE  TypeOK'
<1> USE DEF TypeOK, NetTypeOK, DaemonTypeOK
<1>0. ClientTypeOK' /\ drops' \in 0..MaxDrops
  BY DEF Daemon, ClientTypeOK, clientVars
<1>b. sauth' \in BOOLEAN /\ cauth' \in BOOLEAN
  BY AuthTyped, Zenon DEF Daemon
<1>a. ASSUME NEW m \in Replies, NEW i PROVE [down EXCEPT ![i] = DownAfter(i, <<m>>)] \in [Conns -> Seq(Replies)]
  BY OneTyped, DownTyped
<1>1. CASE Accept
  <2>1. Head(backlog) \in Conns /\ Tail(backlog) \in Seq(Conns)
    BY <1>1 DEF Accept
  <2>2. [job EXCEPT !.pending = FALSE] \in Jobs
    BY DEF Jobs
  <2>3. down' \in [Conns -> Seq(Replies)]
    BY <1>1, ReplyTyped, RepTyped DEF Accept, Greet, Reject
  <2> QED
    BY <1>0, <1>b, <1>1, <2>1, <2>2, <2>3 DEF Accept, Greet, Reject, Phases
<1>2. CASE SessionEof
  BY <1>0, <1>b, <1>2 DEF SessionEof, CloseSession, slotVars, Phases, NoConn
<1>3. CASE Auth
  <2>1. down' \in [Conns -> Seq(Replies)]
    BY <1>3, ReplyTyped, RepTyped DEF Auth
  <2>2. up' \in [Conns -> Seq(Cmds)]
    BY <1>3, TailTyped DEF Auth, Reading, Take
  <2> QED
    BY <1>0, <1>b, <1>3, <2>1, <2>2 DEF Auth, CloseSession, slotVars, Phases, NoConn
<1>4. ASSUME NEW t, NEW ms \in Seq(Replies), Answer(t, ms) PROVE TypeOK'
  BY <1>0, <1>b, <1>4, ReadingTyped, TailTyped, DownTyped DEF Answer, Reading, Take, Reply, slotVars
<1>5. CASE Ping
  BY <1>4, <1>5, LinesTyped, OneTyped DEF Ping
<1>5a. CASE CwdFails
  BY <1>4, <1>5a, LinesTyped, OneTyped DEF CwdFails
<1>6. CASE Stat
  <2>1. StatReply \in Replies
    BY LinesTyped DEF StatReply, Results
  <2> QED BY <1>4, <1>6, <2>1, OneTyped DEF Stat
<1>7. CASE Result
  <2>1. Line.id \in Nat
    BY <1>7, ReadingTyped DEF Result, Answer, Cmds, CmdFields
  <2>2. files[CapturePath] \in Uids
    BY PathTyped
  <2>2a. res.uid \in Uids
    BY DEF Results
  <2>3. RepUid("OUT", Line.id, files[CapturePath]) \in Replies /\ RepUid("X", Line.id, res.uid) \in Replies
    BY <2>1, <2>2, <2>2a, LinesTyped
  <2>4. Rep("ERR") \in Replies
    BY LinesTyped
  <2>5. ResultReply(Line.id) \in Seq(Replies)
    BY <2>3, <2>4 DEF ResultReply
  <2> QED BY <1>4, <1>7, <2>5 DEF Result
<1>8. CASE Cwd
  <2>1. Line.dir \in Dirs
    BY <1>8, ReadingTyped DEF Cwd, Cmds, CmdFields
  <2> QED
    BY <1>0, <1>b, <1>8, <1>a, <2>1, LinesTyped, ReadingTyped, TailTyped DEF Cwd, Reading, Take, Reply, slotVars
<1>9. CASE Run
  <2>1. [res EXCEPT !.valid = FALSE] \in Results
    BY DEF Results
  <2> QED
    BY <1>0, <1>b, <1>9, <2>1, ReadingTyped, TailTyped DEF Run, Reading, Take, Phases
<1>10. CASE RunExit
  <2>1. RepUid("X", 0, NoJob) \in Replies
    BY LinesTyped, NoJobTyped
  <2>2. down' \in [Conns -> Seq(Replies)]
    BY <1>10, <2>1, ReplyTyped, RepTyped DEF RunExit
  <2> QED
    BY <1>0, <1>b, <1>10, <2>2 DEF RunExit, Phases, slotVars
<1>11. CASE RunLost
  BY <1>0, <1>b, <1>11 DEF RunLost, CloseSession, slotVars, Phases, NoConn
<1>12. CASE Runa
  <2> DEFINE u == <<life, nsub + 1>>
  <2>1. u \in Uids /\ NextJobid \in Nat
    BY UidTyped, JobidTyped
  <2>2. [res EXCEPT !.valid = FALSE] \in Results
    BY DEF Results
  <2>3. Line.dir \in Dirs \cup {NoDir}
    BY <1>12, ReadingTyped DEF Runa, Cmds, CmdFields
  <2>4. [pending |-> TRUE, jobid |-> NextJobid, uid |-> u, dir |-> Line.dir] \in Jobs
    BY <2>1, <2>3 DEF Jobs
  <2>5. RepUid("JOB", NextJobid, u) \in Replies
    BY <2>1, LinesTyped
  <2> HIDE DEF u
  <2>6. NextJobid \in 0..JobMax
    BY JobidTyped
  <2>7. up' \in [Conns -> Seq(Cmds)] /\ down' \in [Conns -> Seq(Replies)]
    BY <1>12, <2>5, ReadingTyped, TailTyped, ReplyTyped DEF Runa, Reading, Take, u
  <2>8. job' \in Jobs
    BY <1>12, <2>4 DEF Runa, u
  <2>9. /\ res' = [res EXCEPT !.valid = FALSE] /\ jn' = NextJobid /\ nsub' = nsub + 1
        /\ phase' = "pending" /\ sc' = NoConn
        /\ send' = [send EXCEPT ![sc] = "none"]
        /\ UNCHANGED <<addr, cend, cut, backlog, cc, cwd, files, life>>
    BY <1>12, Zenon DEF Runa
  <2> QED
    <3>1. NetTypeOK'
      BY <2>7, <2>9
    <3>2. jn' \in 0..JobMax /\ nsub' \in Nat
      BY <2>6, <2>9
    <3>3. res' \in Results
      BY <2>2, <2>9
    <3>4. phase' \in Phases /\ sc' \in Conns \cup {NoConn}
      BY <2>9 DEF Phases
    <3>5. /\ cc' \in Conns \cup {NoConn} /\ cwd' \in Dirs 
          /\ files' \in [Dirs \cup {TmpDir} -> Uids] /\ life' \in Nat
      BY <2>9
    <3> QED
      BY <1>0, <1>b, <2>8, <3>1, <3>2, <3>3, <3>4, <3>5, Zenon
<1>13. CASE JobStart
  <2>1. [job EXCEPT !.pending = FALSE] \in Jobs
    BY DEF Jobs
  <2> QED
    BY <1>0, <1>b, <1>13, <2>1, NoJobTyped, PathTyped DEF JobStart, Phases, netVars
<1>14. CASE JobExit
  <2>1. job.uid \in Uids /\ [valid |-> TRUE, jobid |-> job.jobid, uid |-> job.uid] \in Results
    BY DEF Jobs, Results
  <2> QED
    BY <1>0, <1>b, <1>14, <2>1, PathTyped DEF JobExit, Phases, netVars
<1>15. CASE JobFail
  <2>1. [job EXCEPT !.pending = FALSE] \in Jobs /\ [res EXCEPT !.valid = FALSE] \in Results
    BY DEF Jobs, Results
  <2> QED
    BY <1>0, <1>b, <1>15, <2>1 DEF JobFail, Phases, netVars
<1>16. CASE CtlAccept
  <2>1. Head(backlog) \in Conns /\ Tail(backlog) \in Seq(Conns)
    BY <1>16 DEF CtlAccept
  <2>2. down' \in [Conns -> Seq(Replies)]
    BY <1>16, ReplyTyped, RepTyped DEF CtlAccept, Greet, Reject
  <2> QED
    BY <1>0, <1>b, <1>16, <2>1, <2>2 DEF CtlAccept, Greet, Reject, slotVars
<1>17. CASE CtlEof
  BY <1>0, <1>b, <1>17 DEF CtlEof, CloseCtl, slotVars, NoConn
<1>18. CASE CtlAuth
  <2>1. down' \in [Conns -> Seq(Replies)]
    BY <1>18, ReplyTyped, RepTyped DEF CtlAuth
  <2>2. up' \in [Conns -> Seq(Cmds)]
    BY <1>18, TailTyped DEF CtlAuth, Take
  <2> QED
    BY <1>0, <1>b, <1>18, <2>1, <2>2 DEF CtlAuth, CloseCtl, slotVars, NoConn
<1>19. CASE CtlCommand
  <2>1. job.jobid \in Nat
    BY DEF Jobs
  <2>2. \A t : CtlReply(t) \in Replies
    BY <2>1, LinesTyped DEF CtlReply, BusyId
  <2> QED
    BY <1>0, <1>b, <1>19, <1>a, <2>2, TailTyped DEF CtlCommand, Take, Reply, slotVars
<1>20. CASE Restart
  <2>1. files' \in [Dirs \cup {TmpDir} -> Uids]
    BY <1>20, NoJobTyped DEF Restart
  <2>2. down' \in [Conns -> Seq(Replies)]
    <3>1. PICK n \in 0..2 : down' = [i \in Conns |-> IF Len(down[i]) > n THEN SubSeq(down[i], 1, n) ELSE down[i]]
      BY <1>20 DEF Restart
    <3>2. \A i \in Conns : down[i] \in Seq(Replies)
      OBVIOUS
    <3>3. ASSUME NEW i \in Conns, Len(down[i]) > n PROVE SubSeq(down[i], 1, n) \in Seq(Replies)
      BY <3>2, <3>3
    <3> QED BY <3>1, <3>2, <3>3
  <2>3. up' \in [Conns -> Seq(Cmds)] /\ backlog' \in Seq(Conns)
    BY <1>20 DEF Restart
  <2> QED
    BY <1>0, <1>b, <1>20, <2>1, <2>2, <2>3, ConstantsTyped, GcdsdAssumption DEF Restart, Phases, NoConn
<1> QED
  BY <1>1, <1>2, <1>3, <1>5, <1>5a, <1>6, <1>7, <1>8, <1>9, <1>10, <1>11, <1>12, <1>13, <1>14, <1>15,
     <1>16, <1>17, <1>18, <1>19, <1>20 DEF Daemon, SessionStep, ControlStep, CommandEnds

\* A waiting process reads from its own connection.
LEMMA WaitsTyped ==
    ASSUME TypeOK, HoldInv, NEW c \in Clients, NEW l \in Waiting, NEW t, Waits(c, l, t)
    PROVE  sk[c] \in Conns /\ sk[c] # NoConn /\ down[sk[c]] # <<>> /\ Got(c) \in Replies
<1>1. sk[c] \in Conns /\ sk[c] # NoConn /\ down[sk[c]] # <<>>
  BY DEF TypeOK, ClientTypeOK, HoldInv, Waits
<1>2. down \in [Conns -> Seq(Replies)]
  BY DEF TypeOK, NetTypeOK
<1> QED
  BY <1>1, <1>2, HeadTyped DEF Got

\* Reading a line and sending a command keeps the channel typed.
LEMMA ReadSendTyped ==
    ASSUME NetTypeOK, NEW c, NEW m \in Cmds, down[sk[c]] # <<>>, ReadSend(c, m)
    PROVE  NetTypeOK' /\ sk' = sk
<1>1. up' \in [Conns -> Seq(Cmds)]
  BY UpTyped DEF ReadSend
<1>2. down' \in [Conns -> Seq(Replies)]
  BY TailTyped DEF ReadSend, NetTypeOK
<1> QED
  BY <1>1, <1>2 DEF ReadSend, NetTypeOK

\* Closing keeps the channel typed.
LEMMA HangupTyped ==
    ASSUME TypeOK, NEW c \in Clients, Hangup(c)
    PROVE  NetTypeOK' /\ sk' \in [Clients -> Conns \cup {NoConn}]
<1>1. cend' \in [Conns -> BOOLEAN]
  BY Zenon DEF Hangup, TypeOK, NetTypeOK
<1>2. down' \in [Conns -> Seq(Replies)]
  <2>1. <<>> \in Seq(Replies) /\ down \in [Conns -> Seq(Replies)]
    BY DEF TypeOK, NetTypeOK
  <2>2. down' = [down EXCEPT ![sk[c]] = <<>>]
    BY DEF Hangup
  <2> QED
    BY <2>1, <2>2, Zenon
<1>3. sk' \in [Clients -> Conns \cup {NoConn}]
  BY DEF Hangup, TypeOK, ClientTypeOK
<1> QED
  BY <1>1, <1>2, <1>3 DEF Hangup, TypeOK, NetTypeOK

\* Exiting keeps the process typed.
LEMMA LeaveTyped ==
    ASSUME ClientTypeOK, NEW c \in Clients, NEW code \in Uids,
           NEW why \in {"ok", "fail", "auth", "idle", "status"}, Leave(c, why, code)
    PROVE  pc' \in [Clients -> PCs] /\ exit' \in [Clients -> Exits]
<1>1. [why |-> why, code |-> code] \in Exits
  BY DEF Exits
<1> QED
  BY <1>1 DEF Leave, Goto, PCs, ClientTypeOK

\* Failing or polling again keeps the process typed.
LEMMA FailOrRetryTyped ==
    ASSUME ClientTypeOK, NEW c \in Clients, FailOrRetry(c, "fail")
    PROVE  pc' \in [Clients -> PCs] /\ exit' \in [Clients -> Exits]
<1>1. CASE polling[c]
  BY <1>1 DEF FailOrRetry, Goto, PCs, ClientTypeOK
<1>2. CASE ~polling[c]
  BY <1>2, LeaveTyped, NoJobTyped DEF FailOrRetry
<1> QED
  BY <1>1, <1>2

\* A missing reply keeps channel and process typed.
LEMMA NoReplyTyped ==
    ASSUME TypeOK, NEW c \in Clients, NoReply(c)
    PROVE  NetTypeOK' /\ sk' \in [Clients -> Conns \cup {NoConn}]
           /\ pc' \in [Clients -> PCs] /\ exit' \in [Clients -> Exits]
<1>1. NetTypeOK' /\ sk' \in [Clients -> Conns \cup {NoConn}]
  BY HangupTyped DEF NoReply
<1>2. pc' \in [Clients -> PCs] /\ exit' \in [Clients -> Exits]
  BY LeaveTyped, FailOrRetryTyped, NoJobTyped DEF NoReply, TypeOK
<1> QED
  BY <1>1, <1>2

\* The commands a client sends are command lines.
LEMMA SentTyped ==
    ASSUME TypeOK, NEW c \in Clients
    PROVE  /\ [Cmd("AUTH") EXCEPT !.tok = inv[c].tok] \in Cmds
           /\ Cmd("STAT") \in Cmds
           /\ inv[c].dir # NoDir => [Cmd("CWD") EXCEPT !.dir = inv[c].dir] \in Cmds
           /\ OpCmd(c) \in Cmds
           /\ OpWait(c) \in {"cmd", "stream"}
           /\ [Cmd("RESULT") EXCEPT !.id = jobid[c]] \in Cmds
<1>1. inv[c] \in CmdLines /\ jobid[c] \in Nat
  BY DEF TypeOK, ClientTypeOK
<1> QED
  BY <1>1 DEF Cmd, Cmds, CmdFields, OpCmd, OpWait, CmdLines, Ops

\* Every step of a client keeps TypeOK, one case per action.
LEMMA ClientTypeStep ==
    ASSUME TypeOK, HoldInv, Client
    PROVE  TypeOK'
<1> PICK c \in Clients : Invoke(c) \/ OpenFails(c) \/ Proceed(c) \/ ReplyTimeout(c)
  BY DEF Client
<1> USE DEF TypeOK
<1>0. DaemonTypeOK' /\ drops' \in 0..MaxDrops
  BY DEF Client, DaemonTypeOK, daemonVars
<1>p. \A l \in PCs : Goto(c, l) => pc' \in [Clients -> PCs]
  BY DEF ClientTypeOK, Goto
<1>1. CASE Invoke(c)
  <2>1. NetTypeOK'
    BY <1>1 DEF Invoke, netVars, NetTypeOK
  <2>2. inv' \in [Clients -> CmdLines] /\ exit' \in [Clients -> Exits] /\ pc' \in [Clients -> PCs]
    BY <1>1, <1>p, ConstantsTyped, InvocationsAssumption DEF Invoke, ClientTypeOK, PCs
  <2>3. own' \in [Clients -> Uids] /\ got' \in [Clients -> Uids] /\ jobid' \in [Clients -> Nat]
    BY <1>1, NoJobTyped DEF Invoke, ClientTypeOK
  <2>4. polling' \in [Clients -> BOOLEAN]
    BY <1>1, Zenon DEF Invoke, ClientTypeOK
  <2>5. want' \in [Clients -> {"OK_result", "RESULT"}]
    BY <1>1 DEF Invoke, ClientTypeOK
  <2>6. started' \in 0..MaxInvoke /\ tmo' \in 0..MaxTmo /\ sk' \in [Clients -> Conns \cup {NoConn}]
    BY <1>1, ClientBounds DEF Invoke, ClientTypeOK
  <2> QED
    BY <1>0, <2>1, <2>2, <2>3, <2>4, <2>5, <2>6 DEF ClientTypeOK
<1>2. CASE Open(c)
  <2>1. PICK i \in Conns : NetConnect(c, i) /\ sk' = [sk EXCEPT ![c] = i]
    BY <1>2 DEF Open
  <2>2. cend' \in [Conns -> BOOLEAN] /\ cut' \in [Conns -> BOOLEAN]
    BY <2>1, Zenon DEF NetConnect, NetTypeOK
  <2>3. up' \in [Conns -> Seq(Cmds)] /\ down' \in [Conns -> Seq(Replies)] /\ backlog' \in Seq(Conns)
    <3>1. <<>> \in Seq(Cmds) /\ <<>> \in Seq(Replies) 
      OBVIOUS
    <3>2. up' = [up EXCEPT ![i] = <<>>] /\ down' = [down EXCEPT ![i] = <<>>] 
      BY <2>1 DEF NetConnect
    <3>3. backlog' \in Seq(Conns)
      BY <2>1 DEF NetConnect, NetTypeOK
    <3> QED
      BY <3>1, <3>2, <3>3, Zenon DEF NetTypeOK
  <2>4. NetTypeOK'
    BY <2>1, <2>2, <2>3 DEF NetConnect, NetTypeOK
  <2>5. pc' \in [Clients -> PCs] /\ sk' \in [Clients -> Conns \cup {NoConn}]
    BY <1>2, <1>p, <2>1 DEF Open, PCs, ClientTypeOK
  <2> QED
    BY <1>0, <1>2, <2>4, <2>5 DEF Open, ClientTypeOK
<1>3. CASE OpenFails(c)
  <2>1. pc' \in [Clients -> PCs] /\ exit' \in [Clients -> Exits]
    BY <1>3, LeaveTyped, NoJobTyped DEF OpenFails
  <2> QED
    BY <1>0, <1>3, <2>1 DEF OpenFails, netVars, NetTypeOK, ClientTypeOK
<1>4. CASE Greeted(c)
  <2>1. NetTypeOK' /\ sk' = sk
    BY <1>4, WaitsTyped, ReadSendTyped, SentTyped DEF Greeted, Waiting
  <2> QED
    BY <1>0, <1>4, <1>p, <2>1 DEF Greeted, PCs, ClientTypeOK
<1>5. CASE Authed(c)
  <2>1. down[sk[c]] # <<>>
    BY <1>5, WaitsTyped DEF Authed, Waiting
  <2>2. NetTypeOK' /\ sk' = sk
    BY <1>5, <2>1, ReadSendTyped, SentTyped DEF Authed
  <2>3. pc' \in [Clients -> PCs]
    BY <1>5, <1>p, SentTyped DEF Authed, PCs
  <2> QED
    BY <1>0, <1>5, <2>2, <2>3 DEF Authed, ClientTypeOK
<1>6. CASE CwdDone(c)
  <2>1. NetTypeOK' /\ sk' = sk
    BY <1>6, WaitsTyped, ReadSendTyped, SentTyped DEF CwdDone, Waiting
  <2>2. pc' \in [Clients -> PCs]
    BY <1>6, <1>p, SentTyped DEF CwdDone, PCs
  <2> QED
    BY <1>0, <1>6, <2>1, <2>2 DEF CwdDone, ClientTypeOK
<1>7. CASE Refused(c) \/ Answered(c) \/ StatIdle(c) \/ StatOther(c)
  <2>1. NetTypeOK' /\ sk' \in [Clients -> Conns \cup {NoConn}]
    BY <1>7, HangupTyped DEF Refused, Answered, StatIdle, StatOther
  <2>2. pc' \in [Clients -> PCs] /\ exit' \in [Clients -> Exits]
    BY <1>7, LeaveTyped, NoJobTyped DEF Refused, Answered, StatIdle, StatOther
  <2> QED
    BY <1>0, <1>7, <2>1, <2>2 DEF Refused, Answered, StatIdle, StatOther, ClientTypeOK
<1>8. CASE Submitted(c)
  <2>1. NetTypeOK' /\ sk' \in [Clients -> Conns \cup {NoConn}]
    BY <1>8, HangupTyped DEF Submitted
  <2>2. Got(c).id \in Nat /\ Got(c).uid \in Uids
    BY <1>8, WaitsTyped DEF Submitted, Waiting, Replies
  <2>3. jobid' \in [Clients -> Nat] /\ own' \in [Clients -> Uids]
    BY <1>8, <2>2 DEF Submitted, ClientTypeOK
  <2>4. polling' \in [Clients -> BOOLEAN]
    BY <1>8, Zenon DEF Submitted, ClientTypeOK
  <2> QED
    BY <1>0, <1>8, <1>p, <2>1, <2>3, <2>4 DEF Submitted, PCs, ClientTypeOK
<1>9. CASE StatMatches(c)
  <2>1. NetTypeOK' /\ sk' = sk
    BY <1>9, WaitsTyped, ReadSendTyped, SentTyped DEF StatMatches, Waiting
  <2> QED
    BY <1>0, <1>9, <1>p, <2>1 DEF StatMatches, PCs, ClientTypeOK
<1>10. CASE StatBusy(c)
  <2>1. NetTypeOK' /\ sk' \in [Clients -> Conns \cup {NoConn}]
    BY <1>10, HangupTyped DEF StatBusy
  <2> QED
    BY <1>0, <1>10, <1>p, <2>1 DEF StatBusy, PCs, ClientTypeOK
<1>11. CASE StreamOut(c)
  <2>1. down[sk[c]] # <<>> /\ Got(c).uid \in Uids
    BY <1>11, WaitsTyped DEF StreamOut, Waiting, Replies
  <2>2. down' \in [Conns -> Seq(Replies)]
    BY <1>11, <2>1, TailTyped DEF StreamOut, ReadOn, NetTypeOK
  <2> QED
    BY <1>0, <1>11, <2>1, <2>2 DEF StreamOut, ReadOn, NetTypeOK, ClientTypeOK
<1>12. CASE StreamExit(c)
  <2>1. NetTypeOK' /\ sk' \in [Clients -> Conns \cup {NoConn}]
    BY <1>12, HangupTyped DEF StreamExit
  <2>2. Got(c).uid \in Uids
    BY <1>12, WaitsTyped DEF StreamExit, Waiting, Replies
  <2>3. pc' \in [Clients -> PCs] /\ exit' \in [Clients -> Exits]
    BY <1>12, <2>2, LeaveTyped DEF StreamExit
  <2> QED
    BY <1>0, <1>12, <2>1, <2>3 DEF StreamExit, ClientTypeOK
<1>13. CASE StreamBroken(c)
  <2>1. NetTypeOK' /\ sk' \in [Clients -> Conns \cup {NoConn}]
    BY <1>13, HangupTyped DEF StreamBroken
  <2>2. pc' \in [Clients -> PCs] /\ exit' \in [Clients -> Exits]
    BY <1>13, FailOrRetryTyped DEF StreamBroken
  <2> QED
    BY <1>0, <1>13, <2>1, <2>2 DEF StreamBroken, ClientTypeOK
<1>14. CASE ReplyEof(c)
  BY <1>0, <1>14, NoReplyTyped DEF ReplyEof, NoReply, ClientTypeOK
<1>15. CASE ReplyTimeout(c)
  BY <1>0, <1>15, NoReplyTyped, ClientBounds DEF ReplyTimeout, NoReply, ClientTypeOK
<1> QED
  BY <1>1, <1>2, <1>3, <1>4, <1>5, <1>6, <1>7, <1>8, <1>9, <1>10, <1>11, <1>12, <1>13, <1>14,
     <1>15 DEF Proceed

\* Losing a connection keeps TypeOK.
LEMMA DropTypeStep ==
    ASSUME TypeOK, Drop PROVE TypeOK'
<1> USE DEF TypeOK
<1>1. PICK i \in Conns : NetDrop(i)
  BY DEF Drop
<1>2. down' \in [Conns -> Seq(Replies)]
  <2>1. PICK n \in 0..Len(down[i]) : down' = [down EXCEPT ![i] = SubSeq(@, 1, n)]
    BY <1>1 DEF NetDrop
  <2>2. down[i] \in Seq(Replies)
    BY DEF NetTypeOK
  <2>3. SubSeq(down[i], 1, n) \in Seq(Replies)
    BY <2>2
  <2> QED
    BY <2>1, <2>3 DEF NetTypeOK
<1>3. cut' \in [Conns -> BOOLEAN]
  BY <1>1, Zenon DEF NetDrop, NetTypeOK
<1>4. up' \in [Conns -> Seq(Cmds)]
  <2>1. <<>> \in Seq(Cmds)
    OBVIOUS
  <2> QED
    BY <1>1, <2>1, Zenon DEF NetDrop, NetTypeOK
<1>5. NetTypeOK'
  BY <1>1, <1>2, <1>3, <1>4 DEF NetDrop, NetTypeOK
<1>6. DaemonTypeOK' /\ ClientTypeOK'
  BY DEF Drop, DaemonTypeOK, ClientTypeOK, daemonVars, clientVars
<1>7. drops' \in 0..MaxDrops
  BY DropsAssumption DEF Drop
<1> QED
  BY <1>5, <1>6, <1>7

-----------------------------------------------------------------------------
(* The shapes of the steps.                                                 *)

\* Everything client c's step leaves alone at the other clients.
Others(c) ==
    \A d \in Clients \ {c} :
        /\ pc'[d] = pc[d] /\ polling'[d] = polling[d] /\ inv'[d] = inv[d] /\ sk'[d] = sk[d]
        /\ jobid'[d] = jobid[d] /\ own'[d] = own[d] /\ want'[d] = want[d]
        /\ got'[d] = got[d] /\ exit'[d] = exit[d]

\* c reads a line of its connection and possibly sends one.
Stay(c) ==
    /\ pc[c] \in Waiting /\ pc'[c] \in Waiting \ {"greet"}
    /\ down[sk[c]] # <<>>
    /\ \/ StreamOut(c) /\ ReadOn(c) /\ pc[c] = "stream" /\ pc'[c] = "stream"
       \/ pc[c] # "stream" /\ \E m \in Cmds : ReadSend(c, m)
    /\ UNCHANGED <<exit, polling, inv, jobid, own>>

\* c closes its connection.
End(c) ==
    /\ pc[c] \in Waiting /\ pc'[c] \in {"open", "done"}
    /\ Hangup(c)
    /\ pc'[c] = "open" => exit' = exit

\* c does nothing to a connection.
Begin(c) ==
    /\ UNCHANGED <<netVars, sk>>
    /\ pc[c] \in {"idle", "open", "done"} /\ pc'[c] \in {"open", "done"}
    /\ pc'[c] = "open" => exit'[c].why = "none"

ClientStep(c) == Invoke(c) \/ OpenFails(c) \/ Proceed(c) \/ ReplyTimeout(c)

\* Every client step is one of four shapes: it reads on or sends on its connection,
\* closes it, opens one, or leaves the network alone.
LEMMA ClientShape ==
    ASSUME TypeOK, HoldInv, NEW c \in Clients, ClientStep(c)
    PROVE  Stay(c) \/ End(c) \/ Begin(c) \/ Open(c)
<1> USE DEF TypeOK, ClientTypeOK
<1>1. CASE Invoke(c) \/ OpenFails(c)
  BY <1>1 DEF Invoke, OpenFails, Begin, Goto, Leave, netVars, NoExit
<1>2. CASE Greeted(c)
  BY <1>2, SentTyped DEF Greeted, Stay, Waits, Goto, Waiting
<1>3. CASE Authed(c)
  <2>1. \E m \in Cmds : ReadSend(c, m)
    BY <1>3, SentTyped DEF Authed
  <2> QED
    BY <1>3, <2>1, SentTyped DEF Authed, Stay, Waits, Goto, Waiting
<1>4. CASE CwdDone(c)
  BY <1>4, SentTyped DEF CwdDone, Stay, Waits, Goto, Waiting
<1>5. CASE StatMatches(c)
  BY <1>5, SentTyped DEF StatMatches, Stay, Waits, Goto, Waiting
<1>6. CASE StreamOut(c)
  BY <1>6 DEF StreamOut, Stay, Waits, Waiting
<1>7. CASE Refused(c) \/ Answered(c) \/ StatIdle(c) \/ StatOther(c) \/ StreamExit(c)
  BY <1>7 DEF Refused, Answered, StatIdle, StatOther, StreamExit, End, Waits, Leave, Goto, Waiting
<1>8. CASE Submitted(c) \/ StatBusy(c)
  BY <1>8 DEF Submitted, StatBusy, End, Waits, Goto, Waiting
<1>9. CASE StreamBroken(c) \/ ReplyEof(c) \/ ReplyTimeout(c)
  BY <1>9 DEF StreamBroken, ReplyEof, ReplyTimeout, NoReply, FailOrRetry, End, Waits, Leave, Goto,
              Waiting, Armed
<1> QED
  BY <1>1, <1>2, <1>3, <1>4, <1>5, <1>6, <1>7, <1>8, <1>9 DEF ClientStep, Proceed

\* A client step changes nothing of another process.
LEMMA ClientOthers ==
    ASSUME TypeOK, NEW c \in Clients, ClientStep(c)
    PROVE  Others(c)
<1> USE DEF TypeOK, ClientTypeOK, Others
<1>1. CASE Invoke(c) \/ OpenFails(c)
  BY <1>1 DEF Invoke, OpenFails, Goto, Leave
<1>2. CASE Greeted(c) \/ Authed(c) \/ CwdDone(c) \/ StatMatches(c) \/ StreamOut(c)
  BY <1>2 DEF Greeted, Authed, CwdDone, StatMatches, StreamOut, ReadSend, ReadOn, Goto
<1>3. CASE Refused(c) \/ Answered(c) \/ StatIdle(c) \/ StatOther(c) \/ StreamExit(c)
  BY <1>3 DEF Refused, Answered, StatIdle, StatOther, StreamExit, Hangup, Leave, Goto
<1>4. CASE Submitted(c) \/ StatBusy(c)
  BY <1>4 DEF Submitted, StatBusy, Hangup, Goto
<1>5. CASE StreamBroken(c) \/ ReplyEof(c) \/ ReplyTimeout(c)
  BY <1>5 DEF StreamBroken, ReplyEof, ReplyTimeout, NoReply, FailOrRetry, Hangup, Leave, Goto
<1>6. CASE Open(c)
  BY <1>6 DEF Open, Goto
<1> QED
  BY <1>1, <1>2, <1>3, <1>4, <1>5, <1>6 DEF ClientStep, Proceed

\* What c waits for tells whether it polls, also after its own step.
LEMMA PollsStep ==
    ASSUME TypeOK, HoldInv, NEW c \in Clients, ClientStep(c)
    PROVE  (pc'[c] \in {"cwd", "cmd"} => ~polling'[c]) /\ (pc'[c] = "stat" => polling'[c])
<1> USE DEF TypeOK, ClientTypeOK
<1>1. CASE Invoke(c) \/ OpenFails(c) \/ Open(c)
  BY <1>1 DEF Invoke, OpenFails, Open, Goto, Leave
<1>2. CASE Greeted(c) \/ StatMatches(c) \/ StreamOut(c)
  BY <1>2 DEF Greeted, StatMatches, StreamOut, Goto, HoldInv, Waits
<1>3. CASE Authed(c)
  BY <1>3, SentTyped DEF Authed, Goto
<1>4. CASE CwdDone(c)
  BY <1>4, SentTyped DEF CwdDone, Goto, HoldInv, Waits
<1>5. CASE Refused(c) \/ Answered(c) \/ StatIdle(c) \/ StatOther(c) \/ StreamExit(c)
  BY <1>5 DEF Refused, Answered, StatIdle, StatOther, StreamExit, Leave, Goto
<1>6. CASE Submitted(c) \/ StatBusy(c)
  BY <1>6 DEF Submitted, StatBusy, Goto
<1>7. CASE StreamBroken(c) \/ ReplyEof(c) \/ ReplyTimeout(c)
  BY <1>7 DEF StreamBroken, ReplyEof, ReplyTimeout, NoReply, FailOrRetry, Leave, Goto
<1> QED
  BY <1>1, <1>2, <1>3, <1>4, <1>5, <1>6, <1>7 DEF ClientStep, Proceed

\* The daemon never touches a client's end of a connection.
LEMMA DaemonLeavesClients ==
    ASSUME Daemon PROVE UNCHANGED <<addr, cend, clientVars>>
<1>1. UNCHANGED clientVars
  BY DEF Daemon
<1>2. SessionStep => UNCHANGED <<addr, cend>>
  BY DEF SessionStep, Accept, SessionEof, Auth, Ping, Stat, Result, Answer, Cwd, CwdFails,
              Run, RunLost, Runa, JobStart, netVars
<1>3. ControlStep => UNCHANGED <<addr, cend>>
  BY DEF ControlStep, CtlAccept, CtlEof, CtlAuth, CtlCommand
<1>4. CommandEnds \/ Restart => UNCHANGED <<addr, cend>>
  BY DEF CommandEnds, RunExit, JobExit, JobFail, Restart, netVars
<1> QED
  BY <1>1, <1>2, <1>3, <1>4 DEF Daemon

\* Two clients never hold the same connection.
LEMMA OwnConnection ==
    ASSUME HoldInv, NEW c \in Clients, NEW d \in Clients, c # d, sk[c] # NoConn
    PROVE  sk[c] # sk[d]
BY DEF HoldInv

\* Every step keeps HoldInv: rc_open and rc_close pair up with what the process
\* waits for.
LEMMA HoldStep ==
    ASSUME TypeOK, HoldInv, Next PROVE HoldInv'
<1>1. CASE Daemon
  BY <1>1, DaemonLeavesClients DEF HoldInv, clientVars
<1>2. CASE Drop
  BY <1>2 DEF Drop, NetDrop, HoldInv, clientVars
<1>3. CASE Quiescent
  BY <1>3 DEF Quiescent, vars, netVars, clientVars, HoldInv
<1>4. CASE Client
  <2>1. PICK c \in Clients : ClientStep(c)
    BY <1>4 DEF Client, ClientStep
  <2>2. Others(c)
    BY <2>1, ClientOthers
  <2>3. (pc'[c] \in {"cwd", "cmd"} => ~polling'[c]) /\ (pc'[c] = "stat" => polling'[c])
    BY <2>1, PollsStep
  <2>4. CASE Stay(c)
    BY <2>2, <2>3, <2>4 DEF Stay, ReadOn, ReadSend, HoldInv, Others, Waiting
  <2>5. CASE End(c)
    <3>1. sk[c] \in Conns
      BY <2>5 DEF End, HoldInv, TypeOK, ClientTypeOK
    <3>2. sk'[c] = NoConn
      BY <2>5 DEF End, Hangup, TypeOK, ClientTypeOK
    <3>3. ASSUME NEW d \in Clients \ {c}, sk[d] # NoConn PROVE cend'[sk[d]]
      <4>1. sk[d] # sk[c] /\ sk[d] \in Conns /\ cend[sk[d]]
        BY <3>3, OwnConnection DEF HoldInv, TypeOK, ClientTypeOK
      <4> QED
        BY <2>5, <4>1 DEF End, Hangup, TypeOK, NetTypeOK
    <3>4. addr' = addr
      BY <2>5 DEF End, Hangup
    <3>5. pc'[c] \notin Waiting /\ (pc'[c] # "done" => exit'[c].why = "none")
      BY <2>5 DEF End, HoldInv, Waiting
    <3> QED
      BY <2>2, <2>3, <3>2, <3>3, <3>4, <3>5 DEF HoldInv, Others
  <2>6. CASE Begin(c)
    BY <2>2, <2>3, <2>6 DEF Begin, netVars, HoldInv, Others, Waiting
  <2>7. CASE Open(c)
    <3>1. PICK i \in Conns : NetConnect(c, i) /\ sk' = [sk EXCEPT ![c] = i]
      BY <2>7 DEF Open
    <3>2. i # NoConn /\ sk'[c] = i /\ pc'[c] = "greet" /\ exit'[c].why = "none"
      BY <2>7, <3>1 DEF Open, Goto, TypeOK, ClientTypeOK, HoldInv, Conns, NoConn
    <3>3. cend'[i] /\ addr'[i] = c
      BY <3>1 DEF NetConnect, TypeOK, NetTypeOK
    <3>4. ASSUME NEW d \in Clients \ {c}, sk[d] # NoConn PROVE cend'[sk[d]] /\ addr'[sk[d]] = d
      <4>1. cend[sk[d]] /\ addr[sk[d]] = d /\ sk[d] \in Conns
        BY <3>4 DEF HoldInv, TypeOK, ClientTypeOK
      <4>2. sk[d] # i
        BY <3>1, <4>1 DEF NetConnect, Free
      <4> QED
        BY <3>1, <4>1, <4>2 DEF NetConnect, TypeOK, NetTypeOK
    <3> QED
      BY <2>2, <2>3, <3>2, <3>3, <3>4 DEF HoldInv, Others, Waiting
  <2> QED
    BY <2>1, <2>4, <2>5, <2>6, <2>7, ClientShape
<1> QED
  BY <1>1, <1>2, <1>3, <1>4 DEF Next

-----------------------------------------------------------------------------
(* ServeInv.                                                                *)

\* Accepting takes the oldest entry, which does not occur again.
LEMMA BacklogHead ==
    ASSUME TypeOK, ServeInv, backlog # <<>>
    PROVE  /\ Head(backlog) \in Conns /\ send[Head(backlog)] = "queued"
           /\ \A k \in 1..Len(Tail(backlog)) :
                 Tail(backlog)[k] # Head(backlog) /\ send[Tail(backlog)[k]] = "queued"
           /\ \A k, l \in 1..Len(Tail(backlog)) : Tail(backlog)[k] = Tail(backlog)[l] => k = l
<1>1. backlog \in Seq(Conns)
  BY DEF TypeOK, NetTypeOK
<1>2. Head(backlog) = backlog[1] /\ 1 \in 1..Len(backlog) /\ Head(backlog) \in Conns
  BY <1>1
<1>3. \A k \in 1..Len(Tail(backlog)) : Tail(backlog)[k] = backlog[k + 1] /\ k + 1 \in 1..Len(backlog)
  BY <1>1
<1>4. Len(Tail(backlog)) \in Nat
  BY <1>1
<1> QED
  BY <1>2, <1>3, <1>4 DEF ServeInv

\* The part of ServeInv about the backlog survives every step that closes or
\* opens only connections that are not in it.
BacklogOK ==
    /\ \A k \in 1..Len(backlog) : send[backlog[k]] = "queued"
    /\ \A k, l \in 1..Len(backlog) : backlog[k] = backlog[l] => k = l

\* A step that takes no entry of the backlog and closes none keeps BacklogOK.
LEMMA BacklogStays ==
    ASSUME TypeOK, ServeInv, backlog' = backlog, NEW i, send[i] # "queued",
           NEW v, send' = [send EXCEPT ![i] = v]
    PROVE  BacklogOK'
<1>1. \A k \in 1..Len(backlog) : backlog[k] \in Conns /\ backlog[k] # i
  BY DEF ServeInv, TypeOK, NetTypeOK
<1>2. \A k \in 1..Len(backlog) : send'[backlog[k]] = "queued"
  BY <1>1 DEF ServeInv, TypeOK, NetTypeOK
<1> QED
  BY <1>2 DEF ServeInv, BacklogOK

\* accept() takes the oldest entry and keeps BacklogOK.
LEMMA BacklogTaken ==
    ASSUME TypeOK, ServeInv, backlog # <<>>, backlog' = Tail(backlog),
           NEW v, send' = [send EXCEPT ![Head(backlog)] = v]
    PROVE  BacklogOK'
<1>1. Tail(backlog) \in Seq(Conns)
  BY DEF TypeOK, NetTypeOK
<1>2. \A k \in 1..Len(Tail(backlog)) : Tail(backlog)[k] \in Conns
  BY <1>1
<1>3. \A k \in 1..Len(Tail(backlog)) : send'[Tail(backlog)[k]] = "queued"
  BY <1>2, BacklogHead DEF TypeOK, NetTypeOK
<1> QED
  BY <1>3, BacklogHead DEF BacklogOK

\* Every step of the daemon keeps ServeInv, one case per action.
LEMMA DaemonServeStep ==
    ASSUME TypeOK, ServeInv, Daemon PROVE ServeInv'
<1> USE DEF TypeOK, DaemonTypeOK
<1> SUFFICES /\ ((sc # NoConn) <=> phase \in {"session", "run"})'
             /\ (cc # NoConn => cc # sc /\ phase \in {"run", "job"})'
             /\ (sc # NoConn => send[sc] = "open")'
             /\ (cc # NoConn => send[cc] = "open")'
             /\ BacklogOK'
  BY DEF ServeInv, BacklogOK
<1>0. BacklogOK /\ send \in [Conns -> {"none", "queued", "open"}]
  BY DEF ServeInv, BacklogOK, NetTypeOK
<1>n. \A i \in Conns : i # NoConn
  BY DEF Conns, NoConn
<1>1. CASE Accept
  <2>1. PICK i : i = Head(backlog) /\ i \in Conns /\ send[i] = "queued"
    BY <1>1, BacklogHead DEF Accept
  <2>2. BacklogOK'
    BY <1>1, BacklogTaken DEF Accept, Greet, Reject
  <2>3. sc = NoConn /\ cc = NoConn
    BY <1>1 DEF Accept, ServeInv
  <2> QED
    BY <1>0, <1>1, <1>n, <2>1, <2>2, <2>3 DEF Accept, Greet, Reject
<1>2. CASE SessionEof \/ RunLost
  <2>1. send[sc] = "open" /\ sc \in Conns
    BY <1>2 DEF SessionEof, RunLost, ServeInv
  <2>2. BacklogOK'
    BY <1>2, <2>1, BacklogStays DEF SessionEof, RunLost, CloseSession
  <2>3. cc = NoConn
    BY <1>2 DEF SessionEof, RunLost, ServeInv
  <2> QED
    BY <1>2, <2>2, <2>3 DEF SessionEof, RunLost, CloseSession
<1>3. CASE Auth
  <2>1. send[sc] = "open" /\ sc \in Conns /\ cc = NoConn
    BY <1>3 DEF Auth, Reading, ServeInv
  <2>2. BacklogOK'
    <3>1. CASE CloseSession
      BY <1>3, <3>1, <2>1, BacklogStays DEF Auth, CloseSession
    <3>2. CASE UNCHANGED <<phase, sc, send>>
      BY <1>0, <1>3, <3>2 DEF Auth, BacklogOK
    <3> QED
      BY <1>3, <3>1, <3>2 DEF Auth
  <2>3. CASE CloseSession
    BY <1>3, <2>1, <2>2, <2>3 DEF Auth, CloseSession
  <2>4. CASE UNCHANGED <<phase, sc, send>>
    BY <1>3, <2>1, <2>2, <2>4 DEF Auth, ServeInv
  <2> QED
    BY <1>3, <2>3, <2>4 DEF Auth
<1>4. CASE Ping \/ Stat \/ Result \/ Cwd \/ CwdFails
  <2>1. UNCHANGED <<send, backlog, phase, sc, cc>>
    BY <1>4 DEF Ping, Stat, Result, Answer, Cwd, CwdFails
  <2> QED
    BY <1>0, <2>1 DEF ServeInv, BacklogOK
<1>5. CASE Run \/ RunExit
  <2>1. UNCHANGED <<send, backlog, sc, cc>> /\ phase \in {"session", "run"} /\ phase' \in {"session", "run"}
    BY <1>5 DEF Run, RunExit, Reading
  <2>2. cc = NoConn
    BY <1>5 DEF Run, RunExit, Reading, ServeInv
  <2> QED
    BY <1>0, <2>1, <2>2 DEF ServeInv, BacklogOK
<1>6. CASE Runa
  <2>1. send[sc] = "open" /\ sc \in Conns /\ cc = NoConn
    BY <1>6 DEF Runa, Reading, ServeInv
  <2>2. /\ send' = [send EXCEPT ![sc] = "none"] /\ backlog' = backlog /\ sc' = NoConn /\ cc' = cc
        /\ phase' = "pending"
    BY <1>6 DEF Runa
  <2>3. BacklogOK'
    BY <2>1, <2>2, BacklogStays
  <2> QED
    BY <2>1, <2>2, <2>3
<1>7. CASE JobStart \/ JobExit \/ JobFail
  <2>1. UNCHANGED <<send, backlog, sc, cc>> /\ phase \in {"pending", "job"}
    BY <1>7 DEF JobStart, JobExit, JobFail, netVars
  <2>2. phase' \in {"job", "accept"} /\ cc = NoConn
    BY <1>7 DEF JobStart, JobExit, JobFail, ServeInv
  <2> QED
    BY <1>0, <2>1, <2>2 DEF ServeInv, BacklogOK
<1>8. CASE CtlAccept
  <2>1. PICK i : i = Head(backlog) /\ i \in Conns /\ send[i] = "queued"
    BY <1>8, BacklogHead DEF CtlAccept
  <2>2. BacklogOK'
    BY <1>8, BacklogTaken DEF CtlAccept, Greet, Reject
  <2>3. /\ sc # i /\ phase \in {"run", "job"} /\ UNCHANGED <<phase, sc>>
        /\ sc # NoConn => sc \in Conns /\ send[sc] = "open"
    BY <1>8, <2>1 DEF CtlAccept, ServeInv, Conns, NoConn
  <2>4. CASE addr[i] \in Denied
    BY <1>0, <1>8, <1>n, <2>1, <2>2, <2>3, <2>4 DEF CtlAccept, Reject, ServeInv
  <2>5. CASE addr[i] \notin Denied
    BY <1>0, <1>8, <1>n, <2>1, <2>2, <2>3, <2>5 DEF CtlAccept, Greet, ServeInv
  <2> QED
    BY <2>4, <2>5
<1>9. CASE CtlEof \/ CtlAuth
  <2>1. /\ send[cc] = "open" /\ cc \in Conns /\ cc # sc /\ cc # NoConn
        /\ UNCHANGED <<phase, sc, backlog>>
        /\ sc # NoConn => sc \in Conns /\ send[sc] = "open"
    BY <1>9 DEF CtlEof, CtlAuth, ServeInv
  <2>2. CASE CloseCtl
    <3>1. BacklogOK'
      BY <2>1, <2>2, BacklogStays DEF CloseCtl
    <3> QED
      BY <1>0, <2>1, <2>2, <3>1 DEF CloseCtl, ServeInv
  <2>3. CASE UNCHANGED <<cc, send>>
    BY <1>0, <2>1, <2>3 DEF ServeInv, BacklogOK
  <2> QED
    BY <1>9, <2>2, <2>3 DEF CtlEof, CtlAuth
<1>10. CASE CtlCommand
  <2>1. UNCHANGED <<send, backlog, phase, sc, cc>>
    BY <1>10 DEF CtlCommand
  <2> QED
    BY <1>0, <2>1 DEF ServeInv, BacklogOK
<1>11. CASE Restart
  BY <1>11 DEF Restart, BacklogOK
<1> QED
  BY <1>1, <1>2, <1>3, <1>4, <1>5, <1>6, <1>7, <1>8, <1>9, <1>10, <1>11
     DEF Daemon, SessionStep, ControlStep, CommandEnds

\* Every step keeps ServeInv: one session, beside it at most one control session.
LEMMA ServeStep ==
    ASSUME TypeOK, HoldInv, ServeInv, Next PROVE ServeInv'
<1>1. CASE Daemon
  BY <1>1, DaemonServeStep
<1>2. CASE Drop
  BY <1>2 DEF Drop, NetDrop, ServeInv, daemonVars
<1>3. CASE Quiescent
  BY <1>3 DEF Quiescent, vars, netVars, daemonVars, ServeInv
<1>4. CASE Client
  <2>0. UNCHANGED <<phase, sc, cc>>
    BY <1>4 DEF Client, daemonVars
  <2>1. PICK c \in Clients : ClientStep(c)
    BY <1>4 DEF Client, ClientStep
  <2>2. CASE Stay(c) \/ End(c) \/ Begin(c)
    <3>1. UNCHANGED <<send, backlog>>
      BY <2>2 DEF Stay, ReadOn, ReadSend, End, Hangup, Begin, netVars
    <3> QED
      BY <2>0, <3>1 DEF ServeInv
  <2>3. CASE Open(c)
    <3>1. PICK i \in Conns : NetConnect(c, i)
      BY <2>3 DEF Open
    <3>2. /\ send[i] = "none" /\ send' = [send EXCEPT ![i] = "queued"]
          /\ backlog' = Append(backlog, i)
          /\ backlog \in Seq(Conns) /\ send \in [Conns -> {"none", "queued", "open"}]
          /\ sc \in Conns \cup {NoConn} /\ cc \in Conns \cup {NoConn}
      BY <3>1 DEF NetConnect, Free, TypeOK, NetTypeOK, DaemonTypeOK
    <3>3. \A k \in 1..Len(backlog) : backlog'[k] = backlog[k] /\ backlog[k] \in Conns /\ backlog[k] # i
      BY <3>2 DEF ServeInv
    <3>4. Len(backlog') = Len(backlog) + 1 /\ backlog'[Len(backlog) + 1] = i /\ Len(backlog) \in Nat
      BY <3>2
    <3>5. \A k \in 1..Len(backlog') : k \in 1..Len(backlog) \/ k = Len(backlog) + 1
      BY <3>4
    <3>6. \A k \in 1..Len(backlog') : send'[backlog'[k]] = "queued"
      BY <3>2, <3>3, <3>4, <3>5 DEF ServeInv
    <3>7. \A k, l \in 1..Len(backlog') : backlog'[k] = backlog'[l] => k = l
      BY <3>3, <3>4, <3>5 DEF ServeInv
    <3>8. (sc # NoConn => send'[sc] = "open") /\ (cc # NoConn => send'[cc] = "open")
      BY <3>2 DEF ServeInv
    <3> QED
      BY <2>0, <3>6, <3>7, <3>8 DEF ServeInv
  <2> QED
    BY <2>1, <2>2, <2>3, ClientShape
<1> QED
  BY <1>1, <1>2, <1>3, <1>4 DEF Next

-----------------------------------------------------------------------------
(* DuplexInv.                                                               *)

\* A reply reaches one connection, and on an idle one it is all there is.
LEMMA ReplyAt ==
    ASSUME TypeOK, NEW i \in Conns, NEW ms \in Seq(Replies), Reply(i, ms)
    PROVE  /\ \A j \in Conns \ {i} : down'[j] = down[j]
           /\ down[i] = <<>> => down'[i] = <<>> \/ down'[i] = ms
<1>1. down \in [Conns -> Seq(Replies)]
  BY DEF TypeOK, NetTypeOK
<1>2. <<>> \o ms = ms
  OBVIOUS
<1>3. down[i] = <<>> => DownAfter(i, ms) = <<>> \/ DownAfter(i, ms) = ms
  BY <1>2, Zenon DEF DownAfter
<1>4. down' = [down EXCEPT ![i] = DownAfter(i, ms)]
  BY DEF Reply
<1> QED
  BY <1>1, <1>3, <1>4, Zenon

\* Taking the one command of a connection leaves none.
LEMMA TakeAt ==
    ASSUME TypeOK, DuplexInv, NEW i \in Conns, up[i] # <<>>, Take(i)
    PROVE  /\ \A j \in Conns \ {i} : up'[j] = up[j]
           /\ up'[i] = <<>>
<1>1. up \in [Conns -> Seq(Cmds)] /\ Len(up[i]) <= 1
  BY DEF TypeOK, NetTypeOK, DuplexInv
<1>2. up[i] \in Seq(Cmds) /\ Len(up[i]) \in Nat
  BY <1>1
<1>3. Tail(up[i]) = <<>>
  BY <1>1, <1>2
<1>4. up' = [up EXCEPT ![i] = Tail(up[i])]
  BY DEF Take
<1> QED
  BY <1>1, <1>3, <1>4, Zenon

\* The daemon never puts a connection back into the backlog.
NoNewQueued == \A j \in Conns : send'[j] = "queued" => send[j] = "queued"

\* A connection a client holds is one of Conns.
LEMMA HeldTyped ==
    ASSUME TypeOK, NEW d \in Clients, sk[d] # NoConn PROVE sk[d] \in Conns
BY DEF TypeOK, ClientTypeOK

\* A step that moves no line keeps DuplexInv.
LEMMA QuietDuplex ==
    ASSUME TypeOK, DuplexInv, UNCHANGED <<up, down, clientVars>>, NoNewQueued
    PROVE  DuplexInv'
BY HeldTyped DEF DuplexInv, NoNewQueued, clientVars

\* Taking a command and answering it keeps DuplexInv.
LEMMA AnswerDuplex ==
    ASSUME TypeOK, DuplexInv, CommandInv, UNCHANGED clientVars, NoNewQueued,
           NEW i \in Conns, send[i] = "open", up[i] # <<>>, Take(i),
           NEW ms \in Seq(Replies), Reply(i, ms), Len(ms) <= 1 \/ Head(up[i]).t = "RESULT"
    PROVE  DuplexInv'
<1>1. UNCHANGED <<pc, sk, polling>>
  BY DEF clientVars
<1>2. \A j \in Conns \ {i} : up'[j] = up[j] /\ down'[j] = down[j]
  BY TakeAt, ReplyAt
<1>3. up'[i] = <<>>
  BY TakeAt
<1>4. send'[i] # "queued"
  BY DEF NoNewQueued
<1>5. \A j \in Conns : Len(up'[j]) <= 1 /\ (send'[j] = "queued" => up'[j] = <<>> /\ down'[j] = <<>>)
  BY <1>2, <1>3, <1>4 DEF DuplexInv, NoNewQueued
<1>6. ASSUME NEW d \in Clients, sk[d] # NoConn
      PROVE  /\ up'[sk[d]] # <<>> => down'[sk[d]] = <<>>
             /\ pc[d] = "greet" => up'[sk[d]] = <<>>
             /\ pc[d] # "stream" => Len(down'[sk[d]]) <= 1
             /\ send'[sk[d]] = "queued" => pc[d] = "greet"
  <2>1. CASE sk[d] # i
    BY <1>2, <1>6, <2>1, HeldTyped DEF DuplexInv, NoNewQueued
  <2>2. CASE sk[d] = i
    <3>1. down'[i] = <<>> \/ down'[i] = ms
      BY <1>6, <2>2, ReplyAt DEF DuplexInv
    <3>2. pc[d] # "stream" => Len(ms) <= 1
      BY <1>6, <2>2 DEF CommandInv, CommandOf
    <3> QED
      BY <1>3, <1>4, <2>2, <3>1, <3>2
  <2> QED
    BY <2>1, <2>2
<1> QED
  BY <1>1, <1>5, <1>6 DEF DuplexInv

\* Greeting a connection of the backlog keeps DuplexInv.
LEMMA GreetDuplex ==
    ASSUME TypeOK, DuplexInv, UNCHANGED <<up, clientVars>>,
           NEW i \in Conns, send[i] = "queued", Greet(i)
    PROVE  DuplexInv'
<1>1. UNCHANGED <<pc, sk, polling>>
  BY DEF clientVars
<1>2. send'[i] = "open" /\ \A j \in Conns \ {i} : send'[j] = send[j]
  BY DEF Greet, TypeOK, NetTypeOK
<1>3. <<Rep("GCDS")>> \in Seq(Replies) /\ Len(<<Rep("GCDS")>>) <= 1
  BY RepTyped
<1>4. Reply(i, <<Rep("GCDS")>>)
  BY DEF Greet
<1>5. down[i] = <<>> /\ up[i] = <<>>
  BY DEF DuplexInv
<1>6. \A j \in Conns \ {i} : down'[j] = down[j]
  BY <1>3, <1>4, ReplyAt
<1>7. Len(down'[i]) <= 1
  <2>1. down'[i] = <<>> \/ down'[i] = <<Rep("GCDS")>>
    BY <1>3, <1>4, <1>5, ReplyAt
  <2>2. CASE down'[i] = <<>>
    BY <2>2
  <2>3. CASE down'[i] = <<Rep("GCDS")>>
    BY <1>3, <2>3, Zenon
  <2> QED
    BY <2>1, <2>2, <2>3
<1>8. \A j \in Conns : Len(up[j]) <= 1 /\ (send'[j] = "queued" => up[j] = <<>> /\ down'[j] = <<>>)
  BY <1>2, <1>6 DEF DuplexInv
<1>9. ASSUME NEW d \in Clients, sk[d] # NoConn
      PROVE  /\ up[sk[d]] # <<>> => down'[sk[d]] = <<>>
             /\ pc[d] = "greet" => up[sk[d]] = <<>>
             /\ pc[d] # "stream" => Len(down'[sk[d]]) <= 1
             /\ send'[sk[d]] = "queued" => pc[d] = "greet"
  BY <1>2, <1>5, <1>6, <1>7, <1>9, HeldTyped DEF DuplexInv
<1> QED
  BY <1>1, <1>8, <1>9 DEF DuplexInv

\* A prefix of a sequence is as long as asked for and agrees with it.
LEMMA PrefixLen ==
    ASSUME NEW S, NEW s \in Seq(S), NEW n \in 0..Len(s)
    PROVE  SubSeq(s, 1, n) \in Seq(S) /\ Len(SubSeq(s, 1, n)) = n /\ n <= Len(s)
           /\ \A k \in 1..n : SubSeq(s, 1, n)[k] = s[k]
OBVIOUS

\* What a restart and a lost connection leave of the lines to a client: a prefix.
Shorter(t, s) ==
    /\ Len(t) \in Nat /\ Len(t) <= Len(s)
    /\ \A k \in 1..Len(t) : t[k] = s[k]
    /\ t # <<>> => s # <<>> /\ Head(t) = Head(s)
    /\ s = <<>> => t = <<>>

\* A prefix, and the sequence itself, are Shorter.
LEMMA ShorterPrefix ==
    ASSUME NEW S, NEW s \in Seq(S), NEW n \in 0..Len(s)
    PROVE  Shorter(SubSeq(s, 1, n), s) /\ Shorter(s, s)
<1>1. Shorter(s, s)
  BY DEF Shorter
<1>2. CASE n = 0
  <2>1. SubSeq(s, 1, n) = <<>>
    BY <1>2
  <2> QED
    BY <1>1, <2>1 DEF Shorter
<1>3. CASE n # 0
  <2>1. s # <<>> /\ SubSeq(s, 1, n) \in Seq(S) /\ SubSeq(s, 1, n) # <<>>
    BY <1>3
  <2>2. Head(SubSeq(s, 1, n)) = SubSeq(s, 1, n)[1] /\ Head(s) = s[1]
    BY <2>1
  <2> QED
    BY <1>1, <1>3, <2>1, <2>2, PrefixLen DEF Shorter
<1> QED
  BY <1>2, <1>3

\* A restart leaves each client a prefix of its replies and the daemon no command.
LEMMA RestartShorter ==
    ASSUME TypeOK, Restart, NEW i \in Conns PROVE Shorter(down'[i], down[i]) /\ up'[i] = <<>>
<1>1. PICK n \in 0..2 : down' = [j \in Conns |-> IF Len(down[j]) > n THEN SubSeq(down[j], 1, n)
                                                                  ELSE down[j]]
  BY DEF Restart
<1>2. down[i] \in Seq(Replies) /\ Len(down[i]) \in Nat
  BY DEF TypeOK, NetTypeOK
<1>3. CASE Len(down[i]) > n
  <2>1. n \in 0..Len(down[i])
    BY <1>2, <1>3
  <2>2. Shorter(SubSeq(down[i], 1, n), down[i])
    BY <1>2, <2>1, ShorterPrefix
  <2> QED
    BY <1>1, <1>3, <2>2 DEF Restart
<1>4. CASE ~(Len(down[i]) > n)
  <2>1. Shorter(down[i], down[i])
    BY <1>2, ShorterPrefix
  <2> QED
    BY <1>1, <1>4, <2>1 DEF Restart
<1> QED
  BY <1>3, <1>4

\* A lost connection leaves the client a prefix and the daemon nothing.
LEMMA DropShorter ==
    ASSUME TypeOK, NEW i \in Conns, NetDrop(i), NEW j \in Conns
    PROVE  Shorter(down'[j], down[j]) /\ (up'[j] = up[j] \/ up'[j] = <<>>)
<1>1. PICK n \in 0..Len(down[i]) : down' = [down EXCEPT ![i] = SubSeq(@, 1, n)]
  BY DEF NetDrop
<1>2. down \in [Conns -> Seq(Replies)] /\ up \in [Conns -> Seq(Cmds)]
  BY DEF TypeOK, NetTypeOK
<1>3. down[j] \in Seq(Replies) /\ down[i] \in Seq(Replies)
  BY <1>2
<1>4. Shorter(down[j], down[j]) /\ Shorter(SubSeq(down[i], 1, n), down[i])
  BY <1>3, ShorterPrefix
<1>5. up' = [up EXCEPT ![i] = <<>>]
  BY DEF NetDrop
<1> QED
  BY <1>1, <1>2, <1>4, <1>5, Zenon

\* Losing lines keeps DuplexInv.
LEMMA ShorterDuplex ==
    ASSUME TypeOK, DuplexInv, UNCHANGED clientVars, NoNewQueued,
           \A j \in Conns : Shorter(down'[j], down[j]) /\ (up'[j] = up[j] \/ up'[j] = <<>>)
    PROVE  DuplexInv'
<1>1. UNCHANGED <<pc, sk, polling>>
  BY DEF clientVars
<1>2. \A j \in Conns : Len(down[j]) \in Nat /\ Len(up[j]) \in Nat /\ Len(up'[j]) <= Len(up[j])
  BY DEF TypeOK, NetTypeOK
<1>3. \A j \in Conns : Len(up'[j]) <= 1 /\ (send'[j] = "queued" => up'[j] = <<>> /\ down'[j] = <<>>)
  BY <1>2 DEF DuplexInv, NoNewQueued, Shorter
<1>4. ASSUME NEW d \in Clients, sk[d] # NoConn
      PROVE  /\ up'[sk[d]] # <<>> => down'[sk[d]] = <<>>
             /\ pc[d] = "greet" => up'[sk[d]] = <<>>
             /\ pc[d] # "stream" => Len(down'[sk[d]]) <= 1
             /\ send'[sk[d]] = "queued" => pc[d] = "greet"
  BY <1>2, <1>4, HeldTyped DEF DuplexInv, NoNewQueued, Shorter
<1> QED
  BY <1>1, <1>3, <1>4 DEF DuplexInv

\* No step of the daemon queues a connection.
LEMMA DaemonNoNewQueued ==
    ASSUME TypeOK, Daemon PROVE NoNewQueued
<1> USE DEF TypeOK, NetTypeOK, NoNewQueued
<1>1. CASE Accept \/ CtlAccept
  BY <1>1 DEF Accept, CtlAccept, Greet, Reject
<1>2. CASE SessionEof \/ RunLost \/ Auth
  BY <1>2 DEF SessionEof, RunLost, Auth, CloseSession
<1>3. CASE Ping \/ Stat \/ Result \/ Cwd \/ CwdFails \/ Run \/ RunExit
  BY <1>3 DEF Ping, Stat, Result, Answer, Cwd, CwdFails, Run, RunExit
<1>4. CASE Runa
  <2>1. send' = [send EXCEPT ![sc] = "none"]
    BY <1>4 DEF Runa
  <2> QED
    BY <2>1
<1>5. CASE JobStart \/ JobExit \/ JobFail
  BY <1>5 DEF JobStart, JobExit, JobFail, netVars
<1>6. CASE CtlEof \/ CtlAuth \/ CtlCommand
  BY <1>6 DEF CtlEof, CtlAuth, CtlCommand, CloseCtl
<1>7. CASE Restart
  BY <1>7 DEF Restart
<1> QED
  BY <1>1, <1>2, <1>3, <1>4, <1>5, <1>6, <1>7 DEF Daemon, SessionStep, ControlStep, CommandEnds

\* What the daemon's steps do to the lines under way.
Answers(i, ms) ==
    /\ i \in Conns /\ i \in {sc, cc} /\ send[i] = "open" /\ up[i] # <<>>
    /\ Take(i) /\ ms \in Seq(Replies) /\ Reply(i, ms)

Greets(i) ==
    /\ i \in Conns /\ send[i] = "queued" /\ Greet(i) /\ UNCHANGED up

\* The replies to a command line, with what the proofs need of the state in
\* which they are given.
GivenOne(i, r) ==
    \/ r.t \in {"ERR", "BUSY"}
    \/ r.t = "OK" /\ (Head(up[i]).t = "CWD" => i = sc /\ Cwd)
    \/ r.t = "IDLE" /\ i = sc /\ Stat /\ ~res.valid
    \/ r.t = "RESULT" /\ i = sc /\ Stat /\ res.valid /\ r.id = res.jobid
    \/ r.t = "JOB" /\ i = sc /\ Runa /\ r.id = NextJobid /\ r.uid = <<life, nsub + 1>>

GivenTwo(i, o, x) ==
    /\ i = sc /\ Result /\ res.valid /\ Head(up[i]).t = "RESULT" /\ Head(up[i]).id = res.jobid
    /\ o.t = "OUT" /\ o.uid = files[CapturePath]
    /\ x.t = "X" /\ x.uid = res.uid

Given(i, ms) ==
    \/ \E r \in Replies : ms = <<r>> /\ GivenOne(i, r)
    \/ \E o, x \in Replies : ms = <<o, x>> /\ GivenTwo(i, o, x)

DaemonNet ==
    \/ UNCHANGED <<up, down>>
    \/ \E i : Greets(i)
    \/ \E i, ms : Answers(i, ms) /\ Given(i, ms)
    \/ Run \/ RunExit \/ Restart

\* A control session answers OK to PING only.
LEMMA CtlReplyForms ==
    ASSUME NEW t
    PROVE  CtlReply(t).t = "ERR" \/ CtlReply(t).t = "BUSY" \/ (CtlReply(t).t = "OK" /\ t = "PING")
<1>1. t = "PING" => CtlReply(t).t = "OK"
  BY DEF CtlReply, Rep
<1>2. t = "STAT" => CtlReply(t).t = "BUSY"
  BY DEF CtlReply, RepId
<1>3. t # "PING" /\ t # "STAT" => CtlReply(t).t = "ERR"
  BY DEF CtlReply, Rep
<1> QED
  BY <1>1, <1>2, <1>3

\* Every step of the daemon moves lines in one of the ways DaemonNet lists.
LEMMA DaemonShape ==
    ASSUME TypeOK, ServeInv, Daemon PROVE DaemonNet
<1> USE DEF DaemonNet
<1>r. \A t \in {"GCDS", "OK", "ERR", "IDLE"} : Rep(t) \in Replies /\ Rep(t).t = t
  BY LinesTyped DEF Rep
<1>a. \A r \in Replies : <<r>> \in Seq(Replies)
  OBVIOUS
<1>s. Reading => sc \in Conns /\ send[sc] = "open" /\ up[sc] # <<>> /\ Line = Head(up[sc])
  BY ReadingTyped DEF ServeInv, Line
<1>c. cc # NoConn => cc \in Conns /\ send[cc] = "open"
  BY DEF ServeInv, TypeOK, DaemonTypeOK
<1>1. CASE Accept \/ CtlAccept
  <2>1. Head(backlog) \in Conns /\ send[Head(backlog)] = "queued"
    BY <1>1, BacklogHead DEF Accept, CtlAccept
  <2> QED
    BY <1>1, <2>1 DEF Accept, CtlAccept, Reject, Greets
<1>2. CASE SessionEof \/ RunLost \/ JobStart \/ JobExit \/ JobFail \/ CtlEof
  BY <1>2 DEF SessionEof, RunLost, JobStart, JobExit, JobFail, CtlEof, netVars
<1>3. CASE Auth
  <2>1. PICK t \in {"OK", "ERR"} : Reply(sc, <<Rep(t)>>) /\ (t = "OK" => Line.t = "AUTH")
    BY <1>3 DEF Auth
  <2>2. Answers(sc, <<Rep(t)>>)
    BY <1>3, <1>r, <1>a, <1>s, <2>1 DEF Auth, Answers
  <2>3. Given(sc, <<Rep(t)>>)
    <3>1. GivenOne(sc, Rep(t))
      BY <1>3, <1>r, <1>s, <2>1 DEF GivenOne, Auth
    <3> QED
      BY <1>r, <3>1 DEF Given
  <2> QED
    BY <2>2, <2>3
<1>4. CASE Ping
  <2>1. Answers(sc, <<Rep("OK")>>)
    BY <1>4, <1>r, <1>a, <1>s DEF Ping, Answer, Answers
  <2>2. Given(sc, <<Rep("OK")>>)
    <3>1. GivenOne(sc, Rep("OK"))
      BY <1>4, <1>r, <1>s DEF Ping, Answer, GivenOne
    <3> QED
      BY <1>r, <3>1 DEF Given
  <2> QED
    BY <2>1, <2>2
<1>5. CASE Stat
  <2>1. StatReply \in Replies
    BY LinesTyped DEF StatReply, TypeOK, DaemonTypeOK, Results
  <2>2. \/ StatReply.t = "IDLE" /\ ~res.valid
        \/ StatReply.t = "RESULT" /\ res.valid /\ StatReply.id = res.jobid
    BY DEF StatReply, Rep, RepId
  <2>3. Answers(sc, <<StatReply>>)
    BY <1>5, <1>a, <1>s, <2>1 DEF Stat, Answer, Answers
  <2>4. Given(sc, <<StatReply>>)
    BY <1>5, <2>1, <2>2 DEF Given, GivenOne
  <2> QED
    BY <2>3, <2>4
<1>5a. CASE CwdFails
  <2>1. Answers(sc, <<Rep("ERR")>>)
    BY <1>5a, <1>r, <1>a, <1>s DEF CwdFails, Answer, Answers
  <2>2. Given(sc, <<Rep("ERR")>>)
    <3>1. GivenOne(sc, Rep("ERR"))
      BY <1>r DEF GivenOne
    <3> QED
      BY <1>r, <3>1 DEF Given
  <2> QED
    BY <2>1, <2>2
<1>6. CASE Cwd
  <2>1. Answers(sc, <<Rep("OK")>>)
    BY <1>6, <1>r, <1>a, <1>s DEF Cwd, Answers
  <2>2. Given(sc, <<Rep("OK")>>)
    <3>1. GivenOne(sc, Rep("OK"))
      BY <1>6, <1>r DEF GivenOne
    <3> QED
      BY <1>r, <3>1 DEF Given
  <2> QED
    BY <2>1, <2>2
<1>7. CASE Runa
  <2> DEFINE r == RepUid("JOB", NextJobid, <<life, nsub + 1>>)
  <2>1. r \in Replies
    <3>1. NextJobid \in Nat /\ <<life, nsub + 1>> \in Uids
      BY JobidTyped, UidTyped DEF TypeOK, DaemonTypeOK
    <3> QED
      BY <3>1, LinesTyped
  <2>2. r.t = "JOB" /\ r.id = NextJobid /\ r.uid = <<life, nsub + 1>>
    BY DEF RepUid
  <2>3. Reply(sc, <<r>>) /\ Take(sc) /\ Reading
    BY <1>7 DEF Runa
  <2> HIDE DEF r
  <2>4. Answers(sc, <<r>>)
    BY <1>a, <1>s, <2>1, <2>3 DEF Answers
  <2>5. Given(sc, <<r>>)
    BY <1>7, <2>1, <2>2 DEF Given, GivenOne
  <2> QED
    BY <2>4, <2>5
<1>8. CASE Result
  <2> DEFINE o == RepUid("OUT", Line.id, files[CapturePath])
             x == RepUid("X", Line.id, res.uid)
  <2>0. Reading /\ Line.t = "RESULT" /\ Take(sc) /\ Reply(sc, ResultReply(Line.id))
    BY <1>8 DEF Result, Answer
  <2>1. CASE res.valid /\ res.jobid = Line.id
    <3>1. Line.id \in Nat /\ res.uid \in Uids /\ files[CapturePath] \in Uids
      BY <2>0, ReadingTyped, PathTyped DEF Cmds, CmdFields, TypeOK, DaemonTypeOK, Results
    <3>2. o \in Replies /\ x \in Replies
      BY <3>1, LinesTyped
    <3>3. o.t = "OUT" /\ o.uid = files[CapturePath] /\ x.t = "X" /\ x.uid = res.uid
      BY DEF RepUid
    <3>4. ResultReply(Line.id) = <<o, x>>
      BY <2>1 DEF ResultReply
    <3> HIDE DEF o, x
    <3>5. Answers(sc, <<o, x>>)
      BY <1>s, <2>0, <3>2, <3>4 DEF Answers
    <3>6. Given(sc, <<o, x>>)
      <4>1. GivenTwo(sc, o, x)
        BY <1>8, <1>s, <2>0, <2>1, <3>3 DEF GivenTwo
      <4> QED
        BY <3>2, <4>1 DEF Given
    <3> QED
      BY <3>5, <3>6
  <2>2. CASE ~(res.valid /\ res.jobid = Line.id)
    <3>1. ResultReply(Line.id) = <<Rep("ERR")>>
      BY <2>2 DEF ResultReply
    <3>2. Answers(sc, <<Rep("ERR")>>)
      BY <1>r, <1>a, <1>s, <2>0, <3>1 DEF Answers
    <3>3. Given(sc, <<Rep("ERR")>>)
      <4>1. GivenOne(sc, Rep("ERR"))
        BY <1>r DEF GivenOne
      <4> QED
        BY <1>r, <4>1 DEF Given
    <3> QED
      BY <3>2, <3>3
  <2> QED
    BY <2>1, <2>2
<1>9. CASE CtlAuth
  <2>1. PICK t \in {"OK", "ERR"} : Reply(cc, <<Rep(t)>>) /\ (t = "OK" => Head(up[cc]).t = "AUTH")
    BY <1>9 DEF CtlAuth
  <2>2. Answers(cc, <<Rep(t)>>)
    BY <1>9, <1>r, <1>a, <1>c, <2>1 DEF CtlAuth, Answers
  <2>3. Given(cc, <<Rep(t)>>)
    <3>1. GivenOne(cc, Rep(t))
      BY <1>9, <1>r, <2>1 DEF GivenOne, CtlAuth
    <3> QED
      BY <1>r, <3>1 DEF Given
  <2> QED
    BY <2>2, <2>3
<1>10. CASE CtlCommand
  <2> DEFINE r == CtlReply(Head(up[cc]).t)
  <2>1. r \in Replies
    BY LinesTyped DEF CtlReply, BusyId, TypeOK, DaemonTypeOK, Jobs
  <2>2. r.t = "ERR" \/ r.t = "BUSY" \/ (r.t = "OK" /\ Head(up[cc]).t = "PING")
    BY CtlReplyForms
  <2>3. Reply(cc, <<r>>) /\ Take(cc) /\ cc # NoConn /\ up[cc] # <<>>
    BY <1>10 DEF CtlCommand
  <2> HIDE DEF r
  <2>4. Answers(cc, <<r>>)
    BY <1>a, <1>c, <2>1, <2>3 DEF Answers
  <2>5. Given(cc, <<r>>)
    <3>1. GivenOne(cc, r)
      BY <2>2 DEF GivenOne
    <3> QED
      BY <2>1, <3>1 DEF Given
  <2> QED
    BY <2>4, <2>5
<1>11. CASE Run \/ RunExit \/ Restart
  BY <1>11
<1> QED
  BY <1>1, <1>2, <1>3, <1>4, <1>5, <1>5a, <1>6, <1>7, <1>8, <1>9, <1>10, <1>11
     DEF Daemon, SessionStep, ControlStep, CommandEnds

\* The end of a RUN command: one more line for a client that only reads.
LEMMA RunExitReply ==
    ASSUME TypeOK, ServeInv, RunExit
    PROVE  /\ sc \in Conns /\ phase = "run" /\ UNCHANGED <<up, send>>
           /\ \E m \in Replies : m.t \in {"X", "ERR"} /\ <<m>> \in Seq(Replies) /\ Reply(sc, <<m>>)
<1>1. RepUid("X", 0, NoJob) \in Replies /\ RepUid("X", 0, NoJob).t = "X"
  BY LinesTyped, NoJobTyped DEF RepUid
<1>2. Rep("ERR") \in Replies /\ Rep("ERR").t = "ERR"
  BY LinesTyped DEF Rep
<1>3. sc \in Conns /\ phase = "run" /\ UNCHANGED <<up, send>>
  BY DEF RunExit, ServeInv, TypeOK, DaemonTypeOK
<1>4. Reply(sc, <<RepUid("X", 0, NoJob)>>) \/ Reply(sc, <<Rep("ERR")>>)
  BY DEF RunExit
<1> QED
  BY <1>1, <1>2, <1>3, <1>4, OneTyped

\* The X or ERR that ends a RUN keeps DuplexInv.
LEMMA RunExitDuplex ==
    ASSUME TypeOK, ServeInv, DuplexInv, CommandInv, UNCHANGED clientVars, RunExit
    PROVE  DuplexInv'
<1>1. UNCHANGED <<pc, sk, polling>>
  BY DEF clientVars
<1>2. PICK m \in Replies : <<m>> \in Seq(Replies) /\ Reply(sc, <<m>>)
  BY RunExitReply
<1>3. sc \in Conns /\ phase = "run" /\ UNCHANGED <<up, send>> /\ send[sc] = "open"
  BY RunExitReply DEF ServeInv
<1>4. \A j \in Conns \ {sc} : down'[j] = down[j]
  BY <1>2, <1>3, ReplyAt
<1>5. \A j \in Conns : Len(up[j]) <= 1 /\ (send[j] = "queued" => up[j] = <<>> /\ down'[j] = <<>>)
  BY <1>3, <1>4 DEF DuplexInv
<1>6. ASSUME NEW d \in Clients, sk[d] # NoConn
      PROVE  /\ up[sk[d]] # <<>> => down'[sk[d]] = <<>>
             /\ pc[d] = "greet" => up[sk[d]] = <<>>
             /\ pc[d] # "stream" => Len(down'[sk[d]]) <= 1
             /\ send[sk[d]] = "queued" => pc[d] = "greet"
  BY <1>3, <1>4, <1>6, HeldTyped DEF DuplexInv, CommandInv
<1> QED
  BY <1>1, <1>3, <1>5, <1>6 DEF DuplexInv

\* Taking a RUN line keeps DuplexInv.
LEMMA RunDuplex ==
    ASSUME TypeOK, ServeInv, DuplexInv, UNCHANGED clientVars, Run
    PROVE  DuplexInv'
<1>1. UNCHANGED <<pc, sk, polling>>
  BY DEF clientVars
<1>2. sc \in Conns /\ up[sc] # <<>> /\ Take(sc) /\ UNCHANGED <<down, send>>
  BY ReadingTyped DEF Run
<1>3. up'[sc] = <<>> /\ \A j \in Conns \ {sc} : up'[j] = up[j]
  BY <1>2, TakeAt
<1>4. \A j \in Conns : Len(up'[j]) <= 1 /\ (send[j] = "queued" => up'[j] = <<>> /\ down[j] = <<>>)
  BY <1>3 DEF DuplexInv
<1>5. ASSUME NEW d \in Clients, sk[d] # NoConn
      PROVE  /\ up'[sk[d]] # <<>> => down[sk[d]] = <<>>
             /\ pc[d] = "greet" => up'[sk[d]] = <<>>
             /\ pc[d] # "stream" => Len(down[sk[d]]) <= 1
             /\ send[sk[d]] = "queued" => pc[d] = "greet"
  BY <1>3, <1>5, HeldTyped DEF DuplexInv
<1> QED
  BY <1>1, <1>2, <1>4, <1>5 DEF DuplexInv

\* Every step of the daemon keeps DuplexInv.
LEMMA DaemonDuplexStep ==
    ASSUME TypeOK, ServeInv, DuplexInv, CommandInv, Daemon
    PROVE  DuplexInv'
<1>0. UNCHANGED clientVars /\ NoNewQueued
  BY DaemonLeavesClients, DaemonNoNewQueued
<1>1. CASE UNCHANGED <<up, down>>
  BY <1>0, <1>1, QuietDuplex
<1>2. CASE \E i : Greets(i)
  BY <1>0, <1>2, GreetDuplex DEF Greets
<1>3. CASE \E i, ms : Answers(i, ms) /\ Given(i, ms)
  <2>1. PICK i, ms : Answers(i, ms) /\ Given(i, ms)
    BY <1>3
  <2>2. Len(ms) <= 1 \/ Head(up[i]).t = "RESULT"
    <3>1. CASE \E r \in Replies : ms = <<r>>
      BY <3>1
    <3>2. CASE \E o, x \in Replies : ms = <<o, x>> /\ GivenTwo(i, o, x)
      BY <3>2 DEF GivenTwo
    <3> QED
      BY <2>1, <3>1, <3>2 DEF Given
  <2> QED
    BY <1>0, <2>1, <2>2, AnswerDuplex DEF Answers
<1>4. CASE Run
  BY <1>0, <1>4, RunDuplex
<1>5. CASE RunExit
  BY <1>0, <1>5, RunExitDuplex
<1>6. CASE Restart
  BY <1>0, <1>6, RestartShorter, ShorterDuplex
<1> QED
  BY <1>1, <1>2, <1>3, <1>4, <1>5, <1>6, DaemonShape DEF DaemonNet

\* What a client's step does to the lines of its own connection; those of the
\* other connections do not change.
LEMMA StayLines ==
    ASSUME TypeOK, HoldInv, DuplexInv, NEW c \in Clients, Stay(c)
    PROVE  /\ sk[c] \in Conns /\ sk[c] # NoConn /\ UNCHANGED <<sk, send>>
           /\ \A j \in Conns \ {sk[c]} : up'[j] = up[j] /\ down'[j] = down[j]
           /\ down'[sk[c]] = Tail(down[sk[c]])
           /\ up[sk[c]] = <<>>
           /\ up'[sk[c]] = <<>> \/ \E m \in Cmds : ReadSend(c, m) /\ up'[sk[c]] = <<m>>
           /\ send[sk[c]] # "queued"
<1>1. sk[c] \in Conns /\ sk[c] # NoConn
  BY DEF Stay, HoldInv, TypeOK, ClientTypeOK
<1>2. up \in [Conns -> Seq(Cmds)] /\ down \in [Conns -> Seq(Replies)] /\ down[sk[c]] # <<>>
  BY DEF TypeOK, NetTypeOK, Stay
<1>3. up[sk[c]] = <<>> /\ send[sk[c]] # "queued"
  BY <1>1, <1>2 DEF DuplexInv
<1>4. CASE ReadOn(c)
  BY <1>1, <1>2, <1>3, <1>4 DEF ReadOn
<1>5. CASE \E m \in Cmds : ReadSend(c, m)
  <2>1. PICK m \in Cmds : ReadSend(c, m)
    BY <1>5
  <2>2. Append(up[sk[c]], m) = <<m>>
    BY <1>3
  <2>3. UpAfter(sk[c], m) = <<>> \/ UpAfter(sk[c], m) = <<m>>
    BY <1>3, <2>2 DEF UpAfter
  <2>4. /\ down' = [down EXCEPT ![sk[c]] = Tail(@)]
        /\ up' = [up EXCEPT ![sk[c]] = UpAfter(sk[c], m)]
        /\ UNCHANGED <<sk, send>>
    BY <2>1 DEF ReadSend
  <2>5. up'[sk[c]] = <<>> \/ up'[sk[c]] = <<m>>
    BY <1>1, <1>2, <2>3, <2>4, Zenon
  <2>6. \A j \in Conns \ {sk[c]} : up'[j] = up[j] /\ down'[j] = down[j]
    BY <1>1, <1>2, <2>4, Zenon
  <2>7. down'[sk[c]] = Tail(down[sk[c]])
    BY <1>1, <1>2, <2>4, Zenon
  <2> QED
    BY <1>1, <1>3, <2>1, <2>4, <2>5, <2>6, <2>7
<1> QED
  BY <1>4, <1>5 DEF Stay

\* A new connection is unused by anyone else, queued, and without lines.
LEMMA OpenLines ==
    ASSUME TypeOK, HoldInv, NEW c \in Clients, Open(c)
    PROVE  /\ pc[c] = "open" /\ pc'[c] = "greet" /\ sk[c] = NoConn
           /\ sk'[c] \in Conns /\ sk'[c] # NoConn /\ send'[sk'[c]] = "queued"
           /\ send[sk'[c]] = "none" /\ ~cend[sk'[c]]
           /\ up'[sk'[c]] = <<>> /\ down'[sk'[c]] = <<>>
           /\ \A j \in Conns \ {sk'[c]} : up'[j] = up[j] /\ down'[j] = down[j] /\ send'[j] = send[j]
           /\ \A d \in Clients \ {c} : sk[d] # sk'[c]
<1>1. PICK i \in Conns : NetConnect(c, i) /\ sk' = [sk EXCEPT ![c] = i]
  BY DEF Open
<1>2. sk'[c] = i /\ i # NoConn
  BY <1>1 DEF TypeOK, ClientTypeOK, Conns, NoConn
<1>3. pc[c] = "open" /\ pc'[c] = "greet" /\ sk[c] = NoConn
  BY DEF Open, Goto, TypeOK, ClientTypeOK, HoldInv, Waiting
<1>4. send[i] = "none" /\ ~cend[i]
  BY <1>1 DEF NetConnect, Free
<1>5. up'[i] = <<>> /\ down'[i] = <<>> /\ send'[i] = "queued"
  <2>1. up' = [up EXCEPT ![i] = <<>>] /\ down' = [down EXCEPT ![i] = <<>>] /\ send' = [send EXCEPT ![i] = "queued"]
    BY <1>1 DEF NetConnect
  <2> QED
    BY <2>1, Zenon DEF TypeOK, NetTypeOK
<1>6. \A j \in Conns \ {i} : up'[j] = up[j] /\ down'[j] = down[j] /\ send'[j] = send[j]
  BY <1>1 DEF NetConnect, TypeOK, NetTypeOK
<1>7. \A d \in Clients \ {c} : sk[d] # i
  BY <1>2, <1>4 DEF HoldInv
<1> QED
  BY <1>2, <1>3, <1>4, <1>5, <1>6, <1>7

\* Closing discards the replies under way and nothing else.
LEMMA EndLines ==
    ASSUME TypeOK, HoldInv, NEW c \in Clients, End(c)
    PROVE  /\ sk'[c] = NoConn /\ UNCHANGED <<up, send>>
           /\ \A j \in Conns \ {sk[c]} : down'[j] = down[j]
           /\ down'[sk[c]] = <<>> /\ sk[c] \in Conns
<1>1. sk[c] \in Conns
  BY DEF End, HoldInv, TypeOK, ClientTypeOK
<1>2. sk' = [sk EXCEPT ![c] = NoConn] /\ down' = [down EXCEPT ![sk[c]] = <<>>] /\ UNCHANGED <<up, send>>
  BY DEF End, Hangup
<1> QED
  BY <1>1, <1>2, Zenon DEF TypeOK, NetTypeOK, ClientTypeOK

\* Every step keeps DuplexInv: the protocol is half duplex.
LEMMA DuplexStep ==
    ASSUME TypeOK, HoldInv, ServeInv, DuplexInv, CommandInv, Next
    PROVE  DuplexInv'
<1>1. CASE Daemon
  BY <1>1, DaemonDuplexStep
<1>2. CASE Drop
  <2>1. PICK i \in Conns : NetDrop(i)
    BY <1>2 DEF Drop
  <2>2. NoNewQueued /\ UNCHANGED clientVars
    BY <1>2, <2>1 DEF Drop, NetDrop, NoNewQueued
  <2> QED
    BY <2>1, <2>2, DropShorter, ShorterDuplex
<1>3. CASE Quiescent
  BY <1>3 DEF Quiescent, vars, netVars, clientVars, DuplexInv
<1>4. CASE Client
  <2>1. PICK c \in Clients : ClientStep(c)
    BY <1>4 DEF Client, ClientStep
  <2>2. Others(c)
    BY <2>1, ClientOthers
  <2>3. CASE Stay(c)
    <3>1. pc[c] # "stream" => down'[sk[c]] = <<>>
      <4>1. down[sk[c]] \in Seq(Replies) /\ down[sk[c]] # <<>>
        BY <2>3, StayLines DEF TypeOK, NetTypeOK, Stay
      <4>2. pc[c] # "stream" => Len(down[sk[c]]) <= 1
        BY <2>3, StayLines DEF DuplexInv
      <4>3. ASSUME Len(down[sk[c]]) <= 1 PROVE Tail(down[sk[c]]) = <<>>
        BY <4>1, <4>3
      <4> QED
        BY <2>3, <4>2, <4>3, StayLines
    <3>2. pc[c] = "stream" => pc'[c] = "stream" /\ up'[sk[c]] = <<>>
      BY <2>3, StayLines DEF Stay, ReadOn
    <3>3. Len(up'[sk[c]]) <= 1
      <4>1. CASE up'[sk[c]] = <<>>
        BY <4>1
      <4>2. CASE \E m \in Cmds : up'[sk[c]] = <<m>>
        BY <4>2
      <4> QED
        BY <2>3, <4>1, <4>2, StayLines
    <3>4. \A j \in Conns : Len(up'[j]) <= 1 /\ (send'[j] = "queued" => up'[j] = <<>> /\ down'[j] = <<>>)
      BY <2>3, <3>3, StayLines DEF DuplexInv
    <3>5. ASSUME NEW d \in Clients, sk'[d] # NoConn
          PROVE  /\ up'[sk'[d]] # <<>> => down'[sk'[d]] = <<>>
                 /\ pc'[d] = "greet" => up'[sk'[d]] = <<>>
                 /\ pc'[d] # "stream" => Len(down'[sk'[d]]) <= 1
                 /\ send'[sk'[d]] = "queued" => pc'[d] = "greet"
      <4>1. sk' = sk /\ sk[d] \in Conns /\ UNCHANGED send
        BY <2>3, <3>5, StayLines, HeldTyped
      <4>2. CASE d # c
        <5>1. sk[d] # sk[c] /\ pc'[d] = pc[d]
          BY <2>2, <3>5, <4>1, <4>2, OwnConnection DEF Others
        <5> QED
          BY <2>3, <3>5, <4>1, <5>1, StayLines DEF DuplexInv
      <4>3. CASE d = c
        <5>1. pc'[c] # "greet" /\ send[sk[c]] # "queued"
          BY <2>3, StayLines DEF Stay
        <5>2. Len(<<>>) <= 1
          OBVIOUS
        <5> QED
          BY <3>1, <3>2, <4>1, <4>3, <5>1, <5>2
      <4> QED
        BY <4>2, <4>3
    <3> QED
      BY <3>4, <3>5 DEF DuplexInv
  <2>4. CASE End(c)
    BY <2>2, <2>4, EndLines, HeldTyped, OwnConnection DEF DuplexInv, Others
  <2>5. CASE Begin(c)
    BY <2>2, <2>5 DEF Begin, netVars, DuplexInv, Others, HoldInv, Waiting
  <2>6. CASE Open(c)
    <3>1. Len(<<>>) <= 1
      OBVIOUS
    <3>2. \A j \in Conns : Len(up'[j]) <= 1 /\ (send'[j] = "queued" => up'[j] = <<>> /\ down'[j] = <<>>)
      BY <2>6, <3>1, OpenLines DEF DuplexInv
    <3>3. ASSUME NEW d \in Clients \ {c}, sk'[d] # NoConn
          PROVE  sk'[d] \in Conns /\ sk'[d] # sk'[c] /\ sk'[d] = sk[d] /\ pc'[d] = pc[d]
      BY <2>2, <2>6, <3>3, OpenLines, HeldTyped DEF Others
    <3> QED
      BY <2>6, <3>1, <3>2, <3>3, OpenLines DEF DuplexInv
  <2> QED
    BY <2>1, <2>3, <2>4, <2>5, <2>6, ClientShape
<1> QED
  BY <1>1, <1>2, <1>3, <1>4 DEF Next

-----------------------------------------------------------------------------
(* CommandInv.                                                              *)

\* A client sends into an empty direction, or the line is lost.
LEMMA SendLine ==
    ASSUME TypeOK, HoldInv, DuplexInv, NEW c \in Clients, Stay(c), NEW m \in Cmds, ReadSend(c, m)
    PROVE  up'[sk[c]] = <<>> \/ up'[sk[c]] = <<m>>
<1>1. sk[c] \in Conns /\ up[sk[c]] = <<>>
  BY StayLines
<1>2. Append(up[sk[c]], m) = <<m>>
  BY <1>1
<1>3. UpAfter(sk[c], m) = <<>> \/ UpAfter(sk[c], m) = <<m>>
  BY <1>1, <1>2 DEF UpAfter
<1>4. up' = [up EXCEPT ![sk[c]] = UpAfter(sk[c], m)]
  BY DEF ReadSend
<1> QED
  BY <1>1, <1>3, <1>4, Zenon DEF TypeOK, NetTypeOK

\* The four steps in which a client that waits for a line sends one.
LEMMA Senders ==
    ASSUME TypeOK, HoldInv, NEW c \in Clients, ClientStep(c), Stay(c), pc[c] # "stream"
    PROVE  Greeted(c) \/ StatMatches(c) \/ Authed(c) \/ CwdDone(c)
<1>1. ~(Invoke(c) \/ OpenFails(c) \/ Open(c))
  BY DEF Stay, Invoke, OpenFails, Open, Waiting
<1>2. ~(StreamOut(c) \/ StreamExit(c) \/ StreamBroken(c))
  BY DEF StreamOut, StreamExit, StreamBroken, Waits
<1>3. ~Hangup(c)
  <2>1. sk' = sk /\ sk[c] # NoConn
    BY DEF Stay, ReadOn, ReadSend, HoldInv
  <2> QED
    BY <2>1 DEF Hangup, TypeOK, ClientTypeOK
<1> QED
  BY <1>1, <1>2, <1>3 DEF ClientStep, Proceed, Refused, Answered, Submitted, StatBusy, StatIdle,
                          StatOther, ReplyEof, ReplyTimeout, NoReply

\* The command a client sends fits what it then waits for.
LEMMA SentCommand ==
    ASSUME TypeOK, HoldInv, NEW c \in Clients, ClientStep(c), Stay(c), pc[c] # "stream"
    PROVE  \E m \in Cmds : ReadSend(c, m) /\ CommandOf(c, m)'
<1> USE DEF CommandOf
<1>0. inv[c] \in CmdLines /\ pc \in [Clients -> PCs] /\ polling[c] \in BOOLEAN
  BY DEF TypeOK, ClientTypeOK
<1>1. CASE Greeted(c)
  <2> DEFINE m == [Cmd("AUTH") EXCEPT !.tok = inv[c].tok]
  <2>1. m \in Cmds /\ m.t = "AUTH"
    BY SentTyped DEF Cmd
  <2>2. ReadSend(c, m) /\ pc'[c] = "auth"
    BY <1>0, <1>1 DEF Greeted, Goto
  <2> HIDE DEF m
  <2> QED
    BY <2>1, <2>2
<1>2. CASE StatMatches(c)
  <2> DEFINE m == [Cmd("RESULT") EXCEPT !.id = jobid[c]]
  <2>1. m \in Cmds /\ m.t = "RESULT" /\ m.id = jobid[c]
    BY SentTyped DEF Cmd
  <2>2. /\ ReadSend(c, m) /\ pc'[c] = "stream" /\ jobid' = jobid /\ polling' = polling
        /\ polling[c]
    BY <1>0, <1>2 DEF StatMatches, Goto, Waits, HoldInv
  <2> HIDE DEF m
  <2> QED
    BY <2>1, <2>2
<1>3. ASSUME ReadSend(c, OpCmd(c)), Goto(c, OpWait(c)), polling' = polling, ~polling[c]
      PROVE  \E m \in Cmds : ReadSend(c, m) /\ CommandOf(c, m)'
  <2>1. OpCmd(c) \in Cmds /\ OpCmd(c).t = inv[c].op /\ inv[c].op \in Ops
    BY <1>0, SentTyped DEF OpCmd, Cmd, CmdLines
  <2>2. pc'[c] = OpWait(c) /\ OpWait(c) # "cwd" /\ (inv[c].op = "RUN" => OpWait(c) = "stream")
    BY <1>0, <1>3 DEF Goto, OpWait
  <2> QED
    BY <1>3, <2>1, <2>2 DEF Ops
<1>4. CASE Authed(c)
  <2>1. CASE polling[c]
    <3>1. Cmd("STAT") \in Cmds /\ Cmd("STAT").t = "STAT"
      BY LinesTyped DEF Cmd
    <3>2. ReadSend(c, Cmd("STAT")) /\ pc'[c] = "stat"
      BY <1>0, <1>4, <2>1 DEF Authed, Goto
    <3> QED
      BY <3>1, <3>2
  <2>2. CASE ~polling[c] /\ inv[c].op \in {"RUN", "RUNA"} /\ inv[c].dir # NoDir
    <3> DEFINE m == [Cmd("CWD") EXCEPT !.dir = inv[c].dir]
    <3>1. m \in Cmds /\ m.t = "CWD" /\ m.dir = inv[c].dir
      BY <2>2, SentTyped DEF Cmd
    <3>2. ReadSend(c, m) /\ pc'[c] = "cwd" /\ inv' = inv
      BY <1>0, <1>4, <2>2 DEF Authed, Goto
    <3> HIDE DEF m
    <3> QED
      BY <3>1, <3>2
  <2>3. CASE ~polling[c] /\ ~(inv[c].op \in {"RUN", "RUNA"} /\ inv[c].dir # NoDir)
    BY <1>3, <1>4, <2>3 DEF Authed
  <2> QED
    BY <2>1, <2>2, <2>3
<1>5. CASE CwdDone(c)
  BY <1>3, <1>5 DEF CwdDone, Waits, HoldInv
<1>6. Greeted(c) \/ StatMatches(c) \/ Authed(c) \/ CwdDone(c)
  BY Senders
<1> QED
  BY <1>1, <1>2, <1>4, <1>5, <1>6

\* While a RUN command runs, the daemon does not touch its session.
LEMMA RunUntouched ==
    ASSUME TypeOK, ServeInv, Daemon, phase' = "run"
    PROVE  \/ Run
           \/ phase = "run" /\ sc' = sc /\ sc \in Conns /\ up'[sc] = up[sc] /\ down'[sc] = down[sc]
<1>0. /\ phase = "run" => sc \in Conns /\ send[sc] = "open"
      /\ up \in [Conns -> Seq(Cmds)] /\ down \in [Conns -> Seq(Replies)]
  BY DEF ServeInv, TypeOK, NetTypeOK, DaemonTypeOK
<1>1. CASE CtlAccept
  <2>1. Head(backlog) \in Conns /\ send[Head(backlog)] = "queued"
    BY <1>1, BacklogHead DEF CtlAccept
  <2>2. phase = "run" /\ sc' = sc /\ up' = up
    BY <1>1 DEF CtlAccept
  <2>3. down'[sc] = down[sc]
    BY <1>0, <1>1, <2>1, <2>2 DEF CtlAccept, Greet, Reject, Reply
  <2> QED
    BY <1>0, <2>2, <2>3
<1>2. CASE CtlEof \/ CtlAuth \/ CtlCommand
  <2>1. cc # sc /\ phase = "run" /\ sc' = sc
    BY <1>2 DEF CtlEof, CtlAuth, CtlCommand, ServeInv
  <2>2. up'[sc] = up[sc]
    BY <1>0, <1>2, <2>1 DEF CtlEof, CtlAuth, CtlCommand, Take
  <2>3. down'[sc] = down[sc]
    BY <1>0, <1>2, <2>1 DEF CtlEof, CtlAuth, CtlCommand, Reply
  <2> QED
    BY <1>0, <2>1, <2>2, <2>3
<1>3. CASE Accept \/ SessionEof \/ RunLost \/ Auth
  BY <1>3 DEF Accept, SessionEof, RunLost, Auth, CloseSession, Reading
<1>4. CASE Ping \/ Stat \/ Result \/ Cwd \/ CwdFails
  BY <1>4 DEF Ping, Stat, Result, Answer, Cwd, CwdFails, Reading
<1>5. CASE Runa \/ JobStart \/ RunExit \/ JobExit \/ JobFail \/ Restart
  BY <1>5 DEF Runa, JobStart, RunExit, JobExit, JobFail, Restart
<1> QED
  BY <1>1, <1>2, <1>3, <1>4, <1>5 DEF Daemon, SessionStep, ControlStep, CommandEnds

\* A step of the daemon sends nothing in a client's name.
LEMMA DaemonUp ==
    ASSUME TypeOK, ServeInv, DuplexInv, Daemon, NEW i \in Conns
    PROVE  up'[i] = up[i] \/ up'[i] = <<>>
<1>1. CASE UNCHANGED <<up, down>> \/ RunExit \/ (\E j : Greets(j))
  BY <1>1 DEF Greets, RunExit
<1>2. CASE \E j, ms : Answers(j, ms) /\ Given(j, ms)
  BY <1>2, TakeAt DEF Answers
<1>3. CASE Run
  BY <1>3, ReadingTyped, TakeAt DEF Run
<1>4. CASE Restart
  BY <1>4, RestartShorter
<1> QED
  BY <1>1, <1>2, <1>3, <1>4, DaemonShape DEF DaemonNet

\* Every step keeps CommandInv: a command under way fits what its sender does.
LEMMA CommandStep ==
    ASSUME TypeOK, HoldInv, ServeInv, DuplexInv, CommandInv, Next
    PROVE  CommandInv'
<1>1. CASE Daemon
  <2>0. UNCHANGED <<pc, polling, inv, sk, jobid>>
    BY <1>1, DaemonLeavesClients DEF clientVars
  <2> SUFFICES ASSUME NEW d \in Clients, sk[d] # NoConn
               PROVE  /\ up'[sk[d]] # <<>> => CommandOf(d, Head(up'[sk[d]]))
                      /\ phase' = "run" /\ sc' = sk[d] =>
                            pc[d] = "stream" /\ ~polling[d] /\ up'[sk[d]] = <<>> /\ down'[sk[d]] = <<>>
    BY <2>0 DEF CommandInv, CommandOf
  <2>1. sk[d] \in Conns
    BY HeldTyped
  <2>2. up'[sk[d]] # <<>> => CommandOf(d, Head(up'[sk[d]]))
    BY <1>1, <2>1, DaemonUp DEF CommandInv
  <2>3. ASSUME phase' = "run", sc' = sk[d]
        PROVE  pc[d] = "stream" /\ ~polling[d] /\ up'[sk[d]] = <<>> /\ down'[sk[d]] = <<>>
    <3>1. CASE phase = "run" /\ sc' = sc /\ sc \in Conns /\ up'[sc] = up[sc] /\ down'[sc] = down[sc]
      BY <2>3, <3>1 DEF CommandInv
    <3>2. CASE Run
      <4>1. sc' = sc /\ up[sc] # <<>> /\ Head(up[sc]).t = "RUN" /\ down' = down /\ Take(sc)
        BY <3>2 DEF Run, Reading, Line
      <4>2. pc[d] = "stream" /\ ~polling[d]
        <5>1. sc = sk[d]
          BY <2>3, <4>1
        <5>2. CommandOf(d, Head(up[sc]))
          BY <4>1, <5>1 DEF CommandInv
        <5> QED
          BY <4>1, <5>2 DEF CommandOf
      <4>3. up'[sk[d]] = <<>>
        BY <2>1, <2>3, <4>1, TakeAt
      <4>4. down'[sk[d]] = <<>>
        BY <2>3, <4>1 DEF DuplexInv
      <4> QED
        BY <4>2, <4>3, <4>4
    <3> QED
      BY <1>1, <2>3, <3>1, <3>2, RunUntouched
  <2> QED
    BY <2>2, <2>3
<1>2. CASE Drop
  <2>1. PICK i \in Conns : NetDrop(i)
    BY <1>2 DEF Drop
  <2>2. UNCHANGED <<pc, polling, inv, sk, jobid, phase, sc>>
    BY <1>2 DEF Drop, clientVars, daemonVars
  <2>3. \A j \in Conns : (up'[j] = up[j] \/ up'[j] = <<>>) /\ (down[j] = <<>> => down'[j] = <<>>)
    BY <2>1, DropShorter DEF Shorter
  <2> QED
    BY <2>2, <2>3, HeldTyped DEF CommandInv, CommandOf
<1>3. CASE Quiescent
  BY <1>3 DEF Quiescent, vars, netVars, clientVars, daemonVars, CommandInv, CommandOf
<1>4. CASE Client
  <2>0. UNCHANGED <<phase, sc>> /\ (phase = "run" => send[sc] = "open" /\ sc # NoConn)
    BY <1>4 DEF Client, daemonVars, ServeInv
  <2>1. PICK c \in Clients : ClientStep(c)
    BY <1>4 DEF Client, ClientStep
  <2>2. Others(c)
    BY <2>1, ClientOthers
  <2> SUFFICES ASSUME NEW d \in Clients, sk'[d] # NoConn
               PROVE  /\ up'[sk'[d]] # <<>> => \E m : m = Head(up'[sk'[d]]) /\ CommandOf(d, m)'
                      /\ phase = "run" /\ sc = sk'[d] =>
                            pc'[d] = "stream" /\ ~polling'[d] /\ up'[sk'[d]] = <<>> /\ down'[sk'[d]] = <<>>
    BY <2>0 DEF CommandInv, CommandOf
  <2>3. CASE d # c
    <3>1. sk'[d] = sk[d] /\ sk[d] \in Conns
      BY <2>2, <2>3, HeldTyped DEF Others
    <3>2. up'[sk[d]] = up[sk[d]] /\ down'[sk[d]] = down[sk[d]]
      <4>1. CASE Stay(c)
        BY <2>3, <3>1, <4>1, StayLines, OwnConnection
      <4>2. CASE End(c)
        BY <2>3, <3>1, <4>2, EndLines, OwnConnection
      <4>3. CASE Begin(c)
        BY <4>3 DEF Begin, netVars
      <4>4. CASE Open(c)
        BY <2>3, <3>1, <4>4, OpenLines
      <4> QED
        BY <2>1, <4>1, <4>2, <4>3, <4>4, ClientShape
    <3>3. \A m : CommandOf(d, m) => CommandOf(d, m)'
      BY <2>2, <2>3 DEF Others, CommandOf
    <3>4. pc'[d] = pc[d] /\ polling'[d] = polling[d]
      BY <2>2, <2>3 DEF Others
    <3>5. up[sk[d]] # <<>> => CommandOf(d, Head(up[sk[d]]))
      BY <3>1 DEF CommandInv
    <3>6. phase = "run" /\ sc = sk[d] =>
             pc[d] = "stream" /\ ~polling[d] /\ up[sk[d]] = <<>> /\ down[sk[d]] = <<>>
      BY <3>1 DEF CommandInv
    <3> QED
      BY <3>1, <3>2, <3>3, <3>4, <3>5, <3>6
  <2>4. CASE d = c
    <3>1. CASE Stay(c)
      <4>1. sk' = sk /\ down[sk[c]] # <<>> /\ sk[c] # NoConn
        BY <3>1, StayLines DEF Stay
      <4>2. ~(phase = "run" /\ sc = sk[c])
        BY <4>1 DEF CommandInv
      <4>3. CASE pc[c] = "stream"
        <5>1. up'[sk[c]] = <<>>
          BY <3>1, <4>3, StayLines DEF Stay, ReadOn
        <5> QED
          BY <2>4, <4>1, <4>2, <5>1
      <4>4. CASE pc[c] # "stream"
        <5>1. PICK m \in Cmds : ReadSend(c, m) /\ CommandOf(c, m)'
          BY <2>1, <3>1, <4>4, SentCommand
        <5>2. up'[sk[c]] = <<>> \/ up'[sk[c]] = <<m>>
          BY <3>1, <5>1, SendLine
        <5>3. Head(<<m>>) = m
          OBVIOUS
        <5> QED
          BY <2>4, <4>1, <4>2, <5>1, <5>2, <5>3
      <4> QED
        BY <4>3, <4>4
    <3>2. CASE End(c)
      BY <2>4, <3>2, EndLines
    <3>3. CASE Begin(c)
      BY <2>4, <3>3 DEF Begin, HoldInv, Waiting
    <3>4. CASE Open(c)
      BY <2>0, <2>4, <3>4, OpenLines
    <3> QED
      BY <2>1, <3>1, <3>2, <3>3, <3>4, ClientShape
  <2> QED
    BY <2>3, <2>4
<1> QED
  BY <1>1, <1>2, <1>3, <1>4 DEF Next

-----------------------------------------------------------------------------
(* SlotInv and the numbering of jobs.                                       *)

\* The steps of the daemon, seen from the counters: only RUNA and a restart
\* move them.
Counts == UNCHANGED <<jn, nsub, life>>

\* Only Runa and Restart move the counter of next_jobid and its ghosts.
LEMMA CounterSteps ==
    ASSUME Daemon PROVE Counts \/ Runa \/ Restart
<1> USE DEF Counts
<1>1. CASE Accept \/ SessionEof \/ Auth \/ Run \/ RunLost
  BY <1>1 DEF Accept, SessionEof, Auth, Run, RunLost, slotVars
<1>2. CASE Ping \/ Stat \/ Result \/ Cwd \/ CwdFails
  BY <1>2 DEF Ping, Stat, Result, Answer, Cwd, CwdFails, slotVars
<1>3. CASE JobStart \/ JobExit \/ JobFail \/ RunExit
  BY <1>3 DEF JobStart, JobExit, JobFail, RunExit, slotVars
<1>4. CASE ControlStep
  BY <1>4 DEF ControlStep, CtlAccept, CtlEof, CtlAuth, CtlCommand, slotVars
<1> QED
  BY <1>1, <1>2, <1>3, <1>4 DEF Daemon, SessionStep, CommandEnds

\* RUNA moves the counter by one, with a wrap after JobMax (session.c next_jobid).
LEMMA RunaCounts ==
    ASSUME TypeOK, Runa
    PROVE  /\ jn' = NextJobid /\ nsub' = nsub + 1 /\ life' = life /\ files' = files
           /\ job'.uid = <<life, nsub + 1>> /\ job'.jobid = NextJobid /\ job'.dir = Line.dir
           /\ phase' = "pending" /\ res' = [res EXCEPT !.valid = FALSE] /\ ~res'.valid
           /\ jn \in Nat /\ nsub \in Nat /\ life \in Nat /\ jn <= JobMax /\ JobMax \in Nat /\ JobMax > 0
           /\ NextJobid = IF jn = JobMax THEN 1 ELSE jn + 1
<1>1. jn \in 0..JobMax /\ nsub \in Nat /\ life \in Nat /\ JobMax \in Nat /\ JobMax > 0
  BY GcdsdAssumption DEF TypeOK, DaemonTypeOK
<1>2. NextJobid = IF jn = JobMax THEN 1 ELSE jn + 1
  BY <1>1 DEF NextJobid
<1>3. jn' = NextJobid /\ nsub' = nsub + 1 /\ life' = life /\ files' = files /\ phase' = "pending"
      /\ res' = [res EXCEPT !.valid = FALSE]
      /\ job' = [pending |-> TRUE, jobid |-> NextJobid, uid |-> <<life, nsub + 1>>, dir |-> Line.dir]
  BY DEF Runa
<1>4. job'.uid = <<life, nsub + 1>> /\ job'.jobid = NextJobid /\ job'.dir = Line.dir
  BY <1>3
<1>5. ~res'.valid
  BY <1>3 DEF TypeOK, DaemonTypeOK, Results
<1> QED
  BY <1>1, <1>2, <1>3, <1>4, <1>5

\* Every step keeps SlotInv: result slot and running job belong to the last number.
LEMMA SlotStep ==
    ASSUME TypeOK, ServeInv, SlotInv, Next PROVE SlotInv'
<1> USE DEF SlotInv
<1>1. CASE Client \/ Drop
  BY <1>1 DEF Client, Drop, daemonVars
<1>2. CASE Quiescent
  BY <1>2 DEF Quiescent, vars, daemonVars
<1>3. CASE Daemon
  <2>0. res \in Results /\ job \in Jobs /\ files \in [Dirs \cup {TmpDir} -> Uids]
    BY DEF TypeOK, DaemonTypeOK
  <2>1. CASE Accept
    <3>1. UNCHANGED <<nsub, jn, res, life, files>> /\ phase' \notin {"pending", "job"}
      BY <2>1 DEF Accept
    <3> QED
      BY <3>1
  <2>2. CASE SessionEof \/ RunLost \/ Auth
    <3>1. UNCHANGED <<nsub, jn, res, life, files>> /\ phase' \notin {"pending", "job"}
      BY <2>2 DEF SessionEof, RunLost, Auth, CloseSession, slotVars, Reading
    <3> QED
      BY <3>1
  <2>3. CASE Ping \/ Stat \/ Result \/ Cwd \/ CwdFails \/ RunExit
    <3>1. UNCHANGED <<nsub, jn, res, life, files>> /\ phase' \notin {"pending", "job"}
      BY <2>3 DEF Ping, Stat, Result, Answer, Cwd, CwdFails, RunExit, slotVars, Reading
    <3> QED
      BY <3>1
  <2>4. CASE Run
    <3>1. UNCHANGED <<nsub, jn, life, files>> /\ phase' \notin {"pending", "job"}
      BY <2>4 DEF Run
    <3>2. ~res'.valid
      BY <2>0, <2>4 DEF Run, Results
    <3> QED
      BY <3>1, <3>2
  <2>5. CASE Runa
    <3>1. nsub' > 0 /\ jn' > 0 /\ nsub' = nsub + 1 /\ life' = life /\ jn' = NextJobid
      BY <2>5, RunaCounts
    <3> QED
      BY <2>5, <3>1, RunaCounts
  <2>6. CASE JobStart
    <3>1. /\ UNCHANGED <<nsub, jn, res, life>> /\ phase \in {"pending", "job"}
          /\ job' = [job EXCEPT !.pending = FALSE]
      BY <2>6 DEF JobStart
    <3>2. job'.uid = job.uid /\ job'.jobid = job.jobid
      BY <2>0, <3>1 DEF Jobs
    <3> QED
      BY <3>1, <3>2
  <2>7. CASE JobExit
    <3>1. /\ UNCHANGED <<nsub, jn, life>> /\ phase = "job" /\ phase' = "accept"
          /\ res' = [valid |-> TRUE, jobid |-> job.jobid, uid |-> job.uid]
          /\ files' = [files EXCEPT ![CapturePath] = job.uid]
      BY <2>7 DEF JobExit
    <3>2. res'.uid = job.uid /\ res'.jobid = job.jobid
      BY <3>1
    <3>3. ~TmpRel => files'[TmpDir] = job.uid
      BY <2>0, <3>1 DEF CapturePath
    <3> QED
      BY <3>1, <3>2, <3>3
  <2>8. CASE JobFail
    <3>1. UNCHANGED <<nsub, jn, life>> /\ phase' = "accept"
      BY <2>8 DEF JobFail
    <3>2. ~res'.valid
      BY <2>0, <2>8 DEF JobFail, Results
    <3> QED
      BY <3>1, <3>2
  <2>9. CASE ControlStep
    <3>1. UNCHANGED <<nsub, jn, life, res, job, files, phase>>
      BY <2>9 DEF ControlStep, CtlAccept, CtlEof, CtlAuth, CtlCommand, slotVars
    <3> QED
      BY <3>1
  <2>10. CASE Restart
    <3>1. nsub' = 0 /\ phase' = "accept" /\ res' = NullRes
      BY <2>10 DEF Restart
    <3>2. ~res'.valid
      BY <3>1 DEF NullRes
    <3> QED
      BY <3>1, <3>2
  <2> QED
    BY <1>3, <2>1, <2>2, <2>3, <2>4, <2>5, <2>6, <2>7, <2>8, <2>9, <2>10
       DEF Daemon, SessionStep, CommandEnds
<1> QED
  BY <1>1, <1>2, <1>3 DEF Next

\* Numbers stay attached to their jobs, whatever the daemon does.
LEMMA NumberedStep ==
    ASSUME TypeOK, Daemon, NEW n \in Nat, NEW u \in Uids, Numbered(n, u)
    PROVE  Numbered(n, u)'
<1>0. u[1] \in Nat /\ u[2] \in Nat
  BY DEF Uids
<1>1. CASE Counts
  BY <1>1 DEF Counts, Numbered
<1>2. CASE Runa
  <2>1. /\ jn' = NextJobid /\ nsub' = nsub + 1 /\ life' = life
        /\ jn \in Nat /\ nsub \in Nat /\ life \in Nat /\ jn <= JobMax /\ JobMax \in Nat /\ JobMax > 0
        /\ NextJobid = IF jn = JobMax THEN 1 ELSE jn + 1
    BY <1>2, RunaCounts
  <2>2. ASSUME u[1] = life
        PROVE  /\ u[2] \in 1..nsub' /\ n \in 1..JobMax
               /\ nsub' < u[2] + JobMax =>
                     jn' = n + (nsub' - u[2]) \/ jn' + JobMax = n + (nsub' - u[2])
    BY <1>0, <2>1, <2>2 DEF Numbered
  <2> QED
    BY <2>1, <2>2 DEF Numbered
<1>3. CASE Restart
  <2>1. life \in Nat /\ life' = life + 1
    BY <1>3 DEF Restart, TypeOK, DaemonTypeOK
  <2> QED
    BY <1>0, <2>1 DEF Numbered
<1> QED
  BY <1>1, <1>2, <1>3, CounterSteps

\* The number RUNA answers with.
LEMMA NumberedNew ==
    ASSUME TypeOK, Runa, NEW n, n = NextJobid, NEW u, u = <<life, nsub + 1>>
    PROVE  Numbered(n, u)'
<1>1. /\ jn' = NextJobid /\ nsub' = nsub + 1 /\ life' = life
      /\ jn \in Nat /\ nsub \in Nat /\ life \in Nat /\ jn <= JobMax /\ JobMax \in Nat /\ JobMax > 0
      /\ NextJobid = IF jn = JobMax THEN 1 ELSE jn + 1
  BY RunaCounts
<1>2. u[1] = life /\ u[2] = nsub + 1
  BY <1>1
<1> QED
  BY <1>1, <1>2 DEF Numbered

\* Every step keeps NumberInv: a polling client's number leads to its own job.
LEMMA NumberStep ==
    ASSUME TypeOK, HoldInv, NumberInv, ReplyInv, Next PROVE NumberInv'
<1>1. CASE Daemon
  <2>1. UNCHANGED <<polling, jobid, own>>
    BY <1>1, DaemonLeavesClients DEF clientVars
  <2>2. ASSUME NEW c \in Clients, polling[c] PROVE Numbered(jobid[c], own[c])'
    <3>1. PICK n \in Nat, u \in Uids : n = jobid[c] /\ u = own[c]
      BY DEF TypeOK, ClientTypeOK
    <3>2. Numbered(n, u)
      BY <2>2, <3>1 DEF NumberInv
    <3>3. Numbered(n, u)'
      BY <1>1, <3>2, NumberedStep
    <3> QED
      BY <2>1, <3>1, <3>3
  <2> QED
    BY <2>1, <2>2 DEF NumberInv
<1>2. CASE Drop
  BY <1>2 DEF Drop, clientVars, daemonVars, NumberInv, Numbered
<1>3. CASE Quiescent
  BY <1>3 DEF Quiescent, vars, clientVars, daemonVars, NumberInv, Numbered
<1>4. CASE Client
  <2>0. UNCHANGED <<jn, nsub, life>>
    BY <1>4 DEF Client, daemonVars
  <2>1. PICK c \in Clients : ClientStep(c)
    BY <1>4 DEF Client, ClientStep
  <2>2. Others(c)
    BY <2>1, ClientOthers
  <2>3. \A n, u : Numbered(n, u)' <=> Numbered(n, u)
    BY <2>0 DEF Numbered
  <2>4. polling'[c] => \E n, u : n = jobid'[c] /\ u = own'[c] /\ Numbered(n, u)
    <3>1. CASE UNCHANGED <<polling, jobid, own>>
      BY <3>1 DEF NumberInv
    <3>2. CASE Invoke(c)
      BY <3>2 DEF Invoke, TypeOK, ClientTypeOK
    <3>3. CASE Submitted(c)
      <4>1. /\ jobid'[c] = Got(c).id /\ own'[c] = Got(c).uid /\ Got(c).t = "JOB"
            /\ Got(c) = Head(down[sk[c]])
        BY <3>3 DEF Submitted, Waits, Got, TypeOK, ClientTypeOK
      <4>2. sk[c] \in Conns /\ sk[c] # NoConn /\ down[sk[c]] # <<>>
        BY <3>3, WaitsTyped DEF Submitted, Waiting
      <4>3. Head(down[sk[c]]) = down[sk[c]][1] /\ 1 \in 1..Len(down[sk[c]])
        BY <4>2 DEF TypeOK, NetTypeOK
      <4>4. ReplyOf(c, Got(c))
        BY <4>1, <4>2, <4>3 DEF ReplyInv
      <4> QED
        BY <4>1, <4>4 DEF ReplyOf
    <3> QED
      BY <2>1, <3>1, <3>2, <3>3 DEF ClientStep, Proceed, OpenFails, Open, Greeted, Authed, CwdDone,
         Refused, Answered, StatMatches, StatBusy, StatIdle, StatOther, StreamOut, StreamExit,
         StreamBroken, ReplyEof, ReplyTimeout, NoReply
  <2>5. ASSUME NEW d \in Clients, polling'[d] PROVE \E n, u : n = jobid'[d] /\ u = own'[d] /\ Numbered(n, u)
    BY <2>2, <2>4, <2>5 DEF Others, NumberInv
  <2> QED
    BY <2>3, <2>5 DEF NumberInv
<1> QED
  BY <1>1, <1>2, <1>3, <1>4 DEF Next

-----------------------------------------------------------------------------
(* What a reply means keeps its meaning.                                    *)

\* What is a client's own, or reused, stays so.
LEMMA MineStep ==
    ASSUME TypeOK, NumberInv, Daemon, NEW c \in Clients, polling[c], NEW u, Mine(c, u)
    PROVE  Mine(c, u)'
<1>0. /\ own' = own /\ own[c] \in Uids /\ own[c][1] \in Nat /\ own[c][2] \in Nat
      /\ life \in Nat /\ nsub \in Nat /\ JobMax \in Nat /\ own[c][1] <= life
  BY DaemonLeavesClients, GcdsdAssumption
     DEF TypeOK, ClientTypeOK, DaemonTypeOK, clientVars, Uids, NumberInv, Numbered
<1>1. CASE Counts
  BY <1>0, <1>1 DEF Counts, Mine, Reused
<1>2. CASE Runa
  BY <1>0, <1>2, RunaCounts DEF Mine, Reused
<1>3. CASE Restart
  BY <1>0, <1>3 DEF Restart, Mine, Reused
<1> QED
  BY <1>1, <1>2, <1>3, CounterSteps

\* Once a result cannot be had any more, it never can.
LEMMA LostStep ==
    ASSUME TypeOK, SlotInv, Daemon, NEW u \in Uids, u[1] <= life, u[1] = life => u[2] <= nsub,
           ~Obtainable(u)
    PROVE  ~Obtainable(u)'
<1> USE DEF Obtainable
<1>0. res \in Results /\ job \in Jobs /\ u[1] \in Nat /\ u[2] \in Nat /\ life \in Nat /\ nsub \in Nat
  BY DEF TypeOK, DaemonTypeOK, Uids
<1>1. CASE Accept
  <2>1. res' = res /\ phase' \notin {"pending", "job"}
    BY <1>1 DEF Accept
  <2> QED
    BY <2>1
<1>2. CASE SessionEof \/ RunLost \/ Auth
  <2>1. res' = res /\ phase' \notin {"pending", "job"}
    BY <1>2 DEF SessionEof, RunLost, Auth, CloseSession, slotVars, Reading
  <2> QED
    BY <2>1
<1>3. CASE Ping \/ Stat \/ Result \/ Cwd \/ CwdFails \/ RunExit
  <2>1. res' = res /\ phase' \notin {"pending", "job"}
    BY <1>3 DEF Ping, Stat, Result, Answer, Cwd, CwdFails, RunExit, slotVars, Reading
  <2> QED
    BY <2>1
<1>4. CASE Run
  <2>1. ~res'.valid /\ phase' \notin {"pending", "job"}
    BY <1>0, <1>4 DEF Run, Results
  <2> QED
    BY <2>1
<1>5. CASE Runa
  <2>1. ~res'.valid /\ job'.uid = <<life, nsub + 1>>
    BY <1>5, RunaCounts
  <2>2. u # <<life, nsub + 1>>
    BY <1>0
  <2> QED
    BY <2>1, <2>2
<1>6. CASE JobStart
  <2>1. res' = res /\ phase \in {"pending", "job"} /\ job'.uid = job.uid
    BY <1>0, <1>6 DEF JobStart, Jobs
  <2> QED
    BY <2>1
<1>7. CASE JobExit
  <2>1. phase = "job" /\ phase' = "accept" /\ res'.uid = job.uid
    BY <1>7 DEF JobExit
  <2> QED
    BY <2>1
<1>8. CASE JobFail
  <2>1. ~res'.valid /\ phase' = "accept"
    BY <1>0, <1>8 DEF JobFail, Results
  <2> QED
    BY <2>1
<1>9. CASE ControlStep
  <2>1. UNCHANGED <<res, job, phase>>
    BY <1>9 DEF ControlStep, CtlAccept, CtlEof, CtlAuth, CtlCommand, slotVars
  <2> QED
    BY <2>1
<1>10. CASE Restart
  <2>1. ~res'.valid /\ phase' = "accept"
    BY <1>10 DEF Restart, NullRes
  <2> QED
    BY <2>1
<1> QED
  BY <1>1, <1>2, <1>3, <1>4, <1>5, <1>6, <1>7, <1>8, <1>9, <1>10
     DEF Daemon, SessionStep, CommandEnds

\* LostStep for the job a polling client waits for.
LEMMA OwnLostStep ==
    ASSUME TypeOK, SlotInv, NumberInv, Daemon, NEW c \in Clients, polling[c], ~Obtainable(own[c])
    PROVE  ~Obtainable(own[c])'
<1>1. PICK u \in Uids : u = own[c]
  BY DEF TypeOK, ClientTypeOK
<1>2. u[1] <= life /\ (u[1] = life => u[2] <= nsub)
  BY <1>1 DEF NumberInv, Numbered, TypeOK, DaemonTypeOK
<1>3. ~Obtainable(u)'
  BY <1>1, <1>2, LostStep
<1>4. own' = own
  BY DaemonLeavesClients DEF clientVars
<1> QED
  BY <1>1, <1>3, <1>4 DEF Obtainable

\* What a reply under way says stays true whatever the daemon does next.
LEMMA ReplyOfStep ==
    ASSUME TypeOK, SlotInv, NumberInv, Daemon, NEW c \in Clients, NEW m \in Replies, ReplyOf(c, m)
    PROVE  ReplyOf(c, m)'
<1>0. UNCHANGED <<polling, jobid, own>> /\ m.id \in Nat /\ m.uid \in Uids
  BY DaemonLeavesClients DEF clientVars, Replies
<1>1. m.t = "JOB" => ~polling'[c] /\ Numbered(m.id, m.uid)'
  <2>1. ASSUME m.t = "JOB" PROVE Numbered(m.id, m.uid)'
    <3>1. Numbered(m.id, m.uid)
      BY <2>1 DEF ReplyOf
    <3> QED
      BY <1>0, <3>1, NumberedStep
  <2> QED
    BY <1>0, <2>1 DEF ReplyOf
<1>2. ASSUME polling[c]
      PROVE  /\ m.t = "X" => Mine(c, m.uid)'
             /\ m.t = "OUT" /\ ~TmpRel => Mine(c, m.uid)'
  <2>1. Mine(c, m.uid) => Mine(c, m.uid)'
    BY <1>2, MineStep
  <2> QED
    BY <1>2, <2>1 DEF ReplyOf
<1>3. ASSUME polling[c]
      PROVE  /\ m.t = "IDLE" => ~Obtainable(own[c])'
             /\ m.t = "RESULT" /\ m.id # jobid[c] => ~Obtainable(own[c])'
  BY <1>3, OwnLostStep DEF ReplyOf
<1> QED
  BY <1>0, <1>1, <1>2, <1>3 DEF ReplyOf

-----------------------------------------------------------------------------
(* ReplyInv: what the daemon says is true when it says it.                  *)

\* The number of the slot identifies the client's job, until numbers are reused.
LEMMA SlotIsMine ==
    ASSUME TypeOK, SlotInv, NumberInv, NEW c \in Clients, polling[c], res.valid
    PROVE  /\ res.jobid = jobid[c] => Mine(c, res.uid)
           /\ res.jobid # jobid[c] => res.uid # own[c]
<1>1. /\ own[c] \in Uids /\ jobid[c] \in Nat /\ own[c] = <<own[c][1], own[c][2]>>
      /\ own[c][1] \in Nat /\ own[c][2] \in Nat
  BY DEF TypeOK, ClientTypeOK, Uids
<1>2. /\ life \in Nat /\ nsub \in Nat /\ jn \in Nat /\ JobMax \in Nat /\ jn <= JobMax
  BY GcdsdAssumption DEF TypeOK, DaemonTypeOK
<1>3. res.uid = <<life, nsub>> /\ res.jobid = jn /\ nsub > 0 /\ jn > 0
  BY DEF SlotInv
<1>4. Numbered(jobid[c], own[c])
  BY DEF NumberInv
<1>5. ASSUME jn = jobid[c] PROVE Mine(c, <<life, nsub>>)
  <2>1. CASE own[c][1] = life /\ nsub < own[c][2] + JobMax
    <3>1. nsub = own[c][2]
      BY <1>1, <1>2, <1>4, <1>5, <2>1 DEF Numbered
    <3> QED
      BY <1>1, <2>1, <3>1 DEF Mine
  <2>2. CASE ~(own[c][1] = life /\ nsub < own[c][2] + JobMax)
    BY <1>1, <1>2, <2>2 DEF Mine, Reused
  <2> QED
    BY <2>1, <2>2
<1>6. ASSUME jn # jobid[c], own[c] = <<life, nsub>> PROVE FALSE
  <2>1. own[c][1] = life /\ own[c][2] = nsub
    BY <1>6, <1>2
  <2> QED
    BY <1>1, <1>2, <1>3, <1>4, <1>6, <2>1, GcdsdAssumption DEF Numbered
<1> QED
  BY <1>3, <1>5, <1>6

\* A one-line reply is true when the daemon gives it.
LEMMA GivenOneOf ==
    ASSUME TypeOK, SlotInv, NumberInv, CommandInv, Daemon,
           NEW d \in Clients, sk[d] # NoConn, up[sk[d]] # <<>>,
           NEW r \in Replies, GivenOne(sk[d], r)
    PROVE  ReplyOf(d, r)'
<1>0. UNCHANGED <<polling, jobid, own>>
  BY DaemonLeavesClients DEF clientVars
<1>1. CASE r.t \in {"ERR", "BUSY", "OK"}
  BY <1>1 DEF ReplyOf
<1>2. CASE r.t = "IDLE" /\ Stat /\ ~res.valid
  <2>1. UNCHANGED <<res, phase>> /\ phase = "session"
    BY <1>2 DEF Stat, Answer, slotVars, Reading
  <2>2. ~Obtainable(own[d])'
    BY <1>2, <2>1 DEF Obtainable
  <2> QED
    BY <1>2, <2>2 DEF ReplyOf
<1>3. CASE r.t = "RESULT" /\ Stat /\ res.valid /\ r.id = res.jobid
  <2>1. UNCHANGED <<res, phase>> /\ phase = "session"
    BY <1>3 DEF Stat, Answer, slotVars, Reading
  <2>2. polling[d] /\ r.id # jobid[d] => ~Obtainable(own[d])'
    BY <1>0, <1>3, <2>1, SlotIsMine DEF Obtainable
  <2> QED
    BY <1>0, <1>3, <2>2 DEF ReplyOf
<1>4. CASE r.t = "JOB" /\ sk[d] = sc /\ Runa /\ r.id = NextJobid /\ r.uid = <<life, nsub + 1>>
  <2>1. Head(up[sk[d]]).t = "RUNA"
    BY <1>4 DEF Runa, Line
  <2>2. ~polling[d]
    BY <2>1 DEF CommandInv, CommandOf
  <2>3. Numbered(r.id, r.uid)'
    BY <1>4, NumberedNew
  <2> QED
    BY <1>0, <1>4, <2>2, <2>3 DEF ReplyOf
<1> QED
  BY <1>1, <1>2, <1>3, <1>4 DEF GivenOne

\* A capture and an exit code are the asked job's when the daemon sends them.
LEMMA GivenTwoOf ==
    ASSUME TypeOK, SlotInv, NumberInv, CommandInv, Daemon,
           NEW d \in Clients, sk[d] # NoConn, up[sk[d]] # <<>>,
           NEW o \in Replies, NEW x \in Replies, GivenTwo(sk[d], o, x)
    PROVE  ReplyOf(d, o)' /\ ReplyOf(d, x)'
<1>0. UNCHANGED <<polling, jobid, own>>
  BY DaemonLeavesClients DEF clientVars
<1>1. polling[d] /\ jobid[d] = res.jobid /\ res.valid
  BY DEF GivenTwo, CommandInv, CommandOf
<1>2. Mine(d, res.uid)
  BY <1>1, SlotIsMine
<1>3. ~TmpRel => files[CapturePath] = res.uid
  BY <1>1 DEF SlotInv, CapturePath
<1>4. Mine(d, x.uid)' /\ (~TmpRel => Mine(d, o.uid)')
  BY <1>1, <1>2, <1>3, MineStep DEF GivenTwo
<1> QED
  BY <1>4 DEF ReplyOf, GivenTwo

\* Every step of the daemon keeps ReplyInv.
LEMMA DaemonReplyStep ==
    ASSUME TypeOK, HoldInv, ServeInv, DuplexInv, SlotInv, NumberInv, CommandInv, ReplyInv, Daemon
    PROVE  ReplyInv'
<1>0. UNCHANGED <<polling, jobid, own, got, sk, pc>>
  BY DaemonLeavesClients DEF clientVars
<1> SUFFICES ASSUME NEW d \in Clients, sk[d] # NoConn
             PROVE  /\ \A k \in 1..Len(down'[sk[d]]) : \E m : m = down'[sk[d]][k] /\ ReplyOf(d, m)'
                    /\ polling[d] /\ ~TmpRel /\ down'[sk[d]] # <<>> /\ Head(down'[sk[d]]).t = "X"
                          => Mine(d, got[d])'
  BY <1>0 DEF ReplyInv, ReplyOf
<1> DEFINE i == sk[d]
<1>1. i \in Conns /\ down[i] \in Seq(Replies)
  BY HeldTyped DEF TypeOK, NetTypeOK
<1>2. ASSUME Shorter(down'[i], down[i])
      PROVE  /\ \A k \in 1..Len(down'[i]) : \E m : m = down'[i][k] /\ ReplyOf(d, m)'
             /\ polling[d] /\ ~TmpRel /\ down'[i] # <<>> /\ Head(down'[i]).t = "X" => Mine(d, got[d])'
  <2>1. ASSUME NEW k \in 1..Len(down'[i]) PROVE \E m : m = down'[i][k] /\ ReplyOf(d, m)'
    <3>1. k \in 1..Len(down[i]) /\ down'[i][k] = down[i][k] /\ down[i][k] \in Replies
      BY <1>1, <1>2, <2>1 DEF Shorter
    <3>2. PICK m \in Replies : m = down[i][k]
      BY <3>1
    <3>3. ReplyOf(d, m)
      BY <3>1, <3>2 DEF ReplyInv
    <3>4. ReplyOf(d, m)'
      BY <3>3, ReplyOfStep
    <3> QED
      BY <3>1, <3>2, <3>4
  <2>2. polling[d] /\ ~TmpRel /\ down'[i] # <<>> /\ Head(down'[i]).t = "X" => Mine(d, got[d])'
    <3>1. ASSUME polling[d], ~TmpRel, down'[i] # <<>>, Head(down'[i]).t = "X"
          PROVE  \E u : u = got[d] /\ Mine(d, u)'
      <4>1. Mine(d, got[d])
        BY <1>2, <3>1 DEF Shorter, ReplyInv
      <4>2. PICK u : u = got[d]
        OBVIOUS
      <4> QED
        BY <3>1, <4>1, <4>2, MineStep
    <3> QED
      BY <1>0, <3>1 DEF Mine, Reused
  <2> QED
    BY <2>1, <2>2
<1>3. ASSUME down'[i] = down[i]
      PROVE  /\ \A k \in 1..Len(down'[i]) : \E m : m = down'[i][k] /\ ReplyOf(d, m)'
             /\ polling[d] /\ ~TmpRel /\ down'[i] # <<>> /\ Head(down'[i]).t = "X" => Mine(d, got[d])'
  <2>1. Shorter(down'[i], down[i])
    BY <1>1, <1>3 DEF Shorter
  <2> QED
    BY <1>2, <2>1
<1>4. ASSUME NEW m \in Replies, ReplyOf(d, m)', m.t = "X" => ~polling[d],
             down'[i] = <<>> \/ down'[i] = <<m>>
      PROVE  /\ \A k \in 1..Len(down'[i]) : \E r : r = down'[i][k] /\ ReplyOf(d, r)'
             /\ polling[d] /\ ~TmpRel /\ down'[i] # <<>> /\ Head(down'[i]).t = "X" => Mine(d, got[d])'
  <2>1. CASE down'[i] = <<>>
    BY <2>1
  <2>2. CASE down'[i] = <<m>>
    BY <1>4, <2>2
  <2> QED
    BY <1>4, <2>1, <2>2
<1>5. CASE UNCHANGED <<up, down>> \/ Run
  BY <1>3, <1>5 DEF Run
<1>6. CASE \E j : Greets(j)
  <2>1. PICK j : Greets(j)
    BY <1>6
  <2>2. <<Rep("GCDS")>> \in Seq(Replies) /\ Rep("GCDS") \in Replies /\ Rep("GCDS").t = "GCDS"
    BY RepTyped DEF Rep
  <2>3. CASE j # i
    <3>1. down'[i] = down[i]
      BY <1>1, <2>1, <2>2, <2>3, ReplyAt DEF Greets, Greet
    <3> QED
      BY <1>3, <3>1
  <2>4. CASE j = i
    <3>1. down[i] = <<>>
      BY <1>1, <2>1, <2>4 DEF Greets, DuplexInv
    <3>2. PICK m \in Replies : m = Rep("GCDS")
      BY <2>2
    <3>3. down'[i] = <<>> \/ down'[i] = <<m>>
      BY <1>1, <2>1, <2>2, <2>4, <3>1, <3>2, ReplyAt DEF Greets, Greet
    <3>4. ReplyOf(d, m)'
      BY <2>2, <3>2 DEF ReplyOf
    <3> QED
      BY <1>4, <2>2, <3>2, <3>3, <3>4
  <2> QED
    BY <2>3, <2>4
<1>7. CASE \E j, ms : Answers(j, ms) /\ Given(j, ms)
  <2>1. PICK j, ms : Answers(j, ms) /\ Given(j, ms)
    BY <1>7
  <2>2. CASE j # i
    <3>1. down'[i] = down[i]
      BY <1>1, <2>1, <2>2, ReplyAt DEF Answers
    <3> QED
      BY <1>3, <3>1
  <2>3. CASE j = i
    <3>0. up[i] # <<>> /\ down[i] = <<>>
      BY <2>1, <2>3 DEF Answers, DuplexInv
    <3>1. down'[i] = <<>> \/ down'[i] = ms
      BY <1>1, <2>1, <2>3, <3>0, ReplyAt DEF Answers
    <3>2. CASE \E r \in Replies : ms = <<r>> /\ GivenOne(j, r)
      <4>1. PICK r \in Replies : ms = <<r>> /\ GivenOne(i, r)
        BY <2>3, <3>2
      <4>2. ReplyOf(d, r)'
        BY <3>0, <4>1, GivenOneOf
      <4>3. r.t # "X"
        BY <4>1 DEF GivenOne
      <4> QED
        BY <1>4, <3>1, <4>1, <4>2, <4>3
    <3>3. CASE \E o, x \in Replies : ms = <<o, x>> /\ GivenTwo(j, o, x)
      <4>1. PICK o \in Replies, x \in Replies : ms = <<o, x>> /\ GivenTwo(i, o, x)
        BY <2>3, <3>3
      <4>2. ReplyOf(d, o)' /\ ReplyOf(d, x)'
        BY <3>0, <4>1, GivenTwoOf
      <4>3. o.t # "X"
        BY <4>1 DEF GivenTwo
      <4>4. CASE down'[i] = <<>>
        BY <4>4
      <4>5. CASE down'[i] = <<o, x>>
        BY <4>2, <4>3, <4>5
      <4> QED
        BY <3>1, <4>1, <4>4, <4>5
    <3> QED
      BY <2>1, <3>2, <3>3 DEF Given
  <2> QED
    BY <2>2, <2>3
<1>8. CASE RunExit
  <2>1. PICK m \in Replies : m.t \in {"X", "ERR"} /\ <<m>> \in Seq(Replies) /\ Reply(sc, <<m>>)
    BY <1>8, RunExitReply
  <2>2. sc \in Conns /\ phase = "run"
    BY <1>8, RunExitReply
  <2>3. CASE sc # i
    <3>1. down'[i] = down[i]
      BY <1>1, <2>1, <2>2, <2>3, ReplyAt
    <3> QED
      BY <1>3, <3>1
  <2>4. CASE sc = i
    <3>1. ~polling[d] /\ down[i] = <<>>
      BY <2>2, <2>4 DEF CommandInv
    <3>2. down'[i] = <<>> \/ down'[i] = <<m>>
      BY <1>1, <2>1, <2>4, <3>1, ReplyAt
    <3>3. ReplyOf(d, m)'
      BY <1>0, <2>1, <3>1 DEF ReplyOf
    <3> QED
      BY <1>4, <3>1, <3>2, <3>3
  <2> QED
    BY <2>3, <2>4
<1>9. CASE Restart
  BY <1>1, <1>2, <1>9, RestartShorter
<1> QED
  BY <1>5, <1>6, <1>7, <1>8, <1>9, DaemonShape DEF DaemonNet

\* Steps that leave the daemon alone do not change what replies mean.
LEMMA SameMeaning ==
    ASSUME UNCHANGED daemonVars, NEW d, polling'[d] = polling[d], jobid'[d] = jobid[d], own'[d] = own[d]
    PROVE  /\ \A m : ReplyOf(d, m)' <=> ReplyOf(d, m)
           /\ \A u : Mine(d, u)' <=> Mine(d, u)
           /\ Obtainable(own[d])' <=> Obtainable(own[d])
BY DEF daemonVars, ReplyOf, Mine, Reused, Numbered, Obtainable

\* ReplyInv for one client.
ReplyInvOf(d) ==
    sk[d] # NoConn =>
        /\ \A k \in 1..Len(down[sk[d]]) : ReplyOf(d, down[sk[d]][k])
        /\ polling[d] /\ ~TmpRel /\ down[sk[d]] # <<>> /\ Head(down[sk[d]]).t = "X" => Mine(d, got[d])

\* A client whose state and replies do not change keeps its part of ReplyInv.
LEMMA SameReplies ==
    ASSUME ReplyInv, UNCHANGED daemonVars, NEW d \in Clients,
           polling'[d] = polling[d], jobid'[d] = jobid[d], own'[d] = own[d], got'[d] = got[d],
           sk'[d] = sk[d], sk[d] # NoConn => Shorter(down'[sk[d]], down[sk[d]])
    PROVE  ReplyInvOf(d)'
<1> SUFFICES ASSUME sk[d] # NoConn
             PROVE  /\ \A k \in 1..Len(down'[sk[d]]) : \E m : m = down'[sk[d]][k] /\ ReplyOf(d, m)'
                    /\ polling[d] /\ ~TmpRel /\ down'[sk[d]] # <<>> /\ Head(down'[sk[d]]).t = "X"
                          => \E u : u = got[d] /\ Mine(d, u)'
  BY DEF ReplyInvOf, ReplyOf, Mine, Reused
<1>1. Shorter(down'[sk[d]], down[sk[d]])
  OBVIOUS
<1>2. ASSUME NEW k \in 1..Len(down'[sk[d]]) PROVE \E m : m = down'[sk[d]][k] /\ ReplyOf(d, m)'
  <2>1. k \in 1..Len(down[sk[d]]) /\ down'[sk[d]][k] = down[sk[d]][k]
    BY <1>1, <1>2 DEF Shorter
  <2>2. PICK m : m = down[sk[d]][k]
    OBVIOUS
  <2>3. ReplyOf(d, m)
    BY <2>1, <2>2 DEF ReplyInv
  <2> QED
    BY <2>1, <2>2, <2>3, SameMeaning
<1>3. ASSUME polling[d], ~TmpRel, down'[sk[d]] # <<>>, Head(down'[sk[d]]).t = "X"
      PROVE  \E u : u = got[d] /\ Mine(d, u)'
  <2>1. Mine(d, got[d])
    BY <1>1, <1>3 DEF Shorter, ReplyInv
  <2> QED
    BY <2>1, SameMeaning
<1> QED
  BY <1>2, <1>3

\* Every step keeps ReplyInv: no reply under way is stale in a way that misleads.
LEMMA ReplyStep ==
    ASSUME TypeOK, HoldInv, ServeInv, DuplexInv, SlotInv, NumberInv, CommandInv, ReplyInv, Next
    PROVE  ReplyInv'
<1> SUFFICES ASSUME ~Daemon PROVE \A d \in Clients : ReplyInvOf(d)'
  BY DaemonReplyStep DEF ReplyInv, ReplyInvOf
<1>s. \A j \in Conns : Shorter(down[j], down[j])
  BY DEF Shorter, TypeOK, NetTypeOK
<1>1. CASE Drop
  <2>1. PICK i \in Conns : NetDrop(i)
    BY <1>1 DEF Drop
  <2>2. UNCHANGED <<clientVars, daemonVars>>
    BY <1>1 DEF Drop
  <2>3. UNCHANGED <<polling, jobid, own, got, sk>>
    BY <2>2 DEF clientVars
  <2> QED
    BY <2>1, <2>2, <2>3, DropShorter, HeldTyped, SameReplies
<1>2. CASE Quiescent
  <2>1. UNCHANGED <<polling, jobid, own, got, sk, down, daemonVars>>
    BY <1>2 DEF Quiescent, vars, netVars, clientVars
  <2> QED
    BY <1>s, <2>1, HeldTyped, SameReplies
<1>3. CASE Client
  <2>0. UNCHANGED daemonVars
    BY <1>3 DEF Client
  <2>1. PICK c \in Clients : ClientStep(c)
    BY <1>3 DEF Client, ClientStep
  <2>2. Others(c)
    BY <2>1, ClientOthers
  <2>3. ASSUME NEW d \in Clients, d # c PROVE ReplyInvOf(d)'
    <3>1. /\ polling'[d] = polling[d] /\ jobid'[d] = jobid[d] /\ own'[d] = own[d]
          /\ got'[d] = got[d] /\ sk'[d] = sk[d]
      BY <2>2, <2>3 DEF Others
    <3>2. ASSUME sk[d] # NoConn PROVE sk[d] \in Conns /\ down'[sk[d]] = down[sk[d]]
      <4>0. sk[d] \in Conns
        BY <3>2, HeldTyped
      <4>1. CASE Stay(c)
        BY <2>3, <3>2, <4>0, <4>1, StayLines, OwnConnection
      <4>2. CASE End(c)
        BY <2>3, <3>2, <4>0, <4>2, EndLines, OwnConnection
      <4>3. CASE Begin(c)
        BY <4>0, <4>3 DEF Begin, netVars
      <4>4. CASE Open(c)
        BY <2>3, <4>0, <4>4, OpenLines
      <4> QED
        BY <2>1, <4>1, <4>2, <4>3, <4>4, ClientShape
    <3> QED
      BY <1>s, <2>0, <3>1, <3>2, SameReplies
  <2>4. ReplyInvOf(c)'
    <3>1. CASE Stay(c)
      <4>0. UNCHANGED <<polling, jobid, own, sk>> /\ sk[c] \in Conns /\ sk[c] # NoConn
        BY <3>1, StayLines DEF Stay
      <4>1. down[sk[c]] \in Seq(Replies) /\ down[sk[c]] # <<>> /\ down'[sk[c]] = Tail(down[sk[c]])
        BY <3>1, <4>0, StayLines DEF TypeOK, NetTypeOK, Stay
      <4>2. CASE pc[c] # "stream"
        <5>1. Len(down[sk[c]]) <= 1
          BY <4>0, <4>2 DEF DuplexInv
        <5>2. down'[sk[c]] = <<>>
          BY <4>1, <5>1
        <5>3. 1..Len(<<>>) = {}
          OBVIOUS
        <5> QED
          BY <4>0, <5>2, <5>3 DEF ReplyInvOf
      <4>3. CASE pc[c] = "stream"
        <5>1. StreamOut(c)
          BY <3>1, <4>3 DEF Stay
        <5>2. Head(down[sk[c]]).t = "OUT" /\ got'[c] = Head(down[sk[c]]).uid
          BY <5>1 DEF StreamOut, Waits, Got, TypeOK, ClientTypeOK
        <5>3. Head(down[sk[c]]) = down[sk[c]][1] /\ 1 \in 1..Len(down[sk[c]])
          BY <4>1
        <5>4. \A k \in 1..Len(Tail(down[sk[c]])) :
                 Tail(down[sk[c]])[k] = down[sk[c]][k + 1] /\ k + 1 \in 1..Len(down[sk[c]])
          BY <4>1
        <5>5. polling[c] /\ ~TmpRel => Mine(c, Head(down[sk[c]]).uid)
          BY <4>0, <5>2, <5>3 DEF ReplyInv, ReplyOf
        <5>6. ASSUME NEW k \in 1..Len(down'[sk[c]]) PROVE \E m : m = down'[sk[c]][k] /\ ReplyOf(c, m)'
          <6>1. PICK m : m = down'[sk[c]][k]
            OBVIOUS
          <6>2. ReplyOf(c, m)
            BY <4>0, <4>1, <5>4, <5>6, <6>1 DEF ReplyInv
          <6> QED
            BY <2>0, <4>0, <6>1, <6>2, SameMeaning
        <5>7. polling[c] /\ ~TmpRel => \E u : u = got'[c] /\ Mine(c, u)'
          BY <2>0, <4>0, <5>2, <5>5, SameMeaning
        <5> QED
          BY <4>0, <5>6, <5>7 DEF ReplyInvOf, ReplyOf, Mine, Reused
      <4> QED
        BY <4>2, <4>3
    <3>2. CASE End(c)
      BY <3>2, EndLines DEF ReplyInvOf
    <3>3. CASE Begin(c)
      BY <3>3 DEF Begin, HoldInv, Waiting, ReplyInvOf
    <3>4. CASE Open(c)
      <4>1. down'[sk'[c]] = <<>> /\ 1..Len(<<>>) = {}
        BY <3>4, OpenLines
      <4> QED
        BY <4>1 DEF ReplyInvOf
    <3> QED
      BY <2>1, <3>1, <3>2, <3>3, <3>4, ClientShape
  <2> QED
    BY <2>3, <2>4
<1> QED
  BY <1>1, <1>2, <1>3 DEF Next

-----------------------------------------------------------------------------
(* ExitInv.                                                                 *)

\* ExitInv for one client.
ExitInvOf(d) ==
    polling[d] =>
        /\ exit[d].why = "ok" => Mine(d, exit[d].code)
        /\ exit[d].why = "ok" /\ ~TmpRel => Mine(d, got[d])
        /\ exit[d].why \in {"idle", "status"} /\ want[d] = "OK_result" => ~Obtainable(own[d])

\* ExitInv, client by client.
LEMMA ExitInvSplit == ExitInv <=> \A d \in Clients : ExitInvOf(d)
BY DEF ExitInv, OwnExitCode, OwnOutput, GivesUpOnlyWhenLost, ExitInvOf, Mine

\* What the last line a client reads makes it report is true.
LEMMA LeaveTrue ==
    ASSUME TypeOK, HoldInv, ReplyInv, UNCHANGED daemonVars, NEW c \in Clients, ClientStep(c)
    PROVE  ExitInvOf(c)' \/ UNCHANGED exit
<1> USE DEF TypeOK, ClientTypeOK
<1>h. ASSUME NEW l \in Waiting, NEW t, Waits(c, l, t)
      PROVE  /\ Got(c).t = t /\ ReplyOf(c, Got(c))
             /\ polling[c] /\ ~TmpRel /\ t = "X" => Mine(c, got[c])
  <2>1. sk[c] \in Conns /\ sk[c] # NoConn /\ down[sk[c]] # <<>>
    BY <1>h, WaitsTyped
  <2>2. Got(c) = down[sk[c]][1] /\ 1 \in 1..Len(down[sk[c]])
    BY <2>1 DEF NetTypeOK, Got
  <2>3. Got(c).t = t
    BY <1>h DEF Waits, Got
  <2> QED
    BY <2>1, <2>2, <2>3 DEF ReplyInv, Got
<1>1. ASSUME NEW why \in {"fail", "auth"}, NEW code, Leave(c, why, code)
      PROVE  ExitInvOf(c)'
  <2>1. exit'[c].why = why
    BY <1>1 DEF Leave
  <2> QED
    BY <2>1 DEF ExitInvOf
<1>2. CASE Refused(c) \/ OpenFails(c)
  BY <1>1, <1>2 DEF Refused, OpenFails
<1>3. CASE StreamBroken(c) \/ ReplyEof(c) \/ ReplyTimeout(c)
  BY <1>1, <1>3 DEF StreamBroken, ReplyEof, ReplyTimeout, NoReply, FailOrRetry
<1>4. CASE Answered(c)
  <2>1. pc[c] = "cmd" /\ polling' = polling
    BY <1>4 DEF Answered, Waits
  <2> QED
    BY <2>1 DEF HoldInv, ExitInvOf
<1>5. CASE Invoke(c)
  <2>1. exit'[c].why = "none"
    BY <1>5 DEF Invoke, NoExit
  <2> QED
    BY <2>1 DEF ExitInvOf
<1>6. CASE StatIdle(c)
  <2>1. exit'[c].why = "idle" /\ UNCHANGED <<polling, own, jobid>>
    BY <1>6 DEF StatIdle, Leave
  <2>2. polling[c] => ~Obtainable(own[c])
    BY <1>6, <1>h DEF StatIdle, Waiting, ReplyOf
  <2> QED
    BY <2>1, <2>2, SameMeaning DEF ExitInvOf
<1>7. CASE StatOther(c)
  <2>1. exit'[c].why = "status" /\ UNCHANGED <<polling, own, jobid, want>>
    BY <1>7 DEF StatOther, Leave
  <2>2. polling[c] /\ want[c] = "OK_result" => ~Obtainable(own[c])
    BY <1>7, <1>h DEF StatOther, Waiting, ReplyOf
  <2> QED
    BY <2>1, <2>2, SameMeaning DEF ExitInvOf
<1>8. CASE StreamExit(c)
  <2>1. exit'[c].why = "ok" /\ exit'[c].code = Got(c).uid /\ UNCHANGED <<polling, own, jobid, got>>
    BY <1>8 DEF StreamExit, Leave
  <2>2. polling[c] => Mine(c, Got(c).uid) /\ (~TmpRel => Mine(c, got[c]))
    BY <1>8, <1>h DEF StreamExit, Waiting, ReplyOf
  <2>3. polling[c] => \E u : u = exit'[c].code /\ Mine(c, u)'
    BY <2>1, <2>2, SameMeaning
  <2>4. polling[c] /\ ~TmpRel => \E u : u = got'[c] /\ Mine(c, u)'
    BY <2>1, <2>2, SameMeaning
  <2> QED
    BY <2>1, <2>3, <2>4 DEF ExitInvOf, Mine, Reused
<1>9. CASE Open(c) \/ Greeted(c) \/ Authed(c) \/ CwdDone(c) \/ Submitted(c) \/ StatMatches(c)
            \/ StatBusy(c) \/ StreamOut(c)
  BY <1>9 DEF Open, Greeted, Authed, CwdDone, Submitted, StatMatches, StatBusy, StreamOut
<1> QED
  BY <1>2, <1>3, <1>4, <1>5, <1>6, <1>7, <1>8, <1>9 DEF ClientStep, Proceed

\* Every step keeps ExitInv: what a finished gcds reported stays true.
LEMMA ExitStep ==
    ASSUME TypeOK, HoldInv, SlotInv, NumberInv, ReplyInv, ExitInv, Next
    PROVE  ExitInv'
<1>0. \A d \in Clients : ExitInvOf(d)
  BY ExitInvSplit
<1> SUFFICES \A d \in Clients : ExitInvOf(d)'
  BY DEF ExitInv, OwnExitCode, OwnOutput, GivesUpOnlyWhenLost, ExitInvOf, Mine
<1>1. CASE Daemon
  <2>1. UNCHANGED <<polling, own, got, exit, want>>
    BY <1>1, DaemonLeavesClients DEF clientVars
  <2>2. ASSUME NEW d \in Clients, polling[d], NEW u, Mine(d, u) PROVE Mine(d, u)'
    BY <1>1, <2>2, MineStep
  <2>3. ASSUME NEW d \in Clients, polling[d], exit[d].why = "ok"
        PROVE  \E u : u = exit[d].code /\ Mine(d, u)'
    BY <1>0, <2>2, <2>3 DEF ExitInvOf
  <2>4. ASSUME NEW d \in Clients, polling[d], exit[d].why = "ok", ~TmpRel
        PROVE  \E u : u = got[d] /\ Mine(d, u)'
    BY <1>0, <2>2, <2>4 DEF ExitInvOf
  <2>5. ASSUME NEW d \in Clients, polling[d], ~Obtainable(own[d]) PROVE ~Obtainable(own[d])'
    BY <1>1, <2>5, OwnLostStep
  <2> QED
    BY <1>0, <2>1, <2>3, <2>4, <2>5 DEF ExitInvOf, Mine, Reused
<1>2. CASE Drop \/ Quiescent
  BY <1>0, <1>2 DEF Drop, Quiescent, vars, clientVars, daemonVars, ExitInvOf, Mine, Reused, Obtainable
<1>3. CASE Client
  <2>0. UNCHANGED daemonVars
    BY <1>3 DEF Client
  <2>1. PICK c \in Clients : ClientStep(c)
    BY <1>3 DEF Client, ClientStep
  <2>2. Others(c)
    BY <2>1, ClientOthers
  <2>3. ASSUME NEW d \in Clients \ {c} PROVE ExitInvOf(d)'
    BY <1>0, <2>0, <2>2, <2>3 DEF Others, ExitInvOf, Mine, Reused, Obtainable, daemonVars
  <2>4. ExitInvOf(c)'
    <3>1. CASE UNCHANGED exit
      <4>1. CASE pc[c] # "done"
        BY <3>1, <4>1 DEF HoldInv, ExitInvOf
      <4>2. CASE pc[c] = "done"
        <5>1. Invoke(c)
          BY <2>1, <4>2 DEF ClientStep, Proceed, OpenFails, Open, Greeted, Authed, CwdDone, Refused,
             Answered, Submitted, StatMatches, StatBusy, StatIdle, StatOther, StreamOut, StreamExit,
             StreamBroken, ReplyEof, ReplyTimeout, Waits, Armed
        <5>2. exit'[c].why = "none"
          BY <5>1 DEF Invoke, NoExit, TypeOK, ClientTypeOK
        <5> QED
          BY <5>2 DEF ExitInvOf
      <4> QED
        BY <4>1, <4>2
    <3> QED
      BY <2>0, <2>1, <3>1, LeaveTrue
  <2> QED
    BY <2>3, <2>4
<1> QED
  BY <1>1, <1>2, <1>3 DEF Next

-----------------------------------------------------------------------------
(* DirInv.                                                                  *)

\* Which session the daemon serves, and where, after one of its steps: the same,
\* none, or one it has just taken from the backlog.
LEMMA ServedNext ==
    ASSUME TypeOK, ServeInv, Daemon
    PROVE  /\ sc' = sc \/ sc' = NoConn \/ (sc' \in Conns /\ send[sc'] = "queued" /\ up' = up)
           /\ cc' = cc \/ cc' = NoConn \/ (cc' \in Conns /\ send[cc'] = "queued")
           /\ cwd' = cwd \/ Cwd \/ (sc' = NoConn /\ cc' = NoConn /\ phase' = "accept")
<1>1. CASE Accept \/ CtlAccept
  <2>1. Head(backlog) \in Conns /\ send[Head(backlog)] = "queued"
    BY <1>1, BacklogHead DEF Accept, CtlAccept
  <2> QED
    BY <1>1, <2>1 DEF Accept, CtlAccept
<1>2. CASE SessionEof \/ RunLost \/ Auth
  BY <1>2 DEF SessionEof, RunLost, Auth, CloseSession
<1>3. CASE Ping \/ Stat \/ Result \/ Cwd \/ CwdFails \/ Run \/ RunExit
  BY <1>3 DEF Ping, Stat, Result, Answer, Cwd, CwdFails, Run, RunExit
<1>4. CASE Runa
  BY <1>4 DEF Runa
<1>5. CASE JobStart \/ JobExit \/ JobFail
  BY <1>5 DEF JobStart, JobExit, JobFail
<1>6. CASE CtlEof \/ CtlAuth \/ CtlCommand
  BY <1>6 DEF CtlEof, CtlAuth, CtlCommand, CloseCtl
<1>7. CASE Restart
  BY <1>7 DEF Restart
<1> QED
  BY <1>1, <1>2, <1>3, <1>4, <1>5, <1>6, <1>7 DEF Daemon, SessionStep, ControlStep, CommandEnds

\* The job the daemon is about to run, or runs, keeps its directory.
LEMMA JobDirStep ==
    ASSUME TypeOK, ServeInv, DirInv, Daemon PROVE RunsWhereAsked'
<1>1. CASE Runa
  <2>1. Reading /\ job'.dir = Head(up[sc]).dir /\ cwd' = cwd /\ Head(up[sc]).t = "RUNA"
    BY <1>1 DEF Runa, Line
  <2> QED
    BY <2>1, ReadingTyped DEF DirInv, RunsWhereAsked
<1>2. CASE JobStart
  <2>1. job'.dir = job.dir /\ cwd' = cwd /\ phase = "pending"
    BY <1>2 DEF JobStart, TypeOK, DaemonTypeOK, Jobs
  <2> QED
    BY <2>1 DEF DirInv, RunsWhereAsked
<1>3. CASE ControlStep
  <2>1. UNCHANGED <<phase, job, cwd>>
    BY <1>3 DEF ControlStep, CtlAccept, CtlEof, CtlAuth, CtlCommand, slotVars
  <2> QED
    BY <2>1 DEF DirInv, RunsWhereAsked
<1>4. CASE Accept \/ SessionEof \/ RunLost \/ Auth
  BY <1>4 DEF Accept, SessionEof, RunLost, Auth, CloseSession, Reading, RunsWhereAsked
<1>5. CASE Ping \/ Stat \/ Result \/ Cwd \/ CwdFails
  BY <1>5 DEF Ping, Stat, Result, Answer, Cwd, CwdFails, Reading, RunsWhereAsked
<1>6. CASE Run \/ RunExit \/ JobExit \/ JobFail \/ Restart
  BY <1>6 DEF Run, RunExit, JobExit, JobFail, Restart, RunsWhereAsked
<1> QED
  BY <1>1, <1>2, <1>3, <1>4, <1>5, <1>6 DEF Daemon, SessionStep, CommandEnds

\* The OK to a CWD line is given by the session that changed the directory.
LEMMA CwdReplyStep ==
    ASSUME TypeOK, HoldInv, ServeInv, DuplexInv, CommandInv, DirInv, Daemon,
           NEW d \in Clients, pc[d] = "cwd", down'[sk[d]] # <<>>, Head(down'[sk[d]]).t = "OK"
    PROVE  sk[d] # cc' /\ (sk[d] = sc' => cwd' = inv[d].dir)
<1>1. sk[d] # NoConn /\ sk[d] \in Conns /\ send[sk[d]] # "queued"
  BY HeldTyped DEF HoldInv, Waiting, DuplexInv
<1>2. (sk[d] = sc' => sc' = sc) /\ (sk[d] = cc' => cc' = cc)
  BY <1>1, ServedNext
<1>3. Cwd => sc \in Conns /\ up[sc] # <<>> /\ cwd' = Head(up[sc]).dir /\ cc' = cc /\ sc' = sc
  BY ReadingTyped DEF Cwd, Line
<1>4. CASE down'[sk[d]] = down[sk[d]]
  <2>1. sk[d] # cc /\ (sk[d] = sc => cwd = inv[d].dir)
    BY <1>4 DEF DirInv
  <2>2. Cwd => sk[d] # sc
    BY <1>1, <1>3, <1>4 DEF DuplexInv
  <2> QED
    BY <1>1, <1>2, <2>1, <2>2, ServedNext
<1>5. CASE \E i : Greets(i)
  <2>1. PICK i : Greets(i)
    BY <1>5
  <2>2. i # sk[d] /\ Rep("GCDS") \in Replies /\ i \in Conns
    BY <1>1, <2>1, RepTyped DEF Greets
  <2>3. down'[sk[d]] = down[sk[d]]
    BY <1>1, <2>1, <2>2, ReplyAt, OneTyped DEF Greets, Greet
  <2> QED
    BY <1>4, <2>3
<1>6. CASE \E i, ms : Answers(i, ms) /\ Given(i, ms)
  <2>1. PICK i, ms : Answers(i, ms) /\ Given(i, ms)
    BY <1>6
  <2>2. i \in Conns /\ ms \in Seq(Replies) /\ Reply(i, ms) /\ up[i] # <<>>
    BY <2>1 DEF Answers
  <2>3. CASE i # sk[d]
    <3>1. down'[sk[d]] = down[sk[d]]
      BY <1>1, <2>2, <2>3, ReplyAt
    <3> QED
      BY <1>4, <3>1
  <2>4. CASE i = sk[d]
    <3>1. down[i] = <<>> /\ Head(up[i]).t = "CWD" /\ Head(up[i]).dir = inv[d].dir
      BY <1>1, <2>2, <2>4 DEF DuplexInv, CommandInv, CommandOf
    <3>2. down'[i] = ms
      BY <2>2, <2>4, <3>1, ReplyAt
    <3>3. \A r : Head(<<r>>) = r
      OBVIOUS
    <3>4. \A r, q : Head(<<r, q>>) = r
      OBVIOUS
    <3>5. i = sc /\ Cwd
      BY <2>1, <2>4, <3>1, <3>2, <3>3, <3>4 DEF Given, GivenOne, GivenTwo
    <3> QED
      BY <1>1, <1>3, <2>4, <3>1, <3>5 DEF ServeInv
  <2> QED
    BY <2>3, <2>4
<1>7. CASE UNCHANGED <<up, down>> \/ Run
  BY <1>4, <1>7 DEF Run
<1>8. CASE RunExit
  <2>1. sc # sk[d]
    BY <1>1, <1>8 DEF RunExit, CommandInv
  <2>2. down'[sk[d]] = down[sk[d]]
    BY <1>1, <1>8, <2>1, RunExitReply, ReplyAt
  <2> QED
    BY <1>4, <2>2
<1>9. CASE Restart
  BY <1>1, <1>9 DEF Restart
<1> QED
  BY <1>5, <1>6, <1>7, <1>8, <1>9, DaemonShape DEF DaemonNet

\* A RUNA line that names a directory is sent in it.
LEMMA SentDir ==
    ASSUME TypeOK, HoldInv, DirInv, NEW c \in Clients, ClientStep(c), Stay(c), pc[c] # "stream",
           sk[c] = sc
    PROVE  \E m \in Cmds : ReadSend(c, m) /\ (m.t = "RUNA" /\ m.dir # NoDir => cwd = m.dir)
<1>0. inv[c] \in CmdLines
  BY DEF TypeOK, ClientTypeOK
<1>1. OpCmd(c) \in Cmds /\ OpCmd(c).t = inv[c].op /\ OpCmd(c).dir = inv[c].dir
  BY <1>0, SentTyped DEF OpCmd, Cmd, CmdLines
<1>2. CASE Greeted(c)
  <2>1. [Cmd("AUTH") EXCEPT !.tok = inv[c].tok].t = "AUTH"
    BY DEF Cmd
  <2> QED
    BY <1>2, <2>1, SentTyped DEF Greeted
<1>3. CASE StatMatches(c)
  <2>1. [Cmd("RESULT") EXCEPT !.id = jobid[c]].t = "RESULT"
    BY DEF Cmd
  <2> QED
    BY <1>3, <2>1, SentTyped DEF StatMatches
<1>4. CASE Authed(c)
  <2>1. CASE polling[c]
    <3>1. Cmd("STAT").t = "STAT"
      BY DEF Cmd
    <3> QED
      BY <1>4, <2>1, <3>1, SentTyped DEF Authed
  <2>2. CASE ~polling[c] /\ inv[c].op \in {"RUN", "RUNA"} /\ inv[c].dir # NoDir
    <3>1. [Cmd("CWD") EXCEPT !.dir = inv[c].dir].t = "CWD"
      BY DEF Cmd
    <3> QED
      BY <1>4, <2>2, <3>1, SentTyped DEF Authed
  <2>3. CASE ~polling[c] /\ ~(inv[c].op \in {"RUN", "RUNA"} /\ inv[c].dir # NoDir)
    BY <1>1, <1>4, <2>3 DEF Authed
  <2> QED
    BY <2>1, <2>2, <2>3
<1>5. CASE CwdDone(c)
  <2>1. cwd = inv[c].dir
    BY <1>5 DEF CwdDone, Waits, DirInv
  <2> QED
    BY <1>1, <1>5, <2>1 DEF CwdDone
<1>6. Greeted(c) \/ StatMatches(c) \/ Authed(c) \/ CwdDone(c)
  BY Senders
<1> QED
  BY <1>2, <1>3, <1>4, <1>5, <1>6

\* Every step keeps DirInv: nobody changes the process's directory between a CWD
\* line and the end of the job submitted after it.
LEMMA DirStep ==
    ASSUME TypeOK, HoldInv, ServeInv, DuplexInv, CommandInv, DirInv, Next
    PROVE  DirInv'
<1>1. CASE Daemon
  <2>0. UNCHANGED <<pc, sk, inv>>
    BY <1>1, DaemonLeavesClients DEF clientVars
  <2>1. RunsWhereAsked'
    BY <1>1, JobDirStep
  <2>2. ASSUME sc' # NoConn, up'[sc'] # <<>>, Head(up'[sc']).t = "RUNA", Head(up'[sc']).dir # NoDir
        PROVE  cwd' = Head(up'[sc']).dir
    <3>1. sc' = sc
      <4>1. \A i \in Conns : send[i] = "queued" => up[i] = <<>>
        BY DEF DuplexInv
      <4> QED
        BY <1>1, <2>2, <4>1, ServedNext
    <3>2. sc \in Conns /\ up'[sc] = up[sc]
      BY <1>1, <2>2, <3>1, DaemonUp DEF TypeOK, DaemonTypeOK
    <3>3. ~Cwd
      BY <2>2, <3>1, <3>2, TakeAt DEF Cwd
    <3>4. cwd' = cwd
      BY <1>1, <2>2, <3>3, ServedNext
    <3> QED
      BY <2>2, <3>1, <3>2, <3>4 DEF DirInv
  <2>3. ASSUME NEW d \in Clients, pc[d] = "cwd", down'[sk[d]] # <<>>, Head(down'[sk[d]]).t = "OK"
        PROVE  sk[d] # cc' /\ (sk[d] = sc' => cwd' = inv[d].dir)
    BY <1>1, <2>3, CwdReplyStep
  <2> QED
    BY <2>0, <2>1, <2>2, <2>3 DEF DirInv
<1>2. CASE Drop
  <2>1. PICK i \in Conns : NetDrop(i)
    BY <1>2 DEF Drop
  <2>2. UNCHANGED <<pc, inv, sk, phase, job, cwd, sc, cc>>
    BY <1>2 DEF Drop, clientVars, daemonVars
  <2>3. \A j \in Conns : /\ up'[j] = up[j] \/ up'[j] = <<>>
                         /\ down'[j] # <<>> => down[j] # <<>> /\ Head(down'[j]) = Head(down[j])
    BY <2>1, DropShorter DEF Shorter
  <2>4. sc # NoConn => sc \in Conns
    BY DEF TypeOK, DaemonTypeOK
  <2>5. \A d \in Clients : pc[d] = "cwd" => sk[d] \in Conns
    BY HeldTyped DEF HoldInv, Waiting
  <2> QED
    BY <2>2, <2>3, <2>4, <2>5 DEF DirInv, RunsWhereAsked
<1>3. CASE Quiescent
  BY <1>3 DEF Quiescent, vars, netVars, clientVars, daemonVars, DirInv, RunsWhereAsked
<1>4. CASE Client
  <2>0. UNCHANGED <<phase, job, cwd, sc, cc>> /\ (sc # NoConn => sc \in Conns /\ send[sc] = "open")
    BY <1>4 DEF Client, daemonVars, ServeInv, TypeOK, DaemonTypeOK
  <2>1. PICK c \in Clients : ClientStep(c)
    BY <1>4 DEF Client, ClientStep
  <2>2. Others(c)
    BY <2>1, ClientOthers
  <2>3. ASSUME sc # NoConn, up'[sc] # <<>>, Head(up'[sc]).t = "RUNA", Head(up'[sc]).dir # NoDir
        PROVE  cwd = Head(up'[sc]).dir
    <3>1. CASE up'[sc] = up[sc]
      BY <2>3, <3>1 DEF DirInv
    <3>2. CASE Stay(c) /\ sk[c] = sc /\ pc[c] # "stream"
      <4>1. PICK m \in Cmds : ReadSend(c, m) /\ (m.t = "RUNA" /\ m.dir # NoDir => cwd = m.dir)
        BY <2>1, <3>2, SentDir
      <4>2. up'[sc] = <<m>> /\ Head(<<m>>) = m
        BY <2>3, <3>2, <4>1, SendLine
      <4> QED
        BY <2>3, <4>1, <4>2
    <3>3. CASE Stay(c) /\ (sk[c] # sc \/ pc[c] = "stream")
      BY <2>0, <2>3, <3>1, <3>3, StayLines DEF Stay, ReadOn
    <3>4. CASE End(c) \/ Begin(c)
      BY <3>1, <3>4, EndLines DEF Begin, netVars
    <3>5. CASE Open(c)
      BY <2>0, <2>3, <3>1, <3>5, OpenLines
    <3> QED
      BY <2>1, <3>2, <3>3, <3>4, <3>5, ClientShape
  <2>4. ASSUME NEW d \in Clients, pc'[d] = "cwd", down'[sk'[d]] # <<>>, Head(down'[sk'[d]]).t = "OK"
        PROVE  sk'[d] # cc /\ (sk'[d] = sc => cwd = inv'[d].dir)
    <3>1. CASE d # c
      <4>1. pc[d] = "cwd" /\ sk'[d] = sk[d] /\ inv'[d] = inv[d]
        BY <2>2, <2>4, <3>1 DEF Others
      <4>2. sk[d] # NoConn /\ sk[d] \in Conns
        BY <4>1, HeldTyped DEF HoldInv, Waiting
      <4>3. down'[sk[d]] = down[sk[d]]
        <5>1. CASE Stay(c)
          BY <3>1, <4>2, <5>1, StayLines, OwnConnection
        <5>2. CASE End(c)
          BY <3>1, <4>2, <5>2, EndLines, OwnConnection
        <5>3. CASE Begin(c)
          BY <5>3 DEF Begin, netVars
        <5>4. CASE Open(c)
          BY <3>1, <4>2, <5>4, OpenLines
        <5> QED
          BY <2>1, <5>1, <5>2, <5>3, <5>4, ClientShape
      <4> QED
        BY <2>4, <4>1, <4>3 DEF DirInv
    <3>2. CASE d = c
      <4>1. Stay(c) /\ pc[c] # "stream"
        BY <2>1, <2>4, <3>2, ClientShape, OpenLines DEF Stay, End, Begin
      <4>2. sk' = sk /\ sk[c] \in Conns /\ sk[c] # NoConn /\ down'[sk[c]] = Tail(down[sk[c]]) /\ down[sk[c]] # <<>>
        BY <4>1, StayLines DEF Stay
      <4>3. Len(down[sk[c]]) <= 1 /\ down[sk[c]] \in Seq(Replies)
        BY <4>1, <4>2 DEF DuplexInv, TypeOK, NetTypeOK
      <4>4. Tail(down[sk[c]]) = <<>>
        BY <4>2, <4>3
      <4> QED
        BY <2>4, <3>2, <4>2, <4>4
    <3> QED
      BY <3>1, <3>2
  <2> QED
    BY <2>0, <2>3, <2>4 DEF DirInv, RunsWhereAsked
<1> QED
  BY <1>1, <1>2, <1>3, <1>4 DEF Next

-----------------------------------------------------------------------------
(* The theorems.                                                            *)

\* The inductive invariant holds when daemon and clients start.
LEMMA InitIInv == Init => IInv
<1> SUFFICES ASSUME Init PROVE IInv
  OBVIOUS
<1>0. TypeOK
  BY InitTypeOK
<1>1. /\ \A c \in Clients : sk[c] = NoConn /\ pc[c] = "idle" /\ ~polling[c] /\ exit[c].why = "none"
      /\ phase = "accept" /\ sc = NoConn /\ cc = NoConn /\ ~res.valid /\ nsub = 0
  BY DEF Init, ClientInit, DaemonInit, NoExit, NullRes
<1>2. /\ Len(backlog) = 0
      /\ \A i \in Conns : up[i] = <<>> /\ down[i] = <<>> /\ Len(up[i]) = 0
  BY DEF Init, NetInit
<1>3. HoldInv /\ NumberInv /\ CommandInv /\ ReplyInv
  BY <1>1 DEF HoldInv, NumberInv, CommandInv, ReplyInv, Waiting
<1>4. ServeInv
  BY <1>1, <1>2 DEF ServeInv
<1>5. DuplexInv
  BY <1>1, <1>2 DEF DuplexInv
<1>6. SlotInv
  BY <1>1 DEF SlotInv
<1>7. ExitInv
  BY <1>1 DEF ExitInv, OwnExitCode, OwnOutput, GivesUpOnlyWhenLost
<1>8. DirInv
  BY <1>1 DEF DirInv, RunsWhereAsked
<1> QED
  BY <1>0, <1>3, <1>4, <1>5, <1>6, <1>7, <1>8 DEF IInv

\* Every step keeps the inductive invariant.
LEMMA NextIInv == IInv /\ [Next]_vars => IInv'
<1>1. ASSUME IInv, Next PROVE IInv'
  <2> USE <1>1 DEF IInv
  <2>1. TypeOK'
    <3>1. CASE Quiescent
      BY <3>1 DEF Quiescent, vars, netVars, daemonVars, clientVars, TypeOK, NetTypeOK, DaemonTypeOK,
                  ClientTypeOK
    <3> QED
      BY <3>1, DaemonTypeStep, ClientTypeStep, DropTypeStep DEF Next
  <2>2. HoldInv' /\ ServeInv' /\ DuplexInv' /\ CommandInv'
    BY HoldStep, ServeStep, DuplexStep, CommandStep
  <2>3. SlotInv' /\ NumberInv' /\ ReplyInv' /\ ExitInv' /\ DirInv'
    BY SlotStep, NumberStep, ReplyStep, ExitStep, DirStep
  <2> QED
    BY <2>1, <2>2, <2>3
<1>2. ASSUME IInv, UNCHANGED vars PROVE IInv'
  <2> USE <1>2 DEF vars, netVars, daemonVars, clientVars
  <2>1. TypeOK'
    BY DEF IInv, TypeOK, NetTypeOK, DaemonTypeOK, ClientTypeOK
  <2>2. HoldInv' /\ ServeInv' /\ DuplexInv'
    BY DEF IInv, HoldInv, ServeInv, DuplexInv
  <2>3. SlotInv' /\ NumberInv' /\ CommandInv'
    BY DEF IInv, SlotInv, NumberInv, Numbered, CommandInv, CommandOf
  <2>4. ReplyInv' /\ ExitInv'
    BY DEF IInv, ReplyInv, ReplyOf, Numbered, Mine, Reused, Obtainable, ExitInv, OwnExitCode,
           OwnOutput, GivesUpOnlyWhenLost
  <2>5. DirInv'
    BY DEF IInv, DirInv, RunsWhereAsked
  <2> QED
    BY <2>1, <2>2, <2>3, <2>4, <2>5 DEF IInv
<1> QED
  BY <1>1, <1>2

\* IInv is an inductive invariant of the system.
THEOREM Inductive == Spec => []IInv
BY InitIInv, NextIInv, PTL DEF Spec

\* Type correctness of channel, daemon and client, for any number of clients,
\* connections, directories, job numbers and invocations.
THEOREM TypeCorrect == Spec => []TypeOK
<1>1. IInv => TypeOK
  BY DEF IInv
<1> QED
  BY <1>1, Inductive, PTL

\* A gcds that was given a job number ends with the exit code of that very job
\* (asyncjob.c poll_result against session.c RESULT and next_jobid), unless the
\* number has been given out again by a restart or by JobMax further jobs.
THEOREM ExitCodeIsOwn == Spec => []OwnExitCode
<1>1. IInv => OwnExitCode
  BY DEF IInv, ExitInv
<1> QED
  BY <1>1, Inductive, PTL

\* With an absolute tmpdir what it has copied to stdout and stderr is that job's
\* output (session.c send_file, main.c run_pending).
THEOREM OutputIsOwn == Spec => []OwnOutput
<1>1. IInv => OwnOutput
  BY DEF IInv, ExitInv
<1> QED
  BY <1>1, Inductive, PTL

\* poll_result gives up on "OK idle" or on a foreign number only for a result
\* that the daemon neither has nor will ever have (asyncjob.c 64-75).
THEOREM NoEarlyGiveUp == Spec => []GivesUpOnlyWhenLost
<1>1. IInv => GivesUpOnlyWhenLost
  BY DEF IInv, ExitInv
<1> QED
  BY <1>1, Inductive, PTL

\* A job that was submitted after CWD runs in that directory (session.c CWD and
\* RUNA, main.c run_pending, live.c live_exec).
THEOREM JobDirectory == Spec => []RunsWhereAsked
<1>1. IInv => RunsWhereAsked
  BY DEF IInv, DirInv
<1> QED
  BY <1>1, Inductive, PTL
=============================================================================
