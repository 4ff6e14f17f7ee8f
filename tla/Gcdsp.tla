------------------------------- MODULE Gcdsp -------------------------------
(***************************************************************************)
(* The GCDSP v1 channel between gcds and gcdsd in TCP mode: connections,    *)
(* the listen backlog, and the two FIFO directions of every connection      *)
(* (include/gcdsp.h, common/chan.c, common/lineio.c, common/net.c).         *)
(*                                                                          *)
(* A command or reply line is a record; its text is abstracted to what the  *)
(* two programs tell apart.  An asynchronous job is identified by the ghost *)
(* pair <<e, k>>: the k-th job accepted in the daemon's e-th life.  The     *)
(* programs never see it; they only see the job number of the protocol.     *)
(***************************************************************************)
EXTENDS Naturals, Sequences

CONSTANTS
    Clients,     \* hosts that run gcds; a client's name stands for its address
    NoClient,    \* the address of an unused connection
    Dirs,        \* remote directories a CWD line may name
    NoDir,       \* "no CWD line sent"
    MaxConn      \* bound: connections that exist at the same time

ASSUME GcdspAssumption ==
    /\ NoClient \notin Clients
    /\ NoDir \notin Dirs
    /\ MaxConn \in Nat

Conns == 1..MaxConn
NoConn == 0
Uids == Nat \X Nat
NoJob == <<0, 0>>

\* Command lines a gcds client sends in TCP mode.
CmdFields == [t   : {"AUTH", "PING", "STAT", "CWD", "RUN", "RUNA", "RESULT"},
              tok : BOOLEAN,              \* AUTH: is it the configured token
              dir : Dirs \cup {NoDir},    \* CWD: the directory; RUNA: the one in force
              id  : Nat]                  \* RESULT: the job number
Cmds == {m \in CmdFields : m.t = "CWD" => m.dir # NoDir}

\* Reply lines and frames of the daemon.  "JOB" is the "OK <jobid>" that
\* answers RUNA; "RESULT", "BUSY" and "IDLE" are the three answers to STAT;
\* "OUT" stands for the O and E frames of one capture, "X" for the exit frame.
Replies == [t   : {"GCDS", "OK", "ERR", "JOB", "RESULT", "BUSY", "IDLE", "OUT", "X"},
            id  : Nat,
            uid : Uids]

Cmd(t) == [t |-> t, tok |-> TRUE, dir |-> NoDir, id |-> 0]
Rep(t) == [t |-> t, id |-> 0, uid |-> NoJob]
RepId(t, n) == [t |-> t, id |-> n, uid |-> NoJob]
RepUid(t, n, u) == [t |-> t, id |-> n, uid |-> u]

VARIABLES
    addr,     \* addr[i]: the client that opened connection i
    cend,     \* cend[i]: the client's end is open
    send,     \* send[i]: the daemon's end: "none", "queued" (backlog) or "open"
    cut,      \* cut[i]: the network lost the connection
    up,       \* up[i]: lines under way to the daemon
    down,     \* down[i]: lines under way to the client
    backlog   \* connections waiting for accept(), oldest first

netVars == <<addr, cend, send, cut, up, down, backlog>>

NetTypeOK ==
    /\ addr \in [Conns -> Clients \cup {NoClient}]
    /\ cend \in [Conns -> BOOLEAN]
    /\ send \in [Conns -> {"none", "queued", "open"}]
    /\ cut \in [Conns -> BOOLEAN]
    /\ up \in [Conns -> Seq(Cmds)]
    /\ down \in [Conns -> Seq(Replies)]
    /\ backlog \in Seq(Conns)

NetInit ==
    /\ addr = [i \in Conns |-> NoClient]
    /\ cend = [i \in Conns |-> FALSE]
    /\ send = [i \in Conns |-> "none"]
    /\ cut = [i \in Conns |-> FALSE]
    /\ up = [i \in Conns |-> <<>>]
    /\ down = [i \in Conns |-> <<>>]
    /\ backlog = <<>>

Free(i) == ~cend[i] /\ send[i] = "none"

\* connect() succeeds: the connection waits in the backlog of the listen socket.
NetConnect(c, i) ==
    /\ Free(i)
    /\ addr' = [addr EXCEPT ![i] = c]
    /\ cend' = [cend EXCEPT ![i] = TRUE]
    /\ send' = [send EXCEPT ![i] = "queued"]
    /\ cut' = [cut EXCEPT ![i] = FALSE]
    /\ up' = [up EXCEPT ![i] = <<>>]
    /\ down' = [down EXCEPT ![i] = <<>>]
    /\ backlog' = Append(backlog, i)

\* What an end holds after writing the lines ms: a write to a connection whose
\* other end is gone is accepted by the local stack and lost.
DownAfter(i, ms) == IF cend[i] /\ ~cut[i] THEN down[i] \o ms ELSE down[i]
UpAfter(i, m) == IF send[i] # "none" /\ ~cut[i] THEN Append(up[i], m) ELSE up[i]

\* A blocking read of the daemon, of the client, returns end-of-file.
ServerEof(i) == up[i] = <<>> /\ (~cend[i] \/ cut[i])
ClientEof(i) == down[i] = <<>> /\ (send[i] = "none" \/ cut[i])

\* The network drops connection i: lines under way to the daemon are lost, and
\* the client still receives some prefix of what was sent to it.
NetDrop(i) ==
    /\ cend[i] /\ send[i] = "open" /\ ~cut[i]
    /\ cut' = [cut EXCEPT ![i] = TRUE]
    /\ up' = [up EXCEPT ![i] = <<>>]
    /\ \E n \in 0..Len(down[i]) : down' = [down EXCEPT ![i] = SubSeq(@, 1, n)]
    /\ UNCHANGED <<addr, cend, send, backlog>>
=============================================================================
