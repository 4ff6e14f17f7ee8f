------------------------------ MODULE FileXfer ------------------------------
(***************************************************************************)
(* One PUT or GET of gcds (client/xfer.c) against the session of gcdsd      *)
(* (do_put and do_get of daemon/session.c), over a connection whose two     *)
(* directions hold a bounded number of lines and whose ends may vanish.     *)
(*                                                                          *)
(* A file is a sequence of chunks <<n, k>>: the n-th chunk, of kind k.  The *)
(* kind says what session_run takes the bytes for if it ever reads them as  *)
(* a command line: "text" is unknown, "long" too long, "QUIT" ends it.      *)
(***************************************************************************)
EXTENDS Naturals, Sequences

CONSTANTS
    Cap,       \* maxout in chunks, 0 for none
    SockCap,   \* bound: lines and chunks a direction of the connection holds
    MaxLen,    \* bound: chunks in a file
    Kinds,     \* the kinds of chunks in uploaded files
    Absent     \* "no such file"

ASSUME FileXferAssumption ==
    /\ {Cap, MaxLen} \subseteq Nat
    /\ SockCap \in Nat \ {0, 1}
    /\ Kinds \subseteq {"text", "long", "QUIT"}

VARIABLES
    op,       \* "PUT" or "GET"
    cpc,      \* where the client is, see ClientPlaces
    spc,      \* where the daemon is, see DaemonPlaces
    local,    \* the client's file
    remote,   \* the daemon's file
    rpos,     \* chunks the sender has read from its file
    up, down, \* what is under way to the daemon, to the client
    cend,     \* the client's end is open
    cut,      \* the connection is lost
    refused,  \* history: the daemon refused the file before its end
    whole     \* history: xfer_put has come to the end of its file

vars == <<op, cpc, spc, local, remote, rpos, up, down, cend, cut, refused, whole>>

\* "start": authenticated.  "reply": in rc_cmd for the answer to PUT or GET.
\* "send", "frame", "eof", "final": in fread of xfer_put, in the writes that
\* follow, in its last rc_get_reply.  "recv", "drain": the two loops of
\* xfer_get.  "ok", "fail": gcds has exited.
ClientPlaces == {"start", "reply", "send", "frame", "eof", "final", "recv", "drain", "ok", "fail"}
Ended == {"ok", "fail"}

\* "session": in session_run's lio_get_line.  "put": in do_put's.
\* "get", "frame", "eof": in fread of do_get and the writes that follow.
DaemonPlaces == {"session", "put", "get", "frame", "eof", "closed"}

Chunks(K) == (1..MaxLen) \X K
Files(K) == UNION {{[i \in 1..n |-> <<i, k[i]>>] : k \in [1..n -> K]} : n \in 0..MaxLen}
Old == <<<<0, "text">>>>

ASSUME AbsentAssumption == Absent \notin Files(Kinds \cup {"text"})

Line(t) == [t |-> t, x |-> <<0, "text">>]
Raw(x) == [t |-> "raw", x |-> x]
Frame(x) == <<Line("D"), Raw(x)>>

Init ==
    /\ \/ op = "PUT" /\ local \in Files(Kinds) /\ remote \in {Absent, Old}
       \/ op = "GET" /\ local = Absent /\ remote \in Files({"text"}) \cup {Absent}
    /\ cpc = "start" /\ spc = "session" /\ rpos = 0
    /\ up = <<>> /\ down = <<>>
    /\ cend = TRUE /\ cut = FALSE /\ refused = FALSE /\ whole = FALSE

-----------------------------------------------------------------------------
(* The connection.  A write waits for room.  One to a peer that has gone is *)
(* accepted and lost, or fails.  A handler that reads a line and answers it *)
(* is one step, taken when the answer fits.                                 *)

Hears(open) == open /\ ~cut

\* chan_write_all of the daemon, of the client, succeeds.
Answer(ms) ==
    IF Hears(cend) THEN Len(down) + Len(ms) <= SockCap /\ down' = down \o ms
                   ELSE UNCHANGED down
Send(ms) ==
    IF Hears(spc # "closed") THEN Len(up) + Len(ms) <= SockCap /\ up' = up \o ms
                             ELSE UNCHANGED up

\* ... and fails.
AnswerFails == ~Hears(cend) /\ spc' = "closed" /\ UNCHANGED down
SendFails == ~Hears(spc # "closed")

\* lio_get_line or chan_read_n fails: n more lines are wanted and cannot come.
DaemonEof(n) == Len(up) < n /\ ~Hears(cend)
ClientEof(n) == Len(down) < n /\ ~Hears(spc # "closed")

\* The next line is t, with its data if it is the header of a frame.
Comes(q, t) == q # <<>> /\ Head(q).t = t /\ (t = "D" => Len(q) > 1)
Data(q) == q[2].x
Rest(q) == IF Head(q).t = "D" THEN Tail(Tail(q)) ELSE Tail(q)

-----------------------------------------------------------------------------
(* The client.                                                              *)

\* gcds closes the connection and exits.
Leave(how) == cpc' = how /\ cend' = FALSE /\ down' = <<>>

\* PUT or GET is sent; before a PUT the local file is opened.
Start ==
    /\ cpc = "start"
    /\ \/ Send(<<Line(op)>>) /\ cpc' = "reply" /\ UNCHANGED <<cend, down>>
       \/ (op = "PUT" \/ SendFails) /\ Leave("fail") /\ UNCHANGED up
    /\ UNCHANGED <<op, spc, local, remote, rpos, cut, refused, whole>>

\* OK: go on; a GET first creates the local file, or finds that it cannot.
Accepted ==
    /\ cpc = "reply" /\ Comes(down, "OK")
    /\ down' = Tail(down)
    /\ \/ op = "PUT" /\ cpc' = "send" /\ UNCHANGED local
       \/ op = "GET" /\ cpc' = "recv" /\ local' = <<>>
       \/ op = "GET" /\ cpc' = "drain" /\ UNCHANGED local
    /\ UNCHANGED <<op, spc, remote, rpos, up, cend, cut, refused, whole>>

\* ERR, end-of-file, or the alarm of rc_cmd.
Declined ==
    /\ cpc = "reply" /\ ~Comes(down, "OK")
    /\ Leave("fail")
    /\ UNCHANGED <<op, spc, local, remote, rpos, up, cut, refused, whole>>

\* fread of xfer_put gives a chunk or nothing: the end of the file or an error,
\* which are not told apart.
PutRead ==
    /\ cpc = "send"
    /\ \/ rpos < Len(local) /\ rpos' = rpos + 1 /\ cpc' = "frame" /\ UNCHANGED whole
       \/ cpc' = "eof" /\ whole' = TRUE /\ UNCHANGED rpos
    /\ UNCHANGED <<op, spc, local, remote, up, down, cend, cut, refused>>

\* The chunk, or the end, is written; nothing is read from the connection.
PutWrite ==
    /\ \/ cpc = "frame" /\ Send(Frame(local[rpos])) /\ cpc' = "send" /\ UNCHANGED <<cend, down>>
       \/ cpc = "eof" /\ Send(<<Line("D0")>>) /\ cpc' = "final" /\ UNCHANGED <<cend, down>>
       \/ cpc \in {"frame", "eof"} /\ SendFails /\ Leave("fail") /\ UNCHANGED up
    /\ UNCHANGED <<op, spc, local, remote, rpos, cut, refused, whole>>

\* The last status line.  There is no alarm.
PutStatus ==
    /\ cpc = "final"
    /\ \/ Comes(down, "OK") /\ Leave("ok")
       \/ (Comes(down, "ERR") \/ ClientEof(1)) /\ Leave("fail")
    /\ UNCHANGED <<op, spc, local, remote, rpos, up, cut, refused, whole>>

\* Slip: the result of fwrite is not looked at.
GetFrameUnchecked ==
    /\ cpc = "recv" /\ Comes(down, "D")
    /\ down' = Rest(down)
    /\ local' \in {local, Append(local, Data(down))}
    /\ UNCHANGED <<op, cpc, spc, remote, rpos, up, cend, cut, refused, whole>>

\* One frame of a GET is written to the local file, or that fails.
GetFrame ==
    /\ cpc = "recv" /\ Comes(down, "D")
    /\ \/ /\ local' = Append(local, Data(down))
          /\ down' = Rest(down) /\ UNCHANGED <<cpc, cend>>
       \/ Leave("fail") /\ UNCHANGED local
    /\ UNCHANGED <<op, spc, remote, rpos, up, cut, refused, whole>>

\* "D 0" and fclose, which may fail; or the connection ends.
GetEnd ==
    /\ cpc = "recv"
    /\ \/ Comes(down, "D0") /\ Leave("ok")
       \/ (Comes(down, "D0") \/ ClientEof(2)) /\ Leave("fail")
    /\ UNCHANGED <<op, spc, local, remote, rpos, up, cut, refused, whole>>

\* Without a local file the frames are read and dropped.
Drain ==
    /\ cpc = "drain"
    /\ \/ Comes(down, "D") /\ down' = Rest(down) /\ UNCHANGED <<cpc, cend>>
       \/ (Comes(down, "D0") \/ ClientEof(2)) /\ Leave("fail")
    /\ UNCHANGED <<op, spc, local, remote, rpos, up, cut, refused, whole>>

Client ==
    Start \/ Accepted \/ PutRead \/ PutWrite \/ PutStatus \/ GetFrame \/ GetEnd \/ Drain

-----------------------------------------------------------------------------
(* The daemon.                                                              *)

\* The answer ms, then place l; or the answer cannot be written.
Then(ms, l) == (Answer(ms) /\ spc' = l) \/ AnswerFails

\* PUT: the file is created, or truncated, before the first chunk arrives.
OpenPut ==
    /\ spc = "session" /\ Comes(up, "PUT")
    /\ up' = Tail(up)
    /\ \/ remote' = <<>> /\ Then(<<Line("OK")>>, "put")
       \/ UNCHANGED remote /\ Then(<<Line("ERR")>>, "session")
    /\ UNCHANGED <<op, cpc, local, rpos, cend, cut, refused, whole>>

Over == Cap > 0 /\ Len(remote) + 1 > Cap

\* Slip: the result of fwrite is not looked at.
StoreUnchecked ==
    /\ spc = "put" /\ Comes(up, "D")
    /\ up' = Rest(up)
    /\ IF Over
         THEN remote' = Absent /\ Then(<<Line("ERR")>>, "session") /\ refused' = TRUE
         ELSE /\ remote' \in {remote, Append(remote, Data(up))}
              /\ UNCHANGED <<spc, down, refused>>
    /\ UNCHANGED <<op, cpc, local, rpos, cend, cut, whole>>

\* One frame of a PUT.  Beyond the cap, or if it cannot be written, the file
\* is removed and the session goes on, with frames still to come.
Store ==
    /\ spc = "put" /\ Comes(up, "D")
    /\ up' = Rest(up)
    /\ \/ /\ ~Over /\ remote' = Append(remote, Data(up))
          /\ UNCHANGED <<spc, down, refused>>
       \/ remote' = Absent /\ Then(<<Line("ERR")>>, "session") /\ refused' = TRUE
    /\ UNCHANGED <<op, cpc, local, rpos, cend, cut, whole>>

\* "D 0": fclose succeeds or fails.
ClosePut ==
    /\ spc = "put" /\ Comes(up, "D0")
    /\ up' = Tail(up)
    /\ \/ Then(<<Line("OK")>>, "session") /\ UNCHANGED remote
       \/ Then(<<Line("ERR")>>, "session") /\ remote' = Absent
    /\ UNCHANGED <<op, cpc, local, rpos, cend, cut, refused, whole>>

\* Slips: the partial file is not removed, or the error is not looked at.
LostPutKeeps ==
    /\ spc = "put" /\ ~Comes(up, "D") /\ ~Comes(up, "D0") /\ DaemonEof(2)
    /\ spc' = "closed"
    /\ UNCHANGED <<op, cpc, local, remote, rpos, up, down, cend, cut, refused, whole>>
LostPutIgnored == FALSE

\* The client vanished, perhaps in the middle of a frame.
LostPut ==
    /\ spc = "put" /\ ~Comes(up, "D") /\ ~Comes(up, "D0") /\ DaemonEof(2)
    /\ remote' = Absent
    /\ spc' = "closed"
    /\ UNCHANGED <<op, cpc, local, rpos, up, down, cend, cut, refused, whole>>

OpenGet ==
    /\ spc = "session" /\ Comes(up, "GET")
    /\ up' = Tail(up)
    /\ \/ remote # Absent /\ Then(<<Line("OK")>>, "get")
       \/ Then(<<Line("ERR")>>, "session")
    /\ UNCHANGED <<op, cpc, local, remote, rpos, cend, cut, refused, whole>>

\* Slip: the end of the file is tested one chunk late.
GetReadPastEnd ==
    /\ spc = "get"
    /\ \/ rpos <= Len(remote) /\ rpos' = rpos + 1 /\ spc' = "frame"
       \/ spc' = "eof" /\ UNCHANGED rpos
    /\ UNCHANGED <<op, cpc, local, remote, up, down, cend, cut, refused, whole>>

\* fread of do_get, like that of xfer_put.
GetRead ==
    /\ spc = "get"
    /\ \/ rpos < Len(remote) /\ rpos' = rpos + 1 /\ spc' = "frame"
       \/ spc' = "eof" /\ UNCHANGED rpos
    /\ UNCHANGED <<op, cpc, local, remote, up, down, cend, cut, refused, whole>>

\* Slip: the end of the file is not announced.
GetWriteSilent ==
    /\ \/ spc = "frame" /\ Then(Frame(remote[rpos]), "get")
       \/ spc = "eof" /\ spc' = "session" /\ UNCHANGED down
    /\ UNCHANGED <<op, cpc, local, remote, rpos, up, cend, cut, refused, whole>>

GetWrite ==
    /\ \/ spc = "frame" /\ Then(Frame(remote[rpos]), "get")
       \/ spc = "eof" /\ Then(<<Line("D0")>>, "session")
    /\ UNCHANGED <<op, cpc, local, remote, rpos, up, cend, cut, refused, whole>>

\* What follows a refused frame is read as command lines.
Stray ==
    /\ spc = "session" /\ up # <<>> /\ Head(up).t \in {"D", "D0", "raw"}
    /\ up' = Tail(up)
    /\ LET k == Head(up).x[2]
       IN \/ k = "text" /\ Then(<<Line("ERR")>>, "session")
          \/ k = "long" /\ Then(<<Line("ERR")>>, "closed")
          \/ k = "QUIT" /\ Then(<<Line("OK")>>, "closed")
    /\ UNCHANGED <<op, cpc, local, remote, rpos, cend, cut, refused, whole>>

SessionEof ==
    /\ spc = "session" /\ DaemonEof(1)
    /\ spc' = "closed"
    /\ UNCHANGED <<op, cpc, local, remote, rpos, up, down, cend, cut, refused, whole>>

Daemon ==
    \/ OpenPut \/ Store \/ ClosePut \/ LostPut
    \/ OpenGet \/ GetRead \/ GetWrite \/ Stray \/ SessionEof

-----------------------------------------------------------------------------
\* gcds is interrupted.
Interrupt ==
    /\ cpc \notin Ended
    /\ Leave("fail")
    /\ UNCHANGED <<op, spc, local, remote, rpos, up, cut, refused, whole>>

\* The connection is lost: each end still receives some prefix of what was
\* under way.
Cut ==
    /\ ~cut /\ cut' = TRUE
    /\ \E n \in 0..Len(up) : up' = SubSeq(up, 1, n)
    /\ \E n \in 0..Len(down) : down' = SubSeq(down, 1, n)
    /\ UNCHANGED <<op, cpc, spc, local, remote, rpos, cend, refused, whole>>

\* Nothing is left to do.
Done ==
    /\ cpc \in Ended /\ spc = "closed"
    /\ UNCHANGED vars

Next == Client \/ Declined \/ Daemon \/ Interrupt \/ Cut \/ Done

Spec == Init /\ [][Next]_vars

-----------------------------------------------------------------------------
(* Properties.                                                              *)

Lines == [t : {"PUT", "GET", "OK", "ERR", "D", "D0", "raw"},
          x : {<<0, "text">>} \cup Chunks(Kinds \cup {"text"})]

\* The file that is being sent.
Source == IF op = "PUT" THEN local ELSE remote

TypeOK ==
    /\ op \in {"PUT", "GET"} /\ cpc \in ClientPlaces /\ spc \in DaemonPlaces
    /\ {local, remote} \subseteq Seq(Chunks(Kinds \cup {"text"})) \cup {Absent, Old}
    /\ rpos \in 0..(IF Source = Absent THEN 0 ELSE Len(Source))
    /\ up \in Seq(Lines) /\ down \in Seq(Lines)
    /\ {cend, cut, refused, whole} \subseteq BOOLEAN

\* A gcds --put that exits with 0 has stored exactly the chunks it read from
\* its file, in order, also under the output cap (xfer_put, do_put).
PutIntact ==
    op = "PUT" /\ cpc = "ok" => remote = SubSeq(local, 1, rpos)

\* A gcds --get that exits with 0 has written exactly the chunks the daemon
\* read from its file (xfer_get, do_get).
GetIntact ==
    op = "GET" /\ cpc = "ok" => local = SubSeq(remote, 1, rpos)

\* Whatever ends a PUT, the daemon is not left with some of the chunks: the
\* file is as it was, gone, empty, or all that the client sent (do_put's
\* unlink on every error path of the loop).
NoPartialFile ==
    op = "PUT" /\ spc = "closed" =>
        remote \in {Absent, Old, <<>>} \/ (whole /\ remote = SubSeq(local, 1, rpos))

\* Each program takes its next step when it has one.  Nothing is assumed of
\* interrupts and lost connections, nor of the client's alarm.
Fairness ==
    /\ WF_vars(Client)
    /\ WF_vars(Declined /\ (down # <<>> \/ ClientEof(1)))
    /\ WF_vars(Daemon)

FairSpec == Spec /\ Fairness

\* A transfer ends, although there is no alarm in it, unless the daemon refused
\* the file in the middle: then xfer_put keeps writing and does not read, and
\* session_run answers each stray line, until neither has room.
TransferEnds == (cpc = "start") ~> (cpc \in Ended \/ refused)

\* A client that is gone does not hold the daemon, which serves one session at
\* a time: do_put and do_get return and the session is closed.
DaemonFreed == ~cend ~> spc = "closed"

-----------------------------------------------------------------------------
(* A statement of the documentation that the code does not keep.            *)

\* PLAN_01_PROTOCOL.md on PUT: beyond the cap, and when the file cannot be
\* written, the upload is answered with ERR.  So gcds ends.
RefusalEnds == refused ~> cpc \in Ended
=============================================================================
