---------------------------- MODULE AsyncJobsInv ----------------------------
(***************************************************************************)
(* The inductive invariant behind the safety properties of AsyncJobs.       *)
(***************************************************************************)
EXTENDS AsyncJobs

Waiting == {"greet", "auth", "cwd", "cmd", "stat", "stream"}

\* A process has a connection exactly while it waits for a line, that connection
\* is its own, and what it waits for tells whether it polls.
HoldInv ==
    \A c \in Clients :
        /\ pc[c] \in Waiting <=> sk[c] # NoConn
        /\ sk[c] # NoConn => cend[sk[c]] /\ addr[sk[c]] = c
        /\ pc[c] # "done" => exit[c].why = "none"
        /\ pc[c] \in {"cwd", "cmd"} => ~polling[c]
        /\ pc[c] = "stat" => polling[c]

\* A session is served on an accepted connection, at most one control session
\* runs beside it and only while a command runs, and the backlog holds each
\* waiting connection once.
ServeInv ==
    /\ (sc # NoConn) <=> phase \in {"session", "run"}
    /\ cc # NoConn => cc # sc /\ phase \in {"run", "job"}
    /\ sc # NoConn => send[sc] = "open"
    /\ cc # NoConn => send[cc] = "open"
    /\ \A k \in 1..Len(backlog) : send[backlog[k]] = "queued"
    /\ \A k, l \in 1..Len(backlog) : backlog[k] = backlog[l] => k = l

\* The protocol is half duplex: nothing is under way on a queued connection, at
\* most one command, and none while a reply is under way.
DuplexInv ==
    /\ \A i \in Conns :
          /\ Len(up[i]) <= 1
          /\ send[i] = "queued" => up[i] = <<>> /\ down[i] = <<>>
    /\ \A c \in Clients : sk[c] # NoConn =>
          /\ up[sk[c]] # <<>> => down[sk[c]] = <<>>
          /\ pc[c] = "greet" => up[sk[c]] = <<>>
          /\ pc[c] # "stream" => Len(down[sk[c]]) <= 1
          /\ send[sk[c]] = "queued" => pc[c] = "greet"

\* The slot and the running job both belong to the last number handed out.
SlotInv ==
    /\ nsub > 0 => jn > 0
    /\ res.valid =>
          /\ phase \notin {"pending", "job"}
          /\ nsub > 0 /\ res.uid = <<life, nsub>> /\ res.jobid = jn
          /\ ~TmpRel => files[TmpDir] = res.uid
    /\ phase \in {"pending", "job"} =>
          nsub > 0 /\ job.uid = <<life, nsub>> /\ job.jobid = jn

\* Number n was given to job u: counting on from u to the last job leads from n
\* to the last number, with at most one wrap.
Numbered(n, u) ==
    /\ u[1] <= life
    /\ u[1] = life =>
          /\ u[2] \in 1..nsub
          /\ n \in 1..JobMax
          /\ nsub < u[2] + JobMax =>
                jn = n + (nsub - u[2]) \/ jn + JobMax = n + (nsub - u[2])

NumberInv == \A c \in Clients : polling[c] => Numbered(jobid[c], own[c])

\* What a command m on its way says about the client c that sent it.
CommandOf(c, m) ==
    /\ m.t = "RESULT" => pc[c] = "stream" /\ polling[c] /\ m.id = jobid[c]
    /\ m.t \in {"RUN", "RUNA"} => ~polling[c]
    /\ m.t = "RUN" => pc[c] = "stream"
    /\ pc[c] = "cwd" => m.t = "CWD" /\ m.dir = inv[c].dir

CommandInv ==
    \A c \in Clients : sk[c] # NoConn =>
        /\ up[sk[c]] # <<>> => CommandOf(c, Head(up[sk[c]]))
        /\ phase = "run" /\ sc = sk[c] =>
              pc[c] = "stream" /\ ~polling[c] /\ up[sc] = <<>> /\ down[sc] = <<>>

Mine(c, u) == u = own[c] \/ Reused(c)

\* What a reply m on its way says to the client c it is for.
ReplyOf(c, m) ==
    /\ m.t = "JOB" => ~polling[c] /\ Numbered(m.id, m.uid)
    /\ polling[c] =>
          /\ m.t = "X" => Mine(c, m.uid)
          /\ m.t = "OUT" /\ ~TmpRel => Mine(c, m.uid)
          /\ m.t = "IDLE" => ~Obtainable(own[c])
          /\ m.t = "RESULT" /\ m.id # jobid[c] => ~Obtainable(own[c])

ReplyInv ==
    \A c \in Clients : sk[c] # NoConn =>
        /\ \A k \in 1..Len(down[sk[c]]) : ReplyOf(c, down[sk[c]][k])
        /\ polling[c] /\ ~TmpRel /\ down[sk[c]] # <<>> /\ Head(down[sk[c]]).t = "X"
              => Mine(c, got[c])

ExitInv == OwnExitCode /\ OwnOutput /\ GivesUpOnlyWhenLost

\* A job line in a session, and the OK to a CWD line, are seen in the directory
\* they name.
DirInv ==
    /\ RunsWhereAsked
    /\ sc # NoConn /\ up[sc] # <<>> /\ Head(up[sc]).t = "RUNA" /\ Head(up[sc]).dir # NoDir
          => cwd = Head(up[sc]).dir
    /\ \A c \in Clients :
          pc[c] = "cwd" /\ down[sk[c]] # <<>> /\ Head(down[sk[c]]).t = "OK"
          => sk[c] # cc /\ (sk[c] = sc => cwd = inv[c].dir)

IInv ==
    /\ TypeOK /\ HoldInv /\ ServeInv /\ DuplexInv /\ SlotInv
    /\ NumberInv /\ CommandInv /\ ReplyInv /\ ExitInv /\ DirInv
=============================================================================
