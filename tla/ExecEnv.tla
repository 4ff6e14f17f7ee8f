------------------------------ MODULE ExecEnv ------------------------------
(***************************************************************************)
(* What surrounds live_exec (daemon/live.h) while one command runs, on      *)
(* POSIX and on Win32 alike: the command's processes and their pipes, the   *)
(* client of the session, and a client that opens control sessions.         *)
(*                                                                          *)
(* "sh" is the shell with its foreground command; "bg" is a process it      *)
(* leaves in the background.  Data is counted in chunks: one read, one      *)
(* frame, one write.                                                        *)
(***************************************************************************)
EXTENDS Integers, Sequences

CONSTANTS
    Modes,       \* the modes explored, of "RUN", "RUNI" and "JOB"
    Cap,         \* maxout in chunks, 0 for none
    PipeCap,     \* bound: chunks a pipe holds
    MaxWrite,    \* bound: chunks the command writes
    MaxInput,    \* bound: I frames the client sends
    MaxCtl,      \* bound: control connections
    MayClose     \* the command may close its output and go on

ASSUME ExecAssumption ==
    /\ Modes \subseteq {"RUN", "RUNI", "JOB"}
    /\ {Cap, PipeCap, MaxWrite, MaxInput, MaxCtl} \subseteq Nat
    /\ MayClose \in BOOLEAN

Streams == {"O", "E"}
Procs == {"sh", "bg"}

VARIABLES
    mode,
    at,       \* where the supervisor is
    proc,     \* proc[p]: "none", "run" or "zombie" (ended, reaped or not)
    holds,    \* holds[s]: processes that have stream s open
    pipe,     \* pipe[s]: chunks in the pipe
    inpipe,   \* chunks in the pipe to the child's stdin
    wrote,    \* wrote[s]: chunks the command has written
    sent,     \* sent[s]: chunks framed and handed to the session
    up,       \* frames under way from the client
    client,   \* the client's end of the session is open
    askedK,   \* the client has sent K
    inputs,   \* bounded: I frames sent
    ctl,      \* the control connection, as in Supervise
    ctls      \* bounded: control connections so far

procVars == <<proc, holds, pipe, inpipe, wrote>>
peerVars == <<up, client, askedK, inputs>>
ctlVars == <<ctl, ctls>>
envVars == <<procVars, sent, peerVars, ctlVars>>

\* The two returns of live_exec: with an exit code, and -2 for a lost session.
Returned == {"exit", "gone"}

EnvTypeOK ==
    /\ mode \in Modes
    /\ {client, askedK} \subseteq BOOLEAN
    /\ proc \in [Procs -> {"none", "run", "zombie"}]
    /\ holds \in [Streams -> SUBSET Procs]
    /\ pipe \in [Streams -> 0..PipeCap] /\ inpipe \in 0..PipeCap
    /\ wrote \in [Streams -> 0..MaxWrite] /\ sent \in [Streams -> 0..MaxWrite]
    /\ up \in Seq({"I", "I0", "K"}) /\ inputs \in 0..MaxInput
    /\ ctl \in {"none", "queued", "served", "closed"} /\ ctls \in 0..MaxCtl

\* The command has been started, its pipes exist.
EnvInit ==
    /\ mode \in Modes
    /\ proc = [p \in Procs |-> IF p = "sh" THEN "run" ELSE "none"]
    /\ holds = [s \in Streams |-> {"sh"}]
    /\ pipe = [s \in Streams |-> 0] /\ inpipe = 0
    /\ wrote = [s \in Streams |-> 0] /\ sent = [s \in Streams |-> 0]
    /\ up = <<>> /\ client = TRUE /\ askedK = FALSE /\ inputs = 0
    /\ ctl = "none" /\ ctls = 0

-----------------------------------------------------------------------------
(* The command.                                                             *)

\* The processes in P end and their descriptors are closed.
Die(P) ==
    /\ proc' = [p \in Procs |-> IF p \in P THEN "zombie" ELSE proc[p]]
    /\ holds' = [s \in Streams |-> holds[s] \ P]

Running == {p \in Procs : proc[p] = "run"}

Write(p, s) ==
    /\ proc[p] = "run" /\ p \in holds[s] /\ wrote["O"] + wrote["E"] < MaxWrite
    /\ wrote' = [wrote EXCEPT ![s] = @ + 1]
    /\ IF mode = "JOB" THEN UNCHANGED pipe
       ELSE pipe[s] < PipeCap /\ pipe' = [pipe EXCEPT ![s] = @ + 1]
    /\ UNCHANGED <<proc, holds, inpipe>>

\* The foreground command reads its input.
ReadInput ==
    /\ proc["sh"] = "run" /\ inpipe > 0
    /\ inpipe' = inpipe - 1
    /\ UNCHANGED <<proc, holds, pipe, wrote>>

Background ==
    /\ proc["sh"] = "run" /\ proc["bg"] = "none"
    /\ proc' = [proc EXCEPT !["bg"] = "run"]
    /\ holds' = [s \in Streams |-> IF "sh" \in holds[s] THEN holds[s] \cup {"bg"} ELSE holds[s]]
    /\ UNCHANGED <<pipe, inpipe, wrote>>

CloseOutput(p) ==
    /\ MayClose /\ proc[p] = "run"
    /\ holds' = [s \in Streams |-> holds[s] \ {p}]
    /\ UNCHANGED <<proc, pipe, inpipe, wrote>>

Exit(p) == proc[p] = "run" /\ Die({p}) /\ UNCHANGED <<pipe, inpipe, wrote>>

Command ==
    /\ \/ \E p \in Procs : (\E s \in Streams : Write(p, s)) \/ CloseOutput(p) \/ Exit(p)
       \/ ReadInput \/ Background
    /\ UNCHANGED <<sent, peerVars, ctlVars>>

-----------------------------------------------------------------------------
(* The client of the session, and a client that opens control sessions.     *)

Say(f) == mode = "RUNI" /\ up' = Append(up, f) /\ UNCHANGED client

\* gcds is silent during RUN; ix_client sends I, at the end of its input I 0,
\* and once K; it closes at a second interrupt.
Client ==
    /\ mode # "JOB" /\ client
    /\ \/ Say("I") /\ inputs < MaxInput /\ inputs' = inputs + 1 /\ UNCHANGED askedK
       \/ Say("I0") /\ inputs < MaxInput /\ inputs' = MaxInput /\ UNCHANGED askedK
       \/ Say("K") /\ ~askedK /\ askedK' = TRUE /\ UNCHANGED inputs
       \/ client' = FALSE /\ UNCHANGED <<up, askedK, inputs>>
    /\ UNCHANGED <<procVars, sent, ctlVars>>

CtlConnect ==
    /\ ctl = "none" /\ ctls < MaxCtl
    /\ ctl' = "queued" /\ ctls' = ctls + 1
    /\ UNCHANGED <<procVars, sent, peerVars>>

CtlClose ==
    /\ ctl = "served" /\ ctl' = "closed"
    /\ UNCHANGED <<procVars, sent, peerVars, ctls>>

Environment == Command \/ Client \/ CtlConnect \/ CtlClose

-----------------------------------------------------------------------------
(* What every supervisor owes the session.                                  *)

\* All output of the command reaches the session before its X frame, also what
\* background processes write after the shell has exited (live.c 316-334, 393;
\* live_w32.c 391-408, 434).
OutputComplete == at = "exit" /\ mode # "JOB" => sent = wrote

\* A control session that connects while a command runs is served or finds the
\* command ended (PLAN_01_PROTOCOL.md 150, PING).  The Win32 loop does so in
\* every case; the POSIX one with the exception of LiveExec!CtlServed.
CtlAnswered == ctl = "queued" ~> (ctl # "queued" \/ at \in Returned)
=============================================================================
