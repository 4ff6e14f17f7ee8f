------------------------------ MODULE LiveExec ------------------------------
(***************************************************************************)
(* live_exec of daemon/live.c: the loop that supervises one command on a    *)
(* POSIX host, streams its output, forwards the client's input, serves      *)
(* control sessions and kills the command's process group.                  *)
(***************************************************************************)
EXTENDS ExecEnv

VARIABLES
    rd,       \* what select() found readable
    open,     \* open[s]: the read end outp[0], errp[0] is not closed
    inopen,   \* the write end inp[1] is not closed
    killed,   \* 0, 1 after SIGTERM, 2 after the escalation
    late,     \* KILL_GRACE seconds have passed since SIGTERM
    reaped,   \* waitpid has returned the child
    capped,   \* the output cap was exceeded
    total     \* chunks streamed

loopVars == <<mode, rd, open, inopen, killed, late, reaped, capped, total>>
vars == <<loopVars, at, envVars>>

\* The positions of one turn of the loop, in order; then the blocking calls
\* "ctl" (ctl_session), "input" (write to the child), "reap" (waitpid without
\* WNOHANG) and "lost" (waitpid after the kill); then the two returns.
Places == {"select", "accept", "O", "E", "cap", "sess", "tail",
           "ctl", "input", "reap", "lost"} \cup Returned

TypeOK ==
    /\ EnvTypeOK /\ at \in Places
    /\ rd \subseteq Streams \cup {"ls", "sess"}
    /\ open \in [Streams -> BOOLEAN] /\ inopen \in BOOLEAN
    /\ killed \in 0..2 /\ {late, reaped, capped} \subseteq BOOLEAN
    /\ total \in 0..MaxWrite

\* After fork(): the child runs in its own group, as its leader.
Init ==
    /\ EnvInit
    /\ at = "select" /\ rd = {}
    /\ open = [s \in Streams |-> mode # "JOB"]
    /\ inopen = (mode = "RUNI")
    /\ killed = 0 /\ late = FALSE /\ reaped = FALSE /\ capped = FALSE /\ total = 0

\* Time passes between SIGTERM and the escalation.
GraceOver ==
    /\ killed = 1 /\ ~late /\ late' = TRUE
    /\ UNCHANGED <<at, mode, rd, open, inopen, killed, reaped, capped, total,
                   procVars, sent, peerVars, ctlVars>>

-----------------------------------------------------------------------------
(* Signals.                                                                 *)

\* Slip: the signal goes to the child only, not to its group.
GroupChildOnly == Running \cap {"sh"}

\* Whom kill(-pid, ...) reaches: every process of the group that still runs.
Group == Running

\* Slip: every K counts as the first.
KillChildAgain ==
    /\ killed' = killed + 1
    /\ \E P \in SUBSET Group : Die(P)

\* SIGTERM: each process of the group dies of it or handles it.
KillChild ==
    /\ killed' = IF killed = 0 THEN 1 ELSE killed
    /\ IF killed = 0 THEN \E P \in SUBSET Group : Die(P) ELSE UNCHANGED <<proc, holds>>

\* SIGTERM and at once SIGKILL.
KillHard ==
    /\ killed' = IF killed = 0 THEN 1 ELSE killed
    /\ Die(Group)

-----------------------------------------------------------------------------
(* One turn of the loop.                                                    *)

\* Slip: control connections are looked for during jobs only.
ReadableJobOnly ==
    {s \in Streams : open[s] /\ (pipe[s] > 0 \/ holds[s] = {})}
    \cup (IF ctl = "queued" /\ mode = "JOB" THEN {"ls"} ELSE {})
    \cup (IF mode # "JOB" /\ (up # <<>> \/ ~client) THEN {"sess"} ELSE {})

Readable ==
    {s \in Streams : open[s] /\ (pipe[s] > 0 \/ holds[s] = {})}
    \cup (IF ctl = "queued" THEN {"ls"} ELSE {})
    \cup (IF mode # "JOB" /\ (up # <<>> \/ ~client) THEN {"sess"} ELSE {})

Select ==
    /\ at = "select"
    /\ rd' = Readable
    /\ at' = "accept"
    /\ UNCHANGED <<mode, open, inopen, killed, late, reaped, capped, total,
                   procVars, sent, peerVars, ctlVars>>

AfterAccept == IF mode = "JOB" THEN "tail" ELSE "O"

\* Slip: the control session is started and not waited for.
AcceptAsync ==
    /\ at = "accept"
    /\ IF "ls" \in rd THEN ctl' = "served" ELSE UNCHANGED ctl
    /\ at' = AfterAccept
    /\ UNCHANGED <<loopVars, procVars, sent, peerVars, ctls>>

Accept ==
    /\ at = "accept"
    /\ IF "ls" \in rd THEN ctl' = "served" /\ at' = "ctl"
                      ELSE UNCHANGED ctl /\ at' = AfterAccept
    /\ UNCHANGED <<loopVars, procVars, sent, peerVars, ctls>>

\* ctl_session returns at the end of the control connection only.
CtlReturn ==
    /\ at = "ctl" /\ ctl = "closed"
    /\ ctl' = "none"
    /\ at' = AfterAccept
    /\ UNCHANGED <<loopVars, procVars, sent, peerVars, ctls>>

\* goto lost: kill, close everything, wait for the child.
GotoLost ==
    /\ KillHard
    /\ at' = "lost"
    /\ inopen' = FALSE /\ open' = [s \in Streams |-> FALSE]
    /\ UNCHANGED <<mode, rd, late, reaped, capped, inpipe, wrote, inputs, client, askedK, ctlVars>>

After(s) == IF s = "O" THEN "E" ELSE "cap"

\* pump: one read of a readable pipe.  A frame for a client that is gone may
\* still be accepted by the socket, or be refused.
Pump(s) ==
    /\ at = s
    /\ IF s \notin rd THEN at' = After(s) /\ UNCHANGED <<loopVars, procVars, sent, peerVars>>
       ELSE IF pipe[s] = 0
         THEN /\ open' = [open EXCEPT ![s] = FALSE]
              /\ at' = After(s)
              /\ UNCHANGED <<mode, rd, inopen, killed, late, reaped, capped, total,
                             procVars, sent, peerVars>>
         ELSE /\ total' = total + 1
              /\ pipe' = [pipe EXCEPT ![s] = @ - 1]
              /\ \/ /\ sent' = [sent EXCEPT ![s] = @ + 1]
                    /\ at' = After(s)
                    /\ UNCHANGED <<mode, rd, open, inopen, killed, late, reaped, capped,
                                   proc, holds, inpipe, wrote, peerVars>>
                 \/ ~client /\ GotoLost /\ UNCHANGED <<sent, up>>
    /\ UNCHANGED ctlVars

\* Slip: the cap sends SIGTERM and leaves the rest to the escalation.
CapCheckTermOnly ==
    /\ at = "cap"
    /\ IF Cap > 0 /\ total > Cap /\ ~capped
         THEN capped' = TRUE /\ KillChild
         ELSE UNCHANGED <<capped, killed, proc, holds>>
    /\ at' = "sess"
    /\ UNCHANGED <<mode, rd, open, inopen, late, reaped, total, pipe, inpipe, wrote,
                   sent, peerVars, ctlVars>>

CapCheck ==
    /\ at = "cap"
    /\ IF Cap > 0 /\ total > Cap /\ ~capped
         THEN capped' = TRUE /\ KillHard
         ELSE UNCHANGED <<capped, killed, proc, holds>>
    /\ at' = "sess"
    /\ UNCHANGED <<mode, rd, open, inopen, late, reaped, total, pipe, inpipe, wrote,
                   sent, peerVars, ctlVars>>

\* Slip: the end of the session's input is not noticed during RUNI.
SessReadNoEof ==
    /\ at = "sess" /\ "sess" \in rd
    /\ IF mode = "RUN" THEN GotoLost /\ UNCHANGED <<total, pipe, sent, up>>
       ELSE /\ up' = IF up = <<>> THEN up ELSE Tail(up)
            /\ at' = "tail"
            /\ UNCHANGED <<loopVars, procVars, sent, client, askedK, inputs, ctlVars>>

\* The session is readable.  During RUN, and at end-of-file, that ends it;
\* during RUNI runi_frame handles one frame.
SessRead ==
    /\ at = "sess" /\ "sess" \in rd
    /\ IF mode = "RUN" \/ up = <<>>
         THEN GotoLost /\ UNCHANGED <<total, pipe, sent, up>>
         ELSE /\ up' = Tail(up)
              /\ \/ /\ Head(up) = "K" /\ KillChild
                    /\ at' = "tail" /\ UNCHANGED inopen
                 \/ /\ Head(up) = "I0" /\ inopen' = FALSE
                    /\ at' = "tail" /\ UNCHANGED <<killed, proc, holds>>
                 \/ /\ Head(up) = "I"
                    /\ at' = IF inopen /\ killed = 0 THEN "input" ELSE "tail"
                    /\ UNCHANGED <<killed, proc, holds, inopen>>
              /\ UNCHANGED <<mode, rd, open, late, reaped, capped, total, pipe, inpipe, wrote,
                             sent, client, askedK, inputs, ctlVars>>

SessQuiet ==
    /\ at = "sess" /\ "sess" \notin rd
    /\ at' = "tail"
    /\ UNCHANGED <<loopVars, procVars, sent, peerVars, ctlVars>>

\* write() to the child's stdin blocks while the pipe is full; without a
\* reader it fails and the input is dropped.
Input ==
    /\ at = "input"
    /\ IF proc["sh"] # "run" THEN inopen' = FALSE /\ UNCHANGED inpipe
       ELSE inpipe < PipeCap /\ inpipe' = inpipe + 1 /\ UNCHANGED inopen
    /\ at' = "tail"
    /\ UNCHANGED <<mode, rd, open, killed, late, reaped, capped, total,
                   proc, holds, pipe, wrote, sent, peerVars, ctlVars>>

\* The size of both capture files.
FileSize == wrote["O"] + wrote["E"]

\* Slip: the loop ends when the child has been reaped, in every mode.
TailNextReaped(r) == IF r THEN "exit" ELSE "select"

\* Where the loop goes once waitpid(WNOHANG) has told whether the child is
\* reaped: a job ends with the child, a stream with both pipes.
TailNext(r) ==
    IF mode = "JOB" THEN (IF r THEN "exit" ELSE "select")
    ELSE IF \E s \in Streams : open[s] THEN "select"
    ELSE IF r THEN "exit" ELSE "reap"

\* The JOB cap, the escalation, waitpid(WNOHANG) and the loop's exits.  A child
\* killed in this very turn is found by waitpid at once or in the next turn.
TailStep ==
    /\ at = "tail"
    /\ LET over == mode = "JOB" /\ Cap > 0 /\ ~capped /\ FileSize > Cap
           k == IF over /\ killed = 0 THEN 1 ELSE killed
           escalate == k = 1 /\ late
       IN /\ capped' = (capped \/ over)
          /\ killed' = IF escalate THEN 2 ELSE k
          /\ IF over \/ escalate THEN Die(Group) ELSE UNCHANGED <<proc, holds>>
          /\ \E p \in {proc["sh"], proc'["sh"]} : reaped' = (reaped \/ p = "zombie")
          /\ at' = TailNext(reaped')
    /\ UNCHANGED <<mode, rd, open, inopen, late, total, pipe, inpipe, wrote, sent,
                   peerVars, ctlVars>>

\* waitpid without WNOHANG, at the end of a stream and after goto lost.
Reap ==
    /\ at \in {"reap", "lost"}
    /\ proc["sh"] = "zombie"
    /\ reaped' = TRUE
    /\ at' = IF at = "reap" THEN "exit" ELSE "gone"
    /\ UNCHANGED <<mode, rd, open, inopen, killed, late, capped, total,
                   procVars, sent, peerVars, ctlVars>>

Supervisor ==
    \/ Select \/ Accept \/ CtlReturn \/ (\E s \in Streams : Pump(s)) \/ CapCheck
    \/ SessRead \/ SessQuiet \/ Input \/ TailStep \/ Reap

\* After the return the caller goes on, see Gcdsd.
Done == at \in Returned /\ UNCHANGED vars

Around == Environment /\ UNCHANGED <<at, loopVars>>

Next == Supervisor \/ Around \/ GraceOver \/ Done

Spec == Init /\ [][Next]_vars

-----------------------------------------------------------------------------
(* Properties.                                                              *)

\* A session that is lost leaves no process of the command behind: the daemon
\* goes back to accept() and may start the next command (live.c 415-425).
NoOrphans == at = "gone" => Running = {} /\ reaped

\* The output cap: beyond it the command gets out at most what one turn reads
\* and what the two pipes hold, whether or not it handles SIGTERM (live.c 335).
OutputBounded ==
    Cap > 0 /\ mode # "JOB" => wrote["O"] + wrote["E"] <= Cap + 2 + 2 * PipeCap

Abs == INSTANCE Supervise WITH
         st <- IF at = "exit" THEN "exit" ELSE IF at \in {"lost", "gone"} THEN "lost" ELSE "running"

\* live_exec does what Gcdsd's sessions rely on: control sessions one at a time
\* and never left open at a return, "lost" only for a client that went away.
ImplementsSupervise == Abs!SSpec

\* Each turn of the loop is finished, time passes, a control session ends
\* (every wait of gcds for a reply is limited by an alarm) and the foreground
\* command reads its input.  Nothing is assumed of when the command exits.
Fairness ==
    /\ WF_vars(Supervisor)
    /\ WF_vars(GraceOver)
    /\ WF_vars(CtlClose /\ UNCHANGED <<at, loopVars>>)

ReadsInput == WF_vars(ReadInput /\ UNCHANGED <<at, loopVars, sent, peerVars, ctlVars>>)

FairSpec == Spec /\ Fairness /\ ReadsInput

\* Without the last: a command that never reads its input keeps live_exec in its
\* write(), and KillEnds fails (README, section 3).
StubbornSpec == Spec /\ Fairness

\* The command has closed both outputs and runs on.  live_exec has left its loop
\* and is in waitpid() without WNOHANG (live.c 393-395): it hears neither the
\* client nor a control connection, and escalates no more.
Deaf == at = "reap" /\ proc["sh"] = "run"

\* A command that was asked to stop with K ends, also one that handles SIGTERM
\* and has left processes in the background (live.c kill_child, the escalation);
\* the one exception is a command that leaves live_exec deaf and never exits.
KillEnds == askedK ~> (at \in Returned \/ []Deaf)

\* So does one whose client has gone without a word (live.c 343, goto lost),
\* with the same exception.
LossEnds == ~client ~> (at \in Returned \/ []Deaf)

\* A control session that connects while a command runs is served or finds the
\* command ended (live.c 302-310), with the same exception.
CtlServed == ctl = "queued" ~> (ctl # "queued" \/ at \in Returned \/ []Deaf)

\* What PLAN_01_PROTOCOL.md promises at 293 and at 143, without the exception;
\* both fail for a command that closes its output (README, section 3).
KillAlwaysEnds == askedK ~> at \in Returned
LossAlwaysEnds == ~client ~> at \in Returned

=============================================================================
