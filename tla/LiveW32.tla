------------------------------ MODULE LiveW32 ------------------------------
(***************************************************************************)
(* live_exec of daemon/live_w32.c: the Win32 supervisor.  It cannot wait    *)
(* for pipes and sockets together, so it polls: select() on the sockets for *)
(* POLL_MS, PeekNamedPipe on the pipes, WaitForSingleObject on the child.   *)
(* A job object stands for POSIX's process group where the system has one.  *)
(***************************************************************************)
EXTENDS ExecEnv

VARIABLES
    hasjob,   \* make_job succeeded
    rd,       \* ls_rd and sess_rd of this turn
    done,     \* done[s]: out_done, err_done
    inopen,   \* in_w is not NULL
    killed,   \* K was obeyed
    lost,
    capped,
    total

loopVars == <<mode, hasjob, rd, done, inopen, killed, lost, capped, total>>
vars == <<loopVars, at, envVars>>

\* One turn of the loop, in order, with the blocking calls "ctl" (ctl_session)
\* and "input" (WriteFile) in it; "flush" and "wait" after the loop.
Places == {"poll", "accept", "ctl", "sess", "input", "O", "E", "cap", "end",
           "flush", "wait"} \cup Returned

TypeOK ==
    /\ EnvTypeOK /\ at \in Places
    /\ rd \subseteq {"ls", "sess"}
    /\ done \in [Streams -> BOOLEAN]
    /\ {hasjob, inopen, killed, lost, capped} \subseteq BOOLEAN
    /\ total \in 0..MaxWrite

\* CreateProcess has succeeded.  The child is started suspended and is in the
\* job, if there is one, before it runs.
Init ==
    /\ EnvInit
    /\ at = "poll" /\ rd = {}
    /\ hasjob \in BOOLEAN
    /\ done = [s \in Streams |-> mode = "JOB"]
    /\ inopen = (mode = "RUNI")
    /\ killed = FALSE /\ lost = FALSE /\ capped = FALSE /\ total = 0

-----------------------------------------------------------------------------
\* Slip: only the process that was started is terminated.
KillProcess == Die(Running \cap {"sh"})

\* TerminateJobObject reaches every process of the job, TerminateProcess only
\* the child itself.
kill_job == Die(IF hasjob THEN Running ELSE Running \cap {"sh"})

\* Slip: control connections are looked for during jobs only.
sock_waitJobOnly ==
    /\ at = "poll" /\ at' = "accept"
    /\ rd' = (IF ctl = "queued" /\ mode = "JOB" THEN {"ls"} ELSE {})
             \cup (IF mode # "JOB" /\ (up # <<>> \/ ~client) THEN {"sess"} ELSE {})
    /\ UNCHANGED <<mode, hasjob, done, inopen, killed, lost, capped, total, envVars>>

sock_wait ==
    /\ at = "poll"
    /\ rd' = (IF ctl = "queued" THEN {"ls"} ELSE {})
             \cup (IF mode # "JOB" /\ (up # <<>> \/ ~client) THEN {"sess"} ELSE {})
    /\ at' = "accept"
    /\ UNCHANGED <<mode, hasjob, done, inopen, killed, lost, capped, total, envVars>>

Accept ==
    /\ at = "accept"
    /\ IF "ls" \in rd THEN ctl' = "served" /\ at' = "ctl" ELSE UNCHANGED ctl /\ at' = "sess"
    /\ UNCHANGED <<loopVars, procVars, sent, peerVars, ctls>>

\* ctl_session returns at the end of the control connection only.
CtlReturn ==
    /\ at = "ctl" /\ ctl = "closed"
    /\ ctl' = "none"
    /\ at' = "sess"
    /\ UNCHANGED <<loopVars, procVars, sent, peerVars, ctls>>

\* The first stream that is still open, from s on, or the cap check.
PumpFrom(s) == IF s = "O" /\ ~done["O"] THEN "O" ELSE IF ~done["E"] THEN "E" ELSE "cap"

\* One I or K frame.
runi_frame ==
    /\ up' = Tail(up)
    /\ \/ /\ Head(up) = "K"
          /\ IF killed THEN UNCHANGED <<proc, holds>> ELSE kill_job
          /\ killed' = TRUE /\ at' = PumpFrom("O") /\ UNCHANGED inopen
       \/ /\ Head(up) = "I0" /\ inopen' = FALSE
          /\ at' = PumpFrom("O") /\ UNCHANGED <<killed, proc, holds>>
       \/ /\ Head(up) = "I"
          /\ at' = IF inopen /\ ~killed THEN "input" ELSE PumpFrom("O")
          /\ UNCHANGED <<killed, proc, holds, inopen>>
    /\ UNCHANGED <<lost, client, askedK, inputs>>

\* Slip: a readable session ends the command in every mode.
SessReadRunOnly ==
    /\ at = "sess"
    /\ lost' = (lost \/ "sess" \in rd) /\ at' = PumpFrom("O")
    /\ UNCHANGED <<mode, hasjob, rd, done, inopen, killed, capped, total, envVars>>

\* A readable session: during RUN, and at end-of-file, it is lost.  The turn
\* goes on all the same.
SessRead ==
    /\ at = "sess"
    /\ IF "sess" \notin rd \/ mode = "RUN" \/ up = <<>>
         THEN /\ lost' = (lost \/ "sess" \in rd)
              /\ at' = PumpFrom("O")
              /\ UNCHANGED <<inopen, killed, proc, holds, peerVars>>
         ELSE runi_frame
    /\ UNCHANGED <<mode, hasjob, rd, done, capped, total, pipe, inpipe, wrote, sent, ctlVars>>

\* WriteFile blocks while the pipe is full and fails without a reader.
Input ==
    /\ at = "input"
    /\ IF proc["sh"] # "run" THEN inopen' = FALSE /\ UNCHANGED inpipe
       ELSE inpipe < PipeCap /\ inpipe' = inpipe + 1 /\ UNCHANGED inopen
    /\ at' = PumpFrom("O")
    /\ UNCHANGED <<mode, hasjob, rd, done, killed, lost, capped, total,
                   proc, holds, pipe, wrote, sent, peerVars, ctlVars>>

After(s) == IF s = "O" THEN PumpFrom("E") ELSE "cap"

\* Slip: an empty pipe whose writer has not ended counts as ended.
PumpEmptyIsEof(s) ==
    /\ at = s /\ at' = After(s)
    /\ IF pipe[s] = 0 THEN done' = [done EXCEPT ![s] = TRUE] /\ UNCHANGED <<total, pipe, sent>>
       ELSE /\ total' = total + 1 /\ pipe' = [pipe EXCEPT ![s] = @ - 1]
            /\ sent' = [sent EXCEPT ![s] = @ + 1] /\ UNCHANGED done
    /\ UNCHANGED <<mode, hasjob, rd, inopen, killed, lost, capped, proc, holds, inpipe, wrote,
                   peerVars, ctlVars>>

\* PeekNamedPipe fails once the pipe is empty and nobody can write to it any
\* more.  A frame for a client that is gone may be accepted or be refused.
pump(s) ==
    /\ at = s
    /\ at' = After(s)
    /\ IF pipe[s] = 0
         THEN /\ done' = [done EXCEPT ![s] = (holds[s] = {})]
              /\ UNCHANGED <<total, lost, pipe, sent>>
         ELSE /\ total' = total + 1
              /\ pipe' = [pipe EXCEPT ![s] = @ - 1]
              /\ \/ sent' = [sent EXCEPT ![s] = @ + 1] /\ UNCHANGED lost
                 \/ ~client /\ lost' = TRUE /\ UNCHANGED sent
              /\ UNCHANGED done
    /\ UNCHANGED <<mode, hasjob, rd, inopen, killed, capped, proc, holds, inpipe, wrote,
                   peerVars, ctlVars>>

\* What the cap looks at: the bytes streamed, or the size of the capture files.
Measured == IF mode = "JOB" THEN wrote["O"] + wrote["E"] ELSE total

\* Slip: the cap only reports.
CapCheckNoKill ==
    /\ at = "cap" /\ at' = "end"
    /\ capped' = (capped \/ (Cap > 0 /\ Measured > Cap))
    /\ UNCHANGED <<mode, hasjob, rd, done, inopen, killed, lost, total, envVars>>

CapCheck ==
    /\ at = "cap"
    /\ IF Cap > 0 /\ ~capped /\ Measured > Cap
         THEN capped' = TRUE /\ kill_job
         ELSE UNCHANGED <<capped, proc, holds>>
    /\ at' = "end"
    /\ UNCHANGED <<mode, hasjob, rd, done, inopen, killed, lost, total, pipe, inpipe, wrote,
                   sent, peerVars, ctlVars>>

\* Slip: a lost session is left to end by itself.
TurnEndNoKill ==
    /\ at = "end"
    /\ at' = IF lost \/ ((\A s \in Streams : done[s]) /\ proc["sh"] = "zombie") THEN "flush" ELSE "poll"
    /\ UNCHANGED <<loopVars, envVars>>

\* The end of a turn: a lost session is killed, a command whose streams and
\* process have ended is finished.
TurnEnd ==
    /\ at = "end"
    /\ IF lost THEN kill_job /\ at' = "flush"
       ELSE /\ at' = IF (\A s \in Streams : done[s]) /\ proc["sh"] = "zombie"
                       THEN "flush" ELSE "poll"
            /\ UNCHANGED <<proc, holds>>
    /\ UNCHANGED <<loopVars, pipe, inpipe, wrote, sent, peerVars, ctlVars>>

\* cv_flush_all: a held-back tail may meet a client that has gone since.
Flush ==
    /\ at = "flush"
    /\ at' = "wait"
    /\ \/ UNCHANGED lost
       \/ ~client /\ mode # "JOB" /\ lost' = TRUE
    /\ UNCHANGED <<mode, hasjob, rd, done, inopen, killed, capped, total, envVars>>

\* WaitForSingleObject(INFINITE), then live_exec returns.
Return ==
    /\ at = "wait" /\ proc["sh"] = "zombie"
    /\ at' = IF lost THEN "gone" ELSE "exit"
    /\ UNCHANGED <<loopVars, envVars>>

Supervisor ==
    \/ sock_wait \/ Accept \/ CtlReturn \/ SessRead \/ Input \/ (\E s \in Streams : pump(s))
    \/ CapCheck \/ TurnEnd \/ Flush \/ Return

Around == Environment /\ UNCHANGED <<at, loopVars>>

\* After the return the caller goes on, see Gcdsd.
Done == at \in Returned /\ UNCHANGED vars

Next == Supervisor \/ Around \/ Done

\* Each turn is finished, a control session ends (every wait of gcds for a reply
\* is limited by an alarm) and the foreground command reads its input.
Fairness ==
    /\ WF_vars(Supervisor)
    /\ WF_vars(CtlClose /\ UNCHANGED <<at, loopVars>>)
    /\ WF_vars(ReadInput /\ UNCHANGED <<at, loopVars, sent, peerVars, ctlVars>>)

Spec == Init /\ [][Next]_vars /\ Fairness

-----------------------------------------------------------------------------
(* Properties.                                                              *)

\* A lost session leaves no process of the command behind, except one that let
\* go of its streams before the loss was found: live_w32.c 440 notices the loss
\* after both streams have ended and kills nothing any more.  On NT4, without
\* job objects, at least the shell is gone (live_w32.c 36-41, 429).
NoOrphans ==
    at = "gone" => IF hasjob THEN Running = {} \/ (\A s \in Streams : done[s])
                             ELSE proc["sh"] = "zombie"

Abs == INSTANCE Supervise WITH
         st <- IF at = "exit" THEN "exit" ELSE IF at = "gone" THEN "lost" ELSE "running"

\* The Win32 supervisor, too, does what Gcdsd's sessions rely on.
ImplementsSupervise == Abs!SSpec

\* With a job object K and the cap end the command and everything it has
\* started, whatever holds the pipes; without one a background process keeps
\* the loop waiting for the end of the pipes, as live_w32.c 40 says.
KillEnds == hasjob /\ (askedK \/ capped) ~> at \in Returned

\* A client that goes away ends the command on NT4 too: the loop is left
\* without waiting for the pipes (live_w32.c 429).
LossEnds == ~client ~> at \in Returned
=============================================================================
