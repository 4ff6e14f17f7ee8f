---------------------------- MODULE LiveW32Proofs ----------------------------
(***************************************************************************)
(* The safety of live_exec on Win32, with and without job objects, and that *)
(* it implements Supervise too.                                             *)
(***************************************************************************)
EXTENDS LiveW32, ExecEnvProofs

\* A job has no pipes to watch and no session to lose.
JobInv ==
    mode = "JOB" =>
        /\ \A s \in Streams : done[s] = TRUE
        /\ at \notin Streams /\ total = 0 /\ lost = FALSE

\* Every chunk written is in a pipe or was taken from it, and until the session
\* is lost all that was taken was sent.
CountInv ==
    mode # "JOB" =>
        /\ total + pipe["O"] + pipe["E"] = wrote["O"] + wrote["E"]
        /\ lost = FALSE => \A s \in Streams : sent[s] + pipe[s] = wrote[s]

\* PeekNamedPipe failed: the pipe is empty and nobody can write to it.
EofInv ==
    mode # "JOB" => \A s \in Streams : done[s] = TRUE => pipe[s] = 0 /\ holds[s] = {}

\* Only a client that has gone loses its session.
LossInv == lost = TRUE => client = FALSE

AfterLoop == {"flush", "wait"} \cup Returned

\* The loop is left when both streams have ended, or after the kill.
FinishInv ==
    /\ at \in AfterLoop =>
          \/ \A s \in Streams : done[s] = TRUE
          \/ lost = TRUE /\ (hasjob = TRUE => Running = {})
    /\ at = "exit" => lost = FALSE
    /\ at = "gone" => lost = TRUE
    /\ at \in Returned => proc["sh"] = "zombie"

\* What select() found is still so when the loop comes to it.
SelectInv ==
    /\ "ls" \in rd /\ at = "accept" => ctl = "queued"
    /\ "sess" \in rd => mode # "JOB"
    /\ "sess" \in rd /\ at \in {"accept", "ctl", "sess"} => up # <<>> \/ client = FALSE

\* A control session is served at one place only, and to its end.
CtlInv == at = "ctl" <=> ctl \in {"served", "closed"}

IInv ==
    /\ TypeOK /\ EnvInv
    /\ JobInv /\ CountInv /\ EofInv /\ LossInv /\ FinishInv /\ SelectInv /\ CtlInv

-----------------------------------------------------------------------------
(* Types.                                                                   *)

\* The loop's own variables.
LoopTypeOK ==
    /\ at \in Places
    /\ rd \subseteq {"ls", "sess"}
    /\ done \in [Streams -> BOOLEAN]
    /\ hasjob \in BOOLEAN /\ inopen \in BOOLEAN /\ killed \in BOOLEAN
    /\ lost \in BOOLEAN /\ capped \in BOOLEAN
    /\ total \in 0..MaxWrite

LEMMA TypeParts == TypeOK <=> EnvTypeOK /\ LoopTypeOK
<1>1. {hasjob, inopen, killed, lost, capped} \subseteq BOOLEAN
      <=> /\ hasjob \in BOOLEAN /\ inopen \in BOOLEAN /\ killed \in BOOLEAN
          /\ lost \in BOOLEAN /\ capped \in BOOLEAN
  BY Zenon
<1> QED
  BY <1>1, Zenon DEF TypeOK, LoopTypeOK

\* Steps that move no output: the command's data stays where it is.
LEMMA QuietStep ==
    ASSUME IInv, UNCHANGED <<mode, pipe, wrote, sent, client, askedK, inputs, ctls>>,
           proc' \in [Procs -> {"none", "run", "zombie"}], holds' \in [Streams -> SUBSET Procs],
           HoldersRun', up' \in Seq({"I", "I0", "K"}), mode = "RUNI" \/ up' = up,
           inpipe' \in 0..PipeCap, ctl' \in {"none", "queued", "served", "closed"}
    PROVE  EnvInv'
<1>1. {client, askedK}' \subseteq BOOLEAN
  BY Zenon DEF IInv, EnvInv, EnvTypeOK
<1>2. EnvTypeOK'
  BY <1>1 DEF IInv, EnvInv, EnvTypeOK
<1>3. SilentClient' /\ Counted'
  BY DEF IInv, EnvInv, SilentClient, Counted
<1> QED
  BY <1>2, <1>3 DEF EnvInv

\* What the processes do when none of them is signalled.
LEMMA NoSignal ==
    ASSUME IInv, UNCHANGED <<proc, holds>>
    PROVE  /\ proc' \in [Procs -> {"none", "run", "zombie"}] /\ holds' \in [Streams -> SUBSET Procs]
           /\ HoldersRun' /\ Running' = Running
BY DEF IInv, EnvInv, EnvTypeOK, HoldersRun, Running

\* kill_job: everybody in the job, or the child.
LEMMA KillEffect ==
    ASSUME IInv, kill_job
    PROVE  /\ proc' \in [Procs -> {"none", "run", "zombie"}] /\ holds' \in [Streams -> SUBSET Procs]
           /\ HoldersRun' /\ Running' \subseteq Running
           /\ \A s \in Streams : holds[s] = {} => holds'[s] = {}
           /\ hasjob = TRUE => Running' = {}
           /\ proc["sh"] = "zombie" => proc'["sh"] = "zombie"
<1> DEFINE P == IF hasjob THEN Running ELSE Running \cap {"sh"}
<1>1. EnvTypeOK /\ HoldersRun /\ P \subseteq Running /\ Die(P)
  BY DEF IInv, EnvInv, kill_job
<1> HIDE DEF P
<1>2. /\ proc' \in [Procs -> {"none", "run", "zombie"}]
      /\ holds' \in [Streams -> SUBSET Procs]
      /\ Running' = Running \ P
      /\ \A s \in Streams : holds'[s] = holds[s] \ P
      /\ proc["sh"] = "zombie" => proc'["sh"] = "zombie"
  BY <1>1, DieEffect
<1>3. HoldersRun'
  BY <1>1, <1>2 DEF HoldersRun
<1>4. hasjob = TRUE => P = Running
  BY DEF P
<1> QED
  BY <1>2, <1>3, <1>4

-----------------------------------------------------------------------------
(* The steps of the supervisor.                                             *)

LEMMA SockWaitStep == ASSUME IInv, sock_wait PROVE IInv'
<1>1. /\ at = "poll" /\ at' = "accept"
      /\ rd' = (IF ctl = "queued" THEN {"ls"} ELSE {})
               \cup (IF mode # "JOB" /\ (up # <<>> \/ ~client) THEN {"sess"} ELSE {})
      /\ UNCHANGED <<mode, hasjob, done, inopen, killed, lost, capped, total>>
      /\ UNCHANGED <<proc, holds, pipe, inpipe, wrote, sent, up, client, askedK, inputs, ctl, ctls>>
  BY DEF sock_wait, envVars, procVars, peerVars, ctlVars
<1>2. EnvInv'
  BY <1>1, NoSignal, QuietStep DEF IInv, EnvInv, EnvTypeOK
<1>3. LoopTypeOK'
  BY <1>1, TypeParts DEF IInv, LoopTypeOK, Places
<1>4. TypeOK'
  BY <1>2, <1>3, TypeParts, PTL DEF EnvInv
<1>5. JobInv' /\ CountInv' /\ EofInv' /\ LossInv'
  BY <1>1 DEF IInv, JobInv, CountInv, EofInv, LossInv, Streams
<1>6. client \in BOOLEAN
  BY EnvBooleans DEF IInv, EnvInv
<1>7. FinishInv' /\ SelectInv' /\ CtlInv'
  BY <1>1, <1>6 DEF IInv, FinishInv, AfterLoop, Returned, SelectInv, CtlInv
<1> QED
  BY <1>2, <1>4, <1>5, <1>7 DEF IInv

LEMMA AcceptStep == ASSUME IInv, Accept PROVE IInv'
<1>1. /\ at = "accept"
      /\ \/ "ls" \in rd /\ ctl' = "served" /\ at' = "ctl"
         \/ "ls" \notin rd /\ ctl' = ctl /\ at' = "sess"
      /\ UNCHANGED <<mode, hasjob, rd, done, inopen, killed, lost, capped, total>>
      /\ UNCHANGED <<proc, holds, pipe, inpipe, wrote, sent, up, client, askedK, inputs, ctls>>
  BY DEF Accept, loopVars, procVars, peerVars
<1>2. EnvInv'
  BY <1>1, NoSignal, QuietStep DEF IInv, EnvInv, EnvTypeOK
<1>3. LoopTypeOK'
  BY <1>1, TypeParts DEF IInv, LoopTypeOK, Places
<1>4. TypeOK'
  BY <1>2, <1>3, TypeParts, PTL DEF EnvInv
<1>5. JobInv' /\ CountInv' /\ EofInv' /\ LossInv'
  BY <1>1 DEF IInv, JobInv, CountInv, EofInv, LossInv, Streams
<1>6. FinishInv' /\ SelectInv' /\ CtlInv'
  BY <1>1 DEF IInv, FinishInv, AfterLoop, Returned, SelectInv, CtlInv
<1> QED
  BY <1>2, <1>4, <1>5, <1>6 DEF IInv

LEMMA CtlReturnStep == ASSUME IInv, CtlReturn PROVE IInv'
<1>1. /\ at = "ctl" /\ ctl' = "none" /\ at' = "sess"
      /\ UNCHANGED <<mode, hasjob, rd, done, inopen, killed, lost, capped, total>>
      /\ UNCHANGED <<proc, holds, pipe, inpipe, wrote, sent, up, client, askedK, inputs, ctls>>
  BY DEF CtlReturn, loopVars, procVars, peerVars
<1>2. EnvInv'
  BY <1>1, NoSignal, QuietStep DEF IInv, EnvInv, EnvTypeOK
<1>3. LoopTypeOK'
  BY <1>1, TypeParts DEF IInv, LoopTypeOK, Places
<1>4. TypeOK'
  BY <1>2, <1>3, TypeParts, PTL DEF EnvInv
<1>5. JobInv' /\ CountInv' /\ EofInv' /\ LossInv'
  BY <1>1 DEF IInv, JobInv, CountInv, EofInv, LossInv, Streams
<1>6. FinishInv' /\ SelectInv' /\ CtlInv'
  BY <1>1 DEF IInv, FinishInv, AfterLoop, Returned, SelectInv, CtlInv
<1> QED
  BY <1>2, <1>4, <1>5, <1>6 DEF IInv

\* The next place of a turn is a stream that is still open, or the cap check.
LEMMA PumpPlace ==
    ASSUME NEW s \in Streams, LoopTypeOK
    PROVE  PumpFrom(s) \in {"O", "E", "cap"} /\ (PumpFrom(s) \in Streams => done[PumpFrom(s)] = FALSE)
BY DEF PumpFrom, LoopTypeOK, Streams

\* What the rest of a turn needs after the session was looked at.
LEMMA TurnGoesOn ==
    ASSUME IInv, EnvInv', LoopTypeOK',
           at' \in {"input", "O", "E", "cap"}, at \in {"sess", "input"},
           at' \in Streams => done[at'] = FALSE, at' = "input" => mode = "RUNI",
           UNCHANGED <<mode, hasjob, rd, done, total, pipe, wrote, sent, ctl, client>>,
           \A s \in Streams : holds[s] = {} => holds'[s] = {},
           lost' = lost \/ (mode # "JOB" /\ lost' = TRUE /\ client = FALSE)
    PROVE  IInv'
<1>1. TypeOK'
  BY TypeParts, PTL DEF EnvInv
<1>2. JobInv'
  BY DEF IInv, JobInv, Streams
<1>3. CountInv' /\ EofInv' /\ LossInv'
  BY DEF IInv, CountInv, EofInv, LossInv
<1>4. FinishInv' /\ SelectInv' /\ CtlInv'
  BY DEF IInv, FinishInv, AfterLoop, Returned, SelectInv, CtlInv
<1> QED
  BY <1>1, <1>2, <1>3, <1>4 DEF IInv

LEMMA SessReadStep == ASSUME IInv, SessRead PROVE IInv'
<1>1. /\ at = "sess"
      /\ UNCHANGED <<mode, hasjob, rd, done, capped, total, pipe, inpipe, wrote, sent, ctl, ctls>>
  BY DEF SessRead, ctlVars
<1>2. LoopTypeOK /\ "O" \in Streams
  BY TypeParts DEF IInv, Streams
<1>3. CASE "sess" \notin rd \/ mode = "RUN" \/ up = <<>>
  <2>1. /\ lost' = (lost \/ "sess" \in rd) /\ at' = PumpFrom("O")
        /\ UNCHANGED <<inopen, killed, proc, holds, up, client, askedK, inputs>>
    BY <1>3 DEF SessRead, peerVars
  <2>2. lost' \in BOOLEAN
    BY <2>1, Zenon
  <2>3. "sess" \in rd => mode # "JOB" /\ client = FALSE
    BY <1>1, <1>3 DEF IInv, SelectInv, EnvInv, SilentClient
  <2>4. lost' = lost \/ (mode # "JOB" /\ lost' = TRUE /\ client = FALSE)
    BY <1>2, <2>1, <2>3 DEF LoopTypeOK
  <2>5. EnvInv'
    BY <1>1, <2>1, NoSignal, QuietStep DEF IInv, EnvInv, EnvTypeOK
  <2>6. LoopTypeOK'
    BY <1>1, <1>2, <2>1, <2>2, PumpPlace DEF LoopTypeOK, Places
  <2> QED
    BY <1>1, <1>2, <2>1, <2>4, <2>5, <2>6, PumpPlace, TurnGoesOn
<1>4. CASE ~("sess" \notin rd \/ mode = "RUN" \/ up = <<>>)
  <2>1. runi_frame
    BY <1>4 DEF SessRead
  <2>2. mode = "RUNI" /\ up \in Seq({"I", "I0", "K"}) /\ up # <<>>
    BY <1>4, ExecAssumption DEF IInv, SelectInv, EnvInv, EnvTypeOK
  <2>3. up' = Tail(up) /\ up' \in Seq({"I", "I0", "K"}) /\ UNCHANGED <<lost, client, askedK, inputs>>
    BY <2>1, <2>2, HeadTailProperties DEF runi_frame
  <2>4. /\ at' = PumpFrom("O") \/ at' = "input"
        /\ inopen' \in BOOLEAN /\ killed' \in BOOLEAN
    BY <1>2, <2>1 DEF runi_frame, LoopTypeOK
  <2>5. /\ proc' \in [Procs -> {"none", "run", "zombie"}] /\ holds' \in [Streams -> SUBSET Procs]
        /\ HoldersRun' /\ \A s \in Streams : holds[s] = {} => holds'[s] = {}
    <3>1. CASE kill_job
      BY <3>1, KillEffect
    <3>2. CASE UNCHANGED <<proc, holds>>
      BY <3>2, NoSignal
    <3> QED
      BY <2>1, <3>1, <3>2 DEF runi_frame
  <2>6. EnvInv'
    BY <1>1, <2>2, <2>3, <2>5, QuietStep DEF IInv, EnvInv, EnvTypeOK
  <2>7. LoopTypeOK'
    BY <1>1, <1>2, <2>3, <2>4, PumpPlace DEF LoopTypeOK, Places
  <2>8. at' \in {"input", "O", "E", "cap"} /\ (at' \in Streams => done[at'] = FALSE)
    BY <1>2, <2>4, PumpPlace DEF Streams
  <2> QED
    BY <1>1, <2>2, <2>3, <2>5, <2>6, <2>7, <2>8, TurnGoesOn
<1> QED
  BY <1>3, <1>4

LEMMA InputStep == ASSUME IInv, Input PROVE IInv'
<1>1. /\ at = "input" /\ at' = PumpFrom("O")
      /\ UNCHANGED <<mode, hasjob, rd, done, killed, lost, capped, total>>
      /\ UNCHANGED <<proc, holds, pipe, wrote, sent, up, client, askedK, inputs, ctl, ctls>>
      /\ \/ inopen' = FALSE /\ inpipe' = inpipe
         \/ inpipe < PipeCap /\ inpipe' = inpipe + 1 /\ inopen' = inopen
  BY DEF Input, peerVars, ctlVars
<1>2. LoopTypeOK /\ "O" \in Streams /\ inpipe \in 0..PipeCap
  BY TypeParts DEF IInv, Streams, EnvInv, EnvTypeOK
<1>3. inpipe' \in 0..PipeCap
  BY <1>1, <1>2, Bounds
<1>4. inopen' \in BOOLEAN
  BY <1>1, <1>2, Zenon DEF LoopTypeOK
<1>5. EnvInv'
  BY <1>1, <1>3, NoSignal, QuietStep DEF IInv, EnvInv, EnvTypeOK
<1>6. LoopTypeOK'
  BY <1>1, <1>2, <1>4, PumpPlace DEF LoopTypeOK, Places
<1> QED
  BY <1>1, <1>2, <1>5, <1>6, PumpPlace, TurnGoesOn

\* One look at a pipe: nothing there, the end of it, or one chunk.
LEMMA PumpStep == ASSUME IInv, NEW s \in Streams, pump(s) PROVE IInv'
<1>1. /\ at = s /\ at' = After(s) /\ mode # "JOB"
      /\ UNCHANGED <<mode, hasjob, rd, inopen, killed, capped>>
      /\ UNCHANGED <<proc, holds, inpipe, wrote, up, client, askedK, inputs, ctl, ctls>>
  BY DEF pump, peerVars, ctlVars, IInv, JobInv
<1>2. /\ LoopTypeOK /\ pipe \in [Streams -> 0..PipeCap]
      /\ sent \in [Streams -> 0..MaxWrite] /\ wrote \in [Streams -> 0..MaxWrite]
      /\ total \in 0..MaxWrite /\ done \in [Streams -> BOOLEAN] /\ lost \in BOOLEAN
  BY TypeParts DEF IInv, LoopTypeOK, EnvTypeOK
<1>3. at' \in {"E", "cap"}
  BY <1>1 DEF After, PumpFrom, Streams
<1>4. /\ total + pipe["O"] + pipe["E"] = wrote["O"] + wrote["E"]
      /\ wrote["O"] + wrote["E"] <= MaxWrite
      /\ \A u \in Streams : sent[u] + pipe[u] <= wrote[u]
  BY <1>1 DEF IInv, CountInv, EnvInv, Counted
<1>b. {client, askedK}' \subseteq BOOLEAN
  BY <1>1, Zenon DEF IInv, EnvInv, EnvTypeOK
<1>h. HoldersRun' /\ SilentClient'
  BY <1>1 DEF IInv, EnvInv, HoldersRun, Running, SilentClient
<1>5. ASSUME LoopTypeOK', pipe' \in [Streams -> 0..PipeCap], sent' \in [Streams -> 0..MaxWrite],
             \A u \in Streams : sent'[u] + pipe'[u] <= wrote[u],
             CountInv', EofInv', LossInv'
      PROVE  IInv'
  <2>1. EnvTypeOK'
    BY <1>1, <1>5, <1>b DEF IInv, EnvInv, EnvTypeOK
  <2>2. Counted'
    BY <1>1, <1>4, <1>5 DEF Counted
  <2>3. TypeOK'
    BY <1>5, <2>1, TypeParts, PTL
  <2>4. JobInv' /\ FinishInv' /\ SelectInv' /\ CtlInv'
    BY <1>1, <1>3 DEF IInv, JobInv, FinishInv, AfterLoop, Returned, SelectInv, CtlInv, Streams
  <2> QED
    BY <1>5, <1>h, <2>1, <2>2, <2>3, <2>4 DEF IInv, EnvInv
<1>6. CASE pipe[s] = 0
  <2>1. /\ done' = [done EXCEPT ![s] = (holds[s] = {})]
        /\ UNCHANGED <<total, lost, pipe, sent>>
    BY <1>6 DEF pump
  <2>2. LoopTypeOK'
    BY <1>1, <1>2, <1>3, <2>1 DEF LoopTypeOK, Places
  <2>3. CountInv' /\ LossInv'
    BY <1>1, <2>1 DEF IInv, CountInv, LossInv
  <2>4. EofInv'
    BY <1>1, <1>2, <1>6, <2>1 DEF IInv, EofInv
  <2> QED
    BY <1>2, <1>4, <1>5, <2>1, <2>2, <2>3, <2>4
<1>7. CASE pipe[s] # 0
  <2>1. /\ total' = total + 1 /\ pipe' = [pipe EXCEPT ![s] = @ - 1] /\ done' = done
        /\ \/ sent' = [sent EXCEPT ![s] = @ + 1] /\ lost' = lost
           \/ client = FALSE /\ lost' = TRUE /\ sent' = sent
    BY <1>7, EnvBooleans DEF pump, IInv, EnvInv
  <2>2. total' \in 0..MaxWrite /\ pipe' \in [Streams -> 0..PipeCap]
    BY <1>2, <1>4, <1>7, <2>1, Bounds DEF Streams
  <2>3. sent' \in [Streams -> 0..MaxWrite] /\ \A u \in Streams : sent'[u] + pipe'[u] <= wrote[u]
    BY <1>2, <1>4, <1>7, <2>1, Bounds
  <2>4. lost' \in BOOLEAN
    BY <1>2, <2>1, Zenon
  <2>5. LoopTypeOK'
    BY <1>1, <1>2, <1>3, <2>1, <2>2, <2>4 DEF LoopTypeOK, Places
  <2>6. CountInv'
    <3>1. total' + pipe'["O"] + pipe'["E"] = wrote["O"] + wrote["E"]
      BY <1>2, <1>4, <1>7, <2>1, Bounds DEF Streams
    <3>2. ASSUME lost' = FALSE, NEW u \in Streams PROVE sent'[u] + pipe'[u] = wrote[u]
      <4>1. lost = FALSE /\ sent' = [sent EXCEPT ![s] = @ + 1]
        BY <2>1, <3>2
      <4>2. sent[u] + pipe[u] = wrote[u]
        BY <1>1, <4>1 DEF IInv, CountInv
      <4> QED
        BY <1>2, <2>1, <4>1, <4>2, Bounds
    <3> QED
      BY <1>1, <3>1, <3>2 DEF CountInv
  <2>7. EofInv'
    BY <1>1, <1>2, <1>7, <2>1 DEF IInv, EofInv
  <2>8. LossInv'
    BY <1>1, <2>1 DEF IInv, LossInv
  <2> QED
    BY <1>5, <2>2, <2>3, <2>5, <2>6, <2>7, <2>8
<1> QED
  BY <1>6, <1>7

LEMMA CapCheckStep == ASSUME IInv, CapCheck PROVE IInv'
<1>1. /\ at = "cap" /\ at' = "end"
      /\ UNCHANGED <<mode, hasjob, rd, done, inopen, killed, lost, total>>
      /\ UNCHANGED <<pipe, inpipe, wrote, sent, up, client, askedK, inputs, ctl, ctls>>
      /\ (capped' = TRUE /\ kill_job) \/ UNCHANGED <<capped, proc, holds>>
  BY DEF CapCheck, peerVars, ctlVars
<1>2. /\ proc' \in [Procs -> {"none", "run", "zombie"}] /\ holds' \in [Streams -> SUBSET Procs]
      /\ HoldersRun' /\ \A s \in Streams : holds[s] = {} => holds'[s] = {}
  BY <1>1, KillEffect, NoSignal
<1>3. EnvInv'
  BY <1>1, <1>2, QuietStep DEF IInv, EnvInv, EnvTypeOK
<1>4. LoopTypeOK'
  BY <1>1, TypeParts DEF IInv, LoopTypeOK, Places
<1>5. TypeOK'
  BY <1>3, <1>4, TypeParts, PTL DEF EnvInv
<1>6. JobInv' /\ CountInv' /\ EofInv' /\ LossInv'
  BY <1>1, <1>2 DEF IInv, JobInv, CountInv, EofInv, LossInv, Streams
<1>7. FinishInv' /\ SelectInv' /\ CtlInv'
  BY <1>1 DEF IInv, FinishInv, AfterLoop, Returned, SelectInv, CtlInv
<1> QED
  BY <1>3, <1>5, <1>6, <1>7 DEF IInv

\* The end of a turn: the kill of a lost session, or the end of both streams.
LEMMA TurnEndStep == ASSUME IInv, TurnEnd PROVE IInv'
<1>1. /\ at = "end"
      /\ UNCHANGED <<mode, hasjob, rd, done, inopen, killed, lost, capped, total>>
      /\ UNCHANGED <<pipe, inpipe, wrote, sent, up, client, askedK, inputs, ctl, ctls>>
  BY DEF TurnEnd, loopVars, peerVars, ctlVars
<1>2. LoopTypeOK
  BY TypeParts DEF IInv
<1>3. \/ lost = TRUE /\ kill_job /\ at' = "flush"
      \/ /\ UNCHANGED <<proc, holds>>
         /\ at' = "poll" \/ (at' = "flush" /\ \A s \in Streams : done[s] = TRUE)
  BY <1>2 DEF TurnEnd, LoopTypeOK
<1>4. /\ proc' \in [Procs -> {"none", "run", "zombie"}] /\ holds' \in [Streams -> SUBSET Procs]
      /\ HoldersRun' /\ \A s \in Streams : holds[s] = {} => holds'[s] = {}
  BY <1>3, KillEffect, NoSignal
<1>5. EnvInv'
  BY <1>1, <1>4, QuietStep DEF IInv, EnvInv, EnvTypeOK
<1>6. LoopTypeOK'
  BY <1>1, <1>2, <1>3 DEF LoopTypeOK, Places
<1>7. TypeOK'
  BY <1>5, <1>6, TypeParts, PTL DEF EnvInv
<1>8. JobInv' /\ CountInv' /\ EofInv' /\ LossInv'
  BY <1>1, <1>3, <1>4 DEF IInv, JobInv, CountInv, EofInv, LossInv, Streams
<1>9. FinishInv'
  BY <1>1, <1>3, KillEffect DEF FinishInv, AfterLoop, Returned
<1>10. SelectInv' /\ CtlInv'
  BY <1>1, <1>3 DEF IInv, SelectInv, CtlInv
<1> QED
  BY <1>5, <1>7, <1>8, <1>9, <1>10 DEF IInv

LEMMA FlushStep == ASSUME IInv, Flush PROVE IInv'
<1>1. /\ at = "flush" /\ at' = "wait"
      /\ UNCHANGED <<mode, hasjob, rd, done, inopen, killed, capped, total>>
      /\ UNCHANGED <<proc, holds, pipe, inpipe, wrote, sent, up, client, askedK, inputs, ctl, ctls>>
      /\ lost' = lost \/ (client = FALSE /\ mode # "JOB" /\ lost' = TRUE)
  BY EnvBooleans DEF Flush, envVars, procVars, peerVars, ctlVars, IInv, EnvInv
<1>2. LoopTypeOK
  BY TypeParts DEF IInv
<1>3. lost' \in BOOLEAN
  BY <1>1, <1>2, Zenon DEF LoopTypeOK
<1>4. EnvInv'
  BY <1>1, NoSignal, QuietStep DEF IInv, EnvInv, EnvTypeOK
<1>5. LoopTypeOK'
  BY <1>1, <1>2, <1>3 DEF LoopTypeOK, Places
<1>6. TypeOK'
  BY <1>4, <1>5, TypeParts, PTL DEF EnvInv
<1>7. JobInv' /\ CountInv' /\ EofInv' /\ LossInv'
  BY <1>1 DEF IInv, JobInv, CountInv, EofInv, LossInv, Streams
<1>8. FinishInv'
  BY <1>1, NoSignal DEF IInv, FinishInv, AfterLoop, Returned
<1>9. SelectInv' /\ CtlInv'
  BY <1>1 DEF IInv, SelectInv, CtlInv
<1> QED
  BY <1>4, <1>6, <1>7, <1>8, <1>9 DEF IInv

LEMMA ReturnStep == ASSUME IInv, Return PROVE IInv'
<1>1. /\ at = "wait" /\ at' = IF lost THEN "gone" ELSE "exit"
      /\ proc["sh"] = "zombie"
      /\ UNCHANGED <<mode, hasjob, rd, done, inopen, killed, lost, capped, total>>
      /\ UNCHANGED <<proc, holds, pipe, inpipe, wrote, sent, up, client, askedK, inputs, ctl, ctls>>
  BY DEF Return, loopVars, envVars, procVars, peerVars, ctlVars
<1>2. LoopTypeOK
  BY TypeParts DEF IInv
<1>3. at' \in Returned /\ (at' = "gone" => lost = TRUE) /\ (at' = "exit" => lost = FALSE)
  BY <1>1, <1>2 DEF LoopTypeOK, Returned
<1>4. EnvInv'
  BY <1>1, NoSignal, QuietStep DEF IInv, EnvInv, EnvTypeOK
<1>5. LoopTypeOK'
  BY <1>1, <1>2, <1>3 DEF LoopTypeOK, Places
<1>6. TypeOK'
  BY <1>4, <1>5, TypeParts, PTL DEF EnvInv
<1>7. JobInv' /\ CountInv' /\ EofInv' /\ LossInv'
  BY <1>1, <1>3 DEF IInv, JobInv, CountInv, EofInv, LossInv, Streams, Returned
<1>8. FinishInv'
  BY <1>1, <1>3, NoSignal DEF IInv, FinishInv, AfterLoop, Returned
<1>9. SelectInv' /\ CtlInv'
  BY <1>1, <1>3 DEF IInv, SelectInv, CtlInv, Returned
<1> QED
  BY <1>4, <1>6, <1>7, <1>8, <1>9 DEF IInv

-----------------------------------------------------------------------------
(* The steps around it.                                                     *)

LEMMA AroundStep == ASSUME IInv, Around PROVE IInv'
<1>1. /\ Environment
      /\ UNCHANGED <<at, mode, hasjob, rd, done, inopen, killed, lost, capped, total>>
  BY DEF Around, loopVars
<1>2. EnvInv' /\ CommandFrame /\ PeerFrame
  BY <1>1, EnvironmentStep DEF IInv
<1>3. LoopTypeOK'
  BY <1>1, TypeParts DEF IInv, LoopTypeOK
<1>4. TypeOK'
  BY <1>2, <1>3, TypeParts, PTL DEF EnvInv
<1>5. client' \in BOOLEAN /\ client \in BOOLEAN
  BY <1>2, Zenon DEF IInv, EnvInv, EnvTypeOK
<1>6. JobInv' /\ LossInv'
  BY <1>1, <1>2, <1>5 DEF IInv, JobInv, LossInv, PeerFrame
<1>7. /\ \A s \in Streams : /\ pipe[s] \in Nat /\ pipe'[s] \in Nat
                             /\ wrote[s] \in Nat /\ wrote'[s] \in Nat /\ sent[s] \in Nat
      /\ total \in Nat /\ sent' = sent
  <2>1. sent' = sent
    BY <1>1 DEF Environment, Command, Client, CtlConnect, CtlClose
  <2>2. EnvTypeOK /\ EnvTypeOK' /\ LoopTypeOK
    BY <1>2, TypeParts DEF IInv, EnvInv
  <2> QED
    BY <2>1, <2>2, Bounds DEF EnvTypeOK, LoopTypeOK
<1>8. CountInv'
  <2>1. SUFFICES ASSUME mode # "JOB"
                 PROVE  /\ total + pipe'["O"] + pipe'["E"] = wrote'["O"] + wrote'["E"]
                        /\ lost = FALSE => \A s \in Streams : sent[s] + pipe'[s] = wrote'[s]
    BY <1>1, <1>7 DEF CountInv
  <2>2. \A s \in Streams : wrote'[s] - pipe'[s] = wrote[s] - pipe[s]
    BY <1>2, <2>1 DEF CommandFrame
  <2>3. total + pipe["O"] + pipe["E"] = wrote["O"] + wrote["E"]
    BY <2>1 DEF IInv, CountInv
  <2>4. total + pipe'["O"] + pipe'["E"] = wrote'["O"] + wrote'["E"]
    BY <1>7, <2>2, <2>3 DEF Streams
  <2>5. ASSUME lost = FALSE, NEW s \in Streams PROVE sent[s] + pipe'[s] = wrote'[s]
    BY <1>7, <2>1, <2>2, <2>5 DEF IInv, CountInv
  <2> QED
    BY <2>4, <2>5
<1>9. EofInv'
  BY <1>1, <1>2 DEF IInv, EofInv, CommandFrame
<1>10. FinishInv'
  BY <1>1, <1>2 DEF IInv, FinishInv, CommandFrame
<1>11. SelectInv' /\ CtlInv'
  BY <1>1, <1>2, <1>5 DEF IInv, SelectInv, CtlInv, PeerFrame
<1> QED
  BY <1>2, <1>4, <1>6, <1>8, <1>9, <1>10, <1>11 DEF IInv

LEMMA StutterStep == ASSUME IInv, UNCHANGED vars PROVE IInv'
<1>1. /\ UNCHANGED <<at, mode, hasjob, rd, done, inopen, killed, lost, capped, total>>
      /\ UNCHANGED <<proc, holds, pipe, inpipe, wrote, sent, up, client, askedK, inputs, ctl, ctls>>
  BY DEF vars, loopVars, envVars, procVars, peerVars, ctlVars
<1>2. EnvInv'
  BY <1>1, NoSignal, QuietStep DEF IInv, EnvInv, EnvTypeOK
<1>3. LoopTypeOK'
  BY <1>1, TypeParts DEF IInv, LoopTypeOK
<1>4. TypeOK'
  BY <1>2, <1>3, TypeParts, PTL DEF EnvInv
<1>5. JobInv' /\ CountInv' /\ EofInv' /\ LossInv'
  BY <1>1 DEF IInv, JobInv, CountInv, EofInv, LossInv
<1>6. FinishInv' /\ SelectInv' /\ CtlInv'
  BY <1>1, NoSignal DEF IInv, FinishInv, SelectInv, CtlInv
<1> QED
  BY <1>2, <1>4, <1>5, <1>6 DEF IInv

LEMMA InitIInv == Init => IInv
<1> SUFFICES ASSUME Init PROVE IInv
  OBVIOUS
<1>1. EnvInv
  BY InitEnvInv DEF Init
<1>2. /\ at = "poll" /\ rd = {} /\ total = 0
      /\ killed = FALSE /\ lost = FALSE /\ capped = FALSE
      /\ done = [s \in Streams |-> mode = "JOB"] /\ inopen = (mode = "RUNI")
  BY DEF Init
<1>3. /\ hasjob \in BOOLEAN /\ inopen \in BOOLEAN /\ killed \in BOOLEAN
      /\ lost \in BOOLEAN /\ capped \in BOOLEAN
  BY <1>2, Zenon DEF Init
<1>4. done \in [Streams -> BOOLEAN]
  BY <1>2
<1>5. at = "poll" /\ rd = {} /\ total = 0
  BY <1>2
<1>6. LoopTypeOK
  BY <1>3, <1>4, <1>5, Bounds DEF LoopTypeOK, Places
<1>7. TypeOK
  BY <1>1, <1>6, TypeParts DEF EnvInv
<1>8. JobInv /\ CountInv
  <2>1. mode = "JOB" => \A s \in Streams : done[s] = TRUE
    BY <1>2
  <2>2. JobInv
    BY <1>2, <2>1 DEF JobInv, Streams
  <2>3. /\ pipe = [s \in Streams |-> 0] /\ wrote = [s \in Streams |-> 0]
        /\ sent = [s \in Streams |-> 0]
    BY DEF Init, EnvInit
  <2>4. CountInv
    BY <1>5, <2>3 DEF CountInv, Streams
  <2> QED
    BY <2>2, <2>4
<1>9. EofInv /\ LossInv
  BY <1>2 DEF Init, EnvInit, EofInv, LossInv, Streams
<1>10. FinishInv /\ SelectInv /\ CtlInv
  BY <1>5 DEF Init, EnvInit, FinishInv, AfterLoop, Returned, SelectInv, CtlInv
<1> QED
  BY <1>1, <1>7, <1>8, <1>9, <1>10 DEF IInv

LEMMA NextIInv == IInv /\ [Next]_vars => IInv'
<1> SUFFICES ASSUME IInv, [Next]_vars PROVE IInv'
  OBVIOUS
<1>1. CASE Supervisor
  BY <1>1, SockWaitStep, AcceptStep, CtlReturnStep, SessReadStep, InputStep, PumpStep,
     CapCheckStep, TurnEndStep, FlushStep, ReturnStep DEF Supervisor
<1>2. CASE Around
  BY <1>2, AroundStep
<1>3. CASE Done \/ UNCHANGED vars
  BY <1>3, StutterStep DEF Done
<1> QED
  BY <1>1, <1>2, <1>3 DEF Next

-----------------------------------------------------------------------------
(* Theorems.                                                                *)

\* Everything live_w32.c's loop keeps true, in every state of every behaviour.
THEOREM Inductive == Spec => []IInv
BY InitIInv, NextIInv, PTL DEF Spec

\* The supervisor's variables keep their types, the byte count its bound.
THEOREM TypeCorrect == Spec => []TypeOK
<1>1. IInv => TypeOK
  BY DEF IInv
<1> QED
  BY <1>1, Inductive, PTL

\* Polling loses nothing: every chunk the command wrote was framed before
\* live_exec returns an exit code (live_w32.c, pump and the end of the turn).
THEOREM OutputIsComplete == Spec => []OutputComplete
<1>1. IInv => OutputComplete
  <2> SUFFICES ASSUME IInv, at = "exit", mode # "JOB" PROVE sent = wrote
    BY DEF OutputComplete
  <2>1. lost = FALSE /\ \A s \in Streams : done[s] = TRUE
    BY DEF IInv, FinishInv, AfterLoop, Returned
  <2>2. \A s \in Streams : sent[s] + pipe[s] = wrote[s] /\ pipe[s] = 0
    BY <2>1 DEF IInv, CountInv, EofInv
  <2>3. sent \in [Streams -> Nat] /\ wrote \in [Streams -> Nat]
    BY Bounds DEF IInv, EnvInv, EnvTypeOK
  <2> QED
    BY <2>2, <2>3
<1> QED
  BY <1>1, Inductive, PTL

\* What is left behind when live_exec has given a session up: with a job object
\* nothing that still held a stream, without one everything but the child
\* (live_w32.c, kill_job and the end of the turn).
THEOREM NoProcessLeft == Spec => []NoOrphans
<1>1. IInv => NoOrphans
  <2> SUFFICES ASSUME IInv, at = "gone" PROVE NoOrphans
    BY DEF NoOrphans
  <2>1. proc["sh"] = "zombie"
    BY DEF IInv, FinishInv, Returned
  <2>2. (\A s \in Streams : done[s] = TRUE) \/ (hasjob = TRUE => Running = {})
    BY DEF IInv, FinishInv, AfterLoop, Returned
  <2>3. hasjob \in BOOLEAN
    BY TypeParts DEF IInv, LoopTypeOK
  <2>4. (\A s \in Streams : done[s]) \/ (hasjob => Running = {})
    BY <2>2, <2>3, Zenon
  <2> QED
    BY <2>1, <2>3, <2>4, Zenon DEF NoOrphans
<1> QED
  BY <1>1, Inductive, PTL

-----------------------------------------------------------------------------
(* The refinement.                                                          *)

\* Every step of the supervisor is a step of Supervise or leaves its state alone.
LEMMA SupervisorRefines ==
    ASSUME IInv, Supervisor PROVE [Abs!SNext]_(Abs!svars)
<1> USE DEF Abs!svars
<1>1. CASE sock_wait \/ CapCheck \/ Flush \/ TurnEnd \/ Input
  BY <1>1 DEF sock_wait, CapCheck, Flush, TurnEnd, Input, PumpFrom, envVars, peerVars, ctlVars
<1>2. CASE Accept
  <2>1. CASE "ls" \in rd
    <3>1. ctl = "queued" /\ ctl' = "served" /\ at = "accept" /\ at' = "ctl" /\ UNCHANGED client
      BY <1>2, <2>1 DEF Accept, IInv, SelectInv, peerVars
    <3> QED
      BY <3>1 DEF Abs!SNext, Abs!CtlServed
  <2>2. CASE "ls" \notin rd
    BY <1>2, <2>2 DEF Accept, peerVars
  <2> QED
    BY <2>1, <2>2
<1>3. CASE CtlReturn
  BY <1>3 DEF CtlReturn, peerVars, Abs!SNext, Abs!CtlEnds
<1>4. CASE SessRead
  <2>1. at = "sess" /\ UNCHANGED <<client, ctl>>
    BY <1>4 DEF SessRead, runi_frame, peerVars, ctlVars
  <2>2. at' \in {"input", "O", "E", "cap"}
    BY <1>4 DEF SessRead, runi_frame, PumpFrom
  <2> QED
    BY <2>1, <2>2
<1>5. ASSUME NEW s \in Streams, pump(s) PROVE [Abs!SNext]_(Abs!svars)
  <2>1. at = s /\ at' = After(s) /\ UNCHANGED <<client, ctl>>
    BY <1>5 DEF pump, peerVars, ctlVars
  <2> QED
    BY <2>1 DEF After, PumpFrom, Streams
<1>6. CASE Return
  <2>1. at = "wait" /\ at' = (IF lost THEN "gone" ELSE "exit") /\ UNCHANGED <<client, ctl>>
    BY <1>6 DEF Return, envVars, peerVars, ctlVars
  <2>2. ctl \in {"none", "queued"}
    BY <2>1 DEF IInv, EnvInv, EnvTypeOK, CtlInv
  <2>3. lost \in BOOLEAN
    BY TypeParts DEF IInv, LoopTypeOK
  <2>4. lost => ~client
    BY <2>3, Zenon DEF IInv, LossInv
  <2> QED
    BY <2>1, <2>2, <2>4 DEF Abs!SNext, Abs!Ends
<1> QED
  BY <1>1, <1>2, <1>3, <1>4, <1>5, <1>6 DEF Supervisor

LEMMA AroundRefines ==
    ASSUME IInv, Around PROVE [Abs!SNext]_(Abs!svars)
<1> USE DEF Abs!svars
<1>1. at' = at
  BY DEF Around
<1>2. CASE Command
  BY <1>1, <1>2 DEF Command, peerVars, ctlVars
<1>3. CASE Client
  <2>1. client' = client \/ client' = FALSE
    BY <1>3 DEF Client, Say
  <2>2. client /\ UNCHANGED ctl
    BY <1>3 DEF Client, ctlVars
  <2> QED
    BY <1>1, <2>1, <2>2 DEF Abs!SNext, Abs!ClientGone
<1>4. CASE CtlConnect
  BY <1>1, <1>4 DEF CtlConnect, peerVars, Abs!SNext, Abs!CtlConnects
<1>5. CASE CtlClose
  BY <1>1, <1>5 DEF CtlClose, peerVars, Abs!SNext, Abs!CtlLeaves
<1> QED
  BY <1>2, <1>3, <1>4, <1>5 DEF Around, Environment

\* The Win32 supervisor implements Supervise: it returns an exit code or gives
\* up a session whose client has gone, and never from within a control session.
THEOREM Implementation == Spec => ImplementsSupervise
<1>1. Init => Abs!SInit
  BY DEF Init, EnvInit, Abs!SInit
<1>2. IInv /\ [Next]_vars => [Abs!SNext]_(Abs!svars)
  <2> SUFFICES ASSUME IInv, [Next]_vars PROVE [Abs!SNext]_(Abs!svars)
    OBVIOUS
  <2>1. CASE Done \/ UNCHANGED vars
    BY <2>1 DEF Done, vars, envVars, peerVars, ctlVars, Abs!svars
  <2> QED
    BY <2>1, SupervisorRefines, AroundRefines DEF Next
<1> QED
  BY <1>1, <1>2, Inductive, PTL DEF Spec, ImplementsSupervise, Abs!SSpec
=============================================================================
