--------------------------- MODULE LiveExecProofs ---------------------------
(***************************************************************************)
(* The safety of live_exec on POSIX, for every cap, size of the pipes,      *)
(* amount of output and input and number of control sessions, and that it   *)
(* implements Supervise.                                                    *)
(***************************************************************************)
EXTENDS LiveExec, ExecEnvProofs

LostPlaces == {"lost", "gone"}

\* goto lost kills the whole group; nobody is left who could start a process.
StopInv ==
    /\ at \in LostPlaces => Running = {}
    /\ at = "gone" => reaped = TRUE

\* A job is supervised without looking at pipes or at a session.
JobInv ==
    mode = "JOB" => at \in {"select", "accept", "ctl", "tail", "exit"} /\ total = 0

\* Every chunk written is in a pipe or was taken from it, and until the session
\* is lost all that was taken was sent.
CountInv ==
    mode # "JOB" =>
        /\ total + pipe["O"] + pipe["E"] = wrote["O"] + wrote["E"]
        /\ at \notin LostPlaces => \A s \in Streams : sent[s] + pipe[s] = wrote[s]

\* A stream is closed only when it is empty and nobody can write to it.
EofInv ==
    mode # "JOB" =>
        /\ at \notin LostPlaces =>
              \A s \in Streams : open[s] = FALSE => pipe[s] = 0 /\ holds[s] = {}
        /\ at \in {"reap", "exit"} => \A s \in Streams : open[s] = FALSE

\* The places of a turn from select() to the use of what it said of s.
Until(s) ==
    CASE s = "ls" -> {"accept"}
      [] s = "O" -> {"accept", "ctl", "O"}
      [] s = "E" -> {"accept", "ctl", "O", "E"}
      [] s = "sess" -> {"accept", "ctl", "O", "E", "cap", "sess"}

\* What select() found is still so when the loop comes to it.
SelectInv ==
    /\ \A s \in Streams : s \in rd /\ at \in Until(s) => pipe[s] > 0 \/ holds[s] = {}
    /\ "ls" \in rd /\ at \in Until("ls") => ctl = "queued"
    /\ "sess" \in rd /\ at \in Until("sess") => up # <<>> \/ client = FALSE

\* A control session is served at one place only, and to its end.
CtlInv == at = "ctl" <=> ctl \in {"served", "closed"}

\* One turn reads at most one chunk of each stream before the cap is looked at.
Slack == CASE at = "E" -> 1 [] at = "cap" -> 2 [] OTHER -> 0

CapInv ==
    Cap > 0 /\ mode # "JOB" =>
        /\ capped = TRUE => Running = {}
        /\ capped = FALSE /\ at \notin LostPlaces => total <= Cap + Slack

IInv ==
    /\ TypeOK /\ EnvInv
    /\ StopInv /\ JobInv /\ CountInv /\ EofInv /\ SelectInv /\ CtlInv /\ CapInv /\ OutputBounded

-----------------------------------------------------------------------------
(* Types.                                                                   *)

\* The loop's own variables.
LoopTypeOK ==
    /\ at \in Places
    /\ rd \subseteq Streams \cup {"ls", "sess"}
    /\ open \in [Streams -> BOOLEAN] /\ inopen \in BOOLEAN
    /\ killed \in 0..2 /\ late \in BOOLEAN /\ reaped \in BOOLEAN /\ capped \in BOOLEAN
    /\ total \in 0..MaxWrite

LEMMA TypeParts == TypeOK <=> EnvTypeOK /\ LoopTypeOK
<1>1. {late, reaped, capped} \subseteq BOOLEAN
      <=> late \in BOOLEAN /\ reaped \in BOOLEAN /\ capped \in BOOLEAN
  BY Zenon
<1> QED
  BY <1>1, Zenon DEF TypeOK, LoopTypeOK

-----------------------------------------------------------------------------
(* The steps of the supervisor.                                             *)

\* Steps that leave the command, its pipes and what was sent alone.
LEMMA QuietStep ==
    ASSUME IInv, UNCHANGED <<mode, proc, holds, pipe, wrote, sent, total, capped, client, askedK, inputs, ctls>>,
           up' \in Seq({"I", "I0", "K"}), mode = "RUNI" \/ up' = up,
           inpipe' \in 0..PipeCap, ctl' \in {"none", "queued", "served", "closed"}
    PROVE  EnvInv' /\ OutputBounded'
<1>1. {client, askedK}' \subseteq BOOLEAN
  BY Zenon DEF IInv, EnvInv, EnvTypeOK
<1>2. EnvTypeOK'
  BY <1>1 DEF IInv, EnvInv, EnvTypeOK
<1>3. HoldersRun' /\ SilentClient' /\ Counted'
  BY DEF IInv, EnvInv, HoldersRun, Running, SilentClient, Counted
<1>4. OutputBounded'
  BY DEF IInv, OutputBounded
<1> QED
  BY <1>2, <1>3, <1>4 DEF EnvInv

LEMMA SelectStep == ASSUME IInv, Select PROVE IInv'
<1>1. /\ at = "select" /\ at' = "accept" /\ rd' = Readable
      /\ UNCHANGED <<mode, open, inopen, killed, late, reaped, capped, total>>
      /\ UNCHANGED <<proc, holds, pipe, inpipe, wrote, sent, up, client, askedK, inputs, ctl, ctls>>
  BY DEF Select, procVars, peerVars, ctlVars
<1>2. EnvInv' /\ OutputBounded'
  BY <1>1, QuietStep DEF IInv, EnvInv, EnvTypeOK
<1>3. LoopTypeOK'
  BY <1>1, TypeParts DEF IInv, LoopTypeOK, Readable, Places, Streams
<1>4. TypeOK'
  BY <1>2, <1>3, TypeParts, PTL DEF EnvInv
<1>5. StopInv' /\ JobInv' /\ CtlInv'
  BY <1>1 DEF IInv, StopInv, JobInv, CtlInv, LostPlaces
<1>6. CountInv' /\ EofInv'
  BY <1>1 DEF IInv, CountInv, EofInv, LostPlaces
<1>7. SelectInv'
  BY <1>1 DEF IInv, SelectInv, Readable, Until, Streams, EnvInv, EnvTypeOK
<1>8. CapInv'
  BY <1>1 DEF IInv, CapInv, LostPlaces, Slack, Running
<1> QED
  BY <1>2, <1>4, <1>5, <1>6, <1>7, <1>8 DEF IInv

LEMMA AcceptStep == ASSUME IInv, Accept PROVE IInv'
<1>1. /\ at = "accept" /\ UNCHANGED <<mode, rd, open, inopen, killed, late, reaped, capped, total>>
      /\ UNCHANGED <<proc, holds, pipe, inpipe, wrote, sent, up, client, askedK, inputs, ctls>>
      /\ \/ "ls" \in rd /\ ctl' = "served" /\ at' = "ctl"
         \/ "ls" \notin rd /\ ctl' = ctl /\ at' = (IF mode = "JOB" THEN "tail" ELSE "O")
  BY DEF Accept, AfterAccept, loopVars, procVars, peerVars
<1>2. EnvInv' /\ OutputBounded'
  BY <1>1, QuietStep DEF IInv, EnvInv, EnvTypeOK
<1>3. LoopTypeOK'
  BY <1>1, TypeParts DEF IInv, LoopTypeOK, Places
<1>4. TypeOK'
  BY <1>2, <1>3, TypeParts, PTL DEF EnvInv
<1>5. StopInv' /\ JobInv' /\ CtlInv'
  BY <1>1 DEF IInv, StopInv, JobInv, CtlInv, LostPlaces
<1>6. CountInv' /\ EofInv'
  BY <1>1 DEF IInv, CountInv, EofInv, LostPlaces
<1>7. SelectInv'
  BY <1>1 DEF IInv, SelectInv, Until, Streams
<1>8. CapInv'
  BY <1>1 DEF IInv, CapInv, LostPlaces, Slack, Running
<1> QED
  BY <1>2, <1>4, <1>5, <1>6, <1>7, <1>8 DEF IInv

LEMMA CtlReturnStep == ASSUME IInv, CtlReturn PROVE IInv'
<1>1. /\ at = "ctl" /\ UNCHANGED <<mode, rd, open, inopen, killed, late, reaped, capped, total>>
      /\ UNCHANGED <<proc, holds, pipe, inpipe, wrote, sent, up, client, askedK, inputs, ctls>>
      /\ ctl' = "none" /\ at' = (IF mode = "JOB" THEN "tail" ELSE "O")
  BY DEF CtlReturn, AfterAccept, loopVars, procVars, peerVars
<1>2. EnvInv' /\ OutputBounded'
  BY <1>1, QuietStep DEF IInv, EnvInv, EnvTypeOK
<1>3. LoopTypeOK'
  BY <1>1, TypeParts DEF IInv, LoopTypeOK, Places
<1>4. TypeOK'
  BY <1>2, <1>3, TypeParts, PTL DEF EnvInv
<1>5. StopInv' /\ JobInv' /\ CtlInv'
  BY <1>1 DEF IInv, StopInv, JobInv, CtlInv, LostPlaces
<1>6. CountInv' /\ EofInv'
  BY <1>1 DEF IInv, CountInv, EofInv, LostPlaces
<1>7. SelectInv'
  BY <1>1 DEF IInv, SelectInv, Until, Streams
<1>8. CapInv'
  BY <1>1 DEF IInv, CapInv, LostPlaces, Slack, Running
<1> QED
  BY <1>2, <1>4, <1>5, <1>6, <1>7, <1>8 DEF IInv

\* Streams are read while the loop supervises a stream, and what is read was
\* written: the count stays within its bound.
LEMMA PumpReads ==
    ASSUME IInv, NEW s \in Streams, at = s, s \in rd, pipe[s] # 0,
           total' = total + 1, pipe' = [pipe EXCEPT ![s] = @ - 1], UNCHANGED wrote
    PROVE  /\ mode # "JOB" /\ total' \in 0..MaxWrite /\ pipe' \in [Streams -> 0..PipeCap]
           /\ total' + pipe'["O"] + pipe'["E"] = wrote'["O"] + wrote'["E"]
           /\ \A u \in Streams : pipe'[u] \in Nat /\ pipe'[u] <= pipe[u]
<1>1. mode # "JOB"
  BY DEF IInv, JobInv, Streams
<1>2. pipe \in [Streams -> 0..PipeCap] /\ wrote \in [Streams -> 0..MaxWrite] /\ total \in 0..MaxWrite
  BY DEF IInv, EnvInv, EnvTypeOK, TypeOK
<1>3. /\ total + pipe["O"] + pipe["E"] = wrote["O"] + wrote["E"]
      /\ wrote["O"] + wrote["E"] <= MaxWrite
  BY <1>1 DEF IInv, CountInv, EnvInv, Counted
<1> QED
  BY <1>1, <1>2, <1>3, Bounds DEF Streams

\* KillHard leaves no process of the group.
LEMMA KillHardEffect ==
    ASSUME IInv, KillHard
    PROVE  /\ proc' \in [Procs -> {"none", "run", "zombie"}]
           /\ holds' \in [Streams -> SUBSET Procs]
           /\ Running' = {} /\ \A s \in Streams : holds'[s] = {}
           /\ killed' \in 0..2
<1>1. Die(Running) /\ killed' = IF killed = 0 THEN 1 ELSE killed
  BY DEF KillHard, Group
<1>2. EnvTypeOK /\ killed \in 0..2 /\ \A s \in Streams : holds[s] \subseteq Running
  BY DEF IInv, EnvInv, TypeOK, HoldersRun
<1>3. Running \subseteq Running
  OBVIOUS
<1>4. /\ proc' \in [Procs -> {"none", "run", "zombie"}]
      /\ holds' \in [Streams -> SUBSET Procs]
      /\ Running' = Running \ Running
      /\ \A s \in Streams : holds'[s] = holds[s] \ Running
  BY <1>1, <1>2, <1>3, DieEffect
<1>5. \A s \in Streams : holds'[s] = {}
  BY <1>2, <1>4
<1> QED
  BY <1>1, <1>2, <1>4, <1>5

\* goto lost, from a pump or from the session, with or without a last chunk.
LEMMA GotoLostStep ==
    ASSUME IInv, at \in {"O", "E", "sess"}, GotoLost, UNCHANGED <<sent, up>>,
           \/ UNCHANGED <<total, pipe>>
           \/ \E s \in Streams : /\ at = s /\ s \in rd /\ pipe[s] # 0
                                 /\ total' = total + 1 /\ pipe' = [pipe EXCEPT ![s] = @ - 1]
    PROVE  IInv'
<1>1. /\ KillHard /\ at' = "lost" /\ inopen' = FALSE /\ open' = [s \in Streams |-> FALSE]
      /\ UNCHANGED <<mode, rd, late, reaped, capped, inpipe, wrote, sent, up, inputs, client, askedK, ctl, ctls>>
  BY DEF GotoLost, ctlVars
<1>2. /\ proc' \in [Procs -> {"none", "run", "zombie"}]
      /\ holds' \in [Streams -> SUBSET Procs]
      /\ Running' = {} /\ \A s \in Streams : holds'[s] = {}
      /\ killed' \in 0..2
  BY <1>1, KillHardEffect
<1>3. mode # "JOB"
  BY DEF IInv, JobInv
<1>4. /\ total' \in 0..MaxWrite /\ pipe' \in [Streams -> 0..PipeCap]
      /\ total' + pipe'["O"] + pipe'["E"] = wrote'["O"] + wrote'["E"]
      /\ \A u \in Streams : pipe'[u] \in Nat /\ pipe'[u] <= pipe[u]
  <2>1. CASE UNCHANGED <<total, pipe>>
    BY <1>1, <1>3, <2>1, Bounds DEF IInv, CountInv, TypeOK, EnvInv, EnvTypeOK
  <2>2. ASSUME NEW s \in Streams, at = s, s \in rd, pipe[s] # 0,
               total' = total + 1, pipe' = [pipe EXCEPT ![s] = @ - 1]
        PROVE  /\ total' \in 0..MaxWrite /\ pipe' \in [Streams -> 0..PipeCap]
               /\ total' + pipe'["O"] + pipe'["E"] = wrote'["O"] + wrote'["E"]
               /\ \A u \in Streams : pipe'[u] \in Nat /\ pipe'[u] <= pipe[u]
    BY <1>1, <2>2, PumpReads
  <2> QED
    BY <2>1, <2>2
<1>b. {client, askedK}' \subseteq BOOLEAN
  BY <1>1, Zenon DEF IInv, EnvInv, EnvTypeOK
<1>5. EnvTypeOK'
  BY <1>1, <1>2, <1>4, <1>b DEF IInv, EnvInv, EnvTypeOK
<1>6. HoldersRun' /\ SilentClient'
  BY <1>1, <1>2 DEF IInv, EnvInv, HoldersRun, SilentClient
<1>7. Counted'
  <2>1. /\ sent \in [Streams -> Nat] /\ pipe \in [Streams -> Nat] /\ wrote \in [Streams -> Nat]
    BY Bounds DEF IInv, EnvInv, EnvTypeOK
  <2> QED
    BY <1>1, <1>3, <1>4, <2>1 DEF IInv, EnvInv, Counted
<1>8. LoopTypeOK'
  BY <1>1, <1>2, <1>4, TypeParts DEF IInv, LoopTypeOK, Places
<1>9. TypeOK'
  BY <1>5, <1>8, TypeParts, PTL
<1>10. StopInv' /\ JobInv' /\ CtlInv'
  BY <1>1, <1>2, <1>3 DEF IInv, StopInv, JobInv, CtlInv, LostPlaces
<1>11. CountInv' /\ EofInv' /\ SelectInv'
  BY <1>1, <1>4 DEF CountInv, EofInv, SelectInv, LostPlaces, Until, Streams
<1>12. CapInv' /\ OutputBounded'
  BY <1>1, <1>2 DEF IInv, CapInv, OutputBounded, LostPlaces
<1> QED
  BY <1>5, <1>6, <1>7, <1>9, <1>10, <1>11, <1>12 DEF IInv, EnvInv

\* pump: nothing to read, the end of the stream, or one chunk.
LEMMA PumpStep == ASSUME IInv, NEW s \in Streams, Pump(s) PROVE IInv'
<1>0. /\ at = s /\ mode # "JOB" /\ UNCHANGED <<ctl, ctls>>
  BY DEF IInv, JobInv, Streams, Pump, ctlVars
<1>1. CASE s \notin rd /\ at' = After(s) /\ UNCHANGED <<loopVars, procVars, sent, peerVars>>
  <2>1. /\ UNCHANGED <<mode, rd, open, inopen, killed, late, reaped, capped, total>>
        /\ UNCHANGED <<proc, holds, pipe, inpipe, wrote, sent, up, client, askedK, inputs, ctl, ctls>>
        /\ at' = IF at = "O" THEN "E" ELSE "cap"
    BY <1>0, <1>1 DEF After, loopVars, procVars, peerVars
  <2>2. EnvInv' /\ OutputBounded'
    BY <2>1, QuietStep DEF IInv, EnvInv, EnvTypeOK
  <2>3. LoopTypeOK'
    BY <2>1, TypeParts DEF IInv, LoopTypeOK, Places
  <2>4. TypeOK'
    BY <2>2, <2>3, TypeParts, PTL DEF EnvInv
  <2>5. StopInv' /\ JobInv' /\ CtlInv'
    BY <1>0, <2>1 DEF IInv, StopInv, JobInv, CtlInv, LostPlaces, Streams
  <2>6. CountInv' /\ EofInv' /\ SelectInv'
    BY <1>0, <2>1 DEF IInv, CountInv, EofInv, SelectInv, Until, LostPlaces, Streams
  <2>7. CapInv'
    BY <1>0, <2>1, Bounds, TypeParts DEF IInv, CapInv, LostPlaces, Slack, Running, Streams, LoopTypeOK
  <2> QED
    BY <2>2, <2>4, <2>5, <2>6, <2>7 DEF IInv
<1>2. CASE /\ s \in rd /\ pipe[s] = 0
           /\ open' = [open EXCEPT ![s] = FALSE] /\ at' = After(s)
           /\ UNCHANGED <<mode, rd, inopen, killed, late, reaped, capped, total, procVars, sent, peerVars>>
  <2>1. /\ UNCHANGED <<mode, rd, inopen, killed, late, reaped, capped, total>>
        /\ UNCHANGED <<proc, holds, pipe, inpipe, wrote, sent, up, client, askedK, inputs, ctl, ctls>>
        /\ at' = IF at = "O" THEN "E" ELSE "cap"
    BY <1>0, <1>2 DEF After, procVars, peerVars
  <2>2. EnvInv' /\ OutputBounded'
    BY <2>1, QuietStep DEF IInv, EnvInv, EnvTypeOK
  <2>3. LoopTypeOK'
    BY <1>2, <2>1, TypeParts DEF IInv, LoopTypeOK, Places
  <2>4. TypeOK'
    BY <2>2, <2>3, TypeParts, PTL DEF EnvInv
  <2>5. StopInv' /\ JobInv' /\ CtlInv'
    BY <1>0, <2>1 DEF IInv, StopInv, JobInv, CtlInv, LostPlaces, Streams
  <2>6. holds[s] = {}
    BY <1>0, <1>2 DEF IInv, SelectInv, Until, Streams
  <2>7. CountInv' /\ SelectInv'
    BY <1>0, <2>1 DEF IInv, CountInv, SelectInv, Until, LostPlaces, Streams
  <2>8. EofInv'
    BY <1>0, <1>2, <2>1, <2>6 DEF IInv, EofInv, LostPlaces, Streams, TypeOK
  <2>9. CapInv'
    BY <1>0, <2>1, Bounds, TypeParts DEF IInv, CapInv, LostPlaces, Slack, Running, Streams, LoopTypeOK
  <2> QED
    BY <2>2, <2>4, <2>5, <2>7, <2>8, <2>9 DEF IInv
<1>3. CASE /\ s \in rd /\ pipe[s] # 0
           /\ total' = total + 1 /\ pipe' = [pipe EXCEPT ![s] = @ - 1]
           /\ sent' = [sent EXCEPT ![s] = @ + 1] /\ at' = After(s)
           /\ UNCHANGED <<mode, rd, open, inopen, killed, late, reaped, capped,
                          proc, holds, inpipe, wrote, peerVars>>
  <2>1. /\ UNCHANGED <<mode, rd, open, inopen, killed, late, reaped, capped>>
        /\ UNCHANGED <<proc, holds, inpipe, wrote, up, client, askedK, inputs, ctl, ctls>>
        /\ at' = IF at = "O" THEN "E" ELSE "cap"
    BY <1>0, <1>3 DEF After, peerVars
  <2>2. /\ total' \in 0..MaxWrite /\ pipe' \in [Streams -> 0..PipeCap]
        /\ total' + pipe'["O"] + pipe'["E"] = wrote'["O"] + wrote'["E"]
        /\ \A u \in Streams : pipe'[u] \in Nat /\ pipe'[u] <= pipe[u]
    BY <1>0, <1>3, <2>1, PumpReads
  <2>3. /\ sent \in [Streams -> 0..MaxWrite] /\ pipe \in [Streams -> 0..PipeCap]
        /\ wrote \in [Streams -> 0..MaxWrite]
        /\ \A u \in Streams : sent[u] + pipe[u] = wrote[u]
    BY <1>0 DEF IInv, EnvInv, EnvTypeOK, CountInv, LostPlaces, Streams
  <2>4. /\ sent' \in [Streams -> 0..MaxWrite]
        /\ \A u \in Streams : sent'[u] + pipe'[u] = wrote'[u]
    BY <1>3, <2>1, <2>3, Bounds
  <2>b. {client, askedK}' \subseteq BOOLEAN
    BY <2>1, Zenon DEF IInv, EnvInv, EnvTypeOK
  <2>5. EnvTypeOK'
    BY <2>1, <2>2, <2>4, <2>b DEF IInv, EnvInv, EnvTypeOK
  <2>6. HoldersRun' /\ SilentClient'
    BY <2>1 DEF IInv, EnvInv, HoldersRun, Running, SilentClient
  <2>7. Counted'
    BY <1>0, <2>1, <2>2, <2>3, <2>4, Bounds DEF IInv, EnvInv, Counted
  <2>8. LoopTypeOK'
    BY <2>1, <2>2, TypeParts DEF IInv, LoopTypeOK, Places
  <2>9. TypeOK'
    BY <2>5, <2>8, TypeParts, PTL
  <2>10. StopInv' /\ JobInv' /\ CtlInv'
    BY <1>0, <2>1 DEF IInv, StopInv, JobInv, CtlInv, LostPlaces, Streams
  <2>11. CountInv' /\ SelectInv'
    BY <1>0, <1>3, <2>1, <2>2, <2>4 DEF IInv, CountInv, SelectInv, Until, LostPlaces, Streams
  <2>12. EofInv'
    BY <1>0, <1>3, <2>1, <2>2, <2>3, Bounds DEF IInv, EofInv, LostPlaces, Streams
  <2>13. CapInv' /\ OutputBounded'
    BY <1>0, <1>3, <2>1, Bounds, TypeParts DEF IInv, CapInv, OutputBounded, LostPlaces, Slack,
       Running, Streams, LoopTypeOK
  <2> QED
    BY <2>5, <2>6, <2>7, <2>9, <2>10, <2>11, <2>12, <2>13 DEF IInv, EnvInv
<1>4. CASE /\ s \in rd /\ pipe[s] # 0
           /\ total' = total + 1 /\ pipe' = [pipe EXCEPT ![s] = @ - 1]
           /\ GotoLost /\ UNCHANGED <<sent, up>>
  BY <1>0, <1>4, GotoLostStep DEF Streams
<1> QED
  BY <1>1, <1>2, <1>3, <1>4 DEF Pump

\* What SIGTERM to the group may do, once or again.
LEMMA KillChildEffect ==
    ASSUME IInv, KillChild
    PROVE  /\ proc' \in [Procs -> {"none", "run", "zombie"}]
           /\ holds' \in [Streams -> SUBSET Procs]
           /\ Running' \subseteq Running /\ HoldersRun'
           /\ \A s \in Streams : holds[s] = {} => holds'[s] = {}
           /\ killed' \in 0..2
<1>1. EnvTypeOK /\ killed \in 0..2 /\ HoldersRun
  BY DEF IInv, EnvInv, TypeOK
<1>2. CASE UNCHANGED <<proc, holds>>
  BY <1>1, <1>2 DEF KillChild, EnvTypeOK, Running, HoldersRun
<1>3. ASSUME NEW P \in SUBSET Group, Die(P)
      PROVE  /\ proc' \in [Procs -> {"none", "run", "zombie"}]
             /\ holds' \in [Streams -> SUBSET Procs]
             /\ Running' \subseteq Running /\ HoldersRun'
             /\ \A s \in Streams : holds[s] = {} => holds'[s] = {}
  <2>1. P \subseteq Running
    BY <1>3 DEF Group
  <2>2. /\ proc' \in [Procs -> {"none", "run", "zombie"}]
        /\ holds' \in [Streams -> SUBSET Procs]
        /\ Running' = Running \ P
        /\ \A s \in Streams : holds'[s] = holds[s] \ P
    BY <1>1, <1>3, <2>1, DieEffect
  <2>3. HoldersRun'
    BY <1>1, <2>2 DEF HoldersRun
  <2> QED
    BY <2>2, <2>3
<1>4. killed' \in 0..2
  BY <1>1 DEF KillChild
<1> QED
  BY <1>2, <1>3, <1>4 DEF KillChild

\* Steps that may end processes and leave all data where it is.
LEMMA SignalStep ==
    ASSUME IInv, UNCHANGED <<mode, pipe, inpipe, wrote, sent, client, askedK, inputs, ctl, ctls>>,
           proc' \in [Procs -> {"none", "run", "zombie"}], holds' \in [Streams -> SUBSET Procs],
           HoldersRun', up' \in Seq({"I", "I0", "K"}), mode = "RUNI" \/ up' = up
    PROVE  EnvInv' /\ OutputBounded'
<1>1. {client, askedK}' \subseteq BOOLEAN
  BY Zenon DEF IInv, EnvInv, EnvTypeOK
<1>2. EnvTypeOK'
  BY <1>1 DEF IInv, EnvInv, EnvTypeOK
<1>3. SilentClient' /\ Counted'
  BY DEF IInv, EnvInv, SilentClient, Counted
<1>4. OutputBounded'
  BY DEF IInv, OutputBounded
<1> QED
  BY <1>2, <1>3, <1>4 DEF EnvInv

LEMMA CapCheckStep == ASSUME IInv, CapCheck PROVE IInv'
<1>1. /\ at = "cap" /\ at' = "sess" /\ mode # "JOB"
      /\ UNCHANGED <<mode, rd, open, inopen, late, reaped, total>>
      /\ UNCHANGED <<pipe, inpipe, wrote, sent, up, client, askedK, inputs, ctl, ctls>>
  BY DEF CapCheck, peerVars, ctlVars, IInv, JobInv
<1>2. /\ proc' \in [Procs -> {"none", "run", "zombie"}] /\ holds' \in [Streams -> SUBSET Procs]
      /\ HoldersRun' /\ killed' \in 0..2 /\ capped' \in BOOLEAN
      /\ Running = {} => Running' = {}
      /\ \A s \in Streams : holds[s] = {} => holds'[s] = {}
      /\ \/ capped' = TRUE /\ Running' = {}
         \/ capped' = capped /\ Running' = Running /\ ~(Cap > 0 /\ total > Cap /\ capped = FALSE)
  <2>1. CASE Cap > 0 /\ total > Cap /\ ~capped
    <3>1. capped' = TRUE /\ KillHard
      BY <2>1 DEF CapCheck
    <3>2. /\ proc' \in [Procs -> {"none", "run", "zombie"}] /\ holds' \in [Streams -> SUBSET Procs]
          /\ Running' = {} /\ \A s \in Streams : holds'[s] = {}
          /\ killed' \in 0..2
      BY <3>1, KillHardEffect
    <3> QED
      BY <3>1, <3>2 DEF HoldersRun
  <2>2. CASE ~(Cap > 0 /\ total > Cap /\ ~capped)
    <3>1. UNCHANGED <<capped, killed, proc, holds>>
      BY <2>2 DEF CapCheck
    <3>2. LoopTypeOK /\ EnvTypeOK /\ HoldersRun
      BY TypeParts DEF IInv, EnvInv
    <3> QED
      BY <2>2, <3>1, <3>2 DEF LoopTypeOK, EnvTypeOK, HoldersRun, Running
  <2> QED
    BY <2>1, <2>2
<1>3. EnvInv' /\ OutputBounded'
  BY <1>1, <1>2, SignalStep DEF IInv, EnvInv, EnvTypeOK
<1>4. LoopTypeOK'
  BY <1>1, <1>2, TypeParts DEF IInv, LoopTypeOK, Places
<1>5. TypeOK'
  BY <1>3, <1>4, TypeParts, PTL DEF EnvInv
<1>6. StopInv' /\ JobInv' /\ CtlInv' /\ CountInv'
  BY <1>1, <1>2 DEF IInv, StopInv, JobInv, CtlInv, CountInv, LostPlaces
<1>7. EofInv' /\ SelectInv'
  BY <1>1, <1>2 DEF IInv, EofInv, SelectInv, Until, LostPlaces, Streams
<1>8. CapInv'
  BY <1>1, <1>2, Bounds, TypeParts DEF IInv, CapInv, LostPlaces, Slack, LoopTypeOK
<1> QED
  BY <1>3, <1>5, <1>6, <1>7, <1>8 DEF IInv

\* The first frame under way and the rest.
LEMMA FrameParts ==
    ASSUME NEW q \in Seq({"I", "I0", "K"}), q # <<>>
    PROVE  Tail(q) \in Seq({"I", "I0", "K"}) /\ Head(q) \in {"I", "I0", "K"}
BY HeadTailProperties

LEMMA SessReadStep == ASSUME IInv, SessRead PROVE IInv'
<1>1. /\ at = "sess" /\ "sess" \in rd /\ mode # "JOB"
  BY DEF SessRead, IInv, JobInv
<1>2. CASE mode = "RUN" \/ up = <<>>
  <2>1. GotoLost /\ UNCHANGED <<total, pipe, sent, up>>
    BY <1>2 DEF SessRead
  <2> QED
    BY <1>1, <2>1, GotoLostStep
<1>3. CASE ~(mode = "RUN" \/ up = <<>>)
  <2>1. /\ mode = "RUNI" /\ up \in Seq({"I", "I0", "K"}) /\ up # <<>>
    BY <1>1, <1>3, ExecAssumption DEF IInv, EnvInv, EnvTypeOK
  <2>2. /\ up' = Tail(up) /\ up' \in Seq({"I", "I0", "K"})
        /\ UNCHANGED <<mode, rd, open, late, reaped, capped, total>>
        /\ UNCHANGED <<pipe, inpipe, wrote, sent, client, askedK, inputs, ctl, ctls>>
    BY <1>3, <2>1, FrameParts DEF SessRead, ctlVars
  <2>3. /\ at' \in {"tail", "input"} /\ inopen' \in BOOLEAN /\ killed' \in 0..2
        /\ KillChild \/ UNCHANGED <<killed, proc, holds>>
    <3>1. inopen \in BOOLEAN /\ killed \in 0..2
      BY DEF IInv, TypeOK
    <3>2. CASE KillChild /\ at' = "tail" /\ UNCHANGED inopen
      BY <3>1, <3>2, KillChildEffect
    <3>3. CASE inopen' = FALSE /\ at' = "tail" /\ UNCHANGED <<killed, proc, holds>>
      BY <3>1, <3>3
    <3>4. CASE /\ at' = IF inopen /\ killed = 0 THEN "input" ELSE "tail"
               /\ UNCHANGED <<killed, proc, holds, inopen>>
      BY <3>1, <3>4
    <3> QED
      BY <1>3, <3>2, <3>3, <3>4 DEF SessRead
  <2>4. /\ proc' \in [Procs -> {"none", "run", "zombie"}] /\ holds' \in [Streams -> SUBSET Procs]
        /\ HoldersRun' /\ Running' \subseteq Running
        /\ \A s \in Streams : holds[s] = {} => holds'[s] = {}
    <3>1. CASE KillChild
      BY <3>1, KillChildEffect
    <3>2. CASE UNCHANGED <<killed, proc, holds>>
      BY <3>2 DEF IInv, EnvInv, EnvTypeOK, HoldersRun, Running
    <3> QED
      BY <2>3, <3>1, <3>2
  <2>5. EnvInv' /\ OutputBounded'
    BY <2>1, <2>2, <2>4, SignalStep
  <2>6. LoopTypeOK'
    BY <2>2, <2>3, TypeParts DEF IInv, LoopTypeOK, Places
  <2>7. TypeOK'
    BY <2>5, <2>6, TypeParts, PTL DEF EnvInv
  <2>8. StopInv' /\ JobInv' /\ CtlInv' /\ CountInv'
    BY <1>1, <2>2, <2>3 DEF IInv, StopInv, JobInv, CtlInv, CountInv, LostPlaces
  <2>9. EofInv' /\ SelectInv'
    BY <1>1, <2>2, <2>3, <2>4 DEF IInv, EofInv, SelectInv, Until, LostPlaces, Streams
  <2>10. CapInv'
    BY <1>1, <2>2, <2>3, <2>4 DEF IInv, CapInv, LostPlaces, Slack
  <2> QED
    BY <2>5, <2>7, <2>8, <2>9, <2>10 DEF IInv
<1> QED
  BY <1>2, <1>3

LEMMA SessQuietStep == ASSUME IInv, SessQuiet PROVE IInv'
<1>1. /\ at = "sess" /\ at' = "tail"
      /\ UNCHANGED <<mode, rd, open, inopen, killed, late, reaped, capped, total>>
      /\ UNCHANGED <<proc, holds, pipe, inpipe, wrote, sent, up, client, askedK, inputs, ctl, ctls>>
  BY DEF SessQuiet, loopVars, procVars, peerVars, ctlVars
<1>2. EnvInv' /\ OutputBounded'
  BY <1>1, QuietStep DEF IInv, EnvInv, EnvTypeOK
<1>3. LoopTypeOK'
  BY <1>1, TypeParts DEF IInv, LoopTypeOK, Places
<1>4. TypeOK'
  BY <1>2, <1>3, TypeParts, PTL DEF EnvInv
<1>5. StopInv' /\ JobInv' /\ CtlInv' /\ CountInv'
  BY <1>1 DEF IInv, StopInv, JobInv, CtlInv, CountInv, LostPlaces
<1>6. EofInv' /\ SelectInv' /\ CapInv'
  BY <1>1 DEF IInv, EofInv, SelectInv, Until, CapInv, Slack, Running, LostPlaces, Streams
<1> QED
  BY <1>2, <1>4, <1>5, <1>6 DEF IInv

LEMMA InputStep == ASSUME IInv, Input PROVE IInv'
<1>1. /\ at = "input" /\ at' = "tail"
      /\ UNCHANGED <<mode, rd, open, killed, late, reaped, capped, total>>
      /\ UNCHANGED <<proc, holds, pipe, wrote, sent, up, client, askedK, inputs, ctl, ctls>>
  BY DEF Input, peerVars, ctlVars
<1>2. inopen' \in BOOLEAN /\ inpipe' \in 0..PipeCap
  <2>1. inopen \in BOOLEAN /\ inpipe \in 0..PipeCap
    BY DEF IInv, TypeOK, EnvTypeOK
  <2>2. \/ inopen' = FALSE /\ inpipe' = inpipe
        \/ inpipe < PipeCap /\ inpipe' = inpipe + 1 /\ inopen' = inopen
    BY DEF Input
  <2>3. inpipe' \in 0..PipeCap
    BY <2>1, <2>2, Bounds
  <2>4. inopen' \in BOOLEAN
    BY <2>1, <2>2, Zenon
  <2> QED
    BY <2>3, <2>4
<1>3. EnvInv' /\ OutputBounded'
  BY <1>1, <1>2, QuietStep DEF IInv, EnvInv, EnvTypeOK
<1>4. LoopTypeOK'
  BY <1>1, <1>2, TypeParts DEF IInv, LoopTypeOK, Places
<1>5. TypeOK'
  BY <1>3, <1>4, TypeParts, PTL DEF EnvInv
<1>6. StopInv' /\ JobInv' /\ CtlInv' /\ CountInv'
  BY <1>1 DEF IInv, StopInv, JobInv, CtlInv, CountInv, LostPlaces
<1>7. EofInv' /\ SelectInv' /\ CapInv'
  BY <1>1 DEF IInv, EofInv, SelectInv, Until, CapInv, Slack, Running, LostPlaces, Streams
<1> QED
  BY <1>3, <1>5, <1>6, <1>7 DEF IInv

\* The end of a turn: the cap of a job, the escalation, waitpid(WNOHANG).
LEMMA TailStepStep == ASSUME IInv, TailStep PROVE IInv'
<1>1. /\ at = "tail"
      /\ UNCHANGED <<mode, rd, open, inopen, late, total>>
      /\ UNCHANGED <<pipe, inpipe, wrote, sent, up, client, askedK, inputs, ctl, ctls>>
  BY DEF TailStep, peerVars, ctlVars
<1>2. LoopTypeOK /\ EnvTypeOK /\ HoldersRun
  BY TypeParts DEF IInv, EnvInv
<1>3. /\ proc' \in [Procs -> {"none", "run", "zombie"}] /\ holds' \in [Streams -> SUBSET Procs]
      /\ HoldersRun' /\ Running' \subseteq Running
      /\ \A s \in Streams : holds[s] = {} => holds'[s] = {}
  <2>1. CASE UNCHANGED <<proc, holds>>
    BY <1>2, <2>1 DEF EnvTypeOK, HoldersRun, Running
  <2>2. CASE Die(Group)
    <3>1. Running \subseteq Running /\ Die(Running)
      BY <2>2 DEF Group
    <3>2. /\ proc' \in [Procs -> {"none", "run", "zombie"}]
          /\ holds' \in [Streams -> SUBSET Procs]
          /\ Running' = Running \ Running
          /\ \A s \in Streams : holds'[s] = holds[s] \ Running
      BY <1>2, <3>1, DieEffect
    <3> QED
      BY <1>2, <3>2 DEF HoldersRun
  <2> QED
    BY <2>1, <2>2 DEF TailStep
<1>4. killed' \in 0..2 /\ capped' \in BOOLEAN
  BY <1>2 DEF TailStep, LoopTypeOK
<1>5. reaped' \in BOOLEAN
  BY <1>2 DEF TailStep, LoopTypeOK
<1>6. mode # "JOB" => capped' = capped
  BY <1>2 DEF TailStep, LoopTypeOK
<1>7. at' = TailNext(reaped')
  BY DEF TailStep
<1>8. /\ at' \in {"select", "exit", "reap"}
      /\ mode = "JOB" => at' # "reap"
      /\ mode # "JOB" /\ at' \in {"exit", "reap"} => \A s \in Streams : open[s] = FALSE
  BY <1>2, <1>5, <1>7 DEF TailNext, LoopTypeOK
<1>9. EnvInv' /\ OutputBounded'
  BY <1>1, <1>3, SignalStep DEF IInv, EnvInv, EnvTypeOK
<1>10. LoopTypeOK'
  BY <1>1, <1>2, <1>4, <1>5, <1>8 DEF LoopTypeOK, Places, Returned
<1>11. TypeOK'
  BY <1>9, <1>10, TypeParts, PTL DEF EnvInv
<1>12. StopInv' /\ JobInv' /\ CtlInv' /\ CountInv'
  BY <1>1, <1>8 DEF IInv, StopInv, JobInv, CtlInv, CountInv, LostPlaces
<1>13. EofInv' /\ SelectInv'
  BY <1>1, <1>3, <1>8 DEF IInv, EofInv, SelectInv, Until, LostPlaces, Streams
<1>14. CapInv'
  BY <1>1, <1>3, <1>6, <1>8 DEF IInv, CapInv, Slack, LostPlaces
<1> QED
  BY <1>9, <1>11, <1>12, <1>13, <1>14 DEF IInv

LEMMA ReapStep == ASSUME IInv, Reap PROVE IInv'
<1>1. /\ \/ at = "reap" /\ at' = "exit"
         \/ at = "lost" /\ at' = "gone"
      /\ reaped' = TRUE
      /\ UNCHANGED <<mode, rd, open, inopen, killed, late, capped, total>>
      /\ UNCHANGED <<proc, holds, pipe, inpipe, wrote, sent, up, client, askedK, inputs, ctl, ctls>>
  BY DEF Reap, procVars, peerVars, ctlVars
<1>2. EnvInv' /\ OutputBounded'
  BY <1>1, QuietStep DEF IInv, EnvInv, EnvTypeOK
<1>3. LoopTypeOK'
  BY <1>1, TypeParts DEF IInv, LoopTypeOK, Places, Returned
<1>4. TypeOK'
  BY <1>2, <1>3, TypeParts, PTL DEF EnvInv
<1>5. StopInv' /\ JobInv' /\ CtlInv' /\ CountInv'
  BY <1>1 DEF IInv, StopInv, JobInv, CtlInv, CountInv, LostPlaces, Running
<1>6. EofInv' /\ SelectInv' /\ CapInv'
  BY <1>1 DEF IInv, EofInv, SelectInv, Until, CapInv, Slack, Running, LostPlaces, Streams
<1> QED
  BY <1>2, <1>4, <1>5, <1>6 DEF IInv

LEMMA GraceOverStep == ASSUME IInv, GraceOver PROVE IInv'
<1>1. /\ late' = TRUE
      /\ UNCHANGED <<at, mode, rd, open, inopen, killed, reaped, capped, total>>
      /\ UNCHANGED <<proc, holds, pipe, inpipe, wrote, sent, up, client, askedK, inputs, ctl, ctls>>
  BY DEF GraceOver, procVars, peerVars, ctlVars
<1>2. EnvInv' /\ OutputBounded'
  BY <1>1, QuietStep DEF IInv, EnvInv, EnvTypeOK
<1>3. LoopTypeOK'
  BY <1>1, TypeParts DEF IInv, LoopTypeOK
<1>4. TypeOK'
  BY <1>2, <1>3, TypeParts, PTL DEF EnvInv
<1>5. StopInv' /\ JobInv' /\ CtlInv' /\ CountInv'
  BY <1>1 DEF IInv, StopInv, JobInv, CtlInv, CountInv, LostPlaces, Running
<1>6. EofInv' /\ SelectInv' /\ CapInv'
  BY <1>1 DEF IInv, EofInv, SelectInv, Until, CapInv, Slack, Running, LostPlaces
<1> QED
  BY <1>2, <1>4, <1>5, <1>6 DEF IInv

-----------------------------------------------------------------------------
(* The steps around it.                                                     *)

LEMMA AroundStep == ASSUME IInv, Around PROVE IInv'
<1>1. /\ Environment
      /\ UNCHANGED <<at, mode, rd, open, inopen, killed, late, reaped, capped, total>>
  BY DEF Around, loopVars
<1>2. EnvInv' /\ CommandFrame /\ PeerFrame
  BY <1>1, EnvironmentStep DEF IInv
<1>3. LoopTypeOK'
  BY <1>1, TypeParts DEF IInv, LoopTypeOK
<1>4. TypeOK'
  BY <1>2, <1>3, TypeParts, PTL DEF EnvInv
<1>5. StopInv' /\ JobInv'
  BY <1>1, <1>2 DEF IInv, StopInv, JobInv, CommandFrame
<1>6. CtlInv'
  BY <1>1, <1>2 DEF IInv, CtlInv, PeerFrame
<1>7. /\ \A s \in Streams : /\ pipe[s] \in Nat /\ pipe'[s] \in Nat /\ pipe'[s] <= PipeCap
                             /\ wrote[s] \in Nat /\ wrote'[s] \in Nat
                             /\ sent[s] \in Nat
      /\ total \in Nat /\ sent' = sent
  <2>1. sent' = sent
    BY <1>1 DEF Environment, Command, Client, CtlConnect, CtlClose
  <2>2. EnvTypeOK /\ EnvTypeOK' /\ LoopTypeOK
    BY <1>2, TypeParts DEF IInv, EnvInv
  <2> QED
    BY <2>1, <2>2, Bounds DEF EnvTypeOK, LoopTypeOK
<1>8. CountInv'
  <2>1. SUFFICES ASSUME mode # "JOB"
                 PROVE  /\ total + pipe'["O"] + pipe'["E"] = wrote'["O"] + wrote'["E"]
                        /\ at \notin LostPlaces => \A s \in Streams : sent[s] + pipe'[s] = wrote'[s]
    BY <1>1, <1>7 DEF CountInv
  <2>2. \A s \in Streams : wrote'[s] - pipe'[s] = wrote[s] - pipe[s]
    BY <1>2, <2>1 DEF CommandFrame
  <2>3. total + pipe["O"] + pipe["E"] = wrote["O"] + wrote["E"]
    BY <2>1 DEF IInv, CountInv
  <2>4. total + pipe'["O"] + pipe'["E"] = wrote'["O"] + wrote'["E"]
    BY <1>7, <2>2, <2>3 DEF Streams
  <2>5. ASSUME at \notin LostPlaces, NEW s \in Streams PROVE sent[s] + pipe'[s] = wrote'[s]
    BY <1>7, <2>1, <2>2, <2>5 DEF IInv, CountInv
  <2> QED
    BY <2>4, <2>5
<1>9. EofInv'
  BY <1>1, <1>2, <1>7 DEF IInv, EofInv, CommandFrame, Streams
<1>10. SelectInv'
  <2>1. \A s \in Streams : s \in rd' /\ at' \in Until(s) => pipe'[s] > 0 \/ holds'[s] = {}
    BY <1>1, <1>2, <1>7 DEF IInv, SelectInv, CommandFrame, Streams
  <2>2. "ls" \in rd' /\ at' \in Until("ls") => ctl' = "queued"
    BY <1>1, <1>2 DEF IInv, SelectInv, PeerFrame
  <2>3. client' \in BOOLEAN /\ client \in BOOLEAN
    BY <1>2, Zenon DEF IInv, EnvInv, EnvTypeOK
  <2>4. "sess" \in rd' /\ at' \in Until("sess") => up' # <<>> \/ client' = FALSE
    BY <1>1, <1>2, <2>3 DEF IInv, SelectInv, PeerFrame
  <2> QED
    BY <2>1, <2>2, <2>4 DEF SelectInv, Until
<1>11. CapInv'
  BY <1>1, <1>2 DEF IInv, CapInv, Slack, CommandFrame
<1>12. OutputBounded'
  <2>1. SUFFICES ASSUME Cap > 0, mode # "JOB"
                 PROVE  wrote'["O"] + wrote'["E"] <= Cap + 2 + 2 * PipeCap
    BY <1>1 DEF OutputBounded
  <2>2. CASE Running = {}
    BY <1>2, <2>1, <2>2 DEF IInv, OutputBounded, CommandFrame
  <2>3. CASE Running # {}
    <3>1. at \notin LostPlaces /\ capped = FALSE
      BY <2>1, <2>3, TypeParts DEF IInv, StopInv, CapInv, LoopTypeOK
    <3>2. total <= Cap + 2
      BY <1>7, <2>1, <3>1, Bounds DEF IInv, CapInv, Slack
    <3>3. total + pipe'["O"] + pipe'["E"] = wrote'["O"] + wrote'["E"]
      BY <1>1, <1>8, <2>1 DEF CountInv
    <3> QED
      BY <1>7, <3>2, <3>3, Bounds DEF Streams
  <2> QED
    BY <2>2, <2>3
<1> QED
  BY <1>2, <1>4, <1>5, <1>6, <1>8, <1>9, <1>10, <1>11, <1>12 DEF IInv

LEMMA StutterStep == ASSUME IInv, UNCHANGED vars PROVE IInv'
<1>1. /\ UNCHANGED <<at, mode, rd, open, inopen, killed, late, reaped, capped, total>>
      /\ UNCHANGED <<proc, holds, pipe, inpipe, wrote, sent, up, client, askedK, inputs, ctl, ctls>>
  BY DEF vars, loopVars, envVars, procVars, peerVars, ctlVars
<1>2. EnvInv' /\ OutputBounded'
  BY <1>1, QuietStep DEF IInv, EnvInv, EnvTypeOK
<1>3. LoopTypeOK'
  BY <1>1, TypeParts DEF IInv, LoopTypeOK
<1>4. TypeOK'
  BY <1>2, <1>3, TypeParts, PTL DEF EnvInv
<1>5. StopInv' /\ JobInv' /\ CtlInv' /\ CountInv'
  BY <1>1 DEF IInv, StopInv, JobInv, CtlInv, CountInv, LostPlaces, Running
<1>6. EofInv' /\ SelectInv' /\ CapInv'
  BY <1>1 DEF IInv, EofInv, SelectInv, Until, CapInv, Slack, Running, LostPlaces
<1> QED
  BY <1>2, <1>4, <1>5, <1>6 DEF IInv

LEMMA InitIInv == Init => IInv
<1> SUFFICES ASSUME Init PROVE IInv
  OBVIOUS
<1>1. EnvInv
  BY InitEnvInv DEF Init
<1>b. /\ open = [s \in Streams |-> mode # "JOB"] /\ inopen = (mode = "RUNI")
  BY DEF Init
<1>a. /\ at = "select" /\ rd = {} /\ killed = 0 /\ total = 0
      /\ late = FALSE /\ reaped = FALSE /\ capped = FALSE
  BY DEF Init
<1>c. inopen \in BOOLEAN
  BY <1>b, Zenon
<1>d. open \in [Streams -> BOOLEAN]
  BY <1>b
<1>e. late \in BOOLEAN /\ reaped \in BOOLEAN /\ capped \in BOOLEAN
  BY <1>a, Zenon
<1>2. LoopTypeOK
  BY <1>a, <1>e, <1>c, <1>d, Bounds DEF LoopTypeOK, Places
<1>3. TypeOK
  BY <1>1, <1>2, TypeParts DEF EnvInv
<1>4. StopInv /\ JobInv /\ CtlInv /\ CountInv
  BY DEF Init, EnvInit, StopInv, JobInv, CtlInv, CountInv, LostPlaces, Streams
<1>5. EofInv /\ SelectInv
  BY DEF Init, EnvInit, EofInv, SelectInv, LostPlaces, Streams
<1>6. CapInv /\ OutputBounded
  BY Bounds DEF Init, EnvInit, CapInv, OutputBounded, Slack, Streams
<1> QED
  BY <1>1, <1>3, <1>4, <1>5, <1>6 DEF IInv

LEMMA NextIInv == IInv /\ [Next]_vars => IInv'
<1> SUFFICES ASSUME IInv, [Next]_vars PROVE IInv'
  OBVIOUS
<1>1. CASE Supervisor
  BY <1>1, SelectStep, AcceptStep, CtlReturnStep, PumpStep, CapCheckStep, SessReadStep,
     SessQuietStep, InputStep, TailStepStep, ReapStep DEF Supervisor
<1>2. CASE Around \/ GraceOver
  BY <1>2, AroundStep, GraceOverStep
<1>3. CASE Done \/ UNCHANGED vars
  BY <1>3, StutterStep DEF Done
<1> QED
  BY <1>1, <1>2, <1>3 DEF Next

-----------------------------------------------------------------------------
(* Results.                                                                 *)

\* IInv is an inductive invariant of live_exec.
THEOREM Inductive == Spec => []IInv
BY InitIInv, NextIInv, PTL DEF Spec

\* Type correctness: the counters stay within what the command can write.
THEOREM TypeCorrect == Spec => []TypeOK
<1>1. IInv => TypeOK
  BY DEF IInv
<1> QED
  BY <1>1, Inductive, PTL

\* Every chunk the command wrote was framed before live_exec returns an exit
\* code, in any interleaving of writers, exits and turns of the loop (live.c
\* pump and the exits of the loop).
THEOREM OutputIsComplete == Spec => []OutputComplete
<1>1. IInv => OutputComplete
  <2> SUFFICES ASSUME IInv, at = "exit", mode # "JOB" PROVE sent = wrote
    BY DEF OutputComplete
  <2>1. \A s \in Streams : sent[s] + pipe[s] = wrote[s] /\ pipe[s] = 0
    BY DEF IInv, CountInv, EofInv, LostPlaces
  <2>2. sent \in [Streams -> Nat] /\ wrote \in [Streams -> Nat]
    BY Bounds DEF IInv, EnvInv, EnvTypeOK
  <2> QED
    BY <2>1, <2>2
<1> QED
  BY <1>1, Inductive, PTL

\* When live_exec has given a session up no process of the command runs and the
\* child is reaped (live.c, label lost).
THEOREM NoProcessLeft == Spec => []NoOrphans
<1>1. IInv => NoOrphans
  BY DEF IInv, StopInv, LostPlaces, NoOrphans
<1> QED
  BY <1>1, Inductive, PTL

\* The output cap bounds what a command can make the daemon read, whatever it
\* does with SIGTERM (live.c, the cap check of a turn).
THEOREM CapHolds == Spec => []OutputBounded
<1>1. IInv => OutputBounded
  BY DEF IInv
<1> QED
  BY <1>1, Inductive, PTL

-----------------------------------------------------------------------------
(* The refinement.                                                          *)

\* The abstract step taken when live_exec gives the session up: the client has
\* gone and no control session is open.
LEMMA LossIsEnds ==
    ASSUME IInv, at \in {"O", "E", "sess"}, at' = "lost", client = FALSE, UNCHANGED <<client, ctl>>
    PROVE  Abs!SNext
<1>1. ctl \in {"none", "queued"}
  BY DEF IInv, EnvInv, EnvTypeOK, CtlInv
<1> QED
  BY <1>1 DEF Abs!SNext, Abs!Ends

\* Every step of the supervisor is a step of Supervise or leaves its state alone.
LEMMA SupervisorRefines ==
    ASSUME IInv, Supervisor PROVE [Abs!SNext]_(Abs!svars)
<1> USE DEF Abs!svars
<1>1. CASE Select \/ CapCheck \/ SessQuiet \/ Input
  BY <1>1 DEF Select, CapCheck, SessQuiet, Input, peerVars, ctlVars
<1>2. CASE Accept
  <2>1. CASE "ls" \in rd
    <3>1. ctl = "queued" /\ ctl' = "served" /\ at = "accept" /\ at' = "ctl" /\ UNCHANGED client
      BY <1>2, <2>1 DEF Accept, IInv, SelectInv, Until, peerVars
    <3> QED
      BY <3>1 DEF Abs!SNext, Abs!CtlServed
  <2>2. CASE "ls" \notin rd
    BY <1>2, <2>2 DEF Accept, AfterAccept, peerVars
  <2> QED
    BY <2>1, <2>2
<1>3. CASE CtlReturn
  BY <1>3 DEF CtlReturn, AfterAccept, peerVars, Abs!SNext, Abs!CtlEnds
<1>4. ASSUME NEW s \in Streams, Pump(s) PROVE [Abs!SNext]_(Abs!svars)
  <2>1. CASE ~client /\ GotoLost
    <3>1. client = FALSE
      BY <2>1, EnvBooleans DEF IInv, EnvInv
    <3>2. at \in {"O", "E", "sess"} /\ at' = "lost" /\ UNCHANGED <<client, ctl>>
      BY <1>4, <2>1 DEF Pump, GotoLost, Streams, ctlVars
    <3> QED
      BY <3>1, <3>2, LossIsEnds
  <2>2. CASE ~(~client /\ GotoLost)
    BY <1>4, <2>2 DEF Pump, After, Streams, peerVars, ctlVars
  <2> QED
    BY <2>1, <2>2
<1>5. CASE SessRead
  <2>1. at = "sess" /\ "sess" \in rd /\ UNCHANGED <<client, ctl>>
    BY <1>5 DEF SessRead, GotoLost, ctlVars
  <2>2. CASE mode = "RUN" \/ up = <<>>
    <3>1. up # <<>> \/ client = FALSE
      BY <2>1 DEF IInv, SelectInv, Until
    <3>2. mode = "RUN" => up = <<>>
      BY DEF IInv, EnvInv, SilentClient
    <3>3. at' = "lost"
      BY <1>5, <2>2 DEF SessRead, GotoLost
    <3> QED
      BY <2>1, <2>2, <3>1, <3>2, <3>3, LossIsEnds
  <2>3. CASE ~(mode = "RUN" \/ up = <<>>)
    <3>1. at' \in {"tail", "input"}
      BY <1>5, <2>3 DEF SessRead
    <3> QED
      BY <2>1, <3>1
  <2> QED
    BY <2>2, <2>3
<1>6. CASE TailStep
  <2>1. at = "tail" /\ at' = TailNext(reaped') /\ UNCHANGED <<client, ctl>>
    BY <1>6 DEF TailStep, peerVars, ctlVars
  <2>2. ctl \in {"none", "queued"}
    BY <2>1 DEF IInv, EnvInv, EnvTypeOK, CtlInv
  <2> QED
    BY <2>1, <2>2 DEF TailNext, Abs!SNext, Abs!Ends
<1>7. CASE Reap
  <2>1. UNCHANGED <<client, ctl>>
    BY <1>7 DEF Reap, peerVars, ctlVars
  <2>2. at \in {"reap", "lost"} => ctl \in {"none", "queued"}
    BY DEF IInv, EnvInv, EnvTypeOK, CtlInv
  <2> QED
    BY <1>7, <2>1, <2>2 DEF Reap, Abs!SNext, Abs!Ends
<1> QED
  BY <1>1, <1>2, <1>3, <1>4, <1>5, <1>6, <1>7 DEF Supervisor

LEMMA AroundRefines ==
    ASSUME IInv, Around PROVE [Abs!SNext]_(Abs!svars)
<1> USE DEF Abs!svars
<1>1. at' = at
  BY DEF Around
<1>2. CASE Command
  BY <1>1, <1>2 DEF Command, peerVars, ctlVars
<1>3. CASE Client
  <2>1. client' = client \/ client' = FALSE
    BY <1>3 DEF Client, Say
  <2>2. client /\ UNCHANGED ctl
    BY <1>3 DEF Client, ctlVars
  <2> QED
    BY <1>1, <2>1, <2>2 DEF Abs!SNext, Abs!ClientGone
<1>4. CASE CtlConnect
  BY <1>1, <1>4 DEF CtlConnect, peerVars, Abs!SNext, Abs!CtlConnects
<1>5. CASE CtlClose
  BY <1>1, <1>5 DEF CtlClose, peerVars, Abs!SNext, Abs!CtlLeaves
<1> QED
  BY <1>2, <1>3, <1>4, <1>5 DEF Around, Environment

\* live_exec implements Supervise, the behaviour that Gcdsd's sessions are
\* written against: it returns an exit code or gives up a session whose client
\* has gone, and never from within a control session.
THEOREM Implementation == Spec => ImplementsSupervise
<1>1. Init => Abs!SInit
  BY DEF Init, EnvInit, Abs!SInit
<1>2. IInv /\ [Next]_vars => [Abs!SNext]_(Abs!svars)
  <2> SUFFICES ASSUME IInv, [Next]_vars PROVE [Abs!SNext]_(Abs!svars)
    OBVIOUS
  <2>1. CASE GraceOver
    BY <2>1 DEF GraceOver, peerVars, ctlVars, Abs!svars
  <2>2. CASE Done \/ UNCHANGED vars
    BY <2>2 DEF Done, vars, envVars, peerVars, ctlVars, Abs!svars
  <2> QED
    BY <2>1, <2>2, SupervisorRefines, AroundRefines DEF Next
<1> QED
  BY <1>1, <1>2, Inductive, PTL DEF Spec, ImplementsSupervise, Abs!SSpec
=============================================================================
