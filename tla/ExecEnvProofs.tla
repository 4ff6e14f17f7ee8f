--------------------------- MODULE ExecEnvProofs ---------------------------
(***************************************************************************)
(* What the command, the client and the control clients may do between two  *)
(* steps of a supervisor.  Both supervisors' proofs rest on these facts.    *)
(***************************************************************************)
EXTENDS ExecEnv, TLAPS, SequenceTheorems

\* A process that has a stream open runs.
HoldersRun == \A s \in Streams : holds[s] \subseteq Running

\* gcds says nothing except during RUNI.
SilentClient == mode # "RUNI" => up = <<>>

\* No chunk is made up, and the streams of a job are files, not pipes.
Counted ==
    /\ \A s \in Streams : sent[s] + pipe[s] <= wrote[s]
    /\ wrote["O"] + wrote["E"] <= MaxWrite
    /\ mode = "JOB" => \A s \in Streams : pipe[s] = 0 /\ sent[s] = 0

EnvInv == EnvTypeOK /\ HoldersRun /\ SilentClient /\ Counted

\* A step of a process: it may write what its pipe has room for, never take
\* back what it wrote, and only a running process does anything at all.
CommandFrame ==
    /\ \A s \in Streams :
         /\ pipe[s] <= pipe'[s]
         /\ mode # "JOB" => wrote'[s] - pipe'[s] = wrote[s] - pipe[s]
         /\ holds[s] = {} => holds'[s] = {} /\ pipe'[s] = pipe[s] /\ wrote'[s] = wrote[s]
    /\ Running = {} => Running' = {} /\ wrote' = wrote
    /\ proc["sh"] = "zombie" => proc'["sh"] = "zombie"

\* A step of one of the clients.
PeerFrame ==
    /\ client' => client
    /\ up # <<>> => up' # <<>>
    /\ ctl' = ctl \/ (ctl = "none" /\ ctl' = "queued") \/ (ctl = "served" /\ ctl' = "closed")

-----------------------------------------------------------------------------
\* The bounds are numbers.
LEMMA Bounds == Cap \in Nat /\ PipeCap \in Nat /\ MaxWrite \in Nat /\ MaxInput \in Nat /\ MaxCtl \in Nat
BY ExecAssumption

\* The boolean variables, one by one.
LEMMA EnvBooleans == ASSUME EnvTypeOK PROVE client \in BOOLEAN /\ askedK \in BOOLEAN
BY Zenon DEF EnvTypeOK

LEMMA InitEnvInv == EnvInit => EnvInv
<1> SUFFICES ASSUME EnvInit PROVE EnvInv
  OBVIOUS
<1>1. {client, askedK} \subseteq BOOLEAN
  BY Zenon DEF EnvInit
<1>2. EnvTypeOK
  BY <1>1, Bounds DEF EnvInit, EnvTypeOK, Procs, Streams
<1>3. HoldersRun /\ SilentClient
  BY DEF EnvInit, HoldersRun, SilentClient, Running, Procs, Streams
<1>4. Counted
  BY Bounds DEF EnvInit, Counted, Streams
<1> QED
  BY <1>2, <1>3, <1>4 DEF EnvInv

\* The end of some processes.
LEMMA DieEffect ==
    ASSUME EnvTypeOK, NEW P, P \subseteq Running, Die(P)
    PROVE  /\ proc' \in [Procs -> {"none", "run", "zombie"}]
           /\ holds' \in [Streams -> SUBSET Procs]
           /\ Running' = Running \ P
           /\ \A s \in Streams : holds'[s] = holds[s] \ P
           /\ proc["sh"] = "zombie" => proc'["sh"] = "zombie"
BY DEF EnvTypeOK, Die, Running, Procs, Streams

\* A step of the command.
LEMMA CommandStep ==
    ASSUME EnvInv, Command, mode' = mode
    PROVE  EnvInv' /\ CommandFrame /\ PeerFrame
<1> USE DEF EnvInv
<1>0. /\ UNCHANGED <<sent, up, client, askedK, inputs, ctl, ctls>>
      /\ PeerFrame
  BY DEF Command, peerVars, ctlVars, PeerFrame
<1>b. {client, askedK}' \subseteq BOOLEAN
  BY <1>0, Zenon DEF EnvTypeOK
<1>s. SilentClient'
  BY <1>0 DEF SilentClient
<1>1. ASSUME NEW p \in Procs, NEW s \in Streams, Write(p, s)
      PROVE  EnvInv' /\ CommandFrame
  <2>1. wrote' \in [Streams -> 0..MaxWrite] /\ wrote'["O"] + wrote'["E"] <= MaxWrite
    BY <1>1, Bounds DEF Write, EnvTypeOK, Streams
  <2>2. pipe' \in [Streams -> 0..PipeCap]
    BY <1>1, Bounds DEF Write, EnvTypeOK, Streams
  <2>3. EnvTypeOK'
    BY <1>0, <1>1, <1>b, <2>1, <2>2 DEF Write, EnvTypeOK
  <2>4. HoldersRun'
    BY <1>1 DEF Write, HoldersRun, Running
  <2>5. Counted'
    <3>1. /\ sent \in [Streams -> Nat] /\ pipe \in [Streams -> Nat] /\ wrote \in [Streams -> Nat]
          /\ sent' = sent
      BY <1>0, Bounds DEF EnvTypeOK
    <3>2. /\ wrote' = [wrote EXCEPT ![s] = @ + 1]
          /\ mode = "JOB" => pipe' = pipe
          /\ mode # "JOB" => pipe' = [pipe EXCEPT ![s] = @ + 1]
      BY <1>1 DEF Write
    <3>3. \A u \in Streams : sent'[u] + pipe'[u] <= wrote'[u]
      <4> TAKE u \in Streams
      <4>1. sent[u] + pipe[u] <= wrote[u]
        BY DEF Counted
      <4>2. CASE mode = "JOB"
        BY <3>1, <3>2, <4>1, <4>2
      <4>3. CASE mode # "JOB"
        BY <3>1, <3>2, <4>1, <4>3
      <4> QED
        BY <4>2, <4>3
    <3>4. mode' = "JOB" => \A u \in Streams : pipe'[u] = 0 /\ sent'[u] = 0
      BY <3>1, <3>2 DEF Counted
    <3> QED
      BY <2>1, <3>3, <3>4 DEF Counted
  <2>6. CommandFrame
    <3>1. p \in Running /\ p \in holds[s] /\ proc' = proc /\ holds' = holds
      BY <1>1 DEF Write, Running
    <3>2. CASE mode = "JOB"
      BY <1>1, <3>1, <3>2, Bounds DEF Write, CommandFrame, EnvTypeOK, Streams
    <3>3. CASE mode # "JOB"
      <4>1. /\ pipe \in [Streams -> Nat] /\ wrote \in [Streams -> Nat]
            /\ pipe' = [pipe EXCEPT ![s] = @ + 1] /\ wrote' = [wrote EXCEPT ![s] = @ + 1]
        BY <1>1, <3>3, Bounds DEF Write, EnvTypeOK
      <4>2. ASSUME NEW u \in Streams
            PROVE  /\ pipe[u] <= pipe'[u] /\ wrote'[u] - pipe'[u] = wrote[u] - pipe[u]
                   /\ holds[u] = {} => pipe'[u] = pipe[u] /\ wrote'[u] = wrote[u]
        <5>1. CASE u = s
          BY <3>1, <4>1, <5>1
        <5>2. CASE u # s
          BY <4>1, <5>2
        <5> QED
          BY <5>1, <5>2
      <4> QED
        BY <3>1, <4>2 DEF CommandFrame, Running
    <3> QED
      BY <3>2, <3>3
  <2> QED
    BY <2>3, <2>4, <2>5, <2>6, <1>s
<1>2. ASSUME NEW p \in Procs, CloseOutput(p)
      PROVE  EnvInv' /\ CommandFrame
  <2>1. EnvTypeOK'
    BY <1>0, <1>2, <1>b DEF CloseOutput, EnvTypeOK
  <2>2. HoldersRun' /\ Counted'
    BY <1>0, <1>2 DEF CloseOutput, HoldersRun, Running, Counted, Streams, EnvTypeOK
  <2>3. CommandFrame
    BY <1>2 DEF CloseOutput, CommandFrame, EnvTypeOK, Running, Streams
  <2> QED
    BY <2>1, <2>2, <2>3, <1>s
<1>3. ASSUME NEW p \in Procs, Exit(p)
      PROVE  EnvInv' /\ CommandFrame
  <2>1. {p} \subseteq Running /\ Die({p}) /\ UNCHANGED <<pipe, inpipe, wrote>>
    BY <1>3 DEF Exit, Running
  <2>2. /\ proc' \in [Procs -> {"none", "run", "zombie"}]
        /\ holds' \in [Streams -> SUBSET Procs]
        /\ Running' = Running \ {p}
        /\ \A s \in Streams : holds'[s] = holds[s] \ {p}
        /\ proc["sh"] = "zombie" => proc'["sh"] = "zombie"
    BY <2>1, DieEffect
  <2>3. EnvTypeOK'
    BY <1>0, <1>b, <2>1, <2>2 DEF EnvTypeOK
  <2>4. HoldersRun' /\ Counted'
    BY <1>0, <2>1, <2>2 DEF HoldersRun, Counted
  <2>5. CommandFrame
    BY <2>1, <2>2 DEF CommandFrame, EnvTypeOK, Streams
  <2> QED
    BY <2>3, <2>4, <2>5, <1>s
<1>4. CASE ReadInput
  <2>1. EnvTypeOK'
    BY <1>0, <1>4, <1>b, Bounds DEF ReadInput, EnvTypeOK
  <2>2. HoldersRun' /\ Counted'
    BY <1>0, <1>4 DEF ReadInput, HoldersRun, Running, Counted
  <2>3. CommandFrame
    BY <1>4 DEF ReadInput, CommandFrame, EnvTypeOK, Running, Streams
  <2> QED
    BY <1>0, <2>1, <2>2, <2>3, <1>s
<1>5. CASE Background
  <2>1. EnvTypeOK'
    BY <1>0, <1>5, <1>b DEF Background, EnvTypeOK, Procs, Streams
  <2>2. HoldersRun' /\ Counted'
    BY <1>0, <1>5 DEF Background, HoldersRun, Running, Counted, EnvTypeOK, Procs, Streams
  <2>3. CommandFrame
    BY <1>5 DEF Background, CommandFrame, EnvTypeOK, Running, Procs, Streams
  <2> QED
    BY <1>0, <2>1, <2>2, <2>3, <1>s
<1> QED
  BY <1>0, <1>1, <1>2, <1>3, <1>4, <1>5 DEF Command

\* A step of the session's client or of a control client.
LEMMA PeerStep ==
    ASSUME EnvInv, Client \/ CtlConnect \/ CtlClose, mode' = mode
    PROVE  EnvInv' /\ CommandFrame /\ PeerFrame
<1> USE DEF EnvInv
<1>1. UNCHANGED <<proc, holds, pipe, inpipe, wrote, sent>>
  BY DEF Client, CtlConnect, CtlClose, procVars
<1>2. HoldersRun' /\ Counted' /\ CommandFrame
  BY <1>1 DEF HoldersRun, Running, Counted, CommandFrame, EnvTypeOK, Streams
<1>b. client \in BOOLEAN /\ askedK \in BOOLEAN
  BY EnvBooleans
<1>3. ASSUME Client PROVE EnvInv' /\ PeerFrame
  <2>1. UNCHANGED <<ctl, ctls>> /\ mode # "JOB" /\ client
    BY <1>3 DEF Client, ctlVars
  <2>2. ASSUME NEW f \in {"I", "I0", "K"}, Say(f)
        PROVE  /\ up' \in Seq({"I", "I0", "K"}) /\ up' # <<>>
               /\ client' = client /\ SilentClient'
    <3>1. mode = "RUNI" /\ up' = Append(up, f) /\ client' = client
      BY <2>2 DEF Say
    <3>2. up \in Seq({"I", "I0", "K"})
      BY DEF EnvTypeOK
    <3>3. up' \in Seq({"I", "I0", "K"}) /\ up' # <<>>
      BY <3>1, <3>2, AppendProperties
    <3> QED
      BY <3>1, <3>3 DEF SilentClient
  <2>3. CASE Say("I") /\ inputs < MaxInput /\ inputs' = inputs + 1 /\ UNCHANGED askedK
    <3>1. inputs' \in 0..MaxInput
      BY <2>3, Bounds DEF EnvTypeOK
    <3>2. {client, askedK}' \subseteq BOOLEAN
      BY <1>b, <2>2, <2>3, Zenon
    <3>3. EnvTypeOK'
      BY <1>1, <2>1, <2>2, <2>3, <3>1, <3>2 DEF EnvTypeOK
    <3> QED
      BY <1>2, <2>1, <2>2, <2>3, <3>3 DEF PeerFrame
  <2>4. CASE Say("I0") /\ inputs < MaxInput /\ inputs' = MaxInput /\ UNCHANGED askedK
    <3>1. inputs' \in 0..MaxInput
      BY <2>4, Bounds DEF EnvTypeOK
    <3>2. {client, askedK}' \subseteq BOOLEAN
      BY <1>b, <2>2, <2>4, Zenon
    <3>3. EnvTypeOK'
      BY <1>1, <2>1, <2>2, <2>4, <3>1, <3>2 DEF EnvTypeOK
    <3> QED
      BY <1>2, <2>1, <2>2, <2>4, <3>3 DEF PeerFrame
  <2>5. CASE Say("K") /\ ~askedK /\ askedK' = TRUE /\ UNCHANGED inputs
    <3>1. {client, askedK}' \subseteq BOOLEAN
      BY <1>b, <2>2, <2>5, Zenon
    <3>2. EnvTypeOK'
      BY <1>1, <2>1, <2>2, <2>5, <3>1 DEF EnvTypeOK
    <3> QED
      BY <1>2, <2>1, <2>2, <2>5, <3>2 DEF PeerFrame
  <2>6. CASE client' = FALSE /\ UNCHANGED <<up, askedK, inputs>>
    <3>1. {client, askedK}' \subseteq BOOLEAN
      BY <1>b, <2>6, Zenon
    <3>2. EnvTypeOK'
      BY <1>1, <2>1, <2>6, <3>1 DEF EnvTypeOK
    <3> QED
      BY <1>2, <2>1, <2>6, <3>2 DEF PeerFrame, SilentClient
  <2> QED
    BY <1>3, <2>3, <2>4, <2>5, <2>6 DEF Client
<1>4. ASSUME CtlConnect \/ CtlClose PROVE EnvInv' /\ PeerFrame
  <2>1. UNCHANGED <<up, client, askedK, inputs>>
    BY <1>4 DEF CtlConnect, CtlClose, peerVars
  <2>2. {client, askedK}' \subseteq BOOLEAN
    BY <1>b, <2>1, Zenon
  <2>3. EnvTypeOK'
    BY <1>1, <1>4, <2>1, <2>2, Bounds DEF CtlConnect, CtlClose, EnvTypeOK
  <2> QED
    BY <1>2, <1>4, <2>1, <2>3 DEF CtlConnect, CtlClose, PeerFrame, SilentClient
<1> QED
  BY <1>2, <1>3, <1>4

\* Between two steps of the supervisor.
LEMMA EnvironmentStep ==
    ASSUME EnvInv, Environment, mode' = mode
    PROVE  EnvInv' /\ CommandFrame /\ PeerFrame
BY CommandStep, PeerStep DEF Environment
=============================================================================
