-------------------------- MODULE SerialLinkProofs --------------------------
(***************************************************************************)
(* The resynchronisation rule of the serial line, for any number of         *)
(* invocations, interrupts and timeouts: an attempt that finds no greeting  *)
(* outstanding is in step with the daemon from its greeting to its end.     *)
(***************************************************************************)
EXTENDS SerialLink, TLAPS, SequenceTheorems

Starts == {"RUN", "RUNA"}

-----------------------------------------------------------------------------
(* Queues of lines.                                                         *)

\* The commands that start something carry a number from 1 to n.
Numbered(q, n) == \A i \in 1..Len(q) : q[i].t \in Starts => q[i].v \in 1..n

\* The numbers of the jobs asked for are above n, below n, and ascend.
Above(q, n) == \A i \in 1..Len(q) : q[i].t = "RUNA" => n < q[i].v
Below(q, n) == \A i \in 1..Len(q) : q[i].t = "RUNA" => q[i].v < n
Ascending(q) ==
    \A i, j \in 1..Len(q) : i < j /\ q[i].t = "RUNA" /\ q[j].t = "RUNA" => q[i].v < q[j].v

NoStart(q) == \A i \in 1..Len(q) : q[i].t \notin Starts

NoGreeting(q) == \A i \in 1..Len(q) : q[i].t \notin {"HELLO", "GCDS"}

\* A greeting is asked for, or given, by the last line at most.
HelloLast(q) == \A i \in 1..Len(q) : q[i].t = "HELLO" => i = Len(q)
GreetingLast(q) == \A i \in 1..Len(q) : q[i].t = "GCDS" => i = Len(q)

-----------------------------------------------------------------------------
(* What always holds.                                                       *)

\* Invocations are numbered from one on, and the commands in the line carry such
\* a number.
NumberInv ==
    /\ cst # "none" => p > 0
    /\ run <= p
    /\ Numbered(toD, p)

\* Nothing of this invocation has been submitted.
Fresh == cst \in {"greet", "auth"} /\ id = -1

\* No invocation submits twice: the numbers of the jobs in the line are above
\* the daemon's counter, and ascend.
CounterInv ==
    /\ jobs <= p
    /\ Above(toD, jobs) /\ Ascending(toD)
    /\ Fresh => jobs < p /\ Below(toD, p)

\* The result in the slot is that of the job last run.
ResultInv ==
    /\ res.id # 0 => res.id = jobs /\ res.p = run /\ dst \notin {"run", "job"}
    /\ cst \in {"sleep", "stat", "fetch"} => id # -1

-----------------------------------------------------------------------------
(* What holds of an invocation that found no greeting outstanding.          *)

\* At most one greeting is outstanding, it is the one asked for last, and the
\* daemon is at its beginning of a session when it is in the line.
GreetInv ==
    /\ HelloLast(toD)
    /\ NoGreeting(toC) \/ (GreetingLast(toC) /\ toD = <<>> /\ dst = "auth")

\* The daemon is about to read line c, which was sent to it at place s, or its
\* answers a are what is under way.
Asked(s, c) == toC = <<>> /\ toD = <<c>> /\ dst = s
Answered(S, A) == toD = <<>> /\ dst \in S /\ toC \in A

AuthInv ==
    Asked("auth", Line("AUTH", 0)) \/ Answered({"sess"}, {<<Line("OK", 0)>>})

StreamInv ==
    \/ Asked("sess", Line("RUN", p))
    \/ toC = <<>> /\ toD = <<>> /\ dst = "run" /\ run = p
    \/ Answered({"sess"},
          {<<Line("O", p), Line("X", p)>>, <<Line("X", p)>>, <<Line("ERR", p)>>})

SubmitInv ==
    \/ Asked("sess", Line("RUNA", p))
    \/ Answered({"job", "idle"}, {<<Line("OK id", jobs)>>}) /\ run = p /\ jobs > 0

StatInv ==
    \/ Asked("sess", Line("STAT", 0))
    \/ Answered({"sess"}, {<<Line("OK result", id)>>}) /\ res.id = id
    \/ Answered({"sess"}, {<<Line("OK idle", 0)>>})

FetchInv ==
    \/ Asked("sess", Line("RESULT", id)) /\ res.id = id
    \/ Answered({"sess"}, {<<Line("O", id), Line("X", p)>>, <<Line("X", p)>>})

\* The job the invocation polls for is the last one, and no other will be
\* started before it has ended.
PollInv ==
    /\ id = jobs /\ id > 0 /\ run = p
    /\ NoStart(toD)

Polling == id # -1 /\ cst \in {"greet", "auth", "stat", "fetch", "sleep"}

SyncInv ==
    ~skew =>
        /\ cst = "greet" => GreetInv
        /\ cst = "auth" => AuthInv
        /\ cst = "stream" => StreamInv
        /\ cst = "submit" => SubmitInv
        /\ cst = "stat" => StatInv
        /\ cst = "fetch" => FetchInv
        /\ Polling => PollInv
        /\ cst \in Waiting \cup {"sleep"} => want
        /\ cst = "done" => got = p
        /\ cst # "status"

IInv == TypeOK /\ NumberInv /\ CounterInv /\ ResultInv /\ SyncInv

-----------------------------------------------------------------------------
(* Types.                                                                   *)

CLines == [t : Commands, v : -1 .. MaxInvoke, cur : BOOLEAN]
RLines == [t : Replies, v : 0..MaxInvoke, cur : BOOLEAN]

FlatType ==
    /\ toD \in Seq(CLines) /\ toC \in Seq(RLines)
    /\ dst \in {"idle", "auth", "sess", "run", "job"} /\ cst \in Places
    /\ run \in 0..MaxInvoke /\ p \in 0..MaxInvoke /\ got \in 0..MaxInvoke
    /\ jobs \in 0..MaxInvoke /\ res.id \in 0..MaxInvoke /\ res.p \in 0..MaxInvoke
    /\ op \in Starts /\ id \in -1 .. MaxInvoke /\ tmo \in 0..MaxTmo
    /\ (dst \in {"run", "job"} => run > 0 /\ res.id = 0)

Flags == live \in BOOLEAN /\ want \in BOOLEAN /\ skew \in BOOLEAN

LEMMA Bounds == MaxInvoke \in Nat /\ MaxTmo \in Nat
BY SerialAssumption

LEMMA TypeParts == TypeOK <=> FlatType /\ Flags
BY DEF TypeOK, FlatType, Flags, CLines, RLines, Busy, Starts

LEMMA CLine ==
    ASSUME NEW l \in CLines
    PROVE  l.t \in Commands /\ l.v \in -1 .. MaxInvoke /\ l.cur \in BOOLEAN
BY DEF CLines

LEMMA RLine ==
    ASSUME NEW l \in RLines
    PROVE  l.t \in Replies /\ l.v \in 0..MaxInvoke /\ l.cur \in BOOLEAN
BY DEF RLines

LEMMA LineTyped ==
    /\ \A t \in Commands, v \in -1 .. MaxInvoke : Line(t, v) \in CLines
    /\ \A t \in Replies, v \in 0..MaxInvoke : Line(t, v) \in RLines
BY DEF Line, CLines, RLines

\* An answer takes over only whose attempt the command belongs to.
LEMMA AnswerTyped ==
    ASSUME NEW l \in CLines, NEW t \in Replies, NEW v \in 0..MaxInvoke
    PROVE  /\ [l EXCEPT !.t = t, !.v = v] \in RLines
           /\ [l EXCEPT !.t = t, !.v = v] = [t |-> t, v |-> v, cur |-> l.cur]
           /\ [l EXCEPT !.t = t, !.v = v].t = t
<1>1. l.cur \in BOOLEAN
  BY CLine
<1>2. [l EXCEPT !.t = t, !.v = v] = [t |-> t, v |-> v, cur |-> l.cur]
  <2> DEFINE a == [l EXCEPT !.t = t, !.v = v]
             b == [t |-> t, v |-> v, cur |-> l.cur]
  <2>1. a \in [t : {t}, v : {v}, cur : BOOLEAN] /\ a.t = t /\ a.v = v /\ a.cur = l.cur
    BY DEF CLines
  <2>2. b \in [t : {t}, v : {v}, cur : BOOLEAN] /\ b.t = t /\ b.v = v /\ b.cur = l.cur
    BY <1>1
  <2> HIDE DEF a, b
  <2>3. a = b
    BY <2>1, <2>2
  <2> QED BY <2>3 DEF a, b
<1>3. [t |-> t, v |-> v, cur |-> l.cur] \in RLines
  BY <1>1 DEF RLines
<1>4. [t |-> t, v |-> v, cur |-> l.cur].t = t
  OBVIOUS
<1> QED BY <1>2, <1>3, <1>4

-----------------------------------------------------------------------------
(* Lines taken from a queue and put into one.                               *)

LEMMA Taken ==
    ASSUME NEW S, NEW q \in Seq(S), q # <<>>
    PROVE  /\ Len(q) \in Nat /\ Len(q) > 0 /\ 1 \in 1..Len(q)
           /\ Head(q) = q[1] /\ Head(q) \in S
           /\ Tail(q) \in Seq(S) /\ Len(Tail(q)) = Len(q) - 1
           /\ \A i \in 1..(Len(q) - 1) : Tail(q)[i] = q[i + 1]
<1>1. Len(q) \in Nat \ {0}
  BY EmptySeq
<1> QED BY <1>1

LEMMA TakenLast ==
    ASSUME NEW x PROVE Head(<<x>>) = x /\ Tail(<<x>>) = <<>> /\ <<x>> # <<>>
OBVIOUS

LEMMA PutOne ==
    ASSUME NEW S, NEW q \in Seq(S), NEW x \in S
    PROVE  /\ q \o <<x>> \in Seq(S) /\ Len(q \o <<x>>) = Len(q) + 1 /\ Len(q) \in Nat
           /\ \A i \in 1..Len(q) : (q \o <<x>>)[i] = q[i]
           /\ (q \o <<x>>)[Len(q) + 1] = x
<1>1. Append(q, x) = q \o <<x>>
  BY AppendIsConcat
<1>2. /\ Append(q, x) \in Seq(S) /\ Len(Append(q, x)) = Len(q) + 1 /\ Len(q) \in Nat
      /\ \A i \in 1..Len(q) : Append(q, x)[i] = q[i]
      /\ Append(q, x)[Len(q) + 1] = x
  BY AppendProperties
<1> QED BY <1>1, <1>2

LEMMA PutTwo ==
    ASSUME NEW S, NEW q \in Seq(S), NEW x \in S, NEW y \in S
    PROVE  /\ q \o <<x, y>> \in Seq(S) /\ Len(q \o <<x, y>>) = Len(q) + 2 /\ Len(q) \in Nat
           /\ \A i \in 1..Len(q) : (q \o <<x, y>>)[i] = q[i]
           /\ (q \o <<x, y>>)[Len(q) + 1] = x /\ (q \o <<x, y>>)[Len(q) + 2] = y
<1> DEFINE u == <<x, y>>
<1>1. u \in Seq(S) /\ Len(u) = 2 /\ u[1] = x /\ u[2] = y /\ Len(q) \in Nat
  OBVIOUS
<1> HIDE DEF u
<1>2. /\ q \o u \in Seq(S) /\ Len(q \o u) = Len(q) + Len(u)
      /\ \A i \in 1..(Len(q) + Len(u)) : (q \o u)[i] = IF i <= Len(q) THEN q[i] ELSE u[i - Len(q)]
  BY <1>1, ConcatProperties
<1>3. \A i \in 1..Len(q) : (q \o u)[i] = q[i]
  BY <1>1, <1>2
<1>4. (q \o u)[Len(q) + 1] = x
  <2>1. Len(q) + 1 \in 1..(Len(q) + Len(u)) /\ ~(Len(q) + 1 <= Len(q)) /\ Len(q) + 1 - Len(q) = 1
    BY <1>1
  <2> QED BY <1>1, <1>2, <2>1
<1>5. (q \o u)[Len(q) + 2] = y
  <2>1. Len(q) + 2 \in 1..(Len(q) + Len(u)) /\ ~(Len(q) + 2 <= Len(q)) /\ Len(q) + 2 - Len(q) = 2
    BY <1>1
  <2> QED BY <1>1, <1>2, <2>1
<1>6. Len(q \o u) = Len(q) + 2
  BY <1>1, <1>2
<1> QED BY <1>1, <1>2, <1>3, <1>4, <1>5, <1>6 DEF u

LEMMA PutNone ==
    ASSUME NEW S, NEW q \in Seq(S) PROVE q \o <<>> = q
BY ConcatEmptySeq

\* Lines that become old keep everything else.
Lines(S) == \A x \in S :
    /\ [x EXCEPT !.cur = FALSE] \in S
    /\ [x EXCEPT !.cur = FALSE].t = x.t /\ [x EXCEPT !.cur = FALSE].v = x.v

LEMMA BothLines == Lines(CLines) /\ Lines(RLines)
BY DEF Lines, CLines, RLines

LEMMA OldLines ==
    ASSUME NEW S, Lines(S), NEW q \in Seq(S)
    PROVE  /\ Old(q) \in Seq(S) /\ Len(Old(q)) = Len(q)
           /\ \A i \in 1..Len(q) : Old(q)[i].t = q[i].t /\ Old(q)[i].v = q[i].v
<1>1. Len(q) \in Nat /\ \A i \in 1..Len(q) : q[i] \in S
  OBVIOUS
<1>3. /\ DOMAIN Old(q) = 1..Len(q)
      /\ \A i \in 1..Len(q) : Old(q)[i] = [q[i] EXCEPT !.cur = FALSE]
  BY DEF Old
<1>4. Old(q) \in Seq(S) /\ Len(Old(q)) = Len(q)
  <2>1. \A i \in 1..Len(q) : Old(q)[i] \in S
    BY <1>1, <1>3 DEF Lines
  <2>2. Old(q) \in [1..Len(q) -> S]
    BY <1>3, <2>1 DEF Old
  <2> QED BY <1>1, <2>2
<1>5. \A i \in 1..Len(q) : Old(q)[i].t = q[i].t /\ Old(q)[i].v = q[i].v
  <2> TAKE i \in 1..Len(q)
  <2>1. q[i] \in S /\ Old(q)[i] = [q[i] EXCEPT !.cur = FALSE]
    BY <1>1, <1>3
  <2> QED BY <2>1 DEF Lines
<1> QED BY <1>4, <1>5

LEMMA OfLength ==
    ASSUME NEW S, NEW s \in Seq(S)
    PROVE  (Len(s) = 1 => s = <<s[1]>>) /\ (Len(s) = 2 => s = <<s[1], s[2]>>)
OBVIOUS

\* What may be left of lines sent to a daemon that does not listen.
LEMMA LeftOfOne == ASSUME NEW x PROVE SubSeqs(<<x>>) \subseteq {<<>>, <<x>>}
<1> DEFINE q == <<x>>
           S == {x}
<1>1. q \in Seq(S) /\ Len(q) = 1 /\ q[1] = x
  OBVIOUS
<1> HIDE DEF q, S
<1> SUFFICES ASSUME NEW i \in 0..1, NEW j \in 0..1
             PROVE  SubSeq(q, i + 1, j) \in {<<>>, q}
  BY <1>1 DEF SubSeqs, q
<1>2. CASE j < i + 1
  BY <1>2, SubSeqEmpty
<1>3. CASE i + 1 <= j
  <2>1. i = 0 /\ j = 1 /\ i + 1 = 1
    BY <1>3
  <2>2. SubSeq(q, 1, 1) = q
    BY <1>1, SubSeqFull
  <2> QED BY <2>1, <2>2
<1> QED BY <1>2, <1>3

LEMMA LeftOfTwo ==
    ASSUME NEW x, NEW y PROVE SubSeqs(<<x, y>>) \subseteq {<<>>, <<x>>, <<y>>, <<x, y>>}
<1> DEFINE q == <<x, y>>
           S == {x, y}
<1>1. q \in Seq(S) /\ Len(q) = 2 /\ q[1] = x /\ q[2] = y /\ x \in S /\ y \in S
  OBVIOUS
<1> HIDE DEF q, S
<1> SUFFICES ASSUME NEW i \in 0..2, NEW j \in 0..2
             PROVE  SubSeq(q, i + 1, j) \in {<<>>, <<x>>, <<y>>, q}
  BY <1>1 DEF SubSeqs, q
<1>2. CASE j < i + 1
  BY <1>2, SubSeqEmpty
<1>3. CASE i = 0 /\ j = 1
  <2> DEFINE s == SubSeq(q, 1, 1)
  <2>1. \A k \in 1..1 : q[k] \in S
    BY <1>1
  <2>2. s \in Seq(S) /\ Len(s) = 1 /\ s[1] = q[1]
    <3>1. s \in Seq(S) /\ Len(s) = (IF 1 <= 1 THEN 1 - 1 + 1 ELSE 0)
          /\ \A k \in 1..(1 - 1 + 1) : s[k] = q[1 + k - 1]
      BY <2>1, SubSeqProperties
    <3> QED BY <3>1
  <2> HIDE DEF s
  <2>3. s = <<x>>
    BY <1>1, <2>2, OfLength
  <2> QED BY <1>3, <2>3 DEF s
<1>4. CASE i = 1 /\ j = 2
  <2> DEFINE s == SubSeq(q, 2, 2)
  <2>1. \A k \in 2..2 : q[k] \in S
    BY <1>1
  <2>2. s \in Seq(S) /\ Len(s) = 1 /\ s[1] = q[2]
    <3>1. s \in Seq(S) /\ Len(s) = (IF 2 <= 2 THEN 2 - 2 + 1 ELSE 0)
          /\ \A k \in 1..(2 - 2 + 1) : s[k] = q[2 + k - 1]
      BY <2>1, SubSeqProperties
    <3> QED BY <3>1
  <2> HIDE DEF s
  <2>3. s = <<y>>
    BY <1>1, <2>2, OfLength
  <2> QED BY <1>4, <2>3 DEF s
<1>5. CASE i = 0 /\ j = 2
  <2>1. SubSeq(q, 1, 2) = q
    BY <1>1, SubSeqFull
  <2> QED BY <1>5, <2>1
<1>6. j < i + 1 \/ (i = 0 /\ j = 1) \/ (i = 1 /\ j = 2) \/ (i = 0 /\ j = 2)
  OBVIOUS
<1> QED BY <1>2, <1>3, <1>4, <1>5, <1>6

LEMMA PutPair ==
    ASSUME NEW S, NEW q \in Seq(S), NEW x \in S, NEW y \in S
    PROVE  q \o <<x, y>> = (q \o <<x>>) \o <<y>>
<1> DEFINE a == q \o <<x, y>>
           b == q \o <<x>>
           c == b \o <<y>>
<1>1. a \in Seq(S) /\ Len(a) = Len(q) + 2 /\ Len(q) \in Nat
      /\ (\A i \in 1..Len(q) : a[i] = q[i]) /\ a[Len(q) + 1] = x /\ a[Len(q) + 2] = y
  BY PutTwo
<1>2. b \in Seq(S) /\ Len(b) = Len(q) + 1
      /\ (\A i \in 1..Len(q) : b[i] = q[i]) /\ b[Len(q) + 1] = x
  BY PutOne
<1> HIDE DEF b
<1>3. c \in Seq(S) /\ Len(c) = Len(b) + 1
      /\ (\A i \in 1..Len(b) : c[i] = b[i]) /\ c[Len(b) + 1] = y
  BY <1>2, PutOne
<1> HIDE DEF a, c
<1>4. Len(a) = Len(c)
  BY <1>1, <1>2, <1>3
<1>5. ASSUME NEW i \in 1..Len(a) PROVE a[i] = c[i]
  <2>1. CASE i \in 1..Len(q)
    BY <1>1, <1>2, <1>3, <2>1
  <2>2. CASE i = Len(q) + 1
    <3>1. i \in 1..Len(b)
      BY <1>1, <1>2, <2>2
    <3> QED BY <1>1, <1>2, <1>3, <2>2, <3>1
  <2>3. CASE i = Len(q) + 2
    <3>1. i = Len(b) + 1
      BY <1>1, <1>2, <2>3
    <3> QED BY <1>1, <1>3, <2>3, <3>1
  <2> QED BY <1>1, <2>1, <2>2, <2>3
<1>6. a = c
  BY <1>1, <1>3, <1>4, <1>5, SeqEqual
<1> QED BY <1>6 DEF a, b, c

-----------------------------------------------------------------------------
(* The rest of a queue.                                                     *)

LEMMA RestKeeps ==
    ASSUME NEW S, NEW q \in Seq(S), q # <<>>, NEW n
    PROVE  /\ Numbered(q, n) => Numbered(Tail(q), n)
           /\ Above(q, n) => Above(Tail(q), n)
           /\ Below(q, n) => Below(Tail(q), n)
           /\ Ascending(q) => Ascending(Tail(q))
           /\ NoStart(q) => NoStart(Tail(q))
           /\ NoGreeting(q) => NoGreeting(Tail(q))
           /\ HelloLast(q) => HelloLast(Tail(q))
           /\ GreetingLast(q) => GreetingLast(Tail(q))
<1> DEFINE r == Tail(q)
<1>1. Len(q) \in Nat /\ Len(r) = Len(q) - 1 /\ \A i \in 1..(Len(q) - 1) : r[i] = q[i + 1]
  BY Taken
<1> HIDE DEF r
<1>2. \A i \in 1..Len(r) : i + 1 \in 1..Len(q) /\ r[i] = q[i + 1] /\ (i + 1 = Len(q) => i = Len(r))
  BY <1>1
<1>3. \A i, j \in 1..Len(r) : i < j => i + 1 < j + 1
  BY <1>1
<1>4. Numbered(q, n) => Numbered(r, n)
  BY <1>2 DEF Numbered
<1>5. (Above(q, n) => Above(r, n)) /\ (Below(q, n) => Below(r, n))
  BY <1>2 DEF Above, Below
<1>6. Ascending(q) => Ascending(r)
  BY <1>2, <1>3 DEF Ascending
<1>7. (NoStart(q) => NoStart(r)) /\ (NoGreeting(q) => NoGreeting(r))
  BY <1>2 DEF NoStart, NoGreeting
<1>8. (HelloLast(q) => HelloLast(r)) /\ (GreetingLast(q) => GreetingLast(r))
  BY <1>2 DEF HelloLast, GreetingLast
<1> QED BY <1>4, <1>5, <1>6, <1>7, <1>8 DEF r

LEMMA FirstOf ==
    ASSUME NEW S, NEW q \in Seq(S), q # <<>>, NEW n
    PROVE  /\ Numbered(q, n) /\ Head(q).t \in Starts => Head(q).v \in 1..n
           /\ Above(q, n) /\ Head(q).t = "RUNA" => n < Head(q).v
           /\ Below(q, n) /\ Head(q).t = "RUNA" => Head(q).v < n
           /\ Ascending(q) /\ Head(q).t = "RUNA" => Above(Tail(q), Head(q).v)
           /\ NoStart(q) => Head(q).t \notin Starts
           /\ NoGreeting(q) => Head(q).t \notin {"HELLO", "GCDS"}
           /\ HelloLast(q) /\ Head(q).t = "HELLO" => Tail(q) = <<>>
           /\ GreetingLast(q) /\ Head(q).t = "GCDS" => Tail(q) = <<>>
<1> DEFINE r == Tail(q)
           h == Head(q)
<1>1. /\ Len(q) \in Nat /\ Len(r) = Len(q) - 1 /\ 1 \in 1..Len(q) /\ h = q[1] /\ r \in Seq(S)
      /\ \A i \in 1..(Len(q) - 1) : r[i] = q[i + 1]
  BY Taken
<1> HIDE DEF r, h
<1>2. \A i \in 1..Len(r) : i + 1 \in 1..Len(q) /\ r[i] = q[i + 1] /\ 1 < i + 1
  BY <1>1
<1>3. Numbered(q, n) /\ h.t \in Starts => h.v \in 1..n
  BY <1>1 DEF Numbered
<1>4. (Above(q, n) /\ h.t = "RUNA" => n < h.v) /\ (Below(q, n) /\ h.t = "RUNA" => h.v < n)
  BY <1>1 DEF Above, Below
<1>5. Ascending(q) /\ h.t = "RUNA" => Above(r, h.v)
  BY <1>1, <1>2 DEF Ascending, Above
<1>6. (NoStart(q) => h.t \notin Starts) /\ (NoGreeting(q) => h.t \notin {"HELLO", "GCDS"})
  BY <1>1 DEF NoStart, NoGreeting
<1>7. (HelloLast(q) /\ h.t = "HELLO") \/ (GreetingLast(q) /\ h.t = "GCDS") => 1 = Len(q)
  BY <1>1 DEF HelloLast, GreetingLast
<1>8. 1 = Len(q) => r = <<>>
  <2> SUFFICES ASSUME 1 = Len(q) PROVE r = <<>>
    OBVIOUS
  <2>1. Len(r) = 0
    BY <1>1
  <2> QED BY <1>1, <2>1, EmptySeq
<1> QED BY <1>3, <1>4, <1>5, <1>6, <1>7, <1>8 DEF r, h

-----------------------------------------------------------------------------
(* Lines that have become old.                                              *)

LEMMA OldKeeps ==
    ASSUME NEW S, Lines(S), NEW q \in Seq(S), NEW n
    PROVE  /\ Numbered(q, n) => Numbered(Old(q), n)
           /\ Above(q, n) => Above(Old(q), n)
           /\ Below(q, n) => Below(Old(q), n)
           /\ Ascending(q) => Ascending(Old(q))
           /\ NoStart(q) => NoStart(Old(q))
           /\ NoGreeting(q) => NoGreeting(Old(q))
<1> DEFINE r == Old(q)
<1>1. Len(r) = Len(q) /\ \A i \in 1..Len(q) : r[i].t = q[i].t /\ r[i].v = q[i].v
  BY OldLines
<1> HIDE DEF r
<1>2. (Numbered(q, n) => Numbered(r, n)) /\ (Above(q, n) => Above(r, n)) /\ (Below(q, n) => Below(r, n))
  BY <1>1 DEF Numbered, Above, Below
<1>3. Ascending(q) => Ascending(r)
  BY <1>1 DEF Ascending
<1>4. (NoStart(q) => NoStart(r)) /\ (NoGreeting(q) => NoGreeting(r))
  BY <1>1 DEF NoStart, NoGreeting
<1> QED BY <1>2, <1>3, <1>4 DEF r

-----------------------------------------------------------------------------
(* One more line in a queue.                                                *)

LEMMA PutKeeps ==
    ASSUME NEW S, NEW q \in Seq(S), NEW c \in S, NEW n
    PROVE  /\ Numbered(q, n) /\ (c.t \in Starts => c.v \in 1..n) => Numbered(q \o <<c>>, n)
           /\ Above(q, n) /\ (c.t = "RUNA" => n < c.v) => Above(q \o <<c>>, n)
           /\ Below(q, n) /\ c.t # "RUNA" => Below(q \o <<c>>, n)
           /\ Ascending(q) /\ (c.t = "RUNA" => Below(q, c.v)) => Ascending(q \o <<c>>)
           /\ NoStart(q) /\ c.t \notin Starts => NoStart(q \o <<c>>)
           /\ NoGreeting(q) /\ c.t \notin {"HELLO", "GCDS"} => NoGreeting(q \o <<c>>)
           /\ NoGreeting(q) => HelloLast(q \o <<c>>) /\ GreetingLast(q \o <<c>>)
<1> DEFINE r == q \o <<c>>
<1>1. /\ Len(q) \in Nat /\ Len(r) = Len(q) + 1 /\ r[Len(q) + 1] = c
      /\ \A i \in 1..Len(q) : r[i] = q[i]
  BY PutOne
<1> HIDE DEF r
<1>2. \A i \in 1..Len(r) : (i \in 1..Len(q) /\ r[i] = q[i]) \/ (i = Len(r) /\ r[i] = c)
  <2> TAKE i \in 1..Len(r)
  <2>1. i \in 1..Len(q) \/ i = Len(q) + 1
    BY <1>1
  <2> QED BY <1>1, <2>1
<1>3. Numbered(q, n) /\ (c.t \in Starts => c.v \in 1..n) => Numbered(r, n)
  BY <1>2 DEF Numbered
<1>4. /\ Above(q, n) /\ (c.t = "RUNA" => n < c.v) => Above(r, n)
      /\ Below(q, n) /\ c.t # "RUNA" => Below(r, n)
  BY <1>2 DEF Above, Below
<1>5. Ascending(q) /\ (c.t = "RUNA" => Below(q, c.v)) => Ascending(r)
  <2> SUFFICES ASSUME Ascending(q), c.t = "RUNA" => Below(q, c.v),
                      NEW i \in 1..Len(r), NEW j \in 1..Len(r),
                      i < j, r[i].t = "RUNA", r[j].t = "RUNA"
               PROVE  r[i].v < r[j].v
    BY DEF Ascending
  <2>1. i \in 1..Len(q) /\ r[i] = q[i]
    BY <1>1
  <2>2. CASE j \in 1..Len(q) /\ r[j] = q[j]
    BY <2>1, <2>2 DEF Ascending
  <2>3. CASE r[j] = c
    BY <2>1, <2>3 DEF Below
  <2> QED BY <1>2, <2>2, <2>3
<1>6. /\ NoStart(q) /\ c.t \notin Starts => NoStart(r)
      /\ NoGreeting(q) /\ c.t \notin {"HELLO", "GCDS"} => NoGreeting(r)
  BY <1>2 DEF NoStart, NoGreeting
<1>7. NoGreeting(q) => HelloLast(r) /\ GreetingLast(r)
  BY <1>2 DEF NoGreeting, HelloLast, GreetingLast
<1> QED BY <1>3, <1>4, <1>5, <1>6, <1>7 DEF r

LEMMA EmptyQueue ==
    /\ \A n : Numbered(<<>>, n) /\ Above(<<>>, n) /\ Below(<<>>, n)
    /\ Ascending(<<>>) /\ NoStart(<<>>) /\ NoGreeting(<<>>) /\ HelloLast(<<>>)
BY DEF Numbered, Above, Below, Ascending, NoStart, NoGreeting, HelloLast

LEMMA AboveMore ==
    ASSUME NEW q \in Seq(CLines), NEW m \in Int, NEW n \in Int, m <= n, Above(q, n)
    PROVE  Above(q, m)
<1>1. \A i \in 1..Len(q) : q[i] \in CLines
  OBVIOUS
<1>2. \A i \in 1..Len(q) : q[i].v \in -1 .. MaxInvoke
  BY <1>1, CLine, Bounds
<1> QED BY <1>2 DEF Above

-----------------------------------------------------------------------------
(* The daemon takes a line, answers, or does neither.                       *)

\* What the daemon reads, for the counter, the numbers and a poll.
LEMMA Consumed ==
    ASSUME IInv, toD # <<>>, toD' = Tail(toD), cst' = cst, p' = p, id' = id,
           \/ jobs' = jobs /\ run' = run
           \/ jobs' = jobs /\ run' = Head(toD).v /\ Head(toD).t = "RUN"
           \/ jobs' = jobs + 1 /\ run' = Head(toD).v /\ Head(toD).t = "RUNA"
    PROVE  /\ Head(toD) \in CLines /\ toD' \in Seq(CLines)
           /\ jobs' \in 0..MaxInvoke /\ run' \in 0..MaxInvoke
           /\ Head(toD).t \in Starts => Head(toD).v > 0
           /\ NumberInv' /\ CounterInv' /\ (PollInv => PollInv')
<1> DEFINE h == Head(toD)
           r == Tail(toD)
<1>1. /\ toD \in Seq(CLines) /\ p \in 0..MaxInvoke /\ run \in 0..MaxInvoke
      /\ jobs \in 0..MaxInvoke /\ MaxInvoke \in Nat
  BY TypeParts, Bounds DEF IInv, FlatType
<1>2. h \in CLines /\ r \in Seq(CLines)
  BY <1>1, Taken
<1>3. h.v \in -1 .. MaxInvoke
  BY <1>2, CLine
<1>4. /\ cst # "none" => p > 0
      /\ run <= p /\ Numbered(toD, p) /\ jobs <= p /\ Above(toD, jobs) /\ Ascending(toD)
      /\ Fresh => jobs < p /\ Below(toD, p)
  BY DEF IInv, NumberInv, CounterInv
<1>5. /\ Numbered(r, p) /\ Above(r, jobs) /\ Ascending(r)
      /\ (Below(toD, p) => Below(r, p)) /\ (NoStart(toD) => NoStart(r))
  BY <1>1, <1>4, RestKeeps
<1>6. /\ h.t \in Starts => h.v \in 1..p
      /\ h.t = "RUNA" => jobs < h.v /\ Above(r, h.v)
      /\ Below(toD, p) /\ h.t = "RUNA" => h.v < p
      /\ NoStart(toD) => h.t \notin Starts
  BY <1>1, <1>4, FirstOf
<1>7. "RUN" \in Starts /\ "RUNA" \in Starts
  BY DEF Starts
<1> HIDE DEF h, r
<1>8. h.t = "RUNA" => Above(r, jobs + 1) /\ jobs + 1 <= h.v
  <2> SUFFICES ASSUME h.t = "RUNA" PROVE Above(r, jobs + 1) /\ jobs + 1 <= h.v
    OBVIOUS
  <2>1. jobs + 1 <= h.v /\ jobs + 1 \in Int /\ h.v \in Int
    BY <1>1, <1>3, <1>6
  <2> QED BY <1>2, <1>6, <2>1, AboveMore
<1>9. toD' = r
  BY DEF r
<1>10. /\ jobs' \in 0..MaxInvoke /\ jobs' <= p /\ run' \in 0..MaxInvoke /\ run' <= p
       /\ Above(r, jobs') /\ (Fresh => jobs' < p /\ Below(r, p))
  <2>1. CASE jobs' = jobs /\ run' = run
    BY <1>1, <1>4, <1>5, <2>1
  <2>2. CASE jobs' = jobs /\ run' = h.v /\ h.t = "RUN"
    BY <1>1, <1>4, <1>5, <1>6, <1>7, <2>2
  <2>3. CASE jobs' = jobs + 1 /\ run' = h.v /\ h.t = "RUNA"
    <3>1. h.v \in 1..p /\ jobs + 1 <= h.v
      BY <1>6, <1>7, <1>8, <2>3
    <3>2. Fresh => h.v < p /\ Below(r, p)
      BY <1>4, <1>5, <1>6, <2>3
    <3>3. jobs' \in 0..MaxInvoke /\ jobs' <= p /\ run' \in 0..MaxInvoke /\ run' <= p
      BY <1>1, <2>3, <3>1
    <3>4. Fresh => jobs' < p
      BY <1>1, <1>3, <2>3, <3>1, <3>2
    <3> QED BY <1>8, <2>3, <3>2, <3>3, <3>4
  <2> QED BY <2>1, <2>2, <2>3 DEF h
<1>11. NumberInv'
  BY <1>4, <1>5, <1>9, <1>10 DEF NumberInv
<1>12. CounterInv'
  BY <1>5, <1>9, <1>10 DEF CounterInv, Fresh
<1>13. PollInv => PollInv'
  <2> SUFFICES ASSUME PollInv PROVE PollInv'
    OBVIOUS
  <2>1. NoStart(r) /\ h.t \notin Starts
    BY <1>5, <1>6 DEF PollInv
  <2>2. jobs' = jobs /\ run' = run
    BY <1>7, <2>1 DEF h
  <2> QED BY <1>9, <2>1, <2>2 DEF PollInv
<1>14. h.t \in Starts => h.v > 0
  BY <1>1, <1>6
<1> QED BY <1>2, <1>9, <1>10, <1>11, <1>12, <1>13, <1>14 DEF h

LEMMA NothingRead ==
    ASSUME IInv, toD' = toD, cst' = cst, p' = p, id' = id, jobs' = jobs, run' = run
    PROVE  NumberInv' /\ CounterInv' /\ (PollInv => PollInv')
BY DEF IInv, NumberInv, CounterInv, Fresh, PollInv

\* One line of answer to line h.
LEMMA AnswerOne ==
    ASSUME TypeOK, NEW h \in CLines, NEW t \in Replies, NEW v \in 0..MaxInvoke,
           toC' = toC \o <<[h EXCEPT !.t = t, !.v = v]>>
    PROVE  /\ toC' \in Seq(RLines)
           /\ NoGreeting(toC) => GreetingLast(toC') /\ (t # "GCDS" => NoGreeting(toC'))
           /\ toC = <<>> /\ h.cur = TRUE => toC' = <<Line(t, v)>>
<1> DEFINE a == [h EXCEPT !.t = t, !.v = v]
<1>1. a \in RLines /\ a = [t |-> t, v |-> v, cur |-> h.cur] /\ a.t = t
  BY AnswerTyped
<1>2. toC \in Seq(RLines)
  BY TypeParts DEF FlatType
<1>3. toC' = toC \o <<a>>
  OBVIOUS
<1> HIDE DEF a
<1>4. toC' \in Seq(RLines)
  BY <1>1, <1>2, <1>3, PutOne
<1>5. NoGreeting(toC) => GreetingLast(toC')
  BY <1>1, <1>2, <1>3, PutKeeps
<1>6. t # "HELLO"
  BY DEF Replies
<1>7. NoGreeting(toC) /\ t # "GCDS" => NoGreeting(toC')
  BY <1>1, <1>2, <1>3, <1>6, PutKeeps
<1>8. toC = <<>> /\ h.cur = TRUE => toC' = <<Line(t, v)>>
  <2> SUFFICES ASSUME toC = <<>>, h.cur = TRUE PROVE toC' = <<Line(t, v)>>
    OBVIOUS
  <2>1. a = Line(t, v)
    BY <1>1 DEF Line
  <2>2. <<>> \o <<a>> = <<a>>
    OBVIOUS
  <2> QED BY <1>3, <2>1, <2>2
<1> QED BY <1>4, <1>5, <1>7, <1>8

\* Output and exit code.
LEMMA AnswerTwo ==
    ASSUME TypeOK, NEW x \in RLines, NEW y \in RLines, x.t = "O", y.t = "X",
           toC' = toC \o <<x, y>>
    PROVE  /\ toC' \in Seq(RLines) /\ (NoGreeting(toC) => NoGreeting(toC'))
           /\ toC = <<>> => toC' = <<x, y>>
<1>1. toC \in Seq(RLines)
  BY TypeParts DEF FlatType
<1> DEFINE q == toC \o <<x>>
<1>2. toC \o <<x, y>> = q \o <<y>>
  BY <1>1, PutPair
<1>3. q \in Seq(RLines)
  BY <1>1, PutOne
<1>4. NoGreeting(toC) => NoGreeting(q)
  BY <1>1, PutKeeps
<1> HIDE DEF q
<1>5. q \o <<y>> \in Seq(RLines)
  BY <1>3, PutOne
<1>6. NoGreeting(q) => NoGreeting(q \o <<y>>)
  BY <1>3, PutKeeps
<1>7. <<>> \o <<x, y>> = <<x, y>>
  OBVIOUS
<1> QED BY <1>2, <1>4, <1>5, <1>6, <1>7

-----------------------------------------------------------------------------
(* After the greeting, the daemon's next step is the one gcds waits for.    *)

Locked == {"auth", "stream", "submit", "stat", "fetch"}

LEMMA Lockstep ==
    ASSUME SyncInv, ~skew, cst \in Locked
    PROVE  /\ dst = "idle" => toD = <<>>
           /\ dst = "auth" /\ toD # <<>> =>
                 cst = "auth" /\ toC = <<>> /\ toD = <<Line("AUTH", 0)>>
           /\ dst = "sess" /\ toD # <<>> =>
                 /\ toC = <<>>
                 /\ \/ cst = "stream" /\ toD = <<Line("RUN", p)>>
                    \/ cst = "submit" /\ toD = <<Line("RUNA", p)>>
                    \/ cst = "stat" /\ toD = <<Line("STAT", 0)>>
                    \/ cst = "fetch" /\ toD = <<Line("RESULT", id)>> /\ res.id = id
           /\ dst = "run" => cst = "stream" /\ toC = <<>> /\ toD = <<>> /\ run = p
           /\ dst = "job" =>
                 /\ cst = "submit" /\ toC = <<Line("OK id", jobs)>> /\ toD = <<>>
                 /\ run = p /\ jobs > 0
<1>1. CASE cst = "auth"
  BY <1>1 DEF SyncInv, AuthInv, Asked, Answered
<1>2. CASE cst = "stream"
  BY <1>2 DEF SyncInv, StreamInv, Asked, Answered
<1>3. CASE cst = "submit"
  BY <1>3 DEF SyncInv, SubmitInv, Asked, Answered
<1>4. CASE cst = "stat"
  BY <1>4 DEF SyncInv, StatInv, Asked, Answered
<1>5. CASE cst = "fetch"
  BY <1>5 DEF SyncInv, FetchInv, Asked, Answered
<1> QED BY <1>1, <1>2, <1>3, <1>4, <1>5 DEF Locked

SameClient ==
    /\ cst' = cst /\ p' = p /\ op' = op /\ id' = id /\ want' = want
    /\ got' = got /\ skew' = skew /\ tmo' = tmo

LockInv ==
    /\ cst = "auth" => AuthInv
    /\ cst = "stream" => StreamInv
    /\ cst = "submit" => SubmitInv
    /\ cst = "stat" => StatInv
    /\ cst = "fetch" => FetchInv

\* What is left to show of a step of the daemon.
LEMMA DaemonSync ==
    ASSUME SyncInv, SameClient, PollInv => PollInv',
           ~skew /\ cst = "greet" /\ GreetInv => GreetInv',
           ~skew /\ cst \in Locked => LockInv'
    PROVE  SyncInv'
<1>1. ~skew' => (Polling' => PollInv')
  BY DEF SyncInv, SameClient, Polling
<1>2. ~skew' => (cst' = "greet" => GreetInv')
  BY DEF SyncInv, SameClient
<1>3. ~skew' /\ cst' \in Locked => LockInv'
  BY DEF SameClient
<1>4. LockInv' => /\ cst' = "auth" => AuthInv'
                  /\ cst' = "stream" => StreamInv'
                  /\ cst' = "submit" => SubmitInv'
                  /\ cst' = "stat" => StatInv'
                  /\ cst' = "fetch" => FetchInv'
  BY DEF LockInv
<1>5. ~skew' => /\ cst' = "auth" => AuthInv'
                /\ cst' = "stream" => StreamInv'
                /\ cst' = "submit" => SubmitInv'
                /\ cst' = "stat" => StatInv'
                /\ cst' = "fetch" => FetchInv'
  BY <1>3, <1>4 DEF Locked
<1>6. ~skew' => /\ cst' \in Waiting \cup {"sleep"} => want'
                /\ cst' = "done" => got' = p'
                /\ cst' # "status"
  BY DEF SyncInv, SameClient
<1> QED BY <1>1, <1>2, <1>5, <1>6 DEF SyncInv

\* A line without a greeting was read, or none, and no greeting given.
LEMMA DaemonGreet ==
    ASSUME TypeOK, GreetInv, dst = "auth" => toD # <<>>,
           toD' = toD \/ (toD # <<>> /\ toD' = Tail(toD)),
           NoGreeting(toC) => NoGreeting(toC')
    PROVE  GreetInv'
<1>1. toD \in Seq(CLines)
  BY TypeParts DEF FlatType
<1>2. HelloLast(toD) /\ NoGreeting(toC')
  BY DEF GreetInv
<1>3. HelloLast(toD')
  BY <1>1, <1>2, RestKeeps
<1> QED BY <1>2, <1>3 DEF GreetInv

LEMMA DaemonTypes ==
    ASSUME TypeOK, SameClient, live' = live, toD' \in Seq(CLines), toC' \in Seq(RLines),
           dst' \in {"idle", "auth", "sess", "run", "job"},
           run' \in 0..MaxInvoke, jobs' \in 0..MaxInvoke,
           res'.id \in 0..MaxInvoke, res'.p \in 0..MaxInvoke,
           dst' \in {"run", "job"} => run' > 0 /\ res'.id = 0
    PROVE  TypeOK'
<1>1. FlatType /\ Flags
  BY TypeParts
<1>2. FlatType'
  BY <1>1 DEF FlatType, SameClient
<1>3. Flags'
  BY <1>1, Zenon DEF Flags, SameClient
<1> QED BY <1>2, <1>3, TypeParts, PTL

-----------------------------------------------------------------------------
(* gcdsd.                                                                   *)

LEMMA TypeFacts ==
    ASSUME IInv
    PROVE  /\ toD \in Seq(CLines) /\ toC \in Seq(RLines)
           /\ dst \in {"idle", "auth", "sess", "run", "job"} /\ cst \in Places
           /\ run \in 0..MaxInvoke /\ p \in 0..MaxInvoke /\ got \in 0..MaxInvoke
           /\ jobs \in 0..MaxInvoke /\ res.id \in 0..MaxInvoke /\ res.p \in 0..MaxInvoke
           /\ op \in Starts /\ id \in -1 .. MaxInvoke /\ tmo \in 0..MaxTmo
           /\ (dst \in {"run", "job"} => run > 0 /\ res.id = 0)
           /\ MaxInvoke \in Nat /\ MaxTmo \in Nat /\ 0 \in 0..MaxInvoke
           /\ TypeOK /\ NumberInv /\ CounterInv /\ ResultInv /\ SyncInv
<1>1. FlatType
  BY TypeParts DEF IInv
<1>2. MaxInvoke \in Nat /\ MaxTmo \in Nat /\ 0 \in 0..MaxInvoke
  BY Bounds
<1> QED BY <1>1, <1>2 DEF FlatType, IInv

LEMMA ReplyNames == {"GCDS", "OK", "OK id", "OK result", "OK idle", "ERR", "O", "X"} \subseteq Replies
BY DEF Replies

LEMMA ResultKept ==
    ASSUME IInv, cst' = cst, id' = id, res' = res, jobs' = jobs, run' = run,
           dst' \notin {"run", "job"}
    PROVE  ResultInv'
BY DEF IInv, ResultInv

LEMMA SameClientDef == UNCHANGED clientVars => SameClient
BY DEF clientVars, SameClient

LEMMA AttentionStep ==
    ASSUME IInv, Attention, UNCHANGED clientVars PROVE IInv'
<1>1. SameClient /\ cst' = cst /\ p' = p /\ id' = id
  BY SameClientDef DEF SameClient
<1>2. /\ dst = "idle" /\ toD # <<>> /\ toD' = Tail(toD)
      /\ live' = live /\ run' = run /\ jobs' = jobs /\ res' = res
      /\ \/ Head(toD).t = "HELLO" /\ dst' = "auth" /\ toC' = toC \o <<[Head(toD) EXCEPT !.t = "GCDS", !.v = 0]>>
         \/ Head(toD).t # "HELLO" /\ toC' = toC /\ dst' = dst
  BY DEF Attention, Answer, Reply
<1>3. /\ Head(toD) \in CLines /\ toD' \in Seq(CLines) /\ NumberInv' /\ CounterInv'
      /\ (PollInv => PollInv')
  BY <1>1, <1>2, Consumed
<1>4. /\ toC' \in Seq(RLines)
      /\ Head(toD).t = "HELLO" /\ NoGreeting(toC) => GreetingLast(toC')
  <2>1. CASE Head(toD).t = "HELLO"
    <3>1. toC' = toC \o <<[Head(toD) EXCEPT !.t = "GCDS", !.v = 0]>>
      BY <1>2, <2>1
    <3>2. TypeOK /\ "GCDS" \in Replies /\ 0 \in 0..MaxInvoke
      BY TypeFacts, ReplyNames
    <3> QED BY <1>3, <3>1, <3>2, AnswerOne
  <2>2. CASE Head(toD).t # "HELLO"
    BY <1>2, <2>2, TypeFacts
  <2> QED BY <2>1, <2>2
<1>5. TypeOK'
  BY <1>1, <1>2, <1>3, <1>4, TypeFacts, DaemonTypes
<1>6. ResultInv'
  BY <1>1, <1>2, ResultKept
<1>7. ~skew /\ cst = "greet" /\ GreetInv => GreetInv'
  <2> SUFFICES ASSUME GreetInv PROVE GreetInv'
    OBVIOUS
  <2>1. CASE Head(toD).t = "HELLO"
    <3>1. HelloLast(toD) /\ NoGreeting(toC)
      BY <1>2 DEF GreetInv
    <3>2. toD' = <<>>
      BY <1>2, <2>1, <3>1, TypeFacts, FirstOf
    <3>3. GreetingLast(toC') /\ HelloLast(toD')
      BY <1>4, <2>1, <3>1, <3>2, EmptyQueue
    <3> QED BY <1>2, <2>1, <3>2, <3>3 DEF GreetInv
  <2>2. CASE Head(toD).t # "HELLO"
    <3>1. NoGreeting(toC) => NoGreeting(toC')
      BY <1>2, <2>2
    <3> QED BY <1>2, <3>1, TypeFacts, DaemonGreet
  <2> QED BY <2>1, <2>2
<1>8. ~skew /\ cst \in Locked => FALSE
  BY <1>2, TypeFacts, Lockstep
<1>9. SyncInv'
  BY <1>1, <1>3, <1>7, <1>8, TypeFacts, DaemonSync
<1> QED BY <1>3, <1>5, <1>6, <1>9 DEF IInv

LEMMA handle_authStep ==
    ASSUME IInv, handle_auth, UNCHANGED clientVars PROVE IInv'
<1>1. SameClient /\ cst' = cst /\ p' = p /\ id' = id
  BY SameClientDef DEF SameClient
<1>2. PICK t \in {"OK", "ERR"} :
      /\ dst = "auth" /\ toD # <<>> /\ toD' = Tail(toD)
      /\ live' = live /\ run' = run /\ jobs' = jobs /\ res' = res
      /\ toC' = toC \o <<[Head(toD) EXCEPT !.t = t, !.v = 0]>>
      /\ dst' \in {"idle", "sess"}
      /\ Head(toD).t = "AUTH" => t = "OK" /\ dst' = "sess"
  BY DEF handle_auth, Answer, Reply
<1>3. /\ Head(toD) \in CLines /\ toD' \in Seq(CLines) /\ NumberInv' /\ CounterInv'
      /\ (PollInv => PollInv')
  BY <1>1, <1>2, Consumed
<1>4. /\ toC' \in Seq(RLines)
      /\ NoGreeting(toC) => NoGreeting(toC')
      /\ toC = <<>> /\ Head(toD).cur = TRUE => toC' = <<Line(t, 0)>>
  <2>1. TypeOK /\ t \in Replies /\ t # "GCDS" /\ 0 \in 0..MaxInvoke
    BY TypeFacts, ReplyNames
  <2> QED BY <1>2, <1>3, <2>1, AnswerOne
<1>5. TypeOK'
  BY <1>1, <1>2, <1>3, <1>4, TypeFacts, DaemonTypes
<1>6. ResultInv'
  BY <1>1, <1>2, ResultKept
<1>7. ~skew /\ cst = "greet" /\ GreetInv => GreetInv'
  BY <1>2, <1>4, TypeFacts, DaemonGreet
<1>8. ~skew /\ cst \in Locked => LockInv'
  <2> SUFFICES ASSUME ~skew, cst \in Locked PROVE LockInv'
    OBVIOUS
  <2>1. cst = "auth" /\ toC = <<>> /\ toD = <<Line("AUTH", 0)>>
    BY <1>2, TypeFacts, Lockstep
  <2>2. Head(toD) = Line("AUTH", 0) /\ toD' = <<>>
    BY <1>2, <2>1, TakenLast
  <2>3. t = "OK" /\ dst' = "sess" /\ toC' = <<Line("OK", 0)>>
    <3>1. Head(toD).t = "AUTH" /\ Head(toD).cur = TRUE
      BY <2>2 DEF Line
    <3> QED BY <1>2, <1>4, <2>1, <3>1
  <2>4. AuthInv'
    BY <2>2, <2>3 DEF AuthInv, Answered, Line
  <2> QED BY <1>1, <2>1, <2>4 DEF LockInv
<1>9. SyncInv'
  BY <1>1, <1>3, <1>7, <1>8, TypeFacts, DaemonSync
<1> QED BY <1>3, <1>5, <1>6, <1>9 DEF IInv

LEMMA RunLostStep ==
    ASSUME IInv, RunLost, UNCHANGED clientVars PROVE IInv'
<1>1. SameClient /\ cst' = cst /\ p' = p /\ id' = id
  BY SameClientDef DEF SameClient
<1>2. /\ dst = "run" /\ dst' = "idle" /\ toD # <<>> /\ toD' = toD /\ toC' = toC
      /\ live' = live /\ run' = run /\ jobs' = jobs /\ res' = res
  BY DEF RunLost
<1>3. NumberInv' /\ CounterInv' /\ (PollInv => PollInv')
  BY <1>1, <1>2, NothingRead
<1>4. TypeOK'
  BY <1>1, <1>2, TypeFacts, DaemonTypes
<1>5. ResultInv'
  BY <1>1, <1>2, ResultKept
<1>6. ~skew /\ cst = "greet" /\ GreetInv => GreetInv'
  BY <1>2, TypeFacts, DaemonGreet
<1>7. ~skew /\ cst \in Locked => FALSE
  BY <1>2, TypeFacts, Lockstep
<1>8. SyncInv'
  BY <1>1, <1>3, <1>6, <1>7, TypeFacts, DaemonSync
<1> QED BY <1>3, <1>4, <1>5, <1>8 DEF IInv

LEMMA JobExitStep ==
    ASSUME IInv, JobExit, UNCHANGED clientVars PROVE IInv'
<1>1. SameClient /\ cst' = cst /\ p' = p /\ id' = id
  BY SameClientDef DEF SameClient
<1>2. /\ dst = "job" /\ dst' = "idle" /\ toD' = toD /\ toC' = toC
      /\ live' = live /\ run' = run /\ jobs' = jobs
      /\ (res'.id = 0 /\ res'.p = 0) \/ (res'.id = jobs /\ res'.p = run)
  BY DEF JobExit, NoResult
<1>3. NumberInv' /\ CounterInv' /\ (PollInv => PollInv')
  BY <1>1, <1>2, NothingRead
<1>4. TypeOK'
  <2>1. res'.id \in 0..MaxInvoke /\ res'.p \in 0..MaxInvoke
    BY <1>2, TypeFacts
  <2> QED BY <1>1, <1>2, <2>1, TypeFacts, DaemonTypes
<1>5. ResultInv'
  BY <1>1, <1>2, TypeFacts DEF ResultInv
<1>6. ~skew /\ cst = "greet" /\ GreetInv => GreetInv'
  BY <1>2, TypeFacts, DaemonGreet
<1>7. ~skew /\ cst \in Locked => LockInv'
  <2> SUFFICES ASSUME ~skew, cst \in Locked PROVE LockInv'
    OBVIOUS
  <2>1. /\ cst = "submit" /\ toC = <<Line("OK id", jobs)>> /\ toD = <<>>
        /\ run = p /\ jobs > 0
    BY <1>2, TypeFacts, Lockstep
  <2>2. SubmitInv'
    BY <1>1, <1>2, <2>1 DEF SubmitInv, Answered, Line
  <2> QED BY <1>1, <2>1, <2>2 DEF LockInv
<1>8. SyncInv'
  BY <1>1, <1>3, <1>6, <1>7, TypeFacts, DaemonSync
<1> QED BY <1>3, <1>4, <1>5, <1>8 DEF IInv

LEMMA RunExitStep ==
    ASSUME IInv, RunExit, UNCHANGED clientVars PROVE IInv'
<1>1. SameClient /\ cst' = cst /\ p' = p /\ id' = id
  BY SameClientDef DEF SameClient
<1> DEFINE L(t) == [t |-> t, v |-> run, cur |-> (run = p)]
<1>2. /\ dst = "run" /\ dst' = "sess" /\ toD' = toD
      /\ live' = live /\ run' = run /\ jobs' = jobs /\ res' = res
      /\ toC' = toC \o <<L("O"), L("X")>> \/ toC' = toC \o <<L("ERR")>>
  <2> DEFINE l == [Line("O", run) EXCEPT !.cur = (run = p)]
  <2>1. /\ l = L("O")
        /\ [l EXCEPT !.t = "X"] = L("X")
        /\ [l EXCEPT !.t = "ERR"] = L("ERR")
    <3> DEFINE b == (run = p)
    <3>1. l = [t |-> "O", v |-> run, cur |-> b]
      BY DEF Line
    <3> HIDE DEF b
    <3>2. /\ [[t |-> "O", v |-> run, cur |-> b] EXCEPT !.t = "X"] = [t |-> "X", v |-> run, cur |-> b]
          /\ [[t |-> "O", v |-> run, cur |-> b] EXCEPT !.t = "ERR"] = [t |-> "ERR", v |-> run, cur |-> b]
      OBVIOUS
    <3> QED BY <3>1, <3>2, Zenon DEF b
  <2>2. toC' = toC \o <<l, [l EXCEPT !.t = "X"]>> \/ toC' = toC \o <<[l EXCEPT !.t = "ERR"]>>
    BY DEF RunExit, Reply
  <2>3. toC' = toC \o <<L("O"), L("X")>> \/ toC' = toC \o <<L("ERR")>>
    BY <2>1, <2>2, Zenon
  <2> QED BY <2>3 DEF RunExit
<1>3. NumberInv' /\ CounterInv' /\ (PollInv => PollInv')
  BY <1>1, <1>2, NothingRead
<1>4. /\ L("O") \in RLines /\ L("X") \in RLines /\ L("ERR") \in RLines
      /\ L("O").t = "O" /\ L("X").t = "X" /\ L("ERR").t = "ERR"
  <2>1. run \in 0..MaxInvoke /\ (run = p) \in BOOLEAN
    BY TypeFacts
  <2> QED BY <2>1 DEF RLines, Replies
<1>5. run = p => L("O") = Line("O", p) /\ L("X") = Line("X", p) /\ L("ERR") = Line("ERR", p)
  BY DEF Line
<1> HIDE DEF L
<1>6. /\ toC' \in Seq(RLines) /\ (NoGreeting(toC) => NoGreeting(toC'))
      /\ toC = <<>> => toC' \in {<<L("O"), L("X")>>, <<L("ERR")>>}
  <2>1. CASE toC' = toC \o <<L("O"), L("X")>>
    BY <1>4, <2>1, TypeFacts, AnswerTwo
  <2>2. CASE toC' = toC \o <<L("ERR")>>
    <3>1. toC' \in Seq(RLines) /\ (NoGreeting(toC) => NoGreeting(toC'))
      BY <1>4, <2>2, TypeFacts, PutOne, PutKeeps
    <3>2. <<>> \o <<L("ERR")>> = <<L("ERR")>>
      OBVIOUS
    <3> QED BY <2>2, <3>1, <3>2
  <2> QED BY <1>2, <2>1, <2>2
<1>7. TypeOK'
  BY <1>1, <1>2, <1>6, TypeFacts, DaemonTypes
<1>8. ResultInv'
  BY <1>1, <1>2, ResultKept
<1>9. ~skew /\ cst = "greet" /\ GreetInv => GreetInv'
  BY <1>2, <1>6, TypeFacts, DaemonGreet
<1>10. ~skew /\ cst \in Locked => LockInv'
  <2> SUFFICES ASSUME ~skew, cst \in Locked PROVE LockInv'
    OBVIOUS
  <2>1. cst = "stream" /\ toC = <<>> /\ toD = <<>> /\ run = p
    BY <1>2, TypeFacts, Lockstep
  <2>2. toC' \in {<<Line("O", p), Line("X", p)>>, <<Line("ERR", p)>>}
    BY <1>5, <1>6, <2>1
  <2>3. StreamInv'
    BY <1>1, <1>2, <2>1, <2>2 DEF StreamInv, Answered, Line
  <2> QED BY <1>1, <2>1, <2>3 DEF LockInv
<1>11. SyncInv'
  BY <1>1, <1>3, <1>9, <1>10, TypeFacts, DaemonSync
<1> QED BY <1>3, <1>7, <1>8, <1>11 DEF IInv

\* What a session may find in the line when gcds is past its greeting.
LEMMA SessionLock ==
    ASSUME IInv, ~skew, cst \in Locked, dst = "sess", toD # <<>>
    PROVE  /\ toC = <<>> /\ Tail(toD) = <<>> /\ Head(toD).cur = TRUE
           /\ \/ cst = "stream" /\ Head(toD) = Line("RUN", p) /\ Head(toD).t = "RUN" /\ Head(toD).v = p
              \/ cst = "submit" /\ Head(toD) = Line("RUNA", p) /\ Head(toD).t = "RUNA" /\ Head(toD).v = p
              \/ cst = "stat" /\ Head(toD).t = "STAT" /\ PollInv
              \/ /\ cst = "fetch" /\ Head(toD) = Line("RESULT", id) /\ Head(toD).t = "RESULT"
                 /\ Head(toD).v = id /\ res.id = id /\ PollInv
<1>1. /\ toC = <<>>
      /\ \/ cst = "stream" /\ toD = <<Line("RUN", p)>>
         \/ cst = "submit" /\ toD = <<Line("RUNA", p)>>
         \/ cst = "stat" /\ toD = <<Line("STAT", 0)>>
         \/ cst = "fetch" /\ toD = <<Line("RESULT", id)>> /\ res.id = id
  BY TypeFacts, Lockstep
<1>2. cst \in {"stat", "fetch"} => PollInv
  BY DEF IInv, ResultInv, SyncInv, Polling
<1>3. \A l : toD = <<l>> => Head(toD) = l /\ Tail(toD) = <<>>
  BY TakenLast
<1>4. CASE cst = "stream" /\ toD = <<Line("RUN", p)>>
  BY <1>1, <1>3, <1>4 DEF Line
<1>5. CASE cst = "submit" /\ toD = <<Line("RUNA", p)>>
  BY <1>1, <1>3, <1>5 DEF Line
<1>6. CASE cst = "stat" /\ toD = <<Line("STAT", 0)>>
  BY <1>1, <1>2, <1>3, <1>6 DEF Line
<1>7. CASE cst = "fetch" /\ toD = <<Line("RESULT", id)>> /\ res.id = id
  BY <1>1, <1>2, <1>3, <1>7 DEF Line
<1> QED BY <1>1, <1>4, <1>5, <1>6, <1>7

\* A command that is answered at once.
LEMMA SessionAnswer ==
    ASSUME IInv, UNCHANGED clientVars, dst = "sess", toD # <<>>, toD' = Tail(toD),
           live' = live, run' = run, jobs' = jobs, res' = res, dst' \in {"idle", "sess"},
           toC' \in Seq(RLines), NoGreeting(toC) => NoGreeting(toC'),
           ~skew /\ cst \in Locked => LockInv'
    PROVE  IInv'
<1>1. SameClient /\ cst' = cst /\ p' = p /\ id' = id
  BY SameClientDef DEF SameClient
<1>2. toD' \in Seq(CLines) /\ NumberInv' /\ CounterInv' /\ (PollInv => PollInv')
  BY <1>1, Consumed
<1>3. TypeOK'
  BY <1>1, <1>2, TypeFacts, DaemonTypes
<1>4. ResultInv'
  BY <1>1, ResultKept
<1>5. ~skew /\ cst = "greet" /\ GreetInv => GreetInv'
  BY TypeFacts, DaemonGreet
<1>6. SyncInv'
  BY <1>1, <1>2, <1>5, TypeFacts, DaemonSync
<1> QED BY <1>2, <1>3, <1>4, <1>6 DEF IInv

\* RUN and RUNA, which take the daemon from the line.
LEMMA SessionStart ==
    ASSUME IInv, UNCHANGED clientVars, dst = "sess", toD # <<>>, toD' = Tail(toD),
           live' = live, run' = Head(toD).v, res' = NoResult,
           \/ Head(toD).t = "RUN" /\ dst' = "run" /\ jobs' = jobs /\ toC' = toC
           \/ /\ Head(toD).t = "RUNA" /\ dst' = "job" /\ jobs' = jobs + 1
              /\ toC' = toC \o <<[Head(toD) EXCEPT !.t = "OK id", !.v = jobs + 1]>>
    PROVE  IInv'
<1>1. SameClient /\ cst' = cst /\ p' = p /\ id' = id
  BY SameClientDef DEF SameClient
<1>2. /\ Head(toD) \in CLines /\ toD' \in Seq(CLines) /\ jobs' \in 0..MaxInvoke
      /\ run' \in 0..MaxInvoke /\ (Head(toD).t \in Starts => Head(toD).v > 0)
      /\ NumberInv' /\ CounterInv' /\ (PollInv => PollInv')
  BY <1>1, Consumed
<1>3. run' > 0
  BY <1>2 DEF Starts
<1>4. /\ toC' \in Seq(RLines) /\ (NoGreeting(toC) => NoGreeting(toC'))
      /\ Head(toD).t = "RUNA" /\ toC = <<>> /\ Head(toD).cur = TRUE => toC' = <<Line("OK id", jobs')>>
  <2>1. CASE Head(toD).t = "RUN"
    BY <2>1, TypeFacts
  <2>2. CASE Head(toD).t = "RUNA"
    <3>1. jobs' = jobs + 1 /\ toC' = toC \o <<[Head(toD) EXCEPT !.t = "OK id", !.v = jobs']>>
      BY <2>2
    <3>2. TypeOK /\ "OK id" \in Replies /\ "OK id" # "GCDS"
      BY TypeFacts, ReplyNames
    <3> QED BY <1>2, <3>1, <3>2, AnswerOne
  <2> QED BY <2>1, <2>2
<1>5. res'.id = 0 /\ res'.p = 0
  BY DEF NoResult
<1>6. TypeOK'
  BY <1>1, <1>2, <1>3, <1>4, <1>5, TypeFacts, DaemonTypes
<1>7. ResultInv'
  BY <1>1, <1>5, TypeFacts DEF ResultInv
<1>8. ~skew /\ cst = "greet" /\ GreetInv => GreetInv'
  BY <1>4, TypeFacts, DaemonGreet
<1>9. ~skew /\ cst \in Locked => LockInv'
  <2> SUFFICES ASSUME ~skew, cst \in Locked PROVE LockInv'
    OBVIOUS
  <2>1. /\ toC = <<>> /\ toD' = <<>> /\ Head(toD).cur = TRUE /\ run' = p
        /\ \/ cst = "stream" /\ Head(toD).t = "RUN"
           \/ cst = "submit" /\ Head(toD).t = "RUNA"
    BY SessionLock
  <2>2. CASE cst = "stream" /\ Head(toD).t = "RUN"
    <3>1. StreamInv'
      BY <1>1, <2>1, <2>2 DEF StreamInv
    <3> QED BY <1>1, <2>2, <3>1 DEF LockInv
  <2>3. CASE cst = "submit" /\ Head(toD).t = "RUNA"
    <3>1. jobs' > 0
      <4>1. jobs \in 0..MaxInvoke /\ jobs' = jobs + 1
        BY <2>3, TypeFacts
      <4> QED BY <4>1
    <3>2. toC' = <<Line("OK id", jobs')>> /\ dst' = "job"
      BY <1>4, <2>1, <2>3
    <3>3. SubmitInv'
      BY <1>1, <2>1, <3>1, <3>2 DEF SubmitInv, Answered, Line
    <3> QED BY <1>1, <2>3, <3>3 DEF LockInv
  <2> QED BY <2>1, <2>2, <2>3
<1>10. SyncInv'
  BY <1>1, <1>2, <1>8, <1>9, TypeFacts, DaemonSync
<1> QED BY <1>2, <1>6, <1>7, <1>10 DEF IInv

LEMMA StatAnswer ==
    ASSUME IInv, UNCHANGED clientVars, dst = "sess", toD # <<>>, toD' = Tail(toD),
           live' = live, run' = run, jobs' = jobs, res' = res, dst' = dst,
           Head(toD).t = "STAT",
           \/ res.id # 0 /\ toC' = toC \o <<[Head(toD) EXCEPT !.t = "OK result", !.v = res.id]>>
           \/ res.id = 0 /\ toC' = toC \o <<[Head(toD) EXCEPT !.t = "OK idle", !.v = 0]>>
    PROVE  IInv'
<1>1. SameClient /\ cst' = cst /\ p' = p /\ id' = id
  BY SameClientDef DEF SameClient
<1>2. Head(toD) \in CLines
  BY <1>1, Consumed
<1>3. PICK t \in {"OK result", "OK idle"}, v \in 0..MaxInvoke :
         /\ toC' = toC \o <<[Head(toD) EXCEPT !.t = t, !.v = v]>>
         /\ \/ t = "OK result" /\ v = res.id /\ res.id # 0
            \/ t = "OK idle" /\ v = 0
  <2>1. res.id \in 0..MaxInvoke /\ 0 \in 0..MaxInvoke
    BY TypeFacts
  <2> QED BY <2>1, Zenon
<1>4. t \in Replies /\ t # "GCDS"
  BY DEF Replies
<1>5. /\ toC' \in Seq(RLines) /\ (NoGreeting(toC) => NoGreeting(toC'))
      /\ toC = <<>> /\ Head(toD).cur = TRUE => toC' = <<Line(t, v)>>
  BY <1>2, <1>3, <1>4, TypeFacts, AnswerOne
<1>6. ~skew /\ cst \in Locked => LockInv'
  <2> SUFFICES ASSUME ~skew, cst \in Locked PROVE LockInv'
    OBVIOUS
  <2>1. toC = <<>> /\ Tail(toD) = <<>> /\ Head(toD).cur = TRUE /\ cst = "stat" /\ PollInv
    BY SessionLock
  <2>2. res.id # 0 => res.id = id
    BY <2>1, TypeFacts DEF ResultInv, PollInv
  <2>3. StatInv'
    <3>1. CASE t = "OK result" /\ v = res.id /\ res.id # 0
      <4>1. toC' = <<Line("OK result", id)>> /\ res'.id = id
        BY <1>5, <2>1, <2>2, <3>1
      <4> QED BY <1>1, <2>1, <4>1 DEF StatInv, Answered, Line
    <3>2. CASE t = "OK idle" /\ v = 0
      <4>1. toC' = <<Line("OK idle", 0)>>
        BY <1>5, <2>1, <3>2
      <4> QED BY <1>1, <2>1, <4>1 DEF StatInv, Answered, Line
    <3> QED BY <1>3, <3>1, <3>2
  <2> QED BY <1>1, <2>1, <2>3 DEF LockInv
<1> QED BY <1>5, <1>6, SessionAnswer

LEMMA OutputTyped ==
    ASSUME NEW l \in CLines, l.v \in 0..MaxInvoke
    PROVE  /\ [l EXCEPT !.t = "O"] \in RLines
           /\ [l EXCEPT !.t = "O"].t = "O"
           /\ [l EXCEPT !.t = "O"] = [t |-> "O", v |-> l.v, cur |-> l.cur]
<1> DEFINE a == [l EXCEPT !.t = "O"]
           b == [t |-> "O", v |-> l.v, cur |-> l.cur]
<1>1. l.cur \in BOOLEAN
  BY CLine
<1>2. a \in [t : {"O"}, v : 0..MaxInvoke, cur : BOOLEAN] /\ a.t = "O" /\ a.v = l.v /\ a.cur = l.cur
  BY DEF CLines
<1>3. b \in [t : {"O"}, v : 0..MaxInvoke, cur : BOOLEAN] /\ b.t = "O" /\ b.v = l.v /\ b.cur = l.cur
  BY <1>1
<1>4. b \in RLines
  BY <1>1 DEF RLines, Replies
<1> HIDE DEF a, b
<1>5. a = b
  BY <1>2, <1>3
<1> QED BY <1>2, <1>4, <1>5 DEF a, b

LEMMA ExitTyped ==
    \A l \in CLines, v \in 0..MaxInvoke :
        /\ [l EXCEPT !.t = "X", !.v = v] \in RLines
        /\ [l EXCEPT !.t = "X", !.v = v].t = "X"
        /\ [l EXCEPT !.t = "X", !.v = v] = [t |-> "X", v |-> v, cur |-> l.cur]
<1> TAKE l \in CLines, v \in 0..MaxInvoke
<1>1. "X" \in Replies
  BY ReplyNames
<1> QED BY <1>1, AnswerTyped

LEMMA ResultAnswer ==
    ASSUME IInv, UNCHANGED clientVars, dst = "sess", toD # <<>>, toD' = Tail(toD),
           live' = live, run' = run, jobs' = jobs, res' = res, dst' = dst,
           Head(toD).t = "RESULT", res.id # 0, res.id = Head(toD).v,
           toC' = toC \o <<[Head(toD) EXCEPT !.t = "O"], [Head(toD) EXCEPT !.t = "X", !.v = res.p]>>
    PROVE  IInv'
<1>1. SameClient /\ cst' = cst /\ p' = p /\ id' = id
  BY SameClientDef DEF SameClient
<1>2. Head(toD) \in CLines
  BY <1>1, Consumed
<1> DEFINE h == Head(toD)
           x == [h EXCEPT !.t = "O"]
           y == [h EXCEPT !.t = "X", !.v = res.p]
<1>3. "O" \in Replies /\ "X" \in Replies /\ h.v \in 0..MaxInvoke /\ res.p \in 0..MaxInvoke
  BY TypeFacts, ReplyNames
<1>5. x \in RLines /\ x.t = "O" /\ x = [t |-> "O", v |-> h.v, cur |-> h.cur]
  BY <1>2, <1>3, OutputTyped
<1>6. y \in RLines /\ y.t = "X" /\ y = [t |-> "X", v |-> res.p, cur |-> h.cur]
  BY <1>2, <1>3, ExitTyped, Zenon
<1>7. toC' = toC \o <<x, y>>
  OBVIOUS
<1> HIDE DEF x, y
<1>8. /\ toC' \in Seq(RLines) /\ (NoGreeting(toC) => NoGreeting(toC'))
      /\ toC = <<>> => toC' = <<x, y>>
  BY <1>5, <1>6, <1>7, TypeFacts, AnswerTwo
<1>9. ~skew /\ cst \in Locked => LockInv'
  <2> SUFFICES ASSUME ~skew, cst \in Locked PROVE LockInv'
    OBVIOUS
  <2>1. /\ toC = <<>> /\ Tail(toD) = <<>> /\ h.cur = TRUE /\ cst = "fetch" /\ h.v = id
        /\ PollInv
    BY SessionLock
  <2>2. res.p = p
    BY <2>1, TypeFacts DEF ResultInv, PollInv
  <2>3. x = Line("O", id) /\ y = Line("X", p)
    BY <1>5, <1>6, <2>1, <2>2 DEF Line
  <2>4. toC' = <<Line("O", id), Line("X", p)>>
    BY <1>8, <2>1, <2>3
  <2>5. FetchInv'
    BY <1>1, <2>1, <2>4 DEF FetchInv, Answered, Line
  <2> QED BY <1>1, <2>1, <2>5 DEF LockInv
<1> QED BY <1>8, <1>9, SessionAnswer

\* An answer that gcds never waits for after its greeting.
LEMMA OtherAnswer ==
    ASSUME IInv, UNCHANGED clientVars, dst = "sess", toD # <<>>, toD' = Tail(toD),
           live' = live, run' = run, jobs' = jobs, res' = res, dst' \in {"idle", "sess"},
           Head(toD).t \notin {"STAT", "RUN", "RUNA"},
           Head(toD).t = "RESULT" => res.id = 0 \/ res.id # Head(toD).v,
           NEW t \in {"OK", "ERR"}, toC' = toC \o <<[Head(toD) EXCEPT !.t = t, !.v = 0]>>
    PROVE  IInv'
<1>1. SameClient /\ cst' = cst /\ p' = p /\ id' = id
  BY SameClientDef DEF SameClient
<1>2. Head(toD) \in CLines
  BY <1>1, Consumed
<1>3. TypeOK /\ t \in Replies /\ t # "GCDS" /\ 0 \in 0..MaxInvoke
  BY TypeFacts, ReplyNames
<1>4. toC' \in Seq(RLines) /\ (NoGreeting(toC) => NoGreeting(toC'))
  BY <1>2, <1>3, AnswerOne
<1>5. ~skew /\ cst \in Locked => FALSE
  <2> SUFFICES ASSUME ~skew, cst \in Locked PROVE FALSE
    OBVIOUS
  <2>1. Head(toD).t = "RESULT" /\ Head(toD).v = id /\ res.id = id /\ PollInv
    BY SessionLock
  <2> QED BY <2>1, TypeFacts DEF PollInv
<1> QED BY <1>4, <1>5, SessionAnswer

LEMMA SessionStep ==
    ASSUME IInv, Session, UNCHANGED clientVars PROVE IInv'
<1>1. dst = "sess" /\ toD # <<>> /\ toD' = Tail(toD) /\ live' = live /\ Command(Head(toD))
  BY DEF Session
<1>2. CASE Head(toD).t = "QUIT"
  <2>1. /\ toC' = toC \o <<[Head(toD) EXCEPT !.t = "OK", !.v = 0]>>
        /\ dst' = "idle" /\ run' = run /\ jobs' = jobs /\ res' = res
    BY <1>1, <1>2 DEF Command, Answer, Reply
  <2> QED BY <1>1, <1>2, <2>1, OtherAnswer
<1>3. CASE Head(toD).t = "STAT"
  <2>1. /\ \/ res.id # 0 /\ toC' = toC \o <<[Head(toD) EXCEPT !.t = "OK result", !.v = res.id]>>
           \/ res.id = 0 /\ toC' = toC \o <<[Head(toD) EXCEPT !.t = "OK idle", !.v = 0]>>
        /\ dst' = dst /\ run' = run /\ jobs' = jobs /\ res' = res
    BY <1>1, <1>3 DEF Command, Answer, Reply
  <2> QED BY <1>1, <1>3, <2>1, StatAnswer
<1>4. CASE Head(toD).t = "RESULT"
  <2>1. dst' = dst /\ run' = run /\ jobs' = jobs /\ res' = res
    BY <1>1, <1>4 DEF Command
  <2>2. CASE res.id # 0 /\ res.id = Head(toD).v
    <3>1. toC' = toC \o <<[Head(toD) EXCEPT !.t = "O"], [Head(toD) EXCEPT !.t = "X", !.v = res.p]>>
      BY <1>1, <1>4, <2>2 DEF Command, Reply
    <3> QED BY <1>1, <1>4, <2>1, <2>2, <3>1, ResultAnswer
  <2>3. CASE ~(res.id # 0 /\ res.id = Head(toD).v)
    <3>1. toC' = toC \o <<[Head(toD) EXCEPT !.t = "ERR", !.v = 0]>>
      BY <1>1, <1>4, <2>3 DEF Command, Answer, Reply
    <3> QED BY <1>1, <1>4, <2>1, <2>3, <3>1, OtherAnswer
  <2> QED BY <2>2, <2>3
<1>5. CASE Head(toD).t = "RUN"
  <2>1. dst' = "run" /\ run' = Head(toD).v /\ res' = NoResult /\ toC' = toC /\ jobs' = jobs
    BY <1>1, <1>5 DEF Command
  <2> QED BY <1>1, <1>5, <2>1, SessionStart
<1>6. CASE Head(toD).t = "RUNA"
  <2>1. /\ dst' = "job" /\ run' = Head(toD).v /\ res' = NoResult /\ jobs' = jobs + 1
        /\ toC' = toC \o <<[Head(toD) EXCEPT !.t = "OK id", !.v = jobs + 1]>>
    BY <1>1, <1>6 DEF Command, Answer, Reply
  <2> QED BY <1>1, <1>6, <2>1, SessionStart
<1>7. CASE Head(toD).t \notin {"QUIT", "STAT", "RESULT", "RUN", "RUNA"}
  <2>1. /\ toC' = toC \o <<[Head(toD) EXCEPT !.t = "ERR", !.v = 0]>>
        /\ dst' = dst /\ run' = run /\ jobs' = jobs /\ res' = res
    BY <1>1, <1>7 DEF Command, Answer, Reply
  <2> QED BY <1>1, <1>7, <2>1, OtherAnswer
<1> QED BY <1>2, <1>3, <1>4, <1>5, <1>6, <1>7

LEMMA DaemonStep == ASSUME IInv, Daemon PROVE IInv'
BY AttentionStep, handle_authStep, SessionStep, RunExitStep, RunLostStep, JobExitStep
   DEF Daemon

-----------------------------------------------------------------------------
(* gcds opens the line.                                                     *)

Quit == Line("QUIT", 0)
Hello == Line("HELLO", 0)

LEMMA QuitHello ==
    /\ Quit \in CLines /\ Quit.t = "QUIT" /\ Hello \in CLines /\ Hello.t = "HELLO"
    /\ Quit.t \notin Starts /\ Hello.t \notin Starts /\ Quit.t # "RUNA" /\ Hello.t # "RUNA"
    /\ Quit.t \notin {"HELLO", "GCDS"}
<1>1. 0 \in -1 .. MaxInvoke
  BY Bounds
<1>2. Quit \in CLines /\ Hello \in CLines
  BY <1>1 DEF Quit, Hello, Line, CLines, Commands
<1>3. Quit.t = "QUIT" /\ Hello.t = "HELLO"
  BY DEF Quit, Hello, Line
<1> QED BY <1>2, <1>3 DEF Starts

\* What of the two lines gets through, after lines q.
LEMMA OpenPut ==
    ASSUME NEW q \in Seq(CLines), NEW s \in {<<>>, <<Quit>>, <<Hello>>, <<Quit, Hello>>}, NEW n
    PROVE  /\ q \o s \in Seq(CLines)
           /\ Numbered(q, n) => Numbered(q \o s, n)
           /\ Above(q, n) => Above(q \o s, n)
           /\ Below(q, n) => Below(q \o s, n)
           /\ Ascending(q) => Ascending(q \o s)
           /\ NoStart(q) => NoStart(q \o s)
           /\ NoGreeting(q) => HelloLast(q \o s)
<1> DEFINE r == q \o <<Quit>>
<1>1. q \o <<Quit, Hello>> = r \o <<Hello>>
  BY QuitHello, PutPair
<1>2. /\ r \in Seq(CLines)
      /\ Numbered(q, n) => Numbered(r, n)
      /\ Above(q, n) => Above(r, n)
      /\ Below(q, n) => Below(r, n)
      /\ Ascending(q) => Ascending(r)
      /\ NoStart(q) => NoStart(r)
      /\ NoGreeting(q) => NoGreeting(r) /\ HelloLast(r)
  BY QuitHello, PutOne, PutKeeps
<1>3. ASSUME NEW u \in Seq(CLines)
      PROVE  /\ u \o <<Hello>> \in Seq(CLines)
             /\ Numbered(u, n) => Numbered(u \o <<Hello>>, n)
             /\ Above(u, n) => Above(u \o <<Hello>>, n)
             /\ Below(u, n) => Below(u \o <<Hello>>, n)
             /\ Ascending(u) => Ascending(u \o <<Hello>>)
             /\ NoStart(u) => NoStart(u \o <<Hello>>)
             /\ NoGreeting(u) => HelloLast(u \o <<Hello>>)
  BY QuitHello, PutOne, PutKeeps
<1>4. q \o <<>> = q /\ (NoGreeting(q) => HelloLast(q))
  BY PutNone DEF NoGreeting, HelloLast
<1> HIDE DEF r
<1>5. CASE s = <<>>
  BY <1>4, <1>5
<1>6. CASE s = <<Quit>>
  BY <1>2, <1>6 DEF r
<1>7. CASE s = <<Hello>>
  BY <1>3, <1>7
<1>8. CASE s = <<Quit, Hello>>
  BY <1>1, <1>2, <1>3, <1>8
<1> QED BY <1>5, <1>6, <1>7, <1>8

LEMMA NoGreetings == ASSUME NEW q, Greetings(q) = {} PROVE NoGreeting(q)
BY DEF Greetings, NoGreeting

LEMMA Opened ==
    ASSUME IInv, NEW before \in BOOLEAN, rc_open(before), NEW n
    PROVE  /\ toD' \in Seq(CLines) /\ toC' \in Seq(RLines) /\ cst' = "greet"
           /\ skew' \in BOOLEAN /\ (~skew' => ~before)
           /\ ~skew' => HelloLast(toD') /\ NoGreeting(toC')
           /\ Numbered(toD, n) => Numbered(toD', n)
           /\ Above(toD, n) => Above(toD', n)
           /\ Below(toD, n) => Below(toD', n)
           /\ Ascending(toD) => Ascending(toD')
           /\ NoStart(toD) => NoStart(toD')
<1>1. PICK q \in {toC, <<>>} :
         toC' = Old(q) /\ skew' = (before \/ Greetings(q) # {} \/ Greetings(toD) # {})
  BY DEF rc_open
<1>2. cst' = "greet"
  BY DEF rc_open
<1>3. PICK s \in {<<>>, <<Quit>>, <<Hello>>, <<Quit, Hello>>} : toD' = Old(toD) \o s
  <2>1. PICK s \in IF Busy THEN SubSeqs(<<Quit, Hello>>) ELSE {<<Quit, Hello>>} : toD' = Old(toD) \o s
    BY DEF rc_open, Send, Quit, Hello
  <2>2. s \in {<<>>, <<Quit>>, <<Hello>>, <<Quit, Hello>>}
    BY LeftOfTwo
  <2> QED BY <2>1, <2>2
<1>4. q \in Seq(RLines) /\ toD \in Seq(CLines)
  <2>1. toC \in Seq(RLines) /\ toD \in Seq(CLines)
    BY TypeFacts
  <2>2. <<>> \in Seq(RLines)
    OBVIOUS
  <2> QED BY <2>1, <2>2
<1>5. toC' \in Seq(RLines) /\ (NoGreeting(q) => NoGreeting(toC'))
  BY <1>1, <1>4, BothLines, OldLines, OldKeeps
<1> DEFINE r == Old(toD)
<1>6. /\ r \in Seq(CLines)
      /\ Numbered(toD, n) => Numbered(r, n)
      /\ Above(toD, n) => Above(r, n)
      /\ Below(toD, n) => Below(r, n)
      /\ Ascending(toD) => Ascending(r)
      /\ NoStart(toD) => NoStart(r)
      /\ NoGreeting(toD) => NoGreeting(r)
  BY <1>4, BothLines, OldLines, OldKeeps
<1>7. toD' = r \o s
  BY <1>3
<1> HIDE DEF r
<1>8. /\ toD' \in Seq(CLines)
      /\ Numbered(r, n) => Numbered(toD', n)
      /\ Above(r, n) => Above(toD', n)
      /\ Below(r, n) => Below(toD', n)
      /\ Ascending(r) => Ascending(toD')
      /\ NoStart(r) => NoStart(toD')
      /\ NoGreeting(r) => HelloLast(toD')
  BY <1>6, <1>7, OpenPut
<1>9. skew' \in BOOLEAN /\ (~skew' => ~before /\ Greetings(q) = {} /\ Greetings(toD) = {})
  BY <1>1, Zenon
<1>10. ~skew' => NoGreeting(q) /\ NoGreeting(toD)
  BY <1>9, NoGreetings
<1> QED BY <1>2, <1>5, <1>6, <1>8, <1>9, <1>10

SameDaemon == live' = live /\ dst' = dst /\ run' = run /\ jobs' = jobs /\ res' = res

LEMMA SameDaemonDef == UNCHANGED daemonVars => SameDaemon
BY DEF daemonVars, SameDaemon

LEMMA ClientTypes ==
    ASSUME TypeOK, SameDaemon, toD' \in Seq(CLines), toC' \in Seq(RLines), cst' \in Places,
           p' \in 0..MaxInvoke, got' \in 0..MaxInvoke, op' \in Starts, id' \in -1 .. MaxInvoke,
           tmo' \in 0..MaxTmo, want' \in BOOLEAN, skew' \in BOOLEAN
    PROVE  TypeOK'
<1>1. FlatType /\ Flags
  BY TypeParts
<1>2. FlatType'
  BY <1>1 DEF FlatType, SameDaemon
<1>3. Flags'
  BY <1>1, Zenon DEF Flags, SameDaemon
<1> QED BY <1>2, <1>3, TypeParts, PTL

LEMMA FlagFacts == ASSUME IInv PROVE want \in BOOLEAN /\ skew \in BOOLEAN
BY TypeParts, Zenon DEF IInv, Flags

LEMMA PlaceNames ==
    {"none", "done", "failed", "idle", "status", "killed", "greet", "auth", "submit", "stat",
     "stream", "fetch", "sleep"} \subseteq Places
BY DEF Places, Ended, Waiting

\* The attempt begins: no greeting but its own is outstanding.
LEMMA OpenSync ==
    ASSUME cst' = "greet", want', ~skew' => GreetInv', ~skew' /\ id' # -1 => PollInv'
    PROVE  SyncInv'
BY DEF SyncInv, Polling

LEMMA StartStep ==
    ASSUME IInv, Start, UNCHANGED daemonVars PROVE IInv'
<1>1. SameDaemon
  BY SameDaemonDef
<1>2. /\ p < MaxInvoke /\ p' = p + 1 /\ op' \in {"RUN", "RUNA"} /\ id' = -1 /\ want' = TRUE
      /\ got' = 0 /\ tmo' = tmo /\ rc_open(FALSE)
  BY DEF Start
<1>3. /\ p \in 0..MaxInvoke /\ jobs \in 0..MaxInvoke /\ MaxInvoke \in Nat
      /\ run \in 0..MaxInvoke /\ run <= p /\ jobs <= p /\ Numbered(toD, p) /\ Above(toD, jobs) /\ Ascending(toD)
  BY TypeFacts DEF NumberInv, CounterInv
<1>4. p + 1 \in 0..MaxInvoke /\ p + 1 > 0 /\ run <= p + 1 /\ jobs <= p + 1 /\ jobs < p + 1
  BY <1>2, <1>3
<1>5. Numbered(toD, p + 1) /\ Below(toD, p + 1)
  <2>1. \A i \in 1..Len(toD) : toD[i].t \in Starts => toD[i].v \in 1..(p + 1) /\ toD[i].v < p + 1
    BY <1>3 DEF Numbered
  <2> QED BY <2>1 DEF Numbered, Below, Starts
<1>6. /\ toD' \in Seq(CLines) /\ toC' \in Seq(RLines) /\ cst' = "greet" /\ skew' \in BOOLEAN
      /\ ~skew' => HelloLast(toD') /\ NoGreeting(toC')
      /\ Ascending(toD')
  BY <1>2, <1>3, Opened
<1>7. Numbered(toD', p + 1) /\ Below(toD', p + 1)
  BY <1>2, <1>5, Opened
<1>8. Above(toD', jobs)
  BY <1>2, <1>3, Opened
<1>9. TypeOK'
  <2>1. op' \in Starts /\ id' \in -1 .. MaxInvoke /\ got' \in 0..MaxInvoke
    BY <1>2, <1>3 DEF Starts
  <2>2. cst' \in Places
    BY <1>6, PlaceNames
  <2> QED BY <1>1, <1>2, <1>4, <1>6, <2>1, <2>2, TypeFacts, ClientTypes
<1>10. NumberInv'
  BY <1>1, <1>2, <1>4, <1>7 DEF NumberInv, SameDaemon
<1>11. CounterInv'
  BY <1>1, <1>2, <1>4, <1>6, <1>7, <1>8 DEF CounterInv, SameDaemon
<1>12. ResultInv'
  BY <1>1, <1>6, TypeFacts DEF ResultInv, SameDaemon
<1>13. ~skew' => GreetInv'
  BY <1>6 DEF GreetInv
<1>14. SyncInv'
  BY <1>2, <1>6, <1>13, OpenSync
<1> QED BY <1>9, <1>10, <1>11, <1>12, <1>14 DEF IInv

LEMMA PollStep ==
    ASSUME IInv, Poll, UNCHANGED daemonVars PROVE IInv'
<1>1. SameDaemon
  BY SameDaemonDef
<1>2. /\ cst = "sleep" /\ p' = p /\ op' = op /\ id' = id /\ want' = want /\ got' = got
      /\ tmo' = tmo /\ rc_open(skew)
  BY DEF Poll
<1>3. skew \in BOOLEAN /\ want \in BOOLEAN /\ id # -1
  BY <1>2, FlagFacts DEF IInv, ResultInv
<1>4. /\ toD' \in Seq(CLines) /\ toC' \in Seq(RLines) /\ cst' = "greet" /\ skew' \in BOOLEAN
      /\ ~skew' => ~skew /\ HelloLast(toD') /\ NoGreeting(toC')
      /\ (Ascending(toD) => Ascending(toD')) /\ (NoStart(toD) => NoStart(toD'))
      /\ (Numbered(toD, p) => Numbered(toD', p))
  BY <1>2, <1>3, Opened
<1>5. Above(toD, jobs) => Above(toD', jobs)
  BY <1>2, <1>3, Opened
<1>6. TypeOK'
  <2>1. cst' \in Places
    BY <1>4, PlaceNames
  <2> QED BY <1>1, <1>2, <1>3, <1>4, <2>1, TypeFacts, ClientTypes
<1>7. NumberInv'
  BY <1>1, <1>2, <1>4, TypeFacts DEF NumberInv, SameDaemon
<1>8. CounterInv'
  BY <1>1, <1>2, <1>3, <1>4, <1>5, TypeFacts DEF CounterInv, SameDaemon, Fresh
<1>9. ResultInv'
  BY <1>1, <1>4, TypeFacts DEF ResultInv, SameDaemon
<1>10. ~skew' => GreetInv'
  BY <1>4 DEF GreetInv
<1>11. ~skew' => PollInv' /\ want'
  BY <1>1, <1>2, <1>3, <1>4, TypeFacts DEF SyncInv, Polling, PollInv, SameDaemon
<1>12. SyncInv'
  BY <1>4, <1>10, <1>11, OpenSync DEF SyncInv
<1> QED BY <1>6, <1>7, <1>8, <1>9, <1>12 DEF IInv

-----------------------------------------------------------------------------
(* gcds reads a line.                                                       *)

\* What gcds sends after a line it has read, if anything.
LEMMA SendOne ==
    ASSUME NEW c, Send(toD, <<c>>), toD \in Seq(CLines)
    PROVE  toD' = toD \/ toD' = toD \o <<c>>
<1>1. PICK s \in IF Busy THEN SubSeqs(<<c>>) ELSE {<<c>>} : toD' = toD \o s
  BY DEF Send
<1>2. s \in {<<>>, <<c>>}
  BY LeftOfOne
<1>3. toD \o <<>> = toD
  BY PutNone
<1> QED BY <1>1, <1>2, <1>3

LEMMA SendExact ==
    ASSUME NEW c, Send(toD, <<c>>), dst \notin {"run", "job"}, toD = <<>>
    PROVE  toD' = <<c>>
<1>1. toD' = <<>> \o <<c>>
  BY DEF Send, Busy
<1>2. <<>> \o <<c>> = <<c>>
  OBVIOUS
<1> QED BY <1>1, <1>2

\* The queue to the daemon after a read: as it was, or with one more command,
\* which starts something only when the invocation has not submitted yet.
Request(c) ==
    /\ c \in CLines
    /\ c.t \in Starts => c.t = op /\ c.v = p /\ Fresh /\ cst' \notin {"greet", "auth"}

LEMMA ReadQueue ==
    ASSUME IInv, SameDaemon, p' = p, id' = id \/ cst' \notin {"greet", "auth"},
           cst' \in {"greet", "auth"} => cst \in {"greet", "auth"}, cst # "none",
           toD' = toD \/ \E c : Request(c) /\ toD' = toD \o <<c>>
    PROVE  toD' \in Seq(CLines) /\ NumberInv' /\ CounterInv'
<1>1. /\ toD \in Seq(CLines) /\ p > 0 /\ run <= p /\ Numbered(toD, p) /\ jobs <= p
      /\ Above(toD, jobs) /\ Ascending(toD) /\ (Fresh => jobs < p /\ Below(toD, p))
      /\ p \in Nat
  BY TypeFacts DEF NumberInv, CounterInv
<1>2. Fresh' => Fresh
  BY DEF Fresh
<1>3. CASE toD' = toD
  BY <1>1, <1>2, <1>3 DEF NumberInv, CounterInv, SameDaemon
<1>4. ASSUME NEW c, Request(c), toD' = toD \o <<c>>
      PROVE  toD' \in Seq(CLines) /\ NumberInv' /\ CounterInv'
  <2>1. /\ c \in CLines /\ (c.t \in Starts => c.v = p /\ Fresh /\ ~Fresh')
        /\ "RUNA" \in Starts
    BY <1>4 DEF Request, Fresh, Starts
  <2>2. c.t \in Starts => c.v \in 1..p
    BY <1>1, <2>1
  <2>3. toD' \in Seq(CLines) /\ Numbered(toD', p)
    BY <1>1, <1>4, <2>1, <2>2, PutOne, PutKeeps
  <2>4. Above(toD', jobs)
    BY <1>1, <1>4, <2>1, PutKeeps
  <2>5. Ascending(toD')
    <3>1. c.t = "RUNA" => Below(toD, c.v)
      BY <1>1, <2>1
    <3> QED BY <1>1, <1>4, <2>1, <3>1, PutKeeps
  <2>6. Fresh' => Below(toD', p)
    BY <1>1, <1>2, <1>4, <2>1, PutKeeps
  <2>7. NumberInv'
    BY <1>1, <2>3 DEF NumberInv, SameDaemon
  <2>8. CounterInv'
    BY <1>1, <1>2, <2>4, <2>5, <2>6 DEF CounterInv, SameDaemon
  <2> QED BY <2>3, <2>7, <2>8
<1> QED BY <1>3, <1>4

\* What a read leaves to be shown of each place.
ReadStepOf ==
    /\ toC # <<>> /\ toC' = Tail(toC) /\ SameDaemon
    /\ p' = p /\ op' = op /\ skew' = skew /\ tmo' = tmo

LEMMA ReadRest ==
    ASSUME IInv, ReadStepOf, id' = id \/ cst' \notin {"greet", "auth"},
           cst' \in {"greet", "auth"} => cst \in {"greet", "auth"}, cst # "none",
           toD' = toD \/ \E c : Request(c) /\ toD' = toD \o <<c>>,
           cst' \in Places, id' \in -1 .. MaxInvoke, got' \in 0..MaxInvoke, want' \in BOOLEAN,
           cst' \in {"sleep", "stat", "fetch"} => id' # -1,
           SyncInv'
    PROVE  IInv'
<1>1. /\ toC # <<>> /\ toC' = Tail(toC) /\ SameDaemon
      /\ p' = p /\ op' = op /\ skew' = skew /\ tmo' = tmo
  BY DEF ReadStepOf
<1>2. toD' \in Seq(CLines) /\ NumberInv' /\ CounterInv'
  BY <1>1, ReadQueue
<1>3. toC' \in Seq(RLines)
  BY <1>1, TypeFacts, Taken
<1>4. TypeOK'
  <2>1. skew' \in BOOLEAN
    BY <1>1, FlagFacts, Zenon
  <2> QED BY <1>1, <1>2, <1>3, <2>1, TypeFacts, ClientTypes
<1>5. ResultInv'
  BY <1>1, TypeFacts DEF ResultInv, SameDaemon
<1> QED BY <1>2, <1>4, <1>5 DEF IInv

\* Nothing is claimed of an invocation that has ended otherwise.
LEMMA EndSync ==
    ASSUME cst' \in {"failed", "idle", "killed"} PROVE SyncInv'
BY DEF SyncInv, Polling, Waiting

LEMMA ReadLine ==
    ASSUME IInv, toC # <<>>
    PROVE  Head(toC) \in RLines /\ Head(toC).v \in 0..MaxInvoke
BY TypeFacts, Taken, RLine

LEMMA RequestLine ==
    ASSUME NEW t \in Commands \ Starts, NEW v \in -1 .. MaxInvoke
    PROVE  Request(Line(t, v)) /\ Line(t, v).t \notin Starts
<1>1. Line(t, v).t = t
  BY DEF Line
<1>2. Line(t, v) \in CLines
  BY LineTyped
<1> QED BY <1>1, <1>2 DEF Request

LEMMA OneLine ==
    ASSUME NEW c PROVE NoStart(<<c>>) <=> c.t \notin Starts
<1>1. Len(<<c>>) = 1 /\ <<c>>[1] = c
  OBVIOUS
<1> QED BY <1>1 DEF NoStart

LEMMA ReadGreetingStep ==
    ASSUME IInv, ReadStepOf, cst = "greet", ReadGreeting(Head(toC)) PROVE IInv'
<1>1. /\ toC # <<>> /\ toC' = Tail(toC) /\ SameDaemon /\ p' = p /\ skew' = skew
  BY DEF ReadStepOf
<1>2. id' = id /\ want' = want /\ got' = got
  BY DEF ReadGreeting
<1>3. want' \in BOOLEAN
  BY <1>2, FlagFacts, Zenon
<1>4. id' \in -1 .. MaxInvoke /\ got' \in 0..MaxInvoke
  BY <1>2, TypeFacts
<1>5. CASE Head(toC).t = "GCDS"
  <2>1. Send(toD, <<Line("AUTH", 0)>>) /\ cst' = "auth"
    BY <1>5 DEF ReadGreeting
  <2>2. Request(Line("AUTH", 0)) /\ Line("AUTH", 0).t \notin Starts
    <3>1. "AUTH" \in Commands \ Starts /\ 0 \in -1 .. MaxInvoke
      BY Bounds DEF Commands, Starts
    <3> QED BY <3>1, RequestLine
  <2>3. toD' = toD \/ toD' = toD \o <<Line("AUTH", 0)>>
    BY <2>1, TypeFacts, SendOne
  <2>4. SyncInv'
    <3>1. ~skew' => AuthInv' /\ (Polling' => PollInv') /\ want'
      <4> SUFFICES ASSUME ~skew' PROVE AuthInv' /\ (Polling' => PollInv') /\ want'
        OBVIOUS
      <4>1. GreetInv /\ (Polling => PollInv) /\ want
        BY <1>1, TypeFacts DEF SyncInv, Waiting
      <4>2. ~NoGreeting(toC)
        BY <1>1, <1>5, TypeFacts, FirstOf
      <4>3. toD = <<>> /\ dst = "auth" /\ toC' = <<>>
        BY <1>1, <1>5, <4>1, <4>2, TypeFacts, FirstOf DEF GreetInv
      <4>4. toD' = <<Line("AUTH", 0)>>
        BY <2>1, <4>3, SendExact
      <4>5. AuthInv'
        BY <1>1, <4>3, <4>4 DEF AuthInv, Asked, Line, SameDaemon
      <4>6. NoStart(toD')
        BY <2>2, <4>4, OneLine
      <4>7. Polling' => PollInv'
        BY <1>1, <1>2, <4>1, <4>6 DEF Polling, PollInv, SameDaemon
      <4> QED BY <1>2, <4>1, <4>5, <4>7
    <3> QED BY <2>1, <3>1 DEF SyncInv
  <2>5. cst' \in Places
    BY <2>1, PlaceNames
  <2> QED BY <1>2, <1>3, <1>4, <2>1, <2>2, <2>3, <2>4, <2>5, ReadRest
<1>6. CASE Head(toC).t # "GCDS"
  <2>1. toD' = toD /\ cst' = cst
    BY <1>6 DEF ReadGreeting
  <2>2. SyncInv'
    <3>1. ~skew' => GreetInv' /\ (Polling' => PollInv') /\ want'
      <4> SUFFICES ASSUME ~skew' PROVE GreetInv' /\ (Polling' => PollInv') /\ want'
        OBVIOUS
      <4>1. GreetInv /\ (Polling => PollInv) /\ want
        BY <1>1, TypeFacts DEF SyncInv, Waiting
      <4>2. /\ NoGreeting(toC) => NoGreeting(toC')
            /\ GreetingLast(toC) => GreetingLast(toC')
        BY <1>1, TypeFacts, RestKeeps
      <4>3. GreetInv'
        BY <1>1, <2>1, <4>1, <4>2 DEF GreetInv, SameDaemon
      <4>4. Polling' => PollInv'
        BY <1>1, <1>2, <2>1, <4>1 DEF Polling, PollInv, SameDaemon
      <4> QED BY <1>2, <4>1, <4>3, <4>4
    <3> QED BY <2>1, <3>1 DEF SyncInv
  <2>3. cst' \in Places
    BY <2>1, PlaceNames
  <2> QED BY <1>2, <1>3, <1>4, <2>1, <2>2, <2>3, ReadRest
<1> QED BY <1>5, <1>6

LEMMA ReadAuthStep ==
    ASSUME IInv, ReadStepOf, cst = "auth", ReadAuth(Head(toC)) PROVE IInv'
<1>1. /\ toC # <<>> /\ toC' = Tail(toC) /\ SameDaemon /\ p' = p /\ op' = op /\ skew' = skew
  BY DEF ReadStepOf
<1>2. id' = id /\ want' = want /\ got' = got
  BY DEF ReadAuth
<1>3. want' \in BOOLEAN
  BY <1>2, FlagFacts, Zenon
<1>4. id' \in -1 .. MaxInvoke /\ got' \in 0..MaxInvoke
  BY <1>2, TypeFacts
<1>5. ~skew => /\ toD = <<>> /\ dst = "sess" /\ toC' = <<>> /\ Head(toC).t = "OK"
               /\ (Polling => PollInv) /\ want
  <2> SUFFICES ASSUME ~skew
               PROVE  /\ toD = <<>> /\ dst = "sess" /\ toC' = <<>> /\ Head(toC).t = "OK"
                      /\ (Polling => PollInv) /\ want
    OBVIOUS
  <2>1. AuthInv /\ (Polling => PollInv) /\ want
    BY TypeFacts DEF SyncInv, Waiting
  <2>2. toD = <<>> /\ dst = "sess" /\ toC = <<Line("OK", 0)>>
    BY <1>1, <2>1 DEF AuthInv, Asked, Answered
  <2>3. Head(toC) = Line("OK", 0) /\ toC' = <<>>
    BY <1>1, <2>2, TakenLast
  <2>4. Head(toC).t = "OK"
    BY <2>3 DEF Line
  <2> QED BY <2>1, <2>2, <2>3, <2>4
<1>6. CASE Head(toC).t # "OK"
  <2>1. cst' = "failed" /\ toD' = toD
    BY <1>6 DEF ReadAuth, Goto
  <2>2. cst' \in Places /\ SyncInv'
    BY <2>1, PlaceNames, EndSync
  <2> QED BY <1>2, <1>3, <1>4, <2>1, <2>2, ReadRest
<1>7. CASE Head(toC).t = "OK" /\ id # -1
  <2>1. Send(toD, <<Line("STAT", 0)>>) /\ cst' = "stat"
    BY <1>7 DEF ReadAuth
  <2>2. Request(Line("STAT", 0)) /\ Line("STAT", 0).t \notin Starts
    <3>1. "STAT" \in Commands \ Starts /\ 0 \in -1 .. MaxInvoke
      BY Bounds DEF Commands, Starts
    <3> QED BY <3>1, RequestLine
  <2>3. toD' = toD \/ toD' = toD \o <<Line("STAT", 0)>>
    BY <2>1, TypeFacts, SendOne
  <2>4. ~skew' => StatInv' /\ PollInv' /\ want'
    <3> SUFFICES ASSUME ~skew' PROVE StatInv' /\ PollInv' /\ want'
      OBVIOUS
    <3>1. toD' = <<Line("STAT", 0)>>
      BY <1>1, <1>5, <2>1, SendExact
    <3>2. StatInv'
      BY <1>1, <1>5, <3>1 DEF StatInv, Asked, Line, SameDaemon
    <3>3. NoStart(toD')
      BY <2>2, <3>1, OneLine
    <3>4. PollInv'
      BY <1>1, <1>2, <1>5, <1>7, <3>3 DEF Polling, PollInv, SameDaemon
    <3> QED BY <1>1, <1>2, <1>5, <3>2, <3>4
  <2>5. cst' \in Places
    BY <2>1, PlaceNames
  <2>6. SyncInv'
    BY <2>1, <2>4 DEF SyncInv
  <2> QED BY <1>2, <1>3, <1>4, <1>7, <2>1, <2>2, <2>3, <2>5, <2>6, ReadRest
<1>8. CASE Head(toC).t = "OK" /\ id = -1
  <2>1. /\ Send(toD, <<Line(op, p)>>)
        /\ cst' = (IF op = "RUN" THEN "stream" ELSE "submit")
    BY <1>8 DEF ReadAuth
  <2>2. Request(Line(op, p))
    <3>1. op \in Commands /\ p \in -1 .. MaxInvoke
      BY TypeFacts DEF Commands, Starts
    <3>2. Line(op, p) \in CLines /\ Line(op, p).t = op /\ Line(op, p).v = p
      <4>1. Line(op, p) \in CLines
        BY <3>1, LineTyped
      <4>2. Line(op, p).t = op /\ Line(op, p).v = p
        BY DEF Line
      <4> QED BY <4>1, <4>2
    <3> QED BY <1>8, <2>1, <3>2 DEF Request, Fresh
  <2>3. toD' = toD \/ toD' = toD \o <<Line(op, p)>>
    BY <2>1, TypeFacts, SendOne
  <2>4. ~skew' => toD' = <<Line(op, p)>> /\ toC' = <<>> /\ dst' = "sess" /\ want'
    <3> SUFFICES ASSUME ~skew' PROVE toD' = <<Line(op, p)>> /\ toC' = <<>> /\ dst' = "sess" /\ want'
      OBVIOUS
    <3>1. toD' = <<Line(op, p)>>
      BY <1>1, <1>5, <2>1, SendExact
    <3> QED BY <1>1, <1>2, <1>5, <3>1 DEF SameDaemon
  <2>5. CASE op = "RUN"
    <3>1. cst' = "stream" /\ cst' \in Places
      BY <2>1, <2>5, PlaceNames
    <3>2. ~skew' => StreamInv'
      BY <1>1, <2>4, <2>5 DEF StreamInv, Asked, Line
    <3>3. SyncInv'
      BY <3>1, <3>2 DEF SyncInv, Polling, Waiting
    <3> QED BY <1>2, <1>3, <1>4, <2>2, <2>3, <3>1, <3>3, ReadRest
  <2>6. CASE op = "RUNA"
    <3>1. cst' = "submit" /\ cst' \in Places
      BY <2>1, <2>6, PlaceNames
    <3>2. ~skew' => SubmitInv'
      BY <1>1, <2>4, <2>6 DEF SubmitInv, Asked, Line
    <3>3. SyncInv'
      BY <2>4, <3>1, <3>2 DEF SyncInv, Polling
    <3> QED BY <1>2, <1>3, <1>4, <2>2, <2>3, <3>1, <3>3, ReadRest
  <2> QED BY <2>5, <2>6, TypeFacts DEF Starts
<1> QED BY <1>6, <1>7, <1>8

LEMMA ReadSubmitStep ==
    ASSUME IInv, ReadStepOf, cst = "submit", ReadSubmit(Head(toC)) PROVE IInv'
<1>1. /\ toC # <<>> /\ toC' = Tail(toC) /\ SameDaemon /\ p' = p /\ skew' = skew
  BY DEF ReadStepOf
<1>2. want' = want /\ got' = got /\ toD' = toD
  BY DEF ReadSubmit, Goto
<1>3. want' \in BOOLEAN
  BY <1>2, FlagFacts, Zenon
<1>4. got' \in 0..MaxInvoke
  BY <1>2, TypeFacts
<1>5. CASE Head(toC).t \in {"OK id", "OK result", "OK idle"}
  <2>1. id' = (IF Head(toC).t = "OK id" THEN Head(toC).v ELSE 0) /\ cst' = "sleep"
    BY <1>5 DEF ReadSubmit, Goto
  <2>2. id' \in 0..MaxInvoke
    <3>1. Head(toC).v \in 0..MaxInvoke /\ 0 \in 0..MaxInvoke
      BY <1>1, ReadLine, TypeFacts
    <3> QED BY <2>1, <3>1
  <2>3. ~skew' => PollInv' /\ want'
    <3> SUFFICES ASSUME ~skew' PROVE PollInv' /\ want'
      OBVIOUS
    <3>1. SubmitInv /\ want
      BY <1>1, TypeFacts DEF SyncInv, Waiting
    <3>2. toD = <<>> /\ toC = <<Line("OK id", jobs)>> /\ run = p /\ jobs > 0
      BY <1>1, <3>1 DEF SubmitInv, Asked, Answered
    <3>3. Head(toC) = Line("OK id", jobs)
      BY <3>2, TakenLast
    <3>4. id' = jobs
      <4>1. Head(toC).t = "OK id" /\ Head(toC).v = jobs
        <5>1. Line("OK id", jobs).t = "OK id" /\ Line("OK id", jobs).v = jobs
          BY Zenon DEF Line
        <5> QED BY <3>3, <5>1, Zenon
      <4> QED BY <2>1, <4>1
    <3>5. NoStart(toD')
      BY <1>2, <3>2, EmptyQueue
    <3> QED BY <1>1, <1>2, <3>1, <3>2, <3>4, <3>5 DEF PollInv, SameDaemon
  <2>4. SyncInv'
    BY <2>1, <2>3 DEF SyncInv
  <2>5. cst' \in Places /\ id' \in -1 .. MaxInvoke /\ id' # -1
    <3>1. id' \in -1 .. MaxInvoke /\ id' # -1
      BY <2>2, Bounds
    <3>2. cst' \in Places
      BY <2>1, PlaceNames
    <3> QED BY <3>1, <3>2
  <2> QED BY <1>2, <1>3, <1>4, <2>1, <2>4, <2>5, ReadRest
<1>6. CASE Head(toC).t \notin {"OK id", "OK result", "OK idle"}
  <2>1. id' = id /\ cst' = "failed"
    BY <1>6 DEF ReadSubmit, Goto
  <2>2. cst' \in Places /\ SyncInv' /\ id' \in -1 .. MaxInvoke
    BY <2>1, PlaceNames, EndSync, TypeFacts
  <2> QED BY <1>2, <1>3, <1>4, <2>1, <2>2, ReadRest
<1> QED BY <1>5, <1>6

LEMMA ReadStatStep ==
    ASSUME IInv, ReadStepOf, cst = "stat", ReadStat(Head(toC)) PROVE IInv'
<1>1. /\ toC # <<>> /\ toC' = Tail(toC) /\ SameDaemon /\ p' = p /\ skew' = skew
  BY DEF ReadStepOf
<1>2. id' = id /\ got' = got
  BY DEF ReadStat
<1>3. id' \in -1 .. MaxInvoke /\ got' \in 0..MaxInvoke /\ id' # -1
  BY <1>2, TypeFacts DEF ResultInv
<1>4. ~skew => /\ toD = <<>> /\ dst = "sess" /\ toC' = <<>> /\ PollInv /\ want
               /\ \/ Head(toC).t = "OK result" /\ Head(toC).v = id /\ res.id = id
                  \/ Head(toC).t = "OK idle"
  <2> SUFFICES ASSUME ~skew
               PROVE  /\ toD = <<>> /\ dst = "sess" /\ toC' = <<>> /\ PollInv /\ want
                      /\ \/ Head(toC).t = "OK result" /\ Head(toC).v = id /\ res.id = id
                         \/ Head(toC).t = "OK idle"
    OBVIOUS
  <2>1. StatInv /\ PollInv /\ want
    BY <1>2, <1>3, TypeFacts DEF SyncInv, Waiting, Polling
  <2>2. /\ toD = <<>> /\ dst = "sess"
        /\ \/ toC = <<Line("OK result", id)>> /\ res.id = id
           \/ toC = <<Line("OK idle", 0)>>
    BY <1>1, <2>1 DEF StatInv, Asked, Answered
  <2>3. CASE toC = <<Line("OK result", id)>> /\ res.id = id
    <3>1. Head(toC) = Line("OK result", id) /\ toC' = <<>>
      BY <1>1, <2>3, TakenLast
    <3>2. Head(toC).t = "OK result" /\ Head(toC).v = id
      <4>1. Line("OK result", id).t = "OK result" /\ Line("OK result", id).v = id
        BY Zenon DEF Line
      <4> QED BY <3>1, <4>1, Zenon
    <3> QED BY <2>1, <2>2, <2>3, <3>1, <3>2
  <2>4. CASE toC = <<Line("OK idle", 0)>>
    <3>1. Head(toC) = Line("OK idle", 0) /\ toC' = <<>>
      BY <1>1, <2>4, TakenLast
    <3>2. Head(toC).t = "OK idle"
      <4>1. Line("OK idle", 0).t = "OK idle"
        BY Zenon DEF Line
      <4> QED BY <3>1, <4>1, Zenon
    <3> QED BY <2>1, <2>2, <3>1, <3>2
  <2> QED BY <2>2, <2>3, <2>4
<1>5. CASE want /\ Head(toC).t = "OK result" /\ Head(toC).v = id
  <2>1. Send(toD, <<Line("RESULT", id)>>) /\ cst' = "fetch" /\ want' = FALSE
    BY <1>5 DEF ReadStat
  <2>2. Request(Line("RESULT", id)) /\ Line("RESULT", id).t \notin Starts
    <3>1. "RESULT" \in Commands \ Starts /\ id \in -1 .. MaxInvoke
      BY TypeFacts DEF Commands, Starts
    <3> QED BY <3>1, RequestLine
  <2>3. toD' = toD \/ toD' = toD \o <<Line("RESULT", id)>>
    BY <2>1, TypeFacts, SendOne
  <2>4. ~skew' => FetchInv' /\ PollInv'
    <3> SUFFICES ASSUME ~skew' PROVE FetchInv' /\ PollInv'
      OBVIOUS
    <3>1. toD' = <<Line("RESULT", id)>> /\ res.id = id
      BY <1>1, <1>4, <1>5, <2>1, SendExact
    <3>2. FetchInv'
      BY <1>1, <1>2, <1>4, <3>1 DEF FetchInv, Asked, Line, SameDaemon
    <3>3. NoStart(toD')
      BY <2>2, <3>1, OneLine
    <3>4. PollInv'
      BY <1>1, <1>2, <1>4, <3>3 DEF PollInv, SameDaemon
    <3> QED BY <3>2, <3>4
  <2>5. SyncInv'
    BY <2>1, <2>4 DEF SyncInv, Waiting
  <2>6. cst' \in Places /\ want' \in BOOLEAN
    BY <2>1, PlaceNames
  <2> QED BY <1>2, <1>3, <2>1, <2>2, <2>3, <2>5, <2>6, ReadRest
<1>6. CASE ~(want /\ Head(toC).t = "OK result" /\ Head(toC).v = id)
  <2>1. /\ cst' = (IF Head(toC).t = "OK idle" THEN "idle" ELSE "status")
        /\ toD' = toD /\ want' = want
    BY <1>6 DEF ReadStat, Goto
  <2>2. SyncInv'
    <3>1. CASE skew
      BY <1>1, <3>1 DEF SyncInv
    <3>2. CASE ~skew
      BY <1>4, <1>6, <2>1, <3>2, EndSync
    <3> QED BY <3>1, <3>2, FlagFacts
  <2>3. want' \in BOOLEAN
    BY <2>1, FlagFacts, Zenon
  <2>4. cst' \in Places /\ cst' \notin {"greet", "auth"}
    BY <2>1, PlaceNames
  <2> QED BY <1>2, <1>3, <2>1, <2>2, <2>3, <2>4, ReadRest
<1> QED BY <1>5, <1>6

LEMMA TwoLines ==
    ASSUME NEW x, NEW y PROVE Head(<<x, y>>) = x /\ Tail(<<x, y>>) = <<y>>
OBVIOUS

LEMMA ReadStreamStep ==
    ASSUME IInv, ReadStepOf, cst \in {"stream", "fetch"}, ReadStream(Head(toC)) PROVE IInv'
<1>1. /\ toC # <<>> /\ toC' = Tail(toC) /\ SameDaemon /\ p' = p /\ skew' = skew
  BY DEF ReadStepOf
<1>2. id' = id /\ want' = want /\ toD' = toD
  BY DEF ReadStream, Goto
<1>3. want' \in BOOLEAN
  BY <1>2, FlagFacts, Zenon
<1>4. id' \in -1 .. MaxInvoke /\ (cst = "fetch" => id' # -1)
  BY <1>2, TypeFacts DEF ResultInv
<1>5. got' \in 0..MaxInvoke
  <2>1. got \in 0..MaxInvoke /\ Head(toC).v \in 0..MaxInvoke
    BY <1>1, TypeFacts, ReadLine
  <2>2. got' = got \/ got' = Head(toC).v
    BY DEF ReadStream
  <2> QED BY <2>1, <2>2
<1>6. cst' \in {"done", "failed", cst} \/ (cst = "fetch" /\ cst' = "sleep")
  BY DEF ReadStream, Goto
<1>7. ~skew =>
         /\ toD = <<>> /\ dst = "sess" /\ (cst = "fetch" => PollInv)
         /\ \/ Head(toC).t = "O" /\ toC' = <<Line("X", p)>>
            \/ Head(toC).t = "X" /\ Head(toC).v = p
            \/ Head(toC).t = "ERR" /\ cst = "stream"
  <2> SUFFICES ASSUME ~skew
               PROVE  /\ toD = <<>> /\ dst = "sess" /\ (cst = "fetch" => PollInv)
                      /\ \/ Head(toC).t = "O" /\ toC' = <<Line("X", p)>>
                         \/ Head(toC).t = "X" /\ Head(toC).v = p
                         \/ Head(toC).t = "ERR" /\ cst = "stream"
    OBVIOUS
  <2>1. cst = "fetch" => PollInv
    BY <1>2, <1>4, TypeFacts DEF SyncInv, Polling
  <2>2. /\ toD = <<>> /\ dst = "sess"
        /\ \/ \E n : toC = <<Line("O", n), Line("X", p)>>
           \/ toC = <<Line("X", p)>>
           \/ cst = "stream" /\ toC = <<Line("ERR", p)>>
    <3>1. CASE cst = "stream"
      <4>1. StreamInv
        BY <3>1, TypeFacts DEF SyncInv
      <4> QED BY <1>1, <3>1, <4>1 DEF StreamInv, Asked, Answered
    <3>2. CASE cst = "fetch"
      <4>1. FetchInv
        BY <3>2, TypeFacts DEF SyncInv
      <4> QED BY <1>1, <3>2, <4>1 DEF FetchInv, Asked, Answered
    <3> QED BY <3>1, <3>2
  <2>3. ASSUME NEW n, toC = <<Line("O", n), Line("X", p)>>
        PROVE  Head(toC).t = "O" /\ toC' = <<Line("X", p)>>
    <3>1. Head(toC) = Line("O", n) /\ toC' = <<Line("X", p)>>
      BY <1>1, <2>3, TwoLines
    <3>2. Head(toC).t = "O"
      BY <3>1 DEF Line
    <3> QED BY <3>1, <3>2
  <2>4. ASSUME toC = <<Line("X", p)>> PROVE Head(toC).t = "X" /\ Head(toC).v = p
    <3>1. Head(toC) = Line("X", p)
      BY <2>4, TakenLast
    <3> QED BY <3>1 DEF Line
  <2>5. ASSUME toC = <<Line("ERR", p)>> PROVE Head(toC).t = "ERR"
    <3>1. Head(toC) = Line("ERR", p)
      BY <2>5, TakenLast
    <3> QED BY <3>1 DEF Line
  <2> QED BY <2>1, <2>2, <2>3, <2>4, <2>5
<1>8. SyncInv'
  <2>1. CASE skew
    BY <1>1, <2>1 DEF SyncInv
  <2>2. CASE ~skew /\ Head(toC).t = "O"
    <3>1. /\ toD' = <<>> /\ dst' = "sess" /\ toC' = <<Line("X", p)>> /\ cst' = cst
          /\ p' = p /\ id' = id
      BY <1>1, <1>2, <1>7, <2>2 DEF ReadStream, SameDaemon
    <3>2. StreamInv' /\ FetchInv'
      BY <3>1 DEF StreamInv, FetchInv, Answered, Line
    <3>3. cst' = "fetch" => PollInv'
      BY <1>1, <1>2, <1>7, <2>2, <3>1 DEF PollInv, SameDaemon
    <3> QED BY <3>1, <3>2, <3>3 DEF SyncInv, Polling, Waiting
  <2>3. CASE ~skew /\ Head(toC).t = "X"
    <3>1. cst' = "done" /\ got' = p'
      BY <1>1, <1>7, <2>3 DEF ReadStream, Goto
    <3> QED BY <3>1 DEF SyncInv, Polling, Waiting
  <2>4. CASE ~skew /\ Head(toC).t = "ERR"
    <3>1. cst' = "failed"
      BY <1>7, <2>4 DEF ReadStream, Goto
    <3> QED BY <3>1, EndSync
  <2> QED BY <1>7, <2>1, <2>2, <2>3, <2>4, FlagFacts
<1>9. cst' \in Places /\ cst' \notin {"greet", "auth"}
  BY <1>6, PlaceNames
<1>10. cst' \in {"sleep", "stat", "fetch"} => id' # -1
  BY <1>4, <1>6
<1> QED BY <1>2, <1>3, <1>4, <1>5, <1>8, <1>9, <1>10, ReadRest

LEMMA ReadStep ==
    ASSUME IInv, Read, UNCHANGED daemonVars PROVE IInv'
<1>1. ReadStepOf
  BY SameDaemonDef DEF Read, ReadStepOf
<1> QED BY <1>1, ReadGreetingStep, ReadAuthStep, ReadSubmitStep, ReadStatStep, ReadStreamStep
        DEF Read

-----------------------------------------------------------------------------
(* gcds gives up waiting, is interrupted, or is done.                       *)

\* Nothing is read or sent.
LEMMA MovedOnly ==
    ASSUME IInv, SameDaemon, toD' = toD, toC' = toC, p' = p, op' = op, id' = id,
           want' = want, got' = got, skew' = skew, tmo' \in 0..MaxTmo, cst # "none",
           cst' \in Places \ {"greet", "auth"},
           cst' \in {"sleep", "stat", "fetch"} => id' # -1, SyncInv'
    PROVE  IInv'
<1>1. want' \in BOOLEAN /\ skew' \in BOOLEAN
  BY FlagFacts, Zenon
<1>2. TypeOK'
  BY <1>1, TypeFacts, ClientTypes
<1>3. NumberInv'
  BY TypeFacts DEF NumberInv, SameDaemon
<1>4. CounterInv'
  BY TypeFacts DEF CounterInv, SameDaemon, Fresh
<1>5. ResultInv'
  BY TypeFacts DEF ResultInv, SameDaemon
<1> QED BY <1>2, <1>3, <1>4, <1>5 DEF IInv

LEMMA TimeoutStep ==
    ASSUME IInv, Timeout, UNCHANGED daemonVars PROVE IInv'
<1>1. SameDaemon
  BY SameDaemonDef
<1>2. /\ cst \in Waiting /\ toD' = toD /\ toC' = toC /\ p' = p /\ op' = op /\ id' = id
      /\ want' = want /\ got' = got /\ skew' = skew
      /\ tmo' = tmo \/ (tmo < MaxTmo /\ tmo' = tmo + 1)
      /\ \/ cst' = "sleep" /\ (cst = "stat" \/ (cst = "greet" /\ id # -1))
         \/ cst' = "failed"
  BY DEF Timeout, Goto
<1>3. tmo' \in 0..MaxTmo
  BY <1>2, TypeFacts
<1>4. cst = "stat" => id # -1
  BY TypeFacts DEF ResultInv
<1>5. SyncInv'
  <2>1. CASE cst' = "failed"
    BY <2>1, EndSync
  <2>2. CASE cst' = "sleep" /\ (cst = "stat" \/ (cst = "greet" /\ id # -1))
    <3>1. ~skew' => PollInv /\ want
      BY <1>2, <1>4, <2>2, TypeFacts DEF SyncInv, Polling
    <3>2. ~skew' => PollInv' /\ want'
      BY <1>1, <1>2, <3>1 DEF PollInv, SameDaemon
    <3> QED BY <2>2, <3>2 DEF SyncInv
  <2> QED BY <1>2, <2>1, <2>2
<1>6. cst # "none" /\ cst' \in Places \ {"greet", "auth"}
  BY <1>2, PlaceNames DEF Waiting
<1>7. cst' \in {"sleep", "stat", "fetch"} => id' # -1
  BY <1>2, <1>4
<1> QED BY <1>1, <1>2, <1>3, <1>5, <1>6, <1>7, MovedOnly

LEMMA InterruptStep ==
    ASSUME IInv, Interrupt PROVE IInv'
<1>1. SameDaemon
  BY SameDaemonDef DEF Interrupt
<1>2. /\ cst \notin Ended /\ cst' = "killed" /\ toD' = toD /\ toC' = toC /\ p' = p /\ op' = op
      /\ id' = id /\ want' = want /\ got' = got /\ skew' = skew /\ tmo' = tmo
  BY DEF Interrupt, Goto
<1>3. cst # "none" /\ cst' \in Places \ {"greet", "auth"} /\ SyncInv' /\ tmo' \in 0..MaxTmo
  BY <1>2, PlaceNames, EndSync, TypeFacts DEF Ended
<1> QED BY <1>1, <1>2, <1>3, MovedOnly

LEMMA Stutter == ASSUME IInv, UNCHANGED vars PROVE IInv'
<1>1. /\ SameDaemon /\ SameClient /\ toD' = toD /\ toC' = toC
      /\ cst' = cst /\ p' = p /\ id' = id /\ run' = run /\ jobs' = jobs /\ res' = res
      /\ dst' = dst /\ live' = live
  BY DEF vars, daemonVars, clientVars, SameDaemon, SameClient
<1>2. NumberInv' /\ CounterInv' /\ (PollInv => PollInv')
  BY <1>1, NothingRead
<1>3. TypeOK'
  BY <1>1, TypeFacts, DaemonTypes
<1>4. ResultInv'
  BY <1>1, TypeFacts DEF ResultInv
<1>5. GreetInv => GreetInv'
  BY <1>1 DEF GreetInv
<1>6. ~skew /\ cst \in Locked => LockInv'
  BY <1>1, TypeFacts DEF SyncInv, LockInv, AuthInv, StreamInv, SubmitInv, StatInv, FetchInv,
     Asked, Answered, Line
<1>7. SyncInv'
  BY <1>1, <1>2, <1>5, <1>6, TypeFacts, DaemonSync
<1> QED BY <1>2, <1>3, <1>4, <1>7 DEF IInv

-----------------------------------------------------------------------------
(* The theorems.                                                            *)

LEMMA InitInv == Init => IInv
<1> SUFFICES ASSUME Init PROVE IInv
  OBVIOUS
<1>1. /\ live \in BOOLEAN /\ toD = <<>> /\ toC = <<>> /\ dst = "idle" /\ run = 0 /\ jobs = 0
      /\ res.id = 0 /\ res.p = 0 /\ cst = "none" /\ p = 0 /\ op = "RUN" /\ id = -1
      /\ want = TRUE /\ got = 0 /\ skew = FALSE /\ tmo = 0
  BY DEF Init
<1>2. 0 \in 0..MaxInvoke /\ 0 \in 0..MaxTmo /\ -1 \in -1 .. MaxInvoke
  BY Bounds
<1>3. <<>> \in Seq(CLines) /\ <<>> \in Seq(RLines)
  OBVIOUS
<1>4. FlatType
  BY <1>1, <1>2, <1>3, PlaceNames DEF FlatType, Starts
<1>5. Flags
  BY <1>1, Zenon DEF Flags
<1>6. TypeOK
  BY <1>4, <1>5, TypeParts
<1>7. NumberInv /\ CounterInv
  BY <1>1, EmptyQueue DEF NumberInv, CounterInv, Fresh
<1>8. ResultInv /\ SyncInv
  BY <1>1 DEF ResultInv, SyncInv, Polling, Waiting
<1> QED BY <1>6, <1>7, <1>8 DEF IInv

LEMMA NextInv == IInv /\ [Next]_vars => IInv'
<1> SUFFICES ASSUME IInv, [Next]_vars PROVE IInv'
  OBVIOUS
<1>1. CASE Daemon
  BY <1>1, DaemonStep
<1>2. CASE Client
  BY <1>2, StartStep, PollStep, ReadStep, TimeoutStep DEF Client
<1>3. CASE Interrupt
  BY <1>3, InterruptStep
<1>4. CASE UNCHANGED vars
  BY <1>4, Stutter
<1> QED BY <1>1, <1>2, <1>3, <1>4 DEF Next, Done

\* What the session protocol on one serial line keeps: the numbers of jobs and
\* invocations, the result slot, and the step gcds and gcdsd are in together
\* once a greeting has been read (remote.c 90-181, session.c 387-640, main.c 37-140).
THEOREM Inductive == Spec => []IInv
<1>1. Init => IInv
  BY InitInv
<1>2. IInv /\ [Next]_vars => IInv'
  BY NextInv
<1> QED BY <1>1, <1>2, PTL DEF Spec

\* Every variable keeps its type: in particular next_jobid's counter stays
\* within the number of invocations although lines are lost, left over and
\* read again by later sessions (session.c 133, 604).
THEOREM TypeCorrect == Spec => []TypeOK
<1>1. IInv => TypeOK
  BY DEF IInv
<1> QED BY <1>1, Inductive, PTL

LEMMA SyncInSync == IInv => InSync
<1> SUFFICES ASSUME IInv, ~skew
             PROVE  /\ cst \in Locked /\ toC # <<>> => Head(toC).cur
                    /\ cst = "done" => got = p
                    /\ cst # "status"
  BY FlagFacts DEF InSync, Locked
<1>1. (cst = "done" => got = p) /\ cst # "status"
  BY DEF IInv, SyncInv
<1>2. ASSUME cst \in Locked, toC # <<>> PROVE Head(toC).cur
  <2>1. \/ \E t, v : toC = <<Line(t, v)>>
        \/ \E t, v, u, w : toC = <<Line(t, v), Line(u, w)>>
    <3>1. CASE cst = "auth"
      BY <1>2, <3>1 DEF IInv, SyncInv, AuthInv, Asked, Answered
    <3>2. CASE cst = "stream"
      BY <1>2, <3>2 DEF IInv, SyncInv, StreamInv, Asked, Answered
    <3>3. CASE cst = "submit"
      BY <1>2, <3>3 DEF IInv, SyncInv, SubmitInv, Asked, Answered
    <3>4. CASE cst = "stat"
      BY <1>2, <3>4 DEF IInv, SyncInv, StatInv, Asked, Answered
    <3>5. CASE cst = "fetch"
      BY <1>2, <3>5 DEF IInv, SyncInv, FetchInv, Asked, Answered
    <3> QED BY <1>2, <3>1, <3>2, <3>3, <3>4, <3>5 DEF Locked
  <2>2. \E t, v : Head(toC) = Line(t, v)
    BY <2>1, TakenLast, TwoLines
  <2> QED BY <2>2 DEF Line
<1> QED BY <1>1, <1>2

\* The resync rule: an invocation of gcds that finds no greeting of an earlier
\* attempt outstanding reads, after its greeting, only answers to its own lines,
\* returns the exit code of its own command and never gives its job up for an
\* unexpected status, whatever interrupted invocations, killed commands, lost
\* lines and timeouts have left in the line (remote.c 124-181).
THEOREM Resync == Spec => []InSync
BY Inductive, SyncInSync, PTL

\* No more jobs are started than gcds has been invoked, and the result the daemon
\* holds is that of the last one, even for lines that outlive the gcds that sent
\* them and for greetings that cross (session.c 552-609, main.c 37-65).
THEOREM OneJobEach == Spec => [](jobs <= p /\ (res.id # 0 => res.id = jobs /\ res.p = run))
<1>1. IInv => jobs <= p /\ (res.id # 0 => res.id = jobs /\ res.p = run)
  BY DEF IInv, CounterInv, ResultInv
<1> QED BY <1>1, Inductive, PTL
=============================================================================
