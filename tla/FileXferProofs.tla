--------------------------- MODULE FileXferProofs ---------------------------
(***************************************************************************)
(* PUT and GET transfer whole files, for files, caps and connections of any *)
(* size.                                                                    *)
(***************************************************************************)
EXTENDS FileXfer, Integers, SequenceTheorems, TLAPS

\* The k + 1st frame in q, behind o lines, when q starts with chunk m + 1 of file
\* src: its header, or the end of the file, and its data.
CarriesAt(q, o, src, m, last, k) ==
    /\ 2 * k + o <= Len(q) => m + k <= last
    /\ 2 * k + 1 + o <= Len(q) =>
          \/ q[2 * k + 1 + o] = Line("D")
          \/ q[2 * k + 1 + o] = Line("D0") /\ Len(q) = 2 * k + 1 + o /\ m + k = last
    /\ 2 * k + 2 + o <= Len(q) => q[2 * k + 2 + o] = Raw(src[m + k + 1])

\* After o lines of its own, q carries the frames of file src from chunk m + 1
\* on, none beyond chunk last, and the end of the file only after chunk last.
\* A frame may be cut after its header.
Carries(q, o, src, m, last) == \A k \in 0..Len(q) : CarriesAt(q, o, src, m, last, k)

HasEnd(q) == \E i \in 1..Len(q) : q[i].t = "D0"

\* f is the first Len(f) chunks of src.
Prefix(f, src) == Len(f) <= Len(src) /\ \A i \in 1..Len(f) : f[i] = src[i]

AllChunks == Chunks(Kinds \cup {"text"})

\* The client's end is open until gcds exits, and is then no longer read.
EndInv ==
    IF cpc \in Ended THEN cend = FALSE /\ down = <<>> ELSE cend = TRUE

-----------------------------------------------------------------------------
(* PUT.                                                                     *)

Sending == {"send", "frame", "eof", "final"}

\* Chunks handed to the connection; a chunk that was read is not yet sent.
PutSent == IF cpc = "frame" THEN rpos - 1 ELSE rpos

\* do_put has seen the end of the file.
Stored == whole = TRUE /\ up = <<>> /\ remote = SubSeq(local, 1, rpos)

\* What do_put has and what is under way make up what xfer_put has sent.
PutFlow ==
    /\ remote \in Seq(AllChunks) /\ Len(remote) <= rpos /\ Prefix(remote, local)
    /\ Carries(up, 0, local, Len(remote), rpos)
    /\ HasEnd(up) => whole = TRUE /\ cpc \in {"final", "fail"}
    /\ cut = FALSE /\ cpc \in {"send", "frame", "eof"} => Len(up) = 2 * (PutSent - Len(remote))
    /\ refused = FALSE

\* Where PUT is: at most at the head of the connection, and before everything else.
PutAsked ==
    \A i \in 1..Len(up) : up[i].t = "PUT" =>
        /\ up = <<Line("PUT")>> /\ down = <<>> /\ rpos = 0 /\ whole = FALSE /\ refused = FALSE
        /\ cpc \in {"reply", "fail"} /\ spc # "put"

PutReply ==
    cpc = "reply" =>
        /\ up \in {<<>>, <<Line("PUT")>>} /\ down \in {<<>>, <<Line("OK")>>, <<Line("ERR")>>}
        /\ down # <<>> \/ spc = "put" => up = <<>>
        /\ down = <<Line("OK")>> => spc \in {"put", "closed"}

\* The first answer after the OK decides, and it is OK only for a file stored.
PutStatusInv ==
    cpc \in Sending =>
        /\ spc = "put" => down = <<>>
        /\ spc = "session" => refused = TRUE \/ (cpc = "final" /\ up = <<>>)
        /\ down # <<>> => down[1].t = "ERR" \/ (cpc = "final" /\ spc # "put" /\ Stored)
        /\ refused = TRUE => down # <<>> \/ cut = TRUE

PutPlaces ==
    /\ local \in Files(Kinds)
    /\ spc \in {"session", "put", "closed"} /\ cpc \notin {"recv", "drain"}
    /\ \A i \in 1..Len(up) : up[i].t # "GET"

PutProgress ==
    /\ cpc \in {"start", "reply"} => rpos = 0 /\ whole = FALSE /\ refused = FALSE
    /\ cpc = "start" => up = <<>> /\ down = <<>> /\ spc # "put"
    /\ cpc = "frame" => rpos > 0
    /\ whole = TRUE => cpc \in {"eof", "final"} \cup Ended
    /\ cpc \in {"eof", "final"} => whole = TRUE

\* What the daemon's file is when do_put is not at work on it.
PutFile ==
    /\ spc # "put" => remote \in {Absent, Old, <<>>} \/ Stored
    /\ spc = "session" /\ up # <<>> => up = <<Line("PUT")>> \/ refused = TRUE
    /\ refused = TRUE => remote = Absent /\ spc # "put"
    /\ cpc = "ok" => spc # "put" /\ Stored

PutBody ==
    /\ PutPlaces /\ PutProgress /\ PutFile
    /\ spc = "put" => PutFlow
    /\ PutAsked /\ PutReply /\ PutStatusInv

-----------------------------------------------------------------------------
(* GET.                                                                     *)

Reading == {"get", "frame", "eof"}

GetSent == IF spc = "frame" THEN rpos - 1 ELSE rpos

\* In front of the frames that answer a GET: the OK, until the client took it.
Header == IF cpc = "reply" THEN 1 ELSE 0
Got == IF cpc = "reply" THEN 0 ELSE Len(local)

GetFlow ==
    /\ Carries(down, Header, remote, Got, rpos)
    /\ HasEnd(down) => spc \notin Reading /\ up = <<>>
    /\ cut = FALSE /\ spc \in Reading => Len(down) = 2 * (GetSent - Got) + Header

GetPlaces ==
    /\ remote \in Files({"text"}) \cup {Absent}
    /\ spc \in {"session", "closed"} \cup Reading
    /\ cpc \in {"start", "reply", "recv", "drain"} \cup Ended
    /\ spc \in Reading => remote # Absent
    /\ spc = "frame" => rpos > 0

GetAsked ==
    /\ up \in {<<>>, <<Line("GET")>>}
    /\ up # <<>> => rpos = 0 /\ down = <<>> /\ cpc \in {"reply", "fail"} /\ spc \notin Reading
    /\ cpc = "start" => up = <<>> /\ down = <<>> /\ rpos = 0 /\ spc \notin Reading

GetReply ==
    cpc = "reply" /\ down # <<>> =>
        \/ down[1] = Line("OK") /\ remote # Absent
        \/ down = <<Line("ERR")>> /\ spc \notin Reading

\* The client's file.
GetFile ==
    /\ cpc = "recv" =>
          /\ remote # Absent /\ local \in Seq(AllChunks)
          /\ Len(local) <= rpos /\ Prefix(local, remote)
    /\ cpc = "ok" => up = <<>> /\ spc \notin Reading /\ local = SubSeq(remote, 1, rpos)

GetBody ==
    /\ GetPlaces /\ GetAsked /\ GetReply /\ GetFile
    /\ cpc \in {"reply", "recv"} => GetFlow

IInv == TypeOK /\ EndInv /\ (op = "PUT" => PutBody) /\ (op = "GET" => GetBody)

-----------------------------------------------------------------------------
(* Files and streams of frames.                                             *)

LEMMA Bounds == Cap \in Nat /\ MaxLen \in Nat /\ SockCap \in Nat /\ SockCap > 1
BY FileXferAssumption

\* A file is a sequence of chunks, and there is a difference between it and none.
LEMMA FileIsSeq ==
    ASSUME NEW K \in SUBSET (Kinds \cup {"text"}), NEW f \in Files(K)
    PROVE  f \in Seq(AllChunks) /\ f # Absent
<1>0. PICK n \in 0..MaxLen : \E k \in [1..n -> K] : f = [i \in 1..n |-> <<i, k[i]>>]
  BY DEF Files
<1>1. PICK k \in [1..n -> K] : f = [i \in 1..n |-> <<i, k[i]>>]
  BY <1>0
<1>2. \A i \in 1..n : <<i, k[i]>> \in AllChunks
  BY <1>1, Bounds DEF AllChunks, Chunks
<1>3. f \in Seq(AllChunks)
  BY <1>1, <1>2
<1>4. k \in [1..n -> Kinds \cup {"text"}]
  BY <1>1
<1>5. f \in Files(Kinds \cup {"text"})
  BY <1>1, <1>4 DEF Files
<1> QED
  BY <1>3, <1>5, AbsentAssumption

LEMMA LineFields ==
    ASSUME NEW t PROVE Line(t).t = t /\ Line(t).x = <<0, "text">>
BY DEF Line

LEMMA RawFields ==
    ASSUME NEW x PROVE Raw(x).t = "raw" /\ Raw(x).x = x
BY DEF Raw

\* The last frame in a stream is the last one sent.
LEMMA LastFrame ==
    ASSUME NEW m \in Nat, NEW last \in Nat, NEW k \in Nat, NEW o \in 0..1, NEW n \in Nat,
           2 * k + 2 + o = n + 2, n = 2 * (last - 1 - m) + o
    PROVE  2 * k + 1 + o = n + 1 /\ m + k + 1 = last
OBVIOUS

LEMMA CarriesEach ==
    ASSUME NEW S, NEW q \in Seq(S), NEW o \in 0..1, NEW src, NEW m \in Nat, NEW last \in Nat,
           Carries(q, o, src, m, last), NEW k \in Nat
    PROVE  CarriesAt(q, o, src, m, last, k)
<1>1. CASE k <= Len(q)
  BY <1>1 DEF Carries
<1>2. CASE k > Len(q)
  BY <1>2 DEF CarriesAt
<1> QED
  BY <1>1, <1>2

\* Nothing is under way.
LEMMA CarriesNothing ==
    ASSUME NEW o \in 0..1, NEW src, NEW m \in Nat, NEW last \in Nat, m <= last
    PROVE  Carries(<<>>, o, src, m, last) /\ ~HasEnd(<<>>)
BY DEF Carries, CarriesAt, HasEnd

\* Only the header is under way.
LEMMA CarriesHeader ==
    ASSUME NEW l, NEW src, NEW last \in Nat
    PROVE  Carries(<<l>>, 1, src, 0, last)
BY DEF Carries, CarriesAt

\* The header is taken.
LEMMA CarriesBehind ==
    ASSUME NEW S, NEW q \in Seq(S), q # <<>>, NEW src, NEW m \in Nat, NEW last \in Nat,
           Carries(q, 1, src, m, last)
    PROVE  Carries(Tail(q), 0, src, m, last) /\ (HasEnd(Tail(q)) => HasEnd(q))
<1> DEFINE r == Tail(q)
<1>1. /\ Len(q) \in Nat /\ Len(r) = Len(q) - 1
      /\ \A i \in 1..(Len(q) - 1) : r[i] = q[i + 1]
  OBVIOUS
<1> HIDE DEF r
<1>2. ASSUME NEW k \in 0..Len(r) PROVE CarriesAt(r, 0, src, m, last, k)
  <2>1. k \in Nat /\ CarriesAt(q, 1, src, m, last, k)
    BY <1>1, CarriesEach
  <2> QED
    BY <1>1, <2>1 DEF CarriesAt
<1>3. ASSUME HasEnd(r) PROVE HasEnd(q)
  <2>1. PICK i \in 1..Len(r) : r[i].t = "D0"
    BY <1>3 DEF HasEnd
  <2>2. i + 1 \in 1..Len(q) /\ q[i + 1].t = "D0"
    BY <1>1, <2>1
  <2> QED
    BY <2>2 DEF HasEnd
<1> QED
  BY <1>2, <1>3 DEF Carries, r

\* A frame is taken: it holds the next chunk of the file.
LEMMA CarriesFrame ==
    ASSUME NEW S, NEW q \in Seq(S), NEW src, NEW m \in Nat, NEW last \in Nat,
           Carries(q, 0, src, m, last), Comes(q, "D")
    PROVE  /\ Data(q) = src[m + 1] /\ m + 1 <= last
           /\ Rest(q) \in Seq(S) /\ Len(Rest(q)) = Len(q) - 2 /\ Len(q) \in Nat
           /\ \A i \in 1..Len(Rest(q)) : Rest(q)[i] = q[i + 2]
           /\ Carries(Rest(q), 0, src, m + 1, last)
           /\ HasEnd(Rest(q)) => HasEnd(q)
<1> DEFINE r == Rest(q)
<1>1. Len(q) \in Nat /\ Len(q) > 1 /\ r = Tail(Tail(q))
  BY DEF Comes, Rest
<1>2. /\ r \in Seq(S) /\ Len(r) = Len(q) - 2
      /\ \A i \in 1..(Len(q) - 2) : r[i] = q[i + 2]
  <2> DEFINE u == Tail(q)
  <2>1. /\ u \in Seq(S) /\ Len(u) = Len(q) - 1
        /\ \A i \in 1..(Len(q) - 1) : u[i] = q[i + 1]
    BY <1>1, EmptySeq, HeadTailProperties
  <2> HIDE DEF u
  <2>3. u # <<>>
    BY <1>1, <2>1, EmptySeq
  <2>2. /\ r \in Seq(S) /\ Len(r) = Len(u) - 1
        /\ \A i \in 1..(Len(u) - 1) : r[i] = u[i + 1]
    BY <1>1, <2>1, <2>3, HeadTailProperties DEF u
  <2>4. Len(r) = Len(q) - 2
    BY <1>1, <2>1, <2>2
  <2>5. ASSUME NEW i \in 1..(Len(q) - 2) PROVE r[i] = q[i + 2]
    <3>1. /\ i \in 1..(Len(u) - 1) /\ i + 1 \in 1..(Len(q) - 1) /\ (i + 1) + 1 = i + 2
      BY <1>1, <2>1
    <3>2. r[i] = u[i + 1] /\ u[i + 1] = q[(i + 1) + 1]
      BY <2>1, <2>2, <3>1
    <3> QED
      BY <3>1, <3>2
  <2> QED
    BY <2>2, <2>4, <2>5
<1> HIDE DEF r
<1>3. Data(q) = src[m + 1]
  <2>1. CarriesAt(q, 0, src, m, last, 0)
    BY CarriesEach
  <2>2. q[2] = Raw(src[m + 1])
    BY <1>1, <2>1 DEF CarriesAt
  <2> QED
    BY <2>2, RawFields DEF Data
<1>4. m + 1 <= last
  <2>1. CarriesAt(q, 0, src, m, last, 1)
    BY CarriesEach
  <2> QED
    BY <1>1, <2>1 DEF CarriesAt
<1>5. ASSUME NEW k \in 0..Len(r) PROVE CarriesAt(r, 0, src, m + 1, last, k)
  <2>1. k \in Nat /\ CarriesAt(q, 0, src, m, last, k + 1)
    BY <1>2, CarriesEach
  <2>2. /\ 2 * k + 1 <= Len(r) => r[2 * k + 1 + 0] = q[2 * (k + 1) + 1 + 0]
        /\ 2 * k + 2 <= Len(r) => r[2 * k + 2 + 0] = q[2 * (k + 1) + 2 + 0]
    <3>1. 2 * k + 1 <= Len(r) => 2 * k + 1 \in 1..(Len(q) - 2)
      BY <1>1, <1>2, <2>1
    <3>2. 2 * k + 2 <= Len(r) => 2 * k + 2 \in 1..(Len(q) - 2)
      BY <1>1, <1>2, <2>1
    <3>3. /\ 2 * k + 1 + 0 = 2 * k + 1 /\ 2 * (k + 1) + 1 + 0 = (2 * k + 1) + 2
          /\ 2 * k + 2 + 0 = 2 * k + 2 /\ 2 * (k + 1) + 2 + 0 = (2 * k + 2) + 2
      BY <2>1
    <3> QED
      BY <1>2, <3>1, <3>2, <3>3
  <2>3. Raw(src[m + (k + 1) + 1]) = Raw(src[(m + 1) + k + 1])
    <3>1. m + (k + 1) + 1 = (m + 1) + k + 1
      BY <2>1
    <3> QED
      BY <3>1
  <2>4. 2 * k + 0 <= Len(r) => (m + 1) + k <= last
    <3>1. 2 * (k + 1) + 0 <= Len(q) => m + (k + 1) <= last
      BY <2>1 DEF CarriesAt
    <3>2. Len(q) \in Nat /\ Len(r) = Len(q) - 2 /\ k \in Nat
      BY <1>1, <1>2, <2>1
    <3> QED
      BY <3>1, <3>2
  <2>5. 2 * k + 1 + 0 <= Len(r) =>
          \/ r[2 * k + 1 + 0] = Line("D")
          \/ r[2 * k + 1 + 0] = Line("D0") /\ Len(r) = 2 * k + 1 + 0 /\ (m + 1) + k = last
    <3>1. SUFFICES ASSUME 2 * k + 1 + 0 <= Len(r)
                   PROVE  \/ r[2 * k + 1 + 0] = Line("D")
                          \/ /\ r[2 * k + 1 + 0] = Line("D0")
                             /\ Len(r) = 2 * k + 1 + 0 /\ (m + 1) + k = last
      OBVIOUS
    <3>2. 2 * (k + 1) + 1 + 0 <= Len(q) /\ r[2 * k + 1 + 0] = q[2 * (k + 1) + 1 + 0]
      BY <1>1, <1>2, <2>1, <2>2, <3>1
    <3>3. \/ q[2 * (k + 1) + 1 + 0] = Line("D")
          \/ q[2 * (k + 1) + 1 + 0] = Line("D0") /\ Len(q) = 2 * (k + 1) + 1 + 0 /\ m + (k + 1) = last
      BY <2>1, <3>2 DEF CarriesAt
    <3>4. Len(q) = 2 * (k + 1) + 1 + 0 => Len(r) = 2 * k + 1 + 0
      <4>1. Len(q) \in Nat /\ Len(r) = Len(q) - 2 /\ k \in Nat
        BY <1>1, <1>2, <2>1
      <4> QED
        BY <4>1
    <3>5. m + (k + 1) = last => (m + 1) + k = last
      BY <2>1
    <3> QED
      BY <3>2, <3>3, <3>4, <3>5
  <2>6. 2 * k + 2 + 0 <= Len(r) => r[2 * k + 2 + 0] = Raw(src[(m + 1) + k + 1])
    BY <1>1, <1>2, <2>1, <2>2, <2>3 DEF CarriesAt
  <2> QED
    BY <2>4, <2>5, <2>6 DEF CarriesAt
<1>6. HasEnd(r) => HasEnd(q)
  BY <1>1, <1>2 DEF HasEnd
<1> QED
  BY <1>1, <1>2, <1>3, <1>4, <1>5, <1>6 DEF Carries, r

\* The end of the file is taken: all of it has arrived.
LEMMA CarriesEnd ==
    ASSUME NEW S, NEW q \in Seq(S), NEW src, NEW m \in Nat, NEW last \in Nat,
           Carries(q, 0, src, m, last), Comes(q, "D0")
    PROVE  m = last /\ Tail(q) = <<>> /\ HasEnd(q)
<1>1. Len(q) \in Nat /\ Len(q) > 0 /\ q[1].t = "D0"
  BY DEF Comes
<1>2. CarriesAt(q, 0, src, m, last, 0)
  BY CarriesEach
<1>3. Len(q) = 1 /\ m = last
  BY <1>1, <1>2, LineFields DEF CarriesAt
<1>4. Tail(q) \in Seq(S) /\ Len(Tail(q)) = 0
  <2>1. q # <<>>
    BY DEF Comes
  <2>2. Tail(q) \in Seq(S) /\ Len(Tail(q)) = Len(q) - 1
    BY <2>1, HeadTailProperties
  <2> QED
    BY <1>3, <2>2
<1>5. Tail(q) = <<>>
  BY <1>4, EmptySeq
<1> QED
  BY <1>1, <1>3, <1>5 DEF HasEnd

\* The connection is cut.
LEMMA CarriesCut ==
    ASSUME NEW S, NEW q \in Seq(S), NEW o \in 0..1, NEW src, NEW m \in Nat, NEW last \in Nat,
           Carries(q, o, src, m, last), NEW n \in 0..Len(q)
    PROVE  /\ Carries(SubSeq(q, 1, n), o, src, m, last)
           /\ HasEnd(SubSeq(q, 1, n)) => HasEnd(q)
<1> DEFINE r == SubSeq(q, 1, n)
<1>1. /\ Len(q) \in Nat /\ n \in Nat /\ n <= Len(q) /\ Len(r) = n
      /\ \A i \in 1..n : r[i] = q[i]
  OBVIOUS
<1> HIDE DEF r
<1>2. ASSUME NEW k \in 0..Len(r) PROVE CarriesAt(r, o, src, m, last, k)
  <2>1. k \in Nat /\ CarriesAt(q, o, src, m, last, k)
    BY <1>1, CarriesEach
  <2> QED
    BY <1>1, <2>1 DEF CarriesAt
<1>3. HasEnd(r) => HasEnd(q)
  BY <1>1 DEF HasEnd
<1> QED
  BY <1>2, <1>3 DEF Carries, r

\* Without the end of the file every header is that of a frame.
LEMMA NoEndAt ==
    ASSUME NEW S, NEW q \in Seq(S), NEW o \in 0..1, NEW src, NEW m \in Nat, NEW last \in Nat,
           Carries(q, o, src, m, last), ~HasEnd(q), NEW k \in Nat, 2 * k + 1 + o <= Len(q)
    PROVE  q[2 * k + 1 + o] = Line("D")
<1>1. CarriesAt(q, o, src, m, last, k)
  BY CarriesEach
<1>2. 2 * k + 1 + o \in 1..Len(q)
  OBVIOUS
<1>3. q[2 * k + 1 + o].t # "D0"
  BY <1>2 DEF HasEnd
<1> QED
  BY <1>1, <1>3, LineFields DEF CarriesAt

\* A chunk is read from the file and not yet sent.
LEMMA CarriesRead ==
    ASSUME NEW S, NEW q \in Seq(S), NEW o \in 0..1, NEW src, NEW m \in Nat, NEW last \in Nat,
           Carries(q, o, src, m, last), ~HasEnd(q)
    PROVE  Carries(q, o, src, m, last + 1)
<1>1. ASSUME NEW k \in 0..Len(q) PROVE CarriesAt(q, o, src, m, last + 1, k)
  <2>1. k \in Nat /\ CarriesAt(q, o, src, m, last, k)
    BY CarriesEach
  <2>2. 2 * k + 1 + o <= Len(q) => q[2 * k + 1 + o] = Line("D")
    BY <2>1, NoEndAt
  <2> QED
    BY <2>1, <2>2 DEF CarriesAt
<1> QED
  BY <1>1 DEF Carries

\* A frame is sent.
LEMMA CarriesSend ==
    ASSUME NEW S, NEW q \in Seq(S), NEW o \in 0..1, NEW src, NEW m \in Nat, NEW last \in Nat,
           Carries(q, o, src, m, last), ~HasEnd(q), Len(q) = 2 * (last - 1 - m) + o,
           Line("D") \in S, Raw(src[last]) \in S
    PROVE  /\ Carries(q \o Frame(src[last]), o, src, m, last) /\ ~HasEnd(q \o Frame(src[last]))
           /\ Len(q \o Frame(src[last])) = 2 * (last - m) + o
<1> DEFINE r == q \o Frame(src[last])
<1>1. /\ Len(q) \in Nat /\ Len(r) = Len(q) + 2
      /\ \A i \in 1..Len(q) : r[i] = q[i]
      /\ r[Len(q) + 1] = Line("D") /\ r[Len(q) + 2] = Raw(src[last])
  <2>1. /\ Frame(src[last]) \in Seq(S) /\ Len(Frame(src[last])) = 2
        /\ Frame(src[last])[1] = Line("D") /\ Frame(src[last])[2] = Raw(src[last])
    BY DEF Frame
  <2>2. /\ Len(q) \in Nat /\ Len(r) = Len(q) + 2
        /\ \A i \in 1..(Len(q) + 2) :
              r[i] = IF i <= Len(q) THEN q[i] ELSE Frame(src[last])[i - Len(q)]
    <3> DEFINE f == Frame(src[last])
    <3>1. f \in Seq(S) /\ Len(f) = 2
      BY <2>1
    <3> HIDE DEF f
    <3>2. /\ Len(q \o f) = Len(q) + Len(f)
          /\ \A i \in 1..(Len(q) + Len(f)) : (q \o f)[i] = IF i <= Len(q) THEN q[i] ELSE f[i - Len(q)]
      BY <3>1, ConcatProperties
    <3> QED
      BY <3>1, <3>2 DEF f
  <2> HIDE DEF r
  <2>3. r[Len(q) + 1] = Frame(src[last])[1] /\ r[Len(q) + 2] = Frame(src[last])[2]
    <3>1. /\ Len(q) + 1 \in 1..(Len(q) + 2) /\ Len(q) + 2 \in 1..(Len(q) + 2)
          /\ Len(q) + 1 - Len(q) = 1 /\ Len(q) + 2 - Len(q) = 2
          /\ ~(Len(q) + 1 <= Len(q)) /\ ~(Len(q) + 2 <= Len(q))
      BY <2>2
    <3> QED
      BY <2>2, <3>1
  <2>4. Len(q) \in Nat /\ Len(r) = Len(q) + 2 /\ \A i \in 1..Len(q) : r[i] = q[i]
    BY <2>2
  <2>5. r[Len(q) + 1] = Line("D") /\ r[Len(q) + 2] = Raw(src[last])
    BY <2>1, <2>3
  <2> QED
    BY <2>4, <2>5
<1> HIDE DEF r
<1>2. ASSUME NEW k \in 0..Len(r) PROVE CarriesAt(r, o, src, m, last, k)
  <2>1. k \in Nat /\ CarriesAt(q, o, src, m, last, k)
    BY <1>1, CarriesEach
  <2>2. CASE 2 * k + 2 + o <= Len(q)
    BY <1>1, <2>1, <2>2 DEF CarriesAt
  <2>3. CASE 2 * k + 2 + o = Len(r)
    <3>1. 2 * k + 1 + o = Len(q) + 1 /\ m + k + 1 = last
      <4>1. 2 * k + 2 + o = Len(q) + 2 /\ Len(q) \in Nat /\ k \in Nat
        BY <1>1, <2>1, <2>3
      <4> QED
        BY <4>1, LastFrame
    <3> QED
      BY <1>1, <2>1, <2>3, <3>1 DEF CarriesAt
  <2>4. CASE 2 * k + o >= Len(r)
    BY <1>1, <2>1, <2>4 DEF CarriesAt
  <2> QED
    BY <1>1, <2>1, <2>2, <2>3, <2>4
<1>3. ASSUME NEW i \in 1..Len(r) PROVE r[i].t # "D0"
  <2>1. CASE i \in 1..Len(q)
    BY <1>1, <2>1 DEF HasEnd
  <2>2. CASE i = Len(q) + 1
    BY <1>1, <2>2, LineFields
  <2>3. CASE i = Len(q) + 2
    BY <1>1, <2>3, RawFields
  <2> QED
    BY <1>1, <2>1, <2>2, <2>3
<1>4. Len(r) = 2 * (last - m) + o
  BY <1>1
<1> QED
  BY <1>2, <1>3, <1>4 DEF Carries, HasEnd, r

\* The end of the file is sent.
LEMMA CarriesSendEnd ==
    ASSUME NEW S, NEW q \in Seq(S), NEW o \in 0..1, NEW src, NEW m \in Nat, NEW last \in Nat,
           Carries(q, o, src, m, last), ~HasEnd(q), Len(q) = 2 * (last - m) + o,
           Line("D0") \in S
    PROVE  Carries(q \o <<Line("D0")>>, o, src, m, last)
<1> DEFINE r == q \o <<Line("D0")>>
<1>1. /\ Len(q) \in Nat /\ Len(r) = Len(q) + 1
      /\ \A i \in 1..Len(q) : r[i] = q[i]
      /\ r[Len(q) + 1] = Line("D0")
  <2>1. <<Line("D0")>> \in Seq(S) /\ Len(<<Line("D0")>>) = 1 /\ <<Line("D0")>>[1] = Line("D0")
    OBVIOUS
  <2>2. /\ Len(q) \in Nat /\ Len(r) = Len(q) + 1
        /\ \A i \in 1..(Len(q) + 1) : r[i] = IF i <= Len(q) THEN q[i] ELSE <<Line("D0")>>[i - Len(q)]
    BY <2>1, ConcatProperties
  <2>3. r[Len(q) + 1] = <<Line("D0")>>[1]
    BY <2>2
  <2> QED
    BY <2>1, <2>2, <2>3
<1> HIDE DEF r
<1>2. ASSUME NEW k \in 0..Len(r) PROVE CarriesAt(r, o, src, m, last, k)
  <2>1. k \in Nat /\ CarriesAt(q, o, src, m, last, k)
    BY <1>1, CarriesEach
  <2>2. CASE 2 * k + 2 + o <= Len(q)
    <3>1. q[2 * k + 1 + o] = Line("D")
      <4>1. 2 * k + 1 + o <= Len(q)
        BY <1>1, <2>1, <2>2
      <4> QED
        BY <2>1, <4>1, NoEndAt
    <3> QED
      BY <1>1, <2>1, <2>2, <3>1 DEF CarriesAt
  <2>3. CASE 2 * k + 1 + o = Len(r)
    <3>1. m + k = last
      <4>1. Len(q) \in Nat /\ k \in Nat /\ 2 * k + 1 + o = Len(q) + 1
        BY <1>1, <2>1, <2>3
      <4>2. 2 * k = 2 * (last - m)
        BY <4>1
      <4> QED
        BY <4>1, <4>2
    <3> QED
      BY <1>1, <2>1, <2>3, <3>1 DEF CarriesAt
  <2>4. CASE 2 * k + o >= Len(r)
    BY <1>1, <2>1, <2>4 DEF CarriesAt
  <2> QED
    BY <1>1, <2>1, <2>2, <2>3, <2>4
<1> QED
  BY <1>2 DEF Carries, r

-----------------------------------------------------------------------------
(* Types.                                                                   *)

Values == Seq(AllChunks) \cup {Absent, Old}

FlatType ==
    /\ op \in {"PUT", "GET"} /\ cpc \in ClientPlaces /\ spc \in DaemonPlaces
    /\ local \in Values /\ remote \in Values
    /\ up \in Seq(Lines) /\ down \in Seq(Lines)
    /\ cend \in BOOLEAN /\ cut \in BOOLEAN /\ refused \in BOOLEAN /\ whole \in BOOLEAN

RposType == rpos \in 0..(IF Source = Absent THEN 0 ELSE Len(Source))

LEMMA TypeParts == TypeOK <=> FlatType /\ RposType
<1>1. {cend, cut, refused, whole} \subseteq BOOLEAN
      <=> cend \in BOOLEAN /\ cut \in BOOLEAN /\ refused \in BOOLEAN /\ whole \in BOOLEAN
  BY Zenon
<1>2. {local, remote} \subseteq Values <=> local \in Values /\ remote \in Values
  BY Zenon
<1> QED
  BY <1>1, <1>2, Zenon DEF TypeOK, FlatType, RposType, Values, AllChunks

\* How far the sender has got, in a PUT and in a GET.
LEMMA PutRpos == op = "PUT" /\ local \in Files(Kinds) => (RposType <=> rpos \in 0..Len(local))
<1> SUFFICES ASSUME op = "PUT", local \in Files(Kinds) PROVE RposType <=> rpos \in 0..Len(local)
  OBVIOUS
<1>1. local # Absent
  BY FileIsSeq
<1> QED
  BY <1>1 DEF RposType, Source

LEMMA GetRpos ==
    op = "GET" => (RposType <=> rpos \in 0..(IF remote = Absent THEN 0 ELSE Len(remote)))
BY DEF RposType, Source

LEMMA PutFacts ==
    ASSUME IInv, op = "PUT"
    PROVE  /\ local \in Seq(AllChunks) /\ Len(local) \in Nat /\ local \in Files(Kinds)
           /\ rpos \in Nat /\ rpos <= Len(local)
<1>1. local \in Files(Kinds)
  BY DEF IInv, PutBody, PutPlaces
<1>2. local \in Seq(AllChunks) /\ Len(local) \in Nat
  BY <1>1, FileIsSeq
<1>3. rpos \in 0..Len(local)
  BY <1>1, PutRpos, TypeParts DEF IInv
<1> QED
  BY <1>1, <1>2, <1>3

LEMMA GetFacts ==
    ASSUME IInv, op = "GET"
    PROVE  /\ rpos \in Nat /\ (remote = Absent => rpos = 0)
           /\ remote # Absent => /\ remote \in Seq(AllChunks) /\ Len(remote) \in Nat
                                /\ rpos <= Len(remote)
<1>1. remote \in Files({"text"}) \cup {Absent}
  BY DEF IInv, GetBody, GetPlaces
<1>2. remote # Absent => remote \in Seq(AllChunks) /\ Len(remote) \in Nat
  BY <1>1, FileIsSeq
<1>3. rpos \in 0..(IF remote = Absent THEN 0 ELSE Len(remote))
  BY GetRpos, TypeParts DEF IInv
<1> QED
  BY <1>2, <1>3

\* The lines of the protocol.
LEMMA LineTypes ==
    /\ \A t \in {"PUT", "GET", "OK", "ERR", "D", "D0"} : Line(t) \in Lines
    /\ \A x \in AllChunks : Raw(x) \in Lines
BY DEF Line, Raw, Lines, AllChunks

\* What is written to the client, and to the daemon, comes to it or is lost.
LEMMA ThenEffect ==
    ASSUME IInv, NEW ms, NEW l, Then(ms, l)
    PROVE  \/ spc' = l /\ cend = TRUE /\ cut = FALSE /\ down' = down \o ms
           \/ spc' \in {l, "closed"} /\ (cend = FALSE \/ cut = TRUE) /\ down' = down
<1>1. cend \in BOOLEAN /\ cut \in BOOLEAN
  BY TypeParts DEF IInv, FlatType
<1>2. \/ cend /\ ~cut /\ spc' = l /\ down' = down \o ms
      \/ ~(cend /\ ~cut) /\ spc' \in {l, "closed"} /\ down' = down
  BY DEF Then, Answer, AnswerFails, Hears
<1> QED
  BY <1>1, <1>2, Zenon

LEMMA SendEffect ==
    ASSUME IInv, NEW ms, Send(ms)
    PROVE  \/ spc # "closed" /\ cut = FALSE /\ up' = up \o ms
           \/ (spc = "closed" \/ cut = TRUE) /\ up' = up
<1>1. cut \in BOOLEAN
  BY TypeParts DEF IInv, FlatType
<1>2. \/ spc # "closed" /\ ~cut /\ up' = up \o ms
      \/ ~(spc # "closed" /\ ~cut) /\ up' = up
  BY DEF Send, Hears
<1> QED
  BY <1>1, <1>2, Zenon

-----------------------------------------------------------------------------
(* The steps: the ends of a transfer.                                       *)

LEMMA InitIInv == Init => IInv
<1> SUFFICES ASSUME Init PROVE IInv
  OBVIOUS
<1>1. /\ cpc = "start" /\ spc = "session" /\ rpos = 0 /\ up = <<>> /\ down = <<>>
      /\ cend = TRUE /\ cut = FALSE /\ refused = FALSE /\ whole = FALSE
  BY DEF Init
<1>2. cend \in BOOLEAN /\ cut \in BOOLEAN /\ refused \in BOOLEAN /\ whole \in BOOLEAN
  BY <1>1
<1>3. EndInv
  BY <1>1 DEF EndInv, Ended
<1>4. CASE op = "PUT"
  <2>1. local \in Files(Kinds) /\ remote \in {Absent, Old}
    BY <1>4 DEF Init
  <2>2. local \in Seq(AllChunks)
    BY <2>1, FileIsSeq
  <2>3. FlatType
    BY <1>1, <1>2, <1>4, <2>1, <2>2 DEF FlatType, ClientPlaces, DaemonPlaces, Values
  <2>4. RposType
    BY <1>1, <1>4, <2>1, <2>2, PutRpos
  <2>5. PutBody
    BY <1>1, <2>1 DEF PutBody, PutPlaces, PutProgress, PutFile, PutAsked, PutReply, PutStatusInv,
                      Sending
  <2> QED
    BY <1>3, <1>4, <2>3, <2>4, <2>5, TypeParts DEF IInv
<1>5. CASE op = "GET"
  <2>1. local = Absent /\ remote \in Files({"text"}) \cup {Absent}
    BY <1>5 DEF Init
  <2>2. remote # Absent => remote \in Seq(AllChunks)
    BY <2>1, FileIsSeq
  <2>3. FlatType
    BY <1>1, <1>2, <1>5, <2>1, <2>2 DEF FlatType, ClientPlaces, DaemonPlaces, Values
  <2>4. RposType
    BY <1>1, <1>5, <2>2, GetRpos
  <2>5. GetBody
    BY <1>1, <2>1 DEF GetBody, GetPlaces, GetAsked, GetReply, GetFile, Reading
  <2> QED
    BY <1>3, <1>5, <2>3, <2>4, <2>5, TypeParts DEF IInv
<1> QED
  BY <1>4, <1>5 DEF Init

\* gcds gives up, wherever it is.
LEMMA GivesUp ==
    ASSUME IInv, cpc \notin Ended, Leave("fail"),
           UNCHANGED <<op, spc, local, remote, rpos, up, cut, refused, whole>>
    PROVE  IInv'
<1>1. /\ cpc' = "fail" /\ cend' = FALSE /\ down' = <<>>
      /\ op' = op /\ spc' = spc /\ local' = local /\ remote' = remote /\ rpos' = rpos
      /\ up' = up /\ cut' = cut /\ refused' = refused /\ whole' = whole
  BY DEF Leave
<1>2. FlatType'
  <2>1. FlatType
    BY TypeParts DEF IInv
  <2>2. cend' \in BOOLEAN /\ cut' \in BOOLEAN /\ refused' \in BOOLEAN /\ whole' \in BOOLEAN
    BY <1>1, <2>1, Zenon DEF FlatType
  <2>3. down' \in Seq(Lines) /\ cpc' \in ClientPlaces
    BY <1>1 DEF ClientPlaces
  <2> QED
    BY <1>1, <2>1, <2>2, <2>3 DEF FlatType
<1>3. RposType'
  BY <1>1, TypeParts DEF IInv, RposType, Source
<1>4. TypeOK' /\ EndInv'
  <2>1. TypeOK'
    BY <1>2, <1>3, TypeParts, PTL
  <2> QED
    BY <1>1, <2>1 DEF EndInv, Ended
<1>5. CASE op = "PUT"
  <2>1. PutPlaces' /\ PutProgress' /\ PutFile'
    BY <1>1, <1>5 DEF IInv, PutBody, PutPlaces, PutProgress, PutFile, Stored, Ended
  <2>2. PutAsked' /\ PutReply' /\ PutStatusInv'
    BY <1>1, <1>5 DEF IInv, PutBody, PutAsked, PutReply, PutStatusInv, Sending
  <2>3. spc = "put" => PutFlow'
    BY <1>1, <1>5 DEF IInv, PutBody, PutFlow
  <2> QED
    BY <1>1, <1>4, <1>5, <2>1, <2>2, <2>3 DEF IInv, PutBody
<1>6. CASE op = "GET"
  <2>1. GetBody'
    BY <1>1, <1>6 DEF IInv, GetBody, GetPlaces, GetAsked, GetReply, GetFile, Ended
  <2> QED
    BY <1>1, <1>4, <1>6, <2>1 DEF IInv
<1> QED
  BY <1>5, <1>6, TypeParts DEF IInv, FlatType

\* session_run ends.
LEMMA SessionEofStep == ASSUME IInv, SessionEof PROVE IInv'
<1>1. /\ spc = "session" /\ spc' = "closed"
      /\ op' = op /\ cpc' = cpc /\ local' = local /\ remote' = remote /\ rpos' = rpos
      /\ up' = up /\ down' = down /\ cend' = cend /\ cut' = cut /\ refused' = refused
      /\ whole' = whole
  BY DEF SessionEof
<1>2. FlatType'
  BY <1>1, TypeParts DEF IInv, FlatType, DaemonPlaces
<1>3. RposType' /\ EndInv'
  BY <1>1, TypeParts DEF IInv, RposType, Source, EndInv
<1>4. TypeOK'
  BY <1>2, <1>3, TypeParts, PTL
<1>5. CASE op = "PUT"
  <2>1. PutPlaces' /\ PutProgress' /\ PutFile'
    BY <1>1, <1>5 DEF IInv, PutBody, PutPlaces, PutProgress, PutFile, Stored
  <2>2. PutAsked' /\ PutReply' /\ PutStatusInv'
    BY <1>1, <1>5 DEF IInv, PutBody, PutAsked, PutReply, PutStatusInv, Sending, Stored
  <2> QED
    BY <1>1, <1>3, <1>4, <1>5, <2>1, <2>2 DEF IInv, PutBody
<1>6. CASE op = "GET"
  <2>1. GetPlaces' /\ GetAsked' /\ GetReply' /\ GetFile'
    BY <1>1, <1>6 DEF IInv, GetBody, GetPlaces, GetAsked, GetReply, GetFile, Reading
  <2>2. cpc \in {"reply", "recv"} => GetFlow'
    BY <1>1, <1>6 DEF IInv, GetBody, GetFlow, Header, Got, Reading
  <2> QED
    BY <1>1, <1>3, <1>4, <1>6, <2>1, <2>2 DEF IInv, GetBody
<1> QED
  BY <1>5, <1>6, TypeParts DEF IInv, FlatType

LEMMA StutterStep == ASSUME IInv, UNCHANGED vars PROVE IInv'
<1>1. /\ op' = op /\ cpc' = cpc /\ spc' = spc /\ local' = local /\ remote' = remote
      /\ rpos' = rpos /\ up' = up /\ down' = down /\ cend' = cend /\ cut' = cut
      /\ refused' = refused /\ whole' = whole
  BY DEF vars
<1>2. FlatType' /\ RposType' /\ EndInv'
  BY <1>1, TypeParts DEF IInv, FlatType, RposType, Source, EndInv
<1>3. TypeOK'
  BY <1>2, TypeParts, PTL
<1>4. op = "PUT" => PutBody'
  BY <1>1 DEF IInv, PutBody, PutPlaces, PutProgress, PutFile, PutFlow, PutSent, PutAsked, PutReply,
              PutStatusInv, Stored
<1>5. op = "GET" => GetBody'
  BY <1>1 DEF IInv, GetBody, GetPlaces, GetAsked, GetReply, GetFile, GetFlow, GetSent, Header, Got
<1> QED
  BY <1>1, <1>2, <1>3, <1>4, <1>5 DEF IInv

LEMMA CutSeq ==
    ASSUME NEW q \in Seq(Lines), NEW n \in 0..Len(q), NEW r, r = SubSeq(q, 1, n)
    PROVE  /\ r \in Seq(Lines) /\ Len(r) = n /\ \A i \in 1..n : r[i] = q[i]
           /\ r # <<>> => n > 0 /\ q # <<>>
           /\ n = 0 => r = <<>>
           /\ n = Len(q) => r = q
<1>1. Len(q) \in Nat /\ n \in Nat /\ n <= Len(q)
  OBVIOUS
<1>2. r \in Seq(Lines) /\ Len(r) = n /\ \A i \in 1..n : r[i] = q[i]
  BY <1>1
<1>3. n = 0 => r = <<>>
  BY <1>2, EmptySeq
<1>4. n = Len(q) => r = q
  BY SubSeqFull
<1>5. r # <<>> => n > 0 /\ q # <<>>
  BY <1>1, <1>3, EmptySeq
<1> QED
  BY <1>2, <1>3, <1>4, <1>5

\* Of nothing nothing is left, of one line that line or nothing.
LEMMA CutShort ==
    ASSUME NEW q \in Seq(Lines), NEW n \in 0..Len(q), NEW r, r = SubSeq(q, 1, n)
    PROVE  /\ q = <<>> => r = <<>>
           /\ \A l : q = <<l>> => r \in {<<>>, <<l>>}
<1>1. q = <<>> => n = 0
  BY EmptySeq
<1>2. \A l : q = <<l>> => n = 0 \/ n = Len(q)
  OBVIOUS
<1>3. (n = 0 => r = <<>>) /\ (n = Len(q) => r = q)
  BY CutSeq
<1> QED
  BY <1>1, <1>2, <1>3

LEMMA CutStep == ASSUME IInv, Cut PROVE IInv'
<1>1. /\ cut' = TRUE /\ op' = op /\ cpc' = cpc /\ spc' = spc /\ local' = local
      /\ remote' = remote /\ rpos' = rpos /\ cend' = cend /\ refused' = refused
      /\ whole' = whole
  BY DEF Cut
<1>2. FlatType
  BY TypeParts DEF IInv
<1>3. up \in Seq(Lines) /\ down \in Seq(Lines)
  BY <1>2 DEF FlatType
<1>4. PICK n \in 0..Len(up) : up' = SubSeq(up, 1, n)
  BY DEF Cut
<1>5. PICK k \in 0..Len(down) : down' = SubSeq(down, 1, k)
  BY DEF Cut
<1>6. /\ up' \in Seq(Lines) /\ Len(up') = n /\ n \in Nat /\ n <= Len(up)
      /\ \A i \in 1..n : up'[i] = up[i]
      /\ up' # <<>> => up # <<>>
  BY <1>3, <1>4, CutSeq
<1>7. /\ down' \in Seq(Lines) /\ Len(down') = k /\ k \in Nat
      /\ down' # <<>> => down # <<>> /\ down'[1] = down[1]
  <2>1. /\ down' \in Seq(Lines) /\ Len(down') = k /\ \A i \in 1..k : down'[i] = down[i]
        /\ down' # <<>> => k > 0 /\ down # <<>>
    BY <1>3, <1>5, CutSeq
  <2> QED
    BY <2>1
<1>8. /\ up = <<>> => up' = <<>>
      /\ \A l : up = <<l>> => up' \in {<<>>, <<l>>}
  BY <1>3, <1>4, CutShort
<1>9. /\ down = <<>> => down' = <<>>
      /\ \A l : down = <<l>> => down' \in {<<>>, <<l>>}
  BY <1>3, <1>5, CutShort
<1>10. FlatType'
  <2>1. cend' \in BOOLEAN /\ cut' \in BOOLEAN /\ refused' \in BOOLEAN /\ whole' \in BOOLEAN
    BY <1>1, <1>2, Zenon DEF FlatType
  <2> QED
    BY <1>1, <1>2, <1>6, <1>7, <2>1 DEF FlatType
<1>11. RposType' /\ EndInv'
  BY <1>1, <1>9, TypeParts DEF IInv, RposType, Source, EndInv
<1>12. TypeOK'
  BY <1>10, <1>11, TypeParts, PTL
<1>13. CASE op = "PUT"
  <2>1. PutPlaces'
    BY <1>1, <1>6, <1>13 DEF IInv, PutBody, PutPlaces
  <2>2. PutProgress'
    BY <1>1, <1>8, <1>9, <1>13 DEF IInv, PutBody, PutProgress
  <2>3. Stored => Stored'
    BY <1>1, <1>8 DEF Stored
  <2>4. PutFile'
    BY <1>1, <1>6, <1>8, <1>13, <2>3 DEF IInv, PutBody, PutFile
  <2>5. PutAsked'
    <3> SUFFICES ASSUME NEW i \in 1..Len(up'), up'[i].t = "PUT"
                 PROVE  /\ up' = <<Line("PUT")>> /\ down' = <<>> /\ rpos' = 0 /\ whole' = FALSE
                        /\ refused' = FALSE /\ cpc' \in {"reply", "fail"} /\ spc' # "put"
      BY DEF PutAsked
    <3>1. i \in 1..Len(up) /\ up[i].t = "PUT" /\ up' # <<>>
      BY <1>6, EmptySeq
    <3> QED
      BY <1>1, <1>8, <1>9, <1>13, <3>1 DEF IInv, PutBody, PutAsked
  <2>6. PutReply'
    BY <1>1, <1>8, <1>9, <1>13 DEF IInv, PutBody, PutReply
  <2>7. PutStatusInv'
    BY <1>1, <1>7, <1>8, <1>13, <2>3 DEF IInv, PutBody, PutStatusInv
  <2>8. ASSUME spc = "put" PROVE PutFlow'
    <3>1. Carries(up', 0, local, Len(remote), rpos) /\ (HasEnd(up') => HasEnd(up))
      <4>1. Len(remote) \in Nat /\ rpos \in Nat /\ Carries(up, 0, local, Len(remote), rpos)
        <5>1. PutFlow
          BY <1>13, <2>8 DEF IInv, PutBody
        <5> QED
          BY <1>13, <5>1, PutFacts DEF PutFlow
      <4> QED
        BY <1>3, <1>4, <4>1, CarriesCut
    <3> QED
      BY <1>1, <1>13, <2>8, <3>1 DEF IInv, PutBody, PutFlow
  <2> QED
    BY <1>1, <1>11, <1>12, <1>13, <2>1, <2>2, <2>4, <2>5, <2>6, <2>7, <2>8 DEF IInv, PutBody
<1>14. CASE op = "GET"
  <2>1. GetPlaces'
    BY <1>1, <1>14 DEF IInv, GetBody, GetPlaces
  <2>2. GetAsked'
    BY <1>1, <1>8, <1>9, <1>14 DEF IInv, GetBody, GetAsked
  <2>3. GetReply'
    BY <1>1, <1>7, <1>9, <1>14 DEF IInv, GetBody, GetReply
  <2>4. GetFile'
    BY <1>1, <1>8, <1>14 DEF IInv, GetBody, GetFile
  <2>5. ASSUME cpc \in {"reply", "recv"} PROVE GetFlow'
    <3>1. Header \in 0..1 /\ Got \in Nat /\ rpos \in Nat
      BY <1>14, <2>5, GetFacts DEF IInv, GetBody, GetFile, Header, Got
    <3>2. Carries(down, Header, remote, Got, rpos)
      BY <1>14, <2>5 DEF IInv, GetBody, GetFlow
    <3>3. Carries(down', Header, remote, Got, rpos) /\ (HasEnd(down') => HasEnd(down))
      BY <1>3, <1>5, <3>1, <3>2, CarriesCut
    <3>4. Header' = Header /\ Got' = Got
      BY <1>1 DEF Header, Got
    <3> QED
      BY <1>1, <1>8, <1>14, <2>5, <3>3, <3>4 DEF IInv, GetBody, GetFlow
  <2> QED
    BY <1>1, <1>11, <1>12, <1>14, <2>1, <2>2, <2>3, <2>4, <2>5 DEF IInv, GetBody
<1> QED
  BY <1>2, <1>13, <1>14 DEF FlatType

-----------------------------------------------------------------------------
(* The steps: the request and its answer.                                   *)

LEMMA StartStep == ASSUME IInv, Start PROVE IInv'
<1>1. /\ cpc = "start"
      /\ op' = op /\ spc' = spc /\ local' = local /\ remote' = remote /\ rpos' = rpos
      /\ cut' = cut /\ refused' = refused /\ whole' = whole
  BY DEF Start
<1>2. FlatType
  BY TypeParts DEF IInv
<1>3. CASE Leave("fail") /\ UNCHANGED up
  BY <1>1, <1>3, GivesUp DEF Ended
<1>4. CASE Send(<<Line(op)>>) /\ cpc' = "reply" /\ UNCHANGED <<cend, down>>
  <2>1. up = <<>> /\ down = <<>> /\ rpos = 0
    BY <1>1, <1>2 DEF IInv, PutBody, PutProgress, GetBody, GetAsked, FlatType
  <2>2. up' \in {<<>>, <<Line(op)>>} /\ cpc' = "reply" /\ cend' = cend /\ down' = down
    <3>1. <<>> \o <<Line(op)>> = <<Line(op)>>
      OBVIOUS
    <3> QED
      BY <1>4, <2>1, <3>1, SendEffect
  <2>3. FlatType'
    <3>1. up' \in Seq(Lines)
      <4>1. Line(op) \in Lines
        BY <1>2, LineTypes DEF FlatType
      <4> DEFINE l == Line(op)
      <4> HIDE DEF l
      <4>2. <<>> \in Seq(Lines) /\ <<l>> \in Seq(Lines)
        BY <4>1 DEF l
      <4> QED
        BY <2>2, <4>2 DEF l
    <3>2. cend' \in BOOLEAN /\ cut' \in BOOLEAN /\ refused' \in BOOLEAN /\ whole' \in BOOLEAN
      BY <1>1, <1>2, <2>2, Zenon DEF FlatType
    <3> QED
      BY <1>1, <1>2, <2>2, <3>1, <3>2 DEF FlatType, ClientPlaces
  <2>4. RposType' /\ EndInv'
    BY <1>1, <2>2, TypeParts DEF IInv, RposType, Source, EndInv, Ended
  <2>5. TypeOK'
    BY <2>3, <2>4, TypeParts, PTL
  <2>6. CASE op = "PUT"
    <3>1. PutPlaces /\ PutProgress /\ PutFile
      BY <2>6 DEF IInv, PutBody
    <3>2. spc # "put" /\ whole = FALSE /\ refused = FALSE
      BY <1>1, <3>1 DEF PutProgress
    <3>3. PutPlaces'
      BY <1>1, <2>2, <2>6, <3>1, LineFields DEF PutPlaces
    <3>4. PutProgress'
      BY <1>1, <2>1, <2>2, <3>2 DEF PutProgress, Ended
    <3>5. PutFile'
      BY <1>1, <2>2, <2>6, <3>1, <3>2 DEF PutFile, Stored
    <3>6. PutAsked' /\ PutReply' /\ PutStatusInv'
      BY <1>1, <2>1, <2>2, <2>6, <3>2 DEF PutAsked, PutReply, PutStatusInv, Sending
    <3> QED
      BY <1>1, <2>4, <2>5, <2>6, <3>2, <3>3, <3>4, <3>5, <3>6 DEF IInv, PutBody
  <2>7. CASE op = "GET"
    <3>1. GetPlaces /\ GetAsked /\ spc \notin Reading
      BY <1>1, <2>7 DEF IInv, GetBody, GetAsked
    <3>2. GetPlaces'
      BY <1>1, <2>2, <3>1 DEF GetPlaces
    <3>3. GetAsked'
      BY <1>1, <2>1, <2>2, <2>7, <3>1 DEF GetAsked
    <3>4. GetReply' /\ GetFile'
      BY <2>1, <2>2 DEF GetReply, GetFile
    <3>5. GetFlow'
      <4>1. Carries(<<>>, 1, remote', 0, rpos') /\ ~HasEnd(<<>>)
        BY <1>1, <2>1, CarriesNothing
      <4>2. Header' = 1 /\ Got' = 0 /\ down' = <<>> /\ spc' \notin Reading
        BY <1>1, <2>1, <2>2, <3>1 DEF Header, Got
      <4> QED
        BY <4>1, <4>2 DEF GetFlow
    <3> QED
      BY <1>1, <2>4, <2>5, <2>7, <3>2, <3>3, <3>4, <3>5 DEF IInv, GetBody
  <2> QED
    BY <1>2, <2>6, <2>7 DEF FlatType
<1> QED
  BY <1>3, <1>4 DEF Start

LEMMA AcceptedStep == ASSUME IInv, Accepted PROVE IInv'
<1>1. /\ cpc = "reply" /\ Comes(down, "OK") /\ down' = Tail(down)
      /\ op' = op /\ spc' = spc /\ remote' = remote /\ rpos' = rpos /\ up' = up
      /\ cend' = cend /\ cut' = cut /\ refused' = refused /\ whole' = whole
  BY DEF Accepted
<1>2. \/ op = "PUT" /\ cpc' = "send" /\ local' = local
      \/ op = "GET" /\ cpc' = "recv" /\ local' = <<>>
      \/ op = "GET" /\ cpc' = "drain" /\ local' = local
  BY DEF Accepted
<1>3. FlatType /\ down \in Seq(Lines) /\ down # <<>> /\ down[1].t = "OK"
  BY <1>1, TypeParts DEF IInv, FlatType, Comes
<1>4. FlatType'
  <2>1. down' \in Seq(Lines)
    BY <1>1, <1>3, HeadTailProperties
  <2>2. local' \in Values /\ cpc' \in ClientPlaces
    <3>1. <<>> \in Values /\ local \in Values
      BY <1>3 DEF FlatType, Values
    <3> QED
      BY <1>2, <3>1 DEF ClientPlaces
  <2>3. cend' \in BOOLEAN /\ cut' \in BOOLEAN /\ refused' \in BOOLEAN /\ whole' \in BOOLEAN
    BY <1>1, <1>3, Zenon DEF FlatType
  <2> QED
    BY <1>1, <1>3, <2>1, <2>2, <2>3 DEF FlatType
<1>5. RposType' /\ EndInv'
  BY <1>1, <1>2, TypeParts DEF IInv, RposType, Source, EndInv, Ended
<1>6. TypeOK'
  BY <1>4, <1>5, TypeParts, PTL
<1>7. CASE op = "PUT"
  <2>1. PutPlaces /\ PutProgress /\ PutFile /\ PutReply /\ PutAsked /\ (spc = "put" => PutFlow)
    BY <1>7 DEF IInv, PutBody
  <2>2. down = <<Line("OK")>>
    BY <1>1, <1>3, <2>1, LineFields DEF PutReply
  <2>3. down' = <<>> /\ up = <<>> /\ spc \in {"put", "closed"}
    BY <1>1, <2>1, <2>2 DEF PutReply
  <2>4. rpos = 0 /\ whole = FALSE /\ refused = FALSE /\ cpc' = "send" /\ local' = local
    BY <1>1, <1>2, <1>7, <2>1 DEF PutProgress
  <2>5. PutPlaces' /\ PutProgress' /\ PutAsked'
    BY <1>1, <2>1, <2>3, <2>4 DEF PutPlaces, PutProgress, PutAsked, Ended
  <2>6. PutFile'
    BY <1>1, <2>1, <2>3, <2>4 DEF PutFile, Stored
  <2>7. PutReply' /\ PutStatusInv'
    BY <1>1, <2>3, <2>4 DEF PutReply, PutStatusInv
  <2>8. ASSUME spc = "put" PROVE PutFlow'
    <3>1. PutFlow
      BY <2>1, <2>8
    <3>2. Len(remote) = 0 /\ Len(up) = 0
      BY <2>3, <2>4, <3>1 DEF PutFlow
    <3>3. PutSent' = 0
      BY <1>1, <2>4 DEF PutSent
    <3>4. ~HasEnd(up)
      BY <2>3 DEF HasEnd
    <3> QED
      BY <1>1, <2>4, <3>1, <3>2, <3>3, <3>4 DEF PutFlow
  <2> QED
    BY <1>1, <1>5, <1>6, <1>7, <2>5, <2>6, <2>7, <2>8 DEF IInv, PutBody
<1>8. CASE op = "GET"
  <2>1. GetPlaces /\ GetAsked /\ GetReply /\ GetFlow
    BY <1>1, <1>8 DEF IInv, GetBody
  <2>2. remote # Absent /\ up = <<>>
    BY <1>1, <1>3, <2>1, LineFields DEF GetReply, GetAsked
  <2>3. GetPlaces' /\ GetAsked' /\ GetReply'
    BY <1>1, <1>2, <1>8, <2>1, <2>2 DEF GetPlaces, GetAsked, GetReply, Ended
  <2>4. rpos \in Nat /\ Len(remote) \in Nat
    BY <1>8, <2>2, GetFacts
  <2>5. GetFile'
    <3>1. <<>> \in Seq(AllChunks) /\ Len(<<>>) = 0
      OBVIOUS
    <3>2. Len(<<>>) <= rpos /\ Prefix(<<>>, remote)
      BY <2>4, <3>1 DEF Prefix
    <3> QED
      BY <1>1, <1>2, <1>8, <2>2, <3>1, <3>2 DEF GetFile
  <2>6. ASSUME cpc' = "recv" PROVE GetFlow'
    <3>1. Header = 1 /\ Got = 0 /\ Header' = 0 /\ Got' = 0
      BY <1>1, <1>2, <2>6 DEF Header, Got
    <3>2. Carries(down', 0, remote, 0, rpos) /\ (HasEnd(down') => HasEnd(down))
      BY <1>1, <1>3, <2>1, <2>4, <3>1, CarriesBehind DEF GetFlow
    <3>3. Len(down') = Len(down) - 1 /\ Len(down) \in Nat
      BY <1>1, <1>3, HeadTailProperties
    <3>4. GetSent' = GetSent /\ GetSent \in Int
      BY <1>1, <2>4 DEF GetSent
    <3>5. cut = FALSE /\ spc \in Reading => Len(down') = 2 * (GetSent - 0) + 0
      BY <2>1, <3>1, <3>3, <3>4 DEF GetFlow
    <3> QED
      BY <1>1, <2>1, <3>1, <3>2, <3>4, <3>5 DEF GetFlow
  <2> QED
    BY <1>1, <1>2, <1>5, <1>6, <1>8, <2>3, <2>5, <2>6 DEF IInv, GetBody
<1> QED
  BY <1>2, <1>7, <1>8

-----------------------------------------------------------------------------
(* The steps: xfer_put.                                                     *)

\* Lines are added to those under way.
LEMMA AppendLines ==
    ASSUME NEW q \in Seq(Lines), NEW ms \in Seq(Lines), NEW T,
           \A i \in 1..Len(ms) : ms[i].t \in T
    PROVE  /\ q \o ms \in Seq(Lines)
           /\ \A i \in 1..Len(q \o ms) :
                 (i \in 1..Len(q) /\ (q \o ms)[i] = q[i]) \/ (q \o ms)[i].t \in T
           /\ q # <<>> => q \o ms # <<>> /\ (q \o ms)[1] = q[1]
<1>1. Len(q) \in Nat /\ Len(ms) \in Nat
  OBVIOUS
<1>2. /\ q \o ms \in Seq(Lines) /\ Len(q \o ms) = Len(q) + Len(ms)
      /\ \A i \in 1..(Len(q) + Len(ms)) : (q \o ms)[i] = IF i <= Len(q) THEN q[i] ELSE ms[i - Len(q)]
  BY ConcatProperties
<1> DEFINE r == q \o ms
<1> HIDE DEF r
<1>3. ASSUME NEW i \in 1..Len(r) PROVE (i \in 1..Len(q) /\ r[i] = q[i]) \/ r[i].t \in T
  <2>1. i \in 1..(Len(q) + Len(ms))
    BY <1>2 DEF r
  <2>2. CASE i <= Len(q)
    BY <1>1, <1>2, <2>1, <2>2 DEF r
  <2>3. CASE ~(i <= Len(q))
    <3>1. r[i] = ms[i - Len(q)] /\ i - Len(q) \in 1..Len(ms)
      BY <1>1, <1>2, <2>1, <2>3 DEF r
    <3> QED
      BY <3>1
  <2> QED
    BY <2>2, <2>3
<1>4. ASSUME q # <<>> PROVE r # <<>> /\ r[1] = q[1]
  <2>1. Len(q) > 0
    BY <1>1, <1>4, EmptySeq
  <2>2. Len(r) > 0 /\ r[1] = q[1]
    BY <1>1, <1>2, <2>1 DEF r
  <2>3. r # <<>>
    BY <2>2, EmptySeq
  <2> QED
    BY <2>2, <2>3
<1> QED
  BY <1>2, <1>3, <1>4 DEF r

LEMMA PutReadStep == ASSUME IInv, PutRead PROVE IInv'
<1>1. /\ cpc = "send"
      /\ op' = op /\ spc' = spc /\ local' = local /\ remote' = remote /\ up' = up
      /\ down' = down /\ cend' = cend /\ cut' = cut /\ refused' = refused
  BY DEF PutRead
<1>2. \/ rpos < Len(local) /\ rpos' = rpos + 1 /\ cpc' = "frame" /\ whole' = whole
      \/ cpc' = "eof" /\ whole' = TRUE /\ rpos' = rpos
  BY DEF PutRead
<1>3. FlatType
  BY TypeParts DEF IInv
<1>4. op = "PUT"
  BY <1>1, <1>3 DEF IInv, GetBody, GetPlaces, FlatType, Ended
<1>5. PutPlaces /\ PutProgress /\ PutFile /\ PutAsked /\ PutStatusInv
  BY <1>4 DEF IInv, PutBody
<1>6. /\ local \in Seq(AllChunks) /\ Len(local) \in Nat /\ local \in Files(Kinds)
      /\ rpos \in Nat /\ rpos <= Len(local)
  BY <1>4, PutFacts
<1>7. FlatType'
  <2>1. whole' \in BOOLEAN
    <3>1. whole' = whole \/ whole' = TRUE
      BY <1>2
    <3>2. whole \in BOOLEAN
      BY <1>3 DEF FlatType
    <3> QED
      BY <3>1, <3>2, Zenon
  <2>2. cend' \in BOOLEAN /\ cut' \in BOOLEAN /\ refused' \in BOOLEAN
    BY <1>1, <1>3, Zenon DEF FlatType
  <2>3. cpc' \in ClientPlaces
    BY <1>2 DEF ClientPlaces
  <2> QED
    BY <1>1, <1>3, <2>1, <2>2, <2>3 DEF FlatType
<1>8. RposType'
  <2>1. rpos' \in 0..Len(local')
    BY <1>1, <1>2, <1>6
  <2>2. op' = "PUT" /\ local' # Absent
    BY <1>1, <1>4, <1>6, FileIsSeq
  <2> QED
    BY <2>1, <2>2 DEF RposType, Source
<1>9. TypeOK' /\ EndInv'
  <2>1. TypeOK'
    BY <1>7, <1>8, TypeParts, PTL
  <2>2. EndInv'
    BY <1>1, <1>2 DEF IInv, EndInv, Ended
  <2> QED
    BY <2>1, <2>2
<1>10. PutPlaces' /\ PutAsked'
  BY <1>1, <1>2, <1>5 DEF PutPlaces, PutAsked
<1>11. whole = FALSE
  BY <1>1, <1>3, <1>5 DEF PutProgress, FlatType, Ended
<1>12. PutProgress'
  BY <1>2, <1>6, <1>11 DEF PutProgress
<1>13. PutFile'
  BY <1>1, <1>2, <1>5, <1>11 DEF PutFile, Stored
<1>14. PutReply' /\ PutStatusInv'
  BY <1>1, <1>2, <1>5 DEF PutReply, PutStatusInv, Sending
<1>15. ASSUME spc = "put" PROVE PutFlow'
  <2>1. PutFlow
    BY <1>4, <1>15 DEF IInv, PutBody
  <2>2. ~HasEnd(up) /\ Len(remote) \in Nat /\ up \in Seq(Lines)
    BY <1>1, <1>3, <2>1 DEF PutFlow, FlatType
  <2>3. Carries(up', 0, local', Len(remote'), rpos')
    BY <1>1, <1>2, <1>6, <2>1, <2>2, CarriesRead DEF PutFlow
  <2>4. PutSent' = PutSent
    BY <1>1, <1>2, <1>6 DEF PutSent
  <2>5. Len(remote') <= rpos'
    BY <1>1, <1>2, <1>6, <2>1, <2>2 DEF PutFlow
  <2> QED
    BY <1>1, <2>1, <2>2, <2>3, <2>4, <2>5 DEF PutFlow
<1> QED
  BY <1>1, <1>4, <1>9, <1>10, <1>12, <1>13, <1>14, <1>15 DEF IInv, PutBody

\* Frames, and the end of the file, go to the daemon or get lost.
LEMMA PutWriteStep == ASSUME IInv, PutWrite PROVE IInv'
<1>1. /\ cpc \in {"frame", "eof"}
      /\ op' = op /\ spc' = spc /\ local' = local /\ remote' = remote /\ rpos' = rpos
      /\ cut' = cut /\ refused' = refused /\ whole' = whole
  BY DEF PutWrite
<1>2. FlatType /\ up \in Seq(Lines)
  BY TypeParts DEF IInv, FlatType
<1>3. op = "PUT"
  BY <1>1, <1>2 DEF IInv, GetBody, GetPlaces, FlatType, Ended
<1>4. PutPlaces /\ PutProgress /\ PutFile /\ PutAsked /\ PutStatusInv
  BY <1>3 DEF IInv, PutBody
<1>5. /\ local \in Seq(AllChunks) /\ Len(local) \in Nat /\ rpos \in Nat /\ rpos <= Len(local)
  BY <1>3, PutFacts
<1>6. CASE Leave("fail") /\ UNCHANGED up
  BY <1>1, <1>6, GivesUp DEF Ended
<1>7. ASSUME NEW ms \in Seq(Lines), \A i \in 1..Len(ms) : ms[i].t \in {"D", "D0", "raw"},
             Send(ms), UNCHANGED <<cend, down>>,
             \/ cpc = "frame" /\ cpc' = "send"
             \/ cpc = "eof" /\ cpc' = "final",
             spc = "put" => PutFlow'
      PROVE  IInv'
  <2>1. \/ spc # "closed" /\ cut = FALSE /\ up' = up \o ms
        \/ (spc = "closed" \/ cut = TRUE) /\ up' = up
    BY <1>7, SendEffect
  <2>2. /\ up' \in Seq(Lines)
        /\ \A i \in 1..Len(up') :
              (i \in 1..Len(up) /\ up'[i] = up[i]) \/ up'[i].t \in {"D", "D0", "raw"}
    <3>1. CASE up' = up
      BY <1>2, <3>1
    <3>2. CASE up' = up \o ms
      BY <1>2, <1>7, <3>2, AppendLines
    <3> QED
      BY <2>1, <3>1, <3>2
  <2>3. FlatType'
    <3>1. cend' \in BOOLEAN /\ cut' \in BOOLEAN /\ refused' \in BOOLEAN /\ whole' \in BOOLEAN
      BY <1>1, <1>2, <1>7, Zenon DEF FlatType
    <3>2. cpc' \in ClientPlaces /\ down' \in Seq(Lines)
      BY <1>2, <1>7 DEF ClientPlaces, FlatType
    <3> QED
      BY <1>1, <1>2, <2>2, <3>1, <3>2 DEF FlatType
  <2>4. RposType' /\ EndInv'
    BY <1>1, <1>7, TypeParts DEF IInv, RposType, Source, EndInv, Ended
  <2>5. TypeOK'
    BY <2>3, <2>4, TypeParts, PTL
  <2>6. PutPlaces'
    BY <1>1, <1>4, <1>7, <2>2 DEF PutPlaces
  <2>7. PutProgress'
    BY <1>1, <1>4, <1>7 DEF PutProgress, Ended
  <2>8. spc = "session" => refused = TRUE
    BY <1>1, <1>4 DEF PutStatusInv, Sending
  <2>9. spc \in {"session", "put", "closed"}
    BY <1>4 DEF PutPlaces
  <2>10. PutFile'
    <3>1. CASE spc = "put"
      BY <1>1, <1>4, <1>7, <3>1 DEF PutFile
    <3>2. CASE spc = "session"
      BY <1>1, <1>4, <1>7, <2>8, <3>2 DEF PutFile
    <3>3. CASE spc = "closed"
      BY <1>1, <1>4, <1>7, <2>1, <3>3 DEF PutFile, Stored
    <3> QED
      BY <2>9, <3>1, <3>2, <3>3
  <2>11. PutAsked' /\ PutReply'
    BY <1>1, <1>4, <1>7, <2>2 DEF PutAsked, PutReply
  <2>12. PutStatusInv'
    BY <1>1, <1>4, <1>7, <2>8 DEF PutStatusInv, Sending
  <2> QED
    BY <1>1, <1>3, <1>7, <2>4, <2>5, <2>6, <2>7, <2>10, <2>11, <2>12 DEF IInv, PutBody
<1>8. CASE cpc = "frame" /\ Send(Frame(local[rpos])) /\ cpc' = "send" /\ UNCHANGED <<cend, down>>
  <2>1. rpos > 0 /\ local[rpos] \in AllChunks
    BY <1>4, <1>5, <1>8 DEF PutProgress
  <2>2. Line("D") \in Lines /\ Raw(local[rpos]) \in Lines
    BY <2>1, LineTypes
  <2>3. Frame(local[rpos]) \in Seq(Lines)
    BY <2>2 DEF Frame
  <2>4. \A i \in 1..Len(Frame(local[rpos])) : Frame(local[rpos])[i].t \in {"D", "D0", "raw"}
    BY LineFields, RawFields DEF Frame
  <2>5. ASSUME spc = "put" PROVE PutFlow'
    <3>1. PutFlow
      BY <1>3, <2>5 DEF IInv, PutBody
    <3>2. Len(remote) \in Nat /\ ~HasEnd(up)
      BY <1>8, <3>1 DEF PutFlow
    <3>3. PutSent = rpos - 1 /\ PutSent' = rpos
      BY <1>1, <1>8 DEF PutSent
    <3>4. CASE cut = FALSE /\ up' = up \o Frame(local[rpos])
      <4>1. Len(up) = 2 * (rpos - 1 - Len(remote)) + 0
        BY <1>1, <1>8, <3>1, <3>2, <3>3, <3>4 DEF PutFlow
      <4>2. /\ Carries(up', 0, local, Len(remote), rpos) /\ ~HasEnd(up')
            /\ Len(up') = 2 * (rpos - Len(remote)) + 0
        BY <1>2, <1>5, <2>2, <3>1, <3>2, <3>4, <4>1, CarriesSend DEF PutFlow
      <4>3. Len(up') = 2 * (rpos - Len(remote))
        BY <1>5, <3>2, <4>2
      <4> QED
        BY <1>1, <1>8, <3>1, <3>3, <4>2, <4>3 DEF PutFlow
    <3>5. CASE cut = TRUE /\ up' = up
      BY <1>1, <1>8, <3>1, <3>2, <3>5 DEF PutFlow
    <3> QED
      BY <1>8, <2>5, <3>4, <3>5, SendEffect
  <2> QED
    BY <1>7, <1>8, <2>3, <2>4, <2>5
<1>9. CASE cpc = "eof" /\ Send(<<Line("D0")>>) /\ cpc' = "final" /\ UNCHANGED <<cend, down>>
  <2>1. Line("D0") \in Lines
    BY LineTypes
  <2>2. <<Line("D0")>> \in Seq(Lines)
    BY <2>1
  <2>3. \A i \in 1..Len(<<Line("D0")>>) : <<Line("D0")>>[i].t \in {"D", "D0", "raw"}
    BY LineFields
  <2>4. ASSUME spc = "put" PROVE PutFlow'
    <3>1. PutFlow /\ whole = TRUE
      BY <1>3, <1>4, <1>9, <2>4 DEF IInv, PutBody, PutProgress
    <3>2. Len(remote) \in Nat /\ ~HasEnd(up)
      BY <1>9, <3>1 DEF PutFlow
    <3>3. CASE cut = FALSE /\ up' = up \o <<Line("D0")>>
      <4>1. Len(up) = 2 * (rpos - Len(remote)) + 0
        BY <1>5, <1>9, <3>1, <3>2, <3>3 DEF PutFlow, PutSent
      <4>2. Carries(up', 0, local, Len(remote), rpos)
        <5>1. Carries(up, 0, local, Len(remote), rpos)
          BY <3>1 DEF PutFlow
        <5> QED
          BY <1>2, <1>5, <2>1, <3>2, <3>3, <4>1, <5>1, CarriesSendEnd
      <4> QED
        BY <1>1, <1>9, <3>1, <4>2 DEF PutFlow
    <3>4. CASE cut = TRUE /\ up' = up
      BY <1>1, <1>9, <3>1, <3>2, <3>4 DEF PutFlow
    <3> QED
      BY <1>9, <2>4, <3>3, <3>4, SendEffect
  <2> QED
    BY <1>7, <1>9, <2>2, <2>3, <2>4
<1> QED
  BY <1>6, <1>8, <1>9 DEF PutWrite

\* An exit with 0 means that the file is there.
LEMMA PutStatusStep == ASSUME IInv, PutStatus PROVE IInv'
<1>1. /\ cpc = "final"
      /\ op' = op /\ spc' = spc /\ local' = local /\ remote' = remote /\ rpos' = rpos
      /\ up' = up /\ cut' = cut /\ refused' = refused /\ whole' = whole
  BY DEF PutStatus
<1>2. FlatType
  BY TypeParts DEF IInv
<1>3. op = "PUT"
  BY <1>1, <1>2 DEF IInv, GetBody, GetPlaces, FlatType, Ended
<1>4. CASE Leave("fail")
  BY <1>1, <1>4, GivesUp DEF Ended
<1>5. CASE Comes(down, "OK") /\ Leave("ok")
  <2>1. cpc' = "ok" /\ cend' = FALSE /\ down' = <<>>
    BY <1>5 DEF Leave
  <2>2. PutPlaces /\ PutProgress /\ PutFile /\ PutAsked /\ PutStatusInv
    BY <1>3 DEF IInv, PutBody
  <2>3. spc # "put" /\ Stored
    <3>1. down # <<>> /\ down[1].t = "OK"
      BY <1>2, <1>5 DEF Comes, FlatType
    <3> QED
      BY <1>1, <2>2, <3>1 DEF PutStatusInv, Sending
  <2>4. FlatType'
    <3>1. cend' \in BOOLEAN /\ cut' \in BOOLEAN /\ refused' \in BOOLEAN /\ whole' \in BOOLEAN
      BY <1>1, <1>2, <2>1, Zenon DEF FlatType
    <3>2. cpc' \in ClientPlaces /\ down' \in Seq(Lines)
      BY <2>1 DEF ClientPlaces
    <3> QED
      BY <1>1, <1>2, <3>1, <3>2 DEF FlatType
  <2>5. RposType' /\ EndInv'
    BY <1>1, <2>1, TypeParts DEF IInv, RposType, Source, EndInv, Ended
  <2>6. TypeOK'
    BY <2>4, <2>5, TypeParts, PTL
  <2>7. PutPlaces' /\ PutAsked' /\ PutReply' /\ PutStatusInv'
    BY <1>1, <2>1, <2>2 DEF PutPlaces, PutAsked, PutReply, PutStatusInv, Sending
  <2>8. PutProgress' /\ PutFile'
    BY <1>1, <2>1, <2>2, <2>3 DEF PutProgress, PutFile, Stored, Ended
  <2> QED
    BY <1>1, <1>3, <2>3, <2>5, <2>6, <2>7, <2>8 DEF IInv, PutBody
<1> QED
  BY <1>4, <1>5 DEF PutStatus

-----------------------------------------------------------------------------
(* The steps: do_put.                                                       *)

\* What a step of the daemon leaves alone, and the types of what it changes.
LEMMA DaemonFrame ==
    ASSUME IInv,
           op' = op, cpc' = cpc, local' = local, rpos' = rpos, cend' = cend, cut' = cut,
           whole' = whole, refused' \in BOOLEAN,
           spc' \in DaemonPlaces, remote' \in Values, up' \in Seq(Lines), down' \in Seq(Lines),
           op = "GET" => remote' = remote,
           cend = FALSE => down' = down
    PROVE  TypeOK' /\ EndInv'
<1>1. FlatType /\ RposType /\ EndInv
  BY TypeParts DEF IInv
<1>2. FlatType'
  <2>1. cend' \in BOOLEAN /\ cut' \in BOOLEAN /\ whole' \in BOOLEAN
    <3>1. cend' = cend /\ cut' = cut /\ whole' = whole
      OBVIOUS
    <3> QED
      BY <1>1, <3>1, Zenon DEF FlatType
  <2>2. op' \in {"PUT", "GET"} /\ cpc' \in ClientPlaces /\ local' \in Values
    BY <1>1 DEF FlatType
  <2> QED
    BY <2>1, <2>2 DEF FlatType
<1>3. RposType'
  BY <1>1 DEF RposType, Source, FlatType
<1>4. TypeOK'
  BY <1>2, <1>3, TypeParts, PTL
<1>5. EndInv'
  BY <1>1 DEF EndInv
<1> QED
  BY <1>4, <1>5

\* The answer to the client is of the protocol, and a client that is gone gets none.
LEMMA AnswerTypes ==
    ASSUME IInv, NEW ms \in Seq(Lines), NEW l, Then(ms, l)
    PROVE  down' \in Seq(Lines) /\ spc' \in {l, "closed"} /\ (cend = FALSE => down' = down)
<1>1. down \in Seq(Lines)
  BY TypeParts DEF IInv, FlatType
<1>2. down \o ms \in Seq(Lines)
  BY <1>1, ConcatProperties
<1>3. \/ spc' = l /\ cend = TRUE /\ cut = FALSE /\ down' = down \o ms
      \/ spc' \in {l, "closed"} /\ (cend = FALSE \/ cut = TRUE) /\ down' = down
  BY ThenEffect
<1> QED
  BY <1>1, <1>2, <1>3

\* An answer of one line, when nothing else is under way to the client.
LEMMA AnswerAlone ==
    ASSUME IInv, NEW t \in {"OK", "ERR"}, NEW l, Then(<<Line(t)>>, l), down = <<>>
    PROVE  /\ down' \in Seq(Lines) /\ spc' \in {l, "closed"} /\ (cend = FALSE => down' = down)
           /\ \/ spc' = l /\ cend = TRUE /\ cut = FALSE /\ down' = <<Line(t)>>
              \/ (cend = FALSE \/ cut = TRUE) /\ down' = <<>>
<1>1. Line(t) \in Lines
  BY LineTypes
<1> DEFINE m == Line(t)
<1> HIDE DEF m
<1>2. <<m>> \in Seq(Lines) /\ <<>> \o <<m>> = <<m>>
  BY <1>1 DEF m
<1>3. down' \in Seq(Lines) /\ spc' \in {l, "closed"} /\ (cend = FALSE => down' = down)
  BY <1>2, AnswerTypes DEF m
<1>4. \/ spc' = l /\ cend = TRUE /\ cut = FALSE /\ down' = down \o <<m>>
      \/ spc' \in {l, "closed"} /\ (cend = FALSE \/ cut = TRUE) /\ down' = down
  BY ThenEffect DEF m
<1> QED
  BY <1>2, <1>3, <1>4 DEF m

LEMMA OpenPutStep == ASSUME IInv, OpenPut PROVE IInv'
<1>1. /\ spc = "session" /\ Comes(up, "PUT") /\ up' = Tail(up)
      /\ op' = op /\ cpc' = cpc /\ local' = local /\ rpos' = rpos /\ cend' = cend
      /\ cut' = cut /\ refused' = refused /\ whole' = whole
  BY DEF OpenPut
<1>2. FlatType /\ up \in Seq(Lines) /\ up # <<>> /\ up[1].t = "PUT" /\ 1 \in 1..Len(up)
  <2>1. FlatType /\ up \in Seq(Lines) /\ up # <<>> /\ up[1].t = "PUT"
    BY <1>1, TypeParts DEF IInv, FlatType, Comes
  <2> QED
    BY <2>1, EmptySeq
<1>3. op = "PUT"
  <2>1. op = "GET" => up = <<Line("GET")>>
    BY <1>2 DEF IInv, GetBody, GetAsked
  <2>2. up = <<Line("GET")>> => up[1].t = "GET"
    BY LineFields
  <2> QED
    BY <1>2, <2>1, <2>2 DEF FlatType
<1>4. PutPlaces /\ PutProgress /\ PutFile /\ PutAsked /\ EndInv
  BY <1>3 DEF IInv, PutBody
<1>5. /\ up = <<Line("PUT")>> /\ down = <<>> /\ rpos = 0 /\ whole = FALSE /\ refused = FALSE
      /\ cpc \in {"reply", "fail"}
  BY <1>2, <1>4 DEF PutAsked
<1>6. up' = <<>>
  BY <1>1, <1>5
<1>7. \/ remote' = <<>> /\ Then(<<Line("OK")>>, "put")
      \/ remote' = remote /\ Then(<<Line("ERR")>>, "session")
  BY DEF OpenPut
<1>8. /\ down' \in Seq(Lines) /\ (cend = FALSE => down' = down)
      /\ \/ remote' = <<>> /\ spc' \in {"put", "closed"} /\ down' \in {<<>>, <<Line("OK")>>}
         \/ remote' = remote /\ spc' \in {"session", "closed"} /\ down' \in {<<>>, <<Line("ERR")>>}
  <2>1. CASE remote' = <<>> /\ Then(<<Line("OK")>>, "put")
    BY <1>5, <2>1, AnswerAlone
  <2>2. CASE remote' = remote /\ Then(<<Line("ERR")>>, "session")
    BY <1>5, <2>2, AnswerAlone
  <2> QED
    BY <1>7, <2>1, <2>2
<1>9. TypeOK' /\ EndInv'
  <2>1. remote' \in Values /\ spc' \in DaemonPlaces /\ up' \in Seq(Lines)
    <3>1. <<>> \in Values /\ remote \in Values
      BY <1>2 DEF FlatType, Values
    <3> QED
      BY <1>6, <1>8, <3>1 DEF DaemonPlaces
  <2>2. refused' \in BOOLEAN
    BY <1>1, <1>5
  <2> QED
    BY <1>1, <1>3, <1>8, <2>1, <2>2, DaemonFrame
<1>10. PutPlaces' /\ PutProgress' /\ PutAsked'
  BY <1>1, <1>4, <1>5, <1>6, <1>8 DEF PutPlaces, PutProgress, PutAsked
<1>11. PutFile'
  BY <1>1, <1>4, <1>5, <1>6, <1>8 DEF PutFile, Stored
<1>12. PutReply' /\ PutStatusInv'
  <2>1. <<Line("OK")>> # <<Line("ERR")>> /\ <<Line("OK")>> # <<>>
    BY LineFields
  <2> QED
    BY <1>1, <1>5, <1>6, <1>8, <2>1 DEF PutReply, PutStatusInv, Sending
<1>13. ASSUME spc' = "put" PROVE PutFlow'
  <2>1. remote' = <<>> /\ Len(remote') = 0 /\ remote' \in Seq(AllChunks)
    BY <1>8, <1>13
  <2>2. Carries(up', 0, local, 0, 0) /\ ~HasEnd(up')
    BY <1>6, CarriesNothing
  <2>3. local \in Seq(AllChunks) /\ Len(local) \in Nat
    BY <1>3, PutFacts
  <2>4. Prefix(remote', local')
    BY <1>1, <2>1, <2>3 DEF Prefix
  <2> QED
    BY <1>1, <1>5, <2>1, <2>2, <2>4 DEF PutFlow
<1> QED
  BY <1>1, <1>3, <1>9, <1>10, <1>11, <1>12, <1>13 DEF IInv, PutBody

\* While do_put is at work and lines are under way to it, nothing is to the client.
LEMMA PutQuiet ==
    ASSUME IInv, spc = "put", up # <<>>
    PROVE  /\ op = "PUT" /\ PutFlow /\ down = <<>> /\ cpc \in Sending \cup {"fail"}
           /\ \A i \in 1..Len(up) : up[i].t \notin {"PUT", "GET"}
<1>1. FlatType /\ op = "PUT"
  BY TypeParts DEF IInv, GetBody, GetPlaces, Reading, FlatType
<1>2. PutPlaces /\ PutProgress /\ PutFile /\ PutAsked /\ PutReply /\ PutStatusInv /\ PutFlow
  BY <1>1 DEF IInv, PutBody
<1>3. cpc \notin {"start", "reply", "ok", "recv", "drain"}
  BY <1>2 DEF PutPlaces, PutProgress, PutFile, PutReply
<1>4. cpc \in Sending \cup {"fail"}
  BY <1>1, <1>3 DEF FlatType, ClientPlaces, Sending
<1>5. down = <<>>
  BY <1>2, <1>4 DEF IInv, EndInv, Ended, PutStatusInv
<1> QED
  BY <1>1, <1>2, <1>4, <1>5 DEF PutPlaces, PutAsked

\* do_put removes the file: the session goes on or ends, and up is shorter.
LEMMA Removed ==
    ASSUME IInv, spc = "put", up # <<>>, Then(<<Line("ERR")>>, "session"), remote' = Absent,
           op' = op, cpc' = cpc, local' = local, rpos' = rpos, cend' = cend, cut' = cut,
           whole' = whole, up' \in Seq(Lines),
           \A i \in 1..Len(up') : \E j \in 1..Len(up) : up'[i] = up[j],
           refused' = TRUE \/ (refused' = refused /\ up' = <<>> /\ cpc \in {"final", "fail"})
    PROVE  IInv'
<1>1. /\ op = "PUT" /\ PutFlow /\ down = <<>> /\ cpc \in Sending \cup {"fail"}
      /\ \A i \in 1..Len(up) : up[i].t \notin {"PUT", "GET"}
  BY PutQuiet
<1>2. FlatType /\ PutPlaces /\ PutProgress /\ PutFile /\ EndInv
  BY <1>1, TypeParts DEF IInv, PutBody
<1>3. /\ down' \in Seq(Lines) /\ spc' \in {"session", "closed"} /\ (cend = FALSE => down' = down)
      /\ \/ cend = TRUE /\ cut = FALSE /\ down' = <<Line("ERR")>>
         \/ (cend = FALSE \/ cut = TRUE) /\ down' = <<>>
  BY <1>1, AnswerAlone
<1>4. refused = FALSE
  BY <1>1 DEF PutFlow
<1>5. TypeOK' /\ EndInv'
  <2>1. remote' \in Values /\ spc' \in DaemonPlaces
    BY <1>3 DEF DaemonPlaces, Values
  <2>2. refused' \in BOOLEAN
    <3>1. CASE refused' = TRUE
      BY <3>1
    <3>2. CASE refused' = refused
      BY <1>4, <3>2
    <3> QED
      BY <3>1, <3>2
  <2> QED
    BY <1>1, <1>3, <2>1, <2>2, DaemonFrame
<1>6. \A i \in 1..Len(up') : up'[i].t \notin {"PUT", "GET"}
  BY <1>1
<1>7. PutPlaces' /\ PutAsked'
  BY <1>2, <1>3, <1>6 DEF PutPlaces, PutAsked
<1>8. PutProgress' /\ PutReply'
  BY <1>1, <1>2 DEF PutProgress, PutReply, Sending, Ended
<1>9. PutFile'
  BY <1>1, <1>3, <1>4 DEF PutFile, Sending
<1>10. PutStatusInv'
  <2>1. cpc \in Sending => cend = TRUE
    BY <1>2 DEF EndInv, Sending, Ended
  <2>2. down' # <<>> => down' = <<Line("ERR")>> /\ down'[1].t = "ERR"
    BY <1>3, LineFields
  <2>3. ASSUME cpc \in Sending PROVE down' # <<>> \/ cut' = TRUE
    <3>1. <<Line("ERR")>> # <<>>
      OBVIOUS
    <3>2. CASE down' = <<Line("ERR")>>
      BY <3>1, <3>2
    <3>3. CASE cut = TRUE
      BY <3>3
    <3> QED
      BY <1>3, <2>1, <2>3, <3>2, <3>3
  <2>4. ASSUME cpc \in Sending, spc' = "session"
        PROVE  refused' = TRUE \/ (cpc' = "final" /\ up' = <<>>)
    BY <2>4 DEF Sending
  <2> QED
    BY <1>3, <2>2, <2>3, <2>4 DEF PutStatusInv
<1> QED
  BY <1>1, <1>3, <1>5, <1>7, <1>8, <1>9, <1>10 DEF IInv, PutBody

\* The file of the daemon grows by the chunk that is next.
LEMMA PrefixGrows ==
    ASSUME NEW S, NEW f \in Seq(S), NEW src \in Seq(S), Prefix(f, src), NEW last \in Nat,
           Len(f) + 1 <= last, last <= Len(src)
    PROVE  /\ Append(f, src[Len(f) + 1]) \in Seq(S)
           /\ Len(Append(f, src[Len(f) + 1])) = Len(f) + 1
           /\ Prefix(Append(f, src[Len(f) + 1]), src)
<1>1. Len(f) \in Nat /\ Len(src) \in Nat /\ Len(f) + 1 \in 1..Len(src)
  OBVIOUS
<1>2. src[Len(f) + 1] \in S
  BY <1>1
<1> DEFINE x == src[Len(f) + 1]
           g == Append(f, x)
<1>3. x \in S
  BY <1>2
<1> HIDE DEF x
<1>4. /\ g \in Seq(S) /\ Len(g) = Len(f) + 1
      /\ \A i \in 1..Len(f) : g[i] = f[i]
      /\ g[Len(f) + 1] = x
  BY <1>3, AppendProperties
<1> HIDE DEF g
<1>5. ASSUME NEW i \in 1..Len(g) PROVE g[i] = src[i]
  <2>1. CASE i \in 1..Len(f)
    BY <1>4, <2>1 DEF Prefix
  <2>2. CASE i = Len(f) + 1
    BY <1>4, <2>2 DEF x
  <2> QED
    BY <1>1, <1>4, <2>1, <2>2
<1> QED
  BY <1>1, <1>4, <1>5 DEF Prefix, g, x

\* All of what was read has arrived.
LEMMA PrefixWhole ==
    ASSUME NEW S, NEW f \in Seq(S), NEW src \in Seq(S), Prefix(f, src)
    PROVE  f = SubSeq(src, 1, Len(f))
<1>1. Len(f) \in Nat /\ Len(src) \in Nat /\ Len(f) <= Len(src)
  BY DEF Prefix
<1> DEFINE g == SubSeq(src, 1, Len(f))
<1>2. g \in Seq(S) /\ Len(g) = Len(f) /\ \A i \in 1..Len(f) : g[i] = src[i]
  BY <1>1
<1> HIDE DEF g
<1>3. \A i \in 1..Len(f) : f[i] = g[i]
  BY <1>2 DEF Prefix
<1>4. f = g
  BY <1>2, <1>3, SeqEqual
<1> QED
  BY <1>4 DEF g

LEMMA StoreStep == ASSUME IInv, Store PROVE IInv'
<1>1. /\ spc = "put" /\ Comes(up, "D") /\ up' = Rest(up) /\ up # <<>>
      /\ op' = op /\ cpc' = cpc /\ local' = local /\ rpos' = rpos /\ cend' = cend
      /\ cut' = cut /\ whole' = whole
  BY DEF Store, Comes
<1>2. /\ op = "PUT" /\ PutFlow /\ down = <<>> /\ cpc \in Sending \cup {"fail"}
      /\ \A i \in 1..Len(up) : up[i].t \notin {"PUT", "GET"}
  BY <1>1, PutQuiet
<1>3. FlatType /\ PutPlaces /\ PutProgress /\ PutFile /\ PutStatusInv /\ up \in Seq(Lines)
  BY <1>2, TypeParts DEF IInv, PutBody, FlatType
<1>4. /\ local \in Seq(AllChunks) /\ Len(local) \in Nat /\ rpos \in Nat /\ rpos <= Len(local)
  BY <1>2, PutFacts
<1>5. remote \in Seq(AllChunks) /\ Len(remote) \in Nat
  BY <1>2 DEF PutFlow
<1>6. /\ Data(up) = local[Len(remote) + 1] /\ Len(remote) + 1 <= rpos
      /\ up' \in Seq(Lines) /\ Len(up') = Len(up) - 2 /\ Len(up) \in Nat
      /\ \A i \in 1..Len(up') : up'[i] = up[i + 2]
      /\ Carries(up', 0, local, Len(remote) + 1, rpos)
      /\ HasEnd(up') => HasEnd(up)
  BY <1>1, <1>2, <1>3, <1>4, <1>5, CarriesFrame DEF PutFlow
<1>7. \A i \in 1..Len(up') : \E j \in 1..Len(up) : up'[i] = up[j]
  <2> SUFFICES ASSUME NEW i \in 1..Len(up') PROVE \E j \in 1..Len(up) : up'[i] = up[j]
    OBVIOUS
  <2>1. i + 2 \in 1..Len(up) /\ up'[i] = up[i + 2]
    BY <1>6
  <2> QED
    BY <2>1
<1>8. CASE remote' = Absent /\ Then(<<Line("ERR")>>, "session") /\ refused' = TRUE
  BY <1>1, <1>6, <1>7, <1>8, Removed
<1>9. CASE remote' = Append(remote, Data(up)) /\ UNCHANGED <<spc, down, refused>>
  <2>1. spc' = "put" /\ down' = <<>> /\ refused' = FALSE
    BY <1>1, <1>2, <1>9 DEF PutFlow
  <2>2. /\ remote' \in Seq(AllChunks) /\ Len(remote') = Len(remote) + 1
        /\ Prefix(remote', local)
    BY <1>2, <1>4, <1>5, <1>6, <1>9, PrefixGrows DEF PutFlow
  <2>3. TypeOK' /\ EndInv'
    <3>1. remote' \in Values /\ spc' \in DaemonPlaces /\ down' \in Seq(Lines) /\ down' = down
      BY <1>2, <2>1, <2>2 DEF DaemonPlaces, Values
    <3>2. refused' \in BOOLEAN
      BY <2>1
    <3> QED
      BY <1>1, <1>2, <1>6, <3>1, <3>2, DaemonFrame
  <2>4. \A i \in 1..Len(up') : up'[i].t \notin {"PUT", "GET"}
    BY <1>2, <1>7
  <2>5. PutPlaces' /\ PutAsked'
    BY <1>1, <1>3, <2>1, <2>4 DEF PutPlaces, PutAsked
  <2>6. PutProgress' /\ PutReply' /\ PutFile' /\ PutStatusInv'
    BY <1>1, <1>2, <1>3, <2>1 DEF PutProgress, PutReply, PutFile, PutStatusInv, Sending, Ended
  <2>7. PutFlow'
    <3>1. PutSent' = PutSent /\ PutSent \in Int
      BY <1>1, <1>4 DEF PutSent
    <3>2. cut = FALSE /\ cpc \in {"send", "frame", "eof"} => Len(up) = 2 * (PutSent - Len(remote))
      BY <1>2 DEF PutFlow
    <3>3. cut = FALSE /\ cpc \in {"send", "frame", "eof"} =>
            Len(up') = 2 * (PutSent - (Len(remote) + 1))
      BY <1>5, <1>6, <3>1, <3>2
    <3>4. HasEnd(up') => whole = TRUE /\ cpc \in {"final", "fail"}
      BY <1>2, <1>6 DEF PutFlow
    <3> QED
      BY <1>1, <1>6, <2>1, <2>2, <3>1, <3>3, <3>4 DEF PutFlow
  <2> QED
    BY <1>1, <1>2, <2>1, <2>3, <2>5, <2>6, <2>7 DEF IInv, PutBody
<1> QED
  BY <1>8, <1>9 DEF Store

LEMMA ClosePutStep == ASSUME IInv, ClosePut PROVE IInv'
<1>1. /\ spc = "put" /\ Comes(up, "D0") /\ up' = Tail(up) /\ up # <<>>
      /\ op' = op /\ cpc' = cpc /\ local' = local /\ rpos' = rpos /\ cend' = cend
      /\ cut' = cut /\ whole' = whole /\ refused' = refused
  BY DEF ClosePut, Comes
<1>2. op = "PUT" /\ PutFlow /\ down = <<>> /\ cpc \in Sending \cup {"fail"}
  BY <1>1, PutQuiet
<1>3. FlatType /\ PutPlaces /\ PutProgress /\ EndInv /\ up \in Seq(Lines)
  BY <1>2, TypeParts DEF IInv, PutBody, FlatType
<1>4. /\ local \in Seq(AllChunks) /\ Len(local) \in Nat /\ rpos \in Nat /\ rpos <= Len(local)
  BY <1>2, PutFacts
<1>5. remote \in Seq(AllChunks) /\ Len(remote) \in Nat /\ refused = FALSE
  BY <1>2 DEF PutFlow
<1>6. Len(remote) = rpos /\ up' = <<>> /\ HasEnd(up)
  BY <1>1, <1>2, <1>3, <1>4, <1>5, CarriesEnd DEF PutFlow
<1>7. whole = TRUE /\ cpc \in {"final", "fail"}
  BY <1>2, <1>6 DEF PutFlow
<1>8. CASE Then(<<Line("ERR")>>, "session") /\ remote' = Absent
  <2>1. up' \in Seq(Lines) /\ Len(up') = 0
    BY <1>6
  <2>2. \A i \in 1..Len(up') : \E j \in 1..Len(up) : up'[i] = up[j]
    BY <2>1
  <2> QED
    BY <1>1, <1>6, <1>7, <1>8, <2>1, <2>2, Removed
<1>9. CASE Then(<<Line("OK")>>, "session") /\ remote' = remote
  <2>1. /\ down' \in Seq(Lines) /\ spc' \in {"session", "closed"} /\ (cend = FALSE => down' = down)
        /\ \/ cend = TRUE /\ cut = FALSE /\ down' = <<Line("OK")>>
           \/ (cend = FALSE \/ cut = TRUE) /\ down' = <<>>
    BY <1>2, <1>9, AnswerAlone
  <2>2. Stored'
    <3>1. Prefix(remote, local)
      BY <1>2 DEF PutFlow
    <3>2. remote = SubSeq(local, 1, rpos)
      BY <1>4, <1>5, <1>6, <3>1, PrefixWhole
    <3> QED
      BY <1>1, <1>6, <1>7, <1>9, <3>2 DEF Stored
  <2>3. TypeOK' /\ EndInv'
    <3>1. remote' \in Values /\ spc' \in DaemonPlaces /\ up' \in Seq(Lines)
      BY <1>5, <1>6, <1>9, <2>1 DEF DaemonPlaces, Values
    <3>2. refused' \in BOOLEAN
      BY <1>1, <1>5
    <3> QED
      BY <1>1, <1>2, <2>1, <3>1, <3>2, DaemonFrame
  <2>4. PutPlaces' /\ PutAsked' /\ PutReply'
    BY <1>1, <1>3, <1>6, <1>7, <2>1 DEF PutPlaces, PutAsked, PutReply
  <2>5. PutProgress' /\ PutFile'
    BY <1>1, <1>3, <1>5, <1>6, <1>7, <2>1, <2>2 DEF PutProgress, PutFile, Ended
  <2>6. PutStatusInv'
    BY <1>1, <1>5, <1>6, <1>7, <2>1, <2>2 DEF PutStatusInv, Sending
  <2> QED
    BY <1>1, <1>2, <2>1, <2>3, <2>4, <2>5, <2>6 DEF IInv, PutBody
<1> QED
  BY <1>8, <1>9 DEF ClosePut

LEMMA LostPutStep == ASSUME IInv, LostPut PROVE IInv'
<1>1. /\ spc = "put" /\ remote' = Absent /\ spc' = "closed"
      /\ op' = op /\ cpc' = cpc /\ local' = local /\ rpos' = rpos /\ up' = up /\ down' = down
      /\ cend' = cend /\ cut' = cut /\ refused' = refused /\ whole' = whole
  BY DEF LostPut
<1>2. FlatType /\ op = "PUT"
  BY <1>1, TypeParts DEF IInv, GetBody, GetPlaces, Reading, FlatType
<1>3. PutPlaces /\ PutProgress /\ PutFile /\ PutAsked /\ PutReply /\ PutStatusInv /\ PutFlow
  BY <1>1, <1>2 DEF IInv, PutBody
<1>4. TypeOK' /\ EndInv'
  <2>1. remote' \in Values /\ spc' \in DaemonPlaces /\ up' \in Seq(Lines) /\ down' \in Seq(Lines)
    BY <1>1, <1>2 DEF DaemonPlaces, Values, FlatType
  <2>2. refused' \in BOOLEAN
    BY <1>1, <1>2 DEF FlatType
  <2> QED
    BY <1>1, <1>2, <2>1, <2>2, DaemonFrame
<1>5. refused = FALSE
  BY <1>3 DEF PutFlow
<1>6. PutPlaces' /\ PutProgress' /\ PutFile' /\ PutAsked'
  BY <1>1, <1>3, <1>5 DEF PutPlaces, PutProgress, PutFile, PutAsked, Ended
<1>7. PutReply' /\ PutStatusInv'
  BY <1>1, <1>3, <1>5 DEF PutReply, PutStatusInv
<1> QED
  BY <1>1, <1>2, <1>4, <1>6, <1>7 DEF IInv, PutBody

\* What follows a refused frame does not hide the refusal from the client.
LEMMA StrayStep == ASSUME IInv, Stray PROVE IInv'
<1>1. /\ spc = "session" /\ up # <<>> /\ Head(up).t \in {"D", "D0", "raw"} /\ up' = Tail(up)
      /\ op' = op /\ cpc' = cpc /\ local' = local /\ remote' = remote /\ rpos' = rpos
      /\ cend' = cend /\ cut' = cut /\ refused' = refused /\ whole' = whole
  BY DEF Stray
<1>2. PICK t \in {"OK", "ERR"}, l \in {"session", "closed"} : Then(<<Line(t)>>, l)
  BY DEF Stray
<1>3. FlatType /\ EndInv /\ up \in Seq(Lines) /\ down \in Seq(Lines)
  BY TypeParts DEF IInv, FlatType
<1>4. up # <<Line("PUT")>> /\ up # <<Line("GET")>>
  BY <1>1, LineFields
<1>5. op = "PUT"
  BY <1>1, <1>3, <1>4 DEF IInv, GetBody, GetAsked, FlatType
<1>6. PutPlaces /\ PutProgress /\ PutFile /\ PutAsked /\ PutStatusInv
  BY <1>5 DEF IInv, PutBody
<1>7. refused = TRUE /\ remote = Absent
  BY <1>1, <1>4, <1>6 DEF PutFile
<1>8. cpc \notin {"start", "reply", "ok"}
  BY <1>1, <1>6, <1>7 DEF PutProgress, PutFile, Stored
<1>9. \A i \in 1..Len(up) : up[i].t \notin {"PUT", "GET"}
  BY <1>4, <1>6 DEF PutAsked, PutPlaces
<1>10. up' \in Seq(Lines) /\ \A i \in 1..Len(up') : up'[i].t \notin {"PUT", "GET"}
  <2>1. /\ up' \in Seq(Lines) /\ Len(up') = Len(up) - 1 /\ Len(up) \in Nat
        /\ \A i \in 1..(Len(up) - 1) : up'[i] = up[i + 1]
    BY <1>1, <1>3, HeadTailProperties
  <2>2. ASSUME NEW i \in 1..Len(up') PROVE up'[i].t \notin {"PUT", "GET"}
    <3>1. i + 1 \in 1..Len(up) /\ up'[i] = up[i + 1]
      BY <2>1
    <3> QED
      BY <1>9, <3>1
  <2> QED
    BY <2>1, <2>2
<1>11. Line(t) \in Lines
  BY LineTypes
<1> DEFINE ms == <<Line(t)>>
<1>12. ms \in Seq(Lines) /\ \A i \in 1..Len(ms) : ms[i].t \in {"OK", "ERR"}
  <2>1. ms[1].t = t
    BY LineFields
  <2> QED
    BY <1>11, <2>1
<1>13. Then(ms, l)
  BY <1>2
<1> HIDE DEF ms
<1>14. down' \in Seq(Lines) /\ spc' \in {"session", "closed"} /\ (cend = FALSE => down' = down)
  BY <1>12, <1>13, AnswerTypes
<1>15. down # <<>> => down' # <<>> /\ down'[1] = down[1]
  BY <1>3, <1>12, <1>13, ThenEffect, AppendLines
<1>16. cut = TRUE => down' = down
  BY <1>13, ThenEffect
<1>17. TypeOK' /\ EndInv'
  <2>1. remote' \in Values /\ spc' \in DaemonPlaces
    BY <1>1, <1>3, <1>14 DEF DaemonPlaces, FlatType
  <2>2. refused' \in BOOLEAN
    BY <1>1, <1>7
  <2> QED
    BY <1>1, <1>5, <1>10, <1>14, <2>1, <2>2, DaemonFrame
<1>18. PutPlaces' /\ PutAsked'
  BY <1>1, <1>6, <1>10, <1>14 DEF PutPlaces, PutAsked
<1>19. PutProgress' /\ PutFile' /\ PutReply'
  BY <1>1, <1>6, <1>7, <1>8, <1>14 DEF PutProgress, PutFile, PutReply
<1>20. PutStatusInv'
  <2> SUFFICES ASSUME cpc \in Sending PROVE PutStatusInv'
    BY <1>1 DEF PutStatusInv
  <2>1. (down # <<>> => down[1].t = "ERR") /\ (down # <<>> \/ cut = TRUE)
    BY <1>1, <1>6, <1>7 DEF PutStatusInv, Stored
  <2>2. (down' # <<>> => down'[1].t = "ERR") /\ (down' # <<>> \/ cut = TRUE)
    BY <1>15, <1>16, <2>1
  <2> QED
    BY <1>1, <1>7, <1>14, <2>2 DEF PutStatusInv
<1> QED
  BY <1>1, <1>5, <1>14, <1>17, <1>18, <1>19, <1>20 DEF IInv, PutBody

-----------------------------------------------------------------------------
(* The steps: do_get.                                                       *)

LEMMA OpenGetStep == ASSUME IInv, OpenGet PROVE IInv'
<1>1. /\ spc = "session" /\ Comes(up, "GET") /\ up' = Tail(up)
      /\ op' = op /\ cpc' = cpc /\ local' = local /\ remote' = remote /\ rpos' = rpos
      /\ cend' = cend /\ cut' = cut /\ refused' = refused /\ whole' = whole
  BY DEF OpenGet
<1>2. FlatType /\ EndInv /\ up \in Seq(Lines) /\ up # <<>> /\ up[1].t = "GET" /\ 1 \in 1..Len(up)
  <2>1. FlatType /\ EndInv /\ up \in Seq(Lines) /\ up # <<>> /\ up[1].t = "GET"
    BY <1>1, TypeParts DEF IInv, FlatType, Comes
  <2> QED
    BY <2>1, EmptySeq
<1>3. op = "GET"
  BY <1>2 DEF IInv, PutBody, PutPlaces, FlatType
<1>4. GetPlaces /\ GetAsked
  BY <1>3 DEF IInv, GetBody
<1>5. up = <<Line("GET")>> /\ rpos = 0 /\ down = <<>> /\ cpc \in {"reply", "fail"} /\ up' = <<>>
  BY <1>1, <1>2, <1>4 DEF GetAsked
<1>6. \/ remote # Absent /\ Then(<<Line("OK")>>, "get")
      \/ Then(<<Line("ERR")>>, "session")
  BY DEF OpenGet
<1>7. PICK t \in {"OK", "ERR"}, l \in {"get", "session"} :
        /\ Then(<<Line(t)>>, l) /\ (t = "OK" => remote # Absent) /\ (t = "ERR" <=> l = "session")
  BY <1>6
<1>8. /\ down' \in Seq(Lines) /\ spc' \in {l, "closed"} /\ (cend = FALSE => down' = down)
      /\ \/ spc' = l /\ cend = TRUE /\ cut = FALSE /\ down' = <<Line(t)>>
         \/ (cend = FALSE \/ cut = TRUE) /\ down' = <<>>
  BY <1>5, <1>7, AnswerAlone
<1>9. TypeOK' /\ EndInv'
  <2>1. remote' \in Values /\ spc' \in DaemonPlaces /\ up' \in Seq(Lines)
    BY <1>1, <1>2, <1>5, <1>8 DEF DaemonPlaces, FlatType
  <2>2. refused' \in BOOLEAN
    BY <1>1, <1>2 DEF FlatType
  <2> QED
    BY <1>1, <1>3, <1>8, <2>1, <2>2, DaemonFrame
<1>10. spc' \in Reading => t = "OK" /\ spc' = "get"
  BY <1>7, <1>8 DEF Reading
<1>11. GetPlaces'
  BY <1>1, <1>4, <1>7, <1>8, <1>10 DEF GetPlaces, Reading
<1>12. GetAsked' /\ GetFile'
  BY <1>1, <1>5 DEF GetAsked, GetFile
<1>13. GetReply'
  <2>1. down' # <<>> => down' = <<Line(t)>>
    BY <1>8
  <2>2. t = "ERR" => spc' \notin Reading
    BY <1>10
  <2> QED
    BY <1>1, <1>7, <2>1, <2>2 DEF GetReply
<1>14. ASSUME cpc = "reply" PROVE GetFlow'
  <2>1. Header' = 1 /\ Got' = 0 /\ (spc' \in Reading => GetSent' = 0) /\ cend = TRUE
    BY <1>1, <1>2, <1>5, <1>10, <1>14 DEF Header, Got, GetSent, EndInv, Ended
  <2>2. CASE down' = <<Line(t)>>
    <3>1. Carries(<<Line(t)>>, 1, remote', 0, rpos')
      BY <1>1, <1>5, CarriesHeader
    <3>2. ~HasEnd(<<Line(t)>>) /\ Len(<<Line(t)>>) = 1
      BY LineFields DEF HasEnd
    <3> QED
      BY <2>1, <2>2, <3>1, <3>2 DEF GetFlow
  <2>3. CASE down' = <<>> /\ cut = TRUE
    <3>1. Carries(<<>>, 1, remote', 0, rpos') /\ ~HasEnd(<<>>)
      BY <1>1, <1>5, CarriesNothing
    <3> QED
      BY <1>1, <2>1, <2>3, <3>1 DEF GetFlow
  <2> QED
    BY <1>8, <2>1, <2>2, <2>3
<1> QED
  BY <1>1, <1>3, <1>5, <1>9, <1>11, <1>12, <1>13, <1>14 DEF IInv, GetBody

\* What holds while do_get reads its file.
LEMMA GetBusy ==
    ASSUME IInv, spc \in Reading
    PROVE  /\ op = "GET" /\ up = <<>> /\ cpc \in {"reply", "recv", "drain", "fail"}
           /\ remote # Absent /\ remote \in Seq(AllChunks) /\ Len(remote) \in Nat
           /\ rpos \in Nat /\ rpos <= Len(remote)
           /\ cpc \in {"reply", "recv"} =>
                 /\ GetFlow /\ ~HasEnd(down) /\ Header \in 0..1 /\ Got \in Nat /\ Got <= rpos
                 /\ Carries(down, Header, remote, Got, rpos)
           /\ cpc = "reply" /\ down # <<>> => down[1] = Line("OK")
<1>1. op = "GET"
  BY TypeParts DEF IInv, PutBody, PutPlaces, FlatType, Reading
<1>2. GetPlaces /\ GetAsked /\ GetReply /\ GetFile /\ (cpc \in {"reply", "recv"} => GetFlow)
  BY <1>1 DEF IInv, GetBody
<1>3. up = <<>> /\ remote # Absent /\ cpc \in {"reply", "recv", "drain", "fail"}
  BY <1>2 DEF GetPlaces, GetAsked, GetFile, Ended
<1>4. /\ remote \in Seq(AllChunks) /\ Len(remote) \in Nat /\ rpos \in Nat /\ rpos <= Len(remote)
  BY <1>1, <1>3, GetFacts
<1>5. ASSUME cpc \in {"reply", "recv"}
      PROVE  /\ GetFlow /\ ~HasEnd(down) /\ Header \in 0..1 /\ Got \in Nat /\ Got <= rpos
             /\ Carries(down, Header, remote, Got, rpos)
  <2>1. GetFlow /\ ~HasEnd(down) /\ Carries(down, Header, remote, Got, rpos)
    BY <1>2, <1>5 DEF GetFlow
  <2>2. CASE cpc = "reply"
    BY <1>4, <2>1, <2>2 DEF Header, Got
  <2>3. CASE cpc = "recv"
    BY <1>2, <1>4, <2>1, <2>3 DEF Header, Got, GetFile
  <2> QED
    BY <1>5, <2>2, <2>3
<1>6. cpc = "reply" /\ down # <<>> => down[1] = Line("OK")
  BY <1>2 DEF GetReply
<1> QED
  BY <1>1, <1>3, <1>4, <1>5, <1>6

LEMMA GetReadStep == ASSUME IInv, GetRead PROVE IInv'
<1>1. /\ spc = "get" /\ spc \in Reading
      /\ op' = op /\ cpc' = cpc /\ local' = local /\ remote' = remote /\ up' = up /\ down' = down
      /\ cend' = cend /\ cut' = cut /\ refused' = refused /\ whole' = whole
  BY DEF GetRead, Reading
<1>2. \/ rpos < Len(remote) /\ rpos' = rpos + 1 /\ spc' = "frame"
      \/ spc' = "eof" /\ rpos' = rpos
  BY DEF GetRead
<1>3. /\ op = "GET" /\ up = <<>> /\ cpc \in {"reply", "recv", "drain", "fail"}
      /\ remote # Absent /\ remote \in Seq(AllChunks) /\ Len(remote) \in Nat
      /\ rpos \in Nat /\ rpos <= Len(remote)
      /\ cpc \in {"reply", "recv"} =>
            /\ GetFlow /\ ~HasEnd(down) /\ Header \in 0..1 /\ Got \in Nat /\ Got <= rpos
            /\ Carries(down, Header, remote, Got, rpos)
      /\ cpc = "reply" /\ down # <<>> => down[1] = Line("OK")
  BY <1>1, GetBusy
<1>4. FlatType /\ GetPlaces /\ GetFile /\ EndInv
  BY <1>3, TypeParts DEF IInv, GetBody
<1>5. spc' \in Reading /\ spc' \in DaemonPlaces /\ rpos' \in Nat /\ rpos' <= Len(remote) /\ rpos <= rpos'
  BY <1>2, <1>3 DEF Reading, DaemonPlaces
<1>6. TypeOK' /\ EndInv'
  <2>1. FlatType'
    <3>1. cend' \in BOOLEAN /\ cut' \in BOOLEAN /\ refused' \in BOOLEAN /\ whole' \in BOOLEAN
      BY <1>1, <1>4, Zenon DEF FlatType
    <3> QED
      BY <1>1, <1>4, <1>5, <3>1 DEF FlatType
  <2>2. RposType'
    BY <1>1, <1>3, <1>5 DEF RposType, Source
  <2>3. TypeOK'
    BY <2>1, <2>2, TypeParts, PTL
  <2> QED
    BY <1>1, <1>4, <2>3 DEF EndInv
<1>7. GetPlaces'
  BY <1>1, <1>2, <1>3, <1>4, <1>5 DEF GetPlaces
<1>8. GetAsked' /\ GetReply'
  BY <1>1, <1>3, <1>5 DEF GetAsked, GetReply
<1>9. GetFile'
  <2>1. ASSUME cpc = "recv"
        PROVE  local \in Seq(AllChunks) /\ Len(local) <= rpos' /\ Prefix(local, remote)
    <3>1. local \in Seq(AllChunks) /\ Len(local) <= rpos /\ Prefix(local, remote)
      BY <1>4, <2>1 DEF GetFile
    <3>2. Len(local) \in Nat
      BY <3>1
    <3> QED
      BY <1>3, <1>5, <3>1, <3>2
  <2> QED
    BY <1>1, <1>3, <2>1 DEF GetFile
<1>10. ASSUME cpc \in {"reply", "recv"} PROVE GetFlow'
  <2>1. down \in Seq(Lines)
    BY <1>4 DEF FlatType
  <2>2. Carries(down, Header, remote, Got, rpos')
    BY <1>2, <1>3, <1>10, <2>1, CarriesRead
  <2>3. Header' = Header /\ Got' = Got /\ GetSent' = GetSent
    BY <1>1, <1>2, <1>3 DEF Header, Got, GetSent
  <2> QED
    BY <1>1, <1>3, <1>10, <2>2, <2>3 DEF GetFlow
<1> QED
  BY <1>1, <1>3, <1>6, <1>7, <1>8, <1>9, <1>10 DEF IInv, GetBody

\* A frame, or the end of the file, goes to the client or gets lost.
LEMMA GetWriteStep == ASSUME IInv, GetWrite PROVE IInv'
<1>1. /\ spc \in {"frame", "eof"} /\ spc \in Reading
      /\ op' = op /\ cpc' = cpc /\ local' = local /\ remote' = remote /\ rpos' = rpos /\ up' = up
      /\ cend' = cend /\ cut' = cut /\ refused' = refused /\ whole' = whole
  BY DEF GetWrite, Reading
<1>2. /\ op = "GET" /\ up = <<>> /\ cpc \in {"reply", "recv", "drain", "fail"}
      /\ remote # Absent /\ remote \in Seq(AllChunks) /\ Len(remote) \in Nat
      /\ rpos \in Nat /\ rpos <= Len(remote)
      /\ cpc \in {"reply", "recv"} =>
            /\ GetFlow /\ ~HasEnd(down) /\ Header \in 0..1 /\ Got \in Nat /\ Got <= rpos
            /\ Carries(down, Header, remote, Got, rpos)
      /\ cpc = "reply" /\ down # <<>> => down[1] = Line("OK")
  BY <1>1, GetBusy
<1>3. FlatType /\ GetPlaces /\ GetFile /\ EndInv /\ down \in Seq(Lines) /\ up \in Seq(Lines)
  BY <1>2, TypeParts DEF IInv, GetBody, FlatType
<1>4. Header' = Header /\ Got' = Got
  BY <1>1 DEF Header, Got
<1>5. cpc \in {"reply", "recv"} => cend = TRUE
  BY <1>3 DEF EndInv, Ended
<1>6. ASSUME NEW ms \in Seq(Lines), \A i \in 1..Len(ms) : ms[i].t \in {"D", "D0", "raw"},
             NEW l \in {"get", "session"}, Then(ms, l),
             cpc \in {"reply", "recv"} => GetFlow'
      PROVE  IInv'
  <2>1. down' \in Seq(Lines) /\ spc' \in {l, "closed"} /\ (cend = FALSE => down' = down)
    BY <1>6, AnswerTypes
  <2>2. TypeOK' /\ EndInv'
    <3>1. remote' \in Values /\ spc' \in DaemonPlaces /\ up' \in Seq(Lines)
      BY <1>1, <1>3, <2>1 DEF DaemonPlaces, FlatType
    <3>2. refused' \in BOOLEAN
      BY <1>1, <1>3 DEF FlatType
    <3> QED
      BY <1>1, <1>2, <2>1, <3>1, <3>2, DaemonFrame
  <2>3. GetPlaces'
    BY <1>1, <1>2, <1>3, <2>1 DEF GetPlaces, Reading
  <2>4. GetAsked' /\ GetFile'
    BY <1>1, <1>2, <1>3 DEF GetAsked, GetFile
  <2>5. GetReply'
    <3> SUFFICES ASSUME cpc = "reply", down' # <<>> PROVE down'[1] = Line("OK")
      BY <1>1, <1>2 DEF GetReply
    <3>1. CASE down' = down
      BY <1>2, <3>1
    <3>2. CASE cut = FALSE /\ down' = down \o ms
      <4>1. Len(down) = 2 * (GetSent - Got) + Header
        BY <1>1, <1>2, <3>2 DEF GetFlow
      <4>2. Got = 0 /\ Header = 1 /\ GetSent \in Nat
        BY <1>1, <1>2, <1>3 DEF Got, Header, GetSent, GetPlaces
      <4>3. Len(down) > 0
        BY <4>1, <4>2
      <4>4. down # <<>>
        BY <4>3, EmptySeq
      <4>5. (down \o ms)[1] = down[1]
        BY <1>3, <1>6, <4>4, AppendLines
      <4> QED
        BY <1>2, <3>2, <4>4, <4>5
    <3> QED
      BY <1>6, <3>1, <3>2, ThenEffect
  <2> QED
    BY <1>1, <1>2, <1>6, <2>2, <2>3, <2>4, <2>5 DEF IInv, GetBody
<1>7. CASE spc = "frame" /\ Then(Frame(remote[rpos]), "get")
  <2>1. rpos > 0 /\ remote[rpos] \in AllChunks
    BY <1>2, <1>3, <1>7 DEF GetPlaces
  <2>2. Line("D") \in Lines /\ Raw(remote[rpos]) \in Lines
    BY <2>1, LineTypes
  <2>3. Frame(remote[rpos]) \in Seq(Lines)
    BY <2>2 DEF Frame
  <2>4. \A i \in 1..Len(Frame(remote[rpos])) : Frame(remote[rpos])[i].t \in {"D", "D0", "raw"}
    BY LineFields, RawFields DEF Frame
  <2>5. ASSUME cpc \in {"reply", "recv"} PROVE GetFlow'
    <3>1. GetSent = rpos - 1
      BY <1>7 DEF GetSent
    <3>2. CASE spc' = "get" /\ cut = FALSE /\ down' = down \o Frame(remote[rpos])
      <4>1. Len(down) = 2 * (rpos - 1 - Got) + Header
        BY <1>1, <1>2, <2>5, <3>1, <3>2 DEF GetFlow
      <4>2. /\ Carries(down', Header, remote, Got, rpos) /\ ~HasEnd(down')
            /\ Len(down') = 2 * (rpos - Got) + Header
        BY <1>2, <1>3, <2>2, <2>5, <3>2, <4>1, CarriesSend
      <4>3. GetSent' = rpos
        BY <1>1, <3>2 DEF GetSent
      <4> QED
        BY <1>1, <1>4, <4>2, <4>3 DEF GetFlow
    <3>3. CASE cut = TRUE /\ down' = down
      BY <1>1, <1>2, <1>4, <2>5, <3>3 DEF GetFlow
    <3> QED
      BY <1>5, <1>7, <2>5, <3>2, <3>3, ThenEffect
  <2> QED
    BY <1>6, <1>7, <2>3, <2>4, <2>5
<1>8. CASE spc = "eof" /\ Then(<<Line("D0")>>, "session")
  <2>1. Line("D0") \in Lines
    BY LineTypes
  <2>2. <<Line("D0")>> \in Seq(Lines)
    BY <2>1
  <2>3. \A i \in 1..Len(<<Line("D0")>>) : <<Line("D0")>>[i].t \in {"D", "D0", "raw"}
    BY LineFields
  <2>4. ASSUME cpc \in {"reply", "recv"} PROVE GetFlow'
    <3>1. spc' \notin Reading
      <4>1. spc' \in {"session", "closed"}
        BY <1>8, <2>2, AnswerTypes
      <4> QED
        BY <4>1 DEF Reading
    <3>2. CASE cut = FALSE /\ down' = down \o <<Line("D0")>>
      <4>1. Len(down) = 2 * (rpos - Got) + Header
        BY <1>1, <1>2, <1>8, <2>4, <3>2 DEF GetFlow, GetSent
      <4>2. Carries(down', Header, remote, Got, rpos)
        BY <1>2, <1>3, <2>1, <2>4, <3>2, <4>1, CarriesSendEnd
      <4> QED
        BY <1>1, <1>2, <1>4, <3>1, <4>2 DEF GetFlow
    <3>3. CASE cut = TRUE /\ down' = down
      BY <1>1, <1>2, <1>4, <2>4, <3>3 DEF GetFlow
    <3> QED
      BY <1>5, <1>8, <2>4, <3>2, <3>3, ThenEffect
  <2> QED
    BY <1>6, <1>8, <2>2, <2>3, <2>4
<1> QED
  BY <1>7, <1>8 DEF GetWrite

-----------------------------------------------------------------------------
(* The steps: xfer_get.                                                     *)

\* A step of xfer_get that changes at most its file and where it is.
LEMMA GetClientFrame ==
    ASSUME IInv, op = "GET", cpc \in {"recv", "drain"},
           op' = op, spc' = spc, remote' = remote, rpos' = rpos, up' = up, cut' = cut,
           refused' = refused, whole' = whole,
           local' \in Values, down' \in Seq(Lines),
           \/ cpc' = cpc /\ cend' = cend
           \/ cpc' = "ok" /\ cend' = FALSE /\ down' = <<>>
    PROVE  TypeOK' /\ EndInv' /\ GetPlaces' /\ GetAsked' /\ GetReply'
<1>1. FlatType /\ RposType /\ EndInv /\ GetPlaces /\ GetAsked
  BY TypeParts DEF IInv, GetBody
<1>2. FlatType'
  <2>1. cut' \in BOOLEAN /\ refused' \in BOOLEAN /\ whole' \in BOOLEAN
    <3>1. cut' = cut /\ refused' = refused /\ whole' = whole
      OBVIOUS
    <3> QED
      BY <1>1, <3>1, Zenon DEF FlatType
  <2>2. cend' \in BOOLEAN
    <3>1. cend' = cend \/ cend' = FALSE
      OBVIOUS
    <3> QED
      BY <1>1, <3>1, Zenon DEF FlatType
  <2>3. cpc' \in ClientPlaces
    BY DEF ClientPlaces
  <2> QED
    BY <1>1, <2>1, <2>2, <2>3 DEF FlatType
<1>3. RposType' /\ EndInv'
  BY <1>1 DEF RposType, Source, EndInv, Ended
<1>4. TypeOK'
  BY <1>2, <1>3, TypeParts, PTL
<1>5. GetPlaces' /\ GetAsked' /\ GetReply'
  BY <1>1 DEF GetPlaces, GetAsked, GetReply, Ended
<1> QED
  BY <1>3, <1>4, <1>5

\* What holds while xfer_get reads frames into its file.
LEMMA RecvFacts ==
    ASSUME IInv, cpc = "recv"
    PROVE  /\ op = "GET" /\ GetFile /\ GetFlow /\ GetAsked
           /\ remote \in Seq(AllChunks) /\ Len(remote) \in Nat /\ rpos \in Nat /\ rpos <= Len(remote)
           /\ local \in Seq(AllChunks) /\ Len(local) \in Nat /\ Prefix(local, remote)
           /\ down \in Seq(Lines) /\ Carries(down, 0, remote, Len(local), rpos)
<1>1. op = "GET" /\ down \in Seq(Lines)
  BY TypeParts DEF IInv, PutBody, PutPlaces, FlatType
<1>2. GetFile /\ GetFlow /\ GetAsked
  BY <1>1 DEF IInv, GetBody
<1>3. remote # Absent /\ local \in Seq(AllChunks) /\ Prefix(local, remote)
  BY <1>2 DEF GetFile
<1>4. Carries(down, 0, remote, Len(local), rpos)
  BY <1>2 DEF GetFlow, Header, Got
<1> QED
  BY <1>1, <1>2, <1>3, <1>4, GetFacts

LEMMA GetFrameStep == ASSUME IInv, GetFrame PROVE IInv'
<1>1. /\ cpc = "recv" /\ Comes(down, "D")
      /\ op' = op /\ spc' = spc /\ remote' = remote /\ rpos' = rpos /\ up' = up
      /\ cut' = cut /\ refused' = refused /\ whole' = whole
  BY DEF GetFrame
<1>2. CASE Leave("fail") /\ UNCHANGED local
  BY <1>1, <1>2, GivesUp DEF Ended
<1>3. CASE local' = Append(local, Data(down)) /\ down' = Rest(down) /\ UNCHANGED <<cpc, cend>>
  <2>1. /\ op = "GET" /\ GetFile /\ GetFlow /\ GetAsked
        /\ remote \in Seq(AllChunks) /\ Len(remote) \in Nat /\ rpos \in Nat /\ rpos <= Len(remote)
        /\ local \in Seq(AllChunks) /\ Len(local) \in Nat /\ Prefix(local, remote)
        /\ down \in Seq(Lines) /\ Carries(down, 0, remote, Len(local), rpos)
    BY <1>1, RecvFacts
  <2>2. /\ Data(down) = remote[Len(local) + 1] /\ Len(local) + 1 <= rpos
        /\ down' \in Seq(Lines) /\ Len(down') = Len(down) - 2 /\ Len(down) \in Nat
        /\ Carries(down', 0, remote, Len(local) + 1, rpos)
        /\ HasEnd(down') => HasEnd(down)
    BY <1>1, <1>3, <2>1, CarriesFrame
  <2>3. /\ local' \in Seq(AllChunks) /\ Len(local') = Len(local) + 1 /\ Prefix(local', remote)
    BY <1>3, <2>1, <2>2, PrefixGrows
  <2>4. cpc' = "recv" /\ cend' = cend
    BY <1>1, <1>3
  <2>5. TypeOK' /\ EndInv' /\ GetPlaces' /\ GetAsked' /\ GetReply'
    <3>1. local' \in Values
      BY <2>3 DEF Values
    <3> QED
      BY <1>1, <2>1, <2>2, <2>4, <3>1, GetClientFrame
  <2>6. GetFile'
    BY <1>1, <2>1, <2>2, <2>3, <2>4 DEF GetFile
  <2>7. GetFlow'
    <3>1. Header = 0 /\ Got = Len(local) /\ Header' = 0 /\ Got' = Len(local) + 1
      BY <1>1, <2>3, <2>4 DEF Header, Got
    <3>2. GetSent' = GetSent /\ GetSent \in Int
      BY <1>1, <2>1 DEF GetSent
    <3>3. cut = FALSE /\ spc \in Reading => Len(down) = 2 * (GetSent - Len(local)) + 0
      BY <2>1, <3>1 DEF GetFlow
    <3>4. cut = FALSE /\ spc \in Reading => Len(down') = 2 * (GetSent - (Len(local) + 1)) + 0
      BY <2>1, <2>2, <3>2, <3>3
    <3>5. HasEnd(down') => spc \notin Reading /\ up = <<>>
      BY <2>1, <2>2 DEF GetFlow
    <3> QED
      BY <1>1, <2>2, <3>1, <3>2, <3>4, <3>5 DEF GetFlow
  <2> QED
    BY <1>1, <2>1, <2>4, <2>5, <2>6, <2>7 DEF IInv, GetBody
<1> QED
  BY <1>2, <1>3 DEF GetFrame

LEMMA GetEndStep == ASSUME IInv, GetEnd PROVE IInv'
<1>1. /\ cpc = "recv"
      /\ op' = op /\ spc' = spc /\ local' = local /\ remote' = remote /\ rpos' = rpos /\ up' = up
      /\ cut' = cut /\ refused' = refused /\ whole' = whole
  BY DEF GetEnd
<1>2. CASE Leave("fail")
  BY <1>1, <1>2, GivesUp DEF Ended
<1>3. CASE Comes(down, "D0") /\ Leave("ok")
  <2>1. /\ op = "GET" /\ GetFile /\ GetFlow /\ GetAsked
        /\ remote \in Seq(AllChunks) /\ Len(remote) \in Nat /\ rpos \in Nat /\ rpos <= Len(remote)
        /\ local \in Seq(AllChunks) /\ Len(local) \in Nat /\ Prefix(local, remote)
        /\ down \in Seq(Lines) /\ Carries(down, 0, remote, Len(local), rpos)
    BY <1>1, RecvFacts
  <2>2. Len(local) = rpos /\ HasEnd(down)
    BY <1>3, <2>1, CarriesEnd
  <2>3. spc \notin Reading /\ up = <<>>
    BY <2>1, <2>2 DEF GetFlow
  <2>4. local = SubSeq(remote, 1, rpos)
    BY <2>1, <2>2, PrefixWhole
  <2>5. cpc' = "ok" /\ cend' = FALSE /\ down' = <<>>
    BY <1>3 DEF Leave
  <2>6. TypeOK' /\ EndInv' /\ GetPlaces' /\ GetAsked' /\ GetReply'
    <3>1. local' \in Values /\ down' \in Seq(Lines)
      BY <1>1, <2>1, <2>5 DEF Values
    <3> QED
      BY <1>1, <2>1, <2>5, <3>1, GetClientFrame
  <2>7. GetFile'
    BY <1>1, <2>3, <2>4, <2>5 DEF GetFile
  <2> QED
    BY <1>1, <2>1, <2>5, <2>6, <2>7 DEF IInv, GetBody
<1> QED
  BY <1>2, <1>3 DEF GetEnd

LEMMA DrainStep == ASSUME IInv, Drain PROVE IInv'
<1>1. /\ cpc = "drain"
      /\ op' = op /\ spc' = spc /\ local' = local /\ remote' = remote /\ rpos' = rpos /\ up' = up
      /\ cut' = cut /\ refused' = refused /\ whole' = whole
  BY DEF Drain
<1>2. CASE Leave("fail")
  BY <1>1, <1>2, GivesUp DEF Ended
<1>3. CASE Comes(down, "D") /\ down' = Rest(down) /\ UNCHANGED <<cpc, cend>>
  <2>1. op = "GET" /\ down \in Seq(Lines) /\ local \in Values
    BY <1>1, TypeParts DEF IInv, PutBody, PutPlaces, FlatType
  <2>2. down' \in Seq(Lines)
    <3>1. down # <<>> /\ Len(down) > 1 /\ down' = Tail(Tail(down))
      BY <1>3 DEF Comes, Rest
    <3>2. Tail(down) \in Seq(Lines) /\ Len(Tail(down)) = Len(down) - 1 /\ Len(down) \in Nat
      BY <2>1, <3>1, HeadTailProperties
    <3> DEFINE r == Tail(down)
    <3> HIDE DEF r
    <3>3. r \in Seq(Lines) /\ r # <<>>
      <4>1. r \in Seq(Lines) /\ Len(r) > 0
        BY <3>1, <3>2 DEF r
      <4> QED
        BY <4>1, EmptySeq
    <3>4. Tail(r) \in Seq(Lines)
      BY <3>3, HeadTailProperties
    <3> QED
      BY <3>1, <3>4 DEF r
  <2>3. cpc' = "drain" /\ cend' = cend
    BY <1>1, <1>3
  <2>4. TypeOK' /\ EndInv' /\ GetPlaces' /\ GetAsked' /\ GetReply'
    BY <1>1, <2>1, <2>2, <2>3, GetClientFrame
  <2>5. GetFile'
    BY <2>3 DEF GetFile
  <2> QED
    BY <1>1, <2>1, <2>3, <2>4, <2>5 DEF IInv, GetBody
<1> QED
  BY <1>2, <1>3 DEF Drain

\* rc_cmd fails, or gcds is interrupted.
LEMMA LeaveSteps == ASSUME IInv, Declined \/ Interrupt PROVE IInv'
<1>1. CASE Declined
  BY <1>1, GivesUp DEF Declined, Ended
<1>2. CASE Interrupt
  BY <1>2, GivesUp DEF Interrupt
<1> QED
  BY <1>1, <1>2

-----------------------------------------------------------------------------
(* The theorems.                                                            *)

LEMMA NextIInv == IInv /\ [Next]_vars => IInv'
<1> SUFFICES ASSUME IInv, [Next]_vars PROVE IInv'
  OBVIOUS
<1>1. CASE Client
  BY <1>1, StartStep, AcceptedStep, PutReadStep, PutWriteStep, PutStatusStep, GetFrameStep,
     GetEndStep, DrainStep DEF Client
<1>2. CASE Daemon
  BY <1>2, OpenPutStep, StoreStep, ClosePutStep, LostPutStep, OpenGetStep, GetReadStep,
     GetWriteStep, StrayStep, SessionEofStep DEF Daemon
<1>3. CASE Declined \/ Interrupt
  BY <1>3, LeaveSteps
<1>4. CASE Cut
  BY <1>4, CutStep
<1>5. CASE Done \/ UNCHANGED vars
  BY <1>5, StutterStep DEF Done
<1> QED
  BY <1>1, <1>2, <1>3, <1>4, <1>5 DEF Next

\* The inductive invariant: what the receiver has written and what is under way
\* make up what the sender has read, in both directions (xfer_put and do_put,
\* do_get and xfer_get).
THEOREM Inductive == Spec => []IInv
<1>1. Init => IInv
  BY InitIInv
<1>2. IInv /\ [Next]_vars => IInv'
  BY NextIInv
<1> QED
  BY <1>1, <1>2, PTL DEF Spec

\* The state keeps its types; a file is never read past its end.
THEOREM TypeCorrect == Spec => []TypeOK
<1>1. IInv => TypeOK
  BY DEF IInv
<1> QED
  BY <1>1, Inductive, PTL

\* A gcds --put that exits with 0 has stored what it read, whatever the size of
\* the file, of the cap and of the connection, and wherever it was cut.
THEOREM PutStoresFile == Spec => []PutIntact
<1>1. IInv => PutIntact
  BY DEF IInv, PutBody, PutFile, Stored, PutIntact
<1> QED
  BY <1>1, Inductive, PTL

\* A gcds --get that exits with 0 has written what the daemon read.
THEOREM GetStoresFile == Spec => []GetIntact
<1>1. IInv => GetIntact
  BY DEF IInv, GetBody, GetFile, GetIntact
<1> QED
  BY <1>1, Inductive, PTL

\* However a PUT ends, do_put does not leave a part of the file.
THEOREM NoPartialUpload == Spec => []NoPartialFile
<1>1. IInv => NoPartialFile
  BY DEF IInv, PutBody, PutFile, Stored, NoPartialFile
<1> QED
  BY <1>1, Inductive, PTL
=============================================================================
