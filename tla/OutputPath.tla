----------------------------- MODULE OutputPath -----------------------------
(***************************************************************************)
(* The output of one command on its way from the remote host to the user:   *)
(* gcds maps its working directory and sends CWD, the command prints text   *)
(* and paths in the encoding of its host, the daemon reads them in chunks   *)
(* and converts each chunk (live.c, live_w32.c, send_file), gcds puts lines *)
(* together and maps the paths in them back (remote.c, --mapback).          *)
(*                                                                          *)
(* The channel keeps the order and gcds does nothing but read frames, so    *)
(* gcds takes a frame in within the step that sends it.                     *)
(***************************************************************************)
EXTENDS TextCv, PathMap
LOCAL INSTANCE SequencesExt

CONSTANTS
    Setups,     \* what is explored: [plat, maps, cwd], cwd in code points
    OutUnits,   \* OutUnits[plat]: what stdout is made of
    ErrTexts,   \* sequences of units: what stderr may be
    MaxUnits,   \* bound: units printed on stdout
    Chunk       \* bound: bytes one read returns

ASSUME OutputAssumption == {MaxUnits, Chunk} \subseteq Nat

Streams == {"O", "E"}

VARIABLES
    job,     \* a setup, whether --mapback is on, and units[s], what is printed
    rest,    \* rest[s]: bytes printed and not yet read by the daemon
    pend,    \* pend[s]: held back by the conversion (g_cv_out, g_cv_err)
    acc,     \* acc[s]: the line gcds puts together (g_acc)
    shown,   \* shown[s]: bytes gcds has written
    at       \* "run", "flush", "X", "end"; "failed" when CWD is too long

vars == <<job, rest, pend, acc, shown, at>>

-----------------------------------------------------------------------------
(* What the command prints: units of three kinds.  "path" is the path of a  *)
(* file in the working directory, "text" are the code points v in the       *)
(* encoding of the host, "raw" the bytes v.                                 *)

FileName(plat) == <<IF plat = "w32" THEN BSLASH ELSE SLASH, 102>>

\* Where the command runs: the directory sent as CWD, or where the daemon is.
RemoteCwd(j) ==
    LET m == pm_cwd(j.maps, Utf8(j.cwd)) IN IF m.r = 1 THEN m.out ELSE <<SLASH, 122>>

\* A path as the commands of the host print it: macOS decomposes names, Windows
\* writes drive letters in upper case.
HostPath(plat, p) ==
    LET u == Units(p)
    IN  CASE plat = "mac" -> Utf8(FlattenSeq([i \in 1..Len(u) |-> Decomposed(u[i].c)]))
          [] plat = "w32" -> txt_in(plat, [p EXCEPT ![1] = IF @ \in 97..122 THEN @ - 32 ELSE @])
          [] OTHER        -> p

Bytes(j, u) ==
    CASE u.kind = "path" -> HostPath(j.plat, RemoteCwd(j) \o FileName(j.plat))
      [] u.kind = "text" -> txt_in(j.plat, Utf8(u.v))
      [] u.kind = "raw"  -> u.v

Printed(j, s) == FlattenSeq([i \in 1..Len(j.units[s]) |-> Bytes(j, j.units[s][i])])

Job(x, b, o, e) ==
    [plat |-> x.plat, maps |-> x.maps, cwd |-> x.cwd, mapback |-> b, units |-> [O |-> o, E |-> e]]

\* main.c 225-246: CWD, unless the mapped directory is too long, then the command.
Init ==
    /\ \E x \in Setups, b \in BOOLEAN, e \in ErrTexts :
          \E o \in SeqOf(OutUnits[x.plat], MaxUnits) : job = Job(x, b, o, e)
    /\ rest = [s \in Streams |-> Printed(job, s)]
    /\ pend = [s \in Streams |-> <<>>]
    /\ acc = [s \in Streams |-> <<>>]
    /\ shown = [s \in Streams |-> <<>>]
    /\ at = IF pm_cwd(job.maps, Utf8(job.cwd)).r = -1 THEN "failed" ELSE "run"

-----------------------------------------------------------------------------
(* gcds.                                                                    *)

\* One line, or what there is of one at the end.
mb_emit_line(line) == pm_back_line(job.maps, line)

\* Slip: the line may fill the whole buffer.
mb_feedWide(a, b) ==
    FoldLeft(LAMBDA m, x :
        IF x = NL THEN [out |-> m.out \o mb_emit_line(m.acc) \o <<NL>>, acc |-> <<>>]
        ELSE IF Len(m.acc) >= MbLine THEN [out |-> m.out \o m.acc, acc |-> <<x>>]
        ELSE [out |-> m.out, acc |-> Append(m.acc, x)],
      [out |-> <<>>, acc |-> a], b)

\* The bytes b after the unfinished line a: what is written, and the line left.
\* A line that fills the buffer is written as it is.
mb_feed(a, b) ==
    FoldLeft(LAMBDA m, x :
        IF x = NL THEN [out |-> m.out \o mb_emit_line(m.acc) \o <<NL>>, acc |-> <<>>]
        ELSE IF Len(m.acc) >= MbLine - 1 THEN [out |-> m.out \o m.acc, acc |-> <<x>>]
        ELSE [out |-> m.out, acc |-> Append(m.acc, x)],
      [out |-> <<>>, acc |-> a], b)

\* An O or E frame with payload b; a chunk that is all held back sends none.
rc_out_frame(s, b) ==
    LET m == mb_feed(acc[s], b)
    IN  IF job.mapback
          THEN /\ shown' = [shown EXCEPT ![s] = @ \o m.out]
               /\ acc' = [acc EXCEPT ![s] = m.acc]
          ELSE shown' = [shown EXCEPT ![s] = @ \o b] /\ UNCHANGED acc

-----------------------------------------------------------------------------
(* The daemon.                                                              *)

\* n bytes of stream s are read, converted and sent.
Pump(s, n) ==
    /\ at = "run" /\ n <= Len(rest[s])
    /\ LET t == txt_out(job.plat, pend[s], SubSeq(rest[s], 1, n))
       IN  pend' = [pend EXCEPT ![s] = t.pend] /\ rc_out_frame(s, t.out)
    /\ rest' = [rest EXCEPT ![s] = SubSeq(@, n + 1, Len(@))]
    /\ UNCHANGED <<job, at>>

\* Both streams have ended: cv_flush_all.
Flush(s) ==
    /\ at = (IF s = "O" THEN "run" ELSE "flush") /\ \A x \in Streams : rest[x] = <<>>
    /\ rc_out_frame(s, txt_flush(job.plat, pend[s]))
    /\ pend' = [pend EXCEPT ![s] = <<>>]
    /\ at' = IF s = "O" THEN "flush" ELSE "X"
    /\ UNCHANGED <<job, rest>>

\* The X frame: mb_flush writes the unfinished lines.
mb_flush ==
    /\ at = "X"
    /\ shown' = [s \in Streams |-> shown[s] \o IF acc[s] = <<>> THEN <<>> ELSE mb_emit_line(acc[s])]
    /\ acc' = [s \in Streams |-> <<>>]
    /\ at' = "end"
    /\ UNCHANGED <<job, rest, pend>>

Done == at \in {"end", "failed"} /\ UNCHANGED vars

Next ==
    \/ \E s \in Streams : (\E n \in 1..Chunk : Pump(s, n)) \/ Flush(s)
    \/ mb_flush \/ Done

Spec == Init /\ [][Next]_vars

-----------------------------------------------------------------------------
(* Properties.                                                              *)

TypeOK ==
    /\ at \in {"run", "flush", "X", "end", "failed"}
    /\ \A s \in Streams :
          /\ Len(pend[s]) <= PendMax /\ Len(acc[s]) < MbLine
          /\ \A q \in {rest[s], pend[s], acc[s], shown[s]} : \A i \in 1..Len(q) : q[i] \in 0..255

\* Where the daemon's reads cut the output makes no difference: gcds shows the
\* conversion of the whole output, for every sequence of bytes, and nothing that
\* is held back exceeds its buffer, "cannot happen" (textcv.c 29-55, 91-107,
\* 244-277).
ChunkingInvisible ==
    at = "end" /\ ~job.mapback =>
        \A s \in Streams : shown[s] = Convert(job.plat, Printed(job, s))

\* No entry's remote prefix begins another's, none ends in a separator: the
\* tables for which mapping back is the inverse of mapping.
Invertible(maps) ==
    \A i, j \in 1..Len(maps) :
        /\ maps[i].remote[Len(maps[i].remote)] # CwdSep(maps[i])
        /\ i # j => ~at_match(maps[i].remote, 1, maps[j].remote, TRUE)

\* Every line of t has at most MB_LINE - 2 bytes.
LinesFit(t) == \A i \in 1 .. Len(t) - (MbLine - 2) : \E k \in i .. i + MbLine - 2 : t[k] = NL

\* Between two paths there is a space or the end of the line: in a path with
\* backslashes pm_back_line looks for no other.
PathsApart(u) ==
    \A i, j \in 1..Len(u) :
        i < j /\ u[i].kind = "path" /\ u[j].kind = "path"
            => \E k \in i .. j : u[k] \in {[kind |-> "text", v |-> <<c>>] : c \in {SPACE, NL}}

\* The directory is one of an entry's directories, component by component.
Mapped(j) ==
    \E i \in 1..Len(j.maps) :
        LET p == j.maps[i].local
        IN  IsPrefix(SubSeq(p, 1, pfx_norm_len(p)) \o <<SLASH>>, Utf8(j.cwd) \o <<SLASH>>)

\* The code points the user should see for a unit.
Image(j, u) ==
    IF u.kind = "text" THEN u.v
    ELSE IF Mapped(j) THEN j.cwd \o <<SLASH, 102>>
    ELSE <<SLASH, 122>> \o FileName(j.plat)

ShouldShow(j, s) ==
    LET cps == FlattenSeq([i \in 1..Len(j.units[s]) |-> Image(j, j.units[s][i])])
    IN  Utf8(IF j.plat = "mac" THEN Composed(cps) ELSE cps)

\* From the user's directory to the remote host and back: with --mapback every
\* path the command prints is shown as the user's own path, in composed UTF-8,
\* and all other text unchanged, however the output was cut (PLAN_05_PATHS.md,
\* section 4; macos.md on NFD names).
RoundTrip ==
    (/\ at = "end" /\ job.mapback /\ Invertible(job.maps)
     /\ \A s \in Streams : \A i \in 1..Len(job.units[s]) : job.units[s][i].kind # "raw")
    => \A s \in Streams :
          PathsApart(job.units[s]) /\ LinesFit(Convert(job.plat, Printed(job, s))) /\ LinesFit(ShouldShow(job, s))
            => shown[s] = ShouldShow(job, s)
=============================================================================
