------------------------------- MODULE TextCv -------------------------------
(***************************************************************************)
(* common/textcv.c: the text of O and E frames and of command lines is      *)
(* UTF-8, Hangul composed.  A daemon on Win32 converts from and to its code *)
(* page, on macOS it composes Hangul; elsewhere the bytes pass as they are. *)
(* Text is a sequence of bytes, a byte a number.                            *)
(***************************************************************************)
EXTENDS Integers, Sequences
LOCAL INSTANCE SequencesExt

Platforms == {"w32", "mac", "psx"}

PendMax == 16   \* sizeof(pend) of txt_stream_t

\* The tail kept for the next call, cut to the size of the buffer.
hold(p) == IF Len(p) > PendMax THEN SubSeq(p, 1, PendMax) ELSE p

-----------------------------------------------------------------------------
(* UTF-8.                                                                   *)

\* Bytes of the character that b begins, 0 for a byte that begins none.
Width(b) == CASE b < 128        -> 1
              [] b \in 192..223 -> 2
              [] b \in 224..239 -> 3
              [] b \in 240..247 -> 4
              [] OTHER          -> 0

\* One character at the start of s: k bytes, code point c; k = 0 when it is
\* incomplete.  A byte that begins no character is a unit of its own, c = -1.
\* Continuation bytes are not checked.
u8dec(s) ==
    LET w == Width(s[1])
        lead == IF w = 1 THEN s[1] ELSE s[1] % (2 ^ (7 - w))
    IN  IF w = 0 THEN [k |-> 1, c |-> -1]
        ELSE IF Len(s) < w THEN [k |-> 0, c |-> -1]
        ELSE [k |-> w, c |-> FoldLeft(LAMBDA a, b : a * 64 + (b % 64), lead, SubSeq(s, 2, w))]

u8enc(c) ==
    IF c < 128 THEN <<c>>
    ELSE IF c < 2048 THEN <<192 + c \div 64, 128 + (c % 64)>>
    ELSE IF c < 65536 THEN <<224 + c \div 4096, 128 + ((c \div 64) % 64), 128 + (c % 64)>>
    ELSE <<240 + c \div 262144, 128 + ((c \div 4096) % 64), 128 + ((c \div 64) % 64), 128 + (c % 64)>>

\* The characters of s with their places, up to an incomplete one.
Units(s) ==
    LET from[p \in 0..Len(s)] ==
          IF p = Len(s) THEN <<>>
          ELSE LET d == u8dec(SubSeq(s, p + 1, Len(s)))
               IN  IF d.k = 0 THEN <<>>
                   ELSE <<[at |-> p, c |-> d.c, k |-> d.k]>> \o from[p + d.k]
    IN  from[0]

-----------------------------------------------------------------------------
(* macOS: Hangul.                                                           *)

L_BASE == 4352
V_BASE == 4449
T_BASE == 4519
S_BASE == 44032
T_CNT == 28
N_CNT == 588

is_L(c) == c \in L_BASE .. L_BASE + 18
is_V(c) == c \in V_BASE .. V_BASE + 20
is_T(c) == c \in T_BASE + 1 .. T_BASE + 27
is_LV(c) == c \in S_BASE .. S_BASE + 11171 /\ (c - S_BASE) % T_CNT = 0

Syllable(l, v) == S_BASE + (l - L_BASE) * N_CNT + (v - V_BASE) * T_CNT

\* Slip: L and V are held, a composed LV is not.
safe_endNoLV(s) ==
    LET u == Units(s)  n == Len(u)
    IN  IF n = 0 THEN 0
        ELSE IF is_L(u[n].c) THEN u[n].at
        ELSE IF is_V(u[n].c) THEN (IF n > 1 /\ is_L(u[n - 1].c) THEN u[n - 1].at ELSE u[n].at)
        ELSE u[n].at + u[n].k

\* How much of s can be converted now: whole characters, and no L, L+V or LV at
\* the end, which the next chunk may still extend.
safe_end(s) ==
    LET u == Units(s)
        n == Len(u)
    IN  IF n = 0 THEN 0
        ELSE IF is_V(u[n].c) /\ n > 1 /\ is_L(u[n - 1].c) THEN u[n - 1].at
        ELSE IF is_L(u[n].c) \/ is_V(u[n].c) \/ is_LV(u[n].c) THEN u[n].at
        ELSE u[n].at + u[n].k

\* s with L+V(+T) and LV+T composed; an incomplete character at the end goes.
compose(s) ==
    LET u == Units(s)
        cp(i) == IF i <= Len(u) THEN u[i].c ELSE -1
        from[i \in 1 .. Len(u) + 3] ==
          IF i > Len(u) THEN <<>>
          ELSE IF is_L(cp(i)) /\ is_V(cp(i + 1))
            THEN LET sy == Syllable(cp(i), cp(i + 1))
                 IN  IF is_T(cp(i + 2)) THEN u8enc(sy + cp(i + 2) - T_BASE) \o from[i + 3]
                     ELSE u8enc(sy) \o from[i + 2]
          ELSE IF is_LV(cp(i)) /\ is_T(cp(i + 1))
            THEN u8enc(cp(i) + cp(i + 1) - T_BASE) \o from[i + 2]
          ELSE (IF cp(i) < 0 THEN <<s[u[i].at + 1]>> ELSE u8enc(cp(i))) \o from[i + 1]
    IN  from[1]

-----------------------------------------------------------------------------
(* Win32: a double-byte code page.  Two characters stand for it: one whose  *)
(* second byte is a backslash, one whose second byte is also a lead byte.   *)

CodePage == (44032 :> <<129, 92>>) @@ (44033 :> <<129, 130>>)

IsDBCSLeadByteEx(b) == b \in 129..254

\* Up to a lead byte without its second byte.
dbcs_complete(s) ==
    LET from[i \in 0..Len(s)] ==
          IF i = Len(s) THEN i
          ELSE IF ~IsDBCSLeadByteEx(s[i + 1]) THEN from[i + 1]
          ELSE IF i + 1 = Len(s) THEN i ELSE from[i + 2]
    IN  from[0]

\* MultiByteToWideChar and WideCharToMultiByte(CP_UTF8): what is no character
\* of the code page becomes a question mark.
ToUtf8(s) ==
    LET pair(b) == {c \in DOMAIN CodePage : CodePage[c] = b}
        from[i \in 1 .. Len(s) + 2] ==
          IF i > Len(s) THEN <<>>
          ELSE IF ~IsDBCSLeadByteEx(s[i]) THEN <<s[i]>> \o from[i + 1]
          ELSE IF i < Len(s) /\ pair(<<s[i], s[i + 1]>>) # {}
            THEN u8enc(CHOOSE c \in pair(<<s[i], s[i + 1]>>) : TRUE) \o from[i + 2]
          ELSE <<63>> \o from[i + 2]
    IN  from[1]

\* MultiByteToWideChar(CP_UTF8) and WideCharToMultiByte.
ToCodePage(s) ==
    FlattenSeq([i \in 1..Len(Units(s)) |->
        LET c == Units(s)[i].c
        IN  IF c \in 0..127 THEN <<c>> ELSE IF c \in DOMAIN CodePage THEN CodePage[c] ELSE <<63>>])

-----------------------------------------------------------------------------
(* The interface.                                                           *)

Ready(plat, s) == CASE plat = "w32" -> dbcs_complete(s)
                    [] plat = "mac" -> safe_end(s)
                    [] OTHER        -> Len(s)

Convert(plat, s) == CASE plat = "w32" -> ToUtf8(s)
                      [] plat = "mac" -> compose(s)
                      [] OTHER        -> s

\* One chunk, local to wire, behind what was held back.  The code gives -1 when
\* a static buffer is full, which ends the session.  Composition never makes text
\* longer; a full chunk of a code page can do it only with one-byte characters
\* that take three bytes in UTF-8, and CodePage has none of those.
txt_out(plat, pend, in) ==
    LET src == pend \o in
        lim == Ready(plat, src)
    IN  [out |-> Convert(plat, SubSeq(src, 1, lim)), pend |-> hold(SubSeq(src, lim + 1, Len(src)))]

\* End of the stream: what is still held.
txt_flush(plat, pend) == Convert(plat, pend)

\* A whole line, wire to local.
txt_in(plat, s) == IF plat = "w32" THEN ToCodePage(s) ELSE s

-----------------------------------------------------------------------------
(* Reference: Hangul composition on code points, one at a time from the     *)
(* left, as the Unicode standard (3.12) defines it.                         *)

Composed(cps) ==
    FoldLeft(LAMBDA out, c :
        LET z == IF out = <<>> THEN -1 ELSE Last(out)
        IN  IF is_L(z) /\ is_V(c) THEN Append(Front(out), Syllable(z, c))
            ELSE IF is_LV(z) /\ is_T(c) THEN Append(Front(out), z + (c - T_BASE))
            ELSE Append(out, c), <<>>, cps)

\* A composed syllable in its parts, as HFS+ stores names.
Decomposed(c) ==
    IF c \notin S_BASE .. S_BASE + 11171 THEN <<c>>
    ELSE LET d == c - S_BASE
             lv == <<L_BASE + (d \div N_CNT), V_BASE + ((d % N_CNT) \div T_CNT)>>
         IN  IF d % T_CNT = 0 THEN lv ELSE Append(lv, T_BASE + (d % T_CNT))

Utf8(cps) == FlattenSeq([i \in 1..Len(cps) |-> u8enc(cps[i])])
=============================================================================
