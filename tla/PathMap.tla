------------------------------ MODULE PathMap ------------------------------
(***************************************************************************)
(* client/pathmap.c: the working directory of gcds translated for the       *)
(* remote host (pm_cwd) and paths in the output translated back             *)
(* (pm_back_line).  A path is a sequence of bytes; an entry of the table    *)
(* is [local, remote, sep]: sep is Auto where the entry has no third field, *)
(* and 0, the end of the string, where that field is empty.                 *)
(***************************************************************************)
EXTENDS Integers, Sequences
LOCAL INSTANCE FiniteSetsExt

CONSTANTS
    CwdMax,    \* CONF_VAL_MAX, for the mapped directory
    MbLine     \* MB_LINE: the line buffers of gcds

ASSUME PathAssumption == {CwdMax, MbLine} \subseteq Nat \ {0}

TAB == 9
NL == 10
SPACE == 32
QUOTE == 34
SLASH == 47
BSLASH == 92

Auto == -1

\* The separator of an entry, as pm_back_line takes it.
Sep(m) == IF m.sep # Auto THEN m.sep
          ELSE IF \E i \in 1..Len(m.remote) : m.remote[i] = BSLASH THEN BSLASH ELSE SLASH

\* As pm_cwd takes it: an empty third field is a slash.
CwdSep(m) == IF Sep(m) = 0 THEN SLASH ELSE Sep(m)

\* Without trailing slashes, but never empty.
pfx_norm_len(p) ==
    IF p = <<>> THEN 0 ELSE Max({n \in 1..Len(p) : n = 1 \/ p[n] # SLASH})

\* Slip: no component boundary.
pfx_matchAny(cwd, p) ==
    LET n == pfx_norm_len(p)
    IN  IF n > 0 /\ n <= Len(cwd) /\ SubSeq(cwd, 1, n) = SubSeq(p, 1, n) THEN n ELSE -1

\* The length of prefix p in cwd, -1 unless it ends with a component.
pfx_match(cwd, p) ==
    LET n == pfx_norm_len(p)
    IN  IF /\ n > 0 /\ n <= Len(cwd) /\ SubSeq(cwd, 1, n) = SubSeq(p, 1, n)
           /\ n = Len(cwd) \/ cwd[n + 1] = SLASH
          THEN n ELSE -1

\* remote and rest with one separator between them.
pm_build(remote, rest, sep) ==
    LET tail == IF rest # <<>> /\ rest[1] = SLASH /\ remote # <<>> /\ remote[Len(remote)] = sep
                  THEN Tail(rest) ELSE rest
    IN  remote \o [i \in 1..Len(tail) |-> IF tail[i] = SLASH THEN sep ELSE tail[i]]

\* The first entry with the longest matching local prefix, 0 for none.
BestMap(maps, cwd) ==
    LET len(i) == pfx_match(cwd, maps[i].local)
        hits == {i \in 1..Len(maps) : len(i) > 0}
    IN  IF hits = {} THEN 0
        ELSE Min({i \in hits : \A j \in hits : len(j) <= len(i)})

\* r: 1 mapped, 0 no mapping, -1 too long.
pm_cwd(maps, cwd) ==
    LET b == BestMap(maps, cwd)
        rest == SubSeq(cwd, pfx_match(cwd, maps[b].local) + 1, Len(cwd))
        out == pm_build(maps[b].remote, rest, CwdSep(maps[b]))
    IN  IF b = 0 THEN [r |-> 0, out |-> <<>>]
        ELSE [r |-> IF Len(out) >= CwdMax THEN -1 ELSE 1, out |-> out]

-----------------------------------------------------------------------------
Lower(b) == IF b \in 65..90 THEN b + 32 ELSE b

ci_eq(a, b) == Lower(a) = Lower(b)

\* needle begins at place p of line.
at_match(line, p, needle, ci) ==
    /\ p + Len(needle) - 1 <= Len(line)
    /\ \A i \in 1..Len(needle) :
          IF ci THEN ci_eq(line[p + i - 1], needle[i]) ELSE line[p + i - 1] = needle[i]

\* The first entry whose remote prefix begins at place p, 0 for none.
MapAt(maps, line, p) ==
    LET hits == {i \in 1..Len(maps) :
                   /\ maps[i].remote # <<>>
                   /\ at_match(line, p, maps[i].remote, Sep(maps[i]) = BSLASH)}
    IN  IF hits = {} THEN 0 ELSE Min(hits)

\* The end of the path that begins before place p.
TokenEnd(line, p) ==
    Min({e \in p .. Len(line) + 1 : e = Len(line) + 1 \/ line[e] \in {SPACE, TAB, QUOTE}})

\* Every remote prefix in the line becomes the local one, and in the rest of a
\* path with backslashes they become slashes.  The result is cut at MB_LINE - 2.
pm_back_line(maps, line) ==
    LET from[p \in 1 .. Len(line) + 1] ==
          IF p > Len(line) THEN <<>>
          ELSE LET m == MapAt(maps, line, p)
                   q == p + Len(maps[m].remote)
                   e == IF Sep(maps[m]) = BSLASH THEN TokenEnd(line, q) ELSE q
               IN  IF m = 0 THEN <<line[p]>> \o from[p + 1]
                   ELSE SubSeq(maps[m].local, 1, pfx_norm_len(maps[m].local))
                        \o [i \in 1 .. e - q |->
                              IF line[q + i - 1] = BSLASH THEN SLASH ELSE line[q + i - 1]]
                        \o from[e]
        out == from[1]
    IN  IF maps = <<>> THEN line ELSE SubSeq(out, 1, Min({Len(out), MbLine - 2}))
=============================================================================
