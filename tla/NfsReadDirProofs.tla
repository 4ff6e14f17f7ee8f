-------------------------- MODULE NfsReadDirProofs --------------------------
(***************************************************************************)
(* A listing by cookies neither misses nor repeats an entry, for any        *)
(* directory, any reply sizes and any number of changes and faults, unless  *)
(* the directory changes behind the client.                                 *)
(***************************************************************************)
EXTENDS NfsReadDir, TLAPS, FiniteSetTheorems, SequenceTheorems

Listed == throughout \ Unlisted

\* The names in the reply that is being written or is under way.
Sent == {out[k].name : k \in DOMAIN out}

\* Each name of s that is in N stands in t too, no later than in s.
NoLater(s, t, N) ==
    \A i \in DOMAIN s : s[i] \in N => \E j \in DOMAIN t : j <= i /\ t[j] = s[i]

\* The names of N in the first n entries of s are in K.
Covered(s, n, N, K) == \A i \in DOMAIN s : i <= n /\ s[i] \in N => s[i] \in K

\* The names that g has of N are in the first n entries of s.
Within(g, s, n, N) ==
    \A k \in DOMAIN g : g[k] \in N => \E i \in DOMAIN s : i <= n /\ s[i] = g[k]

-----------------------------------------------------------------------------
(* The invariant.                                                           *)

TypeInv ==
    /\ dir \in Seq(Names) /\ d \in Seq(Names) /\ got \in Seq(Names)
    /\ out \in Seq([name : Names, cookie : Nat])
    /\ cookie \in Nat /\ idx \in Nat
    /\ pc \in {"client", "scan", "reply", "end"}
    /\ Distinct(dir) /\ Distinct(d)
    /\ throughout \subseteq ToSet(dir)

\* The call: its reply has entries of its scan, in order, after the cookie.
CallInv ==
    pc \in {"scan", "reply"} =>
        /\ idx <= Len(d) /\ throughout \subseteq ToSet(d)
        /\ \A k \in DOMAIN out :
              /\ cookie < out[k].cookie /\ out[k].cookie <= idx
              /\ out[k].name = d[out[k].cookie]
        /\ \A k, l \in DOMAIN out : k < l => out[k].cookie < out[l].cookie

\* Nothing behind the client is missing, as long as nothing was removed there:
\* not in the directory, and not in the scan.
MissInv ==
    ~shrunk =>
        /\ Covered(dir, cookie, Listed, ToSet(got))
        /\ pc = "scan" =>
              /\ NoLater(dir, d, throughout)
              /\ Covered(d, cookie, Listed, ToSet(got))
              /\ Covered(d, idx, Listed, ToSet(got) \cup Sent)
        /\ pc = "reply" =>
              /\ Covered(dir, Reached, Listed, ToSet(got) \cup Sent)
              /\ eof => Listed \subseteq ToSet(got) \cup Sent

\* What the client has is behind its cookie, as long as nothing was added there:
\* so the entries after it are new.
OnceInv ==
    ~grown =>
        /\ \A i, j \in DOMAIN got : i # j /\ got[i] = got[j] => got[i] \notin throughout
        /\ Within(got, dir, cookie, throughout)
        /\ pc \in {"scan", "reply"} => Within(got, d, cookie, throughout)
        /\ pc = "scan" => NoLater(d, dir, throughout)
        /\ pc = "reply" =>
              \A j \in DOMAIN d : j <= Reached /\ d[j] \in throughout =>
                  \E i \in DOMAIN dir : i <= j /\ dir[i] = d[j]

IInv == TypeInv /\ CallInv /\ MissInv /\ OnceInv /\ NoneMissed

-----------------------------------------------------------------------------
(* Sequences.                                                               *)

LEMMA Joined ==
    ASSUME NEW S, NEW s \in Seq(S), NEW t \in Seq(S)
    PROVE  /\ s \o t \in Seq(S) /\ Len(s \o t) = Len(s) + Len(t)
           /\ \A i \in 1..Len(s) : (s \o t)[i] = s[i]
           /\ \A i \in 1..Len(t) : (s \o t)[Len(s) + i] = t[i]
BY ConcatProperties

LEMMA Inserted ==
    ASSUME NEW S, NEW s \in Seq(S), NEW e \in S, NEW p \in 1..(Len(s) + 1)
    PROVE  /\ InsertAt(s, p, e) \in Seq(S)
           /\ Len(InsertAt(s, p, e)) = Len(s) + 1
           /\ \A i \in 1..(p - 1) : InsertAt(s, p, e)[i] = s[i]
           /\ InsertAt(s, p, e)[p] = e
           /\ \A i \in p..Len(s) : InsertAt(s, p, e)[i + 1] = s[i]
<1> DEFINE a == SubSeq(s, 1, p - 1)
           b == SubSeq(s, p, Len(s))
           t == a \o <<e>>
<1>1. a \in Seq(S) /\ Len(a) = p - 1 /\ \A i \in 1..(p - 1) : a[i] = s[i]
  OBVIOUS
<1>2. b \in Seq(S) /\ Len(b) = Len(s) - p + 1 /\ \A i \in 1..(Len(s) - p + 1) : b[i] = s[p + i - 1]
  OBVIOUS
<1>3. InsertAt(s, p, e) = t \o b
  BY DEF InsertAt
<1> HIDE DEF a, b
<1>4. /\ t \in Seq(S) /\ Len(t) = p
      /\ \A i \in 1..(p - 1) : t[i] = s[i]
      /\ t[p] = e
  <2>1. <<e>> \in Seq(S) /\ Len(<<e>>) = 1 /\ <<e>>[1] = e
    OBVIOUS
  <2>2. /\ t \in Seq(S) /\ Len(t) = Len(a) + 1
        /\ \A i \in 1..Len(a) : t[i] = a[i]
        /\ t[Len(a) + 1] = e
    <3> DEFINE u == <<e>>
    <3>1. u \in Seq(S) /\ Len(u) = 1 /\ u[1] = e
      BY <2>1
    <3> HIDE DEF u
    <3>2. /\ a \o u \in Seq(S) /\ Len(a \o u) = Len(a) + Len(u)
          /\ \A i \in 1..Len(a) : (a \o u)[i] = a[i]
          /\ \A i \in 1..Len(u) : (a \o u)[Len(a) + i] = u[i]
      <4>1. a \in Seq(S) /\ u \in Seq(S)
        BY <1>1, <3>1
      <4> QED BY <4>1, Joined
    <3>3. 1 \in 1..Len(u)
      BY <3>1
    <3>4. (a \o u)[Len(a) + 1] = e /\ Len(a \o u) = Len(a) + 1
      BY <3>1, <3>2, <3>3
    <3> QED BY <3>2, <3>4 DEF u
  <2> HIDE DEF t
  <2> QED BY <1>1, <2>2
<1> HIDE DEF t
<1>5. /\ t \o b \in Seq(S) /\ Len(t \o b) = p + Len(b)
      /\ \A i \in 1..p : (t \o b)[i] = t[i]
      /\ \A i \in 1..Len(b) : (t \o b)[p + i] = b[i]
  BY <1>2, <1>4, Joined
<1>6. ASSUME NEW i \in p..Len(s) PROVE (t \o b)[i + 1] = s[i]
  <2>1. i - p + 1 \in 1..Len(b) /\ p + (i - p + 1) = i + 1 /\ p + (i - p + 1) - 1 = i
    BY <1>2
  <2> QED BY <2>1, <1>2, <1>5
<1>7. \A i \in 1..(p - 1) : (t \o b)[i] = s[i]
  BY <1>4, <1>5
<1>8. (t \o b)[p] = e /\ Len(t \o b) = Len(s) + 1
  BY <1>2, <1>4, <1>5
<1> QED BY <1>3, <1>5, <1>6, <1>7, <1>8

LEMMA Removed ==
    ASSUME NEW S, NEW s \in Seq(S), NEW p \in DOMAIN s
    PROVE  /\ RemoveAt(s, p) \in Seq(S)
           /\ Len(RemoveAt(s, p)) = Len(s) - 1
           /\ \A i \in 1..(p - 1) : RemoveAt(s, p)[i] = s[i]
           /\ \A i \in p..(Len(s) - 1) : RemoveAt(s, p)[i] = s[i + 1]
<1> DEFINE a == SubSeq(s, 1, p - 1)
           b == SubSeq(s, p + 1, Len(s))
<1>0. p \in 1..Len(s) /\ Len(s) \in Nat
  OBVIOUS
<1>1. a \in Seq(S) /\ Len(a) = p - 1 /\ \A i \in 1..(p - 1) : a[i] = s[i]
  BY <1>0
<1>2. b \in Seq(S) /\ Len(b) = Len(s) - p /\ \A i \in 1..(Len(s) - p) : b[i] = s[p + i]
  BY <1>0
<1>3. RemoveAt(s, p) = a \o b
  BY DEF RemoveAt
<1> HIDE DEF a, b
<1>4. /\ a \o b \in Seq(S) /\ Len(a \o b) = p - 1 + Len(b)
      /\ \A i \in 1..(p - 1) : (a \o b)[i] = a[i]
      /\ \A i \in 1..Len(b) : (a \o b)[p - 1 + i] = b[i]
  <2>1. a \in Seq(S) /\ b \in Seq(S)
    BY <1>1, <1>2
  <2>2. /\ a \o b \in Seq(S) /\ Len(a \o b) = Len(a) + Len(b)
        /\ \A i \in 1..Len(a) : (a \o b)[i] = a[i]
        /\ \A i \in 1..Len(b) : (a \o b)[Len(a) + i] = b[i]
    BY <2>1, Joined
  <2> QED BY <1>0, <1>1, <2>2
<1>5. ASSUME NEW i \in p..(Len(s) - 1) PROVE (a \o b)[i] = s[i + 1]
  <2>1. i - p + 1 \in 1..(Len(s) - p) /\ p - 1 + (i - p + 1) = i /\ p + (i - p + 1) = i + 1
    BY <1>0
  <2>2. (a \o b)[p - 1 + (i - p + 1)] = b[i - p + 1] /\ b[i - p + 1] = s[p + (i - p + 1)]
    BY <2>1, <1>2, <1>4
  <2> QED BY <2>1, <2>2
<1>6. Len(a \o b) = Len(s) - 1
  BY <1>0, <1>2, <1>4
<1> QED BY <1>1, <1>3, <1>4, <1>5, <1>6

-----------------------------------------------------------------------------
(* Changes of the directory.                                                *)

\* A name is added: the others keep their order and move up or stay.
LEMMA Added ==
    ASSUME dir \in Seq(Names), Distinct(dir), NEW n \in Names, n \notin ToSet(dir),
           NEW p \in 1..(Len(dir) + 1), dir' = InsertAt(dir, p, n)
    PROVE  /\ dir' \in Seq(Names) /\ Distinct(dir)' /\ ToSet(dir) \subseteq ToSet(dir)'
           /\ NoLater(dir', dir, ToSet(dir))
           /\ \A i \in DOMAIN dir : i < p => i \in DOMAIN dir' /\ dir'[i] = dir[i]
<1>1. dir' \in Seq(Names) /\ Len(dir') = Len(dir) + 1
  BY Inserted
<1>2. /\ \A i \in 1..(p - 1) : dir'[i] = dir[i]
      /\ dir'[p] = n
      /\ \A i \in p..Len(dir) : dir'[i + 1] = dir[i]
  BY Inserted
<1>3. /\ DOMAIN dir = 1..Len(dir) /\ DOMAIN dir' = 1..(Len(dir) + 1) /\ Len(dir) \in Nat
      /\ \A i \in DOMAIN dir : dir[i] # n
  BY <1>1 DEF ToSet
<1>4. Distinct(dir)'
  <2> SUFFICES ASSUME NEW i \in DOMAIN dir', NEW j \in DOMAIN dir', i # j
               PROVE  dir'[i] # dir'[j]
    BY DEF Distinct
  <2> DEFINE at(k) == IF k < p THEN k ELSE k - 1
  <2>1. /\ i # p => at(i) \in DOMAIN dir /\ dir'[i] = dir[at(i)]
        /\ j # p => at(j) \in DOMAIN dir /\ dir'[j] = dir[at(j)]
        /\ i = p => dir'[i] = n
        /\ j = p => dir'[j] = n
    BY <1>2, <1>3
  <2>2. i # p /\ j # p => at(i) # at(j)
    BY <1>3
  <2> QED BY <1>3, <2>1, <2>2 DEF Distinct
<1>5. \A i \in DOMAIN dir : i < p => i \in DOMAIN dir' /\ dir'[i] = dir[i]
  BY <1>2, <1>3
<1>6. ToSet(dir) \subseteq ToSet(dir)'
  <2> SUFFICES ASSUME NEW i \in DOMAIN dir PROVE \E j \in DOMAIN dir' : dir'[j] = dir[i]
    BY DEF ToSet
  <2>1. CASE i < p
    BY <1>5, <2>1
  <2>2. CASE i >= p
    BY <1>2, <1>3, <2>2, i + 1 \in DOMAIN dir'
  <2> QED BY <2>1, <2>2, <1>3
<1>7. NoLater(dir', dir, ToSet(dir))
  <2> SUFFICES ASSUME NEW i \in DOMAIN dir', dir'[i] \in ToSet(dir)
               PROVE  \E j \in DOMAIN dir : j <= i /\ dir[j] = dir'[i]
    BY DEF NoLater
  <2>1. i # p
    BY <1>2, <1>3
  <2>2. CASE i < p
    BY <1>2, <1>3, <2>2, i \in DOMAIN dir
  <2>3. CASE i > p
    BY <1>2, <1>3, <2>3, i - 1 \in DOMAIN dir
  <2> QED BY <2>1, <2>2, <2>3, <1>3
<1> QED BY <1>1, <1>4, <1>5, <1>6, <1>7

\* A name is removed: the others keep their order and move down or stay.
LEMMA Deleted ==
    ASSUME dir \in Seq(Names), Distinct(dir), NEW p \in DOMAIN dir, dir' = RemoveAt(dir, p)
    PROVE  /\ dir' \in Seq(Names) /\ Distinct(dir)' /\ ToSet(dir)' \subseteq ToSet(dir)
           /\ NoLater(dir, dir', ToSet(dir) \ {dir[p]})
           /\ \A i \in DOMAIN dir' : i < p => i \in DOMAIN dir /\ dir'[i] = dir[i]
<1>1. dir' \in Seq(Names) /\ Len(dir') = Len(dir) - 1
  BY Removed
<1>2. /\ \A i \in 1..(p - 1) : dir'[i] = dir[i]
      /\ \A i \in p..(Len(dir) - 1) : dir'[i] = dir[i + 1]
  BY Removed
<1>3. DOMAIN dir = 1..Len(dir) /\ DOMAIN dir' = 1..(Len(dir) - 1) /\ Len(dir) \in Nat
  BY <1>1
<1> DEFINE at(k) == IF k < p THEN k ELSE k + 1
<1>4. \A i \in DOMAIN dir' : at(i) \in DOMAIN dir /\ dir'[i] = dir[at(i)]
  BY <1>2, <1>3
<1>5. Distinct(dir)'
  <2> SUFFICES ASSUME NEW i \in DOMAIN dir', NEW j \in DOMAIN dir', i # j
               PROVE  dir'[i] # dir'[j]
    BY DEF Distinct
  <2>1. at(i) # at(j)
    BY <1>3
  <2>2. at(i) \in DOMAIN dir /\ at(j) \in DOMAIN dir /\ dir'[i] = dir[at(i)] /\ dir'[j] = dir[at(j)]
    BY <1>4
  <2> HIDE DEF at
  <2> QED BY <2>1, <2>2 DEF Distinct
<1>6. ToSet(dir)' \subseteq ToSet(dir)
  <2> HIDE DEF at
  <2> QED BY <1>4 DEF ToSet
<1>7. \A i \in DOMAIN dir' : i < p => i \in DOMAIN dir /\ dir'[i] = dir[i]
  BY <1>2, <1>3
<1>8. NoLater(dir, dir', ToSet(dir) \ {dir[p]})
  <2> SUFFICES ASSUME NEW i \in DOMAIN dir, dir[i] # dir[p]
               PROVE  \E j \in DOMAIN dir' : j <= i /\ dir'[j] = dir[i]
    BY DEF NoLater
  <2>1. i # p
    OBVIOUS
  <2>2. CASE i < p
    BY <1>2, <1>3, <2>2, i \in DOMAIN dir'
  <2>3. CASE i > p
    BY <1>2, <1>3, <2>3, i - 1 \in DOMAIN dir'
  <2> QED BY <2>1, <2>2, <2>3, <1>3
<1> QED BY <1>1, <1>5, <1>6, <1>7, <1>8

-----------------------------------------------------------------------------
(* What the invariant's relations between sequences imply for each other.   *)

LEMMA NoLaterTrans ==
    ASSUME NEW r \in Seq(Names), NEW s \in Seq(Names), NEW t \in Seq(Names), NEW N,
           NoLater(r, s, N), NoLater(s, t, N)
    PROVE  NoLater(r, t, N)
<1> SUFFICES ASSUME NEW i \in DOMAIN r, r[i] \in N
             PROVE  \E j \in DOMAIN t : j <= i /\ t[j] = r[i]
  BY DEF NoLater
<1>1. PICK k \in DOMAIN s : k <= i /\ s[k] = r[i]
  BY DEF NoLater
<1>2. PICK j \in DOMAIN t : j <= k /\ t[j] = s[k]
  BY <1>1 DEF NoLater
<1>3. i \in Nat /\ k \in Nat /\ j \in Nat
  OBVIOUS
<1> QED BY <1>1, <1>2, <1>3

LEMMA NoLaterSubset ==
    ASSUME NEW s, NEW t, NEW N, NEW M, NoLater(s, t, N), M \subseteq N
    PROVE  NoLater(s, t, M)
BY DEF NoLater

LEMMA NoLaterItself ==
    ASSUME NEW s \in Seq(Names), NEW N PROVE NoLater(s, s, N)
<1>1. \A i \in DOMAIN s : i <= i
  OBVIOUS
<1> QED BY <1>1 DEF NoLater

LEMMA CoveredNoLater ==
    ASSUME NEW s \in Seq(Names), NEW t \in Seq(Names), NEW n \in Nat, NEW N, NEW K,
           NoLater(t, s, N), Covered(s, n, N, K)
    PROVE  Covered(t, n, N, K)
<1> SUFFICES ASSUME NEW i \in DOMAIN t, i <= n, t[i] \in N PROVE t[i] \in K
  BY DEF Covered
<1>1. PICK j \in DOMAIN s : j <= i /\ s[j] = t[i]
  BY DEF NoLater
<1>2. j <= n
  <2>1. i \in Nat /\ j \in Nat
    OBVIOUS
  <2> QED BY <2>1, <1>1
<1> QED BY <1>1, <1>2 DEF Covered

LEMMA CoveredSubset ==
    ASSUME NEW s, NEW n, NEW N, NEW K, NEW M, NEW L,
           Covered(s, n, N, K), M \subseteq N, K \subseteq L
    PROVE  Covered(s, n, M, L)
BY DEF Covered

LEMMA WithinNoLater ==
    ASSUME NEW g, NEW s \in Seq(Names), NEW t \in Seq(Names), NEW n \in Nat, NEW N,
           Within(g, s, n, N), NoLater(s, t, N)
    PROVE  Within(g, t, n, N)
<1> SUFFICES ASSUME NEW k \in DOMAIN g, g[k] \in N
             PROVE  \E i \in DOMAIN t : i <= n /\ t[i] = g[k]
  BY DEF Within
<1>1. PICK j \in DOMAIN s : j <= n /\ s[j] = g[k]
  BY DEF Within
<1>2. PICK i \in DOMAIN t : i <= j /\ t[i] = s[j]
  BY <1>1 DEF NoLater
<1>3. i \in Nat /\ j \in Nat
  OBVIOUS
<1> QED BY <1>1, <1>2, <1>3

LEMMA WithinSubset ==
    ASSUME NEW g, NEW s, NEW n, NEW N, NEW M, Within(g, s, n, N), M \subseteq N
    PROVE  Within(g, s, n, M)
BY DEF Within

\* The entries of a reply, and its last one.
LEMMA OutEntry ==
    ASSUME TypeInv, NEW k \in DOMAIN out PROVE out[k].name \in Names /\ out[k].cookie \in Nat
<1> DEFINE S == [name : Names, cookie : Nat]
<1>1. out \in Seq(S)
  BY DEF TypeInv
<1>2. out[k] \in S
  <2> HIDE DEF S
  <2> QED BY <1>1
<1> QED BY <1>2

LEMMA LastEntry ==
    ASSUME TypeInv, out # <<>>
    PROVE  Len(out) \in DOMAIN out /\ out[Len(out)].cookie \in Nat
<1> DEFINE S == [name : Names, cookie : Nat]
<1>1. out \in Seq(S)
  BY DEF TypeInv
<1> HIDE DEF S
<1>2. Len(out) \in Nat \ {0}
  BY <1>1, EmptySeq
<1>3. Len(out) \in DOMAIN out
  BY <1>1, <1>2
<1> QED BY <1>3, OutEntry

\* How far the client, or the reply for it, has got.
LEMMA ReachedValue ==
    ASSUME TypeInv, CallInv
    PROVE  /\ Reached \in Nat
           /\ pc = "scan" => Reached = Len(dir) + 1
           /\ pc \in {"client", "end"} => Reached = cookie
           /\ pc = "reply" => cookie <= Reached
<1>1. CASE pc = "scan"
  <2>1. Len(dir) \in Nat
    BY DEF TypeInv
  <2> QED BY <1>1, <2>1 DEF Reached
<1>2. CASE pc = "reply" /\ out # <<>>
  <2>1. Len(out) \in DOMAIN out /\ out[Len(out)].cookie \in Nat
    BY <1>2, LastEntry
  <2>2. cookie < out[Len(out)].cookie /\ cookie \in Nat
    BY <1>2, <2>1 DEF CallInv, TypeInv
  <2>3. Reached = out[Len(out)].cookie
    BY <1>2 DEF Reached, Last
  <2> QED BY <1>2, <2>1, <2>2, <2>3
<1>3. CASE pc # "scan" /\ ~(pc = "reply" /\ out # <<>>)
  <2>1. cookie \in Nat /\ Reached = cookie
    BY <1>3 DEF TypeInv, Reached
  <2> QED BY <1>3, <2>1
<1> QED BY <1>1, <1>2, <1>3

-----------------------------------------------------------------------------
(* The host.                                                                *)

LEMMA AddStep == ASSUME IInv, NEW n \in Names, Add(n) PROVE IInv'
<1>1. PICK p \in 1..(Len(dir) + 1) :
        dir' = InsertAt(dir, p, n) /\ grown' = (grown \/ p <= Reached)
  BY DEF Add
<1>2. /\ pc' = pc /\ cookie' = cookie /\ got' = got /\ d' = d /\ idx' = idx /\ out' = out
      /\ eof' = eof /\ throughout' = throughout /\ shrunk' = shrunk
      /\ pc # "end" /\ n \notin ToSet(dir)
  BY DEF Add, call
<1>3. TypeInv /\ CallInv
  BY DEF IInv
<1>4. /\ dir \in Seq(Names) /\ d \in Seq(Names) /\ Distinct(dir) /\ cookie \in Nat
      /\ throughout \subseteq ToSet(dir) /\ p \in Nat /\ Len(dir) \in Nat
  BY <1>3 DEF TypeInv
<1>5. /\ dir' \in Seq(Names) /\ Distinct(dir)' /\ ToSet(dir) \subseteq ToSet(dir)'
      /\ NoLater(dir', dir, ToSet(dir))
      /\ \A i \in DOMAIN dir : i < p => i \in DOMAIN dir' /\ dir'[i] = dir[i]
  BY <1>1, <1>2, <1>4, Added
<1>6. NoLater(dir', dir, throughout) /\ NoLater(dir', dir, Listed)
  BY <1>4, <1>5, NoLaterSubset DEF Listed
<1>7. Listed' = Listed /\ Sent' = Sent
  BY <1>2 DEF Listed, Sent
<1>8. TypeInv'
  BY <1>2, <1>3, <1>4, <1>5 DEF TypeInv, Distinct
<1>9. CallInv'
  BY <1>2, <1>3 DEF CallInv, ToSet
<1>10. /\ Reached \in Nat
       /\ pc # "scan" => cookie <= Reached
       /\ pc = "scan" => p <= Reached
       /\ pc = "reply" => Reached' = Reached
  <2>1. pc = "scan" => p <= Reached
    BY <1>3, <1>4, ReachedValue
  <2>2. pc \in {"client", "scan", "reply", "end"}
    BY <1>3 DEF TypeInv
  <2>3. pc = "reply" => Reached' = Reached
    BY <1>2 DEF Reached, Last
  <2> QED BY <1>3, <1>4, <2>1, <2>2, <2>3, ReachedValue
<1>11. MissInv'
  <2> SUFFICES ASSUME ~shrunk
               PROVE  /\ Covered(dir', cookie, Listed, ToSet(got))
                      /\ pc = "scan" =>
                            /\ NoLater(dir', d, throughout)
                            /\ Covered(d, cookie, Listed, ToSet(got))
                            /\ Covered(d, idx, Listed, ToSet(got) \cup Sent)
                      /\ pc = "reply" =>
                            /\ Covered(dir', Reached, Listed, ToSet(got) \cup Sent)
                            /\ eof => Listed \subseteq ToSet(got) \cup Sent
    BY <1>2, <1>7, <1>10 DEF MissInv, ToSet
  <2>1. MissInv
    BY DEF IInv
  <2>2. Covered(dir', cookie, Listed, ToSet(got))
    BY <1>4, <1>5, <1>6, <2>1, CoveredNoLater DEF MissInv
  <2>3. pc = "scan" => NoLater(dir', d, throughout)
    BY <1>4, <1>5, <1>6, <2>1, NoLaterTrans DEF MissInv
  <2>4. pc = "reply" => Covered(dir', Reached, Listed, ToSet(got) \cup Sent)
    BY <1>4, <1>5, <1>6, <1>10, <2>1, CoveredNoLater DEF MissInv
  <2> QED BY <2>1, <2>2, <2>3, <2>4 DEF MissInv
<1>12. OnceInv'
  <2>0. ~grown' => ~grown /\ ~(p <= Reached)
    BY <1>1, Zenon
  <2> SUFFICES ASSUME ~grown, ~(p <= Reached)
               PROVE  /\ \A i, j \in DOMAIN got : i # j /\ got[i] = got[j] => got[i] \notin throughout
                      /\ Within(got, dir', cookie, throughout)
                      /\ pc \in {"scan", "reply"} => Within(got, d, cookie, throughout)
                      /\ pc # "scan"
                      /\ pc = "reply" =>
                            \A j \in DOMAIN d : j <= Reached /\ d[j] \in throughout =>
                                \E i \in DOMAIN dir' : i <= j /\ dir'[i] = d[j]
    BY <2>0, <1>2, <1>10 DEF OnceInv
  <2>1. OnceInv
    BY DEF IInv
  <2>4. pc # "scan"
    BY <1>4, <1>10
  <2>2. Within(got, dir', cookie, throughout)
    <3> SUFFICES ASSUME NEW k \in DOMAIN got, got[k] \in throughout
                 PROVE  \E i \in DOMAIN dir' : i <= cookie /\ dir'[i] = got[k]
      BY DEF Within
    <3>1. PICK i \in DOMAIN dir : i <= cookie /\ dir[i] = got[k]
      BY <2>1 DEF OnceInv, Within
    <3>2. i \in Nat
      BY <1>4
    <3>3. i < p
      BY <2>4, <3>1, <3>2, <1>4, <1>10
    <3> QED BY <1>5, <3>1, <3>3
  <2>3. ASSUME pc = "reply", NEW j \in DOMAIN d, j <= Reached, d[j] \in throughout
        PROVE  \E i \in DOMAIN dir' : i <= j /\ dir'[i] = d[j]
    <3>1. PICK i \in DOMAIN dir : i <= j /\ dir[i] = d[j]
      BY <2>1, <2>3 DEF OnceInv
    <3>2. i \in Nat /\ j \in Nat
      BY <1>4
    <3>3. i < p
      BY <2>3, <3>1, <3>2, <1>4, <1>10
    <3> QED BY <1>5, <3>1, <3>3
  <2> QED BY <2>1, <2>2, <2>3, <2>4 DEF OnceInv
<1> QED BY <1>2, <1>8, <1>9, <1>11, <1>12 DEF IInv, NoneMissed

LEMMA DeleteStep == ASSUME IInv, NEW n \in Names, Delete(n) PROVE IInv'
<1>1. PICK p \in DOMAIN dir :
        dir[p] = n /\ dir' = RemoveAt(dir, p) /\ shrunk' = (shrunk \/ p <= Reached)
  BY DEF Delete
<1>2. /\ pc' = pc /\ cookie' = cookie /\ got' = got /\ d' = d /\ idx' = idx /\ out' = out
      /\ eof' = eof /\ throughout' = throughout \ {n} /\ grown' = grown
      /\ pc # "end"
  BY DEF Delete, call
<1>3. TypeInv /\ CallInv
  BY DEF IInv
<1>4. /\ dir \in Seq(Names) /\ d \in Seq(Names) /\ Distinct(dir) /\ cookie \in Nat
      /\ throughout \subseteq ToSet(dir) /\ Len(dir) \in Nat
  BY <1>3 DEF TypeInv
<1>5. /\ dir' \in Seq(Names) /\ Distinct(dir)' /\ ToSet(dir)' \subseteq ToSet(dir)
      /\ NoLater(dir, dir', ToSet(dir) \ {n})
      /\ \A i \in DOMAIN dir' : i < p => i \in DOMAIN dir /\ dir'[i] = dir[i]
  BY <1>1, <1>4, Deleted
<1>6. NoLater(dir, dir', throughout')
  BY <1>2, <1>4, <1>5, NoLaterSubset
<1>7. Listed' \subseteq Listed /\ throughout' \subseteq throughout /\ Sent' = Sent
  BY <1>2 DEF Listed, Sent
<1>8. TypeInv'
  <2>1. throughout' \subseteq ToSet(dir)'
    <3> SUFFICES ASSUME NEW x \in throughout' PROVE x \in ToSet(dir)'
      OBVIOUS
    <3>1. PICK i \in DOMAIN dir : dir[i] = x
      BY <1>4, <1>7 DEF ToSet
    <3>2. PICK j \in DOMAIN dir' : dir'[j] = x
      BY <1>6, <3>1 DEF NoLater
    <3> QED BY <3>2 DEF ToSet
  <2> QED BY <1>2, <1>3, <1>5, <2>1 DEF TypeInv, Distinct
<1>9. CallInv'
  BY <1>2, <1>3, <1>7 DEF CallInv, ToSet
<1>10. /\ Reached \in Nat /\ p \in Nat
       /\ pc # "scan" => cookie <= Reached
       /\ pc = "scan" => p <= Reached
       /\ pc = "reply" => Reached' = Reached
  <2>1. p \in Nat /\ p <= Len(dir)
    BY <1>4
  <2>2. pc = "scan" => p <= Reached
    BY <1>3, <1>4, <2>1, ReachedValue
  <2>3. pc = "reply" => Reached' = Reached
    BY <1>2 DEF Reached, Last
  <2>4. pc \in {"client", "scan", "reply", "end"}
    BY <1>3 DEF TypeInv
  <2> QED BY <1>3, <1>4, <2>1, <2>2, <2>3, <2>4, ReachedValue
<1>11. MissInv'
  <2>0. ~shrunk' => ~shrunk /\ ~(p <= Reached)
    BY <1>1, Zenon
  <2> SUFFICES ASSUME ~shrunk, ~(p <= Reached)
               PROVE  /\ Covered(dir', cookie, Listed', ToSet(got))
                      /\ pc # "scan"
                      /\ pc = "reply" =>
                            /\ Covered(dir', Reached, Listed', ToSet(got) \cup Sent)
                            /\ eof => Listed' \subseteq ToSet(got) \cup Sent
    BY <2>0, <1>2, <1>7, <1>10 DEF MissInv, ToSet
  <2>1. MissInv
    BY DEF IInv
  <2>2. pc # "scan"
    BY <1>10
  <2>3. ASSUME NEW m \in Nat, m <= Reached, NEW K, Covered(dir, m, Listed, K)
        PROVE  Covered(dir', m, Listed', K)
    <3> SUFFICES ASSUME NEW i \in DOMAIN dir', i <= m, dir'[i] \in Listed'
                 PROVE  dir'[i] \in K
      BY DEF Covered
    <3>1. i \in Nat
      BY <1>5
    <3>2. i < p
      BY <2>3, <3>1, <1>10
    <3>3. i \in DOMAIN dir /\ dir'[i] = dir[i]
      BY <1>5, <3>2
    <3> QED BY <2>3, <3>3, <1>7 DEF Covered
  <2>4. Covered(dir', cookie, Listed', ToSet(got))
    BY <1>4, <1>10, <2>1, <2>2, <2>3 DEF MissInv
  <2>5. pc = "reply" => Covered(dir', Reached, Listed', ToSet(got) \cup Sent)
    BY <1>10, <2>1, <2>3 DEF MissInv
  <2> QED BY <1>7, <2>1, <2>2, <2>4, <2>5 DEF MissInv
<1>12. OnceInv'
  <2> SUFFICES ASSUME ~grown
               PROVE  /\ \A i, j \in DOMAIN got : i # j /\ got[i] = got[j] => got[i] \notin throughout'
                      /\ Within(got, dir', cookie, throughout')
                      /\ pc \in {"scan", "reply"} => Within(got, d, cookie, throughout')
                      /\ pc = "scan" => NoLater(d, dir', throughout')
                      /\ pc = "reply" =>
                            \A j \in DOMAIN d : j <= Reached /\ d[j] \in throughout' =>
                                \E i \in DOMAIN dir' : i <= j /\ dir'[i] = d[j]
    BY <1>2, <1>10 DEF OnceInv
  <2>1. OnceInv
    BY DEF IInv
  <2>2. Within(got, dir', cookie, throughout')
    <3>1. Within(got, dir, cookie, throughout')
      BY <1>7, <2>1, WithinSubset DEF OnceInv
    <3> QED BY <1>4, <1>5, <1>6, <3>1, WithinNoLater
  <2>3. pc \in {"scan", "reply"} => Within(got, d, cookie, throughout')
    BY <1>7, <2>1, WithinSubset DEF OnceInv
  <2>4. pc = "scan" => NoLater(d, dir', throughout')
    <3>1. pc = "scan" => NoLater(d, dir, throughout')
      BY <1>7, <2>1, NoLaterSubset DEF OnceInv
    <3> QED BY <1>4, <1>5, <1>6, <3>1, NoLaterTrans
  <2>5. ASSUME pc = "reply", NEW j \in DOMAIN d, j <= Reached, d[j] \in throughout'
        PROVE  \E i \in DOMAIN dir' : i <= j /\ dir'[i] = d[j]
    <3>1. PICK i \in DOMAIN dir : i <= j /\ dir[i] = d[j]
      BY <1>7, <2>1, <2>5 DEF OnceInv
    <3>2. PICK k \in DOMAIN dir' : k <= i /\ dir'[k] = dir[i]
      BY <1>6, <2>5, <3>1 DEF NoLater
    <3>3. i \in Nat /\ j \in Nat /\ k \in Nat
      BY <1>4, <1>5
    <3> QED BY <3>1, <3>2, <3>3
  <2>6. \A i, j \in DOMAIN got : i # j /\ got[i] = got[j] => got[i] \notin throughout'
    BY <1>7, <2>1 DEF OnceInv
  <2> QED BY <2>2, <2>3, <2>4, <2>5, <2>6
<1> QED BY <1>2, <1>8, <1>9, <1>11, <1>12 DEF IInv, NoneMissed

-----------------------------------------------------------------------------
(* nfs_readdir.                                                             *)

LEMMA OpendirStep == ASSUME IInv, opendir PROVE IInv'
<1>1. /\ dir' = dir /\ cookie' = cookie /\ got' = got /\ pc = "client"
      /\ throughout' = throughout /\ grown' = grown /\ shrunk' = shrunk
  BY DEF opendir, history
<1>2. /\ TypeInv /\ MissInv /\ OnceInv
      /\ dir \in Seq(Names) /\ throughout \subseteq ToSet(dir)
  BY DEF IInv, TypeInv
<1>3. CASE pc' = "scan" /\ d' = dir /\ idx' = 0 /\ out' = <<>>
  <2>1. Listed' = Listed
    BY <1>1 DEF Listed
  <2>2. TypeInv'
    BY <1>1, <1>2, <1>3 DEF TypeInv, Distinct
  <2>3. CallInv'
    <3>1. 0 <= Len(dir) /\ DOMAIN <<>> = {}
      BY <1>2
    <3> QED BY <1>1, <1>2, <1>3, <3>1 DEF CallInv, ToSet
  <2>4. MissInv'
    <3> SUFFICES ASSUME ~shrunk
                 PROVE  /\ Covered(dir, cookie, Listed, ToSet(got))
                        /\ NoLater(dir, dir, throughout)
                        /\ Covered(dir, 0, Listed, ToSet(got) \cup Sent')
      BY <1>1, <1>3, <2>1 DEF MissInv, ToSet
    <3>1. Covered(dir, 0, Listed, ToSet(got) \cup Sent')
      <4>1. \A i \in DOMAIN dir : ~(i <= 0)
        BY <1>2
      <4> QED BY <4>1 DEF Covered
    <3> QED BY <1>2, <3>1, NoLaterItself DEF MissInv
  <2>5. OnceInv'
    <3> SUFFICES ASSUME ~grown
                 PROVE  /\ \A i, j \in DOMAIN got : i # j /\ got[i] = got[j] => got[i] \notin throughout
                        /\ Within(got, dir, cookie, throughout)
                        /\ NoLater(dir, dir, throughout)
      BY <1>1, <1>3 DEF OnceInv
    <3> QED BY <1>2, NoLaterItself DEF OnceInv
  <2> QED BY <1>3, <2>2, <2>3, <2>4, <2>5 DEF IInv, NoneMissed
<1>4. CASE pc' = "end" /\ eof' = FALSE /\ d' = d /\ idx' = idx /\ out' = out
  <2>1. TypeInv'
    BY <1>1, <1>2, <1>4 DEF TypeInv, Distinct
  <2>2. CallInv'
    BY <1>4 DEF CallInv
  <2>3. MissInv'
    BY <1>1, <1>2, <1>4 DEF MissInv, Listed, ToSet
  <2>4. OnceInv'
    BY <1>1, <1>2, <1>4 DEF OnceInv
  <2> QED BY <1>4, <2>1, <2>2, <2>3, <2>4 DEF IInv, NoneMissed
<1> QED BY <1>3, <1>4 DEF opendir

\* The scan ends with what it has, at the end of the directory if e.
LEMMA FinishStep ==
    ASSUME IInv, pc = "scan", NEW e, Finish(e), e => idx = Len(d),
           UNCHANGED <<dir, cookie, got, d, throughout, grown, shrunk>>
    PROVE  IInv'
<1>1. /\ pc' = "reply" /\ eof' = e /\ idx' = idx /\ out' = out
      /\ dir' = dir /\ cookie' = cookie /\ got' = got /\ d' = d
      /\ throughout' = throughout /\ grown' = grown /\ shrunk' = shrunk
  BY DEF Finish
<1>2. /\ TypeInv /\ CallInv /\ MissInv /\ OnceInv
      /\ dir \in Seq(Names) /\ d \in Seq(Names) /\ cookie \in Nat /\ idx \in Nat
  BY DEF IInv, TypeInv
<1>3. Listed' = Listed /\ Sent' = Sent
  BY <1>1 DEF Listed, Sent
<1>4. TypeInv'
  BY <1>1, <1>2 DEF TypeInv, Distinct
<1>5. CallInv'
  BY <1>1, <1>2 DEF CallInv, ToSet
<1>6. Reached' \in Nat /\ (Reached' = cookie \/ Reached' <= idx)
  <2>2. CASE out = <<>>
    BY <1>1, <1>2, <2>2 DEF Reached
  <2>3. CASE out # <<>>
    <3>1. Reached' = out[Len(out)].cookie
      BY <1>1, <2>3 DEF Reached, Last
    <3>2. Len(out) \in DOMAIN out /\ out[Len(out)].cookie \in Nat
      BY <1>2, <2>3, LastEntry
    <3>3. out[Len(out)].cookie <= idx
      BY <1>2, <3>2 DEF CallInv
    <3> QED BY <3>1, <3>2, <3>3
  <2> QED BY <2>2, <2>3
<1>7. MissInv'
  <2> SUFFICES ASSUME ~shrunk
               PROVE  /\ Covered(dir, cookie, Listed, ToSet(got))
                      /\ Covered(dir, Reached', Listed, ToSet(got) \cup Sent)
                      /\ e => Listed \subseteq ToSet(got) \cup Sent
    BY <1>1, <1>3 DEF MissInv, ToSet
  <2>1. /\ Covered(dir, cookie, Listed, ToSet(got))
        /\ NoLater(dir, d, throughout)
        /\ Covered(d, idx, Listed, ToSet(got) \cup Sent)
    BY <1>2 DEF MissInv
  <2>2. Covered(dir, Reached', Listed, ToSet(got) \cup Sent)
    <3>1. CASE Reached' = cookie
      BY <2>1, <3>1 DEF Covered
    <3>2. CASE Reached' <= idx
      <4>1. NoLater(dir, d, Listed)
        BY <2>1, NoLaterSubset DEF Listed
      <4>2. Covered(dir, idx, Listed, ToSet(got) \cup Sent)
        BY <1>2, <2>1, <4>1, CoveredNoLater
      <4>3. \A i \in DOMAIN dir : i <= Reached' => i <= idx
        <5>1. \A i \in DOMAIN dir : i \in Nat
          BY <1>2
        <5> QED BY <1>2, <1>6, <3>2, <5>1
      <4> QED BY <4>2, <4>3 DEF Covered
    <3> QED BY <1>6, <3>1, <3>2
  <2>3. ASSUME e PROVE Listed \subseteq ToSet(got) \cup Sent
    <3> SUFFICES ASSUME NEW x \in Listed PROVE x \in ToSet(got) \cup Sent
      OBVIOUS
    <3>1. PICK i \in DOMAIN d : d[i] = x
      BY <1>2 DEF CallInv, Listed, ToSet
    <3>2. i <= idx
      BY <1>2, <2>3, <3>1
    <3> QED BY <2>1, <3>1, <3>2 DEF Covered
  <2> QED BY <2>1, <2>2, <2>3
<1>8. OnceInv'
  <2> SUFFICES ASSUME ~grown
               PROVE  /\ \A i, j \in DOMAIN got : i # j /\ got[i] = got[j] => got[i] \notin throughout
                      /\ Within(got, dir, cookie, throughout)
                      /\ Within(got, d, cookie, throughout)
                      /\ \A j \in DOMAIN d : d[j] \in throughout =>
                            \E i \in DOMAIN dir : i <= j /\ dir[i] = d[j]
    BY <1>1 DEF OnceInv
  <2> QED BY <1>2 DEF OnceInv, NoLater
<1> QED BY <1>1, <1>4, <1>5, <1>7, <1>8 DEF IInv, NoneMissed

\* The loop goes on to the next entry, which it skips or cannot list; it may
\* leave out only one that the client has or that cannot be listed.
LEMMA SkipStep ==
    ASSUME IInv, pc = "scan", idx < Len(d), idx' = idx + 1,
           d[idx + 1] \in Listed => idx + 1 <= cookie,
           UNCHANGED <<dir, pc, cookie, got, d, out, throughout, grown, shrunk>>
    PROVE  IInv'
<1>1. /\ pc' = pc /\ out' = out /\ dir' = dir /\ cookie' = cookie /\ got' = got /\ d' = d
      /\ throughout' = throughout /\ grown' = grown /\ shrunk' = shrunk
  OBVIOUS
<1>2. /\ TypeInv /\ CallInv /\ MissInv /\ OnceInv
      /\ d \in Seq(Names) /\ cookie \in Nat /\ idx \in Nat /\ Len(d) \in Nat
  BY DEF IInv, TypeInv
<1>3. Listed' = Listed /\ Sent' = Sent
  BY <1>1 DEF Listed, Sent
<1>4. TypeInv'
  BY <1>1, <1>2 DEF TypeInv, Distinct
<1>5. CallInv'
  <2>1. idx + 1 <= Len(d)
    BY <1>2
  <2>2. \A k \in DOMAIN out : out[k].cookie <= idx + 1
    <3> SUFFICES ASSUME NEW k \in DOMAIN out PROVE out[k].cookie <= idx + 1
      OBVIOUS
    <3>1. out[k].cookie \in Nat /\ out[k].cookie <= idx
      BY <1>2, OutEntry DEF CallInv
    <3> QED BY <1>2, <3>1
  <2> QED BY <1>1, <1>2, <2>1, <2>2 DEF CallInv, ToSet
<1>6. MissInv'
  <2> SUFFICES ASSUME ~shrunk PROVE Covered(d, idx + 1, Listed, ToSet(got) \cup Sent)
    BY <1>1, <1>2, <1>3 DEF MissInv, ToSet
  <2> SUFFICES ASSUME NEW i \in DOMAIN d, i <= idx + 1, d[i] \in Listed
               PROVE  d[i] \in ToSet(got) \cup Sent
    BY DEF Covered
  <2>1. CASE i <= idx
    BY <1>2, <2>1 DEF MissInv, Covered
  <2>2. CASE i = idx + 1
    BY <1>2, <2>2 DEF MissInv, Covered
  <2>3. i <= idx \/ i = idx + 1
    <3>1. i \in Nat
      BY <1>2
    <3> QED BY <1>2, <3>1
  <2> QED BY <2>1, <2>2, <2>3
<1>7. OnceInv'
  BY <1>1, <1>2 DEF OnceInv
<1> QED BY <1>1, <1>4, <1>5, <1>6, <1>7 DEF IInv, NoneMissed

\* The loop puts the next entry into the reply.
LEMMA ListStep ==
    ASSUME IInv, pc = "scan", idx < Len(d), idx' = idx + 1, ~(idx + 1 <= cookie),
           out' = Append(out, [name |-> d[idx + 1], cookie |-> idx + 1]),
           UNCHANGED <<dir, pc, cookie, got, d, throughout, grown, shrunk>>
    PROVE  IInv'
<1> DEFINE S == [name : Names, cookie : Nat]
           r == [name |-> d[idx + 1], cookie |-> idx + 1]
<1>1. /\ pc' = pc /\ dir' = dir /\ cookie' = cookie /\ got' = got /\ d' = d
      /\ throughout' = throughout /\ grown' = grown /\ shrunk' = shrunk
  OBVIOUS
<1>2. /\ TypeInv /\ CallInv /\ MissInv /\ OnceInv
      /\ d \in Seq(Names) /\ cookie \in Nat /\ idx \in Nat /\ Len(d) \in Nat
      /\ out \in Seq(S)
  BY DEF IInv, TypeInv
<1>3. idx + 1 \in DOMAIN d /\ idx + 1 \in Nat /\ d[idx + 1] \in Names
  BY <1>2
<1>4. r \in S /\ r.name = d[idx + 1] /\ r.cookie = idx + 1
  BY <1>3
<1>5. out' = Append(out, r)
  OBVIOUS
<1> HIDE DEF S, r
<1>6. /\ out' \in Seq(S) /\ DOMAIN out = 1..Len(out) /\ Len(out) \in Nat
      /\ DOMAIN out' = 1..(Len(out) + 1)
      /\ \A k \in 1..Len(out) : out'[k] = out[k]
      /\ out'[Len(out) + 1] = r
  BY <1>2, <1>4, <1>5, AppendProperties
<1>7. Listed' = Listed
  BY <1>1 DEF Listed
<1>8. Sent' = Sent \cup {d[idx + 1]}
  <2>1. Sent' = {out'[k].name : k \in 1..(Len(out) + 1)}
    BY <1>6 DEF Sent
  <2>2. Sent = {out[k].name : k \in 1..Len(out)}
    BY <1>6 DEF Sent
  <2>3. \A k : k \in 1..(Len(out) + 1) <=> k \in 1..Len(out) \/ k = Len(out) + 1
    BY <1>6
  <2> QED BY <1>4, <1>6, <2>1, <2>2, <2>3
<1>9. TypeInv'
  BY <1>1, <1>2, <1>3, <1>6 DEF TypeInv, Distinct, S
<1>10. CallInv'
  <2>1. idx + 1 <= Len(d)
    BY <1>2
  <2>2. ASSUME NEW k \in DOMAIN out'
        PROVE  /\ cookie < out'[k].cookie /\ out'[k].cookie <= idx + 1
               /\ out'[k].name = d[out'[k].cookie]
    <3>1. CASE k = Len(out) + 1
      BY <1>2, <1>4, <1>6, <3>1
    <3>2. CASE k \in 1..Len(out)
      <4>1. out[k].cookie \in Nat /\ out'[k] = out[k]
        BY <1>2, <1>6, <3>2, OutEntry
      <4>2. cookie < out[k].cookie /\ out[k].cookie <= idx /\ out[k].name = d[out[k].cookie]
        BY <1>2, <1>6, <3>2 DEF CallInv
      <4> QED BY <1>2, <4>1, <4>2
    <3> QED BY <1>6, <3>1, <3>2
  <2>3. ASSUME NEW k \in DOMAIN out', NEW l \in DOMAIN out', k < l
        PROVE  out'[k].cookie < out'[l].cookie
    <3>1. k \in 1..Len(out)
      BY <1>6, <2>3
    <3>2. out[k].cookie \in Nat /\ out'[k] = out[k] /\ out[k].cookie <= idx
      BY <1>2, <1>6, <3>1, OutEntry DEF CallInv
    <3>3. CASE l = Len(out) + 1
      BY <1>2, <1>4, <1>6, <3>2, <3>3
    <3>4. CASE l \in 1..Len(out)
      BY <1>2, <1>6, <2>3, <3>1, <3>2, <3>4 DEF CallInv
    <3> QED BY <1>6, <3>3, <3>4
  <2>4. throughout \subseteq ToSet(d)
    BY <1>2 DEF CallInv
  <2> QED BY <1>1, <2>1, <2>2, <2>3, <2>4 DEF CallInv, ToSet
<1>11. MissInv'
  <2> SUFFICES ASSUME ~shrunk PROVE Covered(d, idx + 1, Listed, ToSet(got) \cup Sent')
    BY <1>1, <1>2, <1>7 DEF MissInv, ToSet
  <2> SUFFICES ASSUME NEW i \in DOMAIN d, i <= idx + 1, d[i] \in Listed
               PROVE  d[i] \in ToSet(got) \cup Sent'
    BY DEF Covered
  <2>1. CASE i <= idx
    BY <1>2, <1>8, <2>1 DEF MissInv, Covered
  <2>2. CASE i = idx + 1
    BY <1>8, <2>2
  <2>3. i <= idx \/ i = idx + 1
    <3>1. i \in Nat
      BY <1>2
    <3> QED BY <1>2, <3>1
  <2> QED BY <2>1, <2>2, <2>3
<1>12. OnceInv'
  BY <1>1, <1>2 DEF OnceInv
<1> QED BY <1>1, <1>9, <1>10, <1>11, <1>12 DEF IInv, NoneMissed

LEMMA EntryStep == ASSUME IInv, Entry PROVE IInv'
<1>1. /\ pc = "scan" /\ idx < Len(d)
      /\ UNCHANGED <<dir, cookie, got, d, throughout, grown, shrunk>>
  BY DEF Entry, history
<1>2. CASE Skipped(idx + 1)
  <2>1. idx' = idx + 1 /\ UNCHANGED <<pc, out>> /\ idx + 1 <= cookie
    BY <1>2 DEF Entry, Skipped
  <2> QED BY <1>1, <2>1, SkipStep
<1>3. CASE ~Skipped(idx + 1) /\ Full(d[idx + 1])
  <2>1. Finish(FALSE)
    BY <1>3 DEF Entry
  <2> QED BY <1>1, <2>1, FinishStep
<1>4. CASE ~Skipped(idx + 1) /\ ~Full(d[idx + 1])
  <2>1. idx' = idx + 1 /\ UNCHANGED pc /\ ~(idx + 1 <= cookie)
    BY <1>4 DEF Entry, Skipped
  <2>2. CASE Stat(d[idx + 1])
    <3>1. out' = Append(out, [name |-> d[idx + 1], cookie |-> idx + 1])
      BY <1>4, <2>2 DEF Entry
    <3> QED BY <1>1, <2>1, <3>1, ListStep
  <2>3. CASE ~Stat(d[idx + 1])
    <3>1. out' = out
      BY <1>4, <2>3 DEF Entry
    <3>2. d[idx + 1] \notin Listed
      <4>1. throughout \subseteq ToSet(dir)
        BY DEF IInv, TypeInv
      <4> QED BY <2>3, <4>1 DEF Stat, Listed
    <3> QED BY <1>1, <2>1, <3>1, <3>2, SkipStep
  <2> QED BY <2>2, <2>3
<1> QED BY <1>2, <1>3, <1>4

LEMMA NoEntryStep == ASSUME IInv, NoEntry PROVE IInv'
<1>1. pc = "scan" /\ UNCHANGED <<dir, cookie, got, d, throughout, grown, shrunk>>
  BY DEF NoEntry, history
<1>2. CASE idx = Len(d) /\ Finish(AtEnd(0))
  BY <1>1, <1>2, FinishStep
<1>3. CASE Finish(AtEnd(1))
  <2>1. ~AtEnd(1)
    BY DEF AtEnd
  <2> QED BY <1>1, <1>3, <2>1, FinishStep
<1> QED BY <1>2, <1>3 DEF NoEntry

-----------------------------------------------------------------------------
(* The client.                                                              *)

LEMMA ReceiveStep == ASSUME IInv, Receive PROVE IInv'
<1> DEFINE names == [i \in DOMAIN out |-> out[i].name]
<1>1. /\ pc = "reply" /\ pc' = (IF eof THEN "end" ELSE "client") /\ got' = got \o names
      /\ dir' = dir /\ d' = d /\ idx' = idx /\ out' = out /\ eof' = eof
      /\ throughout' = throughout /\ grown' = grown /\ shrunk' = shrunk
  BY DEF Receive, call, history
<1>2. /\ TypeInv /\ CallInv /\ MissInv /\ OnceInv
      /\ dir \in Seq(Names) /\ d \in Seq(Names) /\ got \in Seq(Names) /\ cookie \in Nat
      /\ Len(got) \in Nat /\ Len(d) \in Nat /\ idx \in Nat
  BY DEF IInv, TypeInv
<1>3. /\ DOMAIN out = 1..Len(out) /\ Len(out) \in Nat
      /\ names \in Seq(Names) /\ Len(names) = Len(out)
      /\ \A k \in DOMAIN out : names[k] = out[k].name
  <2>1. DOMAIN out = 1..Len(out) /\ Len(out) \in Nat
    BY <1>2 DEF TypeInv
  <2>2. \A k \in DOMAIN out : out[k].name \in Names
    BY <1>2, OutEntry
  <2> QED BY <2>1, <2>2
<1> HIDE DEF names
<1>4. /\ got' \in Seq(Names) /\ Len(got') = Len(got) + Len(out)
      /\ \A i \in 1..Len(got) : got'[i] = got[i]
      /\ \A k \in 1..Len(out) : got'[Len(got) + k] = out[k].name
  <2>1. /\ got \o names \in Seq(Names) /\ Len(got \o names) = Len(got) + Len(names)
        /\ \A i \in 1..Len(got) : (got \o names)[i] = got[i]
        /\ \A k \in 1..Len(names) : (got \o names)[Len(got) + k] = names[k]
    <3>1. got \in Seq(Names) /\ names \in Seq(Names)
      BY <1>2, <1>3
    <3> QED BY <3>1, Joined
  <2> QED BY <1>1, <1>3, <2>1
<1>5. ASSUME NEW i \in DOMAIN got'
      PROVE  \/ i \in DOMAIN got /\ got'[i] = got[i]
             \/ \E k \in DOMAIN out : i = Len(got) + k /\ got'[i] = out[k].name
  <2>1. i \in 1..(Len(got) + Len(out))
    BY <1>4
  <2>2. CASE i \in 1..Len(got)
    BY <1>2, <1>4, <2>2
  <2>3. CASE i \notin 1..Len(got)
    <3>1. i - Len(got) \in 1..Len(out) /\ i = Len(got) + (i - Len(got))
      BY <1>2, <1>3, <2>1, <2>3
    <3> QED BY <1>3, <1>4, <3>1
  <2> QED BY <2>2, <2>3
<1>0. DOMAIN got = 1..Len(got) /\ DOMAIN got' = 1..(Len(got) + Len(out))
  BY <1>2, <1>4
<1>6. ToSet(got)' = ToSet(got) \cup Sent
  <2>1. ASSUME NEW i \in DOMAIN got PROVE i \in DOMAIN got' /\ got'[i] = got[i]
    BY <1>2, <1>3, <1>4, <1>0
  <2>2. ASSUME NEW k \in DOMAIN out
        PROVE  Len(got) + k \in DOMAIN got' /\ got'[Len(got) + k] = out[k].name
    BY <1>2, <1>3, <1>4, <1>0
  <2> QED BY <1>5, <2>1, <2>2 DEF ToSet, Sent
<1>7. cookie' = Reached /\ Reached \in Nat /\ cookie <= Reached
  <2>1. cookie' = Reached
    BY <1>1 DEF Receive, Reached
  <2> QED BY <1>1, <1>2, <2>1, ReachedValue
\* An entry of the reply is one of the scan, after the cookie.
<1>8. ASSUME NEW k \in DOMAIN out
      PROVE  /\ out[k].cookie \in DOMAIN d /\ out[k].cookie \in Nat
             /\ cookie < out[k].cookie /\ out[k].cookie <= Reached
             /\ out[k].name = d[out[k].cookie]
  <2>1. out[k].cookie \in Nat
    BY <1>2, OutEntry
  <2>2. /\ cookie < out[k].cookie /\ out[k].cookie <= idx /\ idx <= Len(d)
        /\ out[k].name = d[out[k].cookie]
    BY <1>1, <1>2 DEF CallInv
  <2>3. out[k].cookie \in DOMAIN d
    BY <1>2, <2>1, <2>2
  <2>4. out[k].cookie <= Reached
    <3>1. out # <<>> /\ Len(out) \in DOMAIN out
      BY <1>3
    <3>2. Reached = out[Len(out)].cookie /\ out[Len(out)].cookie \in Nat
      BY <1>1, <1>2, <3>1, OutEntry DEF Reached, Last
    <3>3. CASE k = Len(out)
      BY <2>1, <3>2, <3>3
    <3>4. CASE k < Len(out)
      <4>1. out[k].cookie < out[Len(out)].cookie
        BY <1>1, <1>2, <3>1, <3>4 DEF CallInv
      <4> QED BY <2>1, <3>2, <4>1
    <3> QED BY <1>3, <3>3, <3>4
  <2> QED BY <2>1, <2>2, <2>3, <2>4
<1>9. TypeInv'
  BY <1>1, <1>2, <1>4, <1>7 DEF TypeInv, Distinct, ToSet
<1>10. CallInv'
  BY <1>1 DEF CallInv
<1>11. Listed' = Listed
  BY <1>1 DEF Listed
<1>12. MissInv'
  <2> SUFFICES ASSUME ~shrunk PROVE Covered(dir, Reached, Listed, ToSet(got) \cup Sent)
    BY <1>1, <1>6, <1>7, <1>11 DEF MissInv
  <2> QED BY <1>1, <1>2 DEF MissInv
<1>13. NoneMissed'
  <2> SUFFICES ASSUME eof, ~shrunk PROVE Listed \subseteq ToSet(got) \cup Sent
    BY <1>1, <1>6 DEF NoneMissed, Listed
  <2> QED BY <1>1, <1>2 DEF MissInv
<1>14. OnceInv'
  <2> SUFFICES ASSUME ~grown
               PROVE  /\ \A i, j \in DOMAIN got' : i # j /\ got'[i] = got'[j] => got'[i] \notin throughout
                      /\ Within(got', dir, Reached, throughout)
    BY <1>1, <1>7 DEF OnceInv
  <2>1. /\ \A i, j \in DOMAIN got : i # j /\ got[i] = got[j] => got[i] \notin throughout
        /\ Within(got, dir, cookie, throughout)
        /\ Within(got, d, cookie, throughout)
        /\ \A j \in DOMAIN d : j <= Reached /\ d[j] \in throughout =>
              \E i \in DOMAIN dir : i <= j /\ dir[i] = d[j]
    BY <1>1, <1>2 DEF OnceInv
  \* No new entry is one the client had.
  <2>2. ASSUME NEW i \in DOMAIN got, NEW k \in DOMAIN out, got[i] = out[k].name
        PROVE  got[i] \notin throughout
    <3> SUFFICES ASSUME got[i] \in throughout PROVE FALSE
      OBVIOUS
    <3>1. PICK m \in DOMAIN d : m <= cookie /\ d[m] = got[i]
      BY <2>1 DEF Within
    <3>2. m \in Nat
      BY <1>2
    <3>3. m # out[k].cookie
      BY <1>2, <1>8, <3>1, <3>2
    <3>4. Distinct(d)
      BY <1>2 DEF TypeInv
    <3> QED BY <1>8, <2>2, <3>1, <3>3, <3>4 DEF Distinct
  \* No two new entries are the same.
  <2>3. ASSUME NEW k \in DOMAIN out, NEW l \in DOMAIN out, k < l
        PROVE  out[k].name # out[l].name
    <3>1. out[k].cookie # out[l].cookie
      <4>1. out[k].cookie < out[l].cookie
        BY <1>1, <1>2, <2>3 DEF CallInv
      <4> QED BY <1>8, <4>1
    <3>2. Distinct(d)
      BY <1>2 DEF TypeInv
    <3> QED BY <1>8, <3>1, <3>2 DEF Distinct
  <2>4. ASSUME NEW i \in DOMAIN got', NEW j \in DOMAIN got', i # j, got'[i] = got'[j]
        PROVE  got'[i] \notin throughout
    <3>1. CASE i \in DOMAIN got /\ j \in DOMAIN got
      <4>1. got'[i] = got[i] /\ got'[j] = got[j]
        BY <1>4, <1>0, <3>1
      <4> QED BY <2>1, <2>4, <3>1, <4>1
    <3>2. CASE i \in DOMAIN got /\ j \notin DOMAIN got
      <4>1. got'[i] = got[i]
        BY <1>4, <1>0, <3>2
      <4> QED BY <1>5, <2>2, <2>4, <3>2, <4>1
    <3>3. CASE i \notin DOMAIN got /\ j \in DOMAIN got
      <4>1. got'[j] = got[j]
        BY <1>4, <1>0, <3>3
      <4> QED BY <1>5, <2>2, <2>4, <3>3, <4>1
    <3>4. CASE i \notin DOMAIN got /\ j \notin DOMAIN got
      <4>1. PICK k \in DOMAIN out : i = Len(got) + k /\ got'[i] = out[k].name
        BY <1>5, <3>4
      <4>2. PICK l \in DOMAIN out : j = Len(got) + l /\ got'[j] = out[l].name
        BY <1>5, <3>4
      <4>3. k \in Nat /\ l \in Nat
        BY <1>3
      <4>4. k < l \/ l < k
        BY <1>2, <2>4, <4>1, <4>2, <4>3
      <4> QED BY <2>3, <2>4, <4>1, <4>2, <4>4
    <3> QED BY <3>1, <3>2, <3>3, <3>4
  <2>5. Within(got', dir, Reached, throughout)
    <3> SUFFICES ASSUME NEW i \in DOMAIN got', got'[i] \in throughout
                 PROVE  \E m \in DOMAIN dir : m <= Reached /\ dir[m] = got'[i]
      BY DEF Within
    <3>1. CASE i \in DOMAIN got /\ got'[i] = got[i]
      <4>1. PICK m \in DOMAIN dir : m <= cookie /\ dir[m] = got[i]
        BY <2>1, <3>1 DEF Within
      <4>2. m \in Nat
        BY <1>2
      <4>3. m <= Reached
        BY <1>2, <1>7, <4>1, <4>2
      <4> QED BY <3>1, <4>1, <4>3
    <3>2. CASE \E k \in DOMAIN out : got'[i] = out[k].name
      <4>1. PICK k \in DOMAIN out : got'[i] = out[k].name
        BY <3>2
      <4> DEFINE c == out[k].cookie
      <4>2. c \in DOMAIN d /\ c \in Nat /\ c <= Reached /\ got'[i] = d[c]
        BY <1>8, <4>1
      <4> HIDE DEF c
      <4>3. PICK m \in DOMAIN dir : m <= c /\ dir[m] = d[c]
        BY <2>1, <4>2
      <4>4. m \in Nat
        BY <1>2
      <4>5. m <= Reached
        BY <1>7, <4>2, <4>3, <4>4
      <4> QED BY <4>2, <4>3, <4>5
    <3> QED BY <1>5, <3>1, <3>2
  <2> QED BY <2>4, <2>5
<1> QED BY <1>9, <1>10, <1>12, <1>13, <1>14 DEF IInv

LEMMA LoseStep == ASSUME IInv, Lose PROVE IInv'
<1>1. /\ pc' = "client" /\ dir' = dir /\ cookie' = cookie /\ got' = got /\ d' = d /\ idx' = idx
      /\ out' = out /\ throughout' = throughout /\ grown' = grown /\ shrunk' = shrunk
  BY DEF Lose, call, history
<1>2. TypeInv'
  BY <1>1 DEF IInv, TypeInv, Distinct
<1>3. CallInv'
  BY <1>1 DEF CallInv
<1>4. MissInv'
  BY <1>1 DEF IInv, MissInv, Listed, ToSet
<1>5. OnceInv'
  BY <1>1 DEF IInv, OnceInv
<1> QED BY <1>1, <1>2, <1>3, <1>4, <1>5 DEF IInv, NoneMissed

LEMMA StutterStep == ASSUME IInv, UNCHANGED vars PROVE IInv'
<1>1. /\ pc' = pc /\ dir' = dir /\ cookie' = cookie /\ got' = got /\ d' = d /\ idx' = idx
      /\ out' = out /\ eof' = eof /\ throughout' = throughout /\ grown' = grown /\ shrunk' = shrunk
  BY DEF vars, call, history
<1>2. TypeInv' /\ CallInv'
  BY <1>1 DEF IInv, TypeInv, CallInv, Distinct, ToSet
<1>3. Reached' = Reached
  BY <1>1 DEF Reached
<1>4. MissInv'
  BY <1>1, <1>3 DEF IInv, MissInv, Listed, ToSet, Sent
<1>5. OnceInv'
  BY <1>1, <1>3 DEF IInv, OnceInv
<1> QED BY <1>1, <1>2, <1>4, <1>5 DEF IInv, NoneMissed, ToSet

-----------------------------------------------------------------------------
(* The theorems.                                                            *)

LEMMA InitInv == Init => IInv
<1> SUFFICES ASSUME Init PROVE IInv
  OBVIOUS
<1>1. /\ pc = "client" /\ cookie = 0 /\ got = <<>> /\ d = <<>> /\ idx = 0 /\ out = <<>>
      /\ throughout = ToSet(dir) /\ Distinct(dir)
  BY DEF Init
<1>2. dir \in Seq(Names)
  <2>1. Cardinality(Names) \in Nat
    BY ReadDirAssumption, FS_CardinalityType
  <2>2. PICK n \in 0..Cardinality(Names) : dir \in [1..n -> Names]
    BY DEF Init
  <2> QED BY <2>1, <2>2
<1>3. DOMAIN got = {} /\ DOMAIN d = {}
  BY <1>1
<1>4. TypeInv
  BY <1>1, <1>2, <1>3 DEF TypeInv, Distinct
<1>5. \A i \in DOMAIN dir : ~(i <= 0)
  BY <1>2
<1>6. Covered(dir, cookie, Listed, ToSet(got))
  BY <1>1, <1>5 DEF Covered
<1>7. MissInv
  BY <1>1, <1>6 DEF MissInv
<1>8. OnceInv
  BY <1>1, <1>3 DEF OnceInv, Within
<1> QED BY <1>1, <1>4, <1>7, <1>8 DEF IInv, CallInv, NoneMissed

LEMMA NextInv == IInv /\ [Next]_vars => IInv'
BY OpendirStep, EntryStep, NoEntryStep, ReceiveStep, LoseStep, AddStep, DeleteStep, StutterStep
   DEF Next, Host, Done

\* The positions behind the client, in the directory and in the scan, hold what it
\* has, through calls that are repeated, break off or see an older directory.
THEOREM Inductive == Spec => []IInv
BY InitInv, NextInv, PTL DEF Spec

\* A listing that ends has every entry that was there all the time, unless one
\* behind the client was removed (nfs.c 643-649, 664, 682-686).
THEOREM NothingMissed == Spec => []NoneMissed
<1>1. IInv => NoneMissed
  BY DEF IInv
<1> QED BY <1>1, Inductive, PTL

\* An entry that was there all the time is listed at most once, unless one was added
\* behind the client (nfs.c 664-665).
THEOREM NothingTwice == Spec => []NoneTwice
<1>1. IInv => NoneTwice
  <2> SUFFICES ASSUME IInv, ~grown, NEW n \in throughout PROVE Times(n) <= 1
    BY DEF NoneTwice
  <2> DEFINE P == {i \in DOMAIN got : got[i] = n}
  <2>1. \A i, j \in P : i = j
    BY DEF IInv, OnceInv
  <2>2. CASE P = {}
    BY <2>2, FS_EmptySet DEF Times
  <2>3. CASE P # {}
    <3>1. PICK i : i \in P
      BY <2>3
    <3>2. P = {i}
      <4> HIDE DEF P
      <4> QED BY <2>1, <3>1
    <3>3. Cardinality({i}) = 1
      BY FS_Singleton
    <3>4. Times(n) = Cardinality(P)
      BY DEF Times
    <3> HIDE DEF P
    <3> QED BY <3>2, <3>3, <3>4
  <2> QED BY <2>2, <2>3
<1> QED BY <1>1, Inductive, PTL

-----------------------------------------------------------------------------
(* The listing goes forward.                                                *)

\* A reply that has taken up space has an entry, and without faults so has every
\* reply that does not end the listing.
SpaceInv ==
    /\ faults \in Nat
    /\ pc = "scan" => dirbytes \in Nat /\ (dirbytes > 0 => out # <<>>)
    /\ pc = "reply" /\ ~eof /\ faults = 0 => out # <<>>

LEMMA SpaceStep == ASSUME IInv, SpaceInv, [Next]_vars PROVE SpaceInv'
<1>1. CASE opendir
  BY <1>1 DEF opendir, SpaceInv
<1>2. CASE Entry
  <2> DEFINE n == d[idx + 1]
  <2>1. pc = "scan" /\ faults' = faults
    BY <1>2 DEF Entry
  <2>2. CASE Skipped(idx + 1)
    <3>1. pc' = pc /\ out' = out /\ dirbytes' = dirbytes
      BY <1>2, <2>2 DEF Entry
    <3> QED BY <2>1, <3>1 DEF SpaceInv
  <2>3. CASE ~Skipped(idx + 1) /\ Full(n)
    <3>1. pc' = "reply" /\ out' = out
      BY <1>2, <2>3 DEF Entry, Finish
    <3>2. out # <<>>
      BY <2>1, <2>3 DEF SpaceInv, Full
    <3> QED BY <2>1, <3>1, <3>2 DEF SpaceInv
  <2>4. CASE ~Skipped(idx + 1) /\ ~Full(n)
    <3>1. /\ pc' = pc
          /\ \/ out' = out /\ dirbytes' = dirbytes
             \/ /\ out' = Append(out, [name |-> n, cookie |-> idx + 1])
                /\ dirbytes' = dirbytes + NeedBytes(n)
      BY <1>2, <2>4 DEF Entry
    <3>2. CASE out' = out /\ dirbytes' = dirbytes
      BY <2>1, <3>1, <3>2 DEF SpaceInv
    <3>3. CASE /\ out' = Append(out, [name |-> n, cookie |-> idx + 1])
               /\ dirbytes' = dirbytes + NeedBytes(n)
      <4>1. NeedBytes(n) \in Nat
        BY DEF NeedBytes
      <4>2. dirbytes' \in Nat
        BY <2>1, <3>3, <4>1 DEF SpaceInv
      <4>3. out' # <<>>
        <5> DEFINE S == [name : Names, cookie : Nat]
                   e == [name |-> n, cookie |-> idx + 1]
        <5>1. out \in Seq(S) /\ Len(out) \in Nat
          BY DEF IInv, TypeInv
        <5> HIDE DEF S, e
        <5>2. Len(Append(out, e)) = Len(out) + 1
          BY <5>1
        <5>3. Len(<<>>) = 0
          OBVIOUS
        <5>4. Append(out, e) # <<>>
          BY <5>1, <5>2, <5>3
        <5> QED BY <3>3, <5>4 DEF e
      <4> QED BY <2>1, <3>1, <4>2, <4>3 DEF SpaceInv
    <3> QED BY <3>1, <3>2, <3>3
  <2> QED BY <2>2, <2>3, <2>4
<1>3. CASE NoEntry
  <2>1. /\ pc' = "reply" /\ faults \in Nat
        /\ (eof' /\ faults' = faults) \/ faults' = faults + 1
    BY <1>3, Zenon DEF NoEntry, Finish, AtEnd, SpaceInv
  <2>2. faults' \in Nat /\ (eof' \/ faults' # 0)
    BY <2>1
  <2> QED BY <2>1, <2>2 DEF SpaceInv
<1>4. CASE Receive
  BY <1>4 DEF Receive, SpaceInv
<1>5. CASE Lose
  BY <1>5 DEF Lose, SpaceInv
<1>6. CASE Host
  BY <1>6 DEF Host, Add, Delete, call, SpaceInv
<1>7. CASE UNCHANGED vars
  BY <1>7 DEF vars, call, SpaceInv
<1> QED BY <1>1, <1>2, <1>3, <1>4, <1>5, <1>6, <1>7 DEF Next, Done

LEMMA SpaceKept == Spec => []SpaceInv
<1>1. Init => SpaceInv
  BY DEF Init, SpaceInv
<1>2. IInv /\ SpaceInv /\ [Next]_vars => SpaceInv'
  BY SpaceStep
<1> QED BY <1>1, <1>2, Inductive, PTL DEF Spec

LEMMA CookieStep ==
    ASSUME IInv, SpaceInv, [Next]_vars
    PROVE  /\ cookie' >= cookie
           /\ pc = "reply" /\ pc' = "client" /\ faults' = 0 => cookie' > cookie
<1>1. cookie \in Nat
  BY DEF IInv, TypeInv
<1>2. CASE Receive
  <2>1. /\ pc = "reply" /\ cookie' = (IF out = <<>> THEN cookie ELSE Last(out).cookie)
        /\ pc' = (IF eof THEN "end" ELSE "client") /\ faults' = faults
    BY <1>2 DEF Receive
  <2>2. out # <<>> => cookie' > cookie
    <3> SUFFICES ASSUME out # <<>> PROVE cookie' > cookie
      OBVIOUS
    <3>1. Len(out) \in DOMAIN out /\ out[Len(out)].cookie \in Nat
      BY LastEntry DEF IInv
    <3>2. cookie < out[Len(out)].cookie
      BY <2>1, <3>1 DEF IInv, CallInv
    <3>3. cookie' = out[Len(out)].cookie
      BY <2>1 DEF Last
    <3> QED BY <1>1, <3>1, <3>2, <3>3
  <2>3. out = <<>> => cookie' = cookie
    BY <2>1
  <2>4. pc' = "client" /\ faults' = 0 => out # <<>>
    BY <2>1 DEF SpaceInv
  <2>5. cookie' >= cookie
    <3>1. CASE out = <<>>
      BY <1>1, <2>3, <3>1
    <3>2. CASE out # <<>>
      <4>1. cookie' = Last(out).cookie /\ Last(out).cookie \in Nat
        BY <2>1, <3>2, LastEntry DEF IInv, Last
      <4> QED BY <1>1, <2>2, <3>2, <4>1
    <3> QED BY <3>1, <3>2
  <2> QED BY <2>2, <2>4, <2>5
<1>3. CASE Lose
  <2>1. cookie' = cookie /\ faults' = faults + 1 /\ faults \in Nat
    BY <1>3 DEF Lose, SpaceInv
  <2> QED BY <1>1, <2>1
<1>4. CASE opendir \/ Entry \/ NoEntry
  <2>1. cookie' = cookie /\ pc # "reply"
    BY <1>4 DEF opendir, Entry, NoEntry
  <2> QED BY <1>1, <2>1
<1>5. CASE Host \/ UNCHANGED vars
  <2>1. cookie' = cookie /\ pc' = pc
    BY <1>5 DEF Host, Add, Delete, vars
  <2> QED BY <1>1, <2>1
<1> QED BY <1>2, <1>3, <1>4, <1>5 DEF Next, Done

\* A READDIR reply that neither ends the listing nor suffers a fault moves the
\* client's cookie on, and no reply moves it back, for every count, also 0, every
\* RD_MAXDATA and every directory that changes under the scan (nfs.c 643-686).
THEOREM GoesForward == Spec => Progress
<1>1. IInv /\ SpaceInv /\ [Next]_vars =>
          [/\ cookie' >= cookie
           /\ pc = "reply" /\ pc' = "client" /\ faults' = 0 => cookie' > cookie]_vars
  BY CookieStep
<1> QED BY <1>1, Inductive, SpaceKept, PTL DEF Spec, Progress
=============================================================================
