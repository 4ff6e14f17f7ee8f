----------------------------- MODULE NfsdProofs -----------------------------
(***************************************************************************)
(* The duplicate request cache of gnfsd and its file handles, for any       *)
(* number of clients, slots and restarts, and any network.                  *)
(***************************************************************************)
EXTENDS Nfsd, FiniteSetTheorems, WellFoundedInduction, TLAPS

\* What drc_store may have put into the cache: the reply of an execution, under
\* the endpoint and the xid of the call that was executed.
Stored == {[c |-> m.c, xid |-> m.xid, res |-> m.res, when |-> t] : m \in done, t \in Nat}

\* Every entry of the cache, and of its history, is the outcome of its call.
StoreInv ==
    /\ now \in Nat
    /\ \A m \in done : m = [c |-> m.c, xid |-> m.xid, res |-> m.res]
    /\ hist \in Seq(Stored)
    /\ \A i \in DOMAIN drc : drc[i] \in Stored

\* The slot that was written a entries before the last one, for a cursor at.
Slot(at, a) == IF a < at THEN at - 1 - a ELSE at - 1 - a + Slots

\* The ring: going back from the cursor, the slots hold the last entries stored.
RingInv ==
    /\ next \in 0..(Slots - 1)
    /\ \A k \in 1..Len(hist) :
          Len(hist) - k < Slots =>
              Slot(next, Len(hist) - k) \in DOMAIN drc /\ drc[Slot(next, Len(hist) - k)] = hist[k]

\* A handle carries the hashes of the path its holder takes it for.
Genuine(fh) == fh.path \in Paths /\ fh.v = HashStr[fh.path] /\ fh.hash = Hash64[fh.path]

\* The table grows only, holds what was handed out where it was, and after the
\* walk every name that has been there since the server was started.
HandleInv ==
    /\ tab \in Seq(Paths) /\ rebuilt \in BOOLEAN
    /\ \A fh \in given : fh.idx \in DOMAIN tab /\ tab[fh.idx] = fh.path
    /\ kept \subseteq Present
    /\ rebuilt => kept \cup {Root} \subseteq Range(tab)
    /\ DOMAIN fhs = Clients
    /\ \A c \in Clients : \A fh \in fhs[c] : Genuine(fh)
    /\ \A m \in done : m.res.fh # Null => Genuine(m.res.fh)
    /\ \A q \in calls : /\ q.proc \in Procs
                        /\ q.proc \in {"LOOKUP", "CREATE", "MKDIR"} => q.name \in Names

CacheInv == StoreInv /\ RingInv /\ AtMostOnce /\ OwnAnswer

IInv == CacheInv /\ HandleInv

-----------------------------------------------------------------------------
LEMMA Bounds == Slots \in Nat /\ Slots > 0 /\ TTL \in Nat /\ MaxTime \in Nat
BY NfsdAssumption

\* An execution adds one reply to those produced.
LEMMA StoredGrows == ASSUME done \subseteq done' PROVE Stored \subseteq Stored'
BY DEF Stored

LEMMA StoredFields ==
    ASSUME StoreInv, NEW e \in Stored
    PROVE  e.when \in Nat /\ [c |-> e.c, xid |-> e.xid, res |-> e.res] \in done
<1>1. PICK m \in done, t \in Nat : e = [c |-> m.c, xid |-> m.xid, res |-> m.res, when |-> t]
  BY DEF Stored
<1>2. m = [c |-> e.c, xid |-> e.xid, res |-> e.res]
  BY <1>1 DEF StoreInv
<1> QED
  BY <1>1, <1>2

\* A call that the cache does not answer was last executed more than DRC_TTL ago,
\* or DRC_SLOTS entries were stored since.
LEMMA MissMeansOld ==
    ASSUME CacheInv, NEW q, drc_lookup(q) = {}, NEW j \in 1..Len(hist),
           hist[j].c = q.c, hist[j].xid = q.xid, Len(hist) + 1 - j <= Slots
    PROVE  now - hist[j].when > TTL
<1>1. Len(hist) \in Nat /\ hist[j] \in Stored /\ now \in Nat
  BY DEF CacheInv, StoreInv
<1>2. Slot(next, Len(hist) - j) \in DOMAIN drc /\ drc[Slot(next, Len(hist) - j)] = hist[j]
  BY <1>1, Bounds DEF CacheInv, RingInv
<1>3. ~(now - hist[j].when <= TTL)
  BY <1>2 DEF drc_lookup
<1>4. hist[j].when \in Nat
  BY <1>1, StoredFields DEF CacheInv
<1> QED
  BY <1>1, <1>3, <1>4, Bounds

\* The cursor of the ring.
LEMMA Wraps ==
    ASSUME NEW n \in Nat, n > 0, NEW i \in 0..(n - 1)
    PROVE  (i + 1) % n = IF i + 1 = n THEN 0 ELSE i + 1
<1>1. CASE i + 1 = n
  BY <1>1
<1>2. CASE i + 1 < n
  BY <1>2
<1> QED
  BY <1>1, <1>2

\* Storing an entry keeps the ring: the slot it takes is that of the entry which
\* is DRC_SLOTS older.
LEMMA StoreKeepsRing ==
    ASSUME CacheInv, NEW e, drc_store(e), hist' = Append(hist, e)
    PROVE  RingInv'
<1> DEFINE n == Len(hist)
<1>1. n \in Nat /\ Slots \in Nat /\ Slots > 0 /\ next \in 0..(Slots - 1)
  BY Bounds DEF CacheInv, StoreInv, RingInv
<1>2. /\ Len(hist') = n + 1 /\ hist'[n + 1] = e
      /\ \A k \in 1..n : hist'[k] = hist[k]
  BY DEF CacheInv, StoreInv
<1>3. /\ DOMAIN drc' = DOMAIN drc \cup {next}
      /\ drc'[next] = e
      /\ \A i \in DOMAIN drc : i # next => drc'[i] = drc[i]
      /\ next' = (next + 1) % Slots
  BY DEF drc_store, Put
<1>4. next' = IF next + 1 = Slots THEN 0 ELSE next + 1
  BY <1>1, <1>3, Wraps
<1>5. ASSUME NEW k \in 1..(n + 1), n + 1 - k < Slots
      PROVE  Slot(next', n + 1 - k) \in DOMAIN drc' /\ drc'[Slot(next', n + 1 - k)] = hist'[k]
  <2>1. CASE k = n + 1
    <3>1. Slot(next', n + 1 - k) = next
      BY <1>1, <1>4, <2>1 DEF Slot
    <3> QED
      BY <1>1, <1>2, <1>3, <2>1, <3>1
  <2>2. CASE k \in 1..n
    <3>1. Slot(next, n - k) \in DOMAIN drc /\ drc[Slot(next, n - k)] = hist[k]
      BY <1>1, <1>5, <2>2 DEF CacheInv, RingInv
    <3>2. Slot(next', n + 1 - k) = Slot(next, n - k) /\ Slot(next, n - k) # next
      BY <1>1, <1>4, <1>5, <2>2 DEF Slot
    <3> QED
      BY <1>1, <1>2, <1>3, <2>2, <3>1, <3>2
  <2> QED
    BY <1>1, <2>1, <2>2
<1>6. next' \in 0..(Slots - 1)
  BY <1>1, <1>4
<1> QED
  BY <1>2, <1>5, <1>6 DEF RingInv

-----------------------------------------------------------------------------
(* The steps of the cache.                                                  *)

LEMMA InitCache == Init => CacheInv
<1> SUFFICES ASSUME Init PROVE CacheInv
  OBVIOUS
<1>1. hist = <<>> /\ drc = <<>> /\ next = 0 /\ now = 0 /\ done = {} /\ replies = {}
  BY DEF Init
<1>2. StoreInv /\ OwnAnswer
  BY <1>1 DEF StoreInv, OwnAnswer
<1>3. RingInv /\ AtMostOnce
  BY <1>1, Bounds DEF RingInv, AtMostOnce
<1> QED
  BY <1>2, <1>3 DEF CacheInv

\* Steps that leave the cache and its history alone.
LEMMA CacheUntouched ==
    ASSUME CacheInv, UNCHANGED <<drc, next, hist>>, now' \in Nat, done \subseteq done',
           \A m \in done' : m = [c |-> m.c, xid |-> m.xid, res |-> m.res]
    PROVE  StoreInv' /\ RingInv' /\ AtMostOnce'
<1>1. Stored \subseteq Stored'
  BY StoredGrows
<1>2. hist \in Seq(Stored')
  BY <1>1 DEF CacheInv, StoreInv
<1>3. StoreInv'
  BY <1>1, <1>2 DEF CacheInv, StoreInv
<1>4. RingInv' /\ AtMostOnce'
  BY DEF CacheInv, RingInv, AtMostOnce
<1> QED
  BY <1>3, <1>4

\* The cached reply was produced by an execution of the call it is sent for.
LEMMA ReplayStep == ASSUME CacheInv, NEW q, Replay(q) PROVE CacheInv'
<1>1. UNCHANGED <<drc, next, hist, now, done>>
  BY DEF Replay, server
<1>2. PICK i \in drc_lookup(q) :
        replies' = replies \cup {[c |-> q.c, xid |-> drc[i].xid, res |-> drc[i].res]}
  BY DEF Replay
<1>3. drc[i] \in Stored /\ drc[i].c = q.c
  BY DEF CacheInv, StoreInv, drc_lookup
<1>4. [c |-> q.c, xid |-> drc[i].xid, res |-> drc[i].res] \in done
  BY <1>3, StoredFields DEF CacheInv
<1>5. OwnAnswer'
  BY <1>1, <1>2, <1>4 DEF CacheInv, OwnAnswer
<1>6. now' \in Nat /\ \A m \in done' : m = [c |-> m.c, xid |-> m.xid, res |-> m.res]
  BY <1>1 DEF CacheInv, StoreInv
<1> QED
  BY <1>1, <1>5, <1>6, CacheUntouched DEF CacheInv

\* An execution that is stored: its call was not answered by the cache.
LEMMA StoreStep ==
    ASSUME CacheInv, NEW q, NEW m, drc_lookup(q) = {}, now' = now, done' = done \cup {m},
           m.c = q.c, m.xid = q.xid, m = [c |-> m.c, xid |-> m.xid, res |-> m.res],
           NEW e, e = [c |-> q.c, xid |-> q.xid, res |-> m.res, when |-> now],
           drc_store(e), hist' = Append(hist, e)
    PROVE  StoreInv' /\ RingInv' /\ AtMostOnce'
<1>1. RingInv'
  BY StoreKeepsRing
<1>2. Stored \subseteq Stored' /\ now \in Nat
  BY StoredGrows DEF CacheInv, StoreInv
<1>3. e \in Stored'
  BY <1>2 DEF Stored
<1>4. StoreInv'
  <2>1. hist \in Seq(Stored')
    BY <1>2 DEF CacheInv, StoreInv
  <2>2. hist' \in Seq(Stored')
    BY <1>3, <2>1
  <2>3. \A i \in DOMAIN drc' : drc'[i] \in Stored'
    BY <1>2, <1>3 DEF CacheInv, StoreInv, drc_store, Put
  <2>4. \A x \in done' : x = [c |-> x.c, xid |-> x.xid, res |-> x.res]
    BY DEF CacheInv, StoreInv
  <2> QED
    BY <1>2, <2>2, <2>3, <2>4 DEF StoreInv
<1>5. AtMostOnce'
  <2> DEFINE n == Len(hist)
  <2>1. /\ n \in Nat /\ DOMAIN hist' = 1..(n + 1) /\ hist'[n + 1] = e
        /\ \A k \in 1..n : hist'[k] = hist[k] /\ k \in DOMAIN hist
    BY DEF CacheInv, StoreInv
  <2>2. ASSUME NEW k \in 1..(n + 1), NEW j \in 1..(k - 1),
               hist'[j].c = hist'[k].c, hist'[j].xid = hist'[k].xid
        PROVE  hist'[k].when - hist'[j].when > TTL \/ k - j > Slots
    <3>1. CASE k = n + 1
      <4>1. j \in 1..n /\ hist'[j] = hist[j] /\ hist[j].c = q.c /\ hist[j].xid = q.xid
        BY <2>1, <2>2, <3>1
      <4>2. CASE n + 1 - j <= Slots
        <5>1. now - hist[j].when > TTL
          BY <4>1, <4>2, MissMeansOld
        <5>2. hist'[k].when = now
          BY <2>1, <3>1
        <5> QED
          BY <4>1, <5>1, <5>2
      <4>3. CASE ~(n + 1 - j <= Slots)
        BY <2>1, <3>1, <4>3, Bounds
      <4> QED
        BY <4>2, <4>3
    <3>2. CASE k \in 1..n
      <4>1. k \in DOMAIN hist /\ j \in 1..n /\ hist'[k] = hist[k] /\ hist'[j] = hist[j]
        BY <2>1, <3>2
      <4>2. hist[k].when - hist[j].when > TTL \/ k - j > Slots
        BY <2>2, <4>1 DEF CacheInv, AtMostOnce
      <4> QED
        BY <4>1, <4>2
    <3> QED
      BY <2>1, <3>1, <3>2
  <2> QED
    BY <2>1, <2>2 DEF AtMostOnce
<1> QED
  BY <1>1, <1>4, <1>5

LEMMA ExecuteStep == ASSUME CacheInv, NEW q, Execute(q) PROVE CacheInv'
<1>1. PICK ents \in Walks :
        LET h == Resolve(q, ents)
            r == Perform(q, h)
            m == [c |-> q.c, xid |-> q.xid, res |-> r.res]
        IN /\ IF q.proc \in Cached
                THEN LET e == [c |-> q.c, xid |-> q.xid, res |-> r.res, when |-> now]
                     IN drc_store(e) /\ hist' = Append(hist, e)
                ELSE UNCHANGED <<drc, next, hist>>
           /\ replies' = replies \cup {m}
           /\ done' = done \cup {m}
  BY Zenon DEF Execute
<1>2. now' = now /\ (q.proc \in Cached => drc_lookup(q) = {})
  BY DEF Execute
<1> DEFINE r == Perform(q, Resolve(q, ents))
           m == [c |-> q.c, xid |-> q.xid, res |-> r.res]
           e == [c |-> q.c, xid |-> q.xid, res |-> r.res, when |-> now]
<1>3. /\ q.proc \in Cached => drc_store(e) /\ hist' = Append(hist, e)
      /\ q.proc \notin Cached => UNCHANGED <<drc, next, hist>>
      /\ replies' = replies \cup {m} /\ done' = done \cup {m}
  BY <1>1, Zenon
<1> HIDE DEF r
<1>4. m.c = q.c /\ m.xid = q.xid /\ m.res = r.res /\ m = [c |-> m.c, xid |-> m.xid, res |-> m.res]
  OBVIOUS
<1> HIDE DEF m
<1>5. OwnAnswer'
  BY <1>3 DEF CacheInv, OwnAnswer
<1>6. CASE q.proc \in Cached
  <2>1. StoreInv' /\ RingInv' /\ AtMostOnce'
    BY <1>2, <1>3, <1>4, <1>6, StoreStep
  <2> QED
    BY <1>5, <2>1 DEF CacheInv
<1>7. CASE q.proc \notin Cached
  <2>1. now' \in Nat /\ done \subseteq done'
    BY <1>2, <1>3 DEF CacheInv, StoreInv
  <2>2. \A x \in done' : x = [c |-> x.c, xid |-> x.xid, res |-> x.res]
    BY <1>3, <1>4 DEF CacheInv, StoreInv
  <2>3. StoreInv' /\ RingInv' /\ AtMostOnce'
    BY <1>3, <1>7, <2>1, <2>2, CacheUntouched
  <2> QED
    BY <1>5, <2>3 DEF CacheInv
<1> QED
  BY <1>6, <1>7

\* The clients and the clock.
LEMMA OutsideStep ==
    ASSUME CacheInv, UNCHANGED <<drc, next, hist, done, replies>>, now' \in Nat
    PROVE  CacheInv'
<1>1. \A m \in done' : m = [c |-> m.c, xid |-> m.xid, res |-> m.res]
  BY DEF CacheInv, StoreInv
<1>2. OwnAnswer'
  BY DEF CacheInv, OwnAnswer
<1> QED
  BY <1>1, <1>2, CacheUntouched DEF CacheInv

\* A restart empties the cache and begins a new history.
LEMMA RestartStep == ASSUME CacheInv, Restart PROVE CacheInv'
<1>1. drc' = <<>> /\ next' = 0 /\ hist' = <<>> /\ UNCHANGED <<replies, now, done>>
  BY DEF Restart
<1>2. StoreInv' /\ OwnAnswer'
  BY <1>1 DEF CacheInv, StoreInv, OwnAnswer
<1>3. RingInv' /\ AtMostOnce'
  BY <1>1, Bounds DEF RingInv, AtMostOnce
<1> QED
  BY <1>2, <1>3 DEF CacheInv

LEMMA NextCache == CacheInv /\ [Next]_vars => CacheInv'
<1> SUFFICES ASSUME CacheInv, [Next]_vars PROVE CacheInv'
  OBVIOUS
<1>1. now \in Nat
  BY DEF CacheInv, StoreInv
<1>2. ASSUME NEW q \in calls, Replay(q) \/ Execute(q) PROVE CacheInv'
  BY <1>2, ReplayStep, ExecuteStep
<1>3. CASE Lose \/ UNCHANGED vars
  BY <1>1, <1>3, OutsideStep DEF Lose, vars, server
<1>4. ASSUME NEW c \in Clients, Call(c) \/ GetReply(c) PROVE CacheInv'
  BY <1>1, <1>4, OutsideStep DEF Call, GetReply, server
<1>5. CASE Tick
  BY <1>1, <1>5, OutsideStep DEF Tick, server
<1>6. CASE Restart
  BY <1>6, RestartStep
<1> QED
  BY <1>2, <1>3, <1>4, <1>5, <1>6 DEF Next

-----------------------------------------------------------------------------
(* The table of paths.                                                      *)

\* Table u is t with entries added at its end.
Extends(t, u) ==
    /\ u \in Seq(Paths) /\ DOMAIN t \subseteq DOMAIN u
    /\ \A i \in DOMAIN t : u[i] = t[i]

LEMMA Roots == Root \in Paths /\ Null \notin Paths
BY HandleAssumption DEF Paths

\* A set of indices has a first one.
LEMMA MinIn ==
    ASSUME NEW S \in SUBSET Nat, S # {}
    PROVE  Min(S) \in S
<1> DEFINE R == OpToRel(<, Nat)
<1>1. IsWellFoundedOn(R, Nat)
  BY NatLessThanWellFounded
<1>2. \A x, y \in Nat : <<y, x>> \in R <=> y < x
  BY DEF OpToRel
<1> HIDE DEF R
<1>3. PICK x \in S : \A y \in S : ~(<<y, x>> \in R)
  BY <1>1, WFMin
<1>4. \A y \in S : x <= y
  <2> TAKE y \in S
  <2>1. ~(<<y, x>> \in R) /\ x \in Nat /\ y \in Nat
    BY <1>3
  <2>2. ~(y < x)
    BY <1>2, <2>1, Zenon
  <2> QED
    BY <2>1, <2>2
<1> QED
  BY <1>4 DEF Min

\* Interning a path finds it or adds it, and the handle has its index.
LEMMA InternExtends ==
    ASSUME NEW t \in Seq(Paths), NEW x \in Paths
    PROVE  /\ Extends(t, intern(t, x))
           /\ fh_from_path(t, x).idx \in DOMAIN intern(t, x)
           /\ intern(t, x)[fh_from_path(t, x).idx] = x
           /\ fh_from_path(t, x).path = x
           /\ Genuine(fh_from_path(t, x))
           /\ Range(t) \cup {x} \subseteq Range(intern(t, x))
<1> DEFINE u == intern(t, x)
<1>1. Extends(t, u) /\ \E i \in DOMAIN u : u[i] = x
  <2>1. CASE x \in Range(t)
    BY <2>1 DEF intern, Extends, Range
  <2>2. CASE x \notin Range(t)
    <3>1. u = Append(t, x)
      BY <2>2 DEF intern
    <3>2. u \in Seq(Paths) /\ Len(u) = Len(t) + 1 /\ u[Len(t) + 1] = x
          /\ \A i \in 1..Len(t) : u[i] = t[i]
      BY <3>1
    <3>3. DOMAIN t = 1..Len(t) /\ DOMAIN u = 1..(Len(t) + 1) /\ Len(t) \in Nat
      BY <3>2
    <3> HIDE DEF u
    <3> QED
      BY <3>2, <3>3 DEF Extends
  <2> QED
    BY <2>1, <2>2
<1>2. fh_from_path(t, x).path = x /\ Genuine(fh_from_path(t, x))
  BY DEF fh_from_path, Genuine
<1>3. fh_from_path(t, x).idx = CHOOSE i \in DOMAIN u : u[i] = x
  BY DEF fh_from_path
<1> HIDE DEF u
<1>4. fh_from_path(t, x).idx \in DOMAIN u /\ u[fh_from_path(t, x).idx] = x
  BY <1>1, <1>3
<1>5. Range(t) \cup {x} \subseteq Range(u)
  BY <1>1 DEF Extends, Range
<1> QED
  BY <1>1, <1>2, <1>4, <1>5 DEF u

\* A walk is a sequence of the entries that the table lacks.
LEMMA WalkIsSeq ==
    ASSUME NEW ents \in Walks, ~rebuilt
    PROVE  ents \in Seq(Paths) /\ Range(ents) = Present \ Range(tab)
<1> DEFINE S == Present \ Range(tab)
<1>1. ents \in [1..Cardinality(S) -> S] /\ Range(ents) = S
  BY DEF Walks
<1>2. IsFiniteSet(S)
  BY NfsdAssumption, FS_Subset DEF Present
<1>3. Cardinality(S) \in Nat
  BY <1>2, FS_CardinalityType
<1>4. S \subseteq Paths
  BY DEF Present, Paths
<1> HIDE DEF S
<1>5. ents \in Seq(S)
  BY <1>1, <1>3
<1> QED
  BY <1>1, <1>4, <1>5 DEF S

\* The walk adds Root and everything that is there.
LEMMA RebuildExtends ==
    ASSUME tab \in Seq(Paths), NEW ents \in Walks, ~rebuilt
    PROVE  /\ Extends(tab, rebuild(tab, ents))
           /\ Present \cup {Root} \subseteq Range(rebuild(tab, ents))
<1> DEFINE u == intern(tab, Root)
           w == u \o ents
<1>1. Extends(tab, u) /\ Range(tab) \cup {Root} \subseteq Range(u)
  BY InternExtends, Roots
<1>2. ents \in Seq(Paths) /\ Range(ents) = Present \ Range(tab)
  BY WalkIsSeq
<1>3. u \in Seq(Paths)
  BY <1>1 DEF Extends
<1> HIDE DEF u
<1>4. /\ w \in Seq(Paths) /\ Len(w) = Len(u) + Len(ents)
      /\ \A i \in 1..Len(u) : w[i] = u[i]
      /\ \A i \in 1..Len(ents) : w[Len(u) + i] = ents[i]
  BY <1>2, <1>3
<1>5. /\ DOMAIN u = 1..Len(u) /\ DOMAIN ents = 1..Len(ents) /\ DOMAIN w = 1..Len(w)
      /\ Len(u) \in Nat /\ Len(ents) \in Nat
  BY <1>2, <1>3, <1>4
<1> HIDE DEF w
<1>6. DOMAIN u \subseteq DOMAIN w /\ \A i \in DOMAIN ents : Len(u) + i \in DOMAIN w
  BY <1>4, <1>5
<1>7. Range(u) \subseteq Range(w)
  BY <1>4, <1>5, <1>6 DEF Range
<1>8. Range(ents) \subseteq Range(w)
  BY <1>4, <1>5, <1>6 DEF Range
<1>9. Extends(tab, w)
  BY <1>1, <1>4, <1>5, <1>6 DEF Extends
<1> QED
  BY <1>1, <1>2, <1>7, <1>8, <1>9 DEF rebuild, u, w

-----------------------------------------------------------------------------
(* The calls.                                                               *)

\* Resolving a handle leaves the table alone or walks the export.
LEMMA ToPathTable ==
    ASSUME NEW t, NEW b \in BOOLEAN, NEW fh, NEW ents
    PROVE  LET h == fh_to_path(t, b, fh, ents)
           IN \/ h.tab = t /\ h.rebuilt = b
              \/ ~b /\ h.tab = rebuild(t, ents) /\ h.rebuilt = TRUE
BY DEF fh_to_path

LEMMA ResolveTable ==
    ASSUME HandleInv, NEW q, NEW ents
    PROVE  \/ Resolve(q, ents).tab = tab /\ Resolve(q, ents).rebuilt = rebuilt
           \/ /\ rebuilt = FALSE /\ Resolve(q, ents).rebuilt = TRUE
              /\ Resolve(q, ents).tab = rebuild(tab, ents)
<1> DEFINE a == fh_to_path(tab, rebuilt, q.fh, ents)
           b == fh_to_path(a.tab, a.rebuilt, q.dh, ents)
           h == Resolve(q, ents)
<1>1. rebuilt \in BOOLEAN
  BY DEF HandleInv
<1>2. \/ a.tab = tab /\ a.rebuilt = rebuilt
      \/ ~rebuilt /\ a.tab = rebuild(tab, ents) /\ a.rebuilt = TRUE
  BY <1>1, ToPathTable
<1>3. a.rebuilt \in BOOLEAN
  BY <1>1, <1>2
<1> HIDE DEF a
<1>4. \/ b.tab = a.tab /\ b.rebuilt = a.rebuilt
      \/ ~a.rebuilt /\ b.tab = rebuild(a.tab, ents) /\ b.rebuilt = TRUE
  BY <1>3, ToPathTable
<1> HIDE DEF b
<1>5. \/ h.tab = tab /\ h.rebuilt = rebuilt
      \/ h.tab = a.tab /\ h.rebuilt = a.rebuilt
      \/ h.tab = b.tab /\ h.rebuilt = b.rebuilt
  BY DEF Resolve, a, b
<1> HIDE DEF h
<1> QED
  BY <1>1, <1>2, <1>4, <1>5 DEF h

\* A procedure leaves the table alone and hands out no handle, or interns a path
\* and hands out its handle.
LEMMA PerformTable ==
    ASSUME NEW q, q.proc \in Procs, NEW h,
           q.proc \in {"LOOKUP", "CREATE", "MKDIR"} => q.name \in Names
    PROVE  LET r == Perform(q, h)
           IN \/ r.tab = h.tab /\ r.res.fh = Null
              \/ \E x \in Paths : r.tab = intern(h.tab, x) /\ r.res.fh = fh_from_path(h.tab, x)
<1> DEFINE Fits(r, t) == \/ r.tab = t /\ r.res.fh = Null
                         \/ \E x \in Paths : r.tab = intern(t, x) /\ r.res.fh = fh_from_path(t, x)
           t == h.tab
<1>1. \A st : Fits(Status(t, st), t)
  BY DEF Status, Result, Reply
<1>2. \A d, s, dat : Fits(Result(d, s, t, Reply("OK", Null, dat)), t)
  BY DEF Result, Reply
<1>3. \A d, s, dat : \A x \in Paths :
        Fits(Result(d, s, intern(t, x), Reply("OK", fh_from_path(t, x), dat)), t)
  BY DEF Result, Reply
<1> HIDE DEF Fits, t
<1>4. \A p : Fits(Attributes(p, t), t)
  BY <1>1, <1>2 DEF Attributes
<1>5. \A p, k : Fits(Change(p, t, k), t)
  BY <1>1, <1>2 DEF Change
<1>6. Fits(mnt_mnt(t), t)
  BY <1>3, Roots DEF mnt_mnt
<1>7. q.name \in Names => Fits(nfs_lookup(q, t), t) /\ Fits(create_common(q, t), t)
  <2> SUFFICES ASSUME q.name \in Names PROVE Fits(nfs_lookup(q, t), t) /\ Fits(create_common(q, t), t)
    OBVIOUS
  <2>1. q.name \in Paths
    BY DEF Paths
  <2>2. Fits(nfs_lookup(q, t), t)
    BY <1>1, <1>3, <2>1 DEF nfs_lookup
  <2>3. Fits(create_common(q, t), t)
    BY <1>1, <1>3, <2>1, Zenon DEF create_common
  <2> QED
    BY <2>2, <2>3
<1>8. \A p : Fits(nfs_read(p, t), t) /\ Fits(nfs_setattr(q, p, t), t) /\ Fits(nfs_write(q, p, t), t)
  BY <1>1, <1>4, <1>5 DEF nfs_read, nfs_setattr, nfs_write
<1>9. Fits(remove_common(q, t), t)
  BY <1>1, <1>2, Zenon DEF remove_common
<1>10. \A p, d : Fits(nfs_rename(q, d, t), t) /\ Fits(nfs_link(q, p, d, t), t)
  <2> TAKE p, d
  <2>1. Fits(NoDir(d, t), t)
    BY <1>1 DEF NoDir
  <2>2. Fits(nfs_rename(q, d, t), t)
    BY <1>1, <1>2, <2>1, Zenon DEF nfs_rename
  <2>3. Fits(nfs_link(q, p, d, t), t)
    BY <1>1, <1>2, <2>1, Zenon DEF nfs_link
  <2> QED
    BY <2>2, <2>3
<1>11. Fits(Handler(q, h.p, h.d, t), t)
  <2>1. q.proc \in Cached \cup {"MNT", "LOOKUP", "GETATTR", "READ"}
    BY ProcsAssumption
  <2>2. CASE q.proc = "MNT"
    BY <1>6, <2>2 DEF Handler
  <2>3. CASE q.proc = "LOOKUP"
    BY <1>7, <2>3 DEF Handler
  <2>4. CASE q.proc = "GETATTR"
    BY <1>4, <2>4 DEF Handler
  <2>5. CASE q.proc = "READ"
    BY <1>8, <2>5 DEF Handler
  <2>6. CASE q.proc = "SETATTR"
    BY <1>8, <2>6 DEF Handler
  <2>7. CASE q.proc = "WRITE"
    BY <1>8, <2>7 DEF Handler
  <2>8. CASE q.proc \in {"CREATE", "MKDIR"}
    BY <1>7, <2>8 DEF Handler
  <2>9. CASE q.proc \in {"REMOVE", "RMDIR"}
    BY <1>9, <2>9 DEF Handler
  <2>10. CASE q.proc = "RENAME"
    BY <1>10, <2>10 DEF Handler
  <2>11. CASE q.proc = "LINK"
    BY <1>10, <2>11 DEF Handler
  <2> QED
    BY <2>1, <2>2, <2>3, <2>4, <2>5, <2>6, <2>7, <2>8, <2>9, <2>10, <2>11 DEF Cached
<1>12. Fits(Perform(q, h), t)
  BY <1>1, <1>11 DEF Perform, t
<1> QED
  BY <1>12 DEF Fits, t

LEMMA ExecuteHandles == ASSUME IInv, NEW q \in calls, Execute(q) PROVE HandleInv'
<1>1. PICK ents \in Walks :
        LET h == Resolve(q, ents)
            r == Perform(q, h)
            m == [c |-> q.c, xid |-> q.xid, res |-> r.res]
        IN /\ dir' = r.dir
           /\ tab' = r.tab /\ rebuilt' = h.rebuilt
           /\ done' = done \cup {m}
           /\ given' = given \cup ({r.res.fh} \ {Null})
           /\ kept' = {n \in kept : r.dir[n] # Null}
  BY Zenon DEF Execute
<1> DEFINE h == Resolve(q, ents)
           r == Perform(q, h)
           m == [c |-> q.c, xid |-> q.xid, res |-> r.res]
<1>2. /\ dir' = r.dir /\ tab' = r.tab /\ rebuilt' = h.rebuilt
      /\ done' = done \cup {m}
      /\ given' = given \cup ({r.res.fh} \ {Null})
      /\ kept' = {n \in kept : r.dir[n] # Null}
  BY <1>1, Zenon
<1>3. UNCHANGED <<calls, fhs>>
  BY DEF Execute, client
<1>4. \/ h.tab = tab /\ h.rebuilt = rebuilt
      \/ rebuilt = FALSE /\ h.tab = rebuild(tab, ents) /\ h.rebuilt = TRUE
  <2>1. HandleInv
    BY DEF IInv
  <2>2. \/ Resolve(q, ents).tab = tab /\ Resolve(q, ents).rebuilt = rebuilt
        \/ /\ rebuilt = FALSE /\ Resolve(q, ents).rebuilt = TRUE
           /\ Resolve(q, ents).tab = rebuild(tab, ents)
    BY <2>1, ResolveTable, Zenon
  <2> QED
    BY <2>2
<1>5. Extends(tab, h.tab) /\ h.rebuilt \in BOOLEAN
  <2>1. Extends(tab, tab)
    BY DEF IInv, HandleInv, Extends
  <2> QED
    BY <1>4, <2>1, RebuildExtends DEF IInv, HandleInv
<1>6. h.rebuilt => kept \cup {Root} \subseteq Range(h.tab)
  <2>1. CASE h.tab = tab /\ h.rebuilt = rebuilt
    BY <2>1 DEF IInv, HandleInv
  <2>2. CASE ~rebuilt /\ h.tab = rebuild(tab, ents)
    <3>1. Present \cup {Root} \subseteq Range(h.tab)
      BY <2>2, RebuildExtends DEF IInv, HandleInv
    <3> QED
      BY <3>1 DEF IInv, HandleInv
  <2> QED
    BY <1>4, <2>1, <2>2
<1> HIDE DEF h
<1>7. \/ r.tab = h.tab /\ r.res.fh = Null
      \/ \E x \in Paths : r.tab = intern(h.tab, x) /\ r.res.fh = fh_from_path(h.tab, x)
  BY PerformTable DEF IInv, HandleInv
<1> HIDE DEF r
<1>8. /\ Extends(h.tab, r.tab)
      /\ r.res.fh # Null => /\ r.res.fh.idx \in DOMAIN r.tab
                            /\ r.tab[r.res.fh.idx] = r.res.fh.path
                            /\ Genuine(r.res.fh)
  <2>1. h.tab \in Seq(Paths)
    BY <1>5 DEF Extends
  <2>2. CASE r.tab = h.tab /\ r.res.fh = Null
    BY <2>1, <2>2 DEF Extends
  <2>3. ASSUME NEW x \in Paths, r.tab = intern(h.tab, x), r.res.fh = fh_from_path(h.tab, x)
        PROVE  /\ Extends(h.tab, r.tab)
               /\ r.res.fh.idx \in DOMAIN r.tab
               /\ r.tab[r.res.fh.idx] = r.res.fh.path
               /\ Genuine(r.res.fh)
    BY <2>1, <2>3, InternExtends
  <2> QED
    BY <1>7, <2>2, <2>3
<1>9. Extends(tab, tab')
  BY <1>2, <1>5, <1>8 DEF Extends
<1>10. /\ tab' \in Seq(Paths) /\ rebuilt' \in BOOLEAN
       /\ kept' \subseteq Present'
  BY <1>2, <1>5, <1>9 DEF IInv, HandleInv, Extends, Present
<1>11. \A fh \in given' : fh.idx \in DOMAIN tab' /\ tab'[fh.idx] = fh.path
  BY <1>2, <1>8, <1>9 DEF IInv, HandleInv, Extends
<1>12. rebuilt' => kept' \cup {Root} \subseteq Range(tab')
  <2>1. Range(h.tab) \subseteq Range(tab')
    BY <1>2, <1>8 DEF Extends, Range
  <2> QED
    BY <1>2, <1>6, <2>1
<1>13. \A x \in done' : x.res.fh # Null => Genuine(x.res.fh)
  <2>1. m.res = r.res
    OBVIOUS
  <2> HIDE DEF m
  <2> QED
    BY <1>2, <1>8, <2>1 DEF IInv, HandleInv
<1>14. /\ DOMAIN fhs' = Clients /\ \A c \in Clients : \A fh \in fhs'[c] : Genuine(fh)
       /\ \A x \in calls' : /\ x.proc \in Procs
                            /\ x.proc \in {"LOOKUP", "CREATE", "MKDIR"} => x.name \in Names
  BY <1>3 DEF IInv, HandleInv
<1> QED
  BY <1>10, <1>11, <1>12, <1>13, <1>14 DEF HandleInv, Genuine

LEMMA InitHandles == Init => HandleInv
<1> SUFFICES ASSUME Init PROVE HandleInv
  OBVIOUS
<1>1. /\ tab = <<Root>> /\ rebuilt = FALSE /\ calls = {} /\ done = {}
      /\ given = {RootHandle} /\ kept = Present
  BY DEF Init
<1>2. tab \in Seq(Paths) /\ Range(tab) = {Root} /\ intern(<<>>, Root) = <<Root>>
  BY <1>1, Roots DEF Range, intern
<1>3. /\ RootHandle.idx \in DOMAIN tab /\ tab[RootHandle.idx] = RootHandle.path
      /\ Genuine(RootHandle)
  <2>1. <<>> \in Seq(Paths)
    OBVIOUS
  <2>2. /\ fh_from_path(<<>>, Root).idx \in DOMAIN intern(<<>>, Root)
        /\ intern(<<>>, Root)[fh_from_path(<<>>, Root).idx] = Root
        /\ fh_from_path(<<>>, Root).path = Root /\ Genuine(fh_from_path(<<>>, Root))
    BY <2>1, InternExtends, Roots
  <2> QED
    BY <1>1, <1>2, <2>2 DEF RootHandle
<1>4. PICK old \in {{}} \cup {{h} : h \in OldHandles} :
        fhs = [c \in Clients |-> {RootHandle} \cup old]
  BY DEF Init
<1>5. \A h \in OldHandles : Genuine(h)
  BY DEF OldHandles, Genuine, Paths
<1>6. \A h \in old : Genuine(h)
  BY <1>5
<1>7. DOMAIN fhs = Clients /\ \A c \in Clients : \A fh \in fhs[c] : Genuine(fh)
  BY <1>3, <1>4, <1>6
<1> QED
  BY <1>1, <1>2, <1>3, <1>7 DEF HandleInv

\* Steps that leave the server alone.
LEMMA OutsideHandles ==
    ASSUME IInv, UNCHANGED <<tab, rebuilt, dir, given, kept, done>>,
           DOMAIN fhs' = Clients, \A c \in Clients : \A fh \in fhs'[c] : Genuine(fh),
           \A q \in calls' : /\ q.proc \in Procs
                             /\ q.proc \in {"LOOKUP", "CREATE", "MKDIR"} => q.name \in Names
    PROVE  HandleInv'
BY DEF IInv, HandleInv, Genuine, Present

LEMMA CallHandles == ASSUME IInv, NEW c \in Clients, Call(c) PROVE HandleInv'
<1>1. UNCHANGED <<tab, rebuilt, dir, given, kept, done, fhs>>
  BY DEF Call, server, files, handles
<1>2. PICK q \in Requests(c) : calls' = calls \cup {q}
  BY DEF Call
<1>3. /\ q.proc \in Procs
      /\ q.proc \in {"LOOKUP", "CREATE", "MKDIR"} => q.name \in Names
  BY DEF Requests, DirOps
<1>4. \A x \in calls' : /\ x.proc \in Procs
                        /\ x.proc \in {"LOOKUP", "CREATE", "MKDIR"} => x.name \in Names
  BY <1>2, <1>3 DEF IInv, HandleInv
<1> QED
  BY <1>1, <1>4, OutsideHandles DEF IInv, HandleInv

\* A reply was produced by an execution, and so was the handle in it.
LEMMA GetReplyHandles == ASSUME IInv, NEW c \in Clients, GetReply(c) PROVE HandleInv'
<1>1. UNCHANGED <<tab, rebuilt, dir, given, kept, done, calls>>
  BY DEF GetReply, server, files, handles
<1>2. PICK m \in replies :
        fhs' = [fhs EXCEPT ![c] = IF m.res.fh = Null THEN @ ELSE @ \cup {m.res.fh}]
  BY DEF GetReply
<1>3. m.res.fh # Null => Genuine(m.res.fh)
  BY DEF IInv, CacheInv, OwnAnswer, HandleInv
<1>4. DOMAIN fhs' = Clients /\ \A d \in Clients : \A fh \in fhs'[d] : Genuine(fh)
  BY <1>2, <1>3 DEF IInv, HandleInv
<1> QED
  BY <1>1, <1>4, OutsideHandles DEF IInv, HandleInv

LEMMA RestartHandles == ASSUME IInv, Restart PROVE HandleInv'
<1>1. /\ tab' = <<>> /\ rebuilt' = FALSE /\ given' = {} /\ kept' = Present
      /\ UNCHANGED <<dir, done, calls, fhs>>
  BY DEF Restart, files, client
<1>2. tab' \in Seq(Paths) /\ kept' \subseteq Present'
  BY <1>1 DEF Present
<1>3. /\ DOMAIN fhs' = Clients /\ \A c \in Clients : \A fh \in fhs'[c] : Genuine(fh)
      /\ \A m \in done' : m.res.fh # Null => Genuine(m.res.fh)
      /\ \A q \in calls' : /\ q.proc \in Procs
                           /\ q.proc \in {"LOOKUP", "CREATE", "MKDIR"} => q.name \in Names
  BY <1>1 DEF IInv, HandleInv
<1> QED
  BY <1>1, <1>2, <1>3 DEF HandleInv, Genuine

LEMMA NextHandles == IInv /\ [Next]_vars => HandleInv'
<1> SUFFICES ASSUME IInv, [Next]_vars PROVE HandleInv'
  OBVIOUS
<1>1. ASSUME UNCHANGED <<tab, rebuilt, dir, given, kept, done, fhs, calls>> PROVE HandleInv'
  BY <1>1, OutsideHandles DEF IInv, HandleInv
<1>2. ASSUME NEW q \in calls, Replay(q) PROVE HandleInv'
  BY <1>1, <1>2 DEF Replay, server, files, client, handles
<1>3. ASSUME NEW q \in calls, Execute(q) PROVE HandleInv'
  BY <1>3, ExecuteHandles
<1>4. CASE Lose \/ UNCHANGED vars
  BY <1>1, <1>4 DEF Lose, vars, server, files, client, handles
<1>5. ASSUME NEW c \in Clients, Call(c) \/ GetReply(c) PROVE HandleInv'
  BY <1>5, CallHandles, GetReplyHandles
<1>6. CASE Tick
  BY <1>1, <1>6 DEF Tick, server, files, client, handles
<1>7. CASE Restart
  BY <1>7, RestartHandles
<1> QED
  BY <1>2, <1>3, <1>4, <1>5, <1>6, <1>7 DEF Next

\* What a genuine handle is resolved to, by the index or by the first entry with
\* its path hash.
LEMMA ResolvedRight ==
    ASSUME HandleInv, NEW fh, Genuine(fh), NEW r \in Resolutions(fh)
    PROVE  /\ fh \in given => r = fh.path
           /\ fh.path \in kept \cup {Root} /\ fh.hash # 0 => r # Null
           /\ r # Null => r = fh.path \/ HashStr[r] = HashStr[fh.path]
                                    \/ Hash64[r] = Hash64[fh.path]
<1>1. PICK ents \in Walks : r = fh_to_path(tab, rebuilt, fh, ents).path
  BY DEF Resolutions
<1> DEFINE walk == ~Fast(tab, fh) /\ fh.hash # 0 /\ Hits(tab, fh) = {} /\ ~rebuilt
           t == IF walk THEN rebuild(tab, ents) ELSE tab
<1>2. r = IF Fast(tab, fh) THEN tab[fh.idx]
          ELSE IF fh.hash = 0 \/ Hits(t, fh) = {} THEN Null
          ELSE t[Min(Hits(t, fh))]
  BY <1>1 DEF fh_to_path
<1>3. /\ t \in Seq(Paths)
      /\ ~Fast(tab, fh) /\ fh.hash # 0 /\ Hits(t, fh) = {} => kept \cup {Root} \subseteq Range(t)
  <2>1. CASE walk
    <3>1. Extends(tab, t) /\ Present \cup {Root} \subseteq Range(t)
      BY <2>1, RebuildExtends DEF HandleInv
    <3> QED
      BY <3>1 DEF HandleInv, Extends
  <2>2. CASE ~walk
    <3>1. t = tab
      BY <2>2
    <3>2. ~Fast(tab, fh) /\ fh.hash # 0 /\ Hits(t, fh) = {} => rebuilt
      BY <2>2, <3>1
    <3> HIDE DEF t, walk
    <3> QED
      BY <3>1, <3>2 DEF HandleInv
  <2> QED
    BY <2>1, <2>2
<1> HIDE DEF t
<1>4. Hits(t, fh) # {} => /\ t[Min(Hits(t, fh))] \in Paths
                          /\ Hash64[t[Min(Hits(t, fh))]] = fh.hash
  <2> SUFFICES ASSUME Hits(t, fh) # {}
               PROVE  t[Min(Hits(t, fh))] \in Paths /\ Hash64[t[Min(Hits(t, fh))]] = fh.hash
    OBVIOUS
  <2>1. Hits(t, fh) \in SUBSET Nat
    BY <1>3 DEF Hits
  <2>2. Min(Hits(t, fh)) \in Hits(t, fh)
    BY <2>1, MinIn
  <2> QED
    BY <1>3, <2>2 DEF Hits
<1>5. Fast(tab, fh) => tab[fh.idx] \in Paths /\ HashStr[tab[fh.idx]] = HashStr[fh.path]
  BY DEF Fast, HandleInv, Genuine
<1>6. fh \in given => Fast(tab, fh) /\ tab[fh.idx] = fh.path
  BY DEF HandleInv, Fast, Genuine
<1>7. fh.path \in Range(t) => Hits(t, fh) # {}
  BY DEF Hits, Genuine, Range
<1>8. fh.path \in kept \cup {Root} /\ fh.hash # 0 => Fast(tab, fh) \/ Hits(t, fh) # {}
  BY <1>3, <1>7
<1>9. fh.hash = Hash64[fh.path]
  BY DEF Genuine
<1> QED
  BY <1>2, <1>4, <1>5, <1>6, <1>8, <1>9, Roots

-----------------------------------------------------------------------------
(* Theorems.                                                                *)

\* The cache holds what was executed, in the order of the ring; the table holds
\* what was handed out.
THEOREM Inductive == Spec => []IInv
<1>1. Init => IInv
  BY InitCache, InitHandles DEF IInv
<1>2. IInv /\ [Next]_vars => IInv'
  BY NextCache, NextHandles DEF IInv
<1> QED
  BY <1>1, <1>2, PTL DEF Spec

\* Within one life of gnfsd a call that changes the export is executed again
\* only after DRC_TTL, or after DRC_SLOTS later entries, however often it is
\* retransmitted and in whatever order calls arrive (rpc.c, drc_lookup and
\* drc_store).
THEOREM ExecutedOnce == Spec => []AtMostOnce
<1>1. IInv => AtMostOnce
  BY DEF IInv, CacheInv
<1> QED
  BY <1>1, Inductive, PTL

\* A reply, from the cache or not, was produced by an execution of the call of
\* that client with that xid, also over restarts (rpc.c, handle_one).
THEOREM AnswersItsCall == Spec => []OwnAnswer
<1>1. IInv => OwnAnswer
  BY DEF IInv, CacheInv
<1> QED
  BY <1>1, Inductive, PTL

\* For any hash functions, whatever collides, and over any number of restarts: a
\* handle that was issued in this life of gnfsd denotes its path; one from an
\* earlier life is not stale if its file has been there all through this one; and
\* only a collision makes a handle denote another path (handle.c, fh_to_path).
THEOREM HandlesKeepTheirPath == Spec => []HandleDenotesPath
<1>1. IInv => HandleDenotesPath
  <2> SUFFICES ASSUME IInv, NEW c \in Clients, NEW fh \in fhs[c], NEW r \in Resolutions(fh)
               PROVE  /\ fh \in given => r = fh.path
                      /\ fh.path \in kept \cup {Root} /\ fh.hash # 0 => r # Null
                      /\ r # Null => r = fh.path \/ HashStr[r] = HashStr[fh.path]
                                               \/ Hash64[r] = Hash64[fh.path]
    BY DEF HandleDenotesPath
  <2>1. HandleInv /\ Genuine(fh)
    BY DEF IInv, HandleInv
  <2> QED
    BY <2>1, ResolvedRight
<1> QED
  BY <1>1, Inductive, PTL
=============================================================================
