-------------------------------- MODULE Nfsd --------------------------------
(***************************************************************************)
(* gnfsd (nfsd/rpc.c, nfsd/nfs.c): the single-threaded loop that answers    *)
(* NFSv2 calls over UDP, its duplicate request cache and the procedures     *)
(* that read and change the exported directory.  Clients have one call      *)
(* outstanding each and retransmit it until it is answered; the network     *)
(* loses, duplicates, delays and reorders both calls and replies.  The      *)
(* server may be restarted, which empties its memory.                       *)
(*                                                                          *)
(* The content of a file is the call that wrote it last.  Directories that  *)
(* clients make stay empty: a call whose target directory is one of them is *)
(* not answered (Execute).                                                  *)
(***************************************************************************)
EXTENDS NfsHandle, FiniteSets

CONSTANTS
    Clients,   \* client endpoints: address and port
    Procs,     \* the procedures the clients use
    OldIdx,    \* indices of handles that were issued before the first life here
    Slots,     \* DRC_SLOTS
    TTL,       \* DRC_TTL
    MaxCalls,  \* bound: calls of all clients together
    MaxStores, \* bound: replies stored in the cache in one life
    MaxTime,   \* bound: ticks of the clock
    MaxLives   \* bound: starts of the server

ASSUME NfsdAssumption ==
    /\ Slots \in Nat \ {0}
    /\ {TTL, MaxCalls, MaxStores, MaxTime, MaxLives} \subseteq Nat
    /\ Null \notin Clients /\ IsFiniteSet(Names)

VARIABLES
    tab, rebuilt,        \* handle.c: g_paths, g_rebuilt
    drc, next,           \* rpc.c: g_drc, the entries that are valid; g_drc_next
    dir,                 \* dir[n]: the file named n, or Null
    data,                \* data[f]: what file f contains
    calls, replies,      \* datagrams sent so far, each may arrive any number of times
    pending, xid, fhs,   \* of each client: its call, its last xid, its handles
    now,                 \* time(NULL)
    lives,
    hist,                \* history: the entries stored in the cache in this life
    done,                \* history: the replies that executions have produced
    given, kept          \* history: the handles issued in this life, and the
                         \* names that were there all through it

server == <<tab, rebuilt, drc, next>>
files == <<dir, data>>
client == <<pending, xid, fhs>>
handles == <<given, kept>>
vars == <<server, files, calls, replies, client, now, lives, hist, done, handles>>

\* A file is known by its kind and by the call that made it.
File(kind, by) == [kind |-> kind, by |-> by]
HostFile(n) == File("file", <<n, 0>>)
RootHandle == fh_from_path(<<>>, Root)
Present == {n \in Names : dir[n] # Null}

\* What a client may have from a life of the server before the first one here.
OldHandles ==
    {[idx |-> i, v |-> HashStr[n], hash |-> Hash64[n], path |-> n] :
        i \in OldIdx, n \in Names}

\* Every client has mounted the export, which holds some files; they may still
\* have the handle of a file, which is there or not.
Init ==
    /\ tab = <<Root>> /\ rebuilt = FALSE
    /\ drc = <<>> /\ next = 0
    /\ dir \in {[n \in Names |-> IF n \in S THEN HostFile(n) ELSE Null] : S \in SUBSET Names}
    /\ data = [f \in {HostFile(n) : n \in Names} |-> <<f.by>>]
    /\ calls = {} /\ replies = {}
    /\ pending = [c \in Clients |-> Null] /\ xid = [c \in Clients |-> 0]
    /\ \E old \in {{}} \cup {{h} : h \in OldHandles} : fhs = [c \in Clients |-> {RootHandle} \cup old]
    /\ now = 0 /\ lives = 1 /\ hist = <<>> /\ done = {}
    /\ given = {RootHandle} /\ kept = Present

-----------------------------------------------------------------------------
(* The procedures.  Each gives the directory, the contents, the table and   *)
(* the reply it leaves behind; t is the table after the handle's resolution.*)

Reply(st, fh, dat) == [st |-> st, fh |-> fh, dat |-> dat]
Result(d, s, t, r) == [dir |-> d, data |-> s, tab |-> t, res |-> r]
Status(t, st) == Result(dir, data, t, Reply(st, Null, Null))
Kind(n) == IF dir[n] = Null THEN "none" ELSE dir[n].kind
Key(q) == <<q.c, q.xid>>
Put(s, f, v) == [g \in DOMAIN s \cup {f} |-> IF g = f THEN v ELSE s[g]]

mnt_mnt(t) == Result(dir, data, intern(t, Root), Reply("OK", fh_from_path(t, Root), Null))

nfs_lookup(q, t) ==
    IF dir[q.name] = Null THEN Status(t, "NOENT")
    ELSE Result(dir, data, intern(t, q.name), Reply("OK", fh_from_path(t, q.name), Null))

\* What reply_stat_fattr tells of path p: whether its file changed.
Attributes(p, t) ==
    CASE p = Root -> Status(t, "OK")
      [] p # Root /\ dir[p] = Null -> Status(t, "NOENT")
      [] OTHER -> Result(dir, data, t, Reply("OK", Null, data[dir[p]]))

IsDir(p) == p = Root \/ Kind(p) = "dir"

nfs_read(p, t) == IF IsDir(p) THEN Status(t, "ISDIR") ELSE Attributes(p, t)

\* The call with key k changes the content of path p.
Change(p, t, k) ==
    IF dir[p] = Null THEN Status(t, "NOENT")
    ELSE Result(dir, Put(data, dir[p], <<k>>), t, Reply("OK", Null, <<k>>))

\* SETATTR truncates a file, best effort; WRITE refuses a directory.
nfs_setattr(q, p, t) == IF IsDir(p) THEN Attributes(p, t) ELSE Change(p, t, Key(q))
nfs_write(q, p, t) == IF IsDir(p) THEN Status(t, "ISDIR") ELSE Change(p, t, Key(q))

create_common(q, t) ==
    LET want == IF q.proc = "MKDIR" THEN "dir" ELSE "file"
        f == IF dir[q.name] = Null THEN File(want, Key(q)) ELSE dir[q.name]
    IN CASE want = "dir" /\ dir[q.name] # Null -> Status(t, "EXIST")
         [] want = "file" /\ Kind(q.name) = "dir" -> Status(t, "ISDIR")
         [] OTHER -> Result([dir EXCEPT ![q.name] = f], Put(data, f, <<Key(q)>>),
                            intern(t, q.name), Reply("OK", fh_from_path(t, q.name), <<Key(q)>>))

remove_common(q, t) ==
    LET want == IF q.proc = "RMDIR" THEN "dir" ELSE "file"
    IN CASE dir[q.name] = Null -> Status(t, "NOENT")
         [] dir[q.name] # Null /\ Kind(q.name) # want ->
                Status(t, IF want = "dir" THEN "NOTDIR" ELSE "ISDIR")
         [] OTHER -> Result([dir EXCEPT ![q.name] = Null], data, t, Reply("OK", Null, Null))

\* A path with an entry below it, when d is not a directory that exists.
NoDir(d, t) == Status(t, IF dir[d] = Null THEN "NOENT" ELSE "NOTDIR")

\* The kernel looks for both directories first, Root and d; rename() of two
\* names of one file does nothing.
nfs_rename(q, d, t) ==
    LET from == dir[q.name]
        to == dir[q.to]
    IN CASE d # Root -> NoDir(d, t)
         [] d = Root /\ from = Null -> Status(t, "NOENT")
         [] d = Root /\ from # Null /\ from = to -> Status(t, "OK")
         [] d = Root /\ from # Null /\ from # to /\ to # Null /\ from.kind # to.kind ->
                Status(t, IF to.kind = "dir" THEN "ISDIR" ELSE "NOTDIR")
         [] OTHER -> Result([dir EXCEPT ![q.name] = Null, ![q.to] = from], data, t,
                            Reply("OK", Null, Null))

\* link() looks for the file, then for the new name, and refuses a directory last.
nfs_link(q, p, d, t) ==
    CASE p # Root /\ dir[p] = Null -> Status(t, "NOENT")
      [] (p = Root \/ dir[p] # Null) /\ d # Root -> NoDir(d, t)
      [] (p = Root \/ dir[p] # Null) /\ d = Root /\ dir[q.to] # Null -> Status(t, "EXIST")
      [] IsDir(p) /\ d = Root /\ dir[q.to] = Null -> Status(t, "PERM")
      [] OTHER -> Result([dir EXCEPT ![q.to] = dir[p]], data, t, Reply("OK", Null, Null))

\* GN_ROUTES with cache = 1.
Cached == {"SETATTR", "WRITE", "CREATE", "REMOVE", "RENAME", "LINK", "MKDIR", "RMDIR"}

ASSUME ProcsAssumption == Procs \subseteq Cached \cup {"MNT", "LOOKUP", "GETATTR", "READ"}

\* What the call's handle, and the second one of RENAME and LINK, resolve to:
\* paths p and d, and the table after that.  The second is looked at only when
\* the first is not stale.
Resolve(q, ents) ==
    LET h == fh_to_path(tab, rebuilt, q.fh, ents)
        d == fh_to_path(h.tab, h.rebuilt, q.dh, ents)
    IN IF q.proc = "MNT" THEN [tab |-> tab, rebuilt |-> rebuilt, p |-> Null, d |-> Null]
       ELSE IF h.path = Null \/ q.dh = Null
         THEN [tab |-> h.tab, rebuilt |-> h.rebuilt, p |-> h.path, d |-> Null]
       ELSE [tab |-> d.tab, rebuilt |-> d.rebuilt, p |-> h.path, d |-> d.path]

Stale(q, h) == q.proc # "MNT" /\ (h.p = Null \/ (q.dh # Null /\ h.d = Null))

\* A directory procedure has p = Root.
Handler(q, p, d, t) ==
    CASE q.proc = "MNT" -> mnt_mnt(t)
      [] q.proc = "LOOKUP" -> nfs_lookup(q, t)
      [] q.proc = "GETATTR" -> Attributes(p, t)
      [] q.proc = "READ" -> nfs_read(p, t)
      [] q.proc = "SETATTR" -> nfs_setattr(q, p, t)
      [] q.proc = "WRITE" -> nfs_write(q, p, t)
      [] q.proc \in {"CREATE", "MKDIR"} -> create_common(q, t)
      [] q.proc \in {"REMOVE", "RMDIR"} -> remove_common(q, t)
      [] q.proc = "RENAME" -> nfs_rename(q, d, t)
      [] q.proc = "LINK" -> nfs_link(q, p, d, t)

Perform(q, h) == IF Stale(q, h) THEN Status(h.tab, "STALE") ELSE Handler(q, h.p, h.d, h.tab)

-----------------------------------------------------------------------------
(* The duplicate request cache and the dispatcher.                          *)

\* Slip: the cache is searched by xid alone.
DrcLookupXid(q) ==
    {i \in DOMAIN drc : drc[i].xid = q.xid /\ now - drc[i].when <= TTL}

\* The slots that hold a live reply to call q.
drc_lookup(q) ==
    {i \in DOMAIN drc : drc[i].xid = q.xid /\ drc[i].c = q.c /\ now - drc[i].when <= TTL}

\* Slip: the cursor wraps one slot early.
DrcStoreEarlyWrap(e) ==
    /\ drc' = Put(drc, next, e)
    /\ next' = IF Slots = 1 THEN 0 ELSE (next + 1) % (Slots - 1)

drc_store(e) ==
    /\ drc' = Put(drc, next, e)
    /\ next' = (next + 1) % Slots

\* A retransmission is answered from the cache, from the first slot that fits.
Replay(q) ==
    /\ q \in calls /\ q.proc \in Cached
    /\ \E i \in drc_lookup(q) :
         /\ \A j \in drc_lookup(q) : i <= j
         /\ replies' = replies \cup {[c |-> q.c, xid |-> drc[i].xid, res |-> drc[i].res]}
    /\ UNCHANGED <<server, files, calls, client, now, lives, hist, done, handles>>

\* The orders in which a walk of the export may find the entries that the
\* table lacks.
Walks ==
    LET S == Present \ Range(tab)
    IN IF rebuilt THEN {<<>>} ELSE {ents \in [1..Cardinality(S) -> S] : Range(ents) = S}

\* Any other call is executed; the export is walked in some order if its
\* handles make the server do so.
Execute(q) ==
    /\ q \in calls
    /\ q.proc \in Cached => drc_lookup(q) = {} /\ Len(hist) < MaxStores
    /\ \E ents \in Walks :
         LET h == Resolve(q, ents)
             r == Perform(q, h)
             m == [c |-> q.c, xid |-> q.xid, res |-> r.res]
         IN /\ h.d \in Names => Kind(h.d) # "dir"
            /\ dir' = r.dir /\ data' = r.data
            /\ tab' = r.tab /\ rebuilt' = h.rebuilt
            /\ IF q.proc \in Cached
                 THEN LET e == [c |-> q.c, xid |-> q.xid, res |-> r.res, when |-> now]
                      IN drc_store(e) /\ hist' = Append(hist, e)
                 ELSE UNCHANGED <<drc, next, hist>>
            /\ replies' = replies \cup {m}
            /\ done' = done \cup {m}
            /\ given' = given \cup ({r.res.fh} \ {Null})
            /\ kept' = {n \in kept : r.dir[n] # Null}
    /\ UNCHANGED <<calls, client, now, lives>>

-----------------------------------------------------------------------------
(* The clients, time and the life of the server.                            *)

DirOps == {"LOOKUP", "CREATE", "MKDIR", "REMOVE", "RMDIR", "RENAME"}

\* A directory operation goes through the handle of the directory; the target
\* directory of RENAME and LINK is any handle dh of the client.  What a procedure
\* does not take is Null.
Requests(c) ==
    {q \in [c : {c}, xid : {xid[c] + 1}, proc : Procs, fh : fhs[c], dh : fhs[c] \cup {Null},
            name : Names \cup {Null}, to : Names \cup {Null}] :
        /\ q.proc \in DirOps \cup {"MNT"} => q.fh.path = Root
        /\ q.name # Null <=> q.proc \in DirOps
        /\ q.to # Null <=> q.proc \in {"RENAME", "LINK"}
        /\ q.dh # Null <=> q.proc \in {"RENAME", "LINK"}}

Call(c) ==
    /\ pending[c] = Null /\ Cardinality(calls) < MaxCalls
    /\ \E q \in Requests(c) :
         /\ pending' = [pending EXCEPT ![c] = q]
         /\ calls' = calls \cup {q}
    /\ xid' = [xid EXCEPT ![c] = @ + 1]
    /\ UNCHANGED <<server, files, replies, fhs, now, lives, hist, done, handles>>

GetReply(c) ==
    /\ pending[c] # Null
    /\ \E m \in replies :
         /\ m.c = c /\ m.xid = pending[c].xid
         /\ pending' = [pending EXCEPT ![c] = Null]
         /\ fhs' = [fhs EXCEPT ![c] = IF m.res.fh = Null THEN @ ELSE @ \cup {m.res.fh}]
    /\ UNCHANGED <<server, files, calls, replies, xid, now, lives, hist, done, handles>>

Tick ==
    /\ now < MaxTime /\ now' = now + 1
    /\ UNCHANGED <<server, files, calls, replies, client, lives, hist, done, handles>>

Restart ==
    /\ lives < MaxLives /\ lives' = lives + 1
    /\ tab' = <<>> /\ rebuilt' = FALSE
    /\ drc' = <<>> /\ next' = 0
    /\ hist' = <<>> /\ given' = {} /\ kept' = Present
    /\ UNCHANGED <<files, calls, replies, client, now, done>>

\* A datagram is lost, or dropped by rpc_parse_call.
Lose == calls # {} /\ UNCHANGED vars

Next ==
    \/ \E q \in calls : Replay(q) \/ Execute(q)
    \/ Lose
    \/ \E c \in Clients : Call(c) \/ GetReply(c)
    \/ Tick \/ Restart

Spec == Init /\ [][Next]_vars

-----------------------------------------------------------------------------
(* Properties.                                                              *)

\* A call that changes the export is executed again only when DRC_TTL has
\* passed since, or DRC_SLOTS other replies have been stored since (rpc.c).
AtMostOnce ==
    \A k \in DOMAIN hist : \A j \in 1..(k - 1) :
        hist[j].c = hist[k].c /\ hist[j].xid = hist[k].xid =>
            hist[k].when - hist[j].when > TTL \/ k - j > Slots

\* Every reply is the outcome of executing the very call it answers, also one
\* from the cache and when two clients use the same xid (rpc.c 212-222).
OwnAnswer == replies \subseteq done

\* What the handle fh would be resolved to now, for some order of the walk.
Resolutions(fh) == {fh_to_path(tab, rebuilt, fh, ents).path : ents \in Walks}

\* Whatever handles a client has kept and whatever hashes collide (handle.c,
\* fh_to_path): a handle issued in this life of the server denotes its path and
\* is never stale; one from an earlier life is not stale as long as the file has
\* been there all through this one; and a handle denotes another path only if
\* the hash it was found by collides.
HandleDenotesPath ==
    \A c \in Clients : \A fh \in fhs[c] : \A r \in Resolutions(fh) :
        /\ fh \in given => r = fh.path
        /\ fh.path \in kept \cup {Root} /\ fh.hash # 0 => r # Null
        /\ r # Null => r = fh.path \/ HashStr[r] = HashStr[fh.path]
                                 \/ Hash64[r] = Hash64[fh.path]

\* handle.c 211: a handle is stale only when its file is gone.  It fails when the
\* file has got its name back after the walk (README, section 3).
GenuinelyStale ==
    \A c \in Clients : \A fh \in fhs[c] :
        Null \in Resolutions(fh) => fh.path \in Names /\ dir[fh.path] = Null

\* handle.c 192: an index that is believed refers to the path of the handle.  It
\* fails after a restart, for paths with the same verifier (README, section 3).
IndexIsRight ==
    \A c \in Clients : \A fh \in fhs[c] : Fast(tab, fh) => tab[fh.idx] = fh.path
=============================================================================
