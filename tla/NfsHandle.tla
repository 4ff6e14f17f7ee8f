------------------------------ MODULE NfsHandle ------------------------------
(***************************************************************************)
(* gnfsd's file handles (nfsd/handle.c).  A handle carries an index into    *)
(* the table of paths with a 32-bit hash to verify it, good for one life of *)
(* the server, and a 64-bit hash of the path, good for all of them.  Both   *)
(* hashes are constants, of which nothing is assumed: paths may collide.    *)
(*                                                                          *)
(* The export is one directory, Root, with entries Names.  The field path   *)
(* of a handle is what the client takes it for; the server never reads it.  *)
(* Running out of memory is not modelled.                                   *)
(***************************************************************************)
EXTENDS Naturals, Sequences, SequencesExt

CONSTANTS
    Names, Root, Null,
    HashStr,     \* hash_str, the verifier of the index
    Hash64       \* hash64, of which 0 is the value handles of old lack

Paths == Names \cup {Root}

ASSUME HandleAssumption ==
    /\ Root \notin Names /\ Null \notin Paths
    /\ DOMAIN HashStr = Paths /\ DOMAIN Hash64 = Paths

\* The table after path has been looked for and, if absent, appended.
intern(tab, path) == IF path \in Range(tab) THEN tab ELSE Append(tab, path)

fh_from_path(tab, path) ==
    [idx |-> CHOOSE i \in DOMAIN intern(tab, path) : intern(tab, path)[i] = path,
     v |-> HashStr[path], hash |-> Hash64[path], path |-> path]

\* The walk of the export: Root and then ents, the entries that the table
\* lacks, in the order of readdir(), are interned.
rebuild(tab, ents) == intern(tab, Root) \o ents

\* Slip: the index is believed whenever it is in range.
FastNoVerifier(tab, fh) == fh.idx \in DOMAIN tab

\* The index is believed if the path there has the handle's verifier.
Fast(tab, fh) == fh.idx \in DOMAIN tab /\ HashStr[tab[fh.idx]] = fh.v

\* Where the path hash of the handle is found in the table.
Hits(tab, fh) == {i \in DOMAIN tab : Hash64[tab[i]] = fh.hash}

\* The path of a handle, Null if it is stale, and what resolving it does to
\* the table: by index, else the first entry with its path hash, else the same
\* after the one walk of this life.
fh_to_path(tab, rebuilt, fh, ents) ==
    LET fast == Fast(tab, fh)
        walk == ~fast /\ fh.hash # 0 /\ Hits(tab, fh) = {} /\ ~rebuilt
        t == IF walk THEN rebuild(tab, ents) ELSE tab
    IN [tab |-> t, rebuilt |-> rebuilt \/ walk,
        path |-> IF fast THEN tab[fh.idx]
                 ELSE IF fh.hash = 0 \/ Hits(t, fh) = {} THEN Null
                 ELSE t[Min(Hits(t, fh))]]
=============================================================================
