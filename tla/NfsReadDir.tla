----------------------------- MODULE NfsReadDir -----------------------------
(***************************************************************************)
(* nfs_readdir of nfsd/nfs.c: a client lists a directory with a sequence of *)
(* READDIR calls, each of which opens and scans the directory from its      *)
(* beginning and skips as many entries as the client's cookie says.  In the *)
(* meantime, also in the middle of a scan, the host changes the directory.  *)
(* Replies are lost and asked for again; READDIR is not cached.             *)
(***************************************************************************)
EXTENDS Integers, Sequences, FiniteSets, SequencesExt

CONSTANTS
    Names,
    Big,         \* the names that need two units of reply space, not one
    Unlisted,    \* the names join_child or lstat refuses, whenever they are asked
    Counts,      \* the reply sizes a client may ask for
    RD_MAXDATA,
    MaxChange,   \* bound: changes of the directory
    MaxFault     \* bound: read errors and lost replies

ASSUME ReadDirAssumption ==
    /\ IsFiniteSet(Names)
    /\ Big \subseteq Names /\ Unlisted \subseteq Names
    /\ Counts \subseteq Nat /\ {RD_MAXDATA, MaxChange, MaxFault} \subseteq Nat

VARIABLES
    dir,       \* the entries of the directory, in the order readdir gives them
    pc,        \* "client", "scan" (in nfs_readdir), "reply" (under way) or "end"
    cookie,    \* of the client: the position it has got to
    got,       \* of the client: the names it was told, in order
    cap, d, idx, out, dirbytes, eof,   \* of nfs_readdir
    throughout,   \* history: names in the directory ever since the listing began
    grown,        \* history: a name was added before the position reached, or
                  \* during a scan
    shrunk,       \* history: a name was removed up to there, or during a scan
    faults, changes

call == <<cap, d, idx, out, dirbytes, eof>>
history == <<throughout, grown, shrunk>>
vars == <<dir, pc, cookie, got, call, history, faults, changes>>

Distinct(s) == \A i, j \in DOMAIN s : i # j => s[i] # s[j]

Init ==
    /\ dir \in {s \in UNION {[1..n -> Names] : n \in 0..Cardinality(Names)} : Distinct(s)}
    /\ pc = "client" /\ cookie = 0 /\ got = <<>>
    /\ cap = 0 /\ d = <<>> /\ idx = 0 /\ out = <<>> /\ dirbytes = 0
    /\ eof = FALSE
    /\ throughout = ToSet(dir) /\ grown = FALSE /\ shrunk = FALSE
    /\ faults = 0 /\ changes = 0

-----------------------------------------------------------------------------
(* nfs_readdir.                                                             *)

Cap(count) == IF count > RD_MAXDATA THEN RD_MAXDATA ELSE count

\* A call arrives, with the client's cookie.  The entries the scan is going to
\* see are those at opendir(), or opendir() fails.
opendir ==
    /\ pc = "client"
    /\ \/ /\ pc' = "scan" /\ d' = dir /\ idx' = 0 /\ out' = <<>> /\ dirbytes' = 0
          /\ \E count \in Counts : cap' = Cap(count)
          /\ UNCHANGED <<eof, faults>>
       \/ /\ faults < MaxFault /\ faults' = faults + 1
          /\ pc' = "end" /\ eof' = FALSE /\ UNCHANGED <<cap, d, idx, out, dirbytes>>
    /\ UNCHANGED <<dir, cookie, got, history, changes>>

NeedBytes(n) == IF n \in Big THEN 2 ELSE 1

\* Slip: an entry that does not fit is never put into a reply.
FullStrict(n) == dirbytes + NeedBytes(n) > cap

\* Entry n has to wait for the next reply: a reply holds at least one entry.
Full(n) == dirbytes > 0 /\ dirbytes + NeedBytes(n) > cap

\* Slip: the last entry the client has is sent again.
SkippedButLast(i) == i < cookie

Skipped(i) == i <= cookie

\* join_child and lstat of the entry succeed: it is still there.
Stat(n) == n \notin Unlisted /\ n \in ToSet(dir)

\* The end of the scan: the trailer of the reply.
Finish(e) == pc' = "reply" /\ eof' = e /\ UNCHANGED <<idx, out, dirbytes>>

\* One turn of the loop that finds an entry.
Entry ==
    /\ pc = "scan" /\ idx < Len(d)
    /\ LET n == d[idx + 1]
       IN CASE Skipped(idx + 1) ->
                 idx' = idx + 1 /\ UNCHANGED <<pc, eof, out, dirbytes>>
            [] ~Skipped(idx + 1) /\ Full(n) -> Finish(FALSE)
            [] ~Skipped(idx + 1) /\ ~Full(n) ->
                 /\ idx' = idx + 1
                 /\ IF Stat(n) THEN /\ out' = Append(out, [name |-> n, cookie |-> idx + 1])
                                    /\ dirbytes' = dirbytes + NeedBytes(n)
                    ELSE UNCHANGED <<out, dirbytes>>
                 /\ UNCHANGED <<pc, eof>>
    /\ UNCHANGED <<dir, cookie, got, cap, d, history, faults, changes>>

\* Slip: every NULL is the end.
AtEndAny(errno) == TRUE

\* What a NULL of readdir means; errno was cleared before the call.
AtEnd(errno) == errno = 0

\* readdir returns NULL, at the end or for an error.
NoEntry ==
    /\ pc = "scan"
    /\ \/ idx = Len(d) /\ Finish(AtEnd(0)) /\ UNCHANGED faults
       \/ faults < MaxFault /\ faults' = faults + 1 /\ Finish(AtEnd(1))
    /\ UNCHANGED <<dir, cookie, got, cap, d, history, changes>>

-----------------------------------------------------------------------------
(* The client, the network and the host.                                    *)

\* The client keeps the entries, and asks again from the last one's cookie
\* until it is told of the end.
Receive ==
    /\ pc = "reply"
    /\ got' = got \o [i \in DOMAIN out |-> out[i].name]
    /\ cookie' = IF out = <<>> THEN cookie ELSE Last(out).cookie
    /\ pc' = IF eof THEN "end" ELSE "client"
    /\ UNCHANGED <<dir, call, history, faults, changes>>

\* The reply is lost and the call sent again: it is executed again.
Lose ==
    /\ pc = "reply" /\ faults < MaxFault /\ faults' = faults + 1
    /\ pc' = "client"
    /\ UNCHANGED <<dir, cookie, got, call, history, changes>>

\* The position up to which the entries are behind the client, in the calls
\* under way too: of a scan it is not yet known.
Reached ==
    CASE pc = "scan" -> Len(dir) + 1
      [] pc = "reply" /\ out # <<>> -> Last(out).cookie
      [] OTHER -> cookie

\* A new name appears at some position of the directory.
Add(n) ==
    /\ changes < MaxChange /\ pc # "end" /\ n \notin ToSet(dir)
    /\ \E i \in 1..(Len(dir) + 1) :
         /\ dir' = InsertAt(dir, i, n)
         /\ grown' = (grown \/ i <= Reached)
    /\ changes' = changes + 1
    /\ UNCHANGED <<pc, cookie, got, call, throughout, shrunk, faults>>

Delete(n) ==
    /\ changes < MaxChange /\ pc # "end"
    /\ \E i \in DOMAIN dir :
         /\ dir[i] = n
         /\ dir' = RemoveAt(dir, i)
         /\ shrunk' = (shrunk \/ i <= Reached)
    /\ throughout' = throughout \ {n}
    /\ changes' = changes + 1
    /\ UNCHANGED <<pc, cookie, got, call, grown, faults>>

Host == \E n \in Names : Add(n) \/ Delete(n)

Done == pc = "end" /\ UNCHANGED vars

Next == opendir \/ Entry \/ NoEntry \/ Receive \/ Lose \/ Host \/ Done

\* The server answers, the client asks again, and of the replies some arrive.
Fairness == WF_vars(opendir) /\ WF_vars(Entry \/ NoEntry) /\ WF_vars(Receive)

Spec == Init /\ [][Next]_vars /\ Fairness

-----------------------------------------------------------------------------
(* Properties.                                                              *)

Times(n) == Cardinality({i \in DOMAIN got : got[i] = n})

\* A listing that ends has every entry that was there all the time, whatever
\* the sizes asked for, read errors in the middle of a scan, lost replies and
\* names that are added or removed: only a removal behind the client, which
\* moves the entries after it down past the cookie, may hide one (nfs.c 643-649,
\* 664, 682-686).
NoneMissed ==
    pc = "end" /\ eof /\ ~shrunk => throughout \ Unlisted \subseteq ToSet(got)

\* No entry is listed twice: only a name that is added behind the client, which
\* moves the entries after it up, may repeat one.  So calls that are executed
\* again, removals and read errors never do (nfs.c 664-665).
NoneTwice == ~grown => \A n \in throughout : Times(n) <= 1

\* "A tiny count still progresses" (nfs.c 644): the client's position never goes
\* back, and unless a read failed or a reply was lost a reply that does not end
\* the listing moves it on, whatever the count, the names and the changes of the
\* directory during the scan.
Progress ==
    [][/\ cookie' >= cookie
       /\ pc = "reply" /\ pc' = "client" /\ faults' = 0 => cookie' > cookie]_vars

\* Every listing ends, for any reply size, even 0, and although some entries
\* can never be given (nfs.c 644, 669-674, 686).
ListingEnds == <>(pc = "end")
=============================================================================
