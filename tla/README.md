# A verification project for GrandCrossDevServer

The repository holds two servers and their clients for building software on old
machines from a modern one:

* **gcdsd**, a daemon on the target host (NeXT, Haiku, Win32, DOS, Linux ...), and
  **gcds**, its command line client. They speak GCDSP v1, a line protocol with
  framed output, over TCP or a serial line (`PLAN_01_PROTOCOL.md`).
* **gnfsd**, a user-level NFSv2 server over UDP that exports one directory.

This directory models the parts of both where order, failure and time decide
whether they are correct, checks the models with TLC and proves the central
results with TLAPS. Everything is translated from the C source; the documents are
used only for the statements the code is compared with.

## 1. The system

| Part | State | Operations | Talks to |
|---|---|---|---|
| GCDSP channel (`common/chan.c`, `lineio.c`, `net.c`) | sockets, listen backlog, line buffers | connect, accept, send and receive a line or a frame | both programs |
| gcdsd main loop (`daemon/main.c`) | listen socket, the pending job | accept one session, serve it, close it, then run the job it left | session, supervisor |
| sessions (`daemon/session.c`) | authenticated or not; process-wide: job counter, pending job `g_job`, result slot `g_res`, working directory, capture files | AUTH, PING, STAT, CWD, ENV, RUN, RUNI, RUNA, RESULT, PUT, GET, QUIT | client, supervisor, file system |
| control sessions (`ctl_session`) | authenticated or not | PING, STAT; everything else is refused | another client, while a command runs |
| supervisor (`daemon/live.c`; `live_w32.c` on Win32) | child, its process group, three pipes, cap, kill state | one `select` loop that streams, forwards input, serves control sessions, kills, reaps | command, session, listen socket |
| plain execution (`daemon/exec_*.c`) | none | run and wait | command |
| gcds (`client/main.c`, `remote.c`, `asyncjob.c`) | connection, alarm, job number, expected status line | connect, authenticate, map the directory, RUN; or RUNA and poll with STAT and RESULT | gcdsd |
| output path (`common/textcv.c`, `client/pathmap.c`, `remote.c`) | held-back bytes per stream, the unfinished line per stream | convert a chunk, put lines together, map paths there and back | supervisor, gcds |
| interactive client (`client/ixmode.c`) | connection, interrupt count | I, I 0, K, close | supervisor |
| file transfer (`client/xfer.c`, PUT and GET) | open file, bytes left | frames of a file in either direction | session |
| serial link (`common/ser_*.c`) | port | HELLO and QUIT instead of connections | both programs |
| pure helpers (`acl.c`, `conf.c`) | none | match, parse | their callers |
| gnfsd dispatch (`nfsd/rpc.c`) | duplicate request cache: slots, cursor, times | parse, answer from the cache or execute and store | UDP, procedures |
| gnfsd procedures (`nfsd/nfs.c`) | the exported tree | the 18 NFSv2 procedures and MOUNT | handles, file system |
| gnfsd handles (`nfsd/handle.c`) | path table, "already walked" flag | intern, resolve, walk | procedures |

What is hard about it:

* **One process, many clients.** gcdsd serves one session at a time and then runs
  the job. The job counter, the result slot, the capture files and the working
  directory are shared by sessions that know nothing of each other.
* **Nested service.** While a command runs, control sessions are served from inside
  the supervisor's loop and block it.
* **Loss and restart.** A poll opens one connection after another; each can be
  refused, lost or time out, and the daemon may be a new one that counts jobs from
  one again.
* **Processes.** A command can ignore SIGTERM, leave processes in the background,
  close its output and go on, or never read its input.
* **A line without connections.** On a serial line nothing separates one session from
  the next, or an answer from the answer to an attempt that was given up.
* **Text in pieces.** Output is read in chunks that end anywhere, in the middle of a
  character, of a cluster, of a path; each chunk is converted on its own.
* **Datagrams.** An NFS call may arrive twice, late, or after the reply to it; the
  cache that should absorb that is small and forgets.
* **Handles over restarts.** A handle's index refers to a table of a server that
  may no longer exist.
* **Positions as cookies.** A directory is listed by position while it changes.

`PROJECT.json` lists these at their lines under "hazards", each with the property
that would notice it going wrong or the reason there is none yet.

## 2. Modules

    Gcdsp ──┬── Gcdsd ───────┬── AsyncJobs ── AsyncJobsInv ── MCAsyncJobs
            └── GcdsClient ──┘                     └── AsyncJobsProofs
    ExecEnv ──┬── LiveExec ──┐
              └── LiveW32 ───┴── both implement ── Supervise
         └── ExecEnvProofs ──┬── LiveExecProofs (with LiveExec)
                             └── LiveW32Proofs  (with LiveW32)
    TextCv, PathMap ── OutputPath ── MCOutputPath
    SerialLink ── SerialLinkProofs
    FileXfer ── FileXferProofs
    NfsHandle ── Nfsd ──┬── MCNfsd
                        └── NfsdProofs
    NfsReadDir ── NfsReadDirProofs

**Gcdsp** is the channel: `Conns` numbered connections, each with a client's end
(`cend`), a daemon's end (`send`: none, queued, open), a FIFO of command lines
`up` and one of reply lines `down`, and the `backlog`. `NetConnect` is a successful
`connect()`, `NetDrop` a connection lost for both ends with the lines under way to
the daemon and any suffix of those to the client. Lines are records; a poll's
connections reuse numbers once both ends have closed.

**Gcdsd** is the daemon. `phase` says where the process is: in `net_accept`, in the
session's `lio_get_line`, in the command of RUN, between RUNA and `run_pending`, or
in the job. One action per command (`Auth`, `Ping`, `Stat`, `Cwd`, `Run`, `Runa`,
`Result`), one per way a session or command ends (`SessionEof`, `RunExit`, `RunLost`,
`JobStart`, `JobExit`, `JobFail`), the control session (`CtlAccept`, `CtlAuth`,
`CtlCommand`, `CtlEof`) and `Restart`. `Live` selects the build with or without the
supervisor, `TmpRel` a relative `tmpdir`. Exit codes and output are abstracted to
the *job they belong to*, the ghost pair <<life, k>>, which the programs never see.

**GcdsClient** is one gcds per client name: a program counter per blocking read,
the alarm as `ReplyTimeout`, main's error exits, and `poll_result` with its buffer
`want`.

**AsyncJobs** composes them with a network that loses connections and states the
properties; **AsyncJobsInv** holds the inductive invariant.

**ExecEnv** is what both supervisors meet: the command's processes with the pipes
they hold, the client of the session and a client that opens control sessions.
**LiveExec** (`live.c`) has one action per stretch of the loop body in the loop's
order (`Select`, `Accept`, `Pump`, `CapCheck`, `SessRead`, `TailStep`) with the calls
that block in it as places of their own (`ctl`, `input`, `reap`, `lost`).
**LiveW32** (`live_w32.c`) does the same for the Win32 loop, which polls sockets,
pipes and process in turn, finds a loss and goes on to the end of the turn, kills
through a job object or, on NT4 (`hasjob` false), only the shell.
**Supervise** is the little that Gcdsd assumes of either.

**TextCv** has the conversions as operators on sequences of bytes: UTF-8 decoding and
encoding, Hangul composition with its hold-back (macOS), double-byte characters
(Win32; the system's conversion functions are external and stand on a code page of
two characters), and beside them a reference definition of composition on code
points. **PathMap** has `pm_cwd` and `pm_back_line`. **OutputPath** puts them in
their places: gcds maps its directory and sends CWD, the command prints text and
paths as its host does, the daemon reads up to `Chunk` bytes at a time from either
stream, converts and sends them, gcds collects lines and maps them back.

**SerialLink** is gcds and gcdsd on a serial line: `serve_serial`, the session's
commands, RUN and the job on one side, `rc_open`, `rc_auth`, submit, polling and
`rc_stream` on the other, a user who starts gcds again and again and interrupts it at
any time. Each line carries whether it belongs to the current attempt (`cur`), which
the programs never see; `skew` records that an attempt began while a greeting of an
earlier one was still outstanding.

**FileXfer** is one `--put` or `--get` against the session that serves it: the loops
of `xfer.c` and of `do_put` and `do_get`, read by read and write by write, over a
connection that holds `SockCap` lines in each direction, with failing opens, reads,
writes and closes, the cap, an interrupt at any point and a connection lost in the
middle of a frame. A chunk carries its position, so that a lost or repeated one
shows, and a kind that says what a session takes it for if it reads it as a line.

**NfsHandle** has the path table and handle resolution as operators; **Nfsd** the
dispatcher, the cache, twelve procedures, retransmitting clients, time and restarts.
Datagrams sent stay in a set: each may be received at any later time, any number of
times or never, which is loss, duplication, delay and reordering at once.
**NfsReadDir** is `nfs_readdir` entry by entry, called again and again by a client
that lists a directory, while the host adds and removes names between the calls and
in the middle of a scan, replies are lost and reads fail.

Definitions called a *slip* in a comment are plausible mistakes in the definition
after them. No specification uses them; they exist to be swapped in, and each
property is then violated.

## 3. Runs

| Run | Shows |
|---|---|
| `jobs_faults` | With lost connections, timeouts, a rejected client, a wrong token and a restart: a client that ends with an exit code has its own job's (`OwnExitCode`) and printed its own job's output (`OwnOutput`), unless its number was reused; it gives up only when its result is gone for good (`GivesUpOnlyWhenLost`); a job runs in the directory its submitter named (`RunsWhereAsked`). |
| `jobs_live` | Every gcds ends and the daemon always comes back to `accept()`; also the type invariant, with the job counter wrapping at every job. |
| `exec_output` | All modes of `live_exec`: output is complete before the X frame, bounded by the cap, a lost session leaves no process; LiveExec implements Supervise, so a session is given up only when its client has gone and never from within a control session. |
| `exec_kill` | K, and the loss of the client, end the command even if it handles SIGTERM and has background processes (`KillEnds`, `LossEnds`); a control connection is served while the command runs (`CtlServed`). Premise of all three: the command reads its input. Exception named in all three: a command that has closed both outputs and never exits, for which the supervisor waits in `waitpid()` (`Deaf`, `live.c:395`). Both gaps are in the table of disagreements below. |
| `w32_exec` | The same contract for the Win32 loop, in all modes, with and without job objects. `NoOrphans` and `KillEnds` state what NT4 cannot do, and that a loss found only when the held-back tails are written (`live_w32.c:440`) kills nothing that had let go of its pipes. |
| `text_path` | `ChunkingInvisible`: where reads cut the output makes no difference, for any bytes; `RoundTrip`: with `--mapback` a path the command prints in the mapped directory is shown as the user's own path, in composed UTF-8, and other text unchanged. |
| `serial` | The resynchronisation rule as far as it goes: an invocation that finds no greeting of an earlier attempt outstanding reads only answers to its own lines, returns its own exit code (`InSync`) and ends (`Ends`), whatever interrupted invocations have left behind. |
| `nfs_retrans` | A changing call is not executed twice within `DRC_TTL` and `DRC_SLOTS`; every reply is the outcome of the call it answers, with two clients using equal xids; a handle issued in this life denotes its path, one of an earlier life is not stale if its file has been there all through this one, and none denotes another path unless a hash collides (`HandleDenotesPath`). |
| `xfer` | A PUT or GET that reports success is a true copy (`PutIntact`, `GetIntact`); no part of an upload stays behind (`NoPartialFile`); a transfer, which has no alarm, ends unless the daemon refused the file midway (`TransferEnds`); a client that is gone frees the daemon (`DaemonFreed`). |
| `nfs_listing` | A listing has every entry that was there all the time, and once (`NoneMissed`, `NoneTwice`), unless the directory changed behind the cookie or during a scan; the cookie never goes back, and without faults every reply but the last moves it on (`Progress`), so that every listing ends, for any reply size (`ListingEnds`). |

Two further runs end in a violation and are the project's findings. Each states
what a document or comment says and TLC shows a behaviour of the code against it.

| Run | What the code does |
|---|---|
| `jobs_fetch` | `poll_result` overwrites the buffer with the status line it waits for (`asyncjob.c:53`); after a broken fetch it rejects the right status, although the comment and the protocol call the fetch repeatable. |
| `serial_retry` | A poll that timed out while the job ran has left QUIT and HELLO in the line. After the job the daemon answers them; the next poll takes the greeting for its own, the OK to its own QUIT for that of AUTH, its own greeting for the status, and gives the job up (`remote.c:126`). |

Other disagreements with the documents, met on the way, are not listed as runs in
PROJECT.json. Each but the last has a configuration, under which TLC finds the violation:

| Statement | How to see it fail |
|---|---|
| A number from before a restart is unknown (`PLAN_01_PROTOCOL.md:227`) | `NoForeignExitCode`, `AsyncJobs_restart.cfg` of MCAsyncJobs: job numbers start at one in each life (`session.c:135`), so a poll over a restart can end with another client's exit code. `OwnExitCode` is what does hold. |
| A result is kept until the next RUN or RUNA (`PLAN_01_PROTOCOL.md:229`) | `OutputKeptUntilNextRun`, `AsyncJobs_tmpdir.cfg` of MCAsyncJobs, with `TmpRel = TRUE`, the default of `tmpdir` on Win32 and DOS (`main.c:198`): another client's CWD hides the capture files (`session.c:88`). |
| K ends the command (`PLAN_01_PROTOCOL.md:293`) | `KillEnds`, `LiveExec_input.cfg` of LiveExec, under `StubbornSpec`: the blocking `write()` to a command that does not read its input (`live.c:157`; on Win32 the `WriteFile` at `live_w32.c:231`). |
| The same line, for a command that closes its output | `KillAlwaysEnds`, `LiveExec_kill_closed.cfg` of LiveExec: with both pipes at their end the loop is left, and `waitpid()` without `WNOHANG` (`live.c:395`) hears no K, nor does it escalate one that came before. `KillEnds` is what does hold. |
| A command whose client's connection breaks is cleaned up and the daemon returns to accept (`PLAN_01_PROTOCOL.md:143-144`) | `LossAlwaysEnds`, `LiveExec_loss_closed.cfg` of LiveExec: the same wait does not see the end-of-file either. `LossEnds` is what does hold. |
| A LIVE daemon answers while a command runs (`PLAN_01_PROTOCOL.md:150`) | `CtlAnswered`, `LiveExec_ctl.cfg` of LiveExec, with `MayClose = TRUE`: the same wait again. `CtlServed` is what does hold. The Win32 loop has no such wait: `w32_exec` checks `CtlAnswered`, `KillEnds` and `LossEnds` without the exception, also with `MayClose = TRUE`. |
| A handle that is not found after the walk is genuinely stale (`handle.c:211`); it is stale if its file has really gone (`nfsd/README.md:201`) | `GenuinelyStale`, `Nfsd_stale.cfg` of MCNfsd: the walk happens once in a life (`handle.c:210`), so a file that gets its old name back after it is there and its old handle stale. |
| The fast path is taken when the index still refers to the same path (`handle.c:192`) | `IndexIsRight`, `Nfsd_collide.cfg` of MCNfsd, with two names of equal `hash_str`: after a restart the index may refer to the other one, and the handle denotes it. |
| An upload beyond the cap is answered with ERR 413 (`PLAN_01_PROTOCOL.md:244`) | `RefusalEnds`, `FileXfer_cap.cfg` of FileXfer: the client writes on without reading, the session answers every further line, and once both directions are full neither moves (`session.c:264`). |
| Timeouts while polling are not errors (`asyncjob.c:6`) | `NoReply` of GcdsClient: one during AUTH ends the poll like a refused token (`asyncjob.c:43`). |

Without the premise `~skew`, `InSync` and `Ends` fail too: after two interrupts a gcds
can return the exit code of another invocation's command, or wait in `rc_stream`,
which has no timeout, for a reply that has already gone by.

### Bounds, and why they are enough

* `jobs_faults`: two jobs or a job and a RUN, two connections at once, one lost
  connection, one timeout, one restart, `JobMax` 2. The single slot is contended by
  two clients, a number is reused by a restart, and a client that polls meets each
  of another client's states. `a` and `b` are interchangeable in every definition
  (symmetry); `x` is rejected by the allow-list. The bounds on clients, connections, lives,
  drops, timeouts and `JobMax` disappear in the proofs (section 5).
* `jobs_live`: no symmetry (liveness), one life, one lost connection, `JobMax` 1 so
  that the counter wraps on the second job.
* `exec_output`: pipes of one chunk, cap of one chunk and six chunks of output, one
  more than `OutputBounded` allows, so that the bound can be exceeded by a wrong
  model; one input frame, one control connection, any number of turns.
* `exec_kill`: two input frames, one more than the pipe holds, so that the write to
  the command really blocks; the command may close its output, as in `exec_output`,
  and writes none: a chunk read only brings the loop back to where it was. The same
  with a chunk on each stream passes as well (1.37 million states).
* `w32_exec`: pipes and cap of one chunk, two chunks of output, so that the cap is
  exceeded; one input frame, one control connection, both values of `hasjob`, any
  number of turns. One frame fits the pipe, so `WriteFile` does not block in this run;
  with two frames, one chunk of output and no cap, where it does, the properties hold as
  well (1.1 million states).
* `text_path`: up to three units on stdout, of paths, line ends, Hangul letters that
  compose or not, double-byte characters and raw bytes that begin a character and do
  not finish it; reads of one to four bytes, so that every cut happens, also with
  more than one character held; a line buffer of 24 and a directory of 12 bytes, so
  that both overflow. Mapping tables with two entries, one of them longer than the
  other, a separator field, an empty one, a trailing slash, a directory that only shares letters
  with a prefix, and none at all.
* `serial`: three invocations, two timeouts while a command runs, interrupts without
  bound, both kinds of daemon. A third invocation meets what two others have left.
* `serial_retry`: one invocation that times out while its job runs.
* `nfs_listing`: four names, one of them large and one that can never be listed, in
  every order; reply sizes of nothing, of two small entries and beyond `RD_MAXDATA`;
  two changes of the directory and one fault.
* `nfs_retrans`: two calls, of one client or of two, of all twelve procedures; two
  slots and four stores, so the ring wraps twice; `TTL` 0 and one tick, so that an
  entry expires; two lives, but no tick in the second (`Apart`: a restart empties the cache
  whose entries would expire; without that bound the run passes too, with 1.4 million
  states); and clients that may come with a handle from before the
  first, at an index (`OldIdx`) that the table gives to whatever is interned next. Hashes
  differ there: what collisions do is covered by the proof, for any hash functions, and
  shown by `Nfsd_collide.cfg`. `MaxStores` bounds how often retransmissions are
  executed.
* `xfer`: files of up to four chunks, a cap of two and three lines of room, so that a
  frame (two lines) may or may not fit, the cap is exceeded in the middle and both
  directions can be full at once; every kind of chunk at every position.

Deadlock is checked except in FileXfer, where both programs can really stop
(`RefusalEnds`). `Quiescent` and `Done` mark the states in which the programs have
nothing left to do.

### Fairness

`AsyncJobs!Fairness`: weak fairness of the daemon's session and control steps and of
each client's own steps, since each program takes its next step when it has one, and
strong fairness of the end of a command: commands terminate, and `live_exec` looks at
the child once per turn, also after each control session, so polls cannot keep it
from noticing. Nothing is assumed of the network, of timeouts or of restarts.

`LiveExec!Fairness`: the supervisor finishes its turns, two seconds pass, and a
control session ends (every wait of gcds in one is limited by its alarm). Nothing is
assumed of when the command exits. That the command reads its input is assumed in
`FairSpec` and not in `StubbornSpec`. `LiveW32!Fairness` is the same without the two
seconds, which that loop does not need.

`SerialLink!Fairness`: the daemon reads on and commands end; gcds reads, polls and
times out. The user is not assumed to start or interrupt anything. A timeout happens
only when nothing is under way or while a command runs: the line itself is faster
than `GREET_TMO`.

`NfsReadDir!Fairness`: the server answers, the client asks again and takes replies
that arrive. Faults and changes are bounded, not fair.

`FileXfer!Fairness`: each program takes its next step when it has one. Neither the
alarm nor an interrupt nor a lost connection is relied on, and what `fread` gives is
chosen before the write that may block, so that fairness never chooses it.

## 4. What is abstracted

* A line, a chunk, a datagram is one unit; splitting and partial writes are left out.
  Full socket buffers, and with them a daemon blocked in a write to its client, are
  in FileXfer only.
* A connection is lost for both ends; a peer that vanishes silently, without the
  other end ever noticing, is not modelled.
* `chdir()` of CWD may fail or not (`Cwd`, `CwdFails`), whatever the directory is.
* The sessions leave out ENV, QUIT and over-long lines; RUNI is in LiveExec, PUT and
  GET are in FileXfer. Text conversion and mapping are in OutputPath only. The allow-list is its verdict (`Denied`). The temporary files of a plain
  RUN are always unlinked and not modelled, unlike the capture files of jobs.
* `Restart` ends the running command with the daemon; an orphan that still writes to
  the capture file of a new job is not modelled.
* In LiveExec a background process stays in the command's process group, process
  numbers are not reused, and control peers the allow-list rejects are left to Gcdsd.
* In LiveW32 the pipes' buffers are chunks, `WriteFile` blocks or fails as `write()`
  does in LiveExec, and what happens before the child runs (`CreatePipe`,
  `CreateProcess` failing) is the session's ERR 500. A capture file is opened with
  share mode 0 (`live_w32.c:279`); that a background process then keeps RESULT from
  reading it is not modelled.
* In OutputPath gcds takes a frame in within the step that sends it: the channel keeps
  the order and gcds does nothing else. `RoundTrip` speaks of tables that can be
  inverted (no remote prefix begins another or ends in a separator), of paths with a
  space or line end between them (in a path with backslashes `pm_back_line` looks for
  nothing but the end of the token, so `;` lists are not mapped) and of lines of at
  most `MB_LINE` - 2 bytes; a longer one can lose its last bytes (`pathmap.c:132`)
  although `remote.c:279` says that over-long lines are flushed raw. The static
  buffers of `textcv.c` are never full: `txt_out` gives -1 and ends the session when a
  conversion more than doubles a full chunk, which takes a code page with one-byte
  characters of three UTF-8 bytes; the one in the model has none. A tail that is no whole character is dropped
  at the end of a stream on macOS (`textcv.c:347`).
* In SerialLink there is no noise and no lost line, except those sent while a command
  runs, which the daemon's receiver may keep in part; no directory is mapped; what
  arrived while no gcds had the port open is there or not when the next one opens it.
* In NfsReadDir a scan sees the entries there were at `opendir()`, as small
  directories behave; entries are lost from it when `lstat` no longer finds them.
* In FileXfer, uploaded bytes that a session reads as lines are unknown commands, too
  long, or QUIT; a file whose lines are other commands is not modelled. A read error
  and the end of a file look alike to the code and so to the properties, which speak
  of the chunks that were read. A failed GET leaves its part of the local file.
* In Nfsd the export is one flat directory, a client never reuses an xid and has one
  call outstanding; a malformed call is a lost one. The target directory of RENAME and
  LINK is any handle of the client, also a stale one or that of a file; a directory that
  a client has made stays empty, and a call that would move something into it is not
  modelled. The two hashes of a path are constant functions of which nothing is assumed;
  how they are computed is not modelled.

## 5. Proofs

Every theorem below holds for **every** value of the constants that satisfies the named
assumptions of the modules: any number of clients, connections, slots, names, restarts,
any sizes and bounds. TLC evaluates those assumptions in the runs of the same modules.

| Module | Theorem | States, of `Spec` |
|---|---|---|
| AsyncJobsProofs | `Inductive`, `TypeCorrect` | `[]IInv`, `[]TypeOK` |
| | `ExitCodeIsOwn`, `OutputIsOwn` | `[]OwnExitCode`, `[]OwnOutput` |
| | `NoEarlyGiveUp`, `JobDirectory` | `[]GivesUpOnlyWhenLost`, `[]RunsWhereAsked` |
| LiveExecProofs | `Inductive`, `TypeCorrect` | `[]IInv`, `[]TypeOK` |
| | `OutputIsComplete`, `NoProcessLeft`, `CapHolds` | `[]OutputComplete`, `[]NoOrphans`, `[]OutputBounded` |
| | `Implementation` | `ImplementsSupervise` |
| LiveW32Proofs | `Inductive`, `TypeCorrect` | `[]IInv`, `[]TypeOK` |
| | `OutputIsComplete`, `NoProcessLeft` | `[]OutputComplete`, `[]NoOrphans` |
| | `Implementation` | `ImplementsSupervise` |
| FileXferProofs | `Inductive`, `TypeCorrect` | `[]IInv`, `[]TypeOK` |
| | `PutStoresFile`, `GetStoresFile`, `NoPartialUpload` | `[]PutIntact`, `[]GetIntact`, `[]NoPartialFile` |
| NfsdProofs | `Inductive` | `[]IInv` |
| | `ExecutedOnce`, `AnswersItsCall` | `[]AtMostOnce`, `[]OwnAnswer` |
| | `HandlesKeepTheirPath` | `[]HandleDenotesPath` |
| NfsReadDirProofs | `Inductive` | `[]IInv` |
| | `NothingMissed`, `NothingTwice` | `[]NoneMissed`, `[]NoneTwice` |
| | `GoesForward` | `Progress`, an action property |
| SerialLinkProofs | `Inductive`, `TypeCorrect` | `[]IInv`, `[]TypeOK` |
| | `Resync` | `[]InSync` |
| | `OneJobEach` | no invocation starts two jobs, and a stored result is the last job's |

Each `IInv` was first checked by TLC as an invariant, with the constants of the
module's run. The proofs have one lemma per action, or per shape of action, and under it
one step per conjunct that the action can disturb.

### Asynchronous jobs

Assumptions: `GcdspAssumption`, `GcdsdAssumption`, `InvocationsAssumption`,
`ClientBounds`, `DropsAssumption`. The counters have no width in the model apart from
`JobMax`, at which the code wraps them.

None of the properties is inductive: each speaks about a client that has ended, and
what it ended with was fixed when the daemon wrote a line, perhaps many steps
earlier. `IInv` (AsyncJobsInv) follows that line from the slot to the exit:

1. `HoldInv`, `ServeInv`: who holds which connection, and that a connection is
   served by the session or by a control session or waits, never two of these;
2. `DuplexInv`: the protocol is half duplex. At most one command is under way, and
   none while a reply is; so a reply answers the command last sent;
3. `SlotInv`, `NumberInv`: the slot and the running job belong to the last number
   given out, and counting on from a client's own job leads from its number to that
   one with at most one wrap. So an equal number means the same job until `JobMax`
   further jobs, or a restart, have passed (`Reused`);
4. `CommandInv`, `ReplyInv`: what a command under way says of its sender, and a reply
   of the client it is for. An X or O frame for a polling client is its own job's;
   an `idle` or foreign status says that its result is gone, and stays true, because
   a result once dropped is never produced again (`LostStep`);
5. `ExitInv`, `DirInv`: the properties themselves, and the directory from the CWD
   line to the job.

`AsyncJobsProofs` goes in that order: the types, then parts 1, 2 and the commands (what
a step of one process may do to the connections of another), then parts 3 to 5.

### The two supervisors

Assumption: `ExecAssumption`. `ExecEnvProofs` shows once what the command and the
clients may do between two steps of either loop: `EnvInv` says that only running
processes hold streams, that a client of RUN sends nothing, and that what is in the
pipes was written.

The properties speak about the end of a supervision. What leads there is, for LiveExec:

* `CountInv`: what was written is what was read plus what is in the pipes, and all
  that was read was sent unless the session is lost; `EofInv`: a stream is closed only
  when it is empty and nobody is left to write to it. With both, an exit code means
  that everything was sent.
* `SelectInv`: what `select()` found is still true when the loop comes to it, although
  a whole control session may lie in between. It is why a read after `select()` does
  not block, why an empty read is an end-of-file, and why an empty session is a lost
  one: the step to `lost` needs it to be a step of Supervise.
* `StopInv`, `CtlInv`, `JobInv`: after a loss nobody runs; a control session is
  served at one place; a job looks at neither pipes nor session.
* `CapInv` with `Slack`: where in a turn the cap may be exceeded, and by how much;
  once over the cap, nobody runs, so that only the pipes' contents are still to come.

LiveW32 needs the same with its own differences: `LossInv` (a loss is remembered to the
end of the turn and is never of a client that is still there) and `FinishInv` (what is
known when the loop is left). What its `NoProcessLeft` says of a host without job objects
is as weak as `live_w32.c` is there.

The refinement is proved step by step: the initial states map to initial states of
Supervise, and each action of the loop or of its surroundings is one of its steps or
leaves its variables alone. `ImplementsSupervise` is the specification without fairness.

### File transfer

Assumptions: `FileXferAssumption` (in particular, a connection holds at least one
frame, without which nothing is ever sent) and `AbsentAssumption` (the value that stands for "no file" is
not a file). `IInv` says what the lines under way are: `Carries` is the frames of the
file from the receiver's length to what the sender has sent, with the end marker only
behind the last. It has to hold with a frame half read, half written or cut by a lost
connection. Around it stand `PutFlow` and `GetFlow` (at which places of both programs
which lines may be under way), `PutStatusInv` (the first status after the end of the
file is the one the client takes for the upload's, and it is OK only for a file stored),
and `PutFile` and `GetFile`: what the receiver's file is at each place. While `do_put`
works on it the daemon's file is a prefix of the client's; at any other time it is
absent, the old one, empty or complete.

### gnfsd

Assumption: `NfsdAssumption`. The cache is a partial function from slots to entries.
`RingInv` says that going back from the cursor the slots hold the last `Slots` entries
of the history of executions; it is what a lookup that finds nothing means: the call
was not executed, or its entry is older than that. `StoreInv` says that each entry is
the outcome of the call under whose endpoint and xid it is stored; a lookup that
succeeds therefore answers its own call.

`HandleDenotesPath` speaks of what a handle would be resolved to now, by index, by hash
or after a walk in any order; the server does not remember whom it gave a handle.
`HandleInv` is what makes it true: the path of every handle of this life stands in the
table at the handle's index, which stays so because `intern` and the walk only append;
after the walk the table has every name that has been there since the start, and
names leave that set but never enter it; and every handle under way or at a client
carries the two hashes of its path. The hash functions are arbitrary, so the theorem
says exactly when a collision matters: for handles of an earlier life only. The
assumptions are `NfsdAssumption`, `HandleAssumption` and `ProcsAssumption`.

### Listing a directory

Assumption: `ReadDirAssumption`. A READDIR cookie is a position, so the invariant
relates positions in three sequences: the directory now, the directory as the scan
sees it, and the client's list.

* `MissInv`, as long as nothing was removed behind the client: the names at the
  positions up to the cookie are the client's; the scan has, up to its index, only
  names that the client has or that are in the reply; and a name that was there all the
  time stands in the scan no later than in the directory (`NoLater`), so that what the
  reply covers in the scan is covered in the directory.
* `OnceInv`, as long as nothing was added there: each of the client's names stands
  at or before its cookie, in the directory and in the scan, so that entries after the
  cookie are new; and a name stands in the directory no later than in the scan.

Between them, `CallInv`: the reply's entries are entries of the scan in ascending order
after the cookie. The lemmas `Inserted` and `Removed` say what a change does to
positions; `Added` and `Deleted` put that in terms of `NoLater`.

`Progress` is the safety core of `ListingEnds`. It needs `SpaceInv` besides: a reply that
has used up space has an entry, so the test that ends a full reply is never met by an
empty one, however small the client's count; and the entries of a reply lie after the
cookie it was asked with (`CookieStep`).

### Serial line

Assumption: `SerialAssumption`. There is no connection here whose end would clear the
line, so `InSync` is not inductive: it speaks about the next answer and about an
invocation that has ended, while what is read and the exit code that is returned were
fixed by what was in the line when the greeting came. `IInv` describes both queues at
every place of gcds:

* `NumberInv` and `CounterInv` hold always: the RUNA lines under way carry ascending
  numbers of invocations above the daemon's counter of jobs, because no invocation
  submits twice. However many attempts were given up and are read late, the counter does
  not pass the number of invocations (`OneJobEach`).
* `ResultInv`: a stored result is that of the job last run, and nothing runs beside it.
* `SyncInv` holds of an invocation that found no greeting outstanding (`~skew`, the
  premise of `InSync`). While it waits for the greeting (`GreetInv`), old commands and
  old answers may still be in the line, but HELLO is the last line to the daemon, and
  a greeting is the last line back, with nothing else to read and the daemon at the
  beginning of the session. This is what makes dropping everything up to the greeting
  right. From then on both programs go in lockstep: `AuthInv`, `StreamInv`,
  `SubmitInv`, `StatInv` and `FetchInv` each say that the one command is under way, or is
  being executed, or its answers are.
* `PollInv` carries the job over the attempts of a poll, each of which begins with
  a new greeting: the job polled for is the last one, and no command that starts
  something is left in the line, so nothing replaces its result.

The lemmas `Consumed`, `Lockstep`, `SessionLock` and `Opened` say what reading one line,
sending one line, and QUIT and HELLO do to these forms of the queues.

### What stays with TLC

* Liveness: fairness and ENABLED are out of the prover's reach.
* OutputPath: what recursive functions on sequences of bytes compute, for every input,
  is an induction over data.
* The counterexamples of section 3, which are behaviours of small instances.

## 6. Not modelled

Symbolic links, STATFS and nested directories of gnfsd: what an operation on a link
does depends on the host's file system beyond the export. Address matching and line
splitting are pure algorithms. Tool aliases are one substitution in a command line.
Option and configuration parsing, XDR, start-up of the servers and the serial
drivers are input and output without a state that outlives them. gcdslog shares
nothing with the servers.

## 7. Plan

Done: Gcdsp, Gcdsd, GcdsClient, AsyncJobs with its proofs; Supervise, ExecEnv,
LiveExec, LiveW32; FileXfer; TextCv, PathMap, OutputPath; SerialLink; NfsHandle, Nfsd,
NfsReadDir. Next: ENV, QUIT and RUNI in Gcdsd; bounded sockets around ix_client;
`acl` matching.

Proved: the safety properties of AsyncJobs, LiveExec, LiveW32, FileXfer, Nfsd,
NfsReadDir and SerialLink, and both refinements of Supervise. Next: action properties
from the invariants there are: a kill is never taken back, a result is dropped by no
one but the next RUN or RUNA.
