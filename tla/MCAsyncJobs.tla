---------------------------- MODULE MCAsyncJobs ----------------------------
(* Small instances of AsyncJobs for TLC. *)
EXTENDS AsyncJobsInv, TLC

CONSTANTS a, b, x, d1, d2      \* model values: clients and directories

Inv(op, dir) == [op |-> op, dir |-> dir, tok |-> TRUE]

\* Jobs in both directories, a blocking RUN that drops the result, and an
\* invocation with the wrong token.
AllInvocations == {Inv("RUNA", d1), Inv("RUNA", d2), Inv("RUN", NoDir),
                   [op |-> "RUNA", dir |-> NoDir, tok |-> FALSE]}

\* Every kind of invocation once.
Mixed == {Inv("RUNA", d1), Inv("RUN", d2), Inv("STAT", NoDir), Inv("PING", NoDir)}

TwoJobs == {Inv("RUNA", d1), Inv("RUNA", d2)}

\* a and b are interchangeable; x is the client the allow-list rejects.
Swap == Permutations({a, b})
=============================================================================
