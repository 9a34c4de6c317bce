------------------------------- MODULE Ledger -------------------------------
(***************************************************************************)
(* The reward ledger of the code-review bundle (ledger/client.py and       *)
(* ledger/commands.py): every `ledger update` is a process that reads the  *)
(* ledger, applies one review report to it and writes the result back,     *)
(* to Supabase when a client is configured for it and to a local JSON file *)
(* otherwise or when a request fails.  Nothing is locked, no write is      *)
(* atomic, and processes of several terminals or hooks interleave.         *)
(*                                                                         *)
(* Coins are counted in tenths: reward_delta / 10.0 is reward_delta here,  *)
(* the streak bonus 0.5 is 5 and the streak penalty 1.0 is 10.             *)
(***************************************************************************)
EXTENDS Integers, Sequences, FiniteSets, FiniteSetsExt, SequencesExt

CONSTANTS
    Clients,     \* processes that run `ledger update`
    Configs,     \* which of them may have a Supabase URL and key
    Rules,       \* rule identifiers of findings
    Reports,     \* the review reports that are recorded
    Histories,   \* sequences of reports the local ledger may already hold
    MaxRuns,     \* bound: updates in one behaviour
    MaxResets    \* bound: `ledger reset --confirm` in one behaviour

Verdicts == {"PASS", "PASS_WITH_ADVISORY", "FAIL", "UNKNOWN", "NOT_APPLICABLE"}

\* What of a ReviewReport the ledger reads.  status is assurance_status, overall
\* is overall_verdict; "none" is None.
Report == [schema6 : BOOLEAN,
           status : {"none", "PASS", "FAIL", "UNKNOWN", "NOT_APPLICABLE"},
           overall : {"none", "PASS", "PASS_WITH_ADVISORY", "FAIL"},
           delta : Int, rules : [Rules -> Nat]]

ASSUME LedgerAssumption ==
    /\ Configs \subseteq SUBSET Clients
    /\ \A h \in Histories : h \in Seq(Report)
    /\ Reports \subseteq Report
    /\ MaxRuns \in Nat
    /\ MaxResets \in Nat

VARIABLES
    enabled,     \* processes whose LedgerClient has a Supabase URL and key
    file,        \* the local JSON file: its inode, what it holds
    runsTable,   \* review_runs: the rows POSTed so far
    ledgerTable, \* reward_ledger: the snapshots POSTed so far
    client,      \* the frame of each process
    nextRun,     \* identifier of the next run
    resets,      \* resets so far
    kept         \* runs whose local update succeeded since the last reset

vars == <<enabled, file, runsTable, ledgerTable, client, nextRun, resets, kept>>

-----------------------------------------------------------------------------
(* _apply_report. *)

NoCounts == [r \in Rules |-> 0]

\* LedgerState(agent=...)
Fresh == [coins |-> 0, streak_pass |-> 0, streak_block |-> 0, counts |-> NoCounts, runs |-> <<>>]

VerdictForRaw(r) == IF r.schema6 THEN r.status ELSE r.overall
VerdictFor(r) ==
    IF r.schema6 THEN IF r.status = "none" THEN "UNKNOWN" ELSE r.status
    ELSE IF r.overall = "none" THEN "PASS_WITH_ADVISORY" ELSE r.overall

RewardDeltaFor(r) ==
    IF r.schema6 /\ r.status \notin {"PASS", "FAIL"} THEN 0 ELSE r.delta

RunEntry(id, r) ==
    [id |-> id, verdict |-> VerdictFor(r), delta |-> RewardDeltaFor(r), rules |-> r.rules]

Neutral(v) == v \in {"UNKNOWN", "NOT_APPLICABLE"}

NextPassStreak(s, v) ==
    IF Neutral(v) THEN s.streak_pass
    ELSE IF v # "FAIL" THEN s.streak_pass + 1 ELSE 0

NextBlockStreak(s, v) ==
    IF Neutral(v) THEN s.streak_block
    ELSE IF v = "FAIL" THEN s.streak_block + 1 ELSE 0

CoinDeltaLate(s, run) ==
    run.delta
    + (IF ~Neutral(run.verdict) /\ run.verdict # "FAIL" /\ s.streak_pass >= 5 THEN 5 ELSE 0)
    - (IF run.verdict = "FAIL" /\ s.streak_block >= 3 THEN 10 ELSE 0)
CoinDelta(s, run) ==
    run.delta
    + (IF ~Neutral(run.verdict) /\ run.verdict # "FAIL"
          /\ NextPassStreak(s, run.verdict) >= 5 THEN 5 ELSE 0)
    - (IF run.verdict = "FAIL" /\ NextBlockStreak(s, run.verdict) >= 3 THEN 10 ELSE 0)

ApplyReport(s, run) ==
    [coins |-> s.coins + CoinDelta(s, run),
     streak_pass |-> NextPassStreak(s, run.verdict),
     streak_block |-> NextBlockStreak(s, run.verdict),
     counts |-> [r \in Rules |-> s.counts[r] + run.rules[r]],
     runs |-> Append(s.runs, run)]

-----------------------------------------------------------------------------
(* Stores. *)

Missing == [kind |-> "missing", inode |-> 0, state |-> Fresh]
Torn(i) == [kind |-> "torn", inode |-> i, state |-> Fresh]
Emptied(i) == [kind |-> "empty", inode |-> i, state |-> Fresh]
Holds(i, s) == [kind |-> "state", inode |-> i, state |-> s]

\* _read_local_state: a file that is missing, empty or not a valid ledger is a
\* new ledger.
ReadLocalState == IF file.kind = "state" THEN file.state ELSE Fresh

\* _read_supabase_state: the last snapshot, without counts and runs.
Snapshot(id, s) == [id |-> id, coins |-> s.coins,
                    streak_pass |-> s.streak_pass, streak_block |-> s.streak_block]
ReadSupabaseState ==
    IF ledgerTable = <<>> THEN Fresh
    ELSE LET row == ledgerTable[Len(ledgerTable)]
         IN  [Fresh EXCEPT !.coins = row.coins, !.streak_pass = row.streak_pass,
                           !.streak_block = row.streak_block]

NoRun == [id |-> 0, verdict |-> "UNKNOWN", delta |-> 0, rules |-> NoCounts]
Idle == [pc |-> "idle", run |-> NoRun, state |-> Fresh, inode |-> 0]
Ended(how) == [Idle EXCEPT !.pc = how]

-----------------------------------------------------------------------------
(* record_run, one action per access to a store. *)

\* Before an update and after one that succeeded, failed or was killed.
Resting == {"idle", "remote", "local", "failed", "dead"}

\* `ledger update` of a valid report; an invalid one ends before record_run.
Start(c) ==
    /\ client[c].pc \in Resting
    /\ nextRun <= MaxRuns
    /\ \E r \in Reports :
           client' = [client EXCEPT ![c] =
               [Idle EXCEPT !.pc = IF c \in enabled THEN "get" ELSE "read",
                            !.run = RunEntry(nextRun, r)]]
    /\ nextRun' = nextRun + 1
    /\ UNCHANGED <<enabled, file, runsTable, ledgerTable, resets, kept>>

Applied(c, s, pc) ==
    client' = [client EXCEPT ![c].pc = pc, ![c].state = ApplyReport(s, client[c].run)]

\* GET reward_ledger; any failure leads to the local file.
ReadSupabase(c) ==
    /\ client[c].pc = "get"
    /\ \/ Applied(c, ReadSupabaseState, "postRun")
       \/ client' = [client EXCEPT ![c].pc = "read"]
    /\ UNCHANGED <<enabled, file, runsTable, ledgerTable, nextRun, resets, kept>>

\* An OSError in the read is a new ledger as well.
ReadLocal(c) ==
    /\ client[c].pc = "read"
    /\ \E s \in {ReadLocalState, Fresh} :
           Applied(c, s, IF c \in enabled THEN "postRun" ELSE "open")
    /\ UNCHANGED <<enabled, file, runsTable, ledgerTable, nextRun, resets, kept>>

\* _write_supabase: first the run, then the snapshot; a failed request falls
\* back to the file.  A request that timed out may have been carried out.
AfterPostBlind(ok, next) == next
AfterPost(ok, next) == IF ok THEN next ELSE "open"

PostRun(c) ==
    /\ client[c].pc = "postRun"
    /\ \E stored, ok \in BOOLEAN :
           /\ ok => stored
           /\ runsTable' = IF stored THEN Append(runsTable, client[c].run) ELSE runsTable
           /\ client' = [client EXCEPT ![c].pc = AfterPost(ok, "postLedger")]
    /\ UNCHANGED <<enabled, file, ledgerTable, nextRun, resets, kept>>

PostLedger(c) ==
    /\ client[c].pc = "postLedger"
    /\ \E stored, ok \in BOOLEAN :
           /\ ok => stored
           /\ ledgerTable' = IF stored
                             THEN Append(ledgerTable, Snapshot(client[c].run.id, client[c].state))
                             ELSE ledgerTable
           /\ client' = [client EXCEPT ![c].pc = AfterPost(ok, "remote")]
    /\ UNCHANGED <<enabled, file, runsTable, nextRun, resets, kept>>

\* _write_local_state: write_text opens and truncates the file ...
WriteOpen(c) ==
    /\ client[c].pc = "open"
    /\ file' = Emptied(resets + 1)
    /\ client' = [client EXCEPT ![c].pc = "write", ![c].inode = resets + 1]
    /\ UNCHANGED <<enabled, runsTable, ledgerTable, nextRun, resets, kept>>

\* ... and then writes it.  A file that was deleted meanwhile is not written;
\* over the bytes of another writer the result may have that writer's tail.
Written(c) ==
    IF file.kind = "missing" \/ file.inode # client[c].inode THEN {file}
    ELSE LET mine == Holds(file.inode, client[c].state)
         IN  IF file.kind = "empty" THEN {mine} ELSE {mine, Torn(file.inode)}

WriteClose(c) ==
    /\ client[c].pc = "write"
    /\ file' \in Written(c)
    /\ client' = [client EXCEPT ![c] = Ended("local")]
    /\ kept' = kept \cup {client[c].run.id}
    /\ UNCHANGED <<enabled, runsTable, ledgerTable, nextRun, resets>>

\* A write that breaks off may leave some of its bytes.
PartlyWritten(c) ==
    IF client[c].pc # "write" \/ file.kind = "missing" \/ file.inode # client[c].inode
    THEN {file} ELSE {file, Torn(file.inode)}

\* An OSError of mkdir, of the open or of the write: the command exits with 1.
WriteFail(c) ==
    /\ client[c].pc \in {"open", "write"}
    /\ client' = [client EXCEPT ![c] = Ended("failed")]
    /\ file' \in PartlyWritten(c)
    /\ UNCHANGED <<enabled, runsTable, ledgerTable, nextRun, resets, kept>>

\* The process is killed anywhere in record_run.
Crash(c) ==
    /\ client[c].pc \notin Resting
    /\ client' = [client EXCEPT ![c] = Ended("dead")]
    /\ file' \in PartlyWritten(c)
    /\ UNCHANGED <<enabled, runsTable, ledgerTable, nextRun, resets, kept>>

\* `ledger reset --confirm` in another process.
ResetLocal ==
    /\ resets < MaxResets
    /\ file' = Missing
    /\ resets' = resets + 1
    /\ kept' = {}
    /\ UNCHANGED <<enabled, runsTable, ledgerTable, client, nextRun>>

\* No process is left.
Quiet ==
    /\ nextRun > MaxRuns
    /\ \A c \in Clients : client[c].pc \in Resting
    /\ UNCHANGED vars

\* The ledger that recorded the reports of h one after the other.
Recorded(h) == FoldLeft(LAMBDA s, r : ApplyReport(s, RunEntry(0, r)), Fresh, h)

Init ==
    /\ enabled \in Configs
    /\ \E h \in Histories : file = IF h = <<>> THEN Missing ELSE Holds(1, Recorded(h))
    /\ runsTable = <<>>
    /\ ledgerTable = <<>>
    /\ client = [c \in Clients |-> Idle]
    /\ nextRun = 1
    /\ resets = 0
    /\ kept = {}

Next ==
    \/ \E c \in Clients :
           \/ Start(c) \/ ReadSupabase(c) \/ ReadLocal(c) \/ PostRun(c) \/ PostLedger(c)
           \/ WriteOpen(c) \/ WriteClose(c) \/ WriteFail(c) \/ Crash(c)
    \/ ResetLocal
    \/ Quiet

Spec == Init /\ [][Next]_vars

-----------------------------------------------------------------------------
(* Reference definitions: what a ledger is worth, from its history alone.  *)

Passing(run) == run.verdict \in {"PASS", "PASS_WITH_ADVISORY"}
Failing(run) == run.verdict = "FAIL"

\* The passes among the first n runs that no failure followed, and the
\* failures that no pass followed.
PassStreakOf(runs, n) ==
    Cardinality({i \in 1 .. n : Passing(runs[i]) /\ \A j \in i .. n : ~Failing(runs[j])})
BlockStreakOf(runs, n) ==
    Cardinality({i \in 1 .. n : Failing(runs[i]) /\ \A j \in i .. n : ~Passing(runs[j])})

\* Every run earns its delta, every pass from the fifth of a streak on a bonus,
\* every failure from the third of a streak on a penalty.
Worth(runs, i) ==
    runs[i].delta
    + (IF Passing(runs[i]) /\ PassStreakOf(runs, i) >= 5 THEN 5 ELSE 0)
    - (IF Failing(runs[i]) /\ BlockStreakOf(runs, i) >= 3 THEN 10 ELSE 0)

\* The sum of a sequence of numbers.
Total(w) == MapThenSumSet(LAMBDA i : w[i], DOMAIN w)

AddsUp(s) ==
    LET N == DOMAIN s.runs
    IN  /\ s.coins = Total([i \in N |-> Worth(s.runs, i)])
        /\ s.streak_pass = PassStreakOf(s.runs, Len(s.runs))
        /\ s.streak_block = BlockStreakOf(s.runs, Len(s.runs))
        /\ \A r \in Rules : s.counts[r] = Total([i \in N |-> s.runs[i].rules[r]])

-----------------------------------------------------------------------------
(* Properties. *)

Run == [id : 0 .. MaxRuns, verdict : Verdicts, delta : Int, rules : [Rules -> Nat]]

State == [coins : Int, streak_pass : Nat, streak_block : Nat,
          counts : [Rules -> Nat], runs : Seq(Run)]

\* The persisted files, tables and frames keep the shape the client's pydantic
\* models (LedgerRun, LedgerState) give them.
TypeOK ==
    /\ file.kind \in {"missing", "empty", "torn", "state"}
    /\ file.state \in State
    /\ runsTable \in Seq(Run)
    /\ \A i \in DOMAIN ledgerTable : ledgerTable[i].streak_pass \in Nat
    /\ \A c \in Clients : client[c].run \in Run /\ client[c].state \in State
    /\ nextRun \in 1 .. MaxRuns + 1
    /\ kept \subseteq 1 .. MaxRuns

\* Whatever interleaving of updates, crashes, broken-off writes and resets led
\* to it, a readable local ledger is consistent with itself: its coins, streaks
\* and violation counts are those of the runs it lists.  An update that is lost
\* is lost as a whole.  (A process that falls back from Supabase writes a
\* snapshot without its runs; the property is about local ledgers.)
LocalLedgerAddsUp == enabled = {} /\ file.kind = "state" => AddsUp(file.state)

\* Every snapshot in reward_ledger belongs to a row of review_runs, also when
\* the process died or a request failed between the two POSTs.
SnapshotsBacked ==
    \A i \in DOMAIN ledgerTable :
        \E j \in DOMAIN runsTable : runsTable[j].id = ledgerTable[i].id

\* An update that record_run reports as stored in Supabase is in both tables;
\* one of two requests is never enough.
RemoteSuccessIsComplete ==
    \A c \in Clients : client[c].pc = "remote" =>
        /\ \E j \in DOMAIN runsTable : runsTable[j].id = client[c].run.id
        /\ \E i \in DOMAIN ledgerTable : ledgerTable[i].id = client[c].run.id

\* A run whose update succeeded stays in the local ledger until a reset: when
\* no update is under way, the file lists it.
RecordedRunsKept ==
    (\A c \in Clients : client[c].pc \in Resting)
    => \A id \in kept : \E i \in DOMAIN file.state.runs : file.state.runs[i].id = id
-----------------------------------------------------------------------------
(* The invariant behind the properties: LedgerProofs shows that it is       *)
(* inductive.                                                               *)

PCs == Resting \cup {"get", "read", "postRun", "postLedger", "open", "write"}

TypeInv ==
    /\ enabled \in Configs
    /\ file \in [kind : {"missing", "empty", "torn", "state"}, inode : Nat, state : State]
    /\ runsTable \in Seq(Run)
    /\ ledgerTable \in Seq([id : 0 .. MaxRuns, coins : Int,
                            streak_pass : Nat, streak_block : Nat])
    /\ client \in [Clients -> [pc : PCs, run : Run, state : State, inode : Nat]]
    /\ nextRun \in 1 .. MaxRuns + 1
    /\ resets \in Nat
    /\ kept \subseteq 1 .. MaxRuns
    /\ \A c \in Clients : client[c].pc \notin Resting => client[c].run.id \in 1 .. MaxRuns

\* Without Supabase no process talks to it, and what a process is about to
\* write adds up like what is in the file.
LocalInv ==
    enabled = {} =>
        /\ file.kind = "state" => AddsUp(file.state)
        /\ \A c \in Clients :
               /\ client[c].pc \notin {"get", "postRun", "postLedger", "remote"}
               /\ client[c].pc \in {"open", "write"} => AddsUp(client[c].state)

RunIds == {runsTable[j].id : j \in DOMAIN runsTable}
LedgerIds == {ledgerTable[i].id : i \in DOMAIN ledgerTable}

\* A process that posts its snapshot has posted its run.
TablesInv ==
    /\ LedgerIds \subseteq RunIds
    /\ \A c \in Clients :
           /\ client[c].pc \in {"postLedger", "remote"} => client[c].run.id \in RunIds
           /\ client[c].pc = "remote" => client[c].run.id \in LedgerIds

LedgerInv == TypeInv /\ LocalInv /\ TablesInv
=============================================================================
