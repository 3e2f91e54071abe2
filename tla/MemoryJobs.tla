----------------------------- MODULE MemoryJobs -----------------------------
(***************************************************************************)
(* The memory jobs of the state runtime (product/state/src/runtime.rs,     *)
(* MemoryStore) and the startup task that works on them (product/          *)
(* agent_runtime/src/memories).  Every session that starts is a worker: it *)
(* prunes, extracts a memory from each idle thread it can claim (phase 1)  *)
(* and then consolidates the memories in one git workspace under a global  *)
(* job (phase 2).  Workers are processes: they share the two SQLite files  *)
(* and the workspace, and nothing else.                                    *)
(*                                                                         *)
(* A step is one SQL statement or transaction, or one operation on the     *)
(* workspace.  The clock is abstracted to what the statements compare with *)
(* it: a lease or a back-off is over or not.  An ownership token (a UUID)  *)
(* is the worker that holds it, and Gone once nobody does.  What the model *)
(* writes about a thread is abstracted to the thread and the time of its   *)
(* last update.                                                            *)
(***************************************************************************)
EXTENDS Naturals, FiniteSets

CONSTANTS
    Worker, Thread,
    None,          \* a NULL column, or a row that does not exist
    Gone,          \* an ownership token nobody holds any more
    Retries,       \* DEFAULT_RETRY_REMAINING
    ScanLimit,     \* STAGE_ONE_THREAD_SCAN_LIMIT
    MaxClaims,     \* max_rollouts_per_startup
    Limit,         \* max_raw_memories_for_consolidation
    MaxUpdate,     \* bound: times a thread is updated, the first one included
    MaxMark,       \* bound: input watermark up to which a thread is reported polluted
    MaxFault,      \* bound: crashes and failures
    Busy,          \* bound: the threads that turn polluted or too old, and whose
                   \* memories are used and fall out of use
    Slow           \* whether a live worker may outlive its lease

ASSUME MemoryAssumption ==
    /\ None \notin Worker /\ Gone \notin Worker /\ None # Gone
    /\ None \notin {"pending", "running", "done", "error"}
    /\ Retries \in Nat \ {0} /\ ScanLimit \in Nat /\ MaxClaims \in Nat /\ Limit \in Nat
    /\ MaxUpdate \in Nat \ {0} /\ MaxMark \in Nat /\ MaxFault \in Nat
    /\ Busy \subseteq Thread /\ Slow \in BOOLEAN

VARIABLES
    updated,       \* threads.updated_at
    aged,          \* threads for which that is more than max_age_days ago
    mode,          \* threads.memory_mode, and how far marking it polluted is
    out,           \* stage1_outputs
    job,           \* the stage-1 row of each thread in jobs
    glob, cooling, \* the global row in jobs; whether finished_at lies within the cooldown
    files, book,   \* the workspace: rollout summaries (raw_memories.md is made of the
                   \* same memories), handbook
    base,          \* ... and git baseline, None without a valid repository
    stuck,         \* summaries the last pruning could not remove
    pc,            \* where each worker's startup task stands
    scan, claims,  \* threads it has read and not looked at; stage-1 jobs it claimed
    mark, sel,     \* the watermark of its phase-2 claim; the thread it is about to
                   \* claim and later the memories it selected
    faults,        \* crashes and failures so far
    late,          \* workers whose phase-2 lease ran out while they held it
    stale, missed  \* an output changed since this worker's, the last selection

dbVars == <<out, job, glob, cooling>>
threadVars == <<updated, aged>>
spaceVars == <<files, book, base, stuck>>
claimVars == <<scan, claims>>
runVars == <<mark, sel>>
ghostVars == <<late, stale, missed>>
vars == <<threadVars, mode, dbVars, spaceVars, pc, claimVars, runVars, faults, ghostVars>>

Times == 1 .. MaxUpdate
Memory == [thread : Thread, src : Times]
Baseline == [files : SUBSET Memory, book : SUBSET Memory]

ASSUME BaselineAssumption == None \notin Baseline

\* The worker is in phase 2, and holds a token for the global job.
Phase2 == {"mark", "prepare", "keys", "rows", "prune", "sync", "agent", "confirm", "reset",
           "commit", "report", "fail"}
\* It has chosen its inputs.
Chosen == Phase2 \ {"mark", "prepare", "keys", "fail"}
WorkerPC == Phase2 \cup {"off", "scan", "claim", "take", "extract", "own"}

Row == [status : {None, "pending", "running", "done", "error"},
        owner : Worker \cup {None, Gone},
        lease : BOOLEAN,     \* lease_until is set and still ahead
        due : BOOLEAN,       \* retry_at is unset or over
        left : 0 .. Retries, \* retry_remaining
        input : Nat,         \* input_watermark, 0 for NULL
        success : Nat]       \* last_success_watermark, 0 for NULL
NoRow == [status |-> None, owner |-> None, lease |-> FALSE, due |-> TRUE,
          left |-> 0, input |-> 0, success |-> 0]

OutRow == [src : Times,                   \* source_updated_at
           recent : BOOLEAN,              \* ... lies within max_unused_days
           used : {None, "recent", "old"},    \* last_usage, and whether it does
           picked : Times \cup {None}]    \* selected_for_phase2(_source_updated_at)

\* COALESCE(last_usage, source_updated_at) is not before the cutoff.
InWindow(o) == IF o.used = None THEN o.recent ELSE o.used = "recent"

Polluted(t) == mode[t] \in {"bumping", "polluted"}
Owns(w, r) == r.status = "running" /\ r.owner = w
Maximum(a, b) == IF a > b THEN a ELSE b

-----------------------------------------------------------------------------
(* Rows of jobs. *)

\* Who loses or drops a token leaves it with nobody.
Disown(w, r) == IF r.owner = w THEN [r EXCEPT !.owner = Gone] ELSE r

\* Seeded fault: a running job is claimed whatever its lease.
MutClaimable(r) == r.status = None \/ (r.left > 0 /\ r.due)

\* Seeded fault: a running job is never claimed again.
MutClaimableOnce(r) == r.status = None \/ (r.left > 0 /\ r.due /\ r.status # "running")

\* The WHERE of both claiming upserts; there is no row to conflict with at first.
Claimable(r) ==
    \/ r.status = None
    \/ r.left > 0 /\ r.due /\ (r.status = "running" => ~r.lease)

Claimed(r, w, input) ==
    [r EXCEPT !.status = "running", !.owner = w, !.lease = TRUE, !.input = input,
              !.left = IF r.status = None THEN Retries ELSE @]

Succeeded(r, success) ==
    [r EXCEPT !.status = "done", !.owner = Gone, !.lease = FALSE, !.due = TRUE,
              !.success = success]

Failed(r) ==
    [r EXCEPT !.status = "error", !.owner = Gone, !.lease = FALSE, !.due = FALSE,
              !.left = IF @ > 0 THEN @ - 1 ELSE 0]

\* Seeded fault: the row is replaced by whatever comes.
MutUpserted(o, src) ==
    IF o = None THEN [src |-> src, recent |-> TRUE, used |-> None, picked |-> None]
    ELSE [o EXCEPT !.src = src, !.recent = TRUE]

\* The upsert of a stage-1 output: only a newer one replaces the row, and what is
\* known of its use and of its selection stays.
Upserted(o, src) ==
    IF o = None THEN [src |-> src, recent |-> TRUE, used |-> None, picked |-> None]
    ELSE IF src >= o.src THEN [o EXCEPT !.src = src, !.recent = TRUE] ELSE o

\* Seeded fault: an input older than the watermark does not raise it.
MutBumpedMax(g, watermark) ==
    [g EXCEPT !.status = IF @ = "running" THEN @ ELSE "pending",
              !.due = @ \/ g.status # "running",
              !.input = Maximum(@, watermark),
              !.left = Maximum(@, Retries)]

\* bump_phase2_input_watermark_tx
Bumped(g, watermark) ==
    [g EXCEPT !.status = IF @ = "running" THEN @ ELSE "pending",
              !.due = @ \/ g.status # "running",
              !.input = IF watermark > @ THEN watermark ELSE @ + 1,
              !.left = Maximum(@, Retries)]

-----------------------------------------------------------------------------
Init ==
    /\ updated = [t \in Thread |-> 1] /\ aged = {}
    /\ mode = [t \in Thread |-> "enabled"]
    /\ out = [t \in Thread |-> None]
    /\ job = [t \in Thread |-> NoRow]
    /\ glob = NoRow /\ cooling = FALSE
    /\ files = {} /\ book = {} /\ base = None /\ stuck = {}
    /\ pc = [w \in Worker |-> "off"]
    /\ scan = [w \in Worker |-> {}] /\ claims = [w \in Worker |-> {}]
    /\ mark = [w \in Worker |-> 0] /\ sel = [w \in Worker |-> {}]
    /\ faults = 0
    /\ late = {} /\ stale = {} /\ missed = FALSE

Goto(w, from, to) == pc[w] = from /\ pc' = [pc EXCEPT ![w] = to]

\* An output came or went: those who chose their inputs did not see it.
OutputChanged ==
    /\ stale' = stale \cup {w \in Worker : pc[w] \in Chosen}
    /\ missed' = TRUE

-----------------------------------------------------------------------------
(* The startup task, phase 1.                                              *)

\* prune_stage1_outputs_for_retention
Start(w) ==
    /\ Goto(w, "off", "scan")
    /\ out' = [t \in Thread |->
                 IF out[t] # None /\ out[t].picked = None /\ ~InWindow(out[t])
                 THEN None ELSE out[t]]
    /\ UNCHANGED <<threadVars, mode, job, glob, cooling, spaceVars, claimVars, runVars,
                   faults, ghostVars>>

\* The idle threads that are enabled and not too old.
Eligible == {m \in Memory : /\ m.src = updated[m.thread] /\ m.thread \notin aged
                            /\ ~Polluted(m.thread)}

\* claim_stage1_jobs_for_startup reads the newest ScanLimit of them, whether their memories
\* are up to date or not.  The order of their ids decides between equally new ones.
Scan(w) ==
    /\ Goto(w, "scan", "claim")
    /\ \E S \in SUBSET Eligible :
         /\ Cardinality(S) <= ScanLimit
         /\ S = Eligible \/ Cardinality(S) = ScanLimit
         /\ \A m \in S, n \in Eligible \ S : n.src <= m.src
         /\ scan' = [scan EXCEPT ![w] = S]
    /\ UNCHANGED <<threadVars, mode, dbVars, spaceVars, claims, runVars, faults, ghostVars>>

\* stage1_source_needs_update
NeedsUpdate(m) ==
    /\ out[m.thread] # None => out[m.thread].src < m.src
    /\ job[m.thread].success < m.src

\* The newest thread of the scan; it is dropped when its memory is up to date.
Look(w) ==
    /\ pc[w] = "claim" /\ Cardinality(claims[w]) < MaxClaims
    /\ \E m \in scan[w] :
         /\ \A n \in scan[w] : n.src <= m.src
         /\ IF NeedsUpdate(m)
            THEN /\ Goto(w, "claim", "take")
                 /\ sel' = [sel EXCEPT ![w] = {m}]
            ELSE UNCHANGED <<pc, sel>>
         /\ scan' = [scan EXCEPT ![w] = @ \ {m}]
    /\ UNCHANGED <<threadVars, mode, dbVars, spaceVars, claims, mark, faults, ghostVars>>

\* try_claim_stage1_job, the upsert.
Take(w) ==
    /\ Goto(w, "take", "claim")
    /\ \E m \in sel[w] :
         IF Claimable(job[m.thread])
         THEN /\ job' = [job EXCEPT ![m.thread] = Claimed(@, w, m.src)]
              /\ claims' = [claims EXCEPT ![w] = @ \cup {m}]
         ELSE UNCHANGED <<job, claims>>
    /\ sel' = [sel EXCEPT ![w] = {}]
    /\ UNCHANGED <<threadVars, mode, out, glob, cooling, spaceVars, scan, mark, faults,
                   ghostVars>>

ScanDone(w) ==
    /\ scan[w] = {} \/ Cardinality(claims[w]) >= MaxClaims
    /\ Goto(w, "claim", "extract")
    /\ scan' = [scan EXCEPT ![w] = {}]
    /\ UNCHANGED <<threadVars, mode, dbVars, spaceVars, claims, runVars, faults, ghostVars>>

\* An error of a statement ends the claiming; phase 2 is tried all the same.
ScanFails(w) ==
    /\ pc[w] \in {"scan", "claim", "take"}
    /\ faults < MaxFault /\ faults' = faults + 1
    /\ pc' = [pc EXCEPT ![w] = "extract"]
    /\ scan' = [scan EXCEPT ![w] = {}] /\ claims' = [claims EXCEPT ![w] = {}]
    /\ sel' = [sel EXCEPT ![w] = {}]
    /\ job' = [t \in Thread |-> Disown(w, job[t])]
    /\ UNCHANGED <<threadVars, mode, out, glob, cooling, spaceVars, mark, ghostVars>>

Drop(w, m) == claims' = [claims EXCEPT ![w] = @ \ {m}]

\* mark_stage1_job_succeeded: one transaction, void without the token.
ExtractSucceeds(w, m) ==
    /\ pc[w] = "extract" /\ m \in claims[w]
    /\ Drop(w, m)
    /\ LET t == m.thread IN
       IF Owns(w, job[t])
       THEN /\ job' = [job EXCEPT ![t] = Succeeded(@, m.src)]
            /\ out' = [out EXCEPT ![t] = Upserted(@, m.src)]
            /\ glob' = Bumped(glob, m.src)
            /\ OutputChanged
       ELSE UNCHANGED <<job, out, glob, stale, missed>>
    /\ UNCHANGED <<threadVars, mode, cooling, spaceVars, pc, scan, runVars, faults, late>>

\* mark_stage1_job_succeeded_no_output
ExtractsNothing(w, m) ==
    /\ pc[w] = "extract" /\ m \in claims[w]
    /\ Drop(w, m)
    /\ LET t == m.thread IN
       IF Owns(w, job[t])
       THEN /\ job' = [job EXCEPT ![t] = Succeeded(@, job[t].input)]
            /\ out' = [out EXCEPT ![t] = None]
            /\ IF out[t] # None
               THEN glob' = Bumped(glob, job[t].input) /\ OutputChanged
               ELSE UNCHANGED <<glob, stale, missed>>
       ELSE UNCHANGED <<job, out, glob, stale, missed>>
    /\ UNCHANGED <<threadVars, mode, cooling, spaceVars, pc, scan, runVars, faults, late>>

\* mark_stage1_job_failed, or an error of the statement that would report the outcome.
ExtractFails(w, m) ==
    /\ pc[w] = "extract" /\ m \in claims[w]
    /\ faults < MaxFault /\ faults' = faults + 1
    /\ Drop(w, m)
    /\ \E next \in {Failed(job[m.thread]), Disown(w, job[m.thread])} :
         job' = [job EXCEPT ![m.thread] = IF Owns(w, @) THEN next ELSE @]
    /\ UNCHANGED <<threadVars, mode, out, glob, cooling, spaceVars, pc, scan, runVars,
                   ghostVars>>

-----------------------------------------------------------------------------
(* The startup task, phase 2.                                              *)

\* The end of the startup task, or of its process: its tokens are nobody's.
Leave(w) ==
    /\ pc' = [pc EXCEPT ![w] = "off"]
    /\ scan' = [scan EXCEPT ![w] = {}] /\ claims' = [claims EXCEPT ![w] = {}]
    /\ mark' = [mark EXCEPT ![w] = 0] /\ sel' = [sel EXCEPT ![w] = {}]
    /\ late' = late \ {w} /\ stale' = stale \ {w}

\* Seeded fault: a running job holds claims back although its lease is over.
MutHeldBack(g) == ~g.due \/ g.status = "running" \/ (g.status = "done" /\ cooling)

\* Phase 2 begins once every claimed job of phase 1 ended.  try_claim_global_phase2_job,
\* the read: what holds a claim back.
HeldBack(g) ==
    \/ ~g.due
    \/ g.status = "running" /\ g.lease
    \/ g.status = "done" /\ cooling

LookGlobal(w) ==
    /\ pc[w] = "extract" /\ claims[w] = {}
    /\ IF HeldBack(glob)
       THEN Leave(w)
       ELSE /\ Goto(w, "extract", "own")
            /\ UNCHANGED <<claimVars, runVars, late, stale>>
    /\ UNCHANGED <<threadVars, mode, dbVars, spaceVars, faults, missed>>

\* try_claim_global_phase2_job, the upsert: it does not look at the cooldown.
\* It clears finished_at.
ClaimGlobal(w) ==
    /\ pc[w] = "own"
    /\ IF Claimable(glob)
       THEN /\ glob' = Claimed(glob, w, glob.input)
            /\ cooling' = FALSE
            /\ Goto(w, "own", "mark")
            /\ UNCHANGED <<claimVars, runVars, late, stale>>
       ELSE Leave(w) /\ UNCHANGED <<glob, cooling>>
    /\ UNCHANGED <<threadVars, mode, out, job, spaceVars, faults, missed>>

\* ... and the watermark, in a statement of its own.
ReadMark(w) ==
    /\ Goto(w, "mark", "prepare")
    /\ mark' = [mark EXCEPT ![w] = glob.input]
    /\ UNCHANGED <<threadVars, mode, dbVars, spaceVars, claimVars, sel, faults, ghostVars>>

Content == [files |-> files, book |-> book]

\* prepare_memory_workspace: without a valid repository, the workspace as it is becomes
\* the baseline.
Prepare(w) ==
    /\ Goto(w, "prepare", "keys")
    /\ base' = IF base = None THEN Content ELSE base
    /\ UNCHANGED <<threadVars, mode, dbVars, files, book, stuck, claimVars, runVars, faults,
                   ghostVars>>

Candidates ==
    {m \in Memory : /\ out[m.thread] # None /\ out[m.thread].src = m.src
                    /\ InWindow(out[m.thread]) /\ ~Polluted(m.thread)}

\* get_phase2_input_selection, the candidates: the most used ones, whichever they are.
SelectKeys(w) ==
    /\ Goto(w, "keys", "rows")
    /\ \E K \in SUBSET Candidates :
         /\ Cardinality(K) <= Limit
         /\ K = Candidates \/ Cardinality(K) = Limit
         /\ sel' = [sel EXCEPT ![w] = K]
    /\ UNCHANGED <<threadVars, mode, dbVars, spaceVars, claimVars, mark, faults, ghostVars>>

\* get_phase2_input_selection, the rows: one that changed since is left out.
SelectRows(w) ==
    /\ Goto(w, "rows", "prune")
    /\ sel' = [sel EXCEPT ![w] =
                 {m \in @ : /\ out[m.thread] # None /\ out[m.thread].src = m.src
                            /\ ~Polluted(m.thread)}]
    /\ UNCHANGED <<threadVars, mode, dbVars, spaceVars, claimVars, mark, faults, ghostVars>>

\* sync_workspace_inputs, file by file: prune_rollout_summaries removes what is not
\* selected, and only warns of a summary it cannot remove; ...  Every memory has a file of
\* its own here; in the code a newer one of the thread, with the same slug, overwrites it.
Prune(w) ==
    /\ pc[w] = "prune"
    /\ \/ /\ \E m \in files \ sel[w] : files' = files \ {m}
          /\ UNCHANGED <<pc, stuck, faults>>
       \/ /\ Goto(w, "prune", "sync")
          /\ stuck' = files \ sel[w]
          /\ faults' = IF stuck' = {} THEN faults ELSE faults + 1
          /\ faults' <= MaxFault
          /\ UNCHANGED files
    /\ UNCHANGED <<threadVars, mode, dbVars, book, base, claimVars, runVars, ghostVars>>

\* ... then the selected ones are written.
Sync(w) ==
    /\ pc[w] = "sync"
    /\ \E m \in sel[w] \ files : files' = files \cup {m}
    /\ UNCHANGED <<threadVars, mode, dbVars, book, base, stuck, pc, claimVars, runVars, faults,
                   ghostVars>>

\* Seeded fault: only the inputs are compared with the baseline.
MutDiff(w) ==
    /\ sel[w] \subseteq files
    /\ Goto(w, "sync", IF base = None \/ base.files = files THEN "report" ELSE "agent")
    /\ base' = IF base = None THEN Content ELSE base
    /\ UNCHANGED <<threadVars, mode, dbVars, files, book, stuck, claimVars, runVars, faults,
                   ghostVars>>

\* memory_workspace_diff: without changes there is nothing to consolidate; and there are
\* none when the repository had to be made first.
Diff(w) ==
    /\ sel[w] \subseteq files
    /\ Goto(w, "sync", IF base \in {None, Content} THEN "report" ELSE "agent")
    /\ base' = IF base = None THEN Content ELSE base
    /\ UNCHANGED <<threadVars, mode, dbVars, files, book, stuck, claimVars, runVars, faults,
                   ghostVars>>

\* The consolidation agent brings the handbook up to date with the inputs it finds,
\* and completes its turn.
AgentWrites(w) ==
    /\ Goto(w, "agent", "confirm")
    /\ book' = files
    /\ UNCHANGED <<threadVars, mode, dbVars, files, base, stuck, claimVars, runVars, faults,
                   ghostVars>>

\* Nothing is left but to report the failure.
Quit(w) ==
    /\ pc' = [pc EXCEPT ![w] = "fail"]
    /\ mark' = [mark EXCEPT ![w] = 0] /\ sel' = [sel EXCEPT ![w] = {}]
    /\ late' = late \ {w} /\ stale' = stale \ {w}

\* heartbeat_global_phase2_job, on a timer during the turn and once more after it: it
\* renews the lease, or tells that the job was lost.
Heartbeat(w) ==
    /\ pc[w] \in {"agent", "confirm"}
    /\ IF Owns(w, glob)
       THEN /\ pc' = [pc EXCEPT ![w] = IF @ = "confirm" THEN "reset" ELSE "agent"]
            /\ glob' = [glob EXCEPT !.lease = TRUE]
            /\ late' = late \ {w}
            /\ UNCHANGED <<runVars, stale>>
       ELSE Quit(w) /\ UNCHANGED glob
    /\ UNCHANGED <<threadVars, mode, out, job, cooling, spaceVars, claimVars, faults,
                   missed>>

\* reset_memory_workspace_baseline removes the repository, ...
ResetBaseline(w) ==
    /\ Goto(w, "reset", "commit")
    /\ base' = None
    /\ UNCHANGED <<threadVars, mode, dbVars, files, book, stuck, claimVars, runVars, faults,
                   ghostVars>>

\* ... and makes a new one of the workspace as it is.
Commit(w) ==
    /\ Goto(w, "commit", "report")
    /\ base' = Content
    /\ UNCHANGED <<threadVars, mode, dbVars, files, book, stuck, claimVars, runVars, faults,
                   ghostVars>>

\* get_watermark: the greatest of the claimed watermark and the selected sources.
Completion(w) ==
    LET seen == {mark[w]} \cup {m.src : m \in sel[w]}
    IN  {x \in seen : \A y \in seen : y <= x}

\* mark_global_phase2_job_succeeded; its answer is ignored.
ReportSuccess(w) ==
    /\ pc[w] = "report"
    /\ IF Owns(w, glob)
       THEN /\ \E c \in Completion(w) :
                 glob' = [Succeeded(glob, c) EXCEPT !.input = Maximum(@, c)]
            /\ cooling' = TRUE
            /\ out' = [t \in Thread |->
                         IF out[t] = None THEN None
                         ELSE [out[t] EXCEPT !.picked =
                                 IF [thread |-> t, src |-> out[t].src] \in sel[w]
                                 THEN out[t].src ELSE None]]
            /\ missed' \in BOOLEAN /\ (missed' <=> w \in stale)
       ELSE UNCHANGED <<glob, cooling, out, missed>>
    /\ Leave(w)
    /\ UNCHANGED <<threadVars, mode, job, spaceVars, faults>>

\* An error of any statement or file operation of the run, or of the agent's turn.
Fault(w) ==
    /\ pc[w] \in Phase2 \ {"mark", "report", "fail"}
    /\ faults < MaxFault /\ faults' = faults + 1
    /\ Quit(w)
    /\ UNCHANGED <<threadVars, mode, dbVars, spaceVars, claimVars, missed>>

\* mark_failed: mark_global_phase2_job_failed, or failing that ..._if_unowned.
ReportFailure(w) ==
    /\ pc[w] = "fail"
    /\ glob' = IF Owns(w, glob) \/ Owns(None, glob) THEN Failed(glob) ELSE glob
    /\ Leave(w)
    /\ UNCHANGED <<threadVars, mode, out, job, cooling, spaceVars, faults, missed>>

\* The process ends anywhere; a failure to read the watermark does the same.
Crash(w) ==
    /\ pc[w] # "off"
    /\ faults < MaxFault /\ faults' = faults + 1
    /\ Leave(w)
    /\ job' = [t \in Thread |-> Disown(w, job[t])]
    /\ glob' = Disown(w, glob)
    /\ UNCHANGED <<threadVars, mode, out, cooling, spaceVars, missed>>

-----------------------------------------------------------------------------
(* The sessions that run meanwhile.                                        *)

envVars == <<spaceVars, pc, claimVars, runVars, faults, ghostVars>>

\* A thread takes a turn, and later lies idle again.
UserTurn(t) ==
    /\ updated[t] < MaxUpdate
    /\ updated' = [updated EXCEPT ![t] = @ + 1]
    /\ aged' = aged \ {t}
    /\ UNCHANGED <<mode, dbVars, envVars>>

\* mark_thread_memory_mode_polluted, statement by statement: whether the memory is
\* selected is read from one database, ...
Picked(t) == out[t] # None /\ out[t].picked # None

PolluteReads(t) ==
    /\ mode[t] = "enabled" \/ (mode[t] = "polluted" /\ Picked(t))
    /\ t \in Busy /\ glob.input < MaxMark
    /\ mode' = [mode EXCEPT ![t] = IF @ = "polluted" THEN "bumping"
                                   ELSE IF Picked(t) THEN "picked" ELSE "unpicked"]
    /\ UNCHANGED <<threadVars, dbVars, envVars>>

\* ... the mode is written to the other, ...
PolluteWrites(t) ==
    /\ mode[t] \in {"picked", "unpicked"}
    /\ mode' = [mode EXCEPT ![t] = IF @ = "picked" THEN "bumping" ELSE "polluted"]
    /\ UNCHANGED <<threadVars, dbVars, envVars>>

\* ... and a selected memory raises the watermark, to the clock's time.
PolluteBumps(t) ==
    /\ mode[t] = "bumping"
    /\ glob' = Bumped(glob, MaxUpdate + 1)
    /\ mode' = [mode EXCEPT ![t] = "polluted"]
    /\ UNCHANGED <<threadVars, out, job, cooling, envVars>>

\* The session of the thread ends between two of these statements.
PolluteCrashes(t) ==
    /\ mode[t] \in {"picked", "unpicked", "bumping"}
    /\ faults < MaxFault /\ faults' = faults + 1
    /\ mode' = [mode EXCEPT ![t] = IF @ = "bumping" THEN "polluted" ELSE "enabled"]
    /\ UNCHANGED <<threadVars, dbVars, spaceVars, pc, claimVars, runVars, ghostVars>>

\* record_stage1_output_usage
Use(t) ==
    /\ t \in Busy /\ out[t] # None /\ out[t].used # "recent"
    /\ out' = [out EXCEPT ![t].used = "recent"]
    /\ UNCHANGED <<threadVars, mode, job, glob, cooling, envVars>>

-----------------------------------------------------------------------------
(* Time.                                                                   *)

\* max_unused_days go by.
Age(t) ==
    /\ t \in Busy /\ out[t] # None
    /\ out' = [out EXCEPT ![t].recent = FALSE,
                          ![t].used = IF @ = None THEN None ELSE "old"]
    /\ out' # out
    /\ UNCHANGED <<threadVars, mode, job, glob, cooling, envVars>>

\* max_age_days go by without a turn of the thread.
Expire(t) ==
    /\ t \in Busy \ aged
    /\ aged' = aged \cup {t}
    /\ UNCHANGED <<updated, mode, dbVars, envVars>>

\* The lease of a stage-1 job is never renewed.
LeaseOver(t) ==
    /\ job[t].status = "running" /\ job[t].lease
    /\ Slow \/ job[t].owner = Gone
    /\ job' = [job EXCEPT ![t].lease = FALSE]
    /\ UNCHANGED <<threadVars, mode, out, glob, cooling, envVars>>

RetryDue(t) ==
    /\ ~job[t].due
    /\ job' = [job EXCEPT ![t].due = TRUE]
    /\ UNCHANGED <<threadVars, mode, out, glob, cooling, envVars>>

GlobalLeaseOver ==
    /\ glob.status = "running" /\ glob.lease
    /\ Slow \/ glob.owner = Gone
    /\ glob' = [glob EXCEPT !.lease = FALSE]
    /\ late' = late \cup (Worker \cap {glob.owner})
    /\ UNCHANGED <<threadVars, mode, out, job, cooling, spaceVars, pc, claimVars, runVars,
                   faults, stale, missed>>

GlobalRetryDue ==
    /\ ~glob.due
    /\ glob' = [glob EXCEPT !.due = TRUE]
    /\ UNCHANGED <<threadVars, mode, out, job, cooling, envVars>>

\* PHASE2_SUCCESS_COOLDOWN_SECONDS go by.
CooldownOver ==
    /\ cooling
    /\ cooling' = FALSE
    /\ UNCHANGED <<threadVars, mode, out, job, glob, envVars>>

-----------------------------------------------------------------------------
Startup(w) == Start(w) \/ Scan(w) \/ Look(w) \/ Take(w) \/ ScanDone(w)

Extract(w) ==
    \E m \in claims[w] : ExtractSucceeds(w, m) \/ ExtractsNothing(w, m) \/ ExtractFails(w, m)

\* The steps on the workspace.
Arrange(w) ==
    \/ Prepare(w) \/ Prune(w) \/ Sync(w) \/ Diff(w)
    \/ AgentWrites(w) \/ ResetBaseline(w) \/ Commit(w)

Consolidate(w) ==
    \/ LookGlobal(w) \/ ClaimGlobal(w) \/ ReadMark(w) \/ SelectKeys(w) \/ SelectRows(w)
    \/ Arrange(w) \/ ReportSuccess(w) \/ ReportFailure(w)

Work(w) == Startup(w) \/ Extract(w) \/ Consolidate(w)

Pollute(t) == PolluteReads(t) \/ PolluteWrites(t) \/ PolluteBumps(t)

Pass ==
    \/ GlobalLeaseOver \/ GlobalRetryDue \/ CooldownOver
    \/ \E t \in Thread : LeaseOver(t) \/ RetryDue(t)

Next ==
    \/ \E w \in Worker : Work(w) \/ Heartbeat(w) \/ ScanFails(w) \/ Fault(w) \/ Crash(w)
    \/ \E t \in Thread : \/ UserTurn(t) \/ Pollute(t) \/ PolluteCrashes(t)
                       \/ Use(t) \/ Age(t) \/ Expire(t)
    \/ Pass

Spec == Init /\ [][Next]_vars

\* Sessions keep starting and their tasks keep running, and time passes.
FairSpec ==
    /\ Spec
    /\ \A w \in Worker : WF_vars(Work(w) \/ (pc[w] = "confirm" /\ Heartbeat(w)))
    /\ \A t \in Thread : /\ WF_vars(PolluteWrites(t) \/ PolluteBumps(t))
                        /\ WF_vars(LeaseOver(t) \/ RetryDue(t))
    /\ WF_vars(GlobalLeaseOver \/ GlobalRetryDue \/ CooldownOver)

-----------------------------------------------------------------------------
(* Properties.                                                             *)

MemoryTypeOK ==
    /\ updated \in [Thread -> Times] /\ aged \subseteq Thread
    /\ mode \in [Thread -> {"enabled", "picked", "unpicked", "bumping", "polluted"}]
    /\ out \in [Thread -> OutRow \cup {None}]
    /\ job \in [Thread -> Row]
    /\ glob \in Row /\ cooling \in BOOLEAN
    /\ files \subseteq Memory /\ book \subseteq Memory
    /\ base \in Baseline \cup {None}
    /\ stuck \subseteq Memory
    /\ pc \in [Worker -> WorkerPC]
    /\ scan \in [Worker -> SUBSET Memory] /\ claims \in [Worker -> SUBSET Memory]
    /\ mark \in [Worker -> Nat] /\ sel \in [Worker -> SUBSET Memory]
    /\ faults \in 0 .. MaxFault
    /\ late \subseteq Worker /\ stale \subseteq Worker /\ missed \in BOOLEAN

\* The worker may touch the workspace, and kept its lease.
Consolidates(w) == pc[w] \in Phase2 \ {"fail"} /\ w \notin late

\* Of the sessions that consolidate the memories at the same time, at most one has kept
\* its lease: claims, heartbeats, crashes and reports of any number of processes never
\* let two of them write the workspace while neither was late.
OneConsolidator ==
    \A v, w \in Worker : Consolidates(v) /\ Consolidates(w) => v = w

\* A memory that a later turn of the thread gave is not replaced by one of an earlier
\* turn, not even when a worker claims a job on what it read before another finished it.
OutputNeverOlder ==
    [][\A t \in Thread : out[t] # None /\ out'[t] # None => out'[t].src >= out[t].src]_vars

\* An output that an extraction wrote or withdrew after the last consolidation chose its
\* inputs leaves the input watermark above the watermark of that consolidation: the
\* watermarks never say that there is nothing new when there is.
MissedIsVisible == missed => glob.input > glob.success

\* A consolidation that is recorded as a success left the selected memories in the
\* inputs, and no others but those whose removal failed; the handbook was written from
\* exactly these inputs, and the baseline holds both: whatever crash cut an earlier run
\* short between two files, or between the old repository and the new one.
Records(w) == pc[w] = "report" /\ Owns(w, glob) /\ glob'.status = "done"
Consolidated(w) ==
    /\ sel[w] \subseteq files /\ files \subseteq sel[w] \cup stuck
    /\ book = files /\ base = Content
SuccessMeansConsolidated == [][\A w \in Worker : Records(w) => Consolidated(w)]_vars

\* No claim is left to a job whose retries are used up.
Exhausted(r) == r.status # None /\ r.left = 0

\* A thread that turned polluted is forgotten: in the end the handbook has nothing of it
\* and gets nothing of it again, unless the consolidation used up its retries.
PollutedForgotten ==
    \A t \in Thread :
        <>[](Polluted(t) => Exhausted(glob) \/ \A m \in book : m.thread # t)

\* Enough other threads to fill the scan may come before this one.
Beyond(t) ==
    Cardinality({m \in Eligible : m.thread # t /\ m.src >= updated[t]}) >= ScanLimit

\* The last turn of every thread is extracted in the end, or found to hold no memory,
\* except where the code gives the thread up: it is no longer enabled, too old, beyond the
\* limit of the scan, or its job used up its retries.  No limit on a startup's claims, no
\* crash and no stale claim starves it otherwise.
ExtractedInTheEnd ==
    \A t \in Thread :
        <>[](\/ mode[t] # "enabled" \/ t \in aged \/ Beyond(t) \/ Exhausted(job[t])
             \/ job[t].success = updated[t]
             \/ out[t] # None /\ out[t].src = updated[t])
=============================================================================
