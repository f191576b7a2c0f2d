-------------------------- MODULE AnalysisSessions --------------------------
(***************************************************************************)
(* Uploads and analyses (api/jobs.py, api/main.py, api/persistence.py): a  *)
(* request leaves a job for a pool of two threads, the job writes the      *)
(* files and the row of its session, a poll of the browser may declare it  *)
(* dead, retention removes the files of old sessions, a user may delete a  *)
(* session, and the server may die at any point.                           *)
(*                                                                         *)
(* Every call of the store is one SQLite transaction or one file           *)
(* operation, hence a step of its own; nothing spans two of them.  An      *)
(* analysis is named by the job that made it; the frames that the process  *)
(* keeps in memory are left out.                                           *)
(***************************************************************************)
EXTENDS Naturals, Sequences, FiniteSets, SequencesExt

CONSTANTS
    Sessions,
    Analysed,       \* the sessions that are analysed when the model begins
    Workers,        \* threads of the pool
    RawDays,        \* the retention policy: age at which the raw file goes,
    HeavyDays,      \* the heavy files go,
    DeleteDays,     \* the session goes, 0 for never
    MaxAge,         \* bound: the largest age told apart
    MaxJobs,        \* bound: jobs submitted
    MaxServerDeaths      \* bound: deaths of the server

ASSUME SessionsAssumption ==
    /\ IsFiniteSet(Sessions)
    /\ Analysed \subseteq Sessions
    /\ Workers \in Nat \ {0}
    /\ {RawDays, HeavyDays, DeleteDays, MaxAge, MaxJobs, MaxServerDeaths} \subseteq Nat

Job == 1..MaxJobs
None == 0
Earlier == MaxJobs + 1          \* the analysis a session begins with
Version == {None, Earlier} \cup Job
Unfinished == {"queued", "running"}
Final == {"done", "error"}

VARIABLES
    recent,     \* the sessions with a row, by last_opened_at or created_at
    columns,    \* sessions whose columns_json is set
    analysis,   \* session -> the job that made its analysis_json
    archived,   \* sessions with archived_at
    raw,        \* sessions with raw.pkl
    clean,      \* sessions with clean.parquet
    bundle,     \* sessions with bundle.pkl
    folder,     \* sessions with a directory
    job,        \* the row of a job: status, kind, session
    queue,      \* jobs waiting for a thread of the pool
    at,         \* job -> the step its thread is at
    lost,       \* jobs whose end could be written by no one: it was only logged
    doomed,     \* sessions whose row delete_session has removed, and not yet the files
    daysOld,        \* session -> whole days since created_at
    pruner,     \* the run of retention: the sessions it keeps, those ahead, the one at hand
    up,         \* the server runs
    serverDeaths

rows == <<recent, columns, analysis, archived>>
files == <<raw, clean, bundle, folder>>
jobs == <<job, queue, at, lost>>
world == <<daysOld, up, serverDeaths>>
sessionVars == <<rows, files, jobs, doomed, pruner, world>>

Rows == ToSet(recent)
NoRun == [keep |-> {}, todo |-> {}, hand |-> {}, away |-> {}, busy |-> FALSE]
NoJob == [status |-> "none", kind |-> "none", session |-> {}]
Submitted == {j \in Job : job[j].status # "none"}
SessionOf(j) == CHOOSE s \in Sessions : job[j].session = {s}
Working == {j \in Job : at[j] \notin {"none", "queued", "over"}}

SessionInit ==
    /\ recent = SetToSeq(Analysed)
    /\ columns = Analysed /\ folder = Analysed
    /\ raw = Analysed /\ clean = Analysed /\ bundle = Analysed
    /\ analysis = [s \in Sessions |-> IF s \in Analysed THEN Earlier ELSE None]
    /\ archived = {}
    /\ job = [j \in Job |-> NoJob]
    /\ queue = <<>> /\ lost = {}
    /\ at = [j \in Job |-> "none"]
    /\ daysOld = [s \in Sessions |-> 0]
    /\ doomed = {} /\ pruner = NoRun
    /\ up = TRUE /\ serverDeaths = 0

(* latest_session_with_analysis. *)
Latest ==
    LET shown == {i \in DOMAIN recent : analysis[recent[i]] # None} IN
    {recent[i] : i \in {k \in shown : \A j \in shown : j <= k}}

(* _busy_sessions: a job of theirs waits or runs. *)
Busy == UNION {job[j].session : j \in {i \in Job : job[i].status \in Unfinished}}

(* update_job: the status is written whatever it was. *)
Update(j, s) == job' = [job EXCEPT ![j].status = s]

-----------------------------------------------------------------------------
(* submit_job: the row of the job, then its place in the queue of the pool. *)
Submit(kind, s) ==
    \E j \in Job :
        /\ j \notin Submitted /\ j - 1 \in Submitted \cup {0}
        /\ at[j] = "none"
        /\ job' = [job EXCEPT ![j] = [status |-> "queued", kind |-> kind, session |-> {s}]]
        /\ queue' = Append(queue, j)
        /\ at' = [at EXCEPT ![j] = "queued"]
        /\ UNCHANGED lost

(* upload: a session of its own, and the job that reads the file. *)
Upload(s) ==
    /\ up /\ s \notin folder /\ s \notin Rows /\ \A j \in Submitted : job[j].session # {s}
    /\ recent' = Append(recent, s)
    /\ folder' = folder \cup {s}
    /\ Submit("upload", s)
    /\ UNCHANGED <<columns, analysis, archived, raw, clean, bundle, doomed, pruner, world>>

(* analyze: only for a session whose columns are known. *)
Analyze(s) ==
    /\ up /\ s \in Rows /\ s \in columns
    /\ Submit("analyze", s)
    /\ UNCHANGED <<rows, files, doomed, pruner, world>>

FirstStep == [upload |-> "raw", analyze |-> "load"]

(* The last resort of _run, its finally: a final status is left alone, any   *)
(* other becomes an error; when that cannot be written either, it is logged. *)
LastResort(j) ==
    \/ job[j].status \in Final /\ UNCHANGED <<job, lost>>
    \/ Update(j, "error") /\ UNCHANGED lost
    \/ job[j].status \in Unfinished /\ lost' = lost \cup {j} /\ UNCHANGED job

(* A free thread takes the job that waits longest; when its first write      *)
(* fails, the job is over before it began.                                   *)
StartWork ==
    /\ up /\ queue # <<>> /\ Cardinality(Working) < Workers
    /\ LET j == Head(queue) IN
        \/ /\ at' = [at EXCEPT ![j] = FirstStep[job[j].kind]]
           /\ Update(j, "running") /\ UNCHANGED lost
        \/ at' = [at EXCEPT ![j] = "over"] /\ LastResort(j)
    /\ queue' = Tail(queue)
    /\ UNCHANGED <<rows, files, doomed, pruner, world>>

Goto(j, from, to) ==
    /\ up /\ at[j] = from
    /\ at' = [at EXCEPT ![j] = to]
    /\ UNCHANGED <<queue, doomed, pruner, world>>

(* The job raises: whatever it has written stays, and the handler writes the *)
(* error, or the last resort does.                                           *)
GiveUp(j) ==
    /\ at[j] \in {"raw", "columns", "load", "clean", "bundle", "publish"}
    /\ Goto(j, at[j], "over")
    /\ \/ Update(j, "error") /\ UNCHANGED lost
       \/ LastResort(j)
    /\ UNCHANGED <<rows, files>>

(* The steps of an upload: read and keep the file, describe its columns. *)
SaveRaw(j) ==
    /\ Goto(j, "raw", "columns")
    /\ SessionOf(j) \in folder
    /\ raw' = raw \cup {SessionOf(j)}
    /\ Update(j, "running")
    /\ UNCHANGED <<rows, clean, bundle, folder, lost>>

SetColumns(j) ==
    /\ Goto(j, "columns", "end")
    /\ columns' = columns \cup ({SessionOf(j)} \cap Rows)
    /\ UNCHANGED <<recent, analysis, archived, files, job, lost>>

(* The steps of an analysis: load, compute, save, publish. *)
LoadRaw(j) ==
    /\ Goto(j, "load", "clean")
    /\ SessionOf(j) \in raw
    /\ Update(j, "running")
    /\ UNCHANGED <<rows, files, lost>>

(* Mistake: nothing notices that the directory is gone. *)
NoFolderMistake(j) ==
    /\ Goto(j, "clean", "bundle")
    /\ clean' = clean \cup {SessionOf(j)}
    /\ UNCHANGED <<rows, raw, bundle, folder, job, lost>>

SaveClean(j) ==
    /\ Goto(j, "clean", "bundle")
    /\ SessionOf(j) \in folder
    /\ clean' = clean \cup {SessionOf(j)}
    /\ UNCHANGED <<rows, raw, bundle, folder, job, lost>>

SaveBundle(j) ==
    /\ Goto(j, "bundle", "publish")
    /\ SessionOf(j) \in folder
    /\ bundle' = bundle \cup {SessionOf(j)}
    /\ Update(j, "running")
    /\ UNCHANGED <<rows, raw, clean, folder, lost>>

(* set_analysis: "a fresh analysis: the heavy files are there again". *)
SetAnalysis(j) ==
    /\ Goto(j, "publish", "end")
    /\ SessionOf(j) \in Rows
    /\ analysis' = [analysis EXCEPT ![SessionOf(j)] = j]
    /\ archived' = archived \ {SessionOf(j)}
    /\ UNCHANGED <<recent, columns, files, job, lost>>

(* Mistake: no last resort when the end could not be written. *)
NoLastResortMistake(j) == (Update(j, "done") \/ UNCHANGED job) /\ UNCHANGED lost

(* The end of _run: done; or, when that could not be written, the handler's  *)
(* error; or, when that could not be written either, the last resort.        *)
Conclude(j) ==
    \/ Update(j, "done") /\ UNCHANGED lost
    \/ Update(j, "error") /\ UNCHANGED lost
    \/ LastResort(j)

EndWork(j) == Goto(j, "end", "over") /\ Conclude(j) /\ UNCHANGED <<rows, files>>

-----------------------------------------------------------------------------
(* Mistake: the watchdog strikes whatever the status has become meanwhile.   *)
UnguardedMistake(j) == job[j].status # "none"

(* mark_stale_job: the condition is part of the UPDATE. *)
Stale(j) == job[j].status \in Unfinished

(* job_status: a poll has read a row without a sign of life for long; the    *)
(* model lets any job seem so, at any moment.                                *)
Poll(j) ==
    /\ up /\ Stale(j)
    /\ Update(j, "error")
    /\ lost' = lost \ {j}
    /\ UNCHANGED <<rows, files, queue, at, doomed, pruner, world>>

(* The other rows, in their order. *)
Without(s) ==
    IF s \in Rows THEN RemoveAt(recent, CHOOSE i \in DOMAIN recent : recent[i] = s) ELSE recent

(* session_info of an analysed session: touch_opened. *)
OpenSession(s) ==
    /\ up /\ s \in Rows /\ analysis[s] # None /\ Last(recent) # s
    /\ recent' = Append(Without(s), s)
    /\ UNCHANGED <<columns, analysis, archived, files, jobs, doomed, pruner, world>>

Forget(s) ==
    /\ recent' = Without(s)
    /\ columns' = columns \ {s} /\ archived' = archived \ {s}
    /\ analysis' = [analysis EXCEPT ![s] = None]
    /\ daysOld' = [daysOld EXCEPT ![s] = 0]

(* delete_session, on behalf of a user or of retention: the row, then the    *)
(* directory.                                                                *)
DeleteRow(s) ==
    /\ up /\ s \in Rows
    /\ Forget(s)
    /\ doomed' = doomed \cup {s}
    /\ UNCHANGED <<files, jobs, pruner, up, serverDeaths>>

DeleteFolder(s) ==
    /\ up /\ s \in doomed
    /\ raw' = raw \ {s} /\ folder' = folder \ {s}
    /\ clean' = clean \ {s} /\ bundle' = bundle \ {s}
    /\ doomed' = doomed \ {s}
    /\ pruner' = [pruner EXCEPT !.hand = @ \ {s}]
    /\ UNCHANGED <<rows, jobs, world>>

-----------------------------------------------------------------------------
Past(s, days) == days > 0 /\ daysOld[s] >= days

(* run_retention: what it keeps and what it looks at are read once. *)
PruneStart ==
    /\ up /\ pruner = NoRun
    /\ pruner' = [keep |-> Latest \cup Busy, todo |-> Rows, hand |-> {},
                 away |-> archived, busy |-> TRUE]
    /\ UNCHANGED <<rows, files, jobs, doomed, world>>

Take(s) ==
    /\ up /\ pruner.hand = {} /\ s \in pruner.todo
    /\ UNCHANGED <<jobs, up, serverDeaths>>

PruneWhole(s) ==
    /\ Take(s) /\ s \notin pruner.keep /\ Past(s, DeleteDays)
    /\ Forget(s)
    /\ doomed' = doomed \cup {s}
    /\ pruner' = [pruner EXCEPT !.todo = @ \ {s}, !.hand = {s}]
    /\ UNCHANGED files

(* The files first ... *)
PruneFiles(s) ==
    /\ Take(s) /\ (s \in pruner.keep \/ ~Past(s, DeleteDays))
    /\ LET old == s \notin pruner.keep /\ Past(s, RawDays) /\ s \in raw
           heavy == /\ s \notin pruner.keep /\ Past(s, HeavyDays) /\ s \notin pruner.away
                    /\ s \in clean \cup bundle IN
        /\ raw' = IF old THEN raw \ {s} ELSE raw
        /\ clean' = IF heavy THEN clean \ {s} ELSE clean
        /\ bundle' = IF heavy THEN bundle \ {s} ELSE bundle
        /\ pruner' = [pruner EXCEPT !.todo = @ \ {s}, !.hand = IF heavy THEN {s} ELSE {}]
    /\ UNCHANGED <<rows, folder, doomed, daysOld>>

(* ... then the mark. *)
PruneMark ==
    /\ up /\ pruner.hand # {} /\ pruner.hand \cap doomed = {}
    /\ archived' = archived \cup (pruner.hand \cap Rows)
    /\ pruner' = [pruner EXCEPT !.hand = {}]
    /\ UNCHANGED <<recent, columns, analysis, files, jobs, doomed, world>>

PruneEnd ==
    /\ up /\ pruner.busy /\ pruner.todo = {} /\ pruner.hand = {}
    /\ pruner' = NoRun
    /\ UNCHANGED <<rows, files, jobs, doomed, world>>

-----------------------------------------------------------------------------
(* The process dies: threads, queue and memory are gone. *)
Die ==
    /\ up /\ serverDeaths < MaxServerDeaths
    /\ up' = FALSE /\ serverDeaths' = serverDeaths + 1
    /\ queue' = <<>>
    /\ at' = [j \in Job |-> IF at[j] = "none" THEN "none" ELSE "over"]
    /\ lost' = {} /\ doomed' = {} /\ pruner' = NoRun
    /\ UNCHANGED <<rows, files, job, daysOld>>

(* Mistake: a job that only waited is forgotten. *)
RunningOnlyMistake(j) == job[j].status = "running"

Abandoned(j) == job[j].status \in Unfinished

(* lifespan: recover_stale_jobs; retention follows as any other run of it. *)
ComeBack ==
    /\ ~up /\ up' = TRUE
    /\ job' = [j \in Job |-> IF Abandoned(j) THEN [job[j] EXCEPT !.status = "error"] ELSE job[j]]
    /\ UNCHANGED <<rows, files, queue, at, lost, doomed, pruner, daysOld, serverDeaths>>

(* A run of retention is over within a day. *)
NewDay ==
    /\ up /\ pruner = NoRun /\ \E s \in Rows : daysOld[s] < MaxAge
    /\ daysOld' = [s \in Sessions |-> IF s \in Rows /\ daysOld[s] < MaxAge THEN daysOld[s] + 1 ELSE daysOld[s]]
    /\ UNCHANGED <<rows, files, jobs, doomed, pruner, up, serverDeaths>>

Step(j) ==
    \/ SaveRaw(j) \/ SetColumns(j)
    \/ LoadRaw(j) \/ SaveClean(j) \/ SaveBundle(j) \/ SetAnalysis(j)
    \/ GiveUp(j) \/ EndWork(j)

Request(s) ==
    \/ Upload(s) \/ Analyze(s) \/ OpenSession(s)
    \/ DeleteRow(s) \/ DeleteFolder(s)

RetentionRun == PruneStart \/ (\E s \in Sessions : PruneWhole(s) \/ PruneFiles(s)) \/ PruneMark \/ PruneEnd

SessionNext ==
    \/ \E s \in Sessions : Request(s)
    \/ StartWork
    \/ \E j \in Job : Step(j) \/ Poll(j)
    \/ RetentionRun
    \/ Die \/ ComeBack \/ NewDay

SessionSpec == SessionInit /\ [][SessionNext]_sessionVars

(* Threads of the pool make progress, and a dead server is started again. *)
SessionFairness ==
    /\ WF_sessionVars(StartWork)
    /\ \A j \in Job : WF_sessionVars(Step(j))
    /\ WF_sessionVars(ComeBack)

FairSessions == SessionSpec /\ SessionFairness

-----------------------------------------------------------------------------
(* Types of rows, files, jobs and of what the processes remember. *)
SessionTypeOK ==
    /\ Rows \subseteq Sessions /\ IsInjective(recent)
    /\ columns \subseteq Rows /\ archived \subseteq Rows
    /\ raw \subseteq folder /\ folder \subseteq Sessions
    /\ clean \cup bundle \subseteq folder /\ analysis \in [Sessions -> Version]
    /\ \A j \in Job : job[j].status \in {"none"} \cup Unfinished \cup Final
    /\ ToSet(queue) \subseteq Job /\ lost \subseteq Job
    /\ pruner.keep \subseteq Sessions /\ pruner.todo \subseteq Sessions

(* Nobody waits for a job that nobody works on: while the server runs, an    *)
(* unfinished row of a job has a thread or a place in the queue, whatever    *)
(* raised, died or was declared dead before, unless the start, the result,   *)
(* the handler's error and the last resort all failed to be written.         *)
NoOrphanedJob ==
    up => \A j \in Job \ lost : job[j].status \in Unfinished => at[j] \notin {"none", "over"}

(* "No path, not even a failure to record the failure, may leave the job     *)
(* unfinished" (_run). Refuted: the last resort is a write like the others.  *)
NoPathLeavesUnfinished ==
    up => \A j \in Job : at[j] = "over" => job[j].status \notin Unfinished

(* The result of a job stands: a poll that read the row before the job's end, *)
(* and a start after a crash, leave it alone.                                *)
DoneStands ==
    [][\A j \in Job : job[j].status = "done" => job'[j].status = "done"]_sessionVars

(* Every job comes to an end the browser can see, across deaths of the       *)
(* server, deletion of the session and the watchdog's verdicts, unless no    *)
(* end of it could be written: then a poll or the next start ends it.        *)
JobsConclude ==
    \A j \in Job : job[j].status = "queued" ~> (job[j].status \in Final \/ j \in lost)

-----------------------------------------------------------------------------
(* "A fresh analysis: the heavy files are there again": a session whose      *)
(* newest analysis was made since the model began has its files or is        *)
(* archived, when no job of it and no retention is under way.                *)
FreshAnalysisHasFiles ==
    \A s \in Rows :
        analysis[s] \in Job /\ pruner = NoRun /\ s \notin Busy /\ s \notin archived
            => s \in clean \cap bundle
=============================================================================
