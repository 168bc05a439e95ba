---------------------------- MODULE LogDownloads ----------------------------
(***************************************************************************)
(* Log downloads: the Logs page of the Admin UI, or a machine client, asks *)
(* the Controller for a download, a background task fetches the logs into  *)
(* an in-memory table of jobs (log_jobs.py), and the page polls the job    *)
(* until it has ended.                                                     *)
(*                                                                         *)
(* A poll finds the job under the table's lock and reads its fields after  *)
(* the lock is released, while the task may be writing them.  Answers get  *)
(* lost, a restart loses the table, access to a source comes and goes.     *)
(***************************************************************************)
EXTENDS Integers

CONSTANTS
    Pages,       \* Logs pages open in the operator's browsers, by the
                 \* source selected on them
    Sources,     \* apps and system services whose logs can be read
    MaxJobs,     \* bound: downloads started
    LogTtl,      \* _LOG_JOB_TTL_SECS
    MaxWall,     \* bound on the wall clock
    MaxLosses,   \* bound: answers to polls that get lost
    NoLogs       \* no source, no logs

ASSUME LogAssumption ==
    /\ MaxJobs \in Nat /\ LogTtl \in Nat /\ MaxWall \in Nat /\ MaxLosses \in Nat
    /\ NoLogs \notin Sources

VARIABLES
    wall,     \* time.time()
    jobs,     \* every job ever started, by number; those listed are in _log_jobs
    shows,    \* the source each page has selected
    view,     \* the page's download state, in its session
    poll,     \* the status request each page, or a client beside it, has
              \* under way
    may,      \* the sources the operator may read
    losses    \* answers to polls lost so far

logVars == <<wall, jobs, shows, view, poll, may, losses>>

JobIds == 1..MaxJobs
Never == MaxWall + 1
Endings == {"READY", "FAILED"}

\* key: the source the job belongs to, NoLogs before it is started.
\* logs: the source whose logs the job has fetched.
NoJob == [key |-> NoLogs, listed |-> FALSE, status |-> "PENDING", logs |-> NoLogs,
          finished |-> Never, lost |-> FALSE]

\* asked: when the page last asked for an unfinished job.
NoView == [job |-> 0, status |-> "none", logs |-> NoLogs, asked |-> 0]

\* page: the request is the page's own.
NoPoll == [pc |-> "idle", source |-> NoLogs, job |-> 0, status |-> "none",
           logs |-> NoLogs, page |-> FALSE]

LogTypeOK ==
    LET L == Sources \cup {NoLogs}
    IN  /\ wall \in 0..MaxWall
        /\ jobs \in [JobIds -> [key : L, listed : BOOLEAN,
                                status : {"PENDING"} \cup Endings, logs : L,
                                finished : 0..Never, lost : BOOLEAN]]
        /\ shows \in [Pages -> Sources]
        /\ view \in [Pages -> [job : 0..MaxJobs, logs : L, asked : 0..MaxWall,
                               status : {"none", "PENDING"} \cup Endings]]
        /\ poll \in [Pages -> [pc : {"idle", "found", "answered"}, source : L,
                               job : 0..MaxJobs, logs : L, page : BOOLEAN,
                               status : {"none", "PENDING"} \cup Endings]]
        /\ may \in SUBSET Sources
        /\ losses \in 0..MaxLosses

LogInit ==
    /\ wall = 0
    /\ jobs = [j \in JobIds |-> NoJob]
    /\ shows \in [Pages -> Sources]
    /\ view = [p \in Pages |-> NoView]
    /\ poll = [p \in Pages |-> NoPoll]
    /\ may = Sources
    /\ losses = 0

-----------------------------------------------------------------------------
(* The Controller: log_jobs.py.                                            *)

\* Mutant: a job's age counts from the start of the fetch.
StaleUnfinished(job) ==
    job.listed /\ (job.finished = Never \/ wall - job.finished > LogTtl)

\* Only jobs that have ended grow old.
Stale(job) ==
    job.listed /\ job.finished # Never /\ wall - job.finished > LogTtl

\* _start_log_download: stale jobs are dropped whenever one is started.
\* The answer to the page may get lost, which leaves the job without a page.
StartDownload(p) ==
    LET s == shows[p]
    IN  /\ s \in may
        /\ \E j \in JobIds :
               /\ jobs[j].key = NoLogs
               /\ \A i \in 1..(j - 1) : jobs[i].key # NoLogs
               /\ jobs' = [i \in JobIds |->
                              IF i = j THEN [NoJob EXCEPT !.key = s, !.listed = TRUE]
                              ELSE IF Stale(jobs[i])
                              THEN [jobs[i] EXCEPT !.listed = FALSE] ELSE jobs[i]]
               /\ \/ view' = [view EXCEPT ![p] =
                                 [NoView EXCEPT !.job = j, !.status = "PENDING",
                                                !.asked = wall]]
                  \/ view' = view
        /\ UNCHANGED <<wall, shows, poll, may, losses>>

\* What the task writes, in one go.
Outcome(job, ok) ==
    [job EXCEPT !.status = IF ok THEN "READY" ELSE "FAILED",
                !.logs = IF ok THEN job.key ELSE NoLogs,
                !.finished = wall]

\* Mutant: the status is written before the logs, in two steps.
RunStatusFirst(j) ==
    /\ jobs[j].listed
    /\ \/ /\ jobs[j].status = "PENDING"
          /\ \E ok \in BOOLEAN :
                 jobs' = [jobs EXCEPT ![j] = [Outcome(@, ok) EXCEPT !.logs = NoLogs]]
       \/ /\ jobs[j].status = "READY"
          /\ jobs[j].logs = NoLogs
          /\ jobs' = [jobs EXCEPT ![j].logs = jobs[j].key]
    /\ UNCHANGED <<wall, shows, view, poll, may, losses>>

\* _run_log_download: Snowflake answers, or it does not.
RunLogDownload(j) ==
    /\ jobs[j].listed
    /\ jobs[j].status = "PENDING"
    /\ \E ok \in BOOLEAN : jobs' = [jobs EXCEPT ![j] = Outcome(@, ok)]
    /\ UNCHANGED <<wall, shows, view, poll, may, losses>>

\* _get_log_job: a job is found for its own source only.
Known(j, s) == j \in JobIds /\ jobs[j].listed /\ jobs[j].key = s

\* The job is looked up, and its status read; logs and error are read later.
LookUpJob(p, s, j, page) ==
    /\ poll[p].pc = "idle"
    /\ s \in may
    /\ Known(j, s)
    /\ poll' = [poll EXCEPT ![p] =
                   [pc |-> "found", source |-> s, job |-> j,
                    status |-> jobs[j].status, logs |-> NoLogs, page |-> page]]
    /\ UNCHANGED <<wall, jobs, shows, may, losses>>

\* Every three seconds, until the page has an end; a job that is not found
\* is shown as an error, and asked for again.
Poll(p) ==
    /\ view[p].status = "PENDING"
    /\ LookUpJob(p, shows[p], view[p].job, TRUE)
    /\ view' = [view EXCEPT ![p].asked =
                   IF jobs[view[p].job].status = "PENDING" THEN wall ELSE @]

\* A machine client may name any job.  (Its request takes the place of one of
\* a page that has nothing to ask: it changes nothing, and could not be told
\* apart from the page's.)
ClientPoll(p) ==
    /\ view[p].status # "PENDING"
    /\ \E s \in Sources, j \in JobIds : LookUpJob(p, s, j, FALSE)
    /\ UNCHANGED view

ReadLogs(p) ==
    /\ poll[p].pc = "found"
    /\ poll' = [poll EXCEPT ![p].pc = "answered", ![p].logs = jobs[poll[p].job].logs]
    /\ UNCHANGED <<wall, jobs, shows, view, may, losses>>

-----------------------------------------------------------------------------
(* The page: 3_Logs.py.                                                    *)

\* Mutant: only an answer with logs is kept.
AnsweredReadyOnly(p) ==
    /\ poll[p].pc = "answered"
    /\ view' = IF poll[p].page /\ view[p].job = poll[p].job /\ poll[p].status = "READY"
               THEN [view EXCEPT ![p].status = "READY", ![p].logs = poll[p].logs]
               ELSE view
    /\ poll' = [poll EXCEPT ![p] = NoPoll]
    /\ UNCHANGED <<wall, jobs, shows, may, losses>>

\* _download_status: the page keeps what it is answered.  A click on
\* Download in the meantime has cancelled the poll's rerun.
Answered(p) ==
    /\ poll[p].pc = "answered"
    /\ view' = IF poll[p].page /\ view[p].job = poll[p].job
               THEN [view EXCEPT ![p].status = poll[p].status,
                                 ![p].logs = poll[p].logs]
               ELSE view
    /\ poll' = [poll EXCEPT ![p] = NoPoll]
    /\ UNCHANGED <<wall, jobs, shows, may, losses>>

\* The page shows the error and keeps its state.
AnswerLost(p) ==
    /\ poll[p].page
    /\ losses < MaxLosses
    /\ losses' = losses + 1
    /\ poll' = [poll EXCEPT ![p] = NoPoll]
    /\ UNCHANGED <<wall, jobs, shows, view, may>>

\* Grants change, or apps go and come.
Regrant ==
    /\ may' \in SUBSET Sources
    /\ UNCHANGED <<wall, jobs, shows, view, poll, losses>>

-----------------------------------------------------------------------------

TimePasses ==
    /\ wall < MaxWall
    /\ wall' = wall + 1
    /\ UNCHANGED <<jobs, shows, view, poll, may, losses>>

\* A restart of the Controller loses the table, the tasks and the requests.
RestartController ==
    /\ jobs' = [j \in JobIds |-> [jobs[j] EXCEPT
                   !.listed = FALSE, !.lost = jobs[j].lost \/ jobs[j].listed]]
    /\ poll' = [p \in Pages |-> NoPoll]
    /\ UNCHANGED <<wall, shows, view, may, losses>>

LogNext ==
    \/ \E p \in Pages : \/ StartDownload(p) \/ Poll(p) \/ ClientPoll(p)
                        \/ ReadLogs(p) \/ Answered(p) \/ AnswerLost(p)
    \/ \E j \in JobIds : RunLogDownload(j)
    \/ Regrant \/ TimePasses \/ RestartController

\* Tasks end, since statements do; a page that is open keeps polling, and
\* requests are served.
LogFairness ==
    /\ \A j \in JobIds : WF_logVars(RunLogDownload(j))
    /\ \A p \in Pages : WF_logVars(Poll(p)) /\ WF_logVars(ReadLogs(p) \/ Answered(p))

LogSpec == LogInit /\ [][LogNext]_logVars /\ LogFairness

-----------------------------------------------------------------------------
(* Properties.                                                             *)

\* Whoever is answered, or offered a file to save, gets the logs of the
\* source it asked about, and a download that is ready has them: a page asks
\* no more once it is told so.
LogsMatchSource ==
    \A p \in Pages :
        /\ poll[p].pc = "answered" =>
               /\ poll[p].logs \in {NoLogs, poll[p].source}
               /\ poll[p].status = "READY" => poll[p].logs # NoLogs
        /\ view[p].status = "READY" => view[p].logs = shows[p]

\* A page loses its job to a restart, or because it has not asked for it
\* for the lifetime of a finished job: never while the job is running or
\* when it has just ended.
PollingKeepsJob ==
    \A p \in Pages :
        LET job == jobs[view[p].job]
        IN  view[p].status = "PENDING" /\ ~job.listed /\ ~job.lost =>
                wall - view[p].asked > LogTtl

\* A page that waits for a download is told its end, unless the operator may
\* no longer read the source or the job is lost.
DownloadEnds ==
    \A p \in Pages :
        view[p].status = "PENDING" ~>
            \/ view[p].status # "PENDING"
            \/ shows[p] \notin may
            \/ ~jobs[view[p].job].listed
=============================================================================
