-------------------------- MODULE ImportExportJobs --------------------------
(***************************************************************************)
(* Import and export jobs: a row of the import_export_jobs table, entries  *)
(* of a BullMQ queue that name it, requests that create, cancel and retry  *)
(* it (ImportService, ExportService), and workers (ImportProcessor,        *)
(* ExportProcessor), one in every instance of the server.  An import is    *)
(* processed in batches, an export in one go.                              *)
(*                                                                         *)
(* Requests and workers are split at their awaits, and every await of      *)
(* theirs may fail.  Of the counters of a job only processedRecords is     *)
(* kept, in batches.                                                       *)
(***************************************************************************)
EXTENDS Integers, Sequences

CONSTANTS
    Workers, Handlers, Jobs,
    Batches,        \* the batches of a job
    Attempts,       \* how often an entry is tried
    MaxEntries,     \* bound on the entries added to the queue
    MaxFaults,      \* bound on the awaits that fail
    Kinds,          \* what gets as far as a job: an import only if the parser's result
                    \* has a field success, which none of the parsers sets
    NoJob

Terminal == {"COMPLETED", "FAILED", "CANCELLED"}

JobRows ==
    [kind : {"import", "export"}, skipInvalid : BOOLEAN,
     status : {"QUEUED", "PROCESSING"} \cup Terminal, processed : 0 .. Batches]
Entries ==
    [job : Jobs, state : {"waiting", "active", "delayed", "gone"},
     tries : 0 .. Attempts, stored : BOOLEAN]
WorkerStates ==
    [at : {"idle", "start", "load", "insert", "progress", "complete", "cleanUp", "failed"},
     entry : Nat, done : 0 .. Batches]
RequestStates ==
    [at : {"idle", "add", "find", "remove", "cancel", "reset", "addAgain"},
     job : Jobs \cup {NoJob}, entry : Nat]

ASSUME JobsAssumptions ==
    /\ Batches \in Nat \ {0} /\ Attempts \in Nat \ {0}
    /\ MaxEntries \in Nat /\ MaxFaults \in Nat
    /\ Kinds \subseteq {"import", "export"}
    /\ NoJob \notin Jobs /\ NoJob \notin JobRows

VARIABLES
    jobs,       \* the table
    queue,      \* the entries of the queue, in the order they were added
    worker,     \* where each worker is: its entry and its count of batches
    request,    \* where each request handler is, and its job and entry
    faults,     \* the awaits that have failed
    unwritten   \* history: the jobs whose last status nobody is left to write

vars == <<jobs, queue, worker, request, faults, unwritten>>

Idle == [at |-> "idle", entry |-> 0, done |-> 0]
NoRequest == [at |-> "idle", job |-> NoJob, entry |-> 0]

Init ==
    /\ jobs = [j \in Jobs |-> NoJob]
    /\ queue = << >>
    /\ worker = [w \in Workers |-> Idle]
    /\ request = [h \in Handlers |-> NoRequest]
    /\ faults = 0
    /\ unwritten = {}

-----------------------------------------------------------------------------
\* An await fails.
Fault ==
    /\ faults < MaxFaults
    /\ faults' = faults + 1

\* The job that a worker works on.
JobOf(w) == queue[worker[w].entry].job

Work(w, from, to) ==
    /\ worker[w].at = from
    /\ worker' = [worker EXCEPT ![w].at = to]

Serve(h, from, to) ==
    /\ request[h].at = from
    /\ request' = [request EXCEPT ![h] = IF to = "idle" THEN NoRequest ELSE [@ EXCEPT !.at = to]]

-----------------------------------------------------------------------------
\* uploadFile, createExport: the file is checked and the row is created...
Create(h, j, kind, skipInvalid) ==
    /\ request[h].at = "idle"
    /\ jobs[j] = NoJob
    /\ jobs' = [jobs EXCEPT ![j] = [kind |-> kind, skipInvalid |-> skipInvalid,
                                    status |-> "QUEUED", processed |-> 0]]
    /\ request' = [request EXCEPT ![h] = [at |-> "add", job |-> j, entry |-> 0]]
    /\ UNCHANGED <<queue, worker, faults, unwritten>>

NewEntry(j, stored) == [job |-> j, state |-> "waiting", tries |-> Attempts, stored |-> stored]

\* ...and queued, under the key of the stored file.
AddEntry(h) ==
    /\ Len(queue) < MaxEntries
    /\ Serve(h, "add", "idle")
    /\ queue' = Append(queue, NewEntry(request[h].job, TRUE))
    /\ UNCHANGED <<jobs, worker, faults, unwritten>>

\* cancelJob: not a job that has ended.
Cancel(h, j) ==
    /\ jobs[j] # NoJob
    /\ jobs[j].status \notin {"COMPLETED", "FAILED"}
    /\ request[h].at = "idle"
    /\ request' = [request EXCEPT ![h] = [at |-> "find", job |-> j, entry |-> 0]]
    /\ UNCHANGED <<jobs, queue, worker, faults, unwritten>>

\* cancelJob: the first entry that getJobs lists for the job, if any.  getJobs
\* lists waiting, active and delayed entries; BullMQ keeps a waiting entry that
\* has a priority apart, so that one may be missed.
FindEntry(h) ==
    LET Listed(states) == {i \in DOMAIN queue : /\ queue[i].job = request[h].job
                                                /\ queue[i].state \in states}
    IN  /\ request[h].at = "find"
        /\ \/ \E i \in Listed({"waiting", "active", "delayed"}) :
                request' = [request EXCEPT ![h].at = "remove", ![h].entry = i]
           \/ /\ Listed({"active", "delayed"}) = {}
              /\ request' = [request EXCEPT ![h].at = "cancel"]
        /\ UNCHANGED <<jobs, queue, worker, faults, unwritten>>

\* cancelJob: the entry is removed, unless a worker holds its lock: then
\* BullMQ throws and the request ends.
RemoveEntry(h) ==
    LET i == request[h].entry
    IN  /\ request[h].at = "remove"
        /\ IF queue[i].state = "active"
           THEN Serve(h, "remove", "idle") /\ UNCHANGED queue
           ELSE Serve(h, "remove", "cancel") /\ queue' = [queue EXCEPT ![i].state = "gone"]
        /\ UNCHANGED <<jobs, worker, faults, unwritten>>

MarkCancelled(h) ==
    /\ Serve(h, "cancel", "idle")
    /\ jobs' = [jobs EXCEPT ![request[h].job].status = "CANCELLED"]
    /\ UNCHANGED <<queue, worker, faults, unwritten>>

\* retryJob: only a FAILED job.
Retry(h, j) ==
    /\ jobs[j] # NoJob
    /\ jobs[j].status = "FAILED"
    /\ request[h].at = "idle"
    /\ request' = [request EXCEPT ![h] = [at |-> "reset", job |-> j, entry |-> 0]]
    /\ UNCHANGED <<jobs, queue, worker, faults, unwritten>>

\* retryJob: the row starts again...
ResetJob(h) ==
    /\ Serve(h, "reset", "addAgain")
    /\ jobs' = [jobs EXCEPT ![request[h].job].status = "QUEUED",
                            ![request[h].job].processed = 0]
    /\ UNCHANGED <<queue, worker, faults, unwritten>>

\* ...and is queued, an import under the last part of its file's URL: that lacks
\* the folder, so it is not the key under which the file is stored.
AddAgain(h) ==
    /\ Len(queue) < MaxEntries
    /\ Serve(h, "addAgain", "idle")
    /\ queue' = Append(queue, NewEntry(request[h].job, jobs[request[h].job].kind # "import"))
    /\ UNCHANGED <<jobs, worker, faults, unwritten>>

\* An await of a request fails, and the exception is the answer.  When it is
\* cancelJob's write, the entry is gone and the row as it was.
RequestFails(h) ==
    /\ request[h].at # "idle"
    /\ Serve(h, request[h].at, "idle")
    /\ Fault
    /\ unwritten' = IF request[h].at = "cancel" THEN unwritten \cup {request[h].job} ELSE unwritten
    /\ UNCHANGED <<jobs, queue, worker>>

-----------------------------------------------------------------------------
\* BullMQ hands a waiting entry to a worker.
Take(w, i) ==
    /\ i \in DOMAIN queue
    /\ queue[i].state = "waiting"
    /\ worker[w].at = "idle"
    /\ worker' = [worker EXCEPT ![w] = [at |-> "start", entry |-> i, done |-> 0]]
    /\ queue' = [queue EXCEPT ![i].state = "active", ![i].tries = @ - 1]
    /\ UNCHANGED <<jobs, request, faults, unwritten>>

\* process: the job is PROCESSING.
Start(w) ==
    /\ Work(w, "start", "load")
    /\ jobs' = [jobs EXCEPT ![JobOf(w)].status = "PROCESSING"]
    /\ UNCHANGED <<queue, request, faults, unwritten>>

\* process: the file is downloaded, parsed and transformed; an export is
\* fetched, generated and stored.  No file is found under the key of a retry,
\* and an export throws by itself when no record matches its filters.
Load(w) ==
    /\ worker[w].at = "load"
    /\ \E found \in IF jobs[JobOf(w)].kind = "import" THEN {queue[worker[w].entry].stored} ELSE BOOLEAN :
         worker' = [worker EXCEPT ![w] =
                      IF ~found THEN [@ EXCEPT !.at = "failed"]
                      ELSE IF jobs[JobOf(w)].kind = "import" THEN [@ EXCEPT !.at = "insert"]
                      ELSE [@ EXCEPT !.at = "complete", !.done = Batches]]
    /\ UNCHANGED <<jobs, queue, request, faults, unwritten>>

\* insertBatch, which never throws.
InsertBatch(w) ==
    /\ worker[w].at = "insert"
    /\ worker' = [worker EXCEPT ![w].at = "progress", ![w].done = @ + 1]
    /\ UNCHANGED <<jobs, queue, request, faults, unwritten>>

NextBatch(w) == IF worker[w].done < Batches THEN "insert" ELSE "complete"

\* updateProgress
UpdateProgress(w) ==
    /\ Work(w, "progress", NextBatch(w))
    /\ jobs' = [jobs EXCEPT ![JobOf(w)].processed = worker[w].done]
    /\ UNCHANGED <<queue, request, faults, unwritten>>

\* updateProgress fails, before or after its write of the row: with skipInvalid
\* the next batch follows all the same.
ProgressFails(w) ==
    /\ Work(w, "progress", IF jobs[JobOf(w)].skipInvalid THEN NextBatch(w) ELSE "failed")
    /\ Fault
    /\ jobs' \in {jobs, [jobs EXCEPT ![JobOf(w)].processed = worker[w].done]}
    /\ UNCHANGED <<queue, request, unwritten>>

\* Mutant: the final counters are left to updateProgress.
Complete_StatusOnly(w) ==
    /\ Work(w, "complete", "cleanUp")
    /\ jobs' = [jobs EXCEPT ![JobOf(w)].status = "COMPLETED"]
    /\ UNCHANGED <<queue, request, faults, unwritten>>

\* process: the job is COMPLETED.
Complete(w) ==
    /\ Work(w, "complete", "cleanUp")
    /\ jobs' = [jobs EXCEPT ![JobOf(w)].status = "COMPLETED",
                            ![JobOf(w)].processed = worker[w].done]
    /\ UNCHANGED <<queue, request, faults, unwritten>>

\* process: errors are stored, clients told, Redis cleaned up, and the worker
\* is done with the entry.
CleanUp(w) ==
    /\ worker[w].at = "cleanUp"
    /\ queue' = [queue EXCEPT ![worker[w].entry].state = "gone"]
    /\ worker' = [worker EXCEPT ![w] = Idle]
    /\ UNCHANGED <<jobs, request, faults, unwritten>>

\* process: any of these steps throws, even after the job was COMPLETED.
StepFails(w) ==
    /\ worker[w].at \in {"start", "load", "complete", "cleanUp"}
    /\ Work(w, worker[w].at, "failed")
    /\ Fault
    /\ UNCHANGED <<jobs, queue, request, unwritten>>

\* process rethrows: BullMQ will try the entry again, while tries are left.
Rethrow(w) ==
    LET i == worker[w].entry
    IN  /\ queue' = [queue EXCEPT ![i].state = IF queue[i].tries > 0 THEN "delayed" ELSE "gone"]
        /\ worker' = [worker EXCEPT ![w] = Idle]

\* Mutant: the exception is swallowed.
MarkFailed_Swallowed(w) ==
    /\ worker[w].at = "failed"
    /\ queue' = [queue EXCEPT ![worker[w].entry].state = "gone"]
    /\ worker' = [worker EXCEPT ![w] = Idle]
    /\ UNCHANGED <<jobs, request, faults, unwritten>>

\* process: the job is FAILED.
MarkFailed(w) ==
    /\ worker[w].at = "failed"
    /\ jobs' = [jobs EXCEPT ![JobOf(w)].status = "FAILED"]
    /\ Rethrow(w)
    /\ UNCHANGED <<request, faults, unwritten>>

\* process: that write fails too, and on the last attempt nothing follows.
MarkFailedFails(w) ==
    /\ worker[w].at = "failed"
    /\ Fault
    /\ Rethrow(w)
    /\ unwritten' = IF queue[worker[w].entry].tries = 0 THEN unwritten \cup {JobOf(w)} ELSE unwritten
    /\ UNCHANGED <<jobs, request>>

\* The backoff of an entry is over.
Backoff(i) ==
    /\ i \in DOMAIN queue
    /\ queue[i].state = "delayed"
    /\ queue' = [queue EXCEPT ![i].state = "waiting"]
    /\ UNCHANGED <<jobs, worker, request, faults, unwritten>>

-----------------------------------------------------------------------------
\* The steps that follow one another without anyone's asking.
Process(w) ==
    \/ \E i \in 1 .. MaxEntries : Take(w, i)
    \/ Start(w) \/ Load(w) \/ InsertBatch(w) \/ UpdateProgress(w) \/ Complete(w)
    \/ CleanUp(w) \/ MarkFailed(w)

Respond(h) ==
    \/ AddEntry(h) \/ FindEntry(h) \/ RemoveEntry(h) \/ MarkCancelled(h)
    \/ ResetJob(h) \/ AddAgain(h)

Next ==
    \/ \E w \in Workers : Process(w) \/ ProgressFails(w) \/ StepFails(w) \/ MarkFailedFails(w)
    \/ \E h \in Handlers :
        \/ Respond(h) \/ RequestFails(h)
        \/ \E j \in Jobs : \/ Cancel(h, j) \/ Retry(h, j)
                           \/ \E kind \in Kinds, skip \in BOOLEAN :
                                    Create(h, j, kind, skip)
    \/ \E i \in 1 .. MaxEntries : Backoff(i)

Spec == Init /\ [][Next]_vars

\* Workers and requests run on, and a backoff ends.
FairSpec ==
    /\ Spec
    /\ \A w \in Workers : WF_vars(Process(w))
    /\ \A h \in Handlers : WF_vars(Respond(h))
    /\ \A i \in 1 .. MaxEntries : WF_vars(Backoff(i))

-----------------------------------------------------------------------------
\* Rows, entries, workers and requests have their types, an entry is tried at
\* most Attempts times, and a worker holds an active entry of an existing job.
TypeOK ==
    /\ jobs \in [Jobs -> JobRows \cup {NoJob}]
    /\ queue \in Seq(Entries)
    /\ worker \in [Workers -> WorkerStates]
    /\ request \in [Handlers -> RequestStates]
    /\ faults \in Nat /\ unwritten \subseteq Jobs
    /\ \A w \in Workers : worker[w].at # "idle" =>
            /\ worker[w].entry \in DOMAIN queue
            /\ queue[worker[w].entry].state = "active"
            /\ jobs[JobOf(w)] # NoJob

\* A COMPLETED job has had all its batches processed, although two workers may
\* work on it at once (a retry beside a delayed entry), a retry may reset its
\* counters under a worker, and writes of progress may fail.
CompletedProcessedAll ==
    \A j \in Jobs : jobs[j] # NoJob =>
        (jobs[j].status = "COMPLETED" => jobs[j].processed = Batches)

\* A job that is PROCESSING ends, whichever awaits fail, and even if every
\* attempt does, and whoever cancels or retries it meanwhile.  The exceptions
\* are the two writes that nobody repeats: of FAILED after the last attempt,
\* and of CANCELLED after cancelJob has removed the entry.
StartedJobEnds ==
    \A j \in Jobs :
        (jobs[j] # NoJob /\ jobs[j].status = "PROCESSING")
            ~> (j \in unwritten \/ (jobs[j] # NoJob /\ jobs[j].status \in Terminal))

=============================================================================
