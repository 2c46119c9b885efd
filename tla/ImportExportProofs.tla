-------------------------- MODULE ImportExportProofs --------------------------
(***************************************************************************)
(* Proofs about ImportExportJobs, for any number of workers, requests and  *)
(* jobs, any number of batches and attempts, and any number of failures:   *)
(* types, and that a COMPLETED job has had all its batches processed.      *)
(***************************************************************************)
EXTENDS ImportExportJobs, SequenceTheorems, TLAPS

\* An entry under whose key the file of an import is stored: the first one.
Original(js, q, i) == q[i].stored /\ js[q[i].job].kind = "import"

\* What a worker that is at a step knows.  Only the original entry of an import
\* gets as far as its batches, and meanwhile nobody else completes the job.
WorkerGood(js, q, s) ==
    /\ s \in WorkerStates
    /\ s.at # "idle" =>
         /\ s.entry \in DOMAIN q
         /\ q[s.entry].state = "active"
         /\ s.at \in {"start", "load"} => s.done = 0
         /\ s.at = "load" /\ Original(js, q, s.entry) => js[q[s.entry].job].status # "COMPLETED"
         /\ s.at \in {"insert", "progress"} =>
              /\ Original(js, q, s.entry)
              /\ js[q[s.entry].job].status # "COMPLETED"
         /\ s.at = "insert" => s.done < Batches
         /\ s.at \in {"complete", "cleanUp"} => s.done = Batches
         /\ s.at = "complete" /\ js[q[s.entry].job].kind = "import" => q[s.entry].stored

\* What a request knows: an existing job, an entry of the queue to remove, and
\* a job to add for the first time.
RequestGood(js, q, r) ==
    /\ r \in RequestStates
    /\ r.at # "idle" => r.job \in Jobs /\ js[r.job] # NoJob
    /\ r.at = "remove" => r.entry \in DOMAIN q
    /\ r.at = "add" => \A i \in DOMAIN q : Original(js, q, i) => q[i].job # r.job

EntriesOK ==
    /\ queue \in Seq(Entries)
    /\ \A i \in DOMAIN queue :
         /\ jobs[queue[i].job] # NoJob
         /\ queue[i].state \in {"waiting", "delayed"} => queue[i].tries > 0

WorkersOK ==
    /\ worker \in [Workers -> WorkerStates]
    /\ \A w \in Workers : WorkerGood(jobs, queue, worker[w])

RequestsOK ==
    /\ request \in [Handlers -> RequestStates]
    /\ \A h \in Handlers : RequestGood(jobs, queue, request[h])

RowsOK ==
    /\ jobs \in [Jobs -> JobRows \cup {NoJob}]
    /\ CompletedProcessedAll

\* A worker holds its entry alone.
OneHolder ==
    \A v, w \in Workers :
        worker[v].at # "idle" /\ worker[w].at # "idle" /\ worker[v].entry = worker[w].entry => v = w

\* An import has one original entry, which one request adds.
OneOriginal ==
    /\ \A i, k \in DOMAIN queue :
         Original(jobs, queue, i) /\ Original(jobs, queue, k) /\ queue[i].job = queue[k].job => i = k
    /\ \A g, h \in Handlers :
         request[g].at = "add" /\ request[h].at = "add" /\ request[g].job = request[h].job => g = h

\* The inductive invariant.
JobsInv == RowsOK /\ EntriesOK /\ WorkersOK /\ RequestsOK /\ OneHolder /\ OneOriginal /\ faults \in Nat

\* What any step keeps of the table: rows stay, and keep their kind...
RowsKept ==
    /\ RowsOK'
    /\ \A j \in Jobs : jobs[j] # NoJob => jobs'[j] # NoJob /\ jobs'[j].kind = jobs[j].kind

\* ...and of the queue: entries stay, with their job and their key.
QueueKept ==
    /\ queue' \in Seq(Entries)
    /\ DOMAIN queue \subseteq DOMAIN queue'
    /\ \A i \in DOMAIN queue : queue'[i].job = queue[i].job /\ queue'[i].stored = queue[i].stored

\* The status that a worker relies on stays, and so does the entry's state.
ReliedOn(s) ==
    /\ queue'[s.entry].state = queue[s.entry].state
    /\ s.at \in {"load", "insert", "progress"} /\ Original(jobs, queue, s.entry) =>
         (jobs[queue[s.entry].job].status # "COMPLETED" => jobs'[queue[s.entry].job].status # "COMPLETED")

-----------------------------------------------------------------------------
(***************************************************************************)
(* What steps keep, whatever action they are of.                           *)
(***************************************************************************)

\* Entries are of jobs.
LEMMA EntryFacts ==
    ASSUME EntriesOK, NEW i \in DOMAIN queue
    PROVE  /\ queue[i] \in Entries /\ queue[i].job \in Jobs /\ jobs[queue[i].job] # NoJob
           /\ i \in 1 .. Len(queue) /\ Len(queue) \in Nat
<1>1. queue \in Seq(Entries)
  BY DEF EntriesOK
<1>2. queue[i] \in Entries /\ i \in 1 .. Len(queue) /\ Len(queue) \in Nat
  BY <1>1
<1>3. QED
  BY <1>2 DEF EntriesOK, Entries

\* An entry is original, or not, for ever.
LEMMA OriginalKept ==
    ASSUME EntriesOK, RowsKept, QueueKept, NEW i \in DOMAIN queue
    PROVE  /\ i \in DOMAIN queue'
           /\ Original(jobs', queue', i) <=> Original(jobs, queue, i)
           /\ jobs'[queue'[i].job].kind = jobs[queue[i].job].kind
<1>1. queue[i].job \in Jobs /\ jobs[queue[i].job] # NoJob
  BY EntryFacts
<1>2. QED
  BY <1>1 DEF RowsKept, QueueKept, Original

\* A worker that others do not interfere with.
LEMMA WorkerKept ==
    ASSUME EntriesOK, RowsKept, QueueKept, NEW s, WorkerGood(jobs, queue, s),
           s.at # "idle" => ReliedOn(s)
    PROVE  WorkerGood(jobs', queue', s)
<1>1. CASE s.at = "idle"
  BY <1>1 DEF WorkerGood
<1>2. CASE s.at # "idle"
  <2>1. s.entry \in DOMAIN queue
    BY <1>2 DEF WorkerGood
  <2>2. /\ s.entry \in DOMAIN queue'
        /\ Original(jobs', queue', s.entry) <=> Original(jobs, queue, s.entry)
        /\ jobs'[queue'[s.entry].job].kind = jobs[queue[s.entry].job].kind
        /\ queue'[s.entry].job = queue[s.entry].job
        /\ queue'[s.entry].stored = queue[s.entry].stored
    BY <2>1, OriginalKept DEF QueueKept
  <2>3. QED
    BY <1>2, <2>1, <2>2 DEF WorkerGood, ReliedOn
<1>3. QED
  BY <1>1, <1>2

\* A request that knows an existing job, while no original entry is added.
LEMMA RequestKept ==
    ASSUME EntriesOK, RowsKept, QueueKept, NEW r, RequestGood(jobs, queue, r),
           r.at = "add" => \A i \in DOMAIN queue' \ DOMAIN queue :
                             Original(jobs', queue', i) => queue'[i].job # r.job
    PROVE  RequestGood(jobs', queue', r)
<1>1. r.at # "idle" => r.job \in Jobs /\ jobs'[r.job] # NoJob
  BY DEF RequestGood, RowsKept
<1>2. r.at = "remove" => r.entry \in DOMAIN queue'
  BY DEF RequestGood, QueueKept
<1>3. ASSUME r.at = "add", NEW i \in DOMAIN queue', Original(jobs', queue', i)
      PROVE  queue'[i].job # r.job
  <2>1. CASE i \in DOMAIN queue
    BY <1>3, <2>1, OriginalKept DEF RequestGood, QueueKept
  <2>2. CASE i \notin DOMAIN queue
    BY <1>3, <2>2
  <2>3. QED
    BY <2>1, <2>2
<1>4. QED
  BY <1>1, <1>2, <1>3 DEF RequestGood

\* The queue keeps its length, and each entry its job and key.
SameEntries ==
    /\ queue' \in Seq(Entries)
    /\ DOMAIN queue' = DOMAIN queue
    /\ \A i \in DOMAIN queue :
         /\ queue'[i].job = queue[i].job /\ queue'[i].stored = queue[i].stored
         /\ queue'[i].state \in {"waiting", "delayed"} => queue'[i].tries > 0

\* A step of a worker: the other workers rely on what it leaves alone.
LEMMA WorkerStep ==
    ASSUME JobsInv, NEW w \in Workers, NEW s, worker' = [worker EXCEPT ![w] = s],
           UNCHANGED request, faults' \in Nat, RowsKept, SameEntries,
           WorkerGood(jobs', queue', s),
           \A v \in Workers \ {w} : worker[v].at # "idle" =>
              ReliedOn(worker[v]) /\ (s.at # "idle" => s.entry # worker[v].entry)
    PROVE  JobsInv'
<1>0. RowsOK /\ EntriesOK /\ WorkersOK /\ RequestsOK /\ OneHolder /\ OneOriginal
  BY DEF JobsInv
<1>1. QueueKept
  BY DEF SameEntries, QueueKept
<1>2. EntriesOK'
  <2>1. ASSUME NEW i \in DOMAIN queue
        PROVE  jobs'[queue'[i].job] # NoJob
    BY <1>0, EntryFacts DEF SameEntries, RowsKept
  <2>2. QED
    BY <2>1 DEF SameEntries, EntriesOK
<1>3. \A v \in Workers : worker'[v] = IF v = w THEN s ELSE worker[v]
  BY <1>0 DEF WorkersOK
<1>4. WorkersOK'
  <2>1. s \in WorkerStates
    BY DEF WorkerGood
  <2>2. worker' \in [Workers -> WorkerStates]
    BY <1>0, <2>1 DEF WorkersOK
  <2>3. ASSUME NEW v \in Workers PROVE WorkerGood(jobs', queue', worker'[v])
    <3>1. CASE v = w
      BY <1>3, <3>1
    <3>2. CASE v # w
      <4>1. WorkerGood(jobs, queue, worker[v]) /\ (worker[v].at # "idle" => ReliedOn(worker[v]))
        BY <1>0, <3>2 DEF WorkersOK
      <4>2. WorkerGood(jobs', queue', worker[v])
        BY <1>0, <1>1, <4>1, WorkerKept
      <4>3. QED
        BY <1>3, <3>2, <4>2
    <3>3. QED
      BY <3>1, <3>2
  <2>4. QED
    BY <2>2, <2>3 DEF WorkersOK
<1>5. RequestsOK'
  <2>1. ASSUME NEW h \in Handlers PROVE RequestGood(jobs', queue', request[h])
    BY <1>0, <1>1, RequestKept DEF RequestsOK, SameEntries
  <2>2. QED
    BY <1>0, <2>1 DEF RequestsOK
<1>6. OneHolder'
  BY <1>0, <1>3 DEF OneHolder
<1>7. OneOriginal'
  BY <1>0, <1>1, OriginalKept DEF OneOriginal, SameEntries
<1>8. QED
  BY <1>2, <1>4, <1>5, <1>6, <1>7 DEF JobsInv, RowsKept

\* A step of a request, or of time, that adds no entry.
LEMMA RequestStep ==
    ASSUME JobsInv, UNCHANGED worker, faults' \in Nat, RowsKept, SameEntries,
           RequestsOK',
           \A g, h \in Handlers :
             request'[g].at = "add" /\ request'[h].at = "add" /\ request'[g].job = request'[h].job => g = h,
           \A v \in Workers : worker[v].at # "idle" => ReliedOn(worker[v])
    PROVE  JobsInv'
<1>0. RowsOK /\ EntriesOK /\ WorkersOK /\ RequestsOK /\ OneHolder /\ OneOriginal
  BY DEF JobsInv
<1>1. QueueKept
  BY DEF SameEntries, QueueKept
<1>2. EntriesOK'
  <2>1. ASSUME NEW i \in DOMAIN queue
        PROVE  jobs'[queue'[i].job] # NoJob
    BY <1>0, EntryFacts DEF SameEntries, RowsKept
  <2>2. QED
    BY <2>1 DEF SameEntries, EntriesOK
<1>3. WorkersOK'
  <2>1. ASSUME NEW v \in Workers PROVE WorkerGood(jobs', queue', worker[v])
    BY <1>0, <1>1, WorkerKept DEF WorkersOK
  <2>2. QED
    BY <1>0, <2>1 DEF WorkersOK
<1>4. OneHolder'
  BY <1>0 DEF OneHolder
<1>5. OneOriginal'
  BY <1>0, <1>1, OriginalKept DEF OneOriginal, SameEntries
<1>6. QED
  BY <1>2, <1>3, <1>4, <1>5 DEF JobsInv, RowsKept

\* A row is written: not its kind, and COMPLETED only with all its batches.
LEMMA RowWritten ==
    ASSUME RowsOK, NEW j \in Jobs, jobs[j] # NoJob, NEW r \in JobRows,
           jobs' = [jobs EXCEPT ![j] = r], r.kind = jobs[j].kind,
           r.status = "COMPLETED" => r.processed = Batches
    PROVE  RowsKept /\ \A k \in Jobs : jobs'[k] = IF k = j THEN r ELSE jobs[k]
<1>1. jobs \in [Jobs -> JobRows \cup {NoJob}] /\ r # NoJob
  BY JobsAssumptions DEF RowsOK
<1>2. \A k \in Jobs : jobs'[k] = IF k = j THEN r ELSE jobs[k]
  BY <1>1
<1>3. jobs' \in [Jobs -> JobRows \cup {NoJob}]
  BY <1>1
<1>4. CompletedProcessedAll'
  BY <1>2 DEF RowsOK, CompletedProcessedAll
<1>5. QED
  BY <1>1, <1>2, <1>3, <1>4 DEF RowsKept, RowsOK

\* The values of a row's columns.
Statuses == {"QUEUED", "PROCESSING"} \cup Terminal
Counts == 0 .. Batches

\* A job that has a row.
LEMMA RowOf ==
    ASSUME RowsOK, NEW j \in Jobs, jobs[j] # NoJob
    PROVE  jobs[j] \in JobRows /\ jobs[j].status \in Statuses /\ jobs[j].processed \in Counts
<1>1. jobs[j] \in JobRows
  BY DEF RowsOK
<1>2. QED
  BY <1>1 DEF JobRows, Statuses, Counts

\* No row is written.
LEMMA SameRows ==
    ASSUME RowsOK, UNCHANGED jobs
    PROVE  RowsKept
BY DEF RowsOK, RowsKept, CompletedProcessedAll

\* No entry is written.
LEMMA SameQueue ==
    ASSUME EntriesOK, UNCHANGED queue
    PROVE  SameEntries
BY DEF EntriesOK, SameEntries

\* One entry is written: not its job and its key.
LEMMA EntryWritten ==
    ASSUME EntriesOK, NEW i \in DOMAIN queue, NEW e \in Entries, queue' = [queue EXCEPT ![i] = e],
           e.job = queue[i].job, e.stored = queue[i].stored,
           e.state \in {"waiting", "delayed"} => e.tries > 0
    PROVE  SameEntries /\ \A k \in DOMAIN queue : queue'[k] = IF k = i THEN e ELSE queue[k]
<1>1. queue \in Seq(Entries)
  BY DEF EntriesOK
<1>2. /\ queue' \in Seq(Entries) /\ DOMAIN queue' = DOMAIN queue
      /\ \A k \in DOMAIN queue : queue'[k] = IF k = i THEN e ELSE queue[k]
  BY <1>1
<1>3. QED
  BY <1>2 DEF SameEntries, EntriesOK

\* One request goes on, not to add a job.
LEMMA RequestMoves ==
    ASSUME JobsInv, UNCHANGED worker, faults' \in Nat, RowsKept, SameEntries,
           NEW h \in Handlers, NEW r, request' = [request EXCEPT ![h] = r],
           RequestGood(jobs', queue', r), r.at # "add",
           \A v \in Workers : worker[v].at # "idle" => ReliedOn(worker[v])
    PROVE  JobsInv'
<1>0. RowsOK /\ EntriesOK /\ RequestsOK /\ OneOriginal /\ QueueKept
  BY DEF JobsInv, SameEntries, QueueKept
<1>1. \A g \in Handlers : request'[g] = IF g = h THEN r ELSE request[g]
  BY <1>0 DEF RequestsOK
<1>2. RequestsOK'
  <2>1. request' \in [Handlers -> RequestStates]
    BY <1>0 DEF RequestsOK, RequestGood
  <2>2. ASSUME NEW g \in Handlers PROVE RequestGood(jobs', queue', request'[g])
    <3>1. CASE g = h
      BY <1>1, <3>1
    <3>2. CASE g # h
      <4>1. RequestGood(jobs', queue', request[g])
        BY <1>0, RequestKept DEF RequestsOK, SameEntries
      <4>2. QED
        BY <1>1, <3>2, <4>1
    <3>3. QED
      BY <3>1, <3>2
  <2>3. QED
    BY <2>1, <2>2 DEF RequestsOK
<1>3. ASSUME NEW f \in Handlers, NEW g \in Handlers, request'[f].at = "add", request'[g].at = "add",
             request'[f].job = request'[g].job
      PROVE  f = g
  BY <1>0, <1>1, <1>3 DEF OneOriginal
<1>4. QED
  BY <1>2, <1>3, RequestStep

\* The idle request is a good one, the idle worker too.
LEMMA IdleGood ==
    ASSUME NEW js, NEW q
    PROVE  /\ NoRequest \in RequestStates /\ RequestGood(js, q, NoRequest) /\ NoRequest.at = "idle"
           /\ Idle \in WorkerStates /\ WorkerGood(js, q, Idle) /\ Idle.at = "idle"
<1>1. NoRequest \in RequestStates /\ NoRequest.at = "idle"
  BY DEF NoRequest, RequestStates
<1>2. Idle \in WorkerStates /\ Idle.at = "idle"
  BY JobsAssumptions DEF Idle, WorkerStates
<1>3. QED
  BY <1>1, <1>2 DEF RequestGood, WorkerGood

\* Nobody writes: every worker relies on what stays.
LEMMA AllRelied ==
    ASSUME UNCHANGED <<jobs, queue>>
    PROVE  \A v \in Workers : ReliedOn(worker[v])
BY DEF ReliedOn

\* A step of a request that writes nothing.
LEMMA OnlyRequests ==
    ASSUME JobsInv, UNCHANGED <<jobs, queue, worker>>, faults' \in Nat,
           NEW h \in Handlers, NEW r, request' = [request EXCEPT ![h] = r],
           RequestGood(jobs, queue, r), r.at # "add"
    PROVE  JobsInv'
<1>1. RowsKept /\ SameEntries /\ \A v \in Workers : ReliedOn(worker[v])
  BY SameRows, SameQueue, AllRelied DEF JobsInv
<1>2. RequestGood(jobs', queue', r)
  OBVIOUS
<1>3. QED
  BY <1>1, <1>2, RequestMoves

\* A step of a worker that writes nothing.
LEMMA OnlyWorks ==
    ASSUME JobsInv, UNCHANGED <<jobs, queue, request>>, faults' \in Nat,
           NEW w \in Workers, NEW s, worker' = [worker EXCEPT ![w] = s],
           WorkerGood(jobs, queue, s), worker[w].at # "idle", s.entry = worker[w].entry
    PROVE  JobsInv'
<1>1. RowsKept /\ SameEntries /\ \A v \in Workers : ReliedOn(worker[v])
  BY SameRows, SameQueue, AllRelied DEF JobsInv
<1>2. WorkerGood(jobs', queue', s)
  OBVIOUS
<1>3. \A v \in Workers \ {w} : worker[v].at # "idle" => s.entry # worker[v].entry
  BY DEF JobsInv, OneHolder
<1>4. QED
  BY <1>1, <1>2, <1>3, WorkerStep

-----------------------------------------------------------------------------
(***************************************************************************)
(* Requests.                                                               *)
(***************************************************************************)

\* What a request knows, by the invariant.
LEMMA AtRequest ==
    ASSUME JobsInv, NEW h \in Handlers
    PROVE  /\ RequestGood(jobs, queue, request[h]) /\ request[h] \in RequestStates
           /\ RowsOK /\ EntriesOK /\ request \in [Handlers -> RequestStates]
BY DEF JobsInv, RequestsOK

\* A request that goes on with what it knows, or ends.
LEMMA Serves ==
    ASSUME JobsInv, NEW h \in Handlers, NEW from, NEW to, Serve(h, from, to)
    PROVE  request' = [request EXCEPT ![h] = IF to = "idle" THEN NoRequest ELSE [request[h] EXCEPT !.at = to]]
BY AtRequest DEF Serve

\* A new job has no entry and no other request.
LEMMA CreateKeeps ==
    ASSUME JobsInv, NEW h \in Handlers, NEW j \in Jobs, NEW kind \in Kinds, NEW skip \in BOOLEAN,
           Create(h, j, kind, skip)
    PROVE  JobsInv'
<1> DEFINE row == [kind |-> kind, skipInvalid |-> skip, status |-> "QUEUED", processed |-> 0]
           r == [at |-> "add", job |-> j, entry |-> 0]
<1>0. /\ RowsOK /\ EntriesOK /\ RequestsOK /\ WorkersOK /\ OneOriginal /\ faults' \in Nat
      /\ jobs[j] = NoJob /\ jobs' = [jobs EXCEPT ![j] = row]
      /\ request' = [request EXCEPT ![h] = r]
      /\ UNCHANGED <<queue, worker>>
  BY DEF JobsInv, Create
<1>1. row \in JobRows /\ row.status = "QUEUED"
  BY JobsAssumptions DEF JobRows, Terminal
<1>2. r \in RequestStates /\ r.at = "add" /\ r.job = j
  BY DEF RequestStates
<1> HIDE DEF row, r
<1>3. /\ jobs' \in [Jobs -> JobRows \cup {NoJob}]
      /\ \A k \in Jobs : jobs'[k] = IF k = j THEN row ELSE jobs[k]
      /\ row # NoJob
  BY <1>0, <1>1, JobsAssumptions DEF RowsOK
<1>4. RowsKept
  BY <1>0, <1>1, <1>3 DEF RowsKept, RowsOK, CompletedProcessedAll
<1>5. SameEntries
  BY <1>0, SameQueue
<1>6. \A i \in DOMAIN queue : queue[i].job \in Jobs /\ queue[i].job # j
  BY <1>0, EntryFacts
<1>7. RequestGood(jobs', queue', r)
  BY <1>0, <1>2, <1>3, <1>6 DEF RequestGood
<1>8. \A g \in Handlers : request'[g] = IF g = h THEN r ELSE request[g]
  BY <1>0 DEF RequestsOK
<1>9. RequestsOK'
  <2>1. request' \in [Handlers -> RequestStates]
    BY <1>0, <1>2 DEF RequestsOK
  <2>2. ASSUME NEW g \in Handlers PROVE RequestGood(jobs', queue', request'[g])
    <3>1. RequestGood(jobs', queue', request[g])
      BY <1>0, <1>4, <1>5, RequestKept DEF RequestsOK, SameEntries, QueueKept
    <3>2. QED
      BY <1>7, <1>8, <3>1
  <2>3. QED
    BY <2>1, <2>2 DEF RequestsOK
<1>10. ASSUME NEW f \in Handlers, NEW g \in Handlers, request'[f].at = "add", request'[g].at = "add",
              request'[f].job = request'[g].job
       PROVE  f = g
  <2>1. \A g2 \in Handlers : request[g2].at = "add" => request[g2].job # j
    BY <1>0 DEF RequestsOK, RequestGood
  <2>2. QED
    BY <1>0, <1>2, <1>8, <1>10, <2>1 DEF OneOriginal
<1>11. ASSUME NEW v \in Workers, worker[v].at # "idle" PROVE ReliedOn(worker[v])
  <2>1. worker[v].entry \in DOMAIN queue
    BY <1>0, <1>11 DEF WorkersOK, WorkerGood
  <2>2. jobs'[queue[worker[v].entry].job] = jobs[queue[worker[v].entry].job]
    BY <1>3, <1>6, <2>1
  <2>3. QED
    BY <1>0, <2>2 DEF ReliedOn
<1>12. QED
  BY <1>0, <1>4, <1>5, <1>9, <1>10, <1>11, RequestStep

\* An entry is added; an original one only by the request that created the job.
LEMMA EntryAdded ==
    ASSUME JobsInv, NEW h \in Handlers, NEW e \in Entries, queue' = Append(queue, e),
           request' = [request EXCEPT ![h] = NoRequest],
           UNCHANGED <<jobs, worker, faults>>,
           jobs[e.job] # NoJob, e.state = "waiting", e.tries > 0,
           e.stored /\ jobs[e.job].kind = "import" => request[h].at = "add" /\ request[h].job = e.job
    PROVE  JobsInv'
<1> DEFINE n == Len(queue) + 1
<1>0. RowsOK /\ EntriesOK /\ WorkersOK /\ RequestsOK /\ OneHolder /\ OneOriginal /\ faults' \in Nat
  BY DEF JobsInv
<1>1. /\ queue' \in Seq(Entries)
      /\ DOMAIN queue' = DOMAIN queue \cup {n}
      /\ n \notin DOMAIN queue
      /\ queue'[n] = e
      /\ \A i \in DOMAIN queue : queue'[i] = queue[i]
  <2>1. queue \in Seq(Entries)
    BY <1>0 DEF EntriesOK
  <2>2. QED
    BY <2>1
<1> HIDE DEF n
<1>2. RowsKept /\ QueueKept
  BY <1>0, <1>1, SameRows DEF QueueKept
<1>3. EntriesOK'
  BY <1>0, <1>1 DEF EntriesOK
<1>4. WorkersOK'
  <2>1. ASSUME NEW v \in Workers PROVE WorkerGood(jobs', queue', worker[v])
    <3>1. WorkerGood(jobs, queue, worker[v])
      BY <1>0 DEF WorkersOK
    <3>2. worker[v].at # "idle" => ReliedOn(worker[v])
      BY <1>1, <3>1 DEF WorkerGood, ReliedOn
    <3>3. QED
      BY <1>0, <1>2, <3>1, <3>2, WorkerKept
  <2>2. QED
    BY <1>0, <2>1 DEF WorkersOK
<1>5. \A g \in Handlers : request'[g] = IF g = h THEN NoRequest ELSE request[g]
  BY <1>0 DEF RequestsOK
<1>6. Original(jobs', queue', n) =>
        /\ request[h].at = "add" /\ request[h].job = e.job
        /\ queue'[n].job = e.job
  BY <1>1 DEF Original
<1>7. RequestsOK'
  <2>1. request' \in [Handlers -> RequestStates]
    BY <1>0, IdleGood DEF RequestsOK
  <2>2. ASSUME NEW g \in Handlers PROVE RequestGood(jobs', queue', request'[g])
    <3>1. CASE g = h
      BY <1>5, <3>1, IdleGood
    <3>2. CASE g # h
      <4>1. request[g].at = "add" => (Original(jobs', queue', n) => queue'[n].job # request[g].job)
        BY <1>0, <1>6, <3>2 DEF OneOriginal
      <4>2. RequestGood(jobs', queue', request[g])
        BY <1>0, <1>1, <1>2, <4>1, RequestKept DEF RequestsOK
      <4>3. QED
        BY <1>5, <3>2, <4>2
    <3>3. QED
      BY <3>1, <3>2
  <2>3. QED
    BY <2>1, <2>2 DEF RequestsOK
<1>8. OneHolder'
  BY <1>0 DEF OneHolder
<1>9. OneOriginal'
  <2>1. \A i \in DOMAIN queue : Original(jobs', queue', i) /\ Original(jobs', queue', n)
                                  => queue'[i].job # queue'[n].job
    <3> SUFFICES ASSUME NEW i \in DOMAIN queue, Original(jobs', queue', i), Original(jobs', queue', n)
                 PROVE  queue'[i].job # queue'[n].job
      OBVIOUS
    <3>1. Original(jobs, queue, i)
      BY <1>0, <1>2, OriginalKept
    <3>2. queue[i].job # request[h].job
      BY <1>0, <1>6, <3>1 DEF RequestsOK, RequestGood
    <3>3. QED
      BY <1>1, <1>6, <3>2
  <2>2. ASSUME NEW i \in DOMAIN queue', NEW k \in DOMAIN queue',
               Original(jobs', queue', i), Original(jobs', queue', k), queue'[i].job = queue'[k].job
        PROVE  i = k
    <3>1. CASE i \in DOMAIN queue /\ k \in DOMAIN queue
      <4>1. Original(jobs, queue, i) /\ Original(jobs, queue, k)
        BY <1>0, <1>2, <2>2, <3>1, OriginalKept
      <4>2. QED
        BY <1>0, <1>1, <2>2, <3>1, <4>1 DEF OneOriginal
    <3>2. CASE i = n \/ k = n
      BY <1>1, <2>1, <2>2, <3>2
    <3>3. QED
      BY <1>1, <3>1, <3>2
  <2>3. ASSUME NEW f \in Handlers, NEW g \in Handlers, request'[f].at = "add", request'[g].at = "add",
               request'[f].job = request'[g].job
        PROVE  f = g
    BY <1>0, <1>5, <2>3, IdleGood DEF OneOriginal
  <2>4. QED
    BY <2>2, <2>3 DEF OneOriginal
<1>10. QED
  BY <1>0, <1>2, <1>3, <1>4, <1>7, <1>8, <1>9 DEF JobsInv, RowsKept

\* The original entry.
LEMMA AddEntryKeeps ==
    ASSUME JobsInv, NEW h \in Handlers, AddEntry(h)
    PROVE  JobsInv'
<1> DEFINE e == NewEntry(request[h].job, TRUE)
<1>0. /\ RequestGood(jobs, queue, request[h]) /\ request[h].at = "add"
      /\ request' = [request EXCEPT ![h] = NoRequest]
      /\ queue' = Append(queue, e)
      /\ UNCHANGED <<jobs, worker, faults>>
  BY AtRequest, Serves DEF AddEntry, Serve
<1>1. request[h].job \in Jobs /\ jobs[request[h].job] # NoJob
  BY <1>0 DEF RequestGood
<1>2. e \in Entries /\ e.job = request[h].job /\ e.state = "waiting" /\ e.tries > 0
  BY <1>1, JobsAssumptions DEF NewEntry, Entries
<1> HIDE DEF e
<1>3. QED
  BY <1>0, <1>1, <1>2, EntryAdded

\* The entry of a retry: not an original one.
LEMMA AddAgainKeeps ==
    ASSUME JobsInv, NEW h \in Handlers, AddAgain(h)
    PROVE  JobsInv'
<1> DEFINE key == jobs[request[h].job].kind # "import"
           e == NewEntry(request[h].job, key)
<1>0. /\ RequestGood(jobs, queue, request[h]) /\ request[h].at = "addAgain"
      /\ request' = [request EXCEPT ![h] = NoRequest]
      /\ queue' = Append(queue, e)
      /\ UNCHANGED <<jobs, worker, faults>>
  BY AtRequest, Serves DEF AddAgain, Serve
<1>1. request[h].job \in Jobs /\ jobs[request[h].job] # NoJob
  BY <1>0 DEF RequestGood
<1>2. key \in BOOLEAN /\ (key => jobs[request[h].job].kind # "import")
  OBVIOUS
<1> HIDE DEF key
<1>3. /\ e \in Entries /\ e.job = request[h].job /\ e.state = "waiting" /\ e.tries > 0
      /\ e.stored = key
  BY <1>1, <1>2, JobsAssumptions DEF NewEntry, Entries
<1> HIDE DEF e
<1>4. ~(e.stored /\ jobs[e.job].kind = "import")
  BY <1>2, <1>3
<1>5. QED
  BY <1>0, <1>1, <1>3, <1>4, EntryAdded

\* cancelJob and retryJob begin with a job that exists.
LEMMA BeginKeeps ==
    ASSUME JobsInv, NEW h \in Handlers, NEW j \in Jobs, Cancel(h, j) \/ Retry(h, j)
    PROVE  JobsInv'
<1> DEFINE r(place) == [at |-> place, job |-> j, entry |-> 0]
<1>0. /\ jobs[j] # NoJob /\ UNCHANGED <<jobs, queue, worker>> /\ faults' \in Nat
      /\ request' = [request EXCEPT ![h] = r("find")] \/ request' = [request EXCEPT ![h] = r("reset")]
  BY DEF JobsInv, Cancel, Retry
<1>1. ASSUME NEW place \in {"find", "reset"}
      PROVE  RequestGood(jobs, queue, r(place)) /\ r(place).at # "add"
  BY <1>0 DEF RequestGood, RequestStates
<1> HIDE DEF r
<1>2. QED
  BY <1>0, <1>1, OnlyRequests

\* cancelJob looks for the job's entry.
LEMMA FindEntryKeeps ==
    ASSUME JobsInv, NEW h \in Handlers, FindEntry(h)
    PROVE  JobsInv'
<1>0. /\ RequestGood(jobs, queue, request[h]) /\ request[h] \in RequestStates /\ request[h].at = "find"
      /\ request \in [Handlers -> RequestStates] /\ EntriesOK
      /\ UNCHANGED <<jobs, queue, worker>> /\ faults' \in Nat
  BY AtRequest DEF FindEntry, JobsInv
<1>1. ASSUME NEW i \in DOMAIN queue, request' = [request EXCEPT ![h].at = "remove", ![h].entry = i]
      PROVE  JobsInv'
  <2> DEFINE r == [request[h] EXCEPT !.at = "remove", !.entry = i]
  <2>1. request' = [request EXCEPT ![h] = r]
    BY <1>0, <1>1
  <2>2. i \in Nat
    BY <1>0, EntryFacts
  <2>3. r \in RequestStates /\ r.at = "remove" /\ r.entry = i /\ r.job = request[h].job
    BY <1>0, <2>2 DEF RequestStates
  <2> HIDE DEF r
  <2>4. RequestGood(jobs, queue, r) /\ r.at # "add"
    BY <1>0, <2>3 DEF RequestGood
  <2>5. QED
    BY <1>0, <2>1, <2>4, OnlyRequests
<1>2. ASSUME request' = [request EXCEPT ![h].at = "cancel"]
      PROVE  JobsInv'
  <2> DEFINE r == [request[h] EXCEPT !.at = "cancel"]
  <2>1. request' = [request EXCEPT ![h] = r]
    BY <1>0, <1>2
  <2>2. r \in RequestStates /\ r.at = "cancel" /\ r.job = request[h].job
    BY <1>0 DEF RequestStates
  <2> HIDE DEF r
  <2>3. RequestGood(jobs, queue, r) /\ r.at # "add"
    BY <1>0, <2>2 DEF RequestGood
  <2>4. QED
    BY <1>0, <2>1, <2>3, OnlyRequests
<1>3. QED
  BY <1>1, <1>2 DEF FindEntry

\* A request that goes on with the job it knows.
LEMMA GoesOn ==
    ASSUME NEW js, NEW q, NEW js2, NEW q2, NEW r, NEW to \in {"cancel", "addAgain"},
           RequestGood(js, q, r), r.at # "idle", js2[r.job] # NoJob
    PROVE  RequestGood(js2, q2, [r EXCEPT !.at = to]) /\ [r EXCEPT !.at = to].at # "add"
<1> DEFINE s == [r EXCEPT !.at = to]
<1>1. s \in RequestStates /\ s.at = to /\ s.job = r.job
  BY DEF RequestGood, RequestStates
<1> HIDE DEF s
<1>2. RequestGood(js2, q2, s) /\ s.at # "add"
  BY <1>1 DEF RequestGood
<1>3. QED
  BY <1>2 DEF s

\* cancelJob removes an entry that no worker holds.
LEMMA RemoveEntryKeeps ==
    ASSUME JobsInv, NEW h \in Handlers, RemoveEntry(h)
    PROVE  JobsInv'
<1> DEFINE i == request[h].entry
           e == [queue[i] EXCEPT !.state = "gone"]
           r == [request[h] EXCEPT !.at = "cancel"]
<1>0. /\ RequestGood(jobs, queue, request[h]) /\ request[h].at = "remove"
      /\ RowsOK /\ EntriesOK /\ WorkersOK
      /\ UNCHANGED <<jobs, worker>> /\ faults' \in Nat
  BY AtRequest DEF RemoveEntry, JobsInv
<1>1. i \in DOMAIN queue /\ request[h].job \in Jobs /\ jobs[request[h].job] # NoJob
  BY <1>0 DEF RequestGood
<1>2. CASE queue[i].state = "active"
  <2>1. request' = [request EXCEPT ![h] = NoRequest] /\ UNCHANGED queue
    BY <1>2, Serves DEF RemoveEntry
  <2>2. QED
    BY <1>0, <2>1, IdleGood, OnlyRequests
<1>3. CASE queue[i].state # "active"
  <2>1. /\ request' = [request EXCEPT ![h] = r]
        /\ queue' = [queue EXCEPT ![i].state = "gone"]
    BY <1>3, Serves DEF RemoveEntry
  <2>2. queue' = [queue EXCEPT ![i] = e]
    BY <2>1
  <2>3. e \in Entries /\ e.job = queue[i].job /\ e.stored = queue[i].stored /\ e.state = "gone"
    BY <1>0, <1>1, EntryFacts DEF Entries
  <2>4. RequestGood(jobs', queue', r) /\ r.at # "add"
    BY <1>0, <1>1, GoesOn
  <2> HIDE DEF i, e, r
  <2>5. SameEntries /\ \A k \in DOMAIN queue : queue'[k] = IF k = i THEN e ELSE queue[k]
    BY <1>0, <1>1, <2>2, <2>3, EntryWritten
  <2>6. ASSUME NEW v \in Workers, worker[v].at # "idle" PROVE ReliedOn(worker[v])
    <3>1. worker[v].entry \in DOMAIN queue /\ queue[worker[v].entry].state = "active"
      BY <1>0, <2>6 DEF WorkersOK, WorkerGood
    <3>2. QED
      BY <1>0, <1>3, <2>5, <3>1 DEF ReliedOn
  <2>7. RowsKept
    BY <1>0, SameRows
  <2>8. QED
    BY <1>0, <2>1, <2>4, <2>5, <2>6, <2>7, RequestMoves
<1>4. QED
  BY <1>2, <1>3

\* A request writes a status that is not COMPLETED, and goes on.
LEMMA RequestWrites ==
    ASSUME JobsInv, NEW h \in Handlers, request[h].at # "idle", NEW row \in JobRows,
           jobs' = [jobs EXCEPT ![request[h].job] = row],
           row.kind = jobs[request[h].job].kind, row.status # "COMPLETED",
           NEW r, request' = [request EXCEPT ![h] = r], r.at # "add",
           jobs'[request[h].job] # NoJob => RequestGood(jobs', queue', r),
           UNCHANGED <<queue, worker, faults>>
    PROVE  JobsInv'
<1> DEFINE j == request[h].job
<1>0. RequestGood(jobs, queue, request[h]) /\ RowsOK /\ EntriesOK /\ WorkersOK /\ faults' \in Nat
  BY AtRequest DEF JobsInv
<1>1. j \in Jobs /\ jobs[j] # NoJob
  BY <1>0 DEF RequestGood
<1> HIDE DEF j
<1>2. RowsKept /\ \A k \in Jobs : jobs'[k] = IF k = j THEN row ELSE jobs[k]
  BY <1>0, <1>1, RowWritten DEF j
<1>3. SameEntries
  BY <1>0, SameQueue
<1>4. RequestGood(jobs', queue', r)
  BY <1>1, <1>2, JobsAssumptions DEF j
<1>5. ASSUME NEW v \in Workers, worker[v].at # "idle" PROVE ReliedOn(worker[v])
  <2>1. worker[v].entry \in DOMAIN queue
    BY <1>0, <1>5 DEF WorkersOK, WorkerGood
  <2>2. queue[worker[v].entry].job \in Jobs
    BY <1>0, <2>1, EntryFacts
  <2>3. QED
    BY <1>2, <2>2 DEF ReliedOn
<1>6. QED
  BY <1>0, <1>2, <1>3, <1>4, <1>5, RequestMoves

\* A row of whose columns some are written.
Written(row, s, p) == [row EXCEPT !.status = s, !.processed = p]

\* A write of the counters leaves the status.
LEMMA ProcessedWritten ==
    ASSUME NEW row \in JobRows, NEW p
    PROVE  [row EXCEPT !.processed = p] = Written(row, row.status, p)
BY DEF Written, JobRows

\* A row has a status.
LEMMA RowStatus ==
    ASSUME NEW row \in JobRows
    PROVE  row.status \in Statuses
BY DEF JobRows, Statuses, Terminal

\* A write of one of the two columns.
LEMMA WritesStatus ==
    ASSUME RowsOK, NEW j \in Jobs, jobs[j] # NoJob, NEW s, jobs' = [jobs EXCEPT ![j].status = s]
    PROVE  jobs' = [jobs EXCEPT ![j] = Written(jobs[j], s, jobs[j].processed)]
<1>1. jobs[j] \in JobRows
  BY RowOf
<1>2. ASSUME NEW row \in JobRows PROVE [row EXCEPT !.status = s] = Written(row, s, row.processed)
  BY DEF Written, JobRows
<1>3. QED
  BY <1>1, <1>2

\* Writing the number of processed rows is writing the job row with its status.
LEMMA WritesProcessed ==
    ASSUME RowsOK, NEW j \in Jobs, jobs[j] # NoJob, NEW p, jobs' = [jobs EXCEPT ![j].processed = p]
    PROVE  jobs' = [jobs EXCEPT ![j] = Written(jobs[j], jobs[j].status, p)]
<1>1. jobs[j] \in JobRows
  BY RowOf
<1>2. QED
  BY <1>1, ProcessedWritten

\* The row after such a write.
LEMMA RowAfter ==
    ASSUME NEW old \in JobRows, NEW s \in Statuses, NEW p \in Counts
    PROVE  /\ Written(old, s, p) \in JobRows /\ Written(old, s, p).kind = old.kind
           /\ Written(old, s, p).status = s /\ Written(old, s, p).processed = p
<1>1. JobRows = [kind : {"import", "export"}, skipInvalid : BOOLEAN, status : Statuses, processed : Counts]
  BY DEF Statuses, Counts, JobRows
<1>2. QED
  BY <1>1 DEF Written

\* The columns hold these values.
LEMMA Columns ==
    /\ "QUEUED" \in Statuses /\ "PROCESSING" \in Statuses /\ "FAILED" \in Statuses
    /\ "COMPLETED" \in Statuses /\ "CANCELLED" \in Statuses
    /\ 0 \in Counts /\ Batches \in Counts
BY JobsAssumptions DEF Statuses, Terminal, Counts

\* The job is CANCELLED.
LEMMA MarkCancelledKeeps ==
    ASSUME JobsInv, NEW h \in Handlers, MarkCancelled(h)
    PROVE  JobsInv'
<1> DEFINE old == jobs[request[h].job]
           count == old.processed
           row == Written(old, "CANCELLED", count)
<1>0. /\ RequestGood(jobs, queue, request[h]) /\ request[h].at = "cancel" /\ RowsOK
      /\ request' = [request EXCEPT ![h] = NoRequest]
      /\ UNCHANGED <<queue, worker, faults>>
  BY AtRequest, Serves DEF MarkCancelled, Serve
<1>1. request[h].job \in Jobs /\ old # NoJob
  BY <1>0 DEF RequestGood
<1>2. jobs' = [jobs EXCEPT ![request[h].job] = row]
  BY <1>0, <1>1, WritesStatus DEF MarkCancelled
<1>3. row \in JobRows /\ row.kind = old.kind /\ row.status = "CANCELLED"
  <2>1. old \in JobRows /\ count \in Counts
    BY <1>0, <1>1, RowOf
  <2> HIDE DEF old, count
  <2>2. QED
    BY <2>1, RowAfter, Columns
<1> HIDE DEF row
<1>4. QED
  BY <1>0, <1>2, <1>3, IdleGood, RequestWrites

\* The job starts again.
LEMMA ResetJobKeeps ==
    ASSUME JobsInv, NEW h \in Handlers, ResetJob(h)
    PROVE  JobsInv'
<1> DEFINE old == jobs[request[h].job]
           row == Written(old, "QUEUED", 0)
           r == [request[h] EXCEPT !.at = "addAgain"]
<1>0. /\ RequestGood(jobs, queue, request[h]) /\ request[h].at = "reset" /\ RowsOK
      /\ request' = [request EXCEPT ![h] = r]
      /\ UNCHANGED <<queue, worker, faults>>
  BY AtRequest, Serves DEF ResetJob, Serve
<1>1. request[h].job \in Jobs /\ old # NoJob
  BY <1>0 DEF RequestGood
<1>2. jobs' = [jobs EXCEPT ![request[h].job] = row]
  <2> DEFINE j == request[h].job
  <2>1. jobs' = [jobs EXCEPT ![j].status = "QUEUED", ![j].processed = 0] /\ j \in Jobs
    BY <1>1 DEF ResetJob
  <2> HIDE DEF j
  <2>2. jobs' = [jobs EXCEPT ![j] = Written(jobs[j], "QUEUED", 0)]
    <3>1. jobs \in [Jobs -> JobRows \cup {NoJob}]
      BY <1>0 DEF RowsOK
    <3>2. QED
      BY <2>1, <3>1 DEF Written
  <2>3. QED
    BY <2>2 DEF j
<1>3. row \in JobRows /\ row.kind = old.kind /\ row.status = "QUEUED"
  <2>1. old \in JobRows
    BY <1>0, <1>1, RowOf
  <2> HIDE DEF old
  <2>2. QED
    BY <2>1, RowAfter, Columns
<1>4. /\ r.at # "add"
      /\ jobs'[request[h].job] # NoJob => RequestGood(jobs', queue', r)
  <2>1. r.at = "addAgain"
    BY <1>0 DEF RequestGood, RequestStates
  <2>2. QED
    BY <1>0, <2>1, GoesOn
<1> HIDE DEF row, r
<1>5. QED
  BY <1>0, <1>2, <1>3, <1>4, RequestWrites

\* A request's await fails.
LEMMA RequestFailsKeeps ==
    ASSUME JobsInv, NEW h \in Handlers, RequestFails(h)
    PROVE  JobsInv'
<1>1. /\ request' = [request EXCEPT ![h] = NoRequest]
      /\ UNCHANGED <<jobs, queue, worker>> /\ faults' \in Nat
  BY Serves DEF RequestFails, Fault, JobsInv
<1>2. QED
  BY <1>1, IdleGood, OnlyRequests

-----------------------------------------------------------------------------
(***************************************************************************)
(* Workers.                                                                *)
(***************************************************************************)

\* A worker that goes on, with its entry.
Places == {"idle", "start", "load", "insert", "progress", "complete", "cleanUp", "failed"}
GoesTo(s, to, n) == [s EXCEPT !.at = to, !.done = n]

\* Where it then is.
LEMMA Gone ==
    ASSUME NEW s \in WorkerStates, NEW to \in Places, NEW n \in Counts
    PROVE  /\ GoesTo(s, to, n) \in WorkerStates /\ GoesTo(s, to, n).at = to
           /\ GoesTo(s, to, n).done = n /\ GoesTo(s, to, n).entry = s.entry
<1>1. WorkerStates = [at : Places, entry : Nat, done : Counts]
  BY DEF WorkerStates, Places, Counts
<1>2. QED
  BY <1>1 DEF GoesTo

\* The places where a worker may go.
LEMMA Stations ==
    /\ "start" \in Places /\ "load" \in Places /\ "insert" \in Places /\ "progress" \in Places
    /\ "complete" \in Places /\ "cleanUp" \in Places /\ "failed" \in Places
BY DEF Places

\* What a worker knows, by the invariant.
LEMMA AtWork ==
    ASSUME JobsInv, NEW w \in Workers
    PROVE  /\ WorkerGood(jobs, queue, worker[w]) /\ worker[w] \in WorkerStates
           /\ worker[w].done \in Counts
           /\ worker[w].at # "idle" =>
                /\ worker[w].entry \in DOMAIN queue
                /\ JobOf(w) \in Jobs /\ jobs[JobOf(w)] # NoJob /\ jobs[JobOf(w)] \in JobRows
           /\ RowsOK /\ EntriesOK /\ worker \in [Workers -> WorkerStates]
<1>1. RowsOK /\ EntriesOK /\ worker \in [Workers -> WorkerStates] /\ WorkerGood(jobs, queue, worker[w])
  BY DEF JobsInv, WorkersOK
<1>2. worker[w] \in WorkerStates
  BY <1>1
<1>3. worker[w].done \in Counts
  BY <1>2 DEF WorkerStates, Counts
<1>4. worker[w].at # "idle" => worker[w].entry \in DOMAIN queue
  BY <1>1 DEF WorkerGood
<1>5. worker[w].at # "idle" => JobOf(w) \in Jobs /\ jobs[JobOf(w)] # NoJob
  BY <1>1, <1>4, EntryFacts DEF JobOf
<1>6. QED
  BY <1>1, <1>2, <1>3, <1>4, <1>5, RowOf

\* A step of process that leaves the count alone.
LEMMA Works ==
    ASSUME JobsInv, NEW w \in Workers, NEW from, NEW to, Work(w, from, to)
    PROVE  worker[w].at = from /\ worker' = [worker EXCEPT ![w] = GoesTo(worker[w], to, worker[w].done)]
<1>1. worker[w] \in WorkerStates /\ worker \in [Workers -> WorkerStates]
  BY AtWork
<1>2. ASSUME NEW s \in WorkerStates PROVE [s EXCEPT !.at = to] = GoesTo(s, to, s.done)
  BY DEF GoesTo, WorkerStates
<1>3. [worker[w] EXCEPT !.at = to] = GoesTo(worker[w], to, worker[w].done)
  BY <1>1, <1>2
<1>4. worker' = [worker EXCEPT ![w] = [worker[w] EXCEPT !.at = to]] /\ worker[w].at = from
  BY <1>1 DEF Work
<1>5. QED
  BY <1>3, <1>4

\* A worker writes the row of its job, and goes on.
LEMMA WorkerWrites ==
    ASSUME JobsInv, NEW w \in Workers, worker[w].at # "idle", NEW row \in JobRows,
           jobs' = [jobs EXCEPT ![JobOf(w)] = row], row.kind = jobs[JobOf(w)].kind,
           row.status = "COMPLETED" =>
             /\ row.processed = Batches
             /\ \A v \in Workers \ {w} :
                  worker[v].at \in {"load", "insert", "progress"} /\ Original(jobs, queue, worker[v].entry)
                    => queue[worker[v].entry].job # JobOf(w),
           NEW s, worker' = [worker EXCEPT ![w] = s], s.entry = worker[w].entry,
           jobs'[JobOf(w)] = row => WorkerGood(jobs', queue', s),
           UNCHANGED <<queue, request>>, faults' \in Nat
    PROVE  JobsInv'
<1> DEFINE j == JobOf(w)
<1>0. RowsOK /\ EntriesOK /\ WorkersOK /\ OneHolder /\ j \in Jobs /\ jobs[j] # NoJob
  BY AtWork DEF JobsInv
<1> HIDE DEF j
<1>1. RowsKept /\ \A k \in Jobs : jobs'[k] = IF k = j THEN row ELSE jobs[k]
  BY <1>0, RowWritten DEF j
<1>2. SameEntries
  BY <1>0, SameQueue
<1>3. WorkerGood(jobs', queue', s)
  BY <1>0, <1>1 DEF j
<1>4. ASSUME NEW v \in Workers \ {w}, worker[v].at # "idle"
      PROVE  ReliedOn(worker[v]) /\ s.entry # worker[v].entry
  <2>1. worker[v].entry \in DOMAIN queue
    BY <1>0, <1>4 DEF WorkersOK, WorkerGood
  <2>2. queue[worker[v].entry].job \in Jobs
    BY <1>0, <2>1, EntryFacts
  <2>3. s.entry # worker[v].entry
    BY <1>0, <1>4 DEF OneHolder
  <2> DEFINE e == worker[v].entry
             k == queue[e].job
  <2>4. CASE k = j
    <3>1. jobs'[k] = row
      BY <1>1, <2>2, <2>4
    <3>2. row.status = "COMPLETED" =>
            ~(worker[v].at \in {"load", "insert", "progress"} /\ Original(jobs, queue, e))
      BY <2>4 DEF j
    <3> HIDE DEF e, k
    <3>3. QED
      BY <2>3, <3>1, <3>2 DEF ReliedOn, e, k
  <2>5. CASE k # j
    <3>1. jobs'[k] = jobs[k]
      BY <1>1, <2>2, <2>5
    <3>2. QED
      BY <2>3, <3>1 DEF ReliedOn
  <2>6. QED
    BY <2>4, <2>5
<1>5. QED
  BY <1>1, <1>2, <1>3, <1>4, WorkerStep

\* A worker that does not complete its job writes the row, and goes on.
LEMMA RowRewritten ==
    ASSUME JobsInv, NEW w \in Workers, worker[w].at # "idle", NEW row \in JobRows,
           jobs' = [jobs EXCEPT ![JobOf(w)] = row], row.kind = jobs[JobOf(w)].kind,
           row.status # "COMPLETED",
           NEW s, worker' = [worker EXCEPT ![w] = s], s.entry = worker[w].entry,
           jobs'[JobOf(w)] = row => WorkerGood(jobs', queue', s),
           UNCHANGED <<queue, request>>, faults' \in Nat
    PROVE  JobsInv'
BY WorkerWrites

\* process: the job is PROCESSING.
LEMMA StartKeeps ==
    ASSUME JobsInv, NEW w \in Workers, Start(w)
    PROVE  JobsInv'
<1> DEFINE old == jobs[JobOf(w)]
           count == old.processed
           row == Written(old, "PROCESSING", count)
           me == worker[w]
           n == me.done
           s == GoesTo(me, "load", n)
<1>0. /\ WorkerGood(jobs, queue, worker[w]) /\ worker[w] \in WorkerStates /\ n \in Counts
      /\ RowsOK /\ worker[w].at = "start" /\ worker' = [worker EXCEPT ![w] = s]
      /\ JobOf(w) \in Jobs /\ old # NoJob /\ old \in JobRows
      /\ UNCHANGED <<queue, request>> /\ faults' \in Nat
  BY AtWork, Works DEF Start, Work, JobsInv
<1>1. jobs' = [jobs EXCEPT ![JobOf(w)] = row]
  BY <1>0, WritesStatus DEF Start
<1>2. row \in JobRows /\ row.kind = old.kind /\ row.status = "PROCESSING"
  <2>1. count \in Counts
    BY <1>0, RowOf
  <2> HIDE DEF old, count
  <2>2. QED
    BY <1>0, <2>1, RowAfter, Columns
<1>3. s \in WorkerStates /\ s.at = "load" /\ s.done = n /\ s.entry = me.entry
  <2>1. me \in WorkerStates /\ n \in Counts
    BY <1>0
  <2> HIDE DEF n, me
  <2>2. QED
    BY <2>1, Gone, Stations
<1> HIDE DEF row, s
<1>4. jobs'[JobOf(w)] = row => WorkerGood(jobs', queue', s)
  BY <1>0, <1>2, <1>3 DEF WorkerGood, Original, JobOf
<1>5. QED
  BY <1>0, <1>1, <1>2, <1>3, <1>4, WorkerWrites

\* Only the place changes.
LEMMA GoesAt ==
    ASSUME NEW s \in WorkerStates, NEW to
    PROVE  [s EXCEPT !.at = to] = GoesTo(s, to, s.done)
BY DEF GoesTo, WorkerStates

\* A worker may go on to a place, with a count.
MayGo(w, to, n) ==
    \A s \in WorkerStates : s.at = to /\ s.done = n /\ s.entry = worker[w].entry => WorkerGood(jobs, queue, s)

\* A worker goes on with its entry, and writes nothing.
LEMMA OnlyGoes ==
    ASSUME JobsInv, UNCHANGED <<jobs, queue, request>>, faults' \in Nat,
           NEW w \in Workers, worker[w].at # "idle",
           NEW to \in Places, NEW n \in Counts,
           worker' = [worker EXCEPT ![w] = GoesTo(worker[w], to, n)], MayGo(w, to, n)
    PROVE  JobsInv'
<1> DEFINE me == worker[w]
           s == GoesTo(me, to, n)
<1>1. s \in WorkerStates /\ s.at = to /\ s.done = n /\ s.entry = me.entry
  <2>1. me \in WorkerStates
    BY AtWork
  <2> HIDE DEF me
  <2>2. QED
    BY <2>1, Gone
<1>2. worker' = [worker EXCEPT ![w] = s]
  OBVIOUS
<1> HIDE DEF s
<1>3. WorkerGood(jobs, queue, s)
  BY <1>1 DEF MayGo
<1>4. QED
  BY <1>1, <1>2, <1>3, OnlyWorks

\* process: the file is loaded, or the export is generated.
LEMMA LoadKeeps ==
    ASSUME JobsInv, NEW w \in Workers, Load(w)
    PROVE  JobsInv'
<1> DEFINE me == worker[w]
           n == me.done
<1>0. /\ WorkerGood(jobs, queue, me) /\ me \in WorkerStates /\ n \in Counts /\ me.at = "load"
      /\ worker \in [Workers -> WorkerStates] /\ JobOf(w) \in Jobs /\ jobs[JobOf(w)] \in JobRows
      /\ UNCHANGED <<jobs, queue, request>> /\ faults' \in Nat
  BY AtWork DEF Load, JobsInv
<1>1. /\ me.entry \in DOMAIN queue /\ queue[me.entry].state = "active" /\ n = 0
      /\ Original(jobs, queue, me.entry) => jobs[JobOf(w)].status # "COMPLETED"
  BY <1>0 DEF WorkerGood, JobOf
<1>2. \/ /\ jobs[JobOf(w)].kind # "import"
         /\ worker' = [worker EXCEPT ![w] = [@ EXCEPT !.at = "complete", !.done = Batches]]
      \/ /\ jobs[JobOf(w)].kind = "import" /\ queue[me.entry].stored
         /\ worker' = [worker EXCEPT ![w] = [@ EXCEPT !.at = "insert"]]
      \/ worker' = [worker EXCEPT ![w] = [@ EXCEPT !.at = "failed"]]
  BY DEF Load
<1>3. CASE /\ jobs[JobOf(w)].kind # "import"
           /\ worker' = [worker EXCEPT ![w] = [@ EXCEPT !.at = "complete", !.done = Batches]]
  <2>1. worker' = [worker EXCEPT ![w] = GoesTo(me, "complete", Batches)]
    BY <1>0, <1>3 DEF GoesTo
  <2>2. MayGo(w, "complete", Batches)
    BY <1>1, <1>3 DEF MayGo, WorkerGood, JobOf
  <2>3. QED
    BY <1>0, <2>1, <2>2, OnlyGoes, Stations, Columns
<1>4. CASE /\ jobs[JobOf(w)].kind = "import" /\ queue[me.entry].stored
           /\ worker' = [worker EXCEPT ![w] = [@ EXCEPT !.at = "insert"]]
  <2>1. worker' = [worker EXCEPT ![w] = GoesTo(me, "insert", n)]
    BY <1>0, <1>4, GoesAt
  <2>2. Original(jobs, queue, me.entry)
    BY <1>0, <1>4 DEF Original, JobOf
  <2>3. n < Batches
    BY <1>1, JobsAssumptions
  <2>4. MayGo(w, "insert", n)
    BY <1>1, <2>2, <2>3 DEF MayGo, WorkerGood, JobOf
  <2>5. QED
    BY <1>0, <2>1, <2>4, OnlyGoes, Stations
<1>5. CASE worker' = [worker EXCEPT ![w] = [@ EXCEPT !.at = "failed"]]
  <2>1. worker' = [worker EXCEPT ![w] = GoesTo(me, "failed", n)]
    BY <1>0, <1>5, GoesAt
  <2>2. MayGo(w, "failed", n)
    BY <1>1 DEF MayGo, WorkerGood
  <2>3. QED
    BY <1>0, <2>1, <2>2, OnlyGoes, Stations
<1>6. QED
  BY <1>2, <1>3, <1>4, <1>5

\* insertBatch
LEMMA InsertBatchKeeps ==
    ASSUME JobsInv, NEW w \in Workers, InsertBatch(w)
    PROVE  JobsInv'
<1> DEFINE me == worker[w]
           n == me.done + 1
<1>0. /\ WorkerGood(jobs, queue, me) /\ me \in WorkerStates /\ me.done \in Counts /\ me.at = "insert"
      /\ worker \in [Workers -> WorkerStates]
      /\ UNCHANGED <<jobs, queue, request>> /\ faults' \in Nat
  BY AtWork DEF InsertBatch, JobsInv
<1>1. /\ me.entry \in DOMAIN queue /\ queue[me.entry].state = "active" /\ me.done < Batches
      /\ Original(jobs, queue, me.entry) /\ jobs[queue[me.entry].job].status # "COMPLETED"
  BY <1>0 DEF WorkerGood
<1>2. n \in Counts
  BY <1>0, <1>1, JobsAssumptions DEF Counts
<1>3. worker' = [worker EXCEPT ![w] = GoesTo(me, "progress", n)]
  BY <1>0 DEF InsertBatch, GoesTo
<1> HIDE DEF n
<1>4. MayGo(w, "progress", n)
  BY <1>1 DEF MayGo, WorkerGood
<1>5. QED
  BY <1>0, <1>2, <1>3, <1>4, OnlyGoes, Stations

\* Any of these steps throws.
LEMMA StepFailsKeeps ==
    ASSUME JobsInv, NEW w \in Workers, StepFails(w)
    PROVE  JobsInv'
<1> DEFINE me == worker[w]
           n == me.done
<1>0. /\ WorkerGood(jobs, queue, me) /\ n \in Counts /\ me.at # "idle"
      /\ worker' = [worker EXCEPT ![w] = GoesTo(me, "failed", n)]
      /\ UNCHANGED <<jobs, queue, request>> /\ faults' \in Nat
  BY AtWork, Works DEF StepFails, Fault, JobsInv
<1>1. me.entry \in DOMAIN queue /\ queue[me.entry].state = "active"
  BY <1>0 DEF WorkerGood
<1>2. MayGo(w, "failed", n)
  BY <1>1 DEF MayGo, WorkerGood
<1>3. QED
  BY <1>0, <1>2, OnlyGoes, Stations

\* What a worker at updateProgress knows.
LEMMA AtProgress ==
    ASSUME JobsInv, NEW w \in Workers, worker[w].at = "progress"
    PROVE  /\ worker[w].entry \in DOMAIN queue /\ queue[worker[w].entry].state = "active"
           /\ queue[worker[w].entry].stored /\ jobs[JobOf(w)].kind = "import"
           /\ jobs[JobOf(w)].status # "COMPLETED"
           /\ \/ NextBatch(w) = "insert" /\ worker[w].done < Batches
              \/ NextBatch(w) = "complete" /\ worker[w].done = Batches
<1>1. WorkerGood(jobs, queue, worker[w]) /\ worker[w].done \in Counts
  BY AtWork
<1>2. /\ worker[w].entry \in DOMAIN queue /\ queue[worker[w].entry].state = "active"
      /\ queue[worker[w].entry].stored /\ jobs[JobOf(w)].kind = "import"
      /\ jobs[JobOf(w)].status # "COMPLETED"
  BY <1>1 DEF WorkerGood, Original, JobOf
<1>3. \/ NextBatch(w) = "insert" /\ worker[w].done < Batches
      \/ NextBatch(w) = "complete" /\ worker[w].done = Batches
  BY <1>1, JobsAssumptions DEF NextBatch, Counts
<1>4. QED
  BY <1>2, <1>3

\* The counters are written: the row and the worker afterwards.
LEMMA ProgressWritten ==
    ASSUME JobsInv, NEW w \in Workers, worker[w].at = "progress",
           NEW row, row = [jobs[JobOf(w)] EXCEPT !.processed = worker[w].done],
           jobs' = [jobs EXCEPT ![JobOf(w)] = row],
           NEW to \in {NextBatch(w), "failed"},
           NEW s, s = GoesTo(worker[w], to, worker[w].done), worker' = [worker EXCEPT ![w] = s],
           UNCHANGED <<queue, request>>, faults' \in Nat
    PROVE  JobsInv'
<1> DEFINE old == jobs[JobOf(w)]
           me == worker[w]
           n == me.done
<1>1. /\ me \in WorkerStates /\ n \in Counts /\ old \in JobRows
  BY AtWork, RowOf
<1>2. row \in JobRows /\ row.kind = old.kind /\ row.status = old.status
  <2>1. row = [old EXCEPT !.processed = n]
    OBVIOUS
  <2> HIDE DEF old, n
  <2>2. row = Written(old, old.status, n) /\ old.status \in Statuses
    BY <1>1, <2>1, ProcessedWritten, RowStatus
  <2> DEFINE status == old.status
  <2> HIDE DEF status
  <2>3. Written(old, status, n) \in JobRows /\ Written(old, status, n).kind = old.kind
        /\ Written(old, status, n).status = status
    BY <1>1, <2>2, RowAfter DEF status
  <2>4. QED
    BY <2>2, <2>3 DEF status
<1>3. to \in {"insert", "complete", "failed"} /\ to \in Places
  BY AtProgress, Stations
<1>4. s \in WorkerStates /\ s.at = to /\ s.done = n /\ s.entry = me.entry
  <2>1. s = GoesTo(me, to, n)
    OBVIOUS
  <2> HIDE DEF n, me
  <2>2. QED
    BY <1>1, <1>3, <2>1, Gone
<1>5. old.status # "COMPLETED" /\ old.kind = "import" /\ me.at # "idle"
  BY AtProgress
<1>6. jobs'[JobOf(w)] = row => WorkerGood(jobs', queue', s)
  <2> SUFFICES ASSUME jobs'[JobOf(w)] = row
               PROVE  WorkerGood(jobs', queue', s)
    OBVIOUS
  <2>1. to = "insert" => n < Batches
    BY AtProgress
  <2>2. to = "complete" => n = Batches
    BY AtProgress
  <2>3. /\ s.entry \in DOMAIN queue' /\ queue'[s.entry].state = "active" /\ queue'[s.entry].stored
        /\ queue'[s.entry].job = JobOf(w)
    <3>1. s.entry = worker[w].entry /\ queue' = queue
      BY <1>4
    <3>2. QED
      BY <3>1, AtProgress, Zenon DEF JobOf
  <2>4. row.kind = "import" /\ row.status # "COMPLETED"
    BY <1>2, <1>5, Zenon
  <2>5. Original(jobs', queue', s.entry)
    BY <2>3, <2>4 DEF Original
  <2> HIDE DEF old, me, n
  <2>6. QED
    BY <1>3, <1>4, <2>1, <2>2, <2>3, <2>4, <2>5 DEF WorkerGood
<1>7. QED
  BY <1>2, <1>4, <1>5, <1>6, RowRewritten

\* updateProgress
LEMMA UpdateProgressKeeps ==
    ASSUME JobsInv, NEW w \in Workers, UpdateProgress(w)
    PROVE  JobsInv'
<1>1. /\ worker[w].at = "progress"
      /\ worker' = [worker EXCEPT ![w] = GoesTo(worker[w], NextBatch(w), worker[w].done)]
  BY Works DEF UpdateProgress
<1>2. QED
  BY <1>1, ProgressWritten DEF UpdateProgress, JobsInv

\* updateProgress fails, before or after its write.
LEMMA ProgressFailsKeeps ==
    ASSUME JobsInv, NEW w \in Workers, ProgressFails(w)
    PROVE  JobsInv'
<1> DEFINE to == IF jobs[JobOf(w)].skipInvalid THEN NextBatch(w) ELSE "failed"
           n == worker[w].done
<1>1. /\ worker[w].at = "progress"
      /\ worker' = [worker EXCEPT ![w] = GoesTo(worker[w], to, n)]
      /\ UNCHANGED <<queue, request>> /\ faults' \in Nat
  BY Works DEF ProgressFails, Fault, JobsInv
<1>2. to \in {NextBatch(w), "failed"}
  OBVIOUS
<1> HIDE DEF to
<1>3. CASE jobs' = [jobs EXCEPT ![JobOf(w)].processed = n]
  BY <1>1, <1>2, <1>3, ProgressWritten
<1>4. CASE UNCHANGED jobs
  <2>1. n \in Counts
    BY AtWork
  <2>2. to \in Places
    BY <1>1, <1>2, AtProgress, Stations
  <2>3. MayGo(w, to, n)
    BY <1>1, <1>2, AtProgress DEF MayGo, WorkerGood, Original, JobOf
  <2>4. QED
    BY <1>1, <1>4, <2>1, <2>2, <2>3, OnlyGoes
<1>5. QED
  BY <1>3, <1>4 DEF ProgressFails

\* process: the job is COMPLETED, and nobody else works on its original entry.
LEMMA CompleteKeeps ==
    ASSUME JobsInv, NEW w \in Workers, Complete(w)
    PROVE  JobsInv'
<1> DEFINE j == JobOf(w)
           old == jobs[j]
           me == worker[w]
           n == me.done
           row == Written(old, "COMPLETED", n)
           s == GoesTo(me, "cleanUp", n)
<1>0. /\ WorkerGood(jobs, queue, me) /\ me \in WorkerStates /\ n \in Counts
      /\ RowsOK /\ WorkersOK /\ OneHolder /\ OneOriginal
      /\ me.at = "complete" /\ worker' = [worker EXCEPT ![w] = s]
      /\ j \in Jobs /\ old # NoJob /\ old \in JobRows
      /\ UNCHANGED <<queue, request>> /\ faults' \in Nat
  BY AtWork, Works DEF Complete, Work, JobsInv
<1>1. jobs' = [jobs EXCEPT ![j] = row]
  <2>1. jobs' = [jobs EXCEPT ![j].status = "COMPLETED", ![j].processed = n]
    BY DEF Complete
  <2> HIDE DEF j, n
  <2>2. jobs \in [Jobs -> JobRows \cup {NoJob}]
    BY <1>0 DEF RowsOK
  <2>3. QED
    BY <1>0, <2>1, <2>2 DEF Written
<1>2. row \in JobRows /\ row.kind = old.kind /\ row.processed = n
  <2> HIDE DEF old, n
  <2>1. QED
    BY <1>0, RowAfter, Columns
<1>3. s \in WorkerStates /\ s.at = "cleanUp" /\ s.done = n /\ s.entry = me.entry
  <2>1. me \in WorkerStates /\ n \in Counts
    BY <1>0
  <2> HIDE DEF n, me
  <2>2. QED
    BY <2>1, Gone, Stations
<1> HIDE DEF row, s
<1>4. /\ n = Batches /\ me.entry \in DOMAIN queue /\ queue[me.entry].state = "active"
      /\ old.kind = "import" => Original(jobs, queue, me.entry)
  BY <1>0 DEF WorkerGood, Original, JobOf
<1>5. WorkerGood(jobs', queue', s)
  BY <1>0, <1>3, <1>4 DEF WorkerGood
<1>6. ASSUME NEW v \in Workers \ {w}, worker[v].at # "idle", Original(jobs, queue, worker[v].entry)
      PROVE  queue[worker[v].entry].job # j
  <2> SUFFICES ASSUME queue[worker[v].entry].job = j PROVE FALSE
    OBVIOUS
  <2>1. worker[v].entry \in DOMAIN queue
    BY <1>0, <1>6 DEF WorkersOK, WorkerGood
  <2>2. Original(jobs, queue, me.entry) /\ queue[me.entry].job = j
    BY <1>4, <1>6 DEF Original, JobOf
  <2>3. worker[v].entry = me.entry
    BY <1>0, <1>4, <1>6, <2>1, <2>2 DEF OneOriginal
  <2>4. QED
    BY <1>0, <1>6, <2>3 DEF OneHolder
<1>7. QED
  BY <1>0, <1>1, <1>2, <1>3, <1>4, <1>5, <1>6, WorkerWrites

\* An entry whose state and tries are written.
EntryTo(e, state, tries) == [e EXCEPT !.state = state, !.tries = tries]
EntryStates == {"waiting", "active", "delayed", "gone"}
Tries == 0 .. Attempts

\* The entry after such a write.
LEMMA EntryAfter ==
    ASSUME NEW e \in Entries, NEW state \in EntryStates, NEW tries \in Tries
    PROVE  /\ EntryTo(e, state, tries) \in Entries /\ EntryTo(e, state, tries).job = e.job
           /\ EntryTo(e, state, tries).stored = e.stored
           /\ EntryTo(e, state, tries).state = state /\ EntryTo(e, state, tries).tries = tries
<1>1. Entries = [job : Jobs, state : EntryStates, tries : Tries, stored : BOOLEAN]
  BY DEF Entries, EntryStates, Tries
<1>2. QED
  BY <1>1 DEF EntryTo

\* The states of an entry.
LEMMA States ==
    "waiting" \in EntryStates /\ "active" \in EntryStates /\ "delayed" \in EntryStates /\ "gone" \in EntryStates
BY DEF EntryStates

\* Only the state changes.
LEMMA StateWritten ==
    ASSUME EntriesOK, NEW i \in DOMAIN queue, NEW state \in EntryStates,
           state \in {"waiting", "delayed"} => queue[i].tries > 0,
           queue' = [queue EXCEPT ![i].state = state]
    PROVE  /\ SameEntries
           /\ queue'[i].state = state
           /\ \A k \in DOMAIN queue \ {i} : queue'[k] = queue[k]
<1> DEFINE old == queue[i]
           tries == old.tries
           e == EntryTo(old, state, tries)
<1>1. old \in Entries
  BY EntryFacts
<1>2. tries \in Tries /\ [old EXCEPT !.state = state] = e
  <2> HIDE DEF old
  <2>1. QED
    BY <1>1 DEF Entries, Tries, EntryTo
<1>3. e \in Entries /\ e.job = old.job /\ e.stored = old.stored /\ e.state = state /\ e.tries = tries
  <2> HIDE DEF old, tries
  <2>1. QED
    BY <1>1, <1>2, EntryAfter
<1>4. queue' = [queue EXCEPT ![i] = e]
  BY <1>2
<1> HIDE DEF e
<1>5. SameEntries /\ \A k \in DOMAIN queue : queue'[k] = IF k = i THEN e ELSE queue[k]
  BY <1>3, <1>4, EntryWritten
<1>6. QED
  BY <1>3, <1>5

\* A worker is done with its entry, and no job becomes COMPLETED.
LEMMA Releases ==
    ASSUME JobsInv, NEW w \in Workers, worker[w].at # "idle",
           NEW state \in {"gone", "delayed"}, state = "delayed" => queue[worker[w].entry].tries > 0,
           queue' = [queue EXCEPT ![worker[w].entry].state = state],
           worker' = [worker EXCEPT ![w] = Idle], RowsKept,
           \A j \in Jobs : jobs[j] # NoJob => (jobs'[j].status = "COMPLETED" => jobs[j].status = "COMPLETED"),
           UNCHANGED request, faults' \in Nat
    PROVE  JobsInv'
<1> DEFINE i == worker[w].entry
<1>0. EntriesOK /\ WorkersOK /\ OneHolder /\ i \in DOMAIN queue /\ state \in EntryStates
  BY AtWork, States DEF JobsInv
<1>1. SameEntries /\ \A k \in DOMAIN queue \ {i} : queue'[k] = queue[k]
  BY <1>0, StateWritten
<1>2. ASSUME NEW v \in Workers \ {w}, worker[v].at # "idle"
      PROVE  ReliedOn(worker[v])
  <2>1. worker[v].entry \in DOMAIN queue \ {i}
    BY <1>0, <1>2 DEF WorkersOK, WorkerGood, OneHolder
  <2>2. queue[worker[v].entry].job \in Jobs /\ jobs[queue[worker[v].entry].job] # NoJob
    BY <1>0, <2>1, EntryFacts
  <2>3. QED
    BY <1>1, <2>1, <2>2 DEF ReliedOn
<1>3. WorkerGood(jobs', queue', Idle) /\ Idle.at = "idle"
  BY IdleGood
<1>4. QED
  BY <1>1, <1>2, <1>3, WorkerStep

\* process ends...
LEMMA CleanUpKeeps ==
    ASSUME JobsInv, NEW w \in Workers, CleanUp(w)
    PROVE  JobsInv'
<1>1. RowsKept /\ UNCHANGED <<jobs, request>> /\ faults' \in Nat
  BY SameRows DEF CleanUp, JobsInv
<1>2. QED
  BY <1>1, Releases DEF CleanUp

\* ...or rethrows.
LEMMA RethrowKeeps ==
    ASSUME JobsInv, NEW w \in Workers, worker[w].at # "idle", Rethrow(w), RowsKept,
           \A j \in Jobs : jobs[j] # NoJob => (jobs'[j].status = "COMPLETED" => jobs[j].status = "COMPLETED"),
           UNCHANGED request, faults' \in Nat
    PROVE  JobsInv'
<1> DEFINE i == worker[w].entry
           state == IF queue[i].tries > 0 THEN "delayed" ELSE "gone"
<1>1. state \in {"gone", "delayed"} /\ (state = "delayed" => queue[i].tries > 0)
  OBVIOUS
<1>2. queue' = [queue EXCEPT ![i].state = state] /\ worker' = [worker EXCEPT ![w] = Idle]
  BY DEF Rethrow
<1> HIDE DEF state
<1>3. QED
  BY <1>1, <1>2, Releases

\* process: the job is FAILED.
LEMMA MarkFailedKeeps ==
    ASSUME JobsInv, NEW w \in Workers, MarkFailed(w)
    PROVE  JobsInv'
<1> DEFINE j == JobOf(w)
           old == jobs[j]
           count == old.processed
           row == Written(old, "FAILED", count)
<1>0. /\ RowsOK /\ worker[w].at # "idle" /\ j \in Jobs /\ old # NoJob /\ old \in JobRows /\ count \in Counts
      /\ UNCHANGED request /\ faults' \in Nat
  BY AtWork, RowOf DEF MarkFailed, JobsInv
<1>1. jobs' = [jobs EXCEPT ![j] = row]
  BY <1>0, WritesStatus DEF MarkFailed
<1>2. row \in JobRows /\ row.kind = old.kind /\ row.status = "FAILED"
  <2> HIDE DEF old, count
  <2>1. QED
    BY <1>0, RowAfter, Columns
<1> HIDE DEF row, j
<1>3. RowsKept /\ \A k \in Jobs : jobs'[k] = IF k = j THEN row ELSE jobs[k]
  BY <1>0, <1>1, <1>2, RowWritten
<1>4. QED
  BY <1>0, <1>2, <1>3, RethrowKeeps DEF MarkFailed

\* process: that write fails too.
LEMMA MarkFailedFailsKeeps ==
    ASSUME JobsInv, NEW w \in Workers, MarkFailedFails(w)
    PROVE  JobsInv'
<1>1. RowsKept /\ UNCHANGED <<jobs, request>> /\ faults' \in Nat /\ worker[w].at # "idle" /\ Rethrow(w)
  BY SameRows DEF MarkFailedFails, Fault, JobsInv
<1>2. QED
  BY <1>1, RethrowKeeps

\* A worker takes an entry, which no other holds.
LEMMA TakeKeeps ==
    ASSUME JobsInv, NEW w \in Workers, NEW i, Take(w, i)
    PROVE  JobsInv'
<1> DEFINE old == queue[i]
           tries == old.tries - 1
           e == EntryTo(old, "active", tries)
           s == [at |-> "start", entry |-> i, done |-> 0]
<1>0. /\ RowsOK /\ EntriesOK /\ WorkersOK /\ i \in DOMAIN queue /\ old.state = "waiting"
      /\ worker' = [worker EXCEPT ![w] = s]
      /\ queue' = [queue EXCEPT ![i].state = "active", ![i].tries = @ - 1]
      /\ UNCHANGED <<jobs, request>> /\ faults' \in Nat
  BY DEF Take, JobsInv
<1>1. old \in Entries /\ i \in Nat /\ old.tries > 0
  BY <1>0, EntryFacts DEF EntriesOK
<1>2. tries \in Tries
  <2> HIDE DEF old
  <2>1. old.tries \in 0 .. Attempts
    BY <1>1 DEF Entries
  <2>2. QED
    BY <1>1, <2>1, JobsAssumptions DEF Tries
<1>3. queue' = [queue EXCEPT ![i] = e]
  <2>1. queue \in Seq(Entries)
    BY <1>0 DEF EntriesOK
  <2>2. QED
    BY <1>0, <2>1 DEF EntryTo
<1>4. e \in Entries /\ e.job = old.job /\ e.stored = old.stored /\ e.state = "active"
  <2> HIDE DEF old, tries
  <2>1. QED
    BY <1>1, <1>2, EntryAfter, States
<1>5. s \in WorkerStates /\ s.at = "start" /\ s.done = 0 /\ s.entry = i
  BY <1>1, JobsAssumptions DEF WorkerStates
<1> HIDE DEF e, s
<1>6. SameEntries /\ \A k \in DOMAIN queue : queue'[k] = IF k = i THEN e ELSE queue[k]
  BY <1>0, <1>3, <1>4, EntryWritten
<1>7. RowsKept
  BY <1>0, SameRows
<1>8. WorkerGood(jobs', queue', s)
  BY <1>0, <1>4, <1>5, <1>6 DEF WorkerGood, SameEntries
<1>9. ASSUME NEW v \in Workers \ {w}, worker[v].at # "idle"
      PROVE  ReliedOn(worker[v]) /\ s.entry # worker[v].entry
  <2>1. worker[v].entry \in DOMAIN queue /\ queue[worker[v].entry].state = "active"
    BY <1>0, <1>9 DEF WorkersOK, WorkerGood
  <2>2. worker[v].entry # i
    BY <1>0, <2>1
  <2>3. QED
    BY <1>0, <1>5, <1>6, <2>1, <2>2 DEF ReliedOn
<1>10. QED
  BY <1>0, <1>6, <1>7, <1>8, <1>9, WorkerStep

\* The backoff of an entry is over.
LEMMA BackoffKeeps ==
    ASSUME JobsInv, NEW i, Backoff(i)
    PROVE  JobsInv'
<1>0. /\ RowsOK /\ EntriesOK /\ WorkersOK /\ RequestsOK /\ OneOriginal
      /\ i \in DOMAIN queue /\ queue[i].state = "delayed"
      /\ queue' = [queue EXCEPT ![i].state = "waiting"]
      /\ UNCHANGED <<jobs, worker, request>> /\ faults' \in Nat
  BY DEF Backoff, JobsInv
<1>1. queue[i].tries > 0
  BY <1>0 DEF EntriesOK
<1>2. SameEntries /\ \A k \in DOMAIN queue \ {i} : queue'[k] = queue[k]
  BY <1>0, <1>1, StateWritten, States
<1>3. RowsKept /\ QueueKept
  BY <1>0, <1>2, SameRows DEF SameEntries, QueueKept
<1>4. RequestsOK'
  <2>1. ASSUME NEW h \in Handlers PROVE RequestGood(jobs', queue', request[h])
    BY <1>0, <1>2, <1>3, RequestKept DEF RequestsOK, SameEntries
  <2>2. QED
    BY <1>0, <2>1 DEF RequestsOK
<1>5. ASSUME NEW v \in Workers, worker[v].at # "idle" PROVE ReliedOn(worker[v])
  <2>1. worker[v].entry \in DOMAIN queue \ {i}
    BY <1>0, <1>5 DEF WorkersOK, WorkerGood
  <2>2. QED
    BY <1>0, <1>2, <2>1 DEF ReliedOn
<1>6. QED
  BY <1>0, <1>2, <1>3, <1>4, <1>5, RequestStep DEF OneOriginal

-----------------------------------------------------------------------------
(***************************************************************************)
(* The theorems.                                                           *)
(***************************************************************************)

\* No job, no entry, nobody at work.
LEMMA JobsInvInit == Init => JobsInv
<1> SUFFICES ASSUME Init PROVE JobsInv
  OBVIOUS
<1>1. RowsOK /\ EntriesOK /\ faults \in Nat
  BY DEF Init, RowsOK, CompletedProcessedAll, EntriesOK
<1>2. WorkersOK /\ OneHolder
  BY IdleGood DEF Init, WorkersOK, OneHolder
<1>3. RequestsOK /\ OneOriginal
  BY IdleGood DEF Init, RequestsOK, OneOriginal
<1>4. QED
  BY <1>1, <1>2, <1>3 DEF JobsInv

\* Every step keeps the invariant.
LEMMA JobsInvStep == JobsInv /\ [Next]_vars => JobsInv'
<1> SUFFICES ASSUME JobsInv, [Next]_vars PROVE JobsInv'
  OBVIOUS
<1>1. ASSUME NEW w \in Workers, Process(w) PROVE JobsInv'
  BY <1>1, TakeKeeps, StartKeeps, LoadKeeps, InsertBatchKeeps, UpdateProgressKeeps, CompleteKeeps,
     CleanUpKeeps, MarkFailedKeeps DEF Process
<1>2. ASSUME NEW w \in Workers, ProgressFails(w) \/ StepFails(w) \/ MarkFailedFails(w) PROVE JobsInv'
  BY <1>2, ProgressFailsKeeps, StepFailsKeeps, MarkFailedFailsKeeps
<1>3. ASSUME NEW h \in Handlers, Respond(h) \/ RequestFails(h) PROVE JobsInv'
  BY <1>3, AddEntryKeeps, FindEntryKeeps, RemoveEntryKeeps, MarkCancelledKeeps, ResetJobKeeps,
     AddAgainKeeps, RequestFailsKeeps DEF Respond
<1>4. ASSUME NEW h \in Handlers, NEW j \in Jobs, Cancel(h, j) \/ Retry(h, j) PROVE JobsInv'
  BY <1>4, BeginKeeps
<1>5. ASSUME NEW h \in Handlers, NEW j \in Jobs, NEW kind \in Kinds, NEW skip \in BOOLEAN,
             Create(h, j, kind, skip)
      PROVE  JobsInv'
  BY <1>5, CreateKeeps
<1>6. ASSUME NEW i, Backoff(i) PROVE JobsInv'
  BY <1>6, BackoffKeeps
<1>7. CASE UNCHANGED vars
  BY <1>7 DEF vars, JobsInv, RowsOK, CompletedProcessedAll, EntriesOK, WorkersOK, RequestsOK,
              OneHolder, OneOriginal
<1>8. QED
  BY <1>1, <1>2, <1>3, <1>4, <1>5, <1>6, <1>7 DEF Next

\* The invariant holds.
LEMMA JobsInvariant == Spec => []JobsInv
<1>1. QED
  BY JobsInvInit, JobsInvStep, PTL DEF Spec

\* Only jobs are left unwritten.
LEMMA UnwrittenStep ==
    ASSUME JobsInv, unwritten \subseteq Jobs, [Next]_vars
    PROVE  unwritten' \subseteq Jobs
<1>1. CASE UNCHANGED unwritten
  BY <1>1
<1>2. ASSUME NEW w \in Workers, MarkFailedFails(w) PROVE unwritten' \subseteq Jobs
  <2>1. JobOf(w) \in Jobs
    BY <1>2, AtWork DEF MarkFailedFails, JobsInv
  <2>2. QED
    BY <1>2, <2>1 DEF MarkFailedFails
<1>3. ASSUME NEW h \in Handlers, RequestFails(h) PROVE unwritten' \subseteq Jobs
  <2>1. request[h].job \in Jobs
    BY <1>3 DEF RequestFails, JobsInv, RequestsOK, RequestGood
  <2>2. QED
    BY <1>3, <2>1 DEF RequestFails
<1>4. ASSUME NEW w \in Workers, Process(w) \/ ProgressFails(w) \/ StepFails(w)
      PROVE  UNCHANGED unwritten
  BY <1>4 DEF Process, Take, Start, Load, InsertBatch, UpdateProgress, Complete, CleanUp, MarkFailed,
              ProgressFails, StepFails
<1>5. ASSUME NEW h \in Handlers, Respond(h) PROVE UNCHANGED unwritten
  BY <1>5 DEF Respond, AddEntry, FindEntry, RemoveEntry, MarkCancelled, ResetJob, AddAgain
<1>6. ASSUME NEW h \in Handlers, NEW j \in Jobs, Cancel(h, j) \/ Retry(h, j) PROVE UNCHANGED unwritten
  BY <1>6 DEF Cancel, Retry
<1>7. ASSUME NEW h \in Handlers, NEW j \in Jobs, NEW kind \in Kinds, NEW skip \in BOOLEAN,
             Create(h, j, kind, skip)
      PROVE  UNCHANGED unwritten
  BY <1>7 DEF Create
<1>8. ASSUME NEW i, Backoff(i) PROVE UNCHANGED unwritten
  BY <1>8 DEF Backoff
<1>9. CASE UNCHANGED vars
  BY <1>9 DEF vars
<1>10. QED
  BY <1>1, <1>2, <1>3, <1>4, <1>5, <1>6, <1>7, <1>8, <1>9 DEF Next

\* Rows, entries, workers and requests have their types; an entry is tried at
\* most Attempts times, and a worker holds an active entry of an existing job,
\* whatever await of a processor or of a request fails.
THEOREM JobsTypeCorrect == Spec => []TypeOK
<1>1. ASSUME JobsInv, unwritten \subseteq Jobs PROVE TypeOK
  <2>1. /\ jobs \in [Jobs -> JobRows \cup {NoJob}] /\ queue \in Seq(Entries)
        /\ worker \in [Workers -> WorkerStates] /\ request \in [Handlers -> RequestStates]
        /\ faults \in Nat
    BY <1>1 DEF JobsInv, RowsOK, EntriesOK, WorkersOK, RequestsOK
  <2>2. ASSUME NEW w \in Workers, worker[w].at # "idle"
        PROVE  /\ worker[w].entry \in DOMAIN queue
               /\ queue[worker[w].entry].state = "active"
               /\ jobs[JobOf(w)] # NoJob
    BY <1>1, <2>2, AtWork DEF WorkerGood
  <2>3. QED
    BY <1>1, <2>1, <2>2 DEF TypeOK
<1>2. Init => unwritten \subseteq Jobs
  BY DEF Init
<1>3. JobsInv /\ unwritten \subseteq Jobs /\ [Next]_vars => (unwritten \subseteq Jobs)'
  BY UnwrittenStep
<1>4. QED
  BY <1>1, <1>2, <1>3, JobsInvariant, PTL DEF Spec

\* A job that process marked COMPLETED has had all its batches processed: the
\* writes of two workers on one job, of a retry that resets the counters, and
\* of progress that fails half-way never leave a COMPLETED job with fewer.
THEOREM CompletedJobsAreProcessed == Spec => []CompletedProcessedAll
<1>1. JobsInv => CompletedProcessedAll
  BY DEF JobsInv, RowsOK
<1>2. QED
  BY <1>1, JobsInvariant, PTL

=============================================================================
