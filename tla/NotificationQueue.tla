--------------------------- MODULE NotificationQueue ---------------------------
(***************************************************************************)
(* The queues for mails, texts and pushes and their processors: a job is    *)
(* tried up to Attempts times; every attempt creates a row, sends, and     *)
(* marks its row SENT; an error marks rows FAILED and the job is tried     *)
(* again.  The worker may stop anywhere, also between the last write and    *)
(* telling the queue that the job is done.                                 *)
(***************************************************************************)
EXTENDS Integers, Sequences, FiniteSets

CONSTANTS AlertMails,   \* mail jobs of alerts, each with an alertId of its own
          Mails,        \* mail jobs of other modules: their alertId is undefined
          Texts,        \* SMS jobs
          Pushes,       \* push jobs
          Attempts,     \* attempts of a job
          MaxJobs       \* bound: jobs of a behaviour

ASSUME QueueAssumption ==
    Attempts \in Nat \ {0} /\ Texts \cap (AlertMails \cup Mails \cup Pushes) = {}

VARIABLES jobs,         \* job -> its state, attempts made, and the row of its current attempt
          rows,         \* the notification rows in the order they were created
          accepted      \* history: messages a provider accepted for each job

queueVars == <<jobs, rows, accepted>>

JobIds == AlertMails \cup Mails \cup Texts \cup Pushes
NoJob == [state |-> "none", tries |-> 0, row |-> 0]
Channel(j) == CASE j \in Texts -> "SMS" [] j \in Pushes -> "PUSH" [] OTHER -> "EMAIL"

QueueInit ==
    /\ jobs = [j \in JobIds |-> NoJob]
    /\ rows = <<>>
    /\ accepted = [j \in JobIds |-> 0]

Fresh(j) == jobs[j] = NoJob /\ Cardinality({k \in JobIds : jobs[k] # NoJob}) < MaxJobs

SendEmail(j) ==
    /\ Channel(j) = "EMAIL" /\ Fresh(j)
    /\ jobs' = [jobs EXCEPT ![j].state = "waiting"]
    /\ UNCHANGED <<rows, accepted>>

SendSms(j) ==
    /\ Channel(j) = "SMS" /\ Fresh(j)
    /\ jobs' = [jobs EXCEPT ![j].state = "waiting"]
    /\ UNCHANGED <<rows, accepted>>

SendPush(j) ==
    /\ Channel(j) = "PUSH" /\ Fresh(j)
    /\ jobs' = [jobs EXCEPT ![j].state = "waiting"]
    /\ UNCHANGED <<rows, accepted>>

CreateNotificationRecord(j) ==
    /\ jobs[j].state = "waiting"
    /\ rows' = Append(rows, [job |-> j, status |-> "PENDING"])
    /\ jobs' = [jobs EXCEPT ![j].state = "sending", ![j].row = Len(rows) + 1]
    /\ UNCHANGED accepted

\* Resend accepts the mail; or it fails, perhaps after accepting it, and SMTP accepts the mail.
ProcessEmail(j, copies) ==
    /\ Channel(j) = "EMAIL" /\ jobs[j].state = "sending"
    /\ accepted' = [accepted EXCEPT ![j] = @ + copies]
    /\ jobs' = [jobs EXCEPT ![j].state = "sent"]
    /\ UNCHANGED rows

ProcessPush(j) ==
    /\ Channel(j) = "PUSH" /\ jobs[j].state = "sending"
    /\ accepted' = [accepted EXCEPT ![j] = @ + 1]
    /\ jobs' = [jobs EXCEPT ![j].state = "sent"]
    /\ UNCHANGED rows

\* Nothing is sent: without Twilio's settings the row is marked SENT, with them it stays PENDING.
ProcessSms(j, isConfigured) ==
    /\ Channel(j) = "SMS" /\ jobs[j].state = "sending"
    /\ jobs' = [jobs EXCEPT ![j].state = IF isConfigured THEN "done" ELSE "sent"]
    /\ UNCHANGED <<rows, accepted>>

\* The row is found by its id, so it becomes SENT also when another job's error marked it FAILED.
MarkSent(j) ==
    /\ jobs[j].state = "sent"
    /\ rows' = [rows EXCEPT ![jobs[j].row].status = "SENT"]
    /\ jobs' = [jobs EXCEPT ![j].state = "done"]
    /\ UNCHANGED accepted

\* The queue's part when an attempt ended badly.
Retry(job) == [job EXCEPT !.tries = @ + 1, !.state = IF job.tries + 1 < Attempts THEN "waiting" ELSE "failed"]

Swept_AnyStatus(j) == {r \in DOMAIN rows : /\ Channel(rows[r].job) = Channel(j)
                                           /\ j \notin AlertMails \/ rows[r].job = j}

\* The rows an error marks FAILED: the pending ones of its channel with the same alertId, and for a
\* job without one all pending ones of its channel, since an undefined alertId is no condition.
Swept(j) == {r \in DOMAIN rows : /\ rows[r].status = "PENDING"
                                 /\ Channel(rows[r].job) = Channel(j)
                                 /\ j \notin AlertMails \/ rows[r].job = j}

\* The row could not be created or updated, or sending failed, perhaps after the provider accepted
\* the message (timedOut); the rows are marked unless that fails too.
Fail(j, timedOut, marks) ==
    /\ jobs[j].state \in {"waiting", "sending", "sent"}
    /\ timedOut => jobs[j].state = "sending" /\ Channel(j) # "SMS"
    /\ accepted' = IF timedOut THEN [accepted EXCEPT ![j] = @ + 1] ELSE accepted
    /\ rows' = [r \in DOMAIN rows |-> IF marks /\ r \in Swept(j) THEN [rows[r] EXCEPT !.status = "FAILED"]
                                      ELSE rows[r]]
    /\ jobs' = [jobs EXCEPT ![j] = Retry(@)]

\* The worker stops; the queue finds the job stalled and hands it out again, or gives it up.
WorkerCrash(j) ==
    /\ jobs[j].state \in {"sending", "sent", "done"}
    /\ jobs' = [jobs EXCEPT ![j] = Retry(@)]
    /\ UNCHANGED <<rows, accepted>>

Acknowledge(j) ==
    /\ jobs[j].state = "done"
    /\ jobs' = [jobs EXCEPT ![j].state = "completed"]
    /\ UNCHANGED <<rows, accepted>>

QueueNext ==
    \E j \in JobIds :
        \/ SendEmail(j) \/ SendSms(j) \/ SendPush(j)
        \/ CreateNotificationRecord(j) \/ MarkSent(j) \/ Acknowledge(j) \/ WorkerCrash(j)
        \/ \E copies \in 1..2 : ProcessEmail(j, copies)
        \/ ProcessPush(j)
        \/ \E isConfigured \in BOOLEAN : ProcessSms(j, isConfigured)
        \/ \E timedOut, marks \in BOOLEAN : Fail(j, timedOut, marks)

QueueSpec == QueueInit /\ [][QueueNext]_queueVars

(***************************************************************************)
(* Properties.                                                             *)
(***************************************************************************)
\* A job that fails marks the rows of other jobs too, and an attempt may be
\* repeated after it has succeeded.  Still the record tells no success that was
\* none and loses none that the queue knows of: there are never more SENT rows for
\* a mail or push than messages its provider accepted, and a completed job keeps
\* the SENT row of its last attempt.
SentRowPerMail ==
    \A j \in AlertMails \cup Mails \cup Pushes :
        /\ Cardinality({r \in DOMAIN rows : rows[r].job = j /\ rows[r].status = "SENT"}) <= accepted[j]
        /\ jobs[j].state = "completed" => rows[jobs[j].row].status = "SENT"

==============================================================================
