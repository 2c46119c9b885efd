------------------------- MODULE SellerApplications -------------------------
(***************************************************************************)
(* Seller applications: a user applies to become a seller (role ADMIN) and *)
(* may replace documents; admins review documents, ask for resubmission,   *)
(* approve and reject.  RequestQueueService and SellerVerificationService  *)
(* work on the same rows of the request_queue table, each call being a     *)
(* read and, an await later, a write of what the call made of that read.   *)
(* A bulk approval or rejection is a sequence of single ones.              *)
(*                                                                         *)
(* The payload of a row is one document, standing for each of the three,   *)
(* its review, and the mark that a resubmission was asked for.  Documents  *)
(* are numbered in the order in which they are uploaded.                   *)
(***************************************************************************)
EXTENDS Integers, Sequences, FiniteSets

CONSTANTS
    Handlers,
    Users, NoUser,
    Decisions,      \* what a reviewer may decide on a document
    MaxApps,        \* bound on the applications
    MaxUploads,     \* bound on the documents uploaded
    MaxFaults       \* bound on the database calls that fail

ASSUME SellerAssumptions ==
    /\ IsFiniteSet(Handlers) /\ NoUser \notin Users
    /\ Decisions \subseteq {"APPROVED", "REJECTED", "RESUBMISSION_REQUIRED"}
    /\ MaxApps \in Nat /\ MaxUploads \in Nat /\ MaxFaults \in Nat

VARIABLES
    role,       \* the role of each user
    apps,       \* request_queue: the seller applications, oldest first
    uploads,    \* the number of documents uploaded so far
    at, job,    \* where each handler is, and what it has read
    faults      \* the database calls that have failed

vars == <<role, apps, uploads, at, job, faults>>

NoApp == 0

ReviewStatuses == {"PENDING", "APPROVED", "REJECTED", "RESUBMISSION_REQUIRED"}

\* The payload of a new application.  review is the status of the document's
\* review, and of the document that the review was made of.
NewPayload(doc) == [doc |-> doc, review |-> "PENDING", of |-> 0, resubmit |-> FALSE]

IdleJob == [user |-> NoUser, app |-> NoApp, payload |-> NewPayload(0)]

Init ==
    /\ role = [u \in Users |-> "USER"]
    /\ apps = << >>
    /\ uploads = 0
    /\ at = [h \in Handlers |-> "idle"]
    /\ job = [h \in Handlers |-> IdleJob]
    /\ faults = 0

-----------------------------------------------------------------------------
\* A handler moves on, and forgets what it knew when the request ends.
Goto(h, from, to, known) ==
    /\ at[h] = from
    /\ at' = [at EXCEPT ![h] = to]
    /\ job' = [job EXCEPT ![h] = IF to = "idle" THEN IdleJob ELSE known]

\* A handler has read an application, of which it will use the payload or not.
Reads(h, a, to, payload) ==
    /\ Goto(h, "idle", to, [user |-> apps[a].user, app |-> a, payload |-> payload])
    /\ UNCHANGED <<role, apps, uploads, faults>>

\* It writes the application, whatever has become of it since.
Writes(h, from, to, row) ==
    /\ Goto(h, from, to, job[h])
    /\ apps' = [apps EXCEPT ![job[h].app] = row]
    /\ UNCHANGED <<role, faults>>

Row(h) == apps[job[h].app]

-----------------------------------------------------------------------------
\* createRoleChangeRequest: only a USER may apply.
Apply(h, u) ==
    /\ role[u] = "USER"
    /\ Goto(h, "idle", "checkPending", [IdleJob EXCEPT !.user = u])
    /\ UNCHANGED <<role, apps, uploads, faults>>

Pending(u) == {a \in DOMAIN apps : apps[a].user = u /\ apps[a].status = "PENDING"}

\* createRoleChangeRequest: not while an application is pending.
CheckPending(h) ==
    /\ Goto(h, "checkPending", IF Pending(job[h].user) = {} THEN "create" ELSE "idle", job[h])
    /\ UNCHANGED <<role, apps, uploads, faults>>

CreateApplication(h) ==
    /\ Len(apps) < MaxApps /\ uploads < MaxUploads
    /\ Goto(h, "create", "idle", job[h])
    /\ apps' = Append(apps, [user |-> job[h].user, status |-> "PENDING",
                             payload |-> NewPayload(uploads + 1)])
    /\ uploads' = uploads + 1
    /\ UNCHANGED <<role, faults>>

-----------------------------------------------------------------------------
\* approveRoleRequest
Approve(h, a) ==
    /\ a \in DOMAIN apps
    /\ apps[a].status = "PENDING"
    /\ Reads(h, a, "markProcessing", NewPayload(0))

MarkProcessing(h) ==
    /\ Writes(h, "markProcessing", "promote", [Row(h) EXCEPT !.status = "PROCESSING"])
    /\ UNCHANGED uploads

\* Mutant: the application is completed before the role is granted.
Promote_Later(h) ==
    /\ Goto(h, "promote", "complete", job[h])
    /\ UNCHANGED <<role, apps, uploads, faults>>

\* approveRoleRequest: the role that was requested is granted.
Promote(h) ==
    /\ Goto(h, "promote", "complete", job[h])
    /\ role' = [role EXCEPT ![job[h].user] = "ADMIN"]
    /\ UNCHANGED <<apps, uploads, faults>>

Complete(h) ==
    /\ Writes(h, "complete", "idle", [Row(h) EXCEPT !.status = "COMPLETED"])
    /\ UNCHANGED uploads

\* approveRoleRequest: what its catch clause does.
MarkFailed(h) ==
    /\ Writes(h, "markFailed", "idle", [Row(h) EXCEPT !.status = "FAILED"])
    /\ UNCHANGED uploads

\* Mutant: the new status is one that the table does not know.
MarkRejected_Status(h) ==
    /\ Writes(h, "markRejected", "idle", [Row(h) EXCEPT !.status = "REJECTED"])
    /\ UNCHANGED uploads

\* rejectRoleRequest
Reject(h, a) ==
    /\ a \in DOMAIN apps
    /\ apps[a].status = "PENDING"
    /\ Reads(h, a, "markRejected", NewPayload(0))

MarkRejected(h) ==
    /\ Writes(h, "markRejected", "idle", [Row(h) EXCEPT !.status = "FAILED"])
    /\ UNCHANGED uploads

-----------------------------------------------------------------------------
Open(u) == {a \in DOMAIN apps : /\ apps[a].user = u
                                /\ apps[a].status \in {"PENDING", "PROCESSING"}}

\* updateDocuments: the latest open application of the user.
UpdateDocuments(h, u) ==
    \E a \in Open(u) :
        /\ \A b \in Open(u) : b <= a
        /\ Reads(h, a, "writeDocuments", apps[a].payload)

\* Mutant: the review of a document that is replaced is kept.
WithDocument_ReviewKept(payload, doc) == [payload EXCEPT !.doc = doc]

\* updateDocuments: a new document, and its review starts again.
WithDocument(payload, doc) ==
    [payload EXCEPT !.doc = doc, !.review = "PENDING", !.of = 0]

\* updateDocuments: the status is PENDING again.  The update may be of the
\* other documents.
WriteDocuments(h) ==
    \/ /\ Writes(h, "writeDocuments", "idle",
                 [Row(h) EXCEPT !.status = "PENDING", !.payload = job[h].payload])
       /\ UNCHANGED uploads
    \/ /\ uploads < MaxUploads
       /\ Writes(h, "writeDocuments", "idle",
                 [Row(h) EXCEPT !.status = "PENDING",
                                !.payload = WithDocument(job[h].payload, uploads + 1)])
       /\ uploads' = uploads + 1

\* reviewDocument
Review(h, a) ==
    /\ a \in DOMAIN apps
    /\ Reads(h, a, "writeReview", apps[a].payload)

\* The review of the document that the payload holds.
Reviewed(payload, decision) ==
    [payload EXCEPT !.review = decision, !.of = payload.doc]

WriteReview(h, decision) ==
    /\ Writes(h, "writeReview", "idle",
              [Row(h) EXCEPT !.payload = Reviewed(job[h].payload, decision)])
    /\ UNCHANGED uploads

\* requestResubmission, of an application in any state.
RequestResubmission(h, a) ==
    /\ a \in DOMAIN apps
    /\ Reads(h, a, "writeResubmission", apps[a].payload)

\* requestResubmission: this document, or others, are to be submitted again.
WriteResubmission(h) ==
    /\ \E payload \in {job[h].payload, Reviewed(job[h].payload, "RESUBMISSION_REQUIRED")} :
            Writes(h, "writeResubmission", "idle",
                   [Row(h) EXCEPT !.status = "PENDING",
                                  !.payload = [payload EXCEPT !.resubmit = TRUE]])
    /\ UNCHANGED uploads

-----------------------------------------------------------------------------
\* Mutant: the exception leaves the approval at once.
Caught_Nowhere(h) == FALSE

\* The exception is caught: it comes from the try block of approveRoleRequest.
Caught(h) == at[h] \in {"promote", "complete"}

\* A database call fails: its exception ends the request or is caught.
DatabaseFails(h) ==
    /\ at[h] # "idle"
    /\ faults < MaxFaults
    /\ Goto(h, at[h], IF Caught(h) THEN "markFailed" ELSE "idle", job[h])
    /\ faults' = faults + 1
    /\ UNCHANGED <<role, apps, uploads>>

Next ==
    \E h \in Handlers :
        \/ \E u \in Users : Apply(h, u) \/ UpdateDocuments(h, u)
        \/ \E a \in 1 .. MaxApps :
                Approve(h, a) \/ Reject(h, a) \/ Review(h, a) \/ RequestResubmission(h, a)
        \/ CheckPending(h) \/ CreateApplication(h)
        \/ MarkProcessing(h) \/ Promote(h) \/ Complete(h) \/ MarkFailed(h)
        \/ MarkRejected(h) \/ WriteDocuments(h) \/ WriteResubmission(h)
        \/ \E decision \in Decisions : WriteReview(h, decision)
        \/ DatabaseFails(h)

Spec == Init /\ [][Next]_vars

-----------------------------------------------------------------------------
Payloads ==
    [doc : Nat, review : ReviewStatuses, of : Nat, resubmit : BOOLEAN]

Locations ==
    {"idle", "checkPending", "create", "markProcessing", "promote", "complete",
     "markFailed", "markRejected", "writeDocuments", "writeReview", "writeResubmission"}

Rows ==
    [user : Users, status : {"PENDING", "PROCESSING", "COMPLETED", "FAILED"}, payload : Payloads]

Jobs == [user : Users \cup {NoUser}, app : Nat, payload : Payloads]

\* Rows, roles and handlers have their types, and a handler past its read of an
\* application holds the id of one.
TypeOK ==
    /\ role \in [Users -> {"USER", "ADMIN"}]
    /\ apps \in Seq(Rows)
    /\ uploads \in Nat
    /\ at \in [Handlers -> Locations]
    /\ job \in [Handlers -> Jobs]
    /\ faults \in Nat
    /\ \A h \in Handlers : at[h] \in {"checkPending", "create"} => job[h].user \in Users
    /\ \A h \in Handlers : at[h] \notin {"idle", "checkPending", "create"}
                            => job[h].app \in DOMAIN apps /\ job[h].user = Row(h).user

\* However approvals, rejections, resubmissions and failures interleave, the
\* applicant of a COMPLETED application is a seller: approveRoleRequest grants
\* the role before it completes the application, and no call of the two services
\* takes it back (an administrator may, by changing the role directly).
CompletedIsSeller ==
    \A a \in DOMAIN apps : apps[a].status = "COMPLETED" => role[apps[a].user] = "ADMIN"

\* One failing database call leaves no application PROCESSING, where nobody
\* could approve or reject it: approveRoleRequest catches what fails after it
\* has marked the application, and overlapping calls do not undo that.
NoneLeftProcessing ==
    faults <= 1 /\ (\A h \in Handlers : at[h] = "idle")
        => \A a \in DOMAIN apps : apps[a].status # "PROCESSING"

Paired(payload) == payload.review # "PENDING" => payload.of = payload.doc

\* A review belongs to the document it stands beside: updateDocuments starts the
\* review again, and neither it nor reviewDocument or requestResubmission, which
\* write back payloads that may be out of date, pairs a review with another
\* document.
ReviewIsOfDocument ==
    \A a \in DOMAIN apps : Paired(apps[a].payload)

\* What the reject route documents ("User's role stays as USER"): when no call
\* is under way, the applicant of a FAILED application is no seller, unless
\* another application of the user was approved.
RejectedStaysUser ==
    (\A h \in Handlers : at[h] = "idle")
        => \A a \in DOMAIN apps :
            apps[a].status = "FAILED" =>
                \/ role[apps[a].user] = "USER"
                \/ \E b \in DOMAIN apps : apps[b].user = apps[a].user
                                           /\ apps[b].status = "COMPLETED"

=============================================================================
