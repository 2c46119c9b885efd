------------------------ MODULE SellerAndCacheProofs ------------------------
(***************************************************************************)
(* What SellerApplications keeps for any number of users, applications and *)
(* overlapping calls, and what the cached views keep for any number of     *)
(* writes.  The two share no state: each has its own inductive invariant.  *)
(***************************************************************************)
EXTENDS SellerApplications, CacheAside, SequenceTheorems, TLAPS

NoRow == {"idle", "checkPending", "create"}

\* Where an approval has marked its application and has yet to settle it.
Approving == {"promote", "complete", "markFailed"}

\* An approval that is about to complete its application has granted the role.
GrantedFirst ==
    \A h \in Handlers : at[h] = "complete" => role[job[h].user] = "ADMIN"

\* What a handler has read and will write back is paired too.
ReadsPaired == \A h \in Handlers : Paired(job[h].payload)

\* An application is PROCESSING only while an approval works on it, unless two
\* database calls have failed; the catch clause runs only after one has.
ProcessingHasApproval ==
    \A a \in DOMAIN apps : apps[a].status = "PROCESSING" =>
        \/ faults >= 2
        \/ \E h \in Handlers : at[h] \in Approving /\ job[h].app = a

FailedHasFault == \A h \in Handlers : at[h] = "markFailed" => faults >= 1

IInv ==
    /\ TypeOK
    /\ CompletedIsSeller /\ GrantedFirst
    /\ ReviewIsOfDocument /\ ReadsPaired
    /\ ProcessingHasApproval /\ FailedHasFault

-----------------------------------------------------------------------------
\* The payloads the service builds are paired payloads.
LEMMA PayloadFacts ==
    /\ \A n \in Nat : NewPayload(n) \in Payloads /\ Paired(NewPayload(n))
    /\ \A p \in Payloads, n \in Nat : /\ WithDocument(p, n) \in Payloads
                                      /\ Paired(WithDocument(p, n))
    /\ \A p \in Payloads, d \in ReviewStatuses : /\ Reviewed(p, d) \in Payloads
                                                 /\ Paired(Reviewed(p, d))
    /\ \A p \in Payloads : /\ [p EXCEPT !.resubmit = TRUE] \in Payloads
                           /\ Paired(p) => Paired([p EXCEPT !.resubmit = TRUE])
  BY DEF NewPayload, Payloads, Paired, ReviewStatuses, WithDocument, Reviewed

\* A handler at rest holds a paired payload.
LEMMA IdleFacts == IdleJob \in Jobs /\ Paired(IdleJob.payload)
  BY PayloadFacts DEF IdleJob, Jobs, NoApp

\* The invariant holds at the start.
LEMMA InvInit == Init => IInv
<1> SUFFICES ASSUME Init PROVE IInv
  OBVIOUS
<1>1. apps \in Seq(Rows) /\ DOMAIN apps = {}
  BY DEF Init
<1>2. TypeOK
  BY <1>1, IdleFacts DEF Init, TypeOK, Locations
<1> QED
  BY <1>1, <1>2, IdleFacts
     DEF Init, IInv, CompletedIsSeller, GrantedFirst, ReviewIsOfDocument, ReadsPaired,
         ProcessingHasApproval, FailedHasFault

-----------------------------------------------------------------------------
\* A step of h leaves the other handlers where they are.
LEMMA GotoFacts ==
    ASSUME TypeOK, NEW h \in Handlers, NEW from, NEW to \in Locations, NEW known \in Jobs,
           Goto(h, from, to, known)
    PROVE  /\ at' \in [Handlers -> Locations] /\ job' \in [Handlers -> Jobs]
           /\ at[h] = from /\ at'[h] = to
           /\ job'[h] = IF to = "idle" THEN IdleJob ELSE known
           /\ \A g \in Handlers \ {h} : at'[g] = at[g] /\ job'[g] = job[g]
  BY IdleFacts DEF TypeOK, Goto

\* A call that reads an application.
LEMMA ReadKeeps ==
    ASSUME IInv, NEW h \in Handlers, NEW a \in DOMAIN apps,
           NEW to \in {"markProcessing", "markRejected", "writeDocuments", "writeReview",
                       "writeResubmission"},
           NEW payload \in Payloads, Paired(payload),
           Reads(h, a, to, payload)
    PROVE  IInv'
<1> DEFINE known == [user |-> apps[a].user, app |-> a, payload |-> payload]
<1>1. apps[a] \in Rows /\ a \in Nat
  BY DEF IInv, TypeOK
<1>2. known \in Jobs /\ known.user = apps[a].user /\ known.app = a /\ Paired(known.payload)
  BY <1>1 DEF Rows, Jobs
<1>3. to \in Locations /\ Goto(h, "idle", to, known) /\ TypeOK
  BY DEF Reads, Locations, IInv
<1>4. UNCHANGED <<role, apps, uploads, faults>>
  BY DEF Reads
<1> HIDE DEF known
<1>5. /\ at' \in [Handlers -> Locations] /\ job' \in [Handlers -> Jobs]
      /\ at[h] = "idle" /\ at'[h] = to /\ job'[h] = known
      /\ \A g \in Handlers \ {h} : at'[g] = at[g] /\ job'[g] = job[g]
  BY <1>2, <1>3 DEF TypeOK, Goto
<1>6. TypeOK'
  BY <1>2, <1>3, <1>4, <1>5 DEF TypeOK, Row
<1>7. (CompletedIsSeller /\ GrantedFirst)'
  BY <1>4, <1>5 DEF IInv, CompletedIsSeller, GrantedFirst
<1>8. (ReviewIsOfDocument /\ ReadsPaired)'
  BY <1>2, <1>4, <1>5 DEF IInv, ReviewIsOfDocument, ReadsPaired
<1>9. (ProcessingHasApproval /\ FailedHasFault)'
  <2>1. FailedHasFault'
    BY <1>4, <1>5 DEF IInv, FailedHasFault
  <2>2. ASSUME NEW b \in DOMAIN apps, apps[b].status = "PROCESSING", ~ (faults >= 2)
        PROVE  \E g \in Handlers : at'[g] \in Approving /\ job'[g].app = b
    <3>1. PICK g \in Handlers : at[g] \in Approving /\ job[g].app = b
      BY <2>2 DEF IInv, ProcessingHasApproval
    <3>2. g # h
      BY <3>1, <1>5 DEF Approving
    <3> QED
      BY <3>1, <3>2, <1>5
  <2> QED
    BY <2>1, <2>2, <1>4 DEF ProcessingHasApproval
<1> QED
  BY <1>6, <1>7, <1>8, <1>9 DEF IInv

\* A call that writes its application, over whatever it has become.
LEMMA WriteKeeps ==
    ASSUME IInv, NEW h \in Handlers, NEW from \in Locations \ NoRow,
           NEW to \in {"idle", "promote"}, NEW row \in Rows,
           row.user = Row(h).user,
           Paired(row.payload),
           row.status = "COMPLETED" => role[row.user] = "ADMIN",
           row.status = "PROCESSING" =>
                \/ to = "promote"
                \/ Row(h).status = "PROCESSING" /\ from \notin Approving,
           Writes(h, from, to, row), uploads' \in Nat
    PROVE  IInv'
<1>1. TypeOK /\ to \in Locations /\ job[h] \in Jobs /\ Goto(h, from, to, job[h])
  BY DEF IInv, TypeOK, Locations, Writes
<1>2. /\ at' \in [Handlers -> Locations] /\ job' \in [Handlers -> Jobs]
      /\ at[h] = from /\ at'[h] = to
      /\ job'[h] = IF to = "idle" THEN IdleJob ELSE job[h]
      /\ \A g \in Handlers \ {h} : at'[g] = at[g] /\ job'[g] = job[g]
  BY <1>1, GotoFacts
<1>3. job[h].app \in 1 .. Len(apps) /\ job[h].user = Row(h).user
  BY <1>1, <1>2 DEF TypeOK, NoRow
<1>4. /\ apps' \in Seq(Rows) /\ DOMAIN apps' = DOMAIN apps
      /\ \A b \in DOMAIN apps : apps'[b] = IF b = job[h].app THEN row ELSE apps[b]
      /\ apps \in Seq(Rows) /\ DOMAIN apps = 1 .. Len(apps)
  BY <1>1, <1>3, ExceptSeq DEF Writes, TypeOK
<1>5. UNCHANGED <<role, faults>>
  BY DEF Writes
<1>6. \A b \in DOMAIN apps : apps'[b].user = apps[b].user
  BY <1>3, <1>4 DEF Row
<1>7. TypeOK'
  <2>1. ASSUME NEW g \in Handlers, at'[g] \in {"checkPending", "create"}
        PROVE  job'[g].user \in Users
    BY <2>1, <1>1, <1>2 DEF TypeOK
  <2>2. ASSUME NEW g \in Handlers, at'[g] \notin NoRow
        PROVE  job'[g].app \in DOMAIN apps /\ job'[g].user = apps[job'[g].app].user
    BY <2>2, <1>1, <1>2, <1>3 DEF TypeOK, NoRow, Row
  <2> QED
    BY <2>1, <2>2, <1>1, <1>2, <1>4, <1>5, <1>6 DEF TypeOK, NoRow, Row
<1>8. (CompletedIsSeller /\ GrantedFirst)'
  BY <1>2, <1>4, <1>5 DEF IInv, CompletedIsSeller, GrantedFirst
<1>9. (ReviewIsOfDocument /\ ReadsPaired)'
  BY <1>2, <1>4, IdleFacts DEF IInv, ReviewIsOfDocument, ReadsPaired
<1>10. (ProcessingHasApproval /\ FailedHasFault)'
  <2>1. FailedHasFault'
    BY <1>2, <1>5 DEF IInv, FailedHasFault
  <2>2. ASSUME NEW b \in DOMAIN apps, apps'[b].status = "PROCESSING", ~ (faults >= 2)
        PROVE  \E g \in Handlers : at'[g] \in Approving /\ job'[g].app = b
    <3>1. CASE b = job[h].app /\ to = "promote"
      BY <3>1, <1>2 DEF Approving
    <3>2. CASE b = job[h].app /\ to # "promote"
      <4>1. apps[b].status = "PROCESSING" /\ from \notin Approving
        BY <3>2, <2>2, <1>4 DEF Row
      <4>2. PICK g \in Handlers : at[g] \in Approving /\ job[g].app = b
        BY <4>1, <2>2 DEF IInv, ProcessingHasApproval
      <4> QED
        BY <4>1, <4>2, <1>2
    <3>3. CASE b # job[h].app
      <4>1. PICK g \in Handlers : at[g] \in Approving /\ job[g].app = b
        BY <3>3, <2>2, <1>4 DEF IInv, ProcessingHasApproval
      <4> QED
        BY <3>3, <4>1, <1>2
    <3> QED
      BY <3>1, <3>2, <3>3
  <2> QED
    BY <2>1, <2>2, <1>4, <1>5 DEF ProcessingHasApproval
<1> QED
  BY <1>7, <1>8, <1>9, <1>10 DEF IInv

-----------------------------------------------------------------------------
\* The calls that read, and the row that each write makes.
LEMMA ReadersKeep ==
    ASSUME IInv, NEW h \in Handlers
    PROVE  /\ \A a : Approve(h, a) => IInv'
           /\ \A a : Reject(h, a) => IInv'
           /\ \A a : Review(h, a) => IInv'
           /\ \A a : RequestResubmission(h, a) => IInv'
           /\ \A u : UpdateDocuments(h, u) => IInv'
<1>1. NewPayload(0) \in Payloads /\ Paired(NewPayload(0))
  BY PayloadFacts
<1>2. \A a \in DOMAIN apps : apps[a].payload \in Payloads /\ Paired(apps[a].payload)
  <2>1. \A a \in DOMAIN apps : apps[a] \in Rows
    BY DEF IInv, TypeOK
  <2> QED
    BY <2>1 DEF IInv, Rows, ReviewIsOfDocument
<1>3. ASSUME NEW a, Approve(h, a) PROVE IInv'
  BY <1>1, <1>3, ReadKeeps DEF Approve
<1>4. ASSUME NEW a, Reject(h, a) PROVE IInv'
  BY <1>1, <1>4, ReadKeeps DEF Reject
<1>5. ASSUME NEW a, Review(h, a) PROVE IInv'
  BY <1>2, <1>5, ReadKeeps DEF Review
<1>6. ASSUME NEW a, RequestResubmission(h, a) PROVE IInv'
  BY <1>2, <1>6, ReadKeeps DEF RequestResubmission
<1>7. ASSUME NEW u, UpdateDocuments(h, u) PROVE IInv'
  BY <1>2, <1>7, ReadKeeps DEF UpdateDocuments, Open
<1> QED
  BY <1>3, <1>4, <1>5, <1>6, <1>7

\* The writes that end a processing step.
LEMMA WritersKeep ==
    ASSUME IInv, NEW h \in Handlers
    PROVE  /\ MarkProcessing(h) => IInv'
           /\ Complete(h) => IInv'
           /\ MarkFailed(h) => IInv'
           /\ MarkRejected(h) => IInv'
           /\ WriteDocuments(h) => IInv'
           /\ \A d \in Decisions : WriteReview(h, d) => IInv'
           /\ WriteResubmission(h) => IInv'
<1>1. TypeOK /\ uploads \in Nat
  BY DEF IInv, TypeOK
<1>2. at[h] \notin NoRow => /\ Row(h) \in Rows /\ Paired(Row(h).payload)
                             /\ job[h].user = Row(h).user
  BY <1>1 DEF IInv, TypeOK, NoRow, Row, ReviewIsOfDocument
<1>3. job[h].payload \in Payloads /\ Paired(job[h].payload)
  BY <1>1 DEF IInv, TypeOK, Jobs, ReadsPaired
<1>4. ASSUME MarkProcessing(h) PROVE IInv'
  <2> DEFINE row == [Row(h) EXCEPT !.status = "PROCESSING"]
  <2>1. at[h] = "markProcessing" /\ uploads' = uploads /\ Writes(h, "markProcessing", "promote", row)
    BY <1>4 DEF MarkProcessing, Writes, Goto
  <2>2. /\ row \in Rows /\ row.user = Row(h).user /\ row.status = "PROCESSING"
        /\ row.payload = Row(h).payload
    BY <1>2, <2>1 DEF Rows, NoRow
  <2> HIDE DEF row
  <2> QED
    BY <1>1, <1>2, <2>1, <2>2, WriteKeeps DEF Locations, NoRow
<1>5. ASSUME Complete(h) PROVE IInv'
  <2> DEFINE row == [Row(h) EXCEPT !.status = "COMPLETED"]
  <2>1. at[h] = "complete" /\ uploads' = uploads /\ Writes(h, "complete", "idle", row)
    BY <1>5 DEF Complete, Writes, Goto
  <2>2. /\ row \in Rows /\ row.user = Row(h).user /\ row.status = "COMPLETED"
        /\ row.payload = Row(h).payload
    BY <1>2, <2>1 DEF Rows, NoRow
  <2>3. role[row.user] = "ADMIN"
    BY <1>2, <2>1, <2>2 DEF IInv, GrantedFirst, NoRow
  <2> HIDE DEF row
  <2> QED
    BY <1>1, <1>2, <2>1, <2>2, <2>3, WriteKeeps DEF Locations, NoRow
<1>6. ASSUME MarkFailed(h) PROVE IInv'
  <2> DEFINE row == [Row(h) EXCEPT !.status = "FAILED"]
  <2>1. at[h] = "markFailed" /\ uploads' = uploads /\ Writes(h, "markFailed", "idle", row)
    BY <1>6 DEF MarkFailed, Writes, Goto
  <2>2. /\ row \in Rows /\ row.user = Row(h).user /\ row.status = "FAILED"
        /\ row.payload = Row(h).payload
    BY <1>2, <2>1 DEF Rows, NoRow
  <2> HIDE DEF row
  <2> QED
    BY <1>1, <1>2, <2>1, <2>2, WriteKeeps DEF Locations, NoRow
<1>7. ASSUME MarkRejected(h) PROVE IInv'
  <2> DEFINE row == [Row(h) EXCEPT !.status = "FAILED"]
  <2>1. at[h] = "markRejected" /\ uploads' = uploads /\ Writes(h, "markRejected", "idle", row)
    BY <1>7 DEF MarkRejected, Writes, Goto
  <2>2. /\ row \in Rows /\ row.user = Row(h).user /\ row.status = "FAILED"
        /\ row.payload = Row(h).payload
    BY <1>2, <2>1 DEF Rows, NoRow
  <2> HIDE DEF row
  <2> QED
    BY <1>1, <1>2, <2>1, <2>2, WriteKeeps DEF Locations, NoRow
<1>8. ASSUME NEW p \in Payloads, Paired(p), uploads' \in Nat,
             NEW from \in {"writeDocuments", "writeResubmission"},
             Writes(h, from, "idle", [Row(h) EXCEPT !.status = "PENDING", !.payload = p])
      PROVE  IInv'
  <2> DEFINE row == [Row(h) EXCEPT !.status = "PENDING", !.payload = p]
  <2>1. at[h] = from /\ Writes(h, from, "idle", row)
    BY <1>8 DEF Writes, Goto
  <2>2. /\ row \in Rows /\ row.user = Row(h).user /\ row.status = "PENDING"
        /\ row.payload = p
    BY <1>2, <2>1 DEF Rows, NoRow
  <2> HIDE DEF row
  <2> QED
    BY <1>1, <1>8, <2>1, <2>2, WriteKeeps DEF Locations, NoRow
<1>9. ASSUME WriteDocuments(h) PROVE IInv'
  <2>1. WithDocument(job[h].payload, uploads + 1) \in Payloads
        /\ Paired(WithDocument(job[h].payload, uploads + 1)) /\ uploads + 1 \in Nat
    BY <1>1, <1>3, PayloadFacts
  <2> QED
    BY <1>1, <1>3, <1>8, <1>9, <2>1 DEF WriteDocuments
<1>10. ASSUME NEW d \in Decisions, WriteReview(h, d) PROVE IInv'
  <2> DEFINE p == Reviewed(job[h].payload, d)
  <2> DEFINE row == [Row(h) EXCEPT !.payload = p]
  <2>1. at[h] = "writeReview" /\ uploads' = uploads /\ Writes(h, "writeReview", "idle", row)
    BY <1>10 DEF WriteReview, Writes, Goto
  <2>2. p \in Payloads /\ Paired(p)
    BY <1>3, PayloadFacts, SellerAssumptions DEF ReviewStatuses
  <2> HIDE DEF p
  <2>3. /\ row \in Rows /\ row.user = Row(h).user /\ row.status = Row(h).status
        /\ row.payload = p
    BY <1>2, <2>1, <2>2 DEF Rows, NoRow
  <2>4. row.status = "COMPLETED" => role[row.user] = "ADMIN"
    BY <2>1, <2>3, <1>1 DEF IInv, TypeOK, CompletedIsSeller, Row
  <2> HIDE DEF row
  <2> QED
    BY <1>1, <2>1, <2>2, <2>3, <2>4, WriteKeeps DEF Locations, NoRow, Approving
<1>11. ASSUME WriteResubmission(h) PROVE IInv'
  <2>1. PICK q \in {job[h].payload, Reviewed(job[h].payload, "RESUBMISSION_REQUIRED")} :
            Writes(h, "writeResubmission", "idle",
                   [Row(h) EXCEPT !.status = "PENDING", !.payload = [q EXCEPT !.resubmit = TRUE]])
    BY <1>11 DEF WriteResubmission
  <2>2. q \in Payloads /\ Paired(q)
    BY <1>3, PayloadFacts DEF ReviewStatuses
  <2>3. [q EXCEPT !.resubmit = TRUE] \in Payloads /\ Paired([q EXCEPT !.resubmit = TRUE])
    BY <2>2, PayloadFacts
  <2>4. uploads' \in Nat
    BY <1>1, <1>11 DEF WriteResubmission
  <2> QED
    BY <1>8, <2>1, <2>3, <2>4
<1> QED
  BY <1>4, <1>5, <1>6, <1>7, <1>9, <1>10, <1>11

-----------------------------------------------------------------------------
\* A handler that works on no application, or ends its request, or only moves
\* on: the table is not written.
LEMMA MoveKeeps ==
    ASSUME IInv, NEW h \in Handlers, NEW from \in Locations, NEW to \in Locations,
           NEW known \in Jobs, Paired(known.payload),
           Goto(h, from, to, known),
           UNCHANGED <<apps, uploads>>,
           role' \in [Users -> {"USER", "ADMIN"}],
           \A u \in Users : role[u] = "ADMIN" => role'[u] = "ADMIN",
           faults' \in Nat, faults' >= faults,
           to \in {"checkPending", "create"} => known.user \in Users,
           to \notin NoRow => known = job[h] /\ from \notin NoRow,
           to = "complete" => role'[known.user] = "ADMIN",
           to = "markFailed" => faults' >= 1,
           from \in Approving => to \in Approving \/ faults' >= 2
    PROVE  IInv'
<1>1. TypeOK
  BY DEF IInv
<1>2. /\ at' \in [Handlers -> Locations] /\ job' \in [Handlers -> Jobs]
      /\ at[h] = from /\ at'[h] = to
      /\ job'[h] = IF to = "idle" THEN IdleJob ELSE known
      /\ \A g \in Handlers \ {h} : at'[g] = at[g] /\ job'[g] = job[g]
  BY <1>1, GotoFacts
<1>3. \A a \in DOMAIN apps : apps[a] \in Rows /\ apps[a].user \in Users
  <2>1. \A a \in DOMAIN apps : apps[a] \in Rows
    BY <1>1 DEF TypeOK
  <2> QED
    BY <2>1 DEF Rows
<1>4. TypeOK'
  <2>1. ASSUME NEW g \in Handlers, at'[g] \in {"checkPending", "create"}
        PROVE  job'[g].user \in Users
    BY <2>1, <1>1, <1>2 DEF TypeOK
  <2>2. ASSUME NEW g \in Handlers, at'[g] \notin NoRow
        PROVE  job'[g].app \in DOMAIN apps /\ job'[g].user = apps[job'[g].app].user
    BY <2>2, <1>1, <1>2 DEF TypeOK, NoRow, Row
  <2> QED
    BY <2>1, <2>2, <1>1, <1>2 DEF TypeOK, NoRow, Row
<1>5. (CompletedIsSeller /\ GrantedFirst)'
  <2>1. CompletedIsSeller'
    BY <1>3 DEF IInv, CompletedIsSeller
  <2>2. ASSUME NEW g \in Handlers, at'[g] = "complete" PROVE role'[job'[g].user] = "ADMIN"
    <3>1. CASE g = h
      BY <3>1, <2>2, <1>2
    <3>2. CASE g # h
      <4>1. at[g] = "complete" /\ job'[g] = job[g]
        BY <3>2, <2>2, <1>2
      <4>2. role[job[g].user] = "ADMIN" /\ job[g].user \in Users
        BY <4>1, <1>1, <1>3 DEF IInv, GrantedFirst, TypeOK, Row
      <4> QED
        BY <4>1, <4>2
    <3> QED
      BY <3>1, <3>2
  <2> QED
    BY <2>1, <2>2 DEF GrantedFirst
<1>6. (ReviewIsOfDocument /\ ReadsPaired)'
  BY <1>2, IdleFacts DEF IInv, ReviewIsOfDocument, ReadsPaired
<1>7. (ProcessingHasApproval /\ FailedHasFault)'
  <2>1. faults \in Nat
    BY <1>1 DEF TypeOK
  <2>2. FailedHasFault'
    BY <2>1, <1>2 DEF IInv, FailedHasFault
  <2>3. ASSUME NEW b \in DOMAIN apps, apps[b].status = "PROCESSING", ~ (faults' >= 2)
        PROVE  \E g \in Handlers : at'[g] \in Approving /\ job'[g].app = b
    <3>1. PICK g \in Handlers : at[g] \in Approving /\ job[g].app = b
      BY <2>1, <2>3 DEF IInv, ProcessingHasApproval
    <3>2. CASE g = h
      BY <3>1, <3>2, <2>3, <1>2 DEF Approving, NoRow
    <3>3. CASE g # h
      BY <3>1, <3>3, <1>2
    <3> QED
      BY <3>2, <3>3
  <2> QED
    BY <2>2, <2>3 DEF ProcessingHasApproval
<1> QED
  BY <1>4, <1>5, <1>6, <1>7 DEF IInv

\* Every step keeps the invariant.
LEMMA InvNext == IInv /\ [Next]_vars => IInv'
<1> SUFFICES ASSUME IInv, [Next]_vars PROVE IInv'
  OBVIOUS
<1>1. /\ TypeOK /\ uploads \in Nat /\ faults \in Nat
      /\ role \in [Users -> {"USER", "ADMIN"}] /\ at \in [Handlers -> Locations]
      /\ job \in [Handlers -> Jobs] /\ apps \in Seq(Rows)
  BY DEF IInv, TypeOK
<1>2. \A h \in Handlers : job[h] \in Jobs /\ Paired(job[h].payload)
  BY <1>1 DEF IInv, ReadsPaired
<1>3. ASSUME NEW h \in Handlers, NEW u \in Users, Apply(h, u) PROVE IInv'
  <2> DEFINE known == [IdleJob EXCEPT !.user = u]
  <2>1. known \in Jobs /\ known.user = u /\ known.payload = IdleJob.payload
    BY IdleFacts DEF IdleJob, Jobs
  <2>2. Goto(h, "idle", "checkPending", known) /\ UNCHANGED <<role, apps, uploads, faults>>
    BY <1>3 DEF Apply
  <2> HIDE DEF known
  <2> QED
    BY <1>1, <2>1, <2>2, IdleFacts, MoveKeeps DEF Locations, NoRow, Approving
<1>4. ASSUME NEW h \in Handlers, CheckPending(h) PROVE IInv'
  <2>1. PICK to \in {"create", "idle"} :
            Goto(h, "checkPending", to, job[h]) /\ UNCHANGED <<role, apps, uploads, faults>>
    BY <1>4 DEF CheckPending
  <2>2. job[h].user \in Users
    BY <1>1, <2>1 DEF TypeOK, Goto
  <2> QED
    BY <1>1, <1>2, <2>1, <2>2, MoveKeeps DEF Locations, NoRow, Approving
<1>5. ASSUME NEW h \in Handlers, CreateApplication(h) PROVE IInv'
  <2> DEFINE row == [user |-> job[h].user, status |-> "PENDING",
                     payload |-> NewPayload(uploads + 1)]
  <2>1. /\ Goto(h, "create", "idle", job[h]) /\ apps' = Append(apps, row)
        /\ uploads' = uploads + 1 /\ UNCHANGED <<role, faults>>
    BY <1>5 DEF CreateApplication
  <2>2. NewPayload(uploads + 1) \in Payloads /\ Paired(NewPayload(uploads + 1))
    BY <1>1, PayloadFacts
  <2>3. job[h].user \in Users
    BY <1>1, <2>1 DEF TypeOK, Goto
  <2>4. row \in Rows /\ row.status = "PENDING" /\ Paired(row.payload)
    BY <2>2, <2>3 DEF Rows
  <2> HIDE DEF row
  <2>5. /\ at' \in [Handlers -> Locations] /\ job' \in [Handlers -> Jobs]
        /\ at[h] = "create" /\ at'[h] = "idle" /\ job'[h] = IdleJob
        /\ \A g \in Handlers \ {h} : at'[g] = at[g] /\ job'[g] = job[g]
    BY <1>1, <1>2, <2>1, IdleFacts DEF Goto, Locations
  <2>6. /\ apps' \in Seq(Rows) /\ DOMAIN apps' = DOMAIN apps \cup {Len(apps) + 1}
        /\ apps'[Len(apps) + 1] = row /\ Len(apps) + 1 \notin DOMAIN apps
        /\ \A b \in DOMAIN apps : apps'[b] = apps[b]
    BY <1>1, <2>1, <2>4, AppendProperties
  <2>7. TypeOK'
    BY <1>1, <2>1, <2>5, <2>6, SMTT(30) DEF TypeOK, Row
  <2>8. (CompletedIsSeller /\ GrantedFirst)'
    BY <2>1, <2>4, <2>5, <2>6 DEF IInv, CompletedIsSeller, GrantedFirst
  <2>9. (ReviewIsOfDocument /\ ReadsPaired)'
    BY <2>4, <2>5, <2>6, IdleFacts DEF IInv, ReviewIsOfDocument, ReadsPaired
  <2>10. (ProcessingHasApproval /\ FailedHasFault)'
    <3>1. FailedHasFault'
      BY <2>1, <2>5 DEF IInv, FailedHasFault
    <3>2. ASSUME NEW b \in DOMAIN apps', apps'[b].status = "PROCESSING", ~ (faults >= 2)
          PROVE  \E g \in Handlers : at'[g] \in Approving /\ job'[g].app = b
      <4>1. b \in DOMAIN apps /\ apps[b].status = "PROCESSING"
        BY <3>2, <2>4, <2>6
      <4>2. PICK g \in Handlers : at[g] \in Approving /\ job[g].app = b
        BY <4>1, <3>2 DEF IInv, ProcessingHasApproval
      <4>3. g # h
        BY <4>2, <2>5 DEF Approving
      <4> QED
        BY <4>2, <4>3, <2>5
    <3> QED
      BY <3>1, <3>2, <2>1 DEF ProcessingHasApproval
  <2> QED
    BY <2>7, <2>8, <2>9, <2>10 DEF IInv
<1>6. ASSUME NEW h \in Handlers, Promote(h) PROVE IInv'
  <2>1. /\ Goto(h, "promote", "complete", job[h]) /\ UNCHANGED <<apps, uploads, faults>>
        /\ role' = [role EXCEPT ![job[h].user] = "ADMIN"]
    BY <1>6 DEF Promote
  <2>2. job[h].app \in DOMAIN apps /\ job[h].user = apps[job[h].app].user
    BY <1>1, <2>1 DEF TypeOK, Goto, Row
  <2>3. job[h].user \in Users
    <3>1. apps[job[h].app] \in Rows
      BY <1>1, <2>2
    <3> QED
      BY <2>2, <3>1 DEF Rows
  <2>4. /\ role' \in [Users -> {"USER", "ADMIN"}] /\ role'[job[h].user] = "ADMIN"
        /\ \A u \in Users : role[u] = "ADMIN" => role'[u] = "ADMIN"
    BY <1>1, <2>1, <2>3
  <2> QED
    BY <1>1, <1>2, <2>1, <2>4, MoveKeeps DEF Locations, NoRow, Approving
<1>7. ASSUME NEW h \in Handlers, DatabaseFails(h) PROVE IInv'
  <2>1. PICK to \in {"markFailed", "idle"} :
            /\ Goto(h, at[h], to, job[h]) /\ UNCHANGED <<role, apps, uploads>>
            /\ faults' = faults + 1
            /\ to = "markFailed" <=> at[h] \in {"promote", "complete"}
    BY <1>7 DEF DatabaseFails, Caught
  <2>2. at[h] = "markFailed" => faults >= 1
    BY DEF IInv, FailedHasFault
  <2>3. at[h] \in Approving => to \in Approving \/ faults' >= 2
    BY <1>1, <2>1, <2>2 DEF Approving
  <2>4. faults' \in Nat /\ faults' >= faults /\ faults' >= 1
    BY <1>1, <2>1
  <2>5. at[h] \in Locations /\ (to \notin NoRow => at[h] \notin NoRow)
    BY <1>1, <2>1 DEF NoRow
  <2> QED
    BY <1>1, <1>2, <2>1, <2>3, <2>4, <2>5, MoveKeeps DEF Locations, NoRow
<1>8. CASE UNCHANGED vars
  BY <1>8 DEF IInv, TypeOK, Row, CompletedIsSeller, GrantedFirst, ReviewIsOfDocument,
      ReadsPaired, ProcessingHasApproval, FailedHasFault, vars
<1> QED
  BY <1>3, <1>4, <1>5, <1>6, <1>7, <1>8, ReadersKeep, WritersKeep DEF Next

-----------------------------------------------------------------------------
\* The invariant always holds.
LEMMA InvAlways == Spec => []IInv
  BY InvInit, InvNext, PTL DEF Spec

\* The rows, roles and calls keep their types, and a call never loses the row
\* it works on.
THEOREM TypeCorrect == Spec => []TypeOK
<1>1. IInv => TypeOK
  BY DEF IInv
<1> QED
  BY <1>1, InvAlways, PTL

\* Whoever's application is COMPLETED is a seller, for any number of
\* overlapping approvals, rejections, resubmissions and failures.
THEOREM CompletedAlwaysSeller == Spec => []CompletedIsSeller
<1>1. IInv => CompletedIsSeller
  BY DEF IInv
<1> QED
  BY <1>1, InvAlways, PTL

\* A single failing database call never strands an application in PROCESSING.
THEOREM NeverLeftProcessing == Spec => []NoneLeftProcessing
<1>1. IInv => NoneLeftProcessing
  BY DEF IInv, NoneLeftProcessing, ProcessingHasApproval, TypeOK, Approving
<1> QED
  BY <1>1, InvAlways, PTL

\* No review is ever paired with a document it was not made of.
THEOREM ReviewAlwaysOfDocument == Spec => []ReviewIsOfDocument
<1>1. IInv => ReviewIsOfDocument
  BY DEF IInv
<1> QED
  BY <1>1, InvAlways, PTL

-----------------------------------------------------------------------------
(***************************************************************************)
(* The caching layer.  What the tables of CachedViews give is stated of    *)
(* each view and each writer; the rest of the proof uses no more of them.  *)
(***************************************************************************)

\* Tags are a list.
Listed(tags) == Len(tags) \in Nat /\ DOMAIN tags = 1 .. Len(tags)

\* The tag that all views of a service have, where it has one, and those of some tables' views.
ServiceTag(v) ==
    /\ v.of = "users" => "users" \in Range(v.tags)
    /\ v.of = "products" => "products" \in Range(v.tags)
    /\ v.of = "categories" => "categories" \in Range(v.tags)
    /\ v.of = "sensors" => "sensors" \in Range(v.tags)
    /\ v.of = "devices" => "devices" \in Range(v.tags)
    /\ v.of = "admin" => "system:config" \in Range(v.tags)
    /\ "address" \in v.tables => "user:row" \in Range(v.tags)
    /\ v.of = "devices" /\ v.tables \cap {"sensor", "command"} # {} => "device:row" \in Range(v.tags)

\* The services whose current views read a table.
ReadBy(v) ==
    /\ "user" \in v.tables => v.of \in {"users", "devices"}
    /\ "address" \in v.tables => v.of = "users"
    /\ "product" \in v.tables => v.of = "products"
    /\ "category" \in v.tables => v.of = "categories"
    /\ "sensor" \in v.tables => v.of \in {"sensors", "devices"}
    /\ "sensorData" \in v.tables => v.of = "sensors"
    /\ "device" \in v.tables => v.of \in {"users", "sensors", "devices"}
    /\ "command" \in v.tables => v.of = "devices"
    /\ "config" \in v.tables => v.of = "admin"
    /\ v.tables \cap {"reports", "report"} # {} => v.of = "reports"
    /\ "route" \in v.tables => v.of = "gateway"

\* What a view asks for is not also a literal part of its key.
Plain(v) == v.key = KeyFor(v, {}) /\ v.key.names \cap v.asks = {}

\* The beginnings of keys, and the views that have each.
Beginnings ==
    {"users:list:", "user:", "products:list:", "products:search:", "categories:tree",
     "category:", "sensors:list:", "sensor:", "devices:list:", "device:", "system:config:",
     "reports:user:", "report:", "gateway:routes:all", "ratelimit:override:",
     "search:products:", "analytics:dashboard:", "analytics:sales:",
     "analytics:products:metrics:", "analytics:users:engagement:", "analytics:devices:stats:",
     "analytics:reports:trends:", "analytics:reports:revenue:", "analytics:reports:growth:",
     "analytics:products:top:", "analytics:products:categories:",
     "analytics:drilldown:category-products:", "analytics:drilldown:product-orders:",
     "analytics:drilldown:user-orders:", "analytics:drilldown:hierarchy:",
     "analytics:forecast:revenue:", "analytics:forecast:demand:",
     "analytics:forecast:anomalies:", "analytics:comparison:cohorts:",
     "analytics:comparison:periods:", "analytics:comparison:products:",
     "analytics:comparison:categories:", "chart:line:", "chart:bar:", "chart:pie:",
     "chart:area:", "realtime:metrics", "realtime:sales", "system:config", "categories:list:"}

Owned(v) ==
    /\ v.key.prefix \in Beginnings
    /\ v.key.prefix = "users:list:" => v = UsersFindAll
    /\ v.key.prefix = "user:" => v \in {UsersFindOne, GetProfile, GetPreferences, GetAddresses}
    /\ v.key.prefix = "products:list:" => v \in {ProductsFindAll, GetByCategory, WarmFeaturedProducts}
    /\ v.key.prefix = "products:search:" => v = ProductsSearch
    /\ v.key.prefix = "categories:tree" => v = GetCategoryTree
    /\ v.key.prefix = "category:" => v = CategoriesFindOne
    /\ v.key.prefix = "sensors:list:" => v = SensorsFindAll
    /\ v.key.prefix = "sensor:" => v = SensorsFindOne
    /\ v.key.prefix = "devices:list:" => v = DevicesFindAll
    /\ v.key.prefix = "device:" => v = DevicesFindOne
    /\ v.key.prefix = "system:config:" => v \in {GetSystemConfig, GetAllSystemConfigs}
    /\ v.key.prefix = "reports:user:" => v = GetReports
    /\ v.key.prefix = "report:" => v = GetReportById
    /\ v.key.prefix = "gateway:routes:all" => v = GetRoutes
    /\ v.key.prefix = "ratelimit:override:" => v = FindApplicableOverride
    /\ v.key.prefix = "search:products:" => v = SearchProducts
    /\ v.key.prefix = "analytics:dashboard:" => v \in {GetDashboardStats, WarmDashboardStats}
    /\ v.key.prefix = "analytics:sales:" => v = GetSalesAnalytics
    /\ v.key.prefix = "analytics:products:metrics:" => v = GetProductMetrics
    /\ v.key.prefix = "analytics:users:engagement:" => v = GetUserEngagement
    /\ v.key.prefix = "analytics:devices:stats:" => v = GetDeviceStatistics
    /\ v.key.prefix = "analytics:reports:trends:" => v = GetOrderTrends
    /\ v.key.prefix = "analytics:reports:revenue:" => v = GetRevenueReports
    /\ v.key.prefix = "analytics:reports:growth:" => v = GetGrowthMetrics
    /\ v.key.prefix = "analytics:products:top:" => v \in {GetTopProducts, WarmTopProducts}
    /\ v.key.prefix = "analytics:products:categories:" => v = GetTopCategories
    /\ v.key.prefix = "analytics:drilldown:category-products:" => v = CategoryToProducts
    /\ v.key.prefix = "analytics:drilldown:product-orders:" => v = ProductToOrders
    /\ v.key.prefix = "analytics:drilldown:user-orders:" => v = UserToOrders
    /\ v.key.prefix = "analytics:drilldown:hierarchy:" => v = BuildHierarchy
    /\ v.key.prefix = "analytics:forecast:revenue:" => v = ForecastRevenue
    /\ v.key.prefix = "analytics:forecast:demand:" => v = PredictDemand
    /\ v.key.prefix = "analytics:forecast:anomalies:" => v = DetectAnomalies
    /\ v.key.prefix = "analytics:comparison:cohorts:" => v = AnalyzeCohorts
    /\ v.key.prefix = "analytics:comparison:periods:" => v = ComparePeriods
    /\ v.key.prefix = "analytics:comparison:products:" => v = CompareProducts
    /\ v.key.prefix = "analytics:comparison:categories:" => v = CompareCategories
    /\ v.key.prefix = "chart:line:" => v = GetLineChartData
    /\ v.key.prefix = "chart:bar:" => v = GetBarChartData
    /\ v.key.prefix = "chart:pie:" => v = GetPieChartData
    /\ v.key.prefix = "chart:area:" => v = GetAreaChartData
    /\ v.key.prefix = "realtime:metrics" => v = GetLiveMetrics
    /\ v.key.prefix = "realtime:sales" => v = GetLiveSalesData
    /\ v.key.prefix = "system:config" => v = WarmSystemConfig
    /\ v.key.prefix = "categories:list:" => v = WarmCategories

\* The key of a view tells its questions apart, and it has its service's tag.
ViewGood(v) == Listed(v.tags) /\ v.left = {} /\ Plain(v) /\ Owned(v) /\ ServiceTag(v) /\ ReadBy(v)

\* The key of a view that only time clears tells its questions apart, or is a known exception.
TimedGood(v) == Listed(v.tags) /\ (v.left = {} \/ v \in SharedKeys) /\ Plain(v) /\ Owned(v)

\* A writer clears the entries of a view: by a tag, or by their key.
Covers(w, v) == Range(w.tags) \cap Range(v.tags) # {} \/ v.key \in w.keys

\* A writer covers the views that it makes stale, or misses one as is known.
WriterGood(w) ==
    /\ Listed(w.tags)
    /\ \A v \in Managed : w.tables \cap v.tables # {} => Gap(w, v) \/ Covers(w, v)

\* The views that are meant to be current.
LEMMA ManagedGood == \A v \in Managed : ViewGood(v)
<1>1. ViewGood(UsersFindAll)
  BY DEF ViewGood, Plain, Owned, Beginnings, KeyFor, Key, Listed, ServiceTag, ReadBy, View, Range, UsersFindAll
<1>2. ViewGood(UsersFindOne)
  BY DEF ViewGood, Plain, Owned, Beginnings, KeyFor, Key, Listed, ServiceTag, ReadBy, View, Range, UsersFindOne
<1>3. ViewGood(GetProfile)
  BY DEF ViewGood, Plain, Owned, Beginnings, KeyFor, Key, Listed, ServiceTag, ReadBy, View, Range, GetProfile
<1>4. ViewGood(GetPreferences)
  BY DEF ViewGood, Plain, Owned, Beginnings, KeyFor, Key, Listed, ServiceTag, ReadBy, View, Range, GetPreferences
<1>5. ViewGood(GetAddresses)
  BY DEF ViewGood, Plain, Owned, Beginnings, KeyFor, Key, Listed, ServiceTag, ReadBy, View, Range, GetAddresses
<1>6. ViewGood(ProductsFindAll)
  BY DEF ViewGood, Plain, Owned, Beginnings, KeyFor, Key, Listed, ServiceTag, ReadBy, View, Range, ProductsFindAll
<1>7. ViewGood(GetByCategory)
  BY DEF ViewGood, Plain, Owned, Beginnings, KeyFor, Key, Listed, ServiceTag, ReadBy, View, Range, GetByCategory
<1>8. ViewGood(ProductsSearch)
  BY DEF ViewGood, Plain, Owned, Beginnings, KeyFor, Key, Listed, ServiceTag, ReadBy, View, Range, ProductsSearch
<1>9. ViewGood(GetCategoryTree)
  BY DEF ViewGood, Plain, Owned, Beginnings, KeyFor, Key, Listed, ServiceTag, ReadBy, View, Range, GetCategoryTree
<1>10. ViewGood(CategoriesFindOne)
  BY DEF ViewGood, Plain, Owned, Beginnings, KeyFor, Key, Listed, ServiceTag, ReadBy, View, Range, CategoriesFindOne
<1>11. ViewGood(SensorsFindAll)
  BY DEF ViewGood, Plain, Owned, Beginnings, KeyFor, Key, Listed, ServiceTag, ReadBy, View, Range, SensorsFindAll
<1>12. ViewGood(SensorsFindOne)
  BY DEF ViewGood, Plain, Owned, Beginnings, KeyFor, Key, Listed, ServiceTag, ReadBy, View, Range, SensorsFindOne
<1>13. ViewGood(DevicesFindAll)
  BY DEF ViewGood, Plain, Owned, Beginnings, KeyFor, Key, Listed, ServiceTag, ReadBy, View, Range, DevicesFindAll
<1>14. ViewGood(DevicesFindOne)
  BY DEF ViewGood, Plain, Owned, Beginnings, KeyFor, Key, Listed, ServiceTag, ReadBy, View, Range, DevicesFindOne
<1>15. ViewGood(GetSystemConfig)
  BY DEF ViewGood, Plain, Owned, Beginnings, KeyFor, Key, Listed, ServiceTag, ReadBy, View, Range, GetSystemConfig
<1>16. ViewGood(GetAllSystemConfigs)
  BY DEF ViewGood, Plain, Owned, Beginnings, KeyFor, Key, Listed, ServiceTag, ReadBy, View, Range, GetAllSystemConfigs
<1>17. ViewGood(GetReports)
  BY DEF ViewGood, Plain, Owned, Beginnings, KeyFor, Key, Listed, ServiceTag, ReadBy, View, Range, GetReports
<1>18. ViewGood(GetReportById)
  BY DEF ViewGood, Plain, Owned, Beginnings, KeyFor, Key, Listed, ServiceTag, ReadBy, View, Range, GetReportById
<1>19. ViewGood(GetRoutes)
  BY DEF ViewGood, Plain, Owned, Beginnings, KeyFor, Key, Listed, ServiceTag, ReadBy, View, Range, GetRoutes
<1>20. ViewGood(FindApplicableOverride)
  BY DEF ViewGood, Plain, Owned, Beginnings, KeyFor, Key, Listed, ServiceTag, ReadBy, View, Range, FindApplicableOverride
<1>21. QED
  BY <1>1, <1>2, <1>3, <1>4, <1>5, <1>6, <1>7, <1>8, <1>9, <1>10, <1>11, <1>12, <1>13, <1>14, <1>15, <1>16, <1>17, <1>18, <1>19, <1>20 DEF Managed

\* The views that only time clears, and what the warmers store.
LEMMA TimedViewsGood == \A v \in Timed \cup Warmers : TimedGood(v)
<1>1. TimedGood(SearchProducts)
  BY DEF TimedGood, Plain, Owned, Beginnings, KeyFor, Key, Listed, View, SearchKey, SearchProducts
<1>2. TimedGood(GetDashboardStats)
  BY DEF TimedGood, Plain, Owned, Beginnings, KeyFor, Key, Listed, View, Range_, GetDashboardStats
<1>3. TimedGood(GetSalesAnalytics)
  BY DEF TimedGood, Plain, Owned, Beginnings, KeyFor, Key, Listed, View, Range_, GetSalesAnalytics
<1>4. TimedGood(GetProductMetrics)
  BY DEF TimedGood, Plain, Owned, Beginnings, KeyFor, Key, Listed, View, Range_, GetProductMetrics
<1>5. TimedGood(GetUserEngagement)
  BY DEF TimedGood, Plain, Owned, Beginnings, KeyFor, Key, Listed, View, Range_, GetUserEngagement
<1>6. TimedGood(GetDeviceStatistics)
  BY DEF TimedGood, Plain, Owned, Beginnings, KeyFor, Key, Listed, View, GetDeviceStatistics
<1>7. TimedGood(GetOrderTrends)
  BY DEF TimedGood, Plain, Owned, Beginnings, KeyFor, Key, Listed, View, Range_, GetOrderTrends
<1>8. TimedGood(GetRevenueReports)
  BY DEF TimedGood, Plain, Owned, Beginnings, KeyFor, Key, Listed, View, Range_, GetRevenueReports
<1>9. TimedGood(GetGrowthMetrics)
  BY DEF TimedGood, Plain, Owned, Beginnings, KeyFor, Key, Listed, View, GetGrowthMetrics
<1>10. TimedGood(GetTopProducts)
  BY DEF TimedGood, Plain, Owned, Beginnings, KeyFor, Key, Listed, View, Range_, GetTopProducts
<1>11. TimedGood(GetTopCategories)
  BY DEF TimedGood, Plain, Owned, Beginnings, KeyFor, Key, Listed, View, GetTopCategories
<1>12. TimedGood(CategoryToProducts)
  BY DEF TimedGood, Plain, Owned, Beginnings, KeyFor, Key, Listed, View, Range_, CategoryToProducts
<1>13. TimedGood(ProductToOrders)
  BY DEF TimedGood, Plain, Owned, Beginnings, KeyFor, Key, Listed, View, Range_, ProductToOrders
<1>14. TimedGood(UserToOrders)
  BY DEF TimedGood, Plain, Owned, Beginnings, KeyFor, Key, Listed, View, Range_, UserToOrders
<1>15. TimedGood(BuildHierarchy)
  BY DEF TimedGood, Plain, Owned, Beginnings, KeyFor, Key, Listed, View, Range_, BuildHierarchy
<1>16. TimedGood(ForecastRevenue)
  BY DEF TimedGood, Plain, Owned, Beginnings, KeyFor, Key, Listed, View, ForecastRevenue
<1>17. TimedGood(PredictDemand)
  BY DEF TimedGood, Plain, Owned, Beginnings, KeyFor, Key, Listed, View, SharedKeys, PredictDemand
<1>18. TimedGood(DetectAnomalies)
  BY DEF TimedGood, Plain, Owned, Beginnings, KeyFor, Key, Listed, View, DetectAnomalies
<1>19. TimedGood(AnalyzeCohorts)
  BY DEF TimedGood, Plain, Owned, Beginnings, KeyFor, Key, Listed, View, AnalyzeCohorts
<1>20. TimedGood(ComparePeriods)
  BY DEF TimedGood, Plain, Owned, Beginnings, KeyFor, Key, Listed, View, SharedKeys, ComparePeriods
<1>21. TimedGood(CompareProducts)
  BY DEF TimedGood, Plain, Owned, Beginnings, KeyFor, Key, Listed, View, SharedKeys, CompareProducts
<1>22. TimedGood(CompareCategories)
  BY DEF TimedGood, Plain, Owned, Beginnings, KeyFor, Key, Listed, View, Range_, SharedKeys, CompareCategories
<1>23. TimedGood(GetLineChartData)
  BY DEF TimedGood, Plain, Owned, Beginnings, KeyFor, Key, Listed, View, Range_, GetLineChartData
<1>24. TimedGood(GetBarChartData)
  BY DEF TimedGood, Plain, Owned, Beginnings, KeyFor, Key, Listed, View, Range_, SharedKeys, GetBarChartData
<1>25. TimedGood(GetPieChartData)
  BY DEF TimedGood, Plain, Owned, Beginnings, KeyFor, Key, Listed, View, Range_, SharedKeys, GetPieChartData
<1>26. TimedGood(GetAreaChartData)
  BY DEF TimedGood, Plain, Owned, Beginnings, KeyFor, Key, Listed, View, Range_, SharedKeys, GetAreaChartData
<1>27. TimedGood(GetLiveMetrics)
  BY DEF TimedGood, Plain, Owned, Beginnings, KeyFor, Key, Listed, View, GetLiveMetrics
<1>28. TimedGood(GetLiveSalesData)
  BY DEF TimedGood, Plain, Owned, Beginnings, KeyFor, Key, Listed, View, GetLiveSalesData
<1>29. TimedGood(WarmSystemConfig)
  BY DEF TimedGood, Plain, Owned, Beginnings, KeyFor, Key, Listed, View, WarmSystemConfig
<1>30. TimedGood(WarmCategories)
  BY DEF TimedGood, Plain, Owned, Beginnings, KeyFor, Key, Listed, View, WarmCategories
<1>31. TimedGood(WarmFeaturedProducts)
  BY DEF TimedGood, Plain, Owned, Beginnings, KeyFor, Key, Listed, View, WarmFeaturedProducts
<1>32. TimedGood(WarmTopProducts)
  BY DEF TimedGood, Plain, Owned, Beginnings, KeyFor, Key, Listed, View, WarmTopProducts
<1>33. TimedGood(WarmDashboardStats)
  BY DEF TimedGood, Plain, Owned, Beginnings, KeyFor, Key, Listed, View, WarmDashboardStats
<1>34. QED
  BY <1>1, <1>2, <1>3, <1>4, <1>5, <1>6, <1>7, <1>8, <1>9, <1>10, <1>11, <1>12, <1>13, <1>14, <1>15, <1>16, <1>17, <1>18, <1>19, <1>20, <1>21, <1>22, <1>23, <1>24, <1>25, <1>26, <1>27, <1>28, <1>29, <1>30, <1>31, <1>32, <1>33 DEF Timed, Warmers

\* The services whose views are cleared by key.
LEMMA ClearedByKey ==
  ASSUME NEW v \in Managed
  PROVE  /\ v.of = "reports" => v = GetReports \/ v = GetReportById
         /\ v.of = "gateway" => v = GetRoutes
         /\ v.of = "devices" => v = DevicesFindAll \/ v = DevicesFindOne
<1>1. UsersFindAll.of = "users"
  BY DEF View, UsersFindAll
<1>2. UsersFindOne.of = "users"
  BY DEF View, UsersFindOne
<1>3. GetProfile.of = "users"
  BY DEF View, GetProfile
<1>4. GetPreferences.of = "users"
  BY DEF View, GetPreferences
<1>5. GetAddresses.of = "users"
  BY DEF View, GetAddresses
<1>6. ProductsFindAll.of = "products"
  BY DEF View, ProductsFindAll
<1>7. GetByCategory.of = "products"
  BY DEF View, GetByCategory
<1>8. ProductsSearch.of = "products"
  BY DEF View, ProductsSearch
<1>9. GetCategoryTree.of = "categories"
  BY DEF View, GetCategoryTree
<1>10. CategoriesFindOne.of = "categories"
  BY DEF View, CategoriesFindOne
<1>11. SensorsFindAll.of = "sensors"
  BY DEF View, SensorsFindAll
<1>12. SensorsFindOne.of = "sensors"
  BY DEF View, SensorsFindOne
<1>13. DevicesFindAll.of = "devices"
  BY DEF View, DevicesFindAll
<1>14. DevicesFindOne.of = "devices"
  BY DEF View, DevicesFindOne
<1>15. GetSystemConfig.of = "admin"
  BY DEF View, GetSystemConfig
<1>16. GetAllSystemConfigs.of = "admin"
  BY DEF View, GetAllSystemConfigs
<1>17. GetReports.of = "reports"
  BY DEF View, GetReports
<1>18. GetReportById.of = "reports"
  BY DEF View, GetReportById
<1>19. GetRoutes.of = "gateway"
  BY DEF View, GetRoutes
<1>20. FindApplicableOverride.of = "limits"
  BY DEF View, FindApplicableOverride
<1>21. QED
  BY <1>1, <1>2, <1>3, <1>4, <1>5, <1>6, <1>7, <1>8, <1>9, <1>10, <1>11, <1>12, <1>13, <1>14, <1>15, <1>16, <1>17, <1>18, <1>19, <1>20 DEF Managed

\* Beginnings of keys that several views have.
Families ==
    {{UsersFindOne, GetProfile, GetPreferences, GetAddresses},
     {ProductsFindAll, GetByCategory, WarmFeaturedProducts},
     {GetSystemConfig, GetAllSystemConfigs},
     {GetDashboardStats, WarmDashboardStats},
     {GetTopProducts, WarmTopProducts}}

\* Any other beginning of a key belongs to one view.
LEMMA KeysBegin ==
  ASSUME NEW u \in Views, NEW v \in Views, u.key.prefix = v.key.prefix
  PROVE  u = v \/ \E f \in Families : u \in f /\ v \in f
<1>1. Owned(u) /\ Owned(v)
  BY ManagedGood, TimedViewsGood DEF Views, ViewGood, TimedGood
<1>2. QED
  BY <1>1 DEF Owned, Beginnings, Families

\* Within a family, two views share a key only where it is known.
LEMMA FamiliesCross ==
  ASSUME NEW f \in Families, NEW u \in f, NEW v \in f, u # v,
         NEW q \in {{}} \cup {{p} : p \in v.asks}, KeyFor(v, q) = KeyFor(u, {})
  PROVE  <<v, q, u>> \in Crossings \/ <<u, {}, v>> \in Crossings
<1>1. v.key.names \cup (q \ v.left) = u.key.names
  BY DEF KeyFor, Key
<1>2. CASE f = {UsersFindOne, GetProfile, GetPreferences, GetAddresses}
  <2>1. UsersFindOne.key.names = {} /\ UsersFindOne.asks = {"profile:", "preferences:", "addresses:"} /\ UsersFindOne.left = {}
    BY DEF View, Key, UsersFindOne
  <2>2. GetProfile.key.names = {"profile:"} /\ GetProfile.asks = {} /\ GetProfile.left = {}
    BY DEF View, Key, GetProfile
  <2>3. GetPreferences.key.names = {"preferences:"} /\ GetPreferences.asks = {} /\ GetPreferences.left = {}
    BY DEF View, Key, GetPreferences
  <2>4. GetAddresses.key.names = {"addresses:"} /\ GetAddresses.asks = {} /\ GetAddresses.left = {}
    BY DEF View, Key, GetAddresses
  <2>5. QED
    BY <1>1, <1>2, <2>1, <2>2, <2>3, <2>4 DEF Crossings
<1>3. CASE f = {ProductsFindAll, GetByCategory, WarmFeaturedProducts}
  <2>1. ProductsFindAll.key.names = {} /\ ProductsFindAll.asks = {"query"} /\ ProductsFindAll.left = {}
    BY DEF View, Key, ProductsFindAll
  <2>2. GetByCategory.key.names = {"category:"} /\ GetByCategory.asks = {"category", "query"} /\ GetByCategory.left = {}
    BY DEF View, Key, GetByCategory
  <2>3. WarmFeaturedProducts.key.names = {"featured"} /\ WarmFeaturedProducts.asks = {} /\ WarmFeaturedProducts.left = {}
    BY DEF View, Key, WarmFeaturedProducts
  <2>4. QED
    BY <1>1, <1>3, <2>1, <2>2, <2>3 DEF Crossings
<1>4. CASE f = {GetSystemConfig, GetAllSystemConfigs}
  <2>1. GetSystemConfig.key.names = {} /\ GetSystemConfig.asks = {"all"} /\ GetSystemConfig.left = {}
    BY DEF View, Key, GetSystemConfig
  <2>2. GetAllSystemConfigs.key.names = {"all"} /\ GetAllSystemConfigs.asks = {} /\ GetAllSystemConfigs.left = {}
    BY DEF View, Key, GetAllSystemConfigs
  <2>3. QED
    BY <1>1, <1>4, <2>1, <2>2 DEF Crossings
<1>5. CASE f = {GetDashboardStats, WarmDashboardStats}
  <2>1. GetDashboardStats.key.names = {} /\ GetDashboardStats.asks = {"start", "end"} /\ GetDashboardStats.left = {}
    BY DEF View, Key, Range_, GetDashboardStats
  <2>2. WarmDashboardStats.key.names = {} /\ WarmDashboardStats.asks = {} /\ WarmDashboardStats.left = {}
    BY DEF View, Key, WarmDashboardStats
  <2>3. QED
    BY <1>1, <1>5, <2>1, <2>2 DEF Crossings
<1>6. CASE f = {GetTopProducts, WarmTopProducts}
  <2>1. GetTopProducts.key.names = {} /\ GetTopProducts.asks = {"start", "end"} /\ GetTopProducts.left = {}
    BY DEF View, Key, Range_, GetTopProducts
  <2>2. WarmTopProducts.key.names = {} /\ WarmTopProducts.asks = {} /\ WarmTopProducts.left = {}
    BY DEF View, Key, WarmTopProducts
  <2>3. QED
    BY <1>1, <1>6, <2>1, <2>2 DEF Crossings
<1>7. QED
  BY <1>2, <1>3, <1>4, <1>5, <1>6 DEF Families

\* Two questions of a view share a key only where a parameter is left out.
LEMMA OneViewsKey ==
  ASSUME NEW v \in Views, NEW q \in {{}} \cup {{p} : p \in v.asks}, KeyFor(v, q) = KeyFor(v, {})
  PROVE  q = {} \/ v \in SharedKeys
<1> SUFFICES ASSUME NEW p \in v.asks, q = {p} PROVE v \in SharedKeys
  OBVIOUS
<1>1. p \in v.key.names \/ p \in v.left
  BY DEF KeyFor, Key
<1>2. p \notin v.key.names /\ (v.left = {} \/ v \in SharedKeys)
  BY ManagedGood, TimedViewsGood DEF Views, ViewGood, TimedGood, Plain
<1>3. QED
  BY <1>1, <1>2

\* A question and another view's usual one share a key only where it is known.
LEMMA SameKey ==
  ASSUME NEW u \in Views, NEW v \in Views, NEW q \in {{}} \cup {{p} : p \in v.asks},
         KeyFor(v, q) = KeyFor(u, {})
  PROVE  \/ u = v /\ (q = {} \/ v \in SharedKeys)
         \/ <<v, q, u>> \in Crossings \/ <<u, {}, v>> \in Crossings
<1>1. v.key.prefix = u.key.prefix
  BY DEF KeyFor, Key
<1>2. CASE u # v
  <2>1. PICK f \in Families : u \in f /\ v \in f
    BY <1>1, <1>2, KeysBegin
  <2>2. QED
    BY <1>2, <2>1, FamiliesCross
<1>3. CASE u = v
  BY <1>3, OneViewsKey
<1>4. QED
  BY <1>2, <1>3

\* A writer that clears the tag of its service's views, or of its tables' views.
ByTag(w) ==
    /\ Listed(w.tags)
    /\ \/ w.of = "users" /\ w.tables = {"user"} /\ "users" \in Range(w.tags)
       \/ w.of = "users" /\ w.tables = {"address"} /\ "user:row" \in Range(w.tags)
       \/ w.of = "products" /\ w.tables = {"product"} /\ "products" \in Range(w.tags)
       \/ w.of = "categories" /\ w.tables = {"category"} /\ "categories" \in Range(w.tags)
       \/ w.of = "sensors" /\ w.tables = {"sensor"} /\ "sensors" \in Range(w.tags)
       \/ w.of = "devices" /\ w.tables = {"device"} /\ "devices" \in Range(w.tags)
       \/ w.of = "devices" /\ w.tables \subseteq {"sensor", "command"} /\ "device:row" \in Range(w.tags)
       \/ w.of = "admin" /\ w.tables = {"config"} /\ "system:config" \in Range(w.tags)
       \/ w.tables = {}

\* It covers what it makes stale.
LEMMA ByTagGood ==
  ASSUME NEW w, ByTag(w)
  PROVE  WriterGood(w)
<1> SUFFICES ASSUME NEW v \in Managed, w.tables \cap v.tables # {}, <<w.of, v.of>> \notin Apart
             PROVE  Covers(w, v)
  BY DEF WriterGood, ByTag, Gap
<1>1. ServiceTag(v) /\ ReadBy(v)
  BY ManagedGood DEF ViewGood
<1>2. w.of = v.of
  BY <1>1 DEF ReadBy, ByTag, Apart
<1>3. \E t : t \in Range(w.tags) /\ t \in Range(v.tags)
  BY <1>1, <1>2 DEF ServiceTag, ByTag
<1>4. QED
  BY <1>3 DEF Covers

\* Every writer.
LEMMA WritersGood == \A w \in Writers : WriterGood(w)
<1>1. WriterGood(UsersCreate)
  BY DEF WriterGood, Listed, Gap, Forgetful, Writer, UsersCreate
<1>2. WriterGood(UsersUpdate)
  BY ByTagGood DEF ByTag, Listed, Range, Writer, UsersUpdate
<1>3. WriterGood(UsersRemove)
  BY ByTagGood DEF ByTag, Listed, Range, Writer, UsersRemove
<1>4. WriterGood(UpdateProfile)
  BY ByTagGood DEF ByTag, Listed, Range, Writer, UpdateProfile
<1>5. WriterGood(UploadAvatar)
  BY ByTagGood DEF ByTag, Listed, Range, Writer, UploadAvatar
<1>6. WriterGood(UpdatePreferences)
  BY ByTagGood DEF ByTag, Listed, Range, Writer, UpdatePreferences
<1>7. WriterGood(AddAddress)
  BY ByTagGood DEF ByTag, Listed, Range, Writer, AddAddress
<1>8. WriterGood(UpdateAddress)
  BY ByTagGood DEF ByTag, Listed, Range, Writer, UpdateAddress
<1>9. WriterGood(UpdateUserRole)
  BY DEF WriterGood, Listed, Gap, Forgetful, Writer, UpdateUserRole
<1>10. WriterGood(UpdateUserStatus)
  BY DEF WriterGood, Listed, Gap, Forgetful, Writer, UpdateUserStatus
<1>11. WriterGood(ProductsCreate)
  BY DEF WriterGood, Listed, Gap, Forgetful, Writer, ProductsCreate
<1>12. WriterGood(ProductsUpdate)
  BY ByTagGood DEF ByTag, Listed, Range, Writer, ProductsUpdate, ProductTags
<1>13. WriterGood(ProductsRemove)
  BY ByTagGood DEF ByTag, Listed, Range, Writer, ProductsRemove, ProductTags
<1>14. WriterGood(ToggleActive)
  BY ByTagGood DEF ByTag, Listed, Range, Writer, ToggleActive, ProductTags
<1>15. WriterGood(UpdateStock)
  BY DEF WriterGood, Listed, Gap, Forgetful, Writer, UpdateStock
<1>16. WriterGood(UpdatePrice)
  BY DEF WriterGood, Listed, Gap, Forgetful, Writer, UpdatePrice
<1>17. WriterGood(CategoriesCreate)
  BY ByTagGood DEF ByTag, Listed, Range, Writer, CategoriesCreate
<1>18. WriterGood(CategoriesUpdate)
  BY ByTagGood DEF ByTag, Listed, Range, Writer, CategoriesUpdate, CategoryTags
<1>19. WriterGood(CategoriesRemove)
  BY ByTagGood DEF ByTag, Listed, Range, Writer, CategoriesRemove, CategoryTags
<1>20. WriterGood(SensorsCreate)
  BY ByTagGood DEF ByTag, Listed, Range, Writer, SensorsCreate
<1>21. WriterGood(SensorsUpdate)
  BY ByTagGood DEF ByTag, Listed, Range, Writer, SensorsUpdate, SensorTags
<1>22. WriterGood(SensorsRemove)
  BY ByTagGood DEF ByTag, Listed, Range, Writer, SensorsRemove, SensorTags
<1>23. WriterGood(Calibrate)
  BY ByTagGood DEF ByTag, Listed, Range, Writer, Calibrate
<1>24. WriterGood(SensorsToggle)
  BY DEF WriterGood, Listed, Gap, Forgetful, Writer, SensorsToggle
<1>25. WriterGood(IngestData)
  BY DEF WriterGood, Listed, Gap, Forgetful, Writer, IngestData
<1>26. WriterGood(BatchIngest)
  BY DEF WriterGood, Listed, Gap, Forgetful, Writer, BatchIngest
<1>27. WriterGood(ClearData)
  BY DEF WriterGood, Listed, Gap, Forgetful, Writer, ClearData
<1>28. WriterGood(DevicesCreate)
  BY ByTagGood DEF ByTag, Listed, Range, Writer, DevicesCreate
<1>29. WriterGood(DevicesUpdate)
  BY ByTagGood DEF ByTag, Listed, Range, Writer, DevicesUpdate, DeviceTags
<1>30. WriterGood(AssignDevice)
  BY ByTagGood DEF ByTag, Listed, Range, Writer, AssignDevice, DeviceTags
<1>31. WriterGood(DevicesRemove)
  BY ByTagGood DEF ByTag, Listed, Range, Writer, DevicesRemove, DeviceTags
<1>32. WriterGood(CreateIoTDevice)
  BY ByTagGood DEF ByTag, Listed, Range, Writer, CreateIoTDevice
<1>33. WriterGood(UpdateBySerialNumber)
  BY ByTagGood DEF ByTag, Listed, Range, Writer, UpdateBySerialNumber, DeviceTags
<1>34. WriterGood(DevicesToggle)
  BY ByTagGood DEF ByTag, Listed, Range, Writer, DevicesToggle, DeviceTags
<1>35. WriterGood(PerformDeviceStatusCheck)
  BY ByTagGood DEF ByTag, Listed, Range, Writer, PerformDeviceStatusCheck, DeviceTags
<1>36. WriterGood(SendCommand)
  BY ByTagGood DEF ByTag, Listed, Range, Writer, SendCommand
<1>37. WriterGood(SendCommandFails)
  BY DEF WriterGood, Listed, Gap, Forgetful, Writer, SendCommandFails
<1>38. WriterGood(CalibrateSensor)
  BY ByTagGood DEF ByTag, Listed, Range, Writer, CalibrateSensor
<1>39. WriterGood(CalibrateSensorFails)
  BY DEF WriterGood, Listed, Gap, Forgetful, Writer, CalibrateSensorFails
<1>40. WriterGood(RecordDeviceHealth)
  <2>1. RecordDeviceHealth.tables = {"device"} /\ RecordDeviceHealth.keys = {Key("device:", {})}
        /\ RecordDeviceHealth.of = "devices" /\ Listed(RecordDeviceHealth.tags)
    BY DEF Listed, Writer, RecordDeviceHealth
  <2>2. DevicesFindOne.key = Key("device:", {})
    BY DEF View, DevicesFindOne
  <2>3. \A v \in Managed : RecordDeviceHealth.tables \cap v.tables # {} => <<RecordDeviceHealth.of, v.of>> \in Apart \/ v.of = RecordDeviceHealth.of
    BY <2>1, ManagedGood DEF ViewGood, ReadBy, Apart
  <2>4. <<RecordDeviceHealth, DevicesFindAll>> \in Misses
    BY DEF Misses
  <2>5. QED
    BY <2>1, <2>2, <2>3, <2>4, ClearedByKey DEF WriterGood, Gap, Covers
<1>41. WriterGood(UpdateFirmware)
  BY DEF WriterGood, Listed, Gap, Forgetful, Writer, UpdateFirmware
<1>42. WriterGood(AddSensor)
  BY DEF WriterGood, Listed, Gap, Forgetful, Writer, AddSensor
<1>43. WriterGood(UpdateSensor)
  BY DEF WriterGood, Listed, Gap, Forgetful, Writer, UpdateSensor
<1>44. WriterGood(RemoveSensor)
  BY DEF WriterGood, Listed, Gap, Forgetful, Writer, RemoveSensor
<1>45. WriterGood(UpdateSystemConfig)
  BY ByTagGood DEF ByTag, Listed, Range, Writer, UpdateSystemConfig
<1>46. WriterGood(CreateReport)
  <2>1. CreateReport.tables = {"reports"} /\ CreateReport.keys = {Key("reports:user:", {})}
        /\ CreateReport.of = "reports" /\ Listed(CreateReport.tags)
    BY DEF Listed, Writer, CreateReport
  <2>2. GetReportById.key = Key("report:", {})
    BY DEF View, GetReportById
  <2>3. \A v \in Managed : CreateReport.tables \cap v.tables # {} => <<CreateReport.of, v.of>> \in Apart \/ v.of = CreateReport.of
    BY <2>1, ManagedGood DEF ViewGood, ReadBy, Apart
  <2>0. GetReportById.tables = {"report"}
    BY DEF View, GetReportById
  <2>4. <<CreateReport, GetReports>> \in Misses
    BY DEF Misses
  <2>5. QED
    BY <2>0, <2>1, <2>2, <2>3, <2>4, ClearedByKey DEF WriterGood, Gap, Covers
<1>47. WriterGood(UpdateReport)
  <2>1. UpdateReport.tables = {"reports", "report"} /\ UpdateReport.keys = {Key("report:", {}), Key("reports:user:", {})}
        /\ UpdateReport.of = "reports" /\ Listed(UpdateReport.tags)
    BY DEF Listed, Writer, UpdateReport
  <2>2. GetReportById.key = Key("report:", {})
    BY DEF View, GetReportById
  <2>3. \A v \in Managed : UpdateReport.tables \cap v.tables # {} => <<UpdateReport.of, v.of>> \in Apart \/ v.of = UpdateReport.of
    BY <2>1, ManagedGood DEF ViewGood, ReadBy, Apart
  <2>0. GetReportById.tables = {"report"}
    BY DEF View, GetReportById
  <2>4. <<UpdateReport, GetReports>> \in Misses
    BY DEF Misses
  <2>5. QED
    BY <2>0, <2>1, <2>2, <2>3, <2>4, ClearedByKey DEF WriterGood, Gap, Covers
<1>48. WriterGood(DeleteReport)
  <2>1. DeleteReport.tables = {"reports", "report"} /\ DeleteReport.keys = {Key("report:", {}), Key("reports:user:", {})}
        /\ DeleteReport.of = "reports" /\ Listed(DeleteReport.tags)
    BY DEF Listed, Writer, DeleteReport
  <2>2. GetReportById.key = Key("report:", {})
    BY DEF View, GetReportById
  <2>3. \A v \in Managed : DeleteReport.tables \cap v.tables # {} => <<DeleteReport.of, v.of>> \in Apart \/ v.of = DeleteReport.of
    BY <2>1, ManagedGood DEF ViewGood, ReadBy, Apart
  <2>0. GetReportById.tables = {"report"}
    BY DEF View, GetReportById
  <2>4. <<DeleteReport, GetReports>> \in Misses
    BY DEF Misses
  <2>5. QED
    BY <2>0, <2>1, <2>2, <2>3, <2>4, ClearedByKey DEF WriterGood, Gap, Covers
<1>49. WriterGood(CreateConfig)
  <2>1. CreateConfig.tables = {"route"} /\ CreateConfig.keys = {Key("gateway:routes:all", {})}
        /\ CreateConfig.of = "gateway" /\ Listed(CreateConfig.tags)
    BY DEF Listed, Writer, CreateConfig
  <2>2. GetRoutes.key = Key("gateway:routes:all", {})
    BY DEF View, GetRoutes
  <2>3. \A v \in Managed : CreateConfig.tables \cap v.tables # {} => <<CreateConfig.of, v.of>> \in Apart \/ v.of = CreateConfig.of
    BY <2>1, ManagedGood DEF ViewGood, ReadBy, Apart
  <2>4. QED
    BY <2>1, <2>2, <2>3, ClearedByKey DEF WriterGood, Gap, Covers
<1>50. WriterGood(UpdateConfig)
  <2>1. UpdateConfig.tables = {"route"} /\ UpdateConfig.keys = {Key("gateway:routes:all", {})}
        /\ UpdateConfig.of = "gateway" /\ Listed(UpdateConfig.tags)
    BY DEF Listed, Writer, UpdateConfig
  <2>2. GetRoutes.key = Key("gateway:routes:all", {})
    BY DEF View, GetRoutes
  <2>3. \A v \in Managed : UpdateConfig.tables \cap v.tables # {} => <<UpdateConfig.of, v.of>> \in Apart \/ v.of = UpdateConfig.of
    BY <2>1, ManagedGood DEF ViewGood, ReadBy, Apart
  <2>4. QED
    BY <2>1, <2>2, <2>3, ClearedByKey DEF WriterGood, Gap, Covers
<1>51. WriterGood(DeleteConfig)
  <2>1. DeleteConfig.tables = {"route"} /\ DeleteConfig.keys = {Key("gateway:routes:all", {})}
        /\ DeleteConfig.of = "gateway" /\ Listed(DeleteConfig.tags)
    BY DEF Listed, Writer, DeleteConfig
  <2>2. GetRoutes.key = Key("gateway:routes:all", {})
    BY DEF View, GetRoutes
  <2>3. \A v \in Managed : DeleteConfig.tables \cap v.tables # {} => <<DeleteConfig.of, v.of>> \in Apart \/ v.of = DeleteConfig.of
    BY <2>1, ManagedGood DEF ViewGood, ReadBy, Apart
  <2>4. QED
    BY <2>1, <2>2, <2>3, ClearedByKey DEF WriterGood, Gap, Covers
<1>52. WriterGood(CreateOverride)
  BY DEF WriterGood, Listed, Gap, Forgetful, Writer, CreateOverride
<1>53. WriterGood(UpdateOverride)
  BY DEF WriterGood, Listed, Gap, Forgetful, Writer, UpdateOverride
<1>54. WriterGood(DeleteOverride)
  BY DEF WriterGood, Listed, Gap, Forgetful, Writer, DeleteOverride
<1>55. QED
  BY <1>1, <1>2, <1>3, <1>4, <1>5, <1>6, <1>7, <1>8, <1>9, <1>10, <1>11, <1>12, <1>13, <1>14, <1>15, <1>16, <1>17, <1>18, <1>19, <1>20, <1>21, <1>22, <1>23, <1>24, <1>25, <1>26, <1>27, <1>28, <1>29, <1>30, <1>31, <1>32, <1>33, <1>34, <1>35, <1>36, <1>37, <1>38, <1>39, <1>40, <1>41, <1>42, <1>43, <1>44, <1>45, <1>46, <1>47, <1>48, <1>49, <1>50, <1>51, <1>52, <1>53, <1>54 DEF Writers
(***************************************************************************)
(* Two readers and a writer, for any number of writes.                     *)
(***************************************************************************)

\* What is stored under a key, the tags of a view, and a key in the list of a tag.
Stored(k) == cache[k] # None
TagSet(i) == Range(TagsOf(i))
InList(lists, k, t) == lists[t] # None /\ k \in lists[t].keys

\* What CacheInit chooses among: the facts of the tables about it.
SetupGood ==
    /\ Listed(writer.tags) /\ \A i \in Readers : Listed(TagsOf(i))
    /\ KeyOf(1) = KeyOf(2) => asks[1].view = asks[2].view \/ Crossed(asks[1], asks[2])
    /\ \A i, j \in Readers : KeyOf(i) = KeyOf(j) /\ asks[i].view = asks[j].view =>
           asks[i].question = asks[j].question \/ asks[i].view \in SharedKeys
    /\ \A i \in Readers : writer.tables \cap asks[i].view.tables # {} =>
           /\ Gap(writer, asks[i].view) \/ Covers(writer, asks[i].view)
           /\ KeyOf(i) = asks[i].view.key

\* A key is filed under the tags of the entry it was stored with.
EntryGood(k) ==
    Stored(k) => /\ cache[k].by \in Readers /\ KeyOf(cache[k].by) = k
                 /\ cache[k].question = asks[cache[k].by].question

AnswerGood(i) ==
    /\ answer[i] = "stale" => Gap(writer, asks[i].view)
    /\ answer[i] = "other question" => asks[i].view \in SharedKeys
    /\ answer[i] = "other view" => Crossed(asks[1], asks[2])

\* Where calls are: one at a time, and none sees another write.
ReaderGood(i) ==
    /\ reader[i] # Idle => wr = Idle /\ \A j \in Readers : j # i => reader[j] = Idle
    /\ reader[i].pc = "store" => reader[i].version = version
    /\ reader[i].pc \in {"tag", "file"} => reader[i].k \in DOMAIN TagsOf(i) /\ (quiet => up)
    /\ reader[i].pc = "file" /\ quiet /\ tagged[TagsOf(i)[reader[i].k]] # None =>
           tagged[TagsOf(i)[reader[i].k]].keys \subseteq reader[i].keys

\* Until a reader has filed its key nobody else stores anything under it.
OwnGood(i) == reader[i].pc \in {"tag", "file"} /\ Stored(KeyOf(i)) => cache[KeyOf(i)].by = i

\* The tags that reader i has yet to file the entry k under.
Unfiled(i, k) ==
    IF reader[i].pc \in {"tag", "file"} /\ KeyOf(i) = k
    THEN {n \in DOMAIN TagsOf(i) : n >= reader[i].k} ELSE {}

\* Every entry is in the list of each of its tags, but those its reader has yet to file it under.
AllFiled ==
    \A k \in Keys : Stored(k) => \A n \in DOMAIN TagsOf(cache[k].by) :
        \/ InList(tagged, k, TagsOf(cache[k].by)[n])
        \/ \E i \in Readers : n \in Unfiled(i, k)

\* An entry that a write has made stale although the code means to keep it current.
Spoilt(k) ==
    /\ Stored(k) /\ cache[k].version # version
    /\ writer.tables \cap asks[cache[k].by].view.tables # {}
    /\ ~Gap(writer, asks[cache[k].by].view)

\* What the writer has cleared when it comes to its tag n.
ClearedUpTo(n) ==
    \A k \in Keys : Spoilt(k) =>
        /\ k \notin writer.keys
        /\ \A m \in DOMAIN writer.tags : m < n => writer.tags[m] \notin TagSet(cache[k].by)

\* The entries that the list of a tag should have.
FiledKeys(t) == {k \in Keys : Stored(k) /\ t \in TagSet(cache[k].by)}

\* A writer at rest has left nothing stale; one at work has cleared all up to where it is.
WriterAt ==
    /\ \/ wr = Idle \/ wr.pc = "keys"
       \/ wr.pc \in {"list", "drop", "untag"} /\ wr.k \in DOMAIN writer.tags
    /\ wr # Idle /\ quiet => up
    /\ quiet => /\ wr = Idle => \A k \in Keys : ~Spoilt(k)
                /\ wr.pc \in {"list", "drop", "untag"} => ClearedUpTo(wr.k)
                /\ wr.pc = "drop" => FiledKeys(writer.tags[wr.k]) \subseteq wr.keys
                /\ wr.pc = "untag" => FiledKeys(writer.tags[wr.k]) = {}

\* The inductive invariant.
CacheInv ==
    /\ SetupGood
    /\ DOMAIN asks = Readers
    /\ DOMAIN cache = Keys /\ DOMAIN reader = Readers /\ DOMAIN answer = Readers
    /\ DOMAIN tagged = TagSet(1) \cup TagSet(2)
    /\ \A k \in Keys : EntryGood(k)
    /\ \A i \in Readers : AnswerGood(i) /\ ReaderGood(i) /\ OwnGood(i)
    /\ quiet => AllFiled
    /\ WriterAt


\* What depends on the setup only stays.
LEMMA RigidStays ==
  ASSUME UNCHANGED <<asks, writer>>
  PROVE  /\ \A i : KeyOf(i)' = KeyOf(i) /\ TagsOf(i)' = TagsOf(i) /\ TagSet(i)' = TagSet(i)
         /\ Keys' = Keys /\ (SetupGood => SetupGood')
<1>1. \A i : KeyOf(i)' = KeyOf(i) /\ TagsOf(i)' = TagsOf(i) /\ TagSet(i)' = TagSet(i)
  BY DEF KeyOf, TagsOf, TagSet
<1>2. Keys' = Keys
  BY <1>1 DEF Keys
<1>3. SetupGood => SetupGood'
  BY <1>1 DEF SetupGood
<1>4. QED
  BY <1>1, <1>2, <1>3

\* A step that at most drops entries.
Thinned == \A k \in Keys : cache'[k] = cache[k] \/ cache'[k] = None

\* So does what holds of the entries it leaves.
LEMMA EntriesStay ==
  ASSUME UNCHANGED <<asks, writer>>, Thinned, \A k \in Keys : EntryGood(k)
  PROVE  \A k \in Keys' : EntryGood(k)'
BY RigidStays DEF EntryGood, Stored, Thinned

\* What a reader has stored and not filed stays its own.
LEMMA OwnStays ==
  ASSUME CacheInv, UNCHANGED <<asks, writer>>, Thinned,
         \A i \in Readers : reader'[i].pc \in {"tag", "file"} => reader[i].pc \in {"tag", "file"}
  PROVE  \A i \in Readers : OwnGood(i)'
<1> SUFFICES ASSUME NEW i \in Readers, OwnGood(i), Stored(KeyOf(i))', reader[i].pc \in {"tag", "file"}
             PROVE  cache'[KeyOf(i)'].by = i
  BY DEF CacheInv, OwnGood
<1>1. KeyOf(i)' = KeyOf(i) /\ KeyOf(i) \in Keys
  BY RigidStays DEF Keys
<1>2. Stored(KeyOf(i)) /\ cache'[KeyOf(i)] = cache[KeyOf(i)]
  BY <1>1 DEF Stored, Thinned
<1>3. QED
  BY <1>1, <1>2 DEF OwnGood

\* Nor does an entry leave the lists it is in.
LEMMA FiledStays ==
  ASSUME AllFiled, UNCHANGED <<asks, writer, tagged>>, Thinned,
         \A i \in Readers, k \in Keys : Unfiled(i, k) \subseteq Unfiled(i, k)'
  PROVE  AllFiled'
<1>1. \A k \in Keys : Stored(k)' => Stored(k) /\ cache'[k] = cache[k]
  BY DEF Stored, Thinned
<1>2. QED
  BY <1>1, RigidStays DEF AllFiled

\* An entry that is stale after the step was stale before it.
LEMMA SpoiltBefore ==
  ASSUME UNCHANGED <<asks, writer, version>>, Thinned
  PROVE  /\ \A k \in Keys : Spoilt(k)' => Spoilt(k) /\ cache'[k] = cache[k]
         /\ \A t : FiledKeys(t)' \subseteq FiledKeys(t)
         /\ \A n : ClearedUpTo(n) => ClearedUpTo(n)'
<1>1. \A k \in Keys : Stored(k)' => Stored(k) /\ cache'[k] = cache[k]
  BY DEF Stored, Thinned
<1>2. \A k \in Keys : Spoilt(k)' => Spoilt(k) /\ cache'[k] = cache[k]
  BY <1>1 DEF Spoilt
<1>3. \A t : FiledKeys(t)' \subseteq FiledKeys(t)
  BY <1>1, RigidStays DEF FiledKeys
<1>4. \A n : ClearedUpTo(n) => ClearedUpTo(n)'
  BY <1>2, RigidStays DEF ClearedUpTo
<1>5. QED
  BY <1>2, <1>3, <1>4

\* What holds of a writer that rests still does.
LEMMA WriterStays ==
  ASSUME WriterAt, UNCHANGED <<asks, writer, version, wr>>, Thinned, quiet' => quiet,
         wr # Idle /\ quiet' => up'
  PROVE  WriterAt'
BY RigidStays, SpoiltBefore DEF WriterAt

\* A reader looks its key up.
LEMMA LookupKeeps ==
  ASSUME CacheInv, NEW i \in Readers, Lookup(i)
  PROVE  CacheInv'
<1>1. /\ UNCHANGED <<asks, writer, version, cache, tagged, wr, up, quiet>>
      /\ wr = Idle /\ \A j \in Readers : reader[j] = Idle
      /\ quiet
  BY DEF Lookup, Calm
<1>2. /\ DOMAIN reader = Readers /\ DOMAIN answer = Readers /\ \A j \in Readers : AnswerGood(j)
      /\ \A k \in Keys : EntryGood(k)
  BY DEF CacheInv
<1>3. reader' = reader \/ reader' = [reader EXCEPT ![i] = [pc |-> "compute"]]
  BY DEF Lookup
<1>4. \A j \in Readers : reader'[j] = Idle \/ (j = i /\ reader'[j] = [pc |-> "compute"])
  BY <1>1, <1>2, <1>3
<1>5. \A j \in Readers : AnswerGood(j)'
  <2>1. CASE answer' = answer
    BY <1>1, <1>2, <2>1 DEF AnswerGood
  <2>2. CASE answer' # answer
    <3> DEFINE e == cache[KeyOf(i)]
    <3>1. e # None /\ answer' = [answer EXCEPT ![i] = Judge(i, e)]
      BY <2>2 DEF Lookup
    <3>2. KeyOf(i) \in Keys
      BY DEF Keys
    <3>3. PICK b \in Readers : /\ e.by = b /\ KeyOf(b) = KeyOf(i)
                               /\ e.question = asks[b].question
      BY <1>2, <3>1, <3>2 DEF EntryGood, Stored
    <3>4. /\ asks[b].view = asks[i].view =>
                 asks[b].question = asks[i].question \/ asks[i].view \in SharedKeys
          /\ asks[b].view # asks[i].view => Crossed(asks[1], asks[2])
      BY <3>3 DEF CacheInv, SetupGood, Readers
    <3>5. ~Spoilt(KeyOf(i))
      BY <1>1, <3>2 DEF CacheInv, WriterAt
    <3>6. asks[b].view = asks[i].view /\ Stale(i, e) => Gap(writer, asks[i].view)
      BY <3>1, <3>3, <3>5 DEF Spoilt, Stored, Stale
    <3> HIDE DEF e
    <3>7. /\ Judge(i, e) = "stale" => Gap(writer, asks[i].view)
          /\ Judge(i, e) = "other question" => asks[i].view \in SharedKeys
          /\ Judge(i, e) = "other view" => Crossed(asks[1], asks[2])
      <4>1. asks[e.by].view = asks[b].view
        BY <3>3
      <4>2. CASE asks[b].view # asks[i].view
        <5>1. Judge(i, e) = "other view"
          BY <4>1, <4>2 DEF Judge
        <5>2. QED
          BY <3>4, <4>2, <5>1
      <4>3. CASE asks[b].view = asks[i].view
        BY <3>3, <3>4, <3>6, <4>1, <4>3 DEF Judge
      <4>4. QED
        BY <4>2, <4>3
    <3> DEFINE judged == Judge(i, e)
    <3>8. answer' = [answer EXCEPT ![i] = judged]
      BY <3>1
    <3>9. /\ judged = "stale" => Gap(writer, asks[i].view)
          /\ judged = "other question" => asks[i].view \in SharedKeys
          /\ judged = "other view" => Crossed(asks[1], asks[2])
      BY <3>7
    <3> HIDE DEF judged
    <3>10. ASSUME NEW j \in Readers
           PROVE  AnswerGood(j)'
      <4>1. asks' = asks /\ writer' = writer
        BY <1>1
      <4>2. CASE j = i
        BY <1>2, <3>8, <3>9, <4>1, <4>2 DEF AnswerGood
      <4>3. CASE j # i
        BY <1>2, <3>8, <4>1, <4>3 DEF AnswerGood
      <4>4. QED
        BY <4>2, <4>3
    <3>11. QED
      BY <3>10
  <2>3. QED
    BY <2>1, <2>2
<1>6. \A j \in Readers : ReaderGood(j)'
  BY <1>1, <1>4 DEF ReaderGood, Idle
<1>7. AllFiled'
  <2>1. \A j \in Readers, k \in Keys : Unfiled(j, k) = {}
    BY <1>1 DEF Unfiled, Idle
  <2>2. QED
    BY <1>1, <2>1, FiledStays DEF CacheInv, Thinned
<1>8. WriterAt'
  BY <1>1, WriterStays DEF CacheInv, Thinned
<1>9. DOMAIN reader' = Readers /\ DOMAIN answer' = Readers
  <2>1. answer' = answer \/ answer' = [answer EXCEPT ![i] = Judge(i, cache[KeyOf(i)])]
    BY DEF Lookup
  <2>2. QED
    BY <1>2, <1>3, <2>1
<1>10. QED
  <2>1. \A j \in Readers : OwnGood(j)'
    BY <1>1, <1>4, OwnStays DEF Thinned, Idle
  <2>2. QED
    BY <1>1, <1>5, <1>6, <1>7, <1>8, <1>9, <2>1, RigidStays, EntriesStay DEF CacheInv, Thinned

\* It computes the answer.
LEMMA ComputeKeeps ==
  ASSUME CacheInv, NEW i \in Readers, Compute(i)
  PROVE  CacheInv'
<1>1. /\ UNCHANGED <<asks, writer, version, cache, tagged, wr, up, quiet>>
      /\ reader[i].pc = "compute"
      /\ reader' = [reader EXCEPT ![i] = [pc |-> "store", version |-> version]]
      /\ answer' = [answer EXCEPT ![i] = "right"]
  BY DEF Compute
<1>2. /\ DOMAIN reader = Readers /\ DOMAIN answer = Readers
      /\ \A j \in Readers : AnswerGood(j) /\ ReaderGood(j)
  BY DEF CacheInv
<1>3. wr = Idle /\ \A j \in Readers : j # i => reader[j] = Idle
  BY <1>1, <1>2 DEF ReaderGood, Idle
<1>4. \A j \in Readers : AnswerGood(j)'
  BY <1>1, <1>2 DEF AnswerGood
<1>5. \A j \in Readers : ReaderGood(j)'
  BY <1>1, <1>2, <1>3 DEF ReaderGood, Idle
<1>6. quiet' => AllFiled'
  <2>1. \A j \in Readers, k \in Keys : Unfiled(j, k) = {}
    BY <1>1, <1>3 DEF Unfiled, Idle
  <2>2. QED
    BY <1>1, <2>1, FiledStays DEF CacheInv, Thinned
<1>7. WriterAt'
  BY <1>1, <1>3, WriterStays DEF CacheInv, Thinned
<1>8. \A j \in Readers : OwnGood(j)'
  <2>1. \A j \in Readers : reader'[j].pc = "store" \/ reader'[j] = reader[j]
    BY <1>1, <1>2
  <2>2. QED
    BY <1>1, <2>1, OwnStays DEF Thinned
<1>9. QED
  BY <1>1, <1>2, <1>4, <1>5, <1>6, <1>7, <1>8, RigidStays, EntriesStay DEF CacheInv, Thinned


\* A reader goes on to one of its tags, or is done with them.
LEMMA AtTagGood ==
  ASSUME NEW i \in Readers, Listed(TagsOf(i)), NEW n \in Nat, n >= 1
  PROVE  \/ AtTag(i, n) = Idle /\ \A m \in DOMAIN TagsOf(i) : m < n
         \/ AtTag(i, n) = [pc |-> "tag", k |-> n] /\ n \in DOMAIN TagsOf(i)
BY DEF AtTag, Listed

\* It stores the answer.
LEMMA SetKeeps ==
  ASSUME CacheInv, NEW i \in Readers, Set(i)
  PROVE  CacheInv'
<1>1. /\ UNCHANGED <<asks, writer, version, tagged, wr, up, quiet, answer>>
      /\ reader[i].pc = "store"
      /\ reader' = [reader EXCEPT ![i] = IF up THEN AtTag(i, 1) ELSE Idle]
  BY DEF Set
<1>2. /\ DOMAIN reader = Readers /\ DOMAIN cache = Keys
      /\ \A j \in Readers : AnswerGood(j) /\ ReaderGood(j)
      /\ \A k \in Keys : EntryGood(k)
      /\ Listed(TagsOf(i))
  BY DEF CacheInv, SetupGood
<1>3. wr = Idle /\ (\A j \in Readers : j # i => reader[j] = Idle) /\ reader[i].version = version
  BY <1>1, <1>2 DEF ReaderGood, Idle
<1>4. \A j \in Readers : AnswerGood(j)'
  BY <1>1, <1>2 DEF AnswerGood
<1>5. KeyOf(i) \in Keys
  BY DEF Keys
<1>6. \A j \in Readers, k \in Keys : Unfiled(j, k) = {}
  BY <1>1, <1>3 DEF Unfiled, Idle
<1>7. CASE ~up
  <2>1. Thinned /\ cache' = cache
    BY <1>7 DEF Set, Thinned
  <2>2. reader' = [reader EXCEPT ![i] = Idle]
    BY <1>1, <1>7
  <2>3. \A j \in Readers : ReaderGood(j)'
    BY <1>2, <1>3, <2>2 DEF ReaderGood, Idle
  <2>4. quiet' => AllFiled'
    BY <1>1, <1>6, <2>1, FiledStays DEF CacheInv
  <2>5. WriterAt'
    BY <1>1, <1>3, <2>1, WriterStays DEF CacheInv
  <2>6. \A j \in Readers : OwnGood(j)'
    <3>1. \A j \in Readers : reader'[j] = Idle
      BY <1>2, <1>3, <2>2
    <3>2. QED
      BY <3>1 DEF OwnGood, Idle
  <2>7. QED
    BY <1>1, <1>2, <1>4, <2>1, <2>2, <2>3, <2>4, <2>5, <2>6, RigidStays, EntriesStay DEF CacheInv
<1>8. CASE up
  <2> DEFINE e == [question |-> asks[i].question, version |-> reader[i].version,
                   ttl |-> asks[i].view.ttl, by |-> i]
  <2>1. cache' = [cache EXCEPT ![KeyOf(i)] = e]
    BY <1>8 DEF Set
  <2>2. e.by = i /\ e.question = asks[i].question /\ e.version = version
    BY <1>3
  <2> HIDE DEF e
  <2>3. cache'[KeyOf(i)] = e /\ \A k \in Keys : k # KeyOf(i) => cache'[k] = cache[k]
    BY <1>2, <1>5, <2>1
  <2> DEFINE next == AtTag(i, 1)
  <2>4. reader' = [reader EXCEPT ![i] = next]
    BY <1>1, <1>8
  <2>5. \/ next = Idle /\ \A m \in DOMAIN TagsOf(i) : m < 1
        \/ next = [pc |-> "tag", k |-> 1] /\ 1 \in DOMAIN TagsOf(i)
    BY <1>2, AtTagGood
  <2> HIDE DEF next
  <2>6. \A j \in Readers : ReaderGood(j)'
    BY <1>1, <1>2, <1>3, <1>8, <2>4, <2>5, RigidStays DEF ReaderGood, Idle
  <2>7. \A k \in Keys : EntryGood(k)'
    BY <1>1, <1>2, <2>2, <2>3, RigidStays DEF EntryGood, Stored
  <2>8. ASSUME quiet' PROVE AllFiled'
    <3>1. ASSUME NEW k \in Keys, Stored(k)', k # KeyOf(i), NEW n \in DOMAIN TagsOf(cache'[k].by)
          PROVE  InList(tagged', k, TagsOf(cache'[k].by)[n])
      <4>1. Stored(k) /\ cache'[k] = cache[k] /\ tagged' = tagged
        BY <1>1, <2>3, <3>1 DEF Stored
      <4>2. InList(tagged, k, TagsOf(cache[k].by)[n])
        BY <1>1, <1>6, <2>8, <3>1, <4>1 DEF CacheInv, AllFiled
      <4>3. QED
        BY <4>1, <4>2
    <3>2. ASSUME NEW n \in DOMAIN TagsOf(i) PROVE n \in Unfiled(i, KeyOf(i))'
      <4>1. n >= 1
        BY <1>2 DEF Listed
      <4>2. reader'[i] = [pc |-> "tag", k |-> 1]
        BY <1>2, <2>4, <2>5, <4>1 DEF Listed
      <4>3. QED
        BY <4>1, <4>2, RigidStays, <1>1 DEF Unfiled
    <3>3. QED
      BY <1>1, <2>2, <2>3, <3>1, <3>2, RigidStays DEF AllFiled
  <2>9. WriterAt'
    <3>1. \A k \in Keys : Spoilt(k)' => Spoilt(k)
      BY <1>1, <2>2, <2>3 DEF Spoilt, Stored
    <3>2. QED
      BY <1>1, <1>3, <3>1, RigidStays DEF CacheInv, WriterAt, Idle
  <2>10. DOMAIN reader' = Readers /\ DOMAIN cache' = Keys
    BY <1>2, <2>1, <2>4
  <2>11. \A j \in Readers : OwnGood(j)'
    <3>1. \A j \in Readers : j # i => reader'[j] = Idle
      BY <1>2, <1>3, <2>4
    <3>2. \A j \in Readers : j # i => OwnGood(j)'
      BY <3>1 DEF OwnGood, Idle
    <3>3. OwnGood(i)'
      BY <1>1, <2>2, <2>3, RigidStays DEF OwnGood
    <3>4. QED
      BY <3>2, <3>3
  <2>12. QED
    BY <1>1, <1>2, <1>4, <2>6, <2>7, <2>8, <2>9, <2>10, <2>11, RigidStays DEF CacheInv
<1>9. QED
  BY <1>7, <1>8

\* It reads the list of a tag.
LEMMA AssociateTagsReadKeeps ==
  ASSUME CacheInv, NEW i \in Readers, AssociateTagsRead(i)
  PROVE  CacheInv'
<1> DEFINE keys == ListUnder(TagsOf(i)[reader[i].k])
           next == [pc |-> "file", k |-> reader[i].k, keys |-> keys]
<1>1. /\ UNCHANGED <<asks, writer, version, cache, tagged, wr, up, quiet, answer>>
      /\ reader[i].pc = "tag"
      /\ reader' = [reader EXCEPT ![i] = next]
      /\ next.pc = "file" /\ next.k = reader[i].k /\ next.keys = keys
  BY DEF AssociateTagsRead
<1>2. /\ DOMAIN reader = Readers
      /\ \A j \in Readers : AnswerGood(j) /\ ReaderGood(j)
      /\ \A k \in Keys : EntryGood(k)
  BY DEF CacheInv
<1>3. wr = Idle /\ (\A j \in Readers : j # i => reader[j] = Idle)
      /\ reader[i].k \in DOMAIN TagsOf(i) /\ (quiet => up)
  BY <1>1, <1>2 DEF ReaderGood, Idle
<1>4. quiet /\ tagged[TagsOf(i)[reader[i].k]] # None => tagged[TagsOf(i)[reader[i].k]].keys \subseteq keys
  BY <1>3 DEF ListUnder
<1>5. Thinned
  BY <1>1 DEF Thinned
<1> HIDE DEF keys, next
<1>6. reader'[i] = next /\ \A j \in Readers : j # i => reader'[j] = reader[j]
  BY <1>1, <1>2
<1>7. \A j \in Readers : AnswerGood(j)'
  BY <1>1, <1>2 DEF AnswerGood
<1>8. \A j \in Readers : ReaderGood(j)'
  <2>1. ReaderGood(i)'
    BY <1>1, <1>3, <1>4, <1>6, RigidStays DEF ReaderGood, Idle
  <2>2. \A j \in Readers : j # i => reader'[j] = Idle
    BY <1>3, <1>6
  <2>3. \A j \in Readers : j # i => ReaderGood(j)'
    BY <2>2 DEF ReaderGood, Idle
  <2>4. QED
    BY <2>1, <2>3
<1>9. \A j \in Readers, k \in Keys : Unfiled(j, k) \subseteq Unfiled(j, k)'
  BY <1>1, <1>6, RigidStays DEF Unfiled
<1>10. quiet' => AllFiled'
  BY <1>1, <1>5, <1>9, FiledStays DEF CacheInv
<1>11. WriterAt'
  BY <1>1, <1>3, <1>5, WriterStays DEF CacheInv
<1>12. \A j \in Readers : OwnGood(j)'
  BY <1>1, <1>5, <1>6, OwnStays
<1>13. QED
  BY <1>1, <1>2, <1>5, <1>7, <1>8, <1>10, <1>11, <1>12, RigidStays, EntriesStay DEF CacheInv

\* It writes the list with its key.
LEMMA AssociateTagsWriteKeeps ==
  ASSUME CacheInv, NEW i \in Readers, AssociateTagsWrite(i)
  PROVE  CacheInv'
<1> DEFINE n == reader[i].k
           t == TagsOf(i)[n]
           list == [keys |-> reader[i].keys \cup {KeyOf(i)}, ttl |-> asks[i].view.ttl]
           next == AtTag(i, n + 1)
<1>1. /\ UNCHANGED <<asks, writer, version, cache, wr, up, quiet, answer>>
      /\ reader[i].pc = "file"
      /\ reader' = [reader EXCEPT ![i] = next]
      /\ tagged' = IF up THEN [tagged EXCEPT ![t] = list] ELSE tagged
  BY DEF AssociateTagsWrite
<1>2. /\ DOMAIN reader = Readers /\ DOMAIN tagged = TagSet(1) \cup TagSet(2)
      /\ \A j \in Readers : AnswerGood(j) /\ ReaderGood(j)
      /\ \A k \in Keys : EntryGood(k)
      /\ Listed(TagsOf(i))
  BY DEF CacheInv, SetupGood
<1>3. wr = Idle /\ (\A j \in Readers : j # i => reader[j] = Idle)
      /\ n \in DOMAIN TagsOf(i) /\ (quiet => up)
      /\ (quiet /\ tagged[t] # None => tagged[t].keys \subseteq reader[i].keys)
  BY <1>1, <1>2 DEF ReaderGood, Idle
<1>4. list # None /\ list.keys = reader[i].keys \cup {KeyOf(i)}
  BY DEF None
<1>5. Thinned
  BY <1>1 DEF Thinned
<1>6. n \in Nat /\ n >= 1
  BY <1>2, <1>3 DEF Listed
<1>7. \/ next = Idle /\ \A m \in DOMAIN TagsOf(i) : m < n + 1
      \/ next = [pc |-> "tag", k |-> n + 1] /\ n + 1 \in DOMAIN TagsOf(i)
  BY <1>2, <1>6, AtTagGood
<1> HIDE DEF list, next
<1>8. reader'[i] = next /\ \A j \in Readers : j # i => reader'[j] = Idle
  BY <1>1, <1>2, <1>3
<1>9. \A j \in Readers : AnswerGood(j)'
  BY <1>1, <1>2 DEF AnswerGood
<1>10. \A j \in Readers : ReaderGood(j)'
  BY <1>1, <1>3, <1>7, <1>8, RigidStays DEF ReaderGood, Idle
<1>11. ASSUME quiet' PROVE AllFiled'
  <2>1. quiet /\ up /\ tagged' = [tagged EXCEPT ![t] = list] /\ t \in DOMAIN tagged
    BY <1>1, <1>2, <1>3, <1>11 DEF TagSet, Range, Readers
  <2>2. tagged'[t] = list /\ \A u : u # t => tagged'[u] = tagged[u]
    BY <2>1
  <2>3. \A k, u : InList(tagged, k, u) => InList(tagged', k, u)
    BY <1>3, <1>4, <2>1, <2>2 DEF InList
  <2>4. InList(tagged', KeyOf(i), t)
    BY <1>4, <2>2 DEF InList
  <2>5. ASSUME NEW k \in Keys, Stored(k)', NEW m \in DOMAIN TagsOf(cache[k].by),
               ~InList(tagged', k, TagsOf(cache[k].by)[m])
        PROVE  \E j \in Readers : m \in Unfiled(j, k)'
    <3>1. Stored(k) /\ ~InList(tagged, k, TagsOf(cache[k].by)[m])
      BY <1>1, <2>3, <2>5 DEF Stored
    <3>2. PICK j \in Readers : m \in Unfiled(j, k)
      BY <2>1, <2>5, <3>1 DEF CacheInv, AllFiled
    <3>3. j = i /\ KeyOf(i) = k /\ m \in DOMAIN TagsOf(i) /\ m >= n
      BY <1>3, <3>2 DEF Unfiled, Idle
    <3>4. TagsOf(cache[k].by) = TagsOf(i)
      BY <1>1, <3>1, <3>3 DEF CacheInv, OwnGood
    <3>5. m # n
      BY <2>4, <2>5, <3>3, <3>4
    <3>6. m >= n + 1
      BY <1>2, <1>6, <3>3, <3>5 DEF Listed
    <3>7. reader'[i].pc = "tag" /\ reader'[i].k = n + 1
      BY <1>2, <1>6, <1>7, <1>8, <3>3, <3>6 DEF Listed
    <3>8. m \in Unfiled(i, k)'
      BY <1>1, <3>3, <3>6, <3>7, RigidStays DEF Unfiled
    <3>9. QED
      BY <3>8
  <2>6. QED
    BY <1>1, <2>5, RigidStays DEF AllFiled
<1>12. WriterAt'
  BY <1>1, <1>3, <1>5, WriterStays DEF CacheInv
<1>13. DOMAIN tagged' = DOMAIN tagged /\ DOMAIN reader' = DOMAIN reader
  BY <1>1
<1>14. \A j \in Readers : OwnGood(j)'
  <2>1. \A j \in Readers : reader'[j].pc \in {"tag", "file"} => reader[j].pc \in {"tag", "file"}
    BY <1>1, <1>8 DEF Idle
  <2>2. QED
    BY <1>1, <1>5, <2>1, OwnStays
<1>15. QED
  BY <1>1, <1>2, <1>5, <1>9, <1>10, <1>11, <1>12, <1>13, <1>14, RigidStays, EntriesStay DEF CacheInv

\* An entry that should have been cleared is in the reach of what the writer clears.
LEMMA SpoiltCovered ==
  ASSUME SetupGood, NEW k \in Keys, EntryGood(k), Spoilt(k)
  PROVE  \/ k \in writer.keys
         \/ \E m \in DOMAIN writer.tags : writer.tags[m] \in TagSet(cache[k].by)
<1> DEFINE b == cache[k].by
<1>1. /\ b \in Readers /\ KeyOf(b) = k
      /\ writer.tables \cap asks[b].view.tables # {} /\ ~Gap(writer, asks[b].view)
  BY DEF EntryGood, Spoilt
<1>2. Covers(writer, asks[b].view)
  BY <1>1 DEF SetupGood
<1>3. k = asks[b].view.key
  BY <1>1 DEF SetupGood
<1> HIDE DEF b
<1>4. CASE asks[b].view.key \in writer.keys
  BY <1>3, <1>4
<1>5. CASE Range(writer.tags) \cap Range(asks[b].view.tags) # {}
  <2>1. PICK t : t \in Range(writer.tags) /\ t \in TagSet(b)
    BY <1>5 DEF TagSet, TagsOf
  <2>2. PICK m \in DOMAIN writer.tags : writer.tags[m] = t
    BY <2>1 DEF Range
  <2>3. QED
    BY <2>1, <2>2 DEF b
<1>6. QED
  BY <1>2, <1>4, <1>5 DEF Covers

\* The writer goes on to one of its tags, or is done with them.
LEMMA AtDropGood ==
  ASSUME Listed(writer.tags), NEW n \in Nat, n >= 1
  PROVE  \/ AtDrop(n) = Idle /\ \A m \in DOMAIN writer.tags : m < n
         \/ AtDrop(n) = [pc |-> "list", k |-> n] /\ n \in DOMAIN writer.tags
BY DEF AtDrop, Listed

\* As it goes on, nothing is left in the reach of the tags before: if it is done, nothing at all.
LEMMA WriterGoesOn ==
  ASSUME SetupGood, \A k \in Keys : EntryGood(k), UNCHANGED <<asks, writer, version>>, Thinned,
         NEW n \in Nat, n >= 1, wr' = AtDrop(n), quiet' => up', quiet' => ClearedUpTo(n)'
  PROVE  WriterAt'
<1>1. Listed(writer.tags)
  BY DEF SetupGood
<1>2. CASE wr' = [pc |-> "list", k |-> n] /\ n \in DOMAIN writer.tags
  BY <1>2 DEF WriterAt, Idle
<1>3. CASE wr' = Idle /\ \A m \in DOMAIN writer.tags : m < n
  <2>1. ASSUME quiet', NEW k \in Keys, Spoilt(k)' PROVE FALSE
    <3>1. Spoilt(k) /\ cache'[k] = cache[k]
      BY <2>1, SpoiltBefore
    <3>2. /\ k \notin writer.keys
          /\ \A m \in DOMAIN writer.tags : m < n => writer.tags[m] \notin TagSet(cache[k].by)
      BY <2>1, <3>1, RigidStays DEF ClearedUpTo
    <3>3. QED
      BY <1>3, <3>1, <3>2, SpoiltCovered
  <2>2. QED
    BY <1>3, <2>1, RigidStays DEF WriterAt, Idle
<1>4. QED
  BY <1>1, <1>2, <1>3, AtDropGood

\* Between calls, and while the writer is at work, every entry of a tag is in the tag's list.
LEMMA ListedUnder ==
  ASSUME CacheInv, quiet, up, \A i \in Readers : reader[i] = Idle, NEW t
  PROVE  /\ t \in DOMAIN tagged => FiledKeys(t) \subseteq ListUnder(t)
         /\ t \notin DOMAIN tagged => FiledKeys(t) = {}
<1>1. ASSUME NEW k \in FiledKeys(t)
      PROVE  t \in DOMAIN tagged /\ k \in ListUnder(t)
  <2>1. k \in Keys /\ Stored(k) /\ cache[k].by \in Readers /\ t \in TagSet(cache[k].by)
    BY <1>1 DEF CacheInv, FiledKeys, EntryGood
  <2>2. t \in DOMAIN tagged
    BY <2>1 DEF CacheInv, Readers
  <2>3. PICK n \in DOMAIN TagsOf(cache[k].by) : TagsOf(cache[k].by)[n] = t
    BY <2>1 DEF TagSet, Range
  <2>4. \A i \in Readers : Unfiled(i, k) = {}
    BY DEF Unfiled, Idle
  <2>5. InList(tagged, k, t)
    BY <2>1, <2>3, <2>4 DEF CacheInv, AllFiled
  <2>6. QED
    BY <2>2, <2>5 DEF InList, ListUnder
<1>2. QED
  BY <1>1

\* While the writer is at work no reader is.
LEMMA WriterAlone ==
  ASSUME CacheInv, wr # Idle
  PROVE  \A i \in Readers : reader[i] = Idle
BY DEF CacheInv, ReaderGood

\* The writer changes its rows.
LEMMA WriteRowsKeeps ==
  ASSUME CacheInv, WriteRows
  PROVE  CacheInv'
<1>1. /\ UNCHANGED <<asks, writer, cache, tagged, reader, up, answer>>
      /\ wr' = [pc |-> "keys"] /\ quiet' = up
      /\ quiet /\ \A i \in Readers : reader[i] = Idle
  BY DEF WriteRows, Calm
<1>2. Thinned
  BY <1>1 DEF Thinned
<1>3. \A j \in Readers : AnswerGood(j)'
  BY <1>1 DEF CacheInv, AnswerGood
<1>4. \A j \in Readers : ReaderGood(j)'
  BY <1>1 DEF ReaderGood, Idle
<1>5. AllFiled'
  <2>1. \A j \in Readers, k \in Keys : Unfiled(j, k) = {}
    BY <1>1 DEF Unfiled, Idle
  <2>2. QED
    BY <1>1, <1>2, <2>1, FiledStays DEF CacheInv
<1>6. WriterAt'
  BY <1>1 DEF WriterAt, Idle
<1>7. \A j \in Readers : OwnGood(j)'
  BY <1>1, <1>2, OwnStays
<1>8. QED
  BY <1>1, <1>2, <1>3, <1>4, <1>5, <1>6, <1>7, RigidStays, EntriesStay DEF CacheInv

\* What a step of the writer's invalidation leaves.
LEMMA WriterKeeps ==
  ASSUME CacheInv, wr # Idle, UNCHANGED <<asks, writer, version, reader, up, quiet, answer>>,
         Thinned, DOMAIN cache' = DOMAIN cache, DOMAIN tagged' = DOMAIN tagged,
         quiet => AllFiled', WriterAt'
  PROVE  CacheInv'
<1>1. \A i \in Readers : reader[i] = Idle
  BY WriterAlone
<1>2. \A j \in Readers : AnswerGood(j)'
  BY DEF CacheInv, AnswerGood
<1>3. \A j \in Readers : ReaderGood(j)'
  BY <1>1 DEF ReaderGood, Idle
<1>4. \A j \in Readers : OwnGood(j)'
  BY OwnStays
<1>5. QED
  BY <1>2, <1>3, <1>4, RigidStays, EntriesStay DEF CacheInv

\* Keys are deleted, if Redis is there.
LEMMA WithoutThins ==
  ASSUME DOMAIN cache = Keys, NEW drop, cache' = Without(drop)
  PROVE  /\ Thinned /\ DOMAIN cache' = Keys
         /\ up => \A k \in Keys : cache'[k] # None => k \notin drop
BY DEF Without, Thinned

\* The writer deletes its keys.
LEMMA DeleteKeeps ==
  ASSUME CacheInv, Delete
  PROVE  CacheInv'
<1> DEFINE drop == writer.keys
<1>1. /\ UNCHANGED <<asks, writer, version, tagged, reader, up, quiet, answer>>
      /\ wr.pc = "keys" /\ wr # Idle /\ wr' = AtDrop(1) /\ cache' = Without(drop)
  BY DEF Delete, Idle
<1>2. DOMAIN cache = Keys /\ SetupGood /\ (\A k \in Keys : EntryGood(k)) /\ (quiet => up)
  BY <1>1 DEF CacheInv, WriterAt
<1>3. /\ Thinned /\ DOMAIN cache' = Keys
      /\ up => \A k \in Keys : cache'[k] # None => k \notin drop
  BY <1>1, <1>2, WithoutThins
<1>4. quiet => AllFiled'
  BY <1>1, <1>3, WriterAlone, FiledStays DEF CacheInv, Unfiled, Idle
<1>5. Listed(writer.tags)
  BY <1>2 DEF SetupGood
<1>6. quiet' => ClearedUpTo(1)'
  <2>1. \A m \in DOMAIN writer.tags : ~(m < 1)
    BY <1>5 DEF Listed
  <2>2. quiet => \A k \in Keys : Spoilt(k)' => k \notin drop
    <3> HIDE DEF drop
    <3>1. QED
      BY <1>2, <1>3 DEF Spoilt, Stored
  <2>3. QED
    BY <1>1, <2>1, <2>2, RigidStays DEF ClearedUpTo
<1>7. WriterAt'
  BY <1>1, <1>2, <1>3, <1>6, WriterGoesOn
<1>8. QED
  BY <1>1, <1>2, <1>3, <1>4, <1>7, WriterKeeps

\* It asks for the list of a tag.
LEMMA ListKeeps ==
  ASSUME CacheInv, InvalidateByTagsRead
  PROVE  CacheInv'
<1> PICK n, t : n = wr.k /\ t = writer.tags[n]
  OBVIOUS
<1> DEFINE keys == IF t \in DOMAIN tagged THEN ListUnder(t) ELSE {}
<1>1. /\ UNCHANGED <<asks, writer, version, cache, tagged, reader, up, quiet, answer>>
      /\ wr.pc = "list" /\ wr # Idle
      /\ wr' = IF keys = {} THEN AtDrop(n + 1) ELSE [pc |-> "drop", k |-> n, keys |-> keys]
  BY DEF InvalidateByTagsRead, Idle
<1>2. /\ SetupGood /\ (\A k \in Keys : EntryGood(k)) /\ (quiet => up)
      /\ n \in DOMAIN writer.tags /\ (quiet => ClearedUpTo(n))
  BY <1>1 DEF CacheInv, WriterAt
<1>3. Thinned
  BY <1>1 DEF Thinned
<1>4. quiet => AllFiled'
  BY <1>1, <1>3, WriterAlone, FiledStays DEF CacheInv, Unfiled, Idle
<1>5. quiet => FiledKeys(t) \subseteq keys
  BY <1>1, <1>2, WriterAlone, ListedUnder
<1>6. n \in Nat /\ n >= 1
  BY <1>2 DEF SetupGood, Listed
<1>7. quiet => ClearedUpTo(n)' /\ FiledKeys(t)' \subseteq keys
  BY <1>1, <1>2, <1>3, <1>5, SpoiltBefore
<1> HIDE DEF keys
<1>8. CASE keys = {}
  <2>1. quiet => ClearedUpTo(n + 1)'
    <3> SUFFICES ASSUME quiet PROVE ClearedUpTo(n + 1)'
      OBVIOUS
    <3>1. \A k \in Keys : Spoilt(k)' => t \notin TagSet(cache[k].by)
      BY <1>1, <1>5, <1>8, RigidStays DEF FiledKeys, Spoilt, Stored
    <3>2. \A m \in DOMAIN writer.tags : m < n + 1 => m < n \/ m = n
      BY <1>2, <1>6 DEF SetupGood, Listed
    <3>3. QED
      BY <1>1, <1>7, <3>1, <3>2, RigidStays DEF ClearedUpTo
  <2>2. WriterAt'
    BY <1>1, <1>2, <1>3, <1>6, <1>8, <2>1, WriterGoesOn
  <2>3. QED
    BY <1>1, <1>3, <1>4, <2>2, WriterKeeps
<1>9. CASE keys # {}
  <2>1. wr'.pc = "drop" /\ wr'.k = n /\ wr'.keys = keys
    BY <1>1, <1>9
  <2>2. WriterAt'
    BY <1>1, <1>2, <1>7, <2>1 DEF WriterAt, Idle
  <2>3. QED
    BY <1>1, <1>3, <1>4, <2>2, WriterKeeps
<1>10. QED
  BY <1>8, <1>9

\* It deletes what is filed under the tag.
LEMMA DropKeeps ==
  ASSUME CacheInv, InvalidateByTagsDrop
  PROVE  CacheInv'
<1>1. /\ UNCHANGED <<asks, writer, version, tagged, reader, up, quiet, answer>>
      /\ wr.pc = "drop" /\ wr # Idle /\ cache' = Without(wr.keys)
      /\ wr' = [pc |-> "untag", k |-> wr.k]
  BY DEF InvalidateByTagsDrop, Idle
<1>2. /\ DOMAIN cache = Keys /\ (quiet => up) /\ wr.k \in DOMAIN writer.tags
      /\ (quiet => ClearedUpTo(wr.k) /\ FiledKeys(writer.tags[wr.k]) \subseteq wr.keys)
  BY <1>1 DEF CacheInv, WriterAt
<1>3. /\ Thinned /\ DOMAIN cache' = Keys
      /\ up => \A k \in Keys : cache'[k] # None => k \notin wr.keys
  BY <1>1, <1>2, WithoutThins
<1>4. quiet => AllFiled'
  BY <1>1, <1>3, WriterAlone, FiledStays DEF CacheInv, Unfiled, Idle
<1>5. quiet => ClearedUpTo(wr.k)'
  BY <1>1, <1>2, <1>3, SpoiltBefore
<1>6. quiet => FiledKeys(writer.tags[wr.k])' = {}
  <2> SUFFICES ASSUME quiet, NEW k \in FiledKeys(writer.tags[wr.k])' PROVE FALSE
    OBVIOUS
  <2>1. k \in FiledKeys(writer.tags[wr.k])
    BY <1>1, <1>3, SpoiltBefore
  <2>2. k \in Keys /\ cache'[k] # None
    BY <1>1, RigidStays DEF FiledKeys, Stored
  <2>3. QED
    BY <1>2, <1>3, <2>1, <2>2
<1>7. WriterAt'
  BY <1>1, <1>2, <1>5, <1>6 DEF WriterAt, Idle
<1>8. QED
  BY <1>1, <1>2, <1>3, <1>4, <1>7, WriterKeeps

\* It deletes the list.
LEMMA UntagKeeps ==
  ASSUME CacheInv, InvalidateByTagsUntag
  PROVE  CacheInv'
<1> PICK n, t : n = wr.k /\ t = writer.tags[n]
  OBVIOUS
<1>1. /\ UNCHANGED <<asks, writer, version, cache, reader, up, quiet, answer>>
      /\ wr.pc = "untag" /\ wr # Idle /\ wr' = AtDrop(n + 1)
      /\ tagged' = IF up THEN [tagged EXCEPT ![t] = None] ELSE tagged
  BY DEF InvalidateByTagsUntag, Idle
<1>2. /\ SetupGood /\ (\A k \in Keys : EntryGood(k)) /\ (quiet => up)
      /\ n \in DOMAIN writer.tags /\ (quiet => ClearedUpTo(n) /\ FiledKeys(t) = {})
  BY <1>1 DEF CacheInv, WriterAt
<1>3. Thinned /\ DOMAIN tagged' = DOMAIN tagged
  BY <1>1 DEF Thinned
<1>4. n \in Nat /\ n >= 1
  BY <1>2 DEF SetupGood, Listed
<1>5. ASSUME quiet PROVE AllFiled'
  <2>1. \A u : u # t => tagged'[u] = tagged[u]
    BY <1>1
  <2>2. ASSUME NEW k \in Keys, Stored(k), NEW m \in DOMAIN TagsOf(cache[k].by)
        PROVE  InList(tagged', k, TagsOf(cache[k].by)[m])
    <3>1. InList(tagged, k, TagsOf(cache[k].by)[m])
      <4>1. \A j \in Readers : Unfiled(j, k) = {}
        BY <1>1, WriterAlone DEF Unfiled, Idle
      <4>2. QED
        BY <1>5, <2>2, <4>1 DEF CacheInv, AllFiled
    <3>2. TagsOf(cache[k].by)[m] # t
      BY <1>2, <1>5, <2>2 DEF FiledKeys, TagSet, Range
    <3>3. QED
      BY <2>1, <3>1, <3>2 DEF InList
  <2>3. QED
    BY <1>1, <2>2, RigidStays DEF AllFiled, Stored
<1>6. quiet => ClearedUpTo(n + 1)'
  <2> SUFFICES ASSUME quiet PROVE ClearedUpTo(n + 1)'
    OBVIOUS
  <2>1. \A k \in Keys : Spoilt(k)' => t \notin TagSet(cache[k].by)
    BY <1>1, <1>2, RigidStays DEF FiledKeys, Spoilt, Stored
  <2>2. \A m \in DOMAIN writer.tags : m < n + 1 => m < n \/ m = n
    BY <1>2, <1>4 DEF SetupGood, Listed
  <2>3. ClearedUpTo(n)'
    BY <1>1, <1>2, <1>3, SpoiltBefore
  <2>4. QED
    BY <1>1, <2>1, <2>2, <2>3, RigidStays DEF ClearedUpTo
<1>7. WriterAt'
  BY <1>1, <1>2, <1>3, <1>4, <1>6, WriterGoesOn
<1>8. QED
  BY <1>1, <1>3, <1>5, <1>7, WriterKeeps

\* An entry expires.
LEMMA ExpireKeeps ==
  ASSUME CacheInv, NEW k \in Keys, Expire(k)
  PROVE  CacheInv'
<1>1. /\ UNCHANGED <<asks, writer, version, tagged, reader, wr, up, quiet, answer>>
      /\ cache' = [cache EXCEPT ![k] = None]
  BY DEF Expire
<1>2. Thinned /\ DOMAIN cache' = DOMAIN cache
  BY <1>1 DEF CacheInv, Thinned
<1>3. \A j \in Readers : AnswerGood(j)'
  BY <1>1 DEF CacheInv, AnswerGood
<1>4. \A j \in Readers : ReaderGood(j)'
  BY <1>1, RigidStays DEF CacheInv, ReaderGood
<1>5. quiet' => AllFiled'
  BY <1>1, <1>2, RigidStays, FiledStays DEF CacheInv, Unfiled
<1>6. WriterAt'
  BY <1>1, <1>2, WriterStays DEF CacheInv, WriterAt
<1>7. \A j \in Readers : OwnGood(j)'
  BY <1>1, <1>2, OwnStays
<1>8. QED
  BY <1>1, <1>2, <1>3, <1>4, <1>5, <1>6, <1>7, RigidStays, EntriesStay DEF CacheInv

\* A list expires.
LEMMA ExpireTagKeeps ==
  ASSUME CacheInv, NEW t \in DOMAIN tagged, ExpireTag(t)
  PROVE  CacheInv'
<1>1. /\ UNCHANGED <<asks, writer, version, cache, reader, wr, up, answer>>
      /\ tagged' = [tagged EXCEPT ![t] = None]
      /\ quiet /\ (quiet' => Filed(t) = {})
  BY DEF ExpireTag
<1>2. Thinned /\ DOMAIN tagged' = DOMAIN tagged
  BY <1>1 DEF Thinned
<1>3. tagged'[t] = None /\ \A u : u # t => tagged'[u] = tagged[u]
  BY <1>1
<1>4. \A j \in Readers : AnswerGood(j)'
  BY <1>1 DEF CacheInv, AnswerGood
<1>5. \A j \in Readers : ReaderGood(j)'
  <2>1. \A u : tagged'[u] # None => tagged'[u] = tagged[u]
    BY <1>3
  <2>2. QED
    BY <1>1, <2>1, RigidStays DEF CacheInv, ReaderGood
<1>6. ASSUME quiet' PROVE AllFiled'
  <2>1. ASSUME NEW k \in Keys, Stored(k), NEW m \in DOMAIN TagsOf(cache[k].by)
        PROVE  TagsOf(cache[k].by)[m] # t
    BY <1>1, <1>6, <2>1 DEF Filed, Stored, Range
  <2>2. \A k, u : u # t => InList(tagged', k, u) = InList(tagged, k, u)
    BY <1>3 DEF InList
  <2>3. \A j \in Readers, k \in Keys : Unfiled(j, k)' = Unfiled(j, k)
    BY <1>1, RigidStays DEF Unfiled
  <2>4. \A k \in Keys : Stored(k)' = Stored(k) /\ cache' = cache
    BY <1>1 DEF Stored
  <2>5. AllFiled
    BY <1>1 DEF CacheInv
  <2>6. ASSUME NEW k \in Keys, Stored(k)', NEW m \in DOMAIN TagsOf(cache[k].by),
               ~InList(tagged', k, TagsOf(cache[k].by)[m])
        PROVE  \E j \in Readers : m \in Unfiled(j, k)'
    <3>1. Stored(k)
      BY <2>4, <2>6
    <3>2. InList(tagged, k, TagsOf(cache[k].by)[m]) \/ \E j \in Readers : m \in Unfiled(j, k)
      BY <2>5, <2>6, <3>1 DEF AllFiled
    <3>3. QED
      BY <2>1, <2>2, <2>3, <2>6, <3>1, <3>2
  <2>7. UNCHANGED <<asks, writer, cache>>
    BY <1>1
  <2>8. QED
    BY <2>6, <2>7, RigidStays DEF AllFiled
<1>7. WriterAt'
  BY <1>1, <1>2, WriterStays DEF CacheInv, WriterAt
<1>8. \A j \in Readers : OwnGood(j)'
  BY <1>1, <1>2, OwnStays
<1>9. QED
  BY <1>1, <1>2, <1>4, <1>5, <1>6, <1>7, <1>8, RigidStays, EntriesStay DEF CacheInv

\* Redis goes and comes back: only who is at work minds.
LEMMA RedisKeeps ==
  ASSUME CacheInv, UNCHANGED <<asks, writer, version, cache, tagged, reader, wr, answer>>,
         quiet, quiet' => Calm \/ up'
  PROVE  CacheInv'
<1>1. Thinned
  BY DEF Thinned
<1>2. \A j \in Readers : AnswerGood(j)'
  BY DEF CacheInv, AnswerGood
<1>3. \A j \in Readers : ReaderGood(j)'
  <2>1. CASE ~quiet' \/ up'
    BY <2>1, RigidStays DEF CacheInv, ReaderGood
  <2>2. CASE Calm
    BY <2>2 DEF Calm, ReaderGood, Idle
  <2>3. QED
    BY <2>1, <2>2
<1>4. quiet' => AllFiled'
  BY <1>1, RigidStays, FiledStays DEF CacheInv, Unfiled
<1>5. WriterAt'
  BY <1>1, WriterStays DEF CacheInv, Calm
<1>6. \A j \in Readers : OwnGood(j)'
  BY <1>1, OwnStays
<1>7. QED
  BY <1>1, <1>2, <1>3, <1>4, <1>5, <1>6, RigidStays, EntriesStay DEF CacheInv

\* So does every step.
LEMMA CacheStep ==
  ASSUME CacheInv, [CacheNext]_cacheVars
  PROVE  CacheInv'
<1>1. ASSUME NEW i \in Readers, Lookup(i) PROVE CacheInv'
  BY <1>1, LookupKeeps
<1>2. ASSUME NEW i \in Readers, Compute(i) PROVE CacheInv'
  BY <1>2, ComputeKeeps
<1>3. ASSUME NEW i \in Readers, Set(i) PROVE CacheInv'
  BY <1>3, SetKeeps
<1>4. ASSUME NEW i \in Readers, AssociateTagsRead(i) PROVE CacheInv'
  BY <1>4, AssociateTagsReadKeeps
<1>5. ASSUME NEW i \in Readers, AssociateTagsWrite(i) PROVE CacheInv'
  BY <1>5, AssociateTagsWriteKeeps
<1>6. CASE WriteRows
  BY <1>6, WriteRowsKeeps
<1>7. CASE Delete
  BY <1>7, DeleteKeeps
<1>8. CASE InvalidateByTagsRead
  BY <1>8, ListKeeps
<1>9. CASE InvalidateByTagsDrop
  BY <1>9, DropKeeps
<1>10. CASE InvalidateByTagsUntag
  BY <1>10, UntagKeeps
<1>11. ASSUME NEW k \in Keys, Expire(k) PROVE CacheInv'
  BY <1>11, ExpireKeeps
<1>12. ASSUME NEW t \in DOMAIN tagged, ExpireTag(t) PROVE CacheInv'
  BY <1>12, ExpireTagKeeps
<1>13. CASE Disconnect
  BY <1>13, RedisKeeps DEF Disconnect
<1>14. CASE Reconnect
  BY <1>14, RedisKeeps DEF Reconnect
<1>15. CASE UNCHANGED cacheVars
  <2>1. /\ UNCHANGED <<asks, writer, version, cache, tagged, reader, wr, up, quiet, answer>>
        /\ Thinned
    BY <1>15 DEF cacheVars, Thinned
  <2>2. \A j \in Readers : AnswerGood(j)'
    BY <2>1 DEF CacheInv, AnswerGood
  <2>3. \A j \in Readers : ReaderGood(j)'
    BY <2>1, RigidStays DEF CacheInv, ReaderGood
  <2>4. quiet' => AllFiled'
    BY <2>1, RigidStays, FiledStays DEF CacheInv, Unfiled
  <2>5. WriterAt'
    BY <2>1, WriterStays DEF CacheInv, WriterAt
  <2>6. \A j \in Readers : OwnGood(j)'
    BY <2>1, OwnStays
  <2>7. QED
    BY <2>1, <2>2, <2>3, <2>4, <2>5, <2>6, RigidStays, EntriesStay DEF CacheInv
<1>16. QED
  BY <1>1, <1>2, <1>3, <1>4, <1>5, <1>6, <1>7, <1>8, <1>9, <1>10, <1>11, <1>12, <1>13, <1>14, <1>15
     DEF CacheNext

\* A behaviour begins with views and a writer that the tables know.
LEMMA SetupStarts ==
  ASSUME CacheInit
  PROVE  SetupGood /\ DOMAIN asks = Readers
<1> DEFINE From(v, u, q) ==
        /\ asks = <<Ask(v, q), Ask(u, {})>>
        /\ \/ v \in Managed /\ u \in Managed /\ q = {} /\ writer \in Writers
           \/ writer = NoWriter
<1>0. \E v \in Views : \E u \in Views : \E q \in {{}} \cup {{p} : p \in v.asks} : From(v, u, q)
  <2>1. CASE \E v \in Managed : \E u \in Managed : \E w \in Writers :
                asks = <<Ask(v, {}), Ask(u, {})>> /\ writer = w
    BY <2>1 DEF Views
  <2>2. CASE \E v \in Views : \E u \in Views : \E q \in {{}} \cup {{p} : p \in v.asks} :
                asks = <<Ask(v, q), Ask(u, {})>> /\ writer = NoWriter
    BY <2>2
  <2>3. QED
    BY <2>1, <2>2 DEF CacheInit
<1>p. PICK v \in Views : \E u \in Views : \E q \in {{}} \cup {{p} : p \in v.asks} : From(v, u, q)
  BY <1>0
<1>r. PICK u \in Views, q \in {{}} \cup {{p} : p \in v.asks} : From(v, u, q)
  BY <1>p
<1>1. /\ asks = <<Ask(v, q), Ask(u, {})>>
      /\ \/ v \in Managed /\ u \in Managed /\ q = {} /\ writer \in Writers
         \/ writer = NoWriter
  BY <1>r
<1> HIDE DEF From
<1>2. /\ Listed(v.tags) /\ Listed(u.tags)
      /\ v.key = KeyFor(v, {}) /\ u.key = KeyFor(u, {})
  BY ManagedGood, TimedViewsGood DEF Views, ViewGood, TimedGood, Plain
<1>3. /\ DOMAIN asks = Readers
      /\ asks[1].view = v /\ asks[1].question = q
      /\ asks[2].view = u /\ asks[2].question = {}
  <2> DEFINE a == Ask(v, q)
             b == Ask(u, {})
  <2>1. a.view = v /\ a.question = q /\ b.view = u /\ b.question = {}
    BY DEF Ask
  <2>2. asks = <<a, b>>
    BY <1>1
  <2> HIDE DEF a, b
  <2>3. DOMAIN asks = Readers /\ asks[1] = a /\ asks[2] = b
    BY <2>2 DEF Readers
  <2>4. QED
    BY <2>1, <2>3
<1>4. KeyOf(1) = KeyFor(v, q) /\ KeyOf(2) = KeyFor(u, {})
  BY <1>3 DEF KeyOf
<1>5. KeyOf(1) = KeyOf(2) =>
          \/ u = v /\ (q = {} \/ v \in SharedKeys)
          \/ Crossed(asks[1], asks[2])
  BY <1>3, <1>4, SameKey DEF Crossed
<1>6. \A i \in Readers : i = 1 \/ i = 2
  BY DEF Readers
<1>7. \A i, j \in Readers : KeyOf(i) = KeyOf(j) /\ asks[i].view = asks[j].view =>
          asks[i].question = asks[j].question \/ asks[i].view \in SharedKeys
  <2>1. KeyOf(1) = KeyOf(2) /\ u = v => q = {} \/ v \in SharedKeys
    <3>1. SUFFICES ASSUME KeyFor(v, q) = KeyFor(v, {}) PROVE q = {} \/ v \in SharedKeys
      BY <1>4
    <3>2. QED
      BY <3>1, OneViewsKey
  <2>2. QED
    BY <1>3, <1>6, <2>1
<1>8. /\ Listed(writer.tags)
      /\ \A i \in Readers : writer.tables \cap asks[i].view.tables # {} =>
             /\ Gap(writer, asks[i].view) \/ Covers(writer, asks[i].view)
             /\ KeyOf(i) = asks[i].view.key
  <2>1. CASE v \in Managed /\ u \in Managed /\ q = {} /\ writer \in Writers
    <3>1. WriterGood(writer)
      BY <2>1, WritersGood
    <3>2. \A i \in Readers : asks[i].view \in Managed /\ KeyOf(i) = asks[i].view.key
      BY <1>2, <1>3, <1>4, <1>6, <2>1
    <3>3. QED
      BY <3>1, <3>2 DEF WriterGood
  <2>2. CASE writer = NoWriter
    BY <2>2 DEF NoWriter, Writer, Listed
  <2>3. QED
    BY <1>1, <2>1, <2>2
<1>9. \A i \in Readers : Listed(TagsOf(i))
  BY <1>2, <1>3, <1>6 DEF TagsOf
<1>10. QED
  BY <1>3, <1>5, <1>7, <1>8, <1>9 DEF SetupGood

\* It begins with an empty cache and nobody at work.
LEMMA CacheStarts ==
  ASSUME CacheInit
  PROVE  CacheInv
<1>1. /\ cache = [k \in Keys |-> None] /\ tagged = [t \in TagSet(1) \cup TagSet(2) |-> None]
      /\ reader = [i \in Readers |-> Idle] /\ wr = Idle
      /\ answer = [i \in Readers |-> "none"]
  BY DEF CacheInit, TagSet
<1>2. SetupGood /\ DOMAIN asks = Readers
  BY SetupStarts
<1>3. \A k \in Keys : ~Stored(k)
  BY <1>1 DEF Stored
<1>4. \A i \in Readers : AnswerGood(i)
  BY <1>1 DEF AnswerGood
<1>5. \A i \in Readers : ReaderGood(i) /\ OwnGood(i)
  BY <1>1 DEF ReaderGood, OwnGood, Idle
<1>6. WriterAt
  BY <1>1, <1>3 DEF WriterAt, Spoilt, Idle
<1>7. QED
  BY <1>1, <1>2, <1>3, <1>4, <1>5, <1>6 DEF CacheInv, EntryGood, AllFiled

\* Whatever is cached, invalidated or expired in whichever order, however many
\* writes there are: while calls follow one another no answer is stale, of
\* another question or of another method, but in the gaps the code is known to
\* have.
THEOREM AnswersStayCurrent == CacheSpec => []AnswersCurrent
<1>1. CacheInit => CacheInv
  BY CacheStarts
<1>2. CacheInv /\ [CacheNext]_cacheVars => CacheInv'
  BY CacheStep
<1>3. CacheInv => AnswersCurrent
  BY DEF CacheInv, AnswerGood, AnswersCurrent
<1>4. QED
  BY <1>1, <1>2, <1>3, PTL DEF CacheSpec
==============================================================================
