------------------------- MODULE ReportReviewProofs -------------------------
(***************************************************************************)
(* Proofs about ReportReview, for every finite set of handlers, every set  *)
(* of reporters, every limit and any number of reports, reviews and        *)
(* failing statements.                                                     *)
(***************************************************************************)
EXTENDS ReportReview, FiniteSetTheorems, TLAPS

-----------------------------------------------------------------------------
(***************************************************************************)
(* Sizes of sets that gain or lose one element.                            *)
(***************************************************************************)
LEMMA NoMore ==
  ASSUME NEW S, NEW T, IsFiniteSet(S), T \subseteq S
  PROVE  /\ IsFiniteSet(T) /\ Cardinality(T) \in Nat /\ Cardinality(S) \in Nat
         /\ Cardinality(T) <= Cardinality(S)
BY FS_Subset, FS_CardinalityType

LEMMA OneMore ==
  ASSUME NEW S, NEW T, NEW a, IsFiniteSet(S), T \subseteq S \cup {a}
  PROVE  /\ IsFiniteSet(T) /\ Cardinality(T) \in Nat /\ Cardinality(S) \in Nat
         /\ Cardinality(T) <= Cardinality(S) + 1
<1>1. /\ IsFiniteSet(S \cup {a}) /\ Cardinality(S) \in Nat
      /\ Cardinality(S \cup {a}) <= Cardinality(S) + 1
  BY FS_AddElement, FS_CardinalityType
<1>. QED
  BY <1>1, NoMore

LEMMA OneLess ==
  ASSUME NEW S, NEW T, NEW a \in S, IsFiniteSet(S), T \subseteq S \ {a}
  PROVE  /\ IsFiniteSet(T) /\ Cardinality(T) \in Nat /\ Cardinality(S) \in Nat
         /\ Cardinality(T) + 1 <= Cardinality(S)
<1>1. /\ IsFiniteSet(S \ {a}) /\ Cardinality(S) \in Nat
      /\ Cardinality(S \ {a}) = Cardinality(S) - 1
  BY FS_RemoveElement, FS_CardinalityType
<1>. QED
  BY <1>1, NoMore

-----------------------------------------------------------------------------
Verdict == {"approved", "rejected"}

LEMMA InitTyped == Init => TypeOK
<1>. SUFFICES ASSUME Init
              PROVE  TypeOK
  OBVIOUS
<1>1. reports \in Seq(Report) /\ Len(reports) = 0
  BY DEF Init
<1>2. \A h \in Handler : req[h] = Idle /\ req[h] \notin Review
  BY DEF Init, Idle, Review
<1>3. /\ MaxReports \in Nat /\ MaxReviews \in Nat /\ MaxFaults \in Nat
  BY ReviewAssumption DEF ReviewAssumption
<1>. QED
  BY <1>1, <1>2, <1>3 DEF Init, TypeOK

\* What a request that goes on keeps.
LEMMA GoingOn ==
  ASSUME NEW h \in Handler, TypeOK
  PROVE  /\ req[h] \in Intake =>
              \A where \in {"duplicate", "count", "create", "corroborate"} :
                [req[h] EXCEPT !.at = where] \in Intake
         /\ req[h] \in Review =>
              \A where \in {"load", "upsert", "update"} :
                [req[h] EXCEPT !.at = where] \in Review
BY DEF Intake, Review

\* Where a request is tells what it is.
LEMMA KindOfRequest ==
  ASSUME NEW h \in Handler, TypeOK
  PROVE  /\ At(h, "duplicate") \/ At(h, "count") \/ At(h, "create")
              \/ At(h, "corroborate") => req[h] \in Intake
         /\ At(h, "load") \/ At(h, "upsert") \/ At(h, "update") =>
              /\ req[h] \in Review /\ req[h].id \in 1 .. Len(reports)
              /\ req[h].id \in 1 .. MaxReports /\ req[h].verdict \in Verdict
<1>1. req[h] \in {Idle} \cup Intake \cup Review
  BY DEF TypeOK
<1>2. req[h] \in Review => req[h].id <= Len(reports)
  BY DEF TypeOK
<1>3. Len(reports) \in Nat
  BY DEF TypeOK
<1>. QED
  BY <1>1, <1>2, <1>3 DEF At, Idle, Intake, Review, Verdict
\* What a step of the request of h leaves to the others, and to h.
LEMMA OneRequest ==
  ASSUME TypeOK, NEW h \in Handler, NEW new, req' = [req EXCEPT ![h] = new]
  PROVE  req'[h] = new /\ \A g \in Handler \ {h} : req'[g] = req[g]
BY DEF TypeOK

LEMMA OneRequestGoesOn ==
  ASSUME TypeOK, NEW h \in Handler, NEW where, GoTo(h, where)
  PROVE  /\ req'[h] = [req[h] EXCEPT !.at = where]
         /\ \A g \in Handler \ {h} : req'[g] = req[g]
BY DEF TypeOK, GoTo

Requests == {Idle} \cup Intake \cup Review

RequestsOK(f, n) ==
  f \in [Handler -> Requests] /\ \A g \in Handler : f[g] \in Review => f[g].id <= n

\* The request of h becomes new.
Becomes(h, new) == req' = [req EXCEPT ![h] = new]

\* The requests keep their types if that of h does, and the table grows.
LEMMA RequestsTyped ==
  ASSUME TypeOK, NEW h \in Handler, NEW new \in Requests,
         Becomes(h, new),
         Len(reports') \in Nat, Len(reports) <= Len(reports'),
         new \in Review => new.id <= Len(reports')
  PROVE  RequestsOK(req', Len(reports'))
<1>1. req' \in [Handler -> Requests]
  BY DEF TypeOK, Requests, Becomes
<1>2. \A g \in Handler \ {h} : req'[g] \in Review => req'[g].id <= Len(reports')
  <2>1. \A g \in Handler : req[g] \in Review => req[g].id \in Nat
    BY ReviewAssumption DEF ReviewAssumption, Review
  <2>2. Len(reports) \in Nat
    BY DEF TypeOK
  <2>3. \A g \in Handler \ {h} : req'[g] = req[g]
    BY OneRequest DEF Becomes
  <2>. QED
    BY <2>1, <2>2, <2>3 DEF TypeOK
<1>3. req'[h] = new
  BY OneRequest DEF Becomes
<1>. QED
  BY <1>1, <1>2, <1>3 DEF RequestsOK

LEMMA IdleTyped == Idle \in Requests /\ Idle \notin Intake /\ Idle \notin Review
BY DEF Idle, Intake, Review, Requests

LEMMA StepTyped == TypeOK /\ [Next]_vars => TypeOK'
<1>. SUFFICES ASSUME TypeOK, [Next]_vars
              PROVE  TypeOK'
  OBVIOUS
<1>0. Len(reports) \in Nat /\ MaxReports \in Nat /\ MaxReviews \in Nat /\ MaxFaults \in Nat
  BY ReviewAssumption DEF ReviewAssumption, TypeOK
<1>1. ASSUME NEW h \in Handler, NEW r \in Reporter, NEW v \in Value, Submit(h, r, v)
      PROVE  TypeOK'
  <2>1. [at |-> "duplicate", by |-> r, value |-> v] \in Intake \cap Requests
      BY DEF Intake, Requests
  <2>2. [at |-> "duplicate", by |-> r, value |-> v] \notin Review
    BY DEF Review
  <2>3. RequestsOK(req', Len(reports'))
    <3>1. Becomes(h, [at |-> "duplicate", by |-> r, value |-> v])
      BY <1>1 DEF Submit, Becomes
    <3>2. reports' = reports
      BY <1>1 DEF Submit, table
    <3>. QED
      BY <1>0, <2>1, <2>2, <3>1, <3>2, RequestsTyped
  <2>. QED
    BY <1>1, <2>3 DEF Submit, TypeOK, Requests, RequestsOK, table
<1>2. ASSUME NEW h \in Handler,
             CheckDuplicate(h) \/ CheckLimit(h) \/ LoadReviewable(h)
      PROVE  TypeOK'
  <2>1. PICK new \in Requests :
          /\ Becomes(h, new)
          /\ new \in Review => new.id <= Len(reports)
    <3>1. CASE CheckDuplicate(h)
      BY <3>1, GoingOn, KindOfRequest, IdleTyped
         DEF CheckDuplicate, GoTo, Respond, Becomes, Intake, Review, Requests
    <3>2. CASE CheckLimit(h)
      BY <3>2, GoingOn, KindOfRequest, IdleTyped
         DEF CheckLimit, GoTo, Respond, Becomes, Intake, Review, Requests
    <3>3. CASE LoadReviewable(h)
      <4>1. req[h] \in Review /\ req[h].id <= Len(reports)
        BY <1>0, <3>3, KindOfRequest DEF LoadReviewable
      <4>2. \A where : [req[h] EXCEPT !.at = where].id = req[h].id
        BY <4>1 DEF Review
      <4>. QED
        BY <3>3, <4>1, <4>2, GoingOn, IdleTyped DEF LoadReviewable, GoTo, Respond, Becomes, Requests
    <3>. QED
      BY <1>2, <3>1, <3>2, <3>3
  <2>2. UNCHANGED <<reports, yesterday, decisions, live, reportCount, reviews, faults>>
    BY <1>2 DEF CheckDuplicate, CheckLimit, LoadReviewable, table
  <2>3. RequestsOK(req', Len(reports'))
    BY <1>0, <2>1, <2>2, RequestsTyped
  <2>. QED
    BY <2>2, <2>3 DEF TypeOK, Requests, RequestsOK
<1>3. ASSUME NEW h \in Handler, Create(h)
      PROVE  TypeOK'
  <2>1. req[h] \in Intake
    BY <1>3, KindOfRequest DEF Create
  <2>2. [by |-> req[h].by, value |-> req[h].value, status |-> "pending",
         linked |-> FALSE] \in Report
    BY <2>1 DEF Intake, Report, Status
  <2>3. /\ reports' \in Seq(Report) /\ Len(reports') = Len(reports) + 1
        /\ Len(reports') <= MaxReports
    BY <1>0, <1>3, <2>2 DEF TypeOK, Create
  <2>4. [req[h] EXCEPT !.at = "corroborate"] \in Requests \ Review
    BY <2>1, GoingOn DEF Intake, Review, Requests
  <2>5. Becomes(h, [req[h] EXCEPT !.at = "corroborate"])
    BY <1>3 DEF Create, GoTo, TypeOK, Becomes
  <2>6. RequestsOK(req', Len(reports'))
    BY <1>0, <2>3, <2>4, <2>5, RequestsTyped
  <2>. QED
    BY <1>0, <1>3, <2>3, <2>6 DEF Create, TypeOK, Requests, RequestsOK
<1>4. ASSUME NEW h \in Handler, Corroborate(h)
      PROVE  TypeOK'
  <2>1. RequestsOK(req', Len(reports'))
    <3>1. Becomes(h, Idle)
      BY <1>4 DEF Corroborate, Respond, Becomes
    <3>. QED
      BY <1>0, <1>4, <3>1, RequestsTyped, IdleTyped DEF Corroborate, table
  <2>2. reportCount' \in [Value -> Nat]
    BY <1>4 DEF Corroborate, TypeOK
  <2>. QED
    BY <1>4, <2>1, <2>2 DEF Corroborate, TypeOK, Requests, RequestsOK, table
<1>5. ASSUME NEW h \in Handler, NEW i \in 1 .. MaxReports, NEW verdict \in Verdict,
             RequestReview(h, i, verdict)
      PROVE  TypeOK'
  <2>1. [at |-> "load", id |-> i, verdict |-> verdict] \in Review \cap Requests
    BY DEF Review, Verdict, Requests
  <2>2. i <= Len(reports)
    BY <1>0, <1>5 DEF RequestReview
  <2>3. RequestsOK(req', Len(reports'))
    <3>1. Becomes(h, [at |-> "load", id |-> i, verdict |-> verdict])
      BY <1>5 DEF RequestReview, Becomes
    <3>2. reports' = reports
      BY <1>5 DEF RequestReview, table
    <3>. QED
      BY <1>0, <2>1, <2>2, <3>1, <3>2, RequestsTyped
  <2>. QED
    BY <1>0, <1>5, <2>3 DEF RequestReview, TypeOK, Requests, RequestsOK, table
<1>6. ASSUME NEW h \in Handler, Upsert(h)
      PROVE  TypeOK'
  <2>1. req[h] \in Review /\ req[h].id \in 1 .. Len(reports)
    BY <1>6, KindOfRequest DEF Upsert
  <2>2. [req[h] EXCEPT !.at = "update"] \in Requests
    BY <2>1, GoingOn DEF Requests
  <2>3. [req[h] EXCEPT !.at = "update"].id <= Len(reports)
    BY <1>0, <2>1 DEF Review
  <2>4. Becomes(h, [req[h] EXCEPT !.at = "update"])
    BY <1>6 DEF Upsert, GoTo, TypeOK, Becomes
  <2>5. RequestsOK(req', Len(reports'))
    <3>1. reports' = reports
      BY <1>6 DEF Upsert, table
    <3>. DEFINE new == [req[h] EXCEPT !.at = "update"]
    <3>2. new \in Requests /\ new.id <= Len(reports) /\ Becomes(h, new)
      BY <2>2, <2>3, <2>4
    <3>. HIDE DEF new
    <3>. QED
      BY <1>0, <3>1, <3>2, RequestsTyped
  <2>6. live' \subseteq Value
    <3>1. reports[req[h].id] \in Report
      BY <2>1 DEF TypeOK
    <3>. QED
      BY <1>6, <3>1 DEF Upsert, TypeOK, Report
  <2>. QED
    BY <1>6, <2>5, <2>6 DEF Upsert, TypeOK, Requests, RequestsOK, table
<1>7. ASSUME NEW h \in Handler, UpdateStatus(h)
      PROVE  TypeOK'
  <2>1. /\ req[h] \in Review /\ req[h].id \in 1 .. Len(reports)
        /\ req[h].id \in 1 .. MaxReports /\ req[h].verdict \in Verdict
    BY <1>7, KindOfRequest DEF UpdateStatus
  <2>2. reports' \in Seq(Report) /\ Len(reports') = Len(reports)
    <3>1. reports[req[h].id] \in Report
      BY <2>1 DEF TypeOK
    <3>. DEFINE new == [reports[req[h].id] EXCEPT
                          !.status = req[h].verdict,
                          !.linked = @ \/ req[h].verdict = "approved"]
    <3>2. new \in Report
      BY <2>1, <3>1 DEF Report, Status, Verdict
    <3>3. reports' = [reports EXCEPT ![req[h].id] = new]
      BY <1>7, <2>1 DEF UpdateStatus, TypeOK
    <3>. QED
      BY <2>1, <3>2, <3>3 DEF TypeOK
  <2>3. decisions' \in [1 .. MaxReports -> Nat]
    BY <1>7, <2>1 DEF UpdateStatus, TypeOK
  <2>4. RequestsOK(req', Len(reports'))
    <3>1. Becomes(h, Idle)
      BY <1>7 DEF UpdateStatus, Respond, Becomes
    <3>. QED
      BY <1>0, <1>7, <2>2, <3>1, RequestsTyped, IdleTyped DEF UpdateStatus
  <2>. QED
    BY <1>7, <2>2, <2>3, <2>4 DEF UpdateStatus, TypeOK, Requests, RequestsOK
<1>8. ASSUME NEW h \in Handler, StatementFails(h)
      PROVE  TypeOK'
  <2>1. RequestsOK(req', Len(reports'))
    <3>1. Becomes(h, Idle)
      BY <1>8 DEF StatementFails, Respond, Becomes
    <3>. QED
      BY <1>0, <1>8, <3>1, RequestsTyped, IdleTyped DEF StatementFails, table
  <2>. QED
    BY <1>0, <1>8, <2>1 DEF StatementFails, TypeOK, Requests, RequestsOK, table
<1>9. CASE Age
  BY <1>0, <1>9 DEF Age, TypeOK
<1>10. ASSUME NEW v \in Value, FeedUpsert(v)
       PROVE  TypeOK'
  BY <1>10 DEF FeedUpsert, TypeOK, table
<1>11. CASE UNCHANGED vars
  BY <1>11 DEF vars, TypeOK
<1>. QED
  BY <1>1, <1>2, <1>3, <1>4, <1>5, <1>6, <1>7, <1>8, <1>9, <1>10, <1>11
     DEF Next, Verdict

\* Reports, requests and counters keep their types, and no review looks at a
\* report that does not exist.
THEOREM TypeCorrect == Spec => []TypeOK
BY InitTyped, StepTyped, PTL DEF Spec
-----------------------------------------------------------------------------
(***************************************************************************)
(* An approved report is backed by an indicator: the review that is about  *)
(* to approve it has stored one, and indicators stay.                      *)
(***************************************************************************)
ApprovalsAreStored ==
  \A h \in Handler : At(h, "update") /\ req[h].verdict = "approved" =>
    reports[req[h].id].value \in live

Backed == TypeOK /\ ApprovedIsLive /\ ApprovalsAreStored

LEMMA InitBacked == Init => Backed
BY InitTyped DEF Init, Backed, ApprovedIsLive, ApprovalsAreStored, At, Idle

\* Every request but that of h stays as it is; that of h moves or ends.
LEMMA OthersStay ==
  ASSUME TypeOK, NEW h \in Handler,
         \/ \E where : GoTo(h, where)
         \/ Respond(h)
  PROVE  \A g \in Handler : g # h => req'[g] = req[g]
BY DEF TypeOK, GoTo, Respond

\* An index keeps its report, but for the status of one.
LEMMA TableKept ==
  ASSUME TypeOK, NEW h \in Handler, UpdateStatus(h)
  PROVE  /\ Len(reports') = Len(reports)
         /\ \A i \in 1 .. Len(reports) :
              /\ reports'[i].by = reports[i].by
              /\ reports'[i].value = reports[i].value
              /\ i # req[h].id => reports'[i] = reports[i]
         /\ req[h].id \in 1 .. Len(reports) /\ req[h].id \in 1 .. MaxReports
         /\ reports'[req[h].id].status = req[h].verdict
         /\ req[h].verdict \in Verdict
         /\ reports'[req[h].id].linked =
              (reports[req[h].id].linked \/ req[h].verdict = "approved")
<1>1. /\ req[h] \in Review /\ req[h].id \in 1 .. Len(reports)
      /\ req[h].id \in 1 .. MaxReports /\ req[h].verdict \in Verdict
  BY KindOfRequest DEF UpdateStatus
<1>. DEFINE j == req[h].id
            new == [reports[j] EXCEPT !.status = req[h].verdict,
                                      !.linked = @ \/ req[h].verdict = "approved"]
<1>2. reports[j] \in Report
  BY <1>1 DEF TypeOK
<1>3. /\ new.by = reports[j].by /\ new.value = reports[j].value
      /\ new.status = req[h].verdict
      /\ new.linked = (reports[j].linked \/ req[h].verdict = "approved")
  BY <1>2 DEF Report
<1>4. reports' = [reports EXCEPT ![j] = new]
  BY <1>1 DEF UpdateStatus, TypeOK
<1>. HIDE DEF new
<1>5. /\ Len(reports') = Len(reports)
      /\ \A i \in 1 .. Len(reports) : reports'[i] = IF i = j THEN new ELSE reports[i]
  BY <1>1, <1>4 DEF TypeOK
<1>. QED
  BY <1>1, <1>3, <1>5

LEMMA TableGrows ==
  ASSUME TypeOK, NEW h \in Handler, Create(h)
  PROVE  LET n == Len(reports) + 1 IN
         /\ Len(reports') = n /\ n \in 1 .. MaxReports
         /\ \A i \in 1 .. Len(reports) : reports'[i] = reports[i]
         /\ reports'[n].by = req[h].by /\ reports'[n].value = req[h].value
         /\ reports'[n].status = "pending" /\ ~reports'[n].linked
<1>1. Len(reports) \in Nat /\ Len(reports) < MaxReports /\ MaxReports \in Nat
  BY ReviewAssumption DEF ReviewAssumption, TypeOK, Create
<1>. DEFINE new == [by |-> req[h].by, value |-> req[h].value,
                    status |-> "pending", linked |-> FALSE]
<1>2. reports' = Append(reports, new)
  BY DEF Create
<1>3. /\ new.by = req[h].by /\ new.value = req[h].value
      /\ new.status = "pending" /\ ~new.linked
  OBVIOUS
<1>. HIDE DEF new
<1>4. /\ Len(reports') = Len(reports) + 1 /\ reports'[Len(reports) + 1] = new
      /\ \A i \in 1 .. Len(reports) : reports'[i] = reports[i]
  BY <1>1, <1>2 DEF TypeOK
<1>. QED
  BY <1>1, <1>3, <1>4
LEMMA BackedKept ==
  ASSUME Backed, NEW h \in Handler,
         \A g \in Handler : g # h => req'[g] = req[g],
         req'[h].at = "update" /\ req'[h].verdict = "approved" =>
           reports[req'[h].id].value \in live',
         reports' = reports, live \subseteq live'
  PROVE  ApprovedIsLive' /\ ApprovalsAreStored'
BY DEF Backed, ApprovedIsLive, ApprovalsAreStored, At

LEMMA StepBacked == Backed /\ [Next]_vars => Backed'
<1>. SUFFICES ASSUME Backed, [Next]_vars
              PROVE  ApprovedIsLive' /\ ApprovalsAreStored'
  BY StepTyped DEF Backed
<1>0. TypeOK /\ ApprovedIsLive /\ ApprovalsAreStored
  BY DEF Backed
<1>1. ASSUME NEW h \in Handler, NEW r \in Reporter, NEW v \in Value, Submit(h, r, v)
      PROVE  ApprovedIsLive' /\ ApprovalsAreStored'
  <2>1. /\ \A g \in Handler : g # h => req'[g] = req[g]
        /\ req'[h].at = "duplicate" /\ UNCHANGED <<reports, live>>
    BY <1>0, <1>1 DEF TypeOK, Submit, table
  <2>. QED
    BY <2>1, BackedKept
<1>2. ASSUME NEW h \in Handler, CheckDuplicate(h) \/ CheckLimit(h) \/ Corroborate(h)
      PROVE  ApprovedIsLive' /\ ApprovalsAreStored'
  <2>1. req[h] \in Intake
    BY <1>0, <1>2, KindOfRequest DEF CheckDuplicate, CheckLimit, Corroborate
  <2>2. req'[h].at # "update"
    BY <1>0, <1>2, <2>1 DEF TypeOK, CheckDuplicate, CheckLimit, Corroborate, GoTo,
       Respond, Idle, Intake
  <2>3. \A g \in Handler : g # h => req'[g] = req[g]
    BY <1>0, <1>2, OthersStay DEF CheckDuplicate, CheckLimit, Corroborate
  <2>4. UNCHANGED <<reports, live>>
    BY <1>2 DEF CheckDuplicate, CheckLimit, Corroborate, table
  <2>. QED
    BY <2>2, <2>3, <2>4, BackedKept
<1>3. ASSUME NEW h \in Handler, Create(h)
      PROVE  ApprovedIsLive' /\ ApprovalsAreStored'
  <2>1. \A g \in Handler : g # h => req'[g] = req[g]
    BY <1>0, <1>3, OthersStay DEF Create
  <2>2. req'[h].at = "corroborate"
    <3>1. req[h] \in Intake
      BY <1>0, <1>3, KindOfRequest DEF Create
    <3>. QED
      BY <1>0, <1>3, <3>1 DEF TypeOK, Create, GoTo, Intake
  <2>3. ApprovedIsLive'
    BY <1>0, <1>3, TableGrows DEF ApprovedIsLive, Create, TypeOK
  <2>4. ApprovalsAreStored'
    <3>. SUFFICES ASSUME NEW g \in Handler, g # h, At(g, "update"),
                         req[g].verdict = "approved"
                  PROVE  reports'[req[g].id].value \in live'
      BY <2>1, <2>2 DEF ApprovalsAreStored, At
    <3>1. req[g].id \in 1 .. Len(reports)
      BY <1>0, KindOfRequest
    <3>. QED
      BY <1>0, <1>3, <3>1, TableGrows DEF ApprovalsAreStored, Create
  <2>. QED
    BY <2>3, <2>4
<1>4. ASSUME NEW h \in Handler, NEW i \in 1 .. MaxReports, NEW verdict \in Verdict,
             RequestReview(h, i, verdict)
      PROVE  ApprovedIsLive' /\ ApprovalsAreStored'
  <2>1. /\ \A g \in Handler : g # h => req'[g] = req[g]
        /\ req'[h].at = "load" /\ UNCHANGED <<reports, live>>
    BY <1>0, <1>4 DEF TypeOK, RequestReview, table
  <2>. QED
    BY <2>1, BackedKept
<1>5. ASSUME NEW h \in Handler, LoadReviewable(h)
      PROVE  ApprovedIsLive' /\ ApprovalsAreStored'
  <2>1. req[h] \in Review
    BY <1>0, <1>5, KindOfRequest DEF LoadReviewable
  <2>2. req'[h].at = "update" => req'[h].verdict # "approved"
    BY <1>0, <1>5, <2>1 DEF TypeOK, LoadReviewable, GoTo, Respond, Idle, Review
  <2>3. \A g \in Handler : g # h => req'[g] = req[g]
    BY <1>0, <1>5, OthersStay DEF LoadReviewable
  <2>4. UNCHANGED <<reports, live>>
    BY <1>5 DEF LoadReviewable, table
  <2>. QED
    BY <2>2, <2>3, <2>4, BackedKept
<1>6. ASSUME NEW h \in Handler, Upsert(h)
      PROVE  ApprovedIsLive' /\ ApprovalsAreStored'
  <2>1. req[h] \in Review
    BY <1>0, <1>6, KindOfRequest DEF Upsert
  <2>2. req'[h].id = req[h].id
    BY <1>0, <1>6, <2>1 DEF TypeOK, Upsert, GoTo, Review
  <2>3. \A g \in Handler : g # h => req'[g] = req[g]
    BY <1>0, <1>6, OthersStay DEF Upsert
  <2>4. reports' = reports /\ live' = live \cup {reports[req[h].id].value}
    BY <1>6 DEF Upsert, table
  <2>. QED
    BY <2>2, <2>3, <2>4, BackedKept
<1>7. ASSUME NEW h \in Handler, UpdateStatus(h)
      PROVE  ApprovedIsLive' /\ ApprovalsAreStored'
  <2>1. \A g \in Handler : g # h => req'[g] = req[g]
    BY <1>0, <1>7, OthersStay DEF UpdateStatus
  <2>2. req'[h].at = "idle" /\ live' = live /\ At(h, "update")
    BY <1>0, <1>7 DEF TypeOK, UpdateStatus, Respond, Idle
  <2>3. ApprovedIsLive'
    <3>. SUFFICES ASSUME NEW i \in 1 .. Len(reports),
                         reports'[i].status = "approved" \/ reports'[i].linked
                  PROVE  reports[i].value \in live
      BY <1>0, <1>7, <2>2, TableKept DEF ApprovedIsLive
    <3>1. CASE i = req[h].id
      BY <1>0, <1>7, <2>2, <3>1, TableKept DEF ApprovedIsLive, ApprovalsAreStored
    <3>2. CASE i # req[h].id
      BY <1>0, <1>7, <3>2, TableKept DEF ApprovedIsLive
    <3>. QED
      BY <3>1, <3>2
  <2>4. ApprovalsAreStored'
    <3>. SUFFICES ASSUME NEW g \in Handler, g # h, At(g, "update"),
                         req[g].verdict = "approved"
                  PROVE  reports'[req[g].id].value \in live
      BY <2>1, <2>2 DEF ApprovalsAreStored, At
    <3>1. req[g].id \in 1 .. Len(reports)
      BY <1>0, KindOfRequest
    <3>. QED
      BY <1>0, <1>7, <3>1, TableKept DEF ApprovalsAreStored
  <2>. QED
    BY <2>3, <2>4
<1>8. ASSUME NEW h \in Handler, StatementFails(h)
      PROVE  ApprovedIsLive' /\ ApprovalsAreStored'
  <2>1. /\ \A g \in Handler : g # h => req'[g] = req[g]
        /\ req'[h].at = "idle" /\ UNCHANGED <<reports, live>>
    BY <1>0, <1>8 DEF TypeOK, StatementFails, Respond, Idle, table
  <2>. QED
    BY <2>1, BackedKept
<1>9. ASSUME NEW v \in Value, FeedUpsert(v)
      PROVE  ApprovedIsLive' /\ ApprovalsAreStored'
  BY <1>0, <1>9 DEF FeedUpsert, table, ApprovedIsLive, ApprovalsAreStored, At
<1>10. CASE UNCHANGED <<reports, live, req>>
  BY <1>0, <1>10 DEF ApprovedIsLive, ApprovalsAreStored, At
<1>. QED
  BY <1>1, <1>2, <1>3, <1>4, <1>5, <1>6, <1>7, <1>8, <1>9, <1>10
     DEF Next, Verdict, Age, vars

\* Whatever statements fail and whatever reviews overlap, no report is
\* approved, or linked, without its indicator in the database.
THEOREM ApprovedReportsAreLive == Spec => []ApprovedIsLive
BY InitBacked, StepBacked, PTL DEF Spec, Backed

-----------------------------------------------------------------------------
(***************************************************************************)
(* How often a report is decided.  The reviews that have found it pending  *)
(* count as if they had decided it already; as long as it is pending none  *)
(* has, and afterwards no further review gets that far.                    *)
(***************************************************************************)
Deciding(f, i) == {h \in Handler : f[h].at \in {"upsert", "update"} /\ f[h].id = i}

DecisionsCovered ==
  \A i \in 1 .. MaxReports :
    decisions[i] + Cardinality(Deciding(req, i)) <= Cardinality(Handler)

PendingIsUndecided ==
  \A i \in 1 .. MaxReports :
    i > Len(reports) \/ reports[i].status = "pending" => decisions[i] = 0

Decided == TypeOK /\ DecisionsCovered /\ PendingIsUndecided

LEMMA HandlersFinite == IsFiniteSet(Handler) /\ Cardinality(Handler) \in Nat
BY ReviewAssumption, FS_CardinalityType DEF ReviewAssumption

LEMMA DecidingIsFinite ==
  ASSUME NEW f, NEW i
  PROVE  /\ IsFiniteSet(Deciding(f, i)) /\ Cardinality(Deciding(f, i)) \in Nat
         /\ Cardinality(Deciding(f, i)) <= Cardinality(Handler)
<1>1. Deciding(f, i) \subseteq Handler
  BY DEF Deciding
<1>. QED
  BY <1>1, HandlersFinite, NoMore

LEMMA InitDecided == Init => Decided
<1>. SUFFICES ASSUME Init
              PROVE  Decided
  OBVIOUS
<1>1. \A i \in 1 .. MaxReports : decisions[i] = 0
  BY DEF Init
<1>2. \A i \in 1 .. MaxReports :
        /\ Cardinality(Deciding(req, i)) \in Nat
        /\ Cardinality(Deciding(req, i)) <= Cardinality(Handler)
  BY DecidingIsFinite
<1>. QED
  BY <1>1, <1>2, InitTyped, HandlersFinite DEF Decided, DecisionsCovered, PendingIsUndecided

\* A step of the request of h that decides nothing, and does not get it there.
LEMMA DecidedKept ==
  ASSUME Decided, NEW h \in Handler,
         \A g \in Handler : g # h => req'[g] = req[g],
         req'[h].at \in {"upsert", "update"} =>
           req[h].at \in {"upsert", "update"} /\ req'[h].id = req[h].id,
         decisions' = decisions,
         Len(reports') \in Nat, Len(reports') >= Len(reports),
         \A i \in 1 .. Len(reports) : reports'[i] = reports[i]
  PROVE  DecisionsCovered' /\ PendingIsUndecided'
<1>0. Len(reports) \in Nat
  BY DEF Decided, TypeOK
<1>1. ASSUME NEW i \in 1 .. MaxReports
      PROVE  decisions'[i] + Cardinality(Deciding(req', i)) <= Cardinality(Handler)
  <2>1. Deciding(req', i) \subseteq Deciding(req, i)
    BY DEF Deciding
  <2>2. /\ Cardinality(Deciding(req', i)) <= Cardinality(Deciding(req, i))
        /\ Cardinality(Deciding(req', i)) \in Nat /\ Cardinality(Deciding(req, i)) \in Nat
    BY <2>1, DecidingIsFinite, NoMore
  <2>3. decisions[i] \in Nat
    BY DEF Decided, TypeOK
  <2>4. decisions[i] + Cardinality(Deciding(req, i)) <= Cardinality(Handler)
    BY DEF Decided, DecisionsCovered
  <2>. QED
    BY <2>2, <2>3, <2>4, HandlersFinite
<1>2. ASSUME NEW i \in 1 .. MaxReports,
             i > Len(reports') \/ reports'[i].status = "pending"
      PROVE  decisions'[i] = 0
  <2>1. i > Len(reports) \/ reports[i].status = "pending"
    BY <1>0, <1>2
  <2>. QED
    BY <2>1 DEF Decided, PendingIsUndecided
<1>. QED
  BY <1>1, <1>2 DEF DecisionsCovered, PendingIsUndecided

LEMMA StepDecided == Decided /\ [Next]_vars => Decided'
<1>. SUFFICES ASSUME Decided, [Next]_vars
              PROVE  DecisionsCovered' /\ PendingIsUndecided'
  BY StepTyped DEF Decided
<1>0. TypeOK /\ Len(reports) \in Nat
  BY DEF Decided, TypeOK
<1>1. ASSUME NEW h \in Handler, NEW r \in Reporter, NEW v \in Value, Submit(h, r, v)
      PROVE  DecisionsCovered' /\ PendingIsUndecided'
  <2>1. /\ \A g \in Handler : g # h => req'[g] = req[g]
        /\ req'[h].at = "duplicate" /\ UNCHANGED <<reports, decisions>>
    BY <1>0, <1>1 DEF TypeOK, Submit, table
  <2>. QED
    BY <1>0, <2>1, DecidedKept
<1>2. ASSUME NEW h \in Handler,
             CheckDuplicate(h) \/ CheckLimit(h) \/ Corroborate(h) \/ StatementFails(h)
      PROVE  DecisionsCovered' /\ PendingIsUndecided'
  <2>1. req'[h].at \notin {"upsert", "update"}
    <3>1. CASE StatementFails(h)
      BY <1>0, <3>1 DEF TypeOK, StatementFails, Respond, Idle
    <3>2. CASE CheckDuplicate(h) \/ CheckLimit(h) \/ Corroborate(h)
      <4>1. req[h] \in Intake
        BY <1>0, <3>2, KindOfRequest DEF CheckDuplicate, CheckLimit, Corroborate
      <4>. QED
        BY <1>0, <3>2, <4>1 DEF TypeOK, CheckDuplicate, CheckLimit, Corroborate, GoTo,
           Respond, Idle, Intake
    <3>. QED
      BY <1>2, <3>1, <3>2
  <2>2. \A g \in Handler : g # h => req'[g] = req[g]
    BY <1>0, <1>2, OthersStay DEF CheckDuplicate, CheckLimit, Corroborate, StatementFails
  <2>3. UNCHANGED <<reports, decisions>>
    BY <1>2 DEF CheckDuplicate, CheckLimit, Corroborate, StatementFails, table
  <2>. QED
    BY <1>0, <2>1, <2>2, <2>3, DecidedKept
<1>3. ASSUME NEW h \in Handler, Create(h)
      PROVE  DecisionsCovered' /\ PendingIsUndecided'
  <2>1. \A g \in Handler : g # h => req'[g] = req[g]
    BY <1>0, <1>3, OthersStay DEF Create
  <2>2. req'[h].at = "corroborate"
    <3>1. req[h] \in Intake
      BY <1>0, <1>3, KindOfRequest DEF Create
    <3>. QED
      BY <1>0, <1>3, <3>1 DEF TypeOK, Create, GoTo, Intake
  <2>3. decisions' = decisions
    BY <1>3 DEF Create
  <2>. QED
    BY <1>0, <1>3, <2>1, <2>2, <2>3, TableGrows, DecidedKept
<1>4. ASSUME NEW h \in Handler, NEW i \in 1 .. MaxReports, NEW verdict \in Verdict,
             RequestReview(h, i, verdict)
      PROVE  DecisionsCovered' /\ PendingIsUndecided'
  <2>1. /\ \A g \in Handler : g # h => req'[g] = req[g]
        /\ req'[h].at = "load" /\ UNCHANGED <<reports, decisions>>
    BY <1>0, <1>4 DEF TypeOK, RequestReview, table
  <2>. QED
    BY <1>0, <2>1, DecidedKept
<1>5. ASSUME NEW h \in Handler, LoadReviewable(h)
      PROVE  DecisionsCovered' /\ PendingIsUndecided'
  <2>1. req[h] \in Review /\ req[h].id \in 1 .. MaxReports
    BY <1>0, <1>5, KindOfRequest DEF LoadReviewable
  <2>2. \A g \in Handler : g # h => req'[g] = req[g]
    BY <1>0, <1>5, OthersStay DEF LoadReviewable
  <2>3. UNCHANGED <<reports, decisions>>
    BY <1>5 DEF LoadReviewable, table
  <2>4. CASE reports[req[h].id].status = "pending"
    <3>1. ASSUME NEW i \in 1 .. MaxReports
          PROVE  decisions'[i] + Cardinality(Deciding(req', i)) <= Cardinality(Handler)
      <4>1. CASE i = req[h].id
        <5>1. decisions[i] = 0
          BY <2>4, <4>1 DEF Decided, PendingIsUndecided
        <5>. QED
          BY <2>3, <5>1, DecidingIsFinite, HandlersFinite
      <4>2. CASE i # req[h].id
        <5>1. req'[h] = Idle \/ req'[h].id = req[h].id \/ req'[h].at = "idle"
          BY <1>0, <1>5, <2>1 DEF TypeOK, LoadReviewable, GoTo, Respond, Review
        <5>2. Deciding(req', i) \subseteq Deciding(req, i)
          BY <2>2, <4>2, <5>1 DEF Deciding, Idle
        <5>3. /\ Cardinality(Deciding(req', i)) <= Cardinality(Deciding(req, i))
              /\ Cardinality(Deciding(req', i)) \in Nat
              /\ Cardinality(Deciding(req, i)) \in Nat
          BY <5>2, DecidingIsFinite, NoMore
        <5>4. decisions[i] \in Nat
          BY <1>0 DEF TypeOK
        <5>5. decisions[i] + Cardinality(Deciding(req, i)) <= Cardinality(Handler)
          BY DEF Decided, DecisionsCovered
        <5>. QED
          BY <2>3, <5>3, <5>4, <5>5, HandlersFinite
      <4>. QED
        BY <4>1, <4>2
    <3>2. PendingIsUndecided'
      BY <2>3 DEF Decided, PendingIsUndecided
    <3>. QED
      BY <3>1, <3>2 DEF DecisionsCovered
  <2>5. CASE reports[req[h].id].status # "pending"
    <3>1. req'[h].at = "idle"
      BY <1>0, <1>5, <2>5 DEF TypeOK, LoadReviewable, Respond, Idle
    <3>. QED
      BY <1>0, <2>2, <2>3, <3>1, DecidedKept
  <2>. QED
    BY <2>4, <2>5
<1>6. ASSUME NEW h \in Handler, Upsert(h)
      PROVE  DecisionsCovered' /\ PendingIsUndecided'
  <2>1. req[h] \in Review /\ req[h].at = "upsert"
    BY <1>0, <1>6, KindOfRequest DEF Upsert, At
  <2>2. req'[h].id = req[h].id
    BY <1>0, <1>6, <2>1 DEF TypeOK, Upsert, GoTo, Review
  <2>3. \A g \in Handler : g # h => req'[g] = req[g]
    BY <1>0, <1>6, OthersStay DEF Upsert
  <2>4. UNCHANGED <<reports, decisions>>
    BY <1>6 DEF Upsert, table
  <2>. QED
    BY <1>0, <2>1, <2>2, <2>3, <2>4, DecidedKept
<1>7. ASSUME NEW h \in Handler, UpdateStatus(h)
      PROVE  DecisionsCovered' /\ PendingIsUndecided'
  <2>1. \A g \in Handler : g # h => req'[g] = req[g]
    BY <1>0, <1>7, OthersStay DEF UpdateStatus
  <2>2. req'[h].at = "idle" /\ req[h].at = "update"
    BY <1>0, <1>7 DEF TypeOK, UpdateStatus, Respond, Idle, At
  <2>3. req[h].id \in 1 .. MaxReports
    BY <1>0, <1>7, KindOfRequest DEF UpdateStatus
  <2>4. \A i \in 1 .. MaxReports :
          decisions'[i] = IF i = req[h].id THEN decisions[i] + 1 ELSE decisions[i]
    BY <1>0, <1>7, <2>3 DEF UpdateStatus, TypeOK
  <2>5. ASSUME NEW i \in 1 .. MaxReports
        PROVE  decisions'[i] + Cardinality(Deciding(req', i)) <= Cardinality(Handler)
    <3>1. decisions[i] \in Nat
      BY <1>0 DEF TypeOK
    <3>2. decisions[i] + Cardinality(Deciding(req, i)) <= Cardinality(Handler)
      BY DEF Decided, DecisionsCovered
    <3>3. CASE i = req[h].id
      <4>1. h \in Deciding(req, i) /\ Deciding(req', i) \subseteq Deciding(req, i) \ {h}
        BY <2>1, <2>2, <3>3 DEF Deciding
      <4>2. /\ Cardinality(Deciding(req', i)) + 1 <= Cardinality(Deciding(req, i))
            /\ Cardinality(Deciding(req', i)) \in Nat
            /\ Cardinality(Deciding(req, i)) \in Nat
        BY <4>1, DecidingIsFinite, OneLess
      <4>. QED
        BY <2>4, <3>1, <3>2, <3>3, <4>2, HandlersFinite
    <3>4. CASE i # req[h].id
      <4>1. Deciding(req', i) \subseteq Deciding(req, i)
        BY <2>1, <2>2 DEF Deciding
      <4>2. /\ Cardinality(Deciding(req', i)) <= Cardinality(Deciding(req, i))
            /\ Cardinality(Deciding(req', i)) \in Nat
            /\ Cardinality(Deciding(req, i)) \in Nat
        BY <4>1, DecidingIsFinite, NoMore
      <4>. QED
        BY <2>4, <3>1, <3>2, <3>4, <4>2, HandlersFinite
    <3>. QED
      BY <3>3, <3>4
  <2>6. ASSUME NEW i \in 1 .. MaxReports,
               i > Len(reports') \/ reports'[i].status = "pending"
        PROVE  decisions'[i] = 0
    <3>1. /\ i # req[h].id
          /\ i > Len(reports) \/ reports[i].status = "pending"
      BY <1>0, <1>7, <2>6, TableKept DEF Verdict
    <3>. QED
      BY <2>4, <3>1 DEF Decided, PendingIsUndecided
  <2>. QED
    BY <2>5, <2>6 DEF DecisionsCovered, PendingIsUndecided
<1>8. CASE UNCHANGED <<reports, decisions, req>>
  BY <1>8 DEF Decided, DecisionsCovered, PendingIsUndecided
<1>. QED
  BY <1>1, <1>2, <1>3, <1>4, <1>5, <1>6, <1>7, <1>8
     DEF Next, Verdict, Age, FeedUpsert, table, vars

LEMMA DecidedBounds == Decided => DecisionsAreBounded
<1>. SUFFICES ASSUME Decided, NEW i \in 1 .. Len(reports)
              PROVE  decisions[i] <= Cardinality(Handler)
  BY DEF DecisionsAreBounded
<1>1. i \in 1 .. MaxReports /\ decisions[i] \in Nat
  BY ReviewAssumption DEF Decided, TypeOK, ReviewAssumption
<1>2. decisions[i] + Cardinality(Deciding(req, i)) <= Cardinality(Handler)
  BY <1>1 DEF Decided, DecisionsCovered
<1>. QED
  BY <1>1, <1>2, DecidingIsFinite, HandlersFinite

\* However many reviews of a report overlap, it is decided at most once by
\* every handler, and never again once they are through.
THEOREM DecisionsBounded == Spec => []DecisionsAreBounded
BY InitDecided, StepDecided, DecidedBounds, PTL DEF Spec

-----------------------------------------------------------------------------
(***************************************************************************)
(* What slips through the checks of the intake.  A request that is past a  *)
(* check counts as if its report were in the table already; a request past *)
(* the creation as if its report were not yet counted for its value.       *)
(***************************************************************************)
Creating(f, x)     == {h \in Handler : f[h].at = "create" /\ x \in f[h].by}
Reporting(f, x, v) == {h \in Handler : /\ f[h].at \in {"count", "create"}
                                       /\ x \in f[h].by /\ f[h].value = v}
Counting(f, v)     == {h \in Handler : f[h].at = "corroborate" /\ f[h].value = v}

RecentOf(t, n, x)  == {i \in 1 .. Len(t) : x \in t[i].by /\ i > n}
PendingOf(t, x, v) == {i \in 1 .. Len(t) : /\ x \in t[i].by /\ t[i].value = v
                                           /\ t[i].status = "pending"}
About(t, v)        == {i \in 1 .. Len(t) : t[i].value = v}

LimitCovered ==
  \A x \in Identity :
    Cardinality(RecentOf(reports, yesterday, x)) + Cardinality(Creating(req, x))
      < Limit + Cardinality(Handler)

DuplicatesCovered ==
  \A x \in Identity, v \in Value :
    Cardinality(PendingOf(reports, x, v)) + Cardinality(Reporting(req, x, v))
      <= Cardinality(Handler)

CountCovered ==
  \A v \in Value :
    reportCount[v] + Cardinality(Counting(req, v)) <= Cardinality(About(reports, v))

Covered == TypeOK /\ LimitCovered /\ DuplicatesCovered /\ CountCovered

LEMMA RequestSetsFinite ==
  ASSUME NEW f, NEW x, NEW v, NEW S \in {Creating(f, x), Reporting(f, x, v), Counting(f, v)}
  PROVE  /\ IsFiniteSet(S) /\ Cardinality(S) \in Nat
         /\ Cardinality(S) <= Cardinality(Handler)
<1>1. S \subseteq Handler
  BY DEF Creating, Reporting, Counting
<1>. QED
  BY <1>1, HandlersFinite, NoMore

LEMMA RowSetsFinite ==
  ASSUME NEW t, Len(t) \in Nat, NEW n, NEW x, NEW v,
         NEW S \in {RecentOf(t, n, x), PendingOf(t, x, v), About(t, v)}
  PROVE  IsFiniteSet(S) /\ Cardinality(S) \in Nat
<1>1. IsFiniteSet(1 .. Len(t))
  BY FS_Interval
<1>2. S \subseteq 1 .. Len(t)
  BY DEF RecentOf, PendingOf, About
<1>. QED
  BY <1>1, <1>2, NoMore

LEMMA LimitType == Limit \in Nat \ {0}
BY ReviewAssumption DEF ReviewAssumption

LEMMA InitCovered == Init => Covered
<1>. SUFFICES ASSUME Init
              PROVE  LimitCovered /\ DuplicatesCovered /\ CountCovered
  BY InitTyped DEF Covered
<1>0. Cardinality({}) = 0
  BY FS_EmptySet
<1>1. \A x, v : /\ RecentOf(reports, yesterday, x) = {}
                /\ PendingOf(reports, x, v) = {}
  BY DEF Init, RecentOf, PendingOf
<1>2. \A x, v : Creating(req, x) = {} /\ Reporting(req, x, v) = {} /\ Counting(req, v) = {}
  BY DEF Init, Idle, Creating, Reporting, Counting
<1>3. \A v : About(reports, v) = {}
  BY DEF Init, About
<1>4. \A v \in Value : reportCount[v] = 0
  BY DEF Init
<1>5. LimitCovered
  <2>. SUFFICES ASSUME NEW x \in Identity
                PROVE  0 + 0 < Limit + Cardinality(Handler)
    BY <1>0, <1>1, <1>2 DEF LimitCovered
  <2>. QED
    BY HandlersFinite, LimitType
<1>6. DuplicatesCovered
  <2>. SUFFICES 0 + 0 <= Cardinality(Handler)
    BY <1>0, <1>1, <1>2 DEF DuplicatesCovered
  <2>. QED
    BY HandlersFinite
<1>7. CountCovered
  <2>. SUFFICES 0 + 0 <= 0
    BY <1>0, <1>2, <1>3, <1>4 DEF CountCovered
  <2>. QED
    OBVIOUS
<1>. QED
  BY <1>5, <1>6, <1>7

\* Each condition stands while the rows and the requests it counts become fewer.
LEMMA LimitKept ==
  ASSUME Covered, Len(reports) \in Nat, Len(reports') \in Nat,
         \A x : RecentOf(reports', yesterday', x) \subseteq RecentOf(reports, yesterday, x),
         \A x : Creating(req', x) \subseteq Creating(req, x)
  PROVE  LimitCovered'
<1>. SUFFICES ASSUME NEW x \in Identity
              PROVE  Cardinality(RecentOf(reports', yesterday', x))
                       + Cardinality(Creating(req', x)) < Limit + Cardinality(Handler)
  BY DEF LimitCovered
<1>1. /\ Cardinality(RecentOf(reports', yesterday', x))
           <= Cardinality(RecentOf(reports, yesterday, x))
      /\ Cardinality(RecentOf(reports', yesterday', x)) \in Nat
      /\ Cardinality(RecentOf(reports, yesterday, x)) \in Nat
  BY RowSetsFinite, NoMore
<1>2. /\ Cardinality(Creating(req', x)) <= Cardinality(Creating(req, x))
      /\ Cardinality(Creating(req', x)) \in Nat /\ Cardinality(Creating(req, x)) \in Nat
  BY RequestSetsFinite, NoMore
<1>3. Cardinality(RecentOf(reports, yesterday, x)) + Cardinality(Creating(req, x))
        < Limit + Cardinality(Handler)
  BY DEF Covered, LimitCovered
<1>. QED
  BY <1>1, <1>2, <1>3, HandlersFinite, LimitType

LEMMA DuplicatesKept ==
  ASSUME Covered, Len(reports) \in Nat, Len(reports') \in Nat, NEW x \in Identity,
         NEW v \in Value,
         PendingOf(reports', x, v) \subseteq PendingOf(reports, x, v),
         Reporting(req', x, v) \subseteq Reporting(req, x, v)
  PROVE  Cardinality(PendingOf(reports', x, v)) + Cardinality(Reporting(req', x, v))
           <= Cardinality(Handler)
<1>1. /\ Cardinality(PendingOf(reports', x, v)) <= Cardinality(PendingOf(reports, x, v))
      /\ Cardinality(PendingOf(reports', x, v)) \in Nat
      /\ Cardinality(PendingOf(reports, x, v)) \in Nat
  BY RowSetsFinite, NoMore
<1>2. /\ Cardinality(Reporting(req', x, v)) <= Cardinality(Reporting(req, x, v))
      /\ Cardinality(Reporting(req', x, v)) \in Nat
      /\ Cardinality(Reporting(req, x, v)) \in Nat
  BY RequestSetsFinite, NoMore
<1>3. Cardinality(PendingOf(reports, x, v)) + Cardinality(Reporting(req, x, v))
        <= Cardinality(Handler)
  BY DEF Covered, DuplicatesCovered
<1>. QED
  BY <1>1, <1>2, <1>3, HandlersFinite

LEMMA CountKept ==
  ASSUME Covered, Len(reports) \in Nat,
         \A v : About(reports', v) = About(reports, v),
         \A v : Counting(req', v) \subseteq Counting(req, v),
         reportCount' = reportCount
  PROVE  CountCovered'
<1>. SUFFICES ASSUME NEW v \in Value
              PROVE  reportCount[v] + Cardinality(Counting(req', v))
                       <= Cardinality(About(reports, v))
  BY DEF CountCovered
<1>1. /\ Cardinality(Counting(req', v)) <= Cardinality(Counting(req, v))
      /\ Cardinality(Counting(req', v)) \in Nat /\ Cardinality(Counting(req, v)) \in Nat
  BY RequestSetsFinite, NoMore
<1>2. Cardinality(About(reports, v)) \in Nat /\ reportCount[v] \in Nat
  BY RowSetsFinite DEF Covered, TypeOK
<1>3. reportCount[v] + Cardinality(Counting(req, v)) <= Cardinality(About(reports, v))
  BY DEF Covered, CountCovered
<1>. QED
  BY <1>1, <1>2, <1>3

LEMMA CoveredKept ==
  ASSUME Covered, Len(reports) \in Nat, Len(reports') \in Nat,
         \A x : RecentOf(reports', yesterday', x) \subseteq RecentOf(reports, yesterday, x),
         \A x, v : PendingOf(reports', x, v) \subseteq PendingOf(reports, x, v),
         \A v : About(reports', v) = About(reports, v),
         \A x : Creating(req', x) \subseteq Creating(req, x),
         \A x, v : Reporting(req', x, v) \subseteq Reporting(req, x, v),
         \A v : Counting(req', v) \subseteq Counting(req, v),
         reportCount' = reportCount
  PROVE  LimitCovered' /\ DuplicatesCovered' /\ CountCovered'
<1>1. LimitCovered'
  BY LimitKept
<1>2. \A x \in Identity, v \in Value :
        Cardinality(PendingOf(reports', x, v)) + Cardinality(Reporting(req', x, v))
          <= Cardinality(Handler)
  BY DuplicatesKept
<1>3. CountCovered'
  BY CountKept
<1>. QED
  BY <1>1, <1>2, <1>3 DEF DuplicatesCovered

Past == {"count", "create", "corroborate"}

\* A request that is past none of the checks afterwards counts for nothing.
LEMMA RequestEnds ==
  ASSUME Covered, NEW h \in Handler,
         \A g \in Handler : g # h => req'[g] = req[g],
         req'[h].at \notin Past
  PROVE  /\ \A x : Creating(req', x) \subseteq Creating(req, x)
         /\ \A x, v : Reporting(req', x, v) \subseteq Reporting(req, x, v)
         /\ \A v : Counting(req', v) \subseteq Counting(req, v)
BY DEF Past, Creating, Reporting, Counting

LEMMA RowsStay ==
  ASSUME UNCHANGED <<reports, yesterday>>
  PROVE  /\ \A x : RecentOf(reports', yesterday', x) = RecentOf(reports, yesterday, x)
         /\ \A x, v : PendingOf(reports', x, v) = PendingOf(reports, x, v)
         /\ \A v : About(reports', v) = About(reports, v)
OBVIOUS

LEMMA CheckDuplicateCovered ==
  ASSUME Covered, NEW h \in Handler, CheckDuplicate(h)
  PROVE  LimitCovered' /\ DuplicatesCovered' /\ CountCovered'
<1>0. TypeOK /\ Len(reports) \in Nat /\ Len(reports') \in Nat
  BY DEF Covered, TypeOK, CheckDuplicate, table
<1>1. UNCHANGED <<reports, yesterday, reportCount>>
  BY DEF CheckDuplicate, table
<1>2. \A g \in Handler : g # h => req'[g] = req[g]
  BY <1>0, OthersStay DEF CheckDuplicate
<1>3. CASE Pending(req[h].by, req[h].value) # {}
  <2>1. req'[h].at \notin Past
    BY <1>0, <1>3 DEF TypeOK, CheckDuplicate, Respond, Idle, Past
  <2>. QED
    BY <1>0, <1>1, <1>2, <2>1, RowsStay, RequestEnds, CoveredKept
<1>4. CASE Pending(req[h].by, req[h].value) = {}
  <2>1. req[h] \in Intake
    BY <1>0, KindOfRequest DEF CheckDuplicate
  <2>2. req'[h].at = "count" /\ req'[h].by = req[h].by /\ req'[h].value = req[h].value
    BY <1>0, <1>4, <2>1 DEF TypeOK, CheckDuplicate, GoTo, Intake
  <2>3. \A x : Creating(req', x) \subseteq Creating(req, x)
    BY <1>2, <2>2 DEF Creating
  <2>4. \A v : Counting(req', v) \subseteq Counting(req, v)
    BY <1>2, <2>2 DEF Counting
  <2>5. ASSUME NEW x \in Identity, NEW v \in Value
        PROVE  Cardinality(PendingOf(reports', x, v)) + Cardinality(Reporting(req', x, v))
                 <= Cardinality(Handler)
    <3>1. CASE x \in req[h].by /\ v = req[h].value
      <4>1. PendingOf(reports, x, v) \subseteq Pending(req[h].by, req[h].value)
        BY <3>1 DEF PendingOf, Pending, Of
      <4>2. Cardinality(PendingOf(reports, x, v)) = 0
        BY <1>4, <4>1, FS_EmptySet
      <4>. QED
        BY <1>1, <4>2, RequestSetsFinite, HandlersFinite
    <3>2. CASE ~(x \in req[h].by /\ v = req[h].value)
      <4>1. Reporting(req', x, v) \subseteq Reporting(req, x, v)
        BY <1>2, <2>2, <3>2 DEF Reporting
      <4>. QED
        BY <1>0, <1>1, <4>1, RowsStay, DuplicatesKept
    <3>. QED
      BY <3>1, <3>2
  <2>6. LimitCovered'
    BY <1>0, <1>1, <2>3, RowsStay, LimitKept
  <2>7. CountCovered'
    BY <1>0, <1>1, <2>4, RowsStay, CountKept
  <2>. QED
    BY <2>5, <2>6, <2>7 DEF DuplicatesCovered
<1>. QED
  BY <1>3, <1>4

LEMMA CheckLimitCovered ==
  ASSUME Covered, NEW h \in Handler, CheckLimit(h)
  PROVE  LimitCovered' /\ DuplicatesCovered' /\ CountCovered'
<1>0. TypeOK /\ Len(reports) \in Nat /\ Len(reports') \in Nat
  BY DEF Covered, TypeOK, CheckLimit, table
<1>1. UNCHANGED <<reports, yesterday, reportCount>>
  BY DEF CheckLimit, table
<1>2. \A g \in Handler : g # h => req'[g] = req[g]
  BY <1>0, OthersStay DEF CheckLimit
<1>3. CASE Cardinality(Recent(req[h].by)) >= Limit
  <2>1. req'[h].at \notin Past
    BY <1>0, <1>3 DEF TypeOK, CheckLimit, Respond, Idle, Past
  <2>. QED
    BY <1>0, <1>1, <1>2, <2>1, RowsStay, RequestEnds, CoveredKept
<1>4. CASE ~(Cardinality(Recent(req[h].by)) >= Limit)
  <2>1. req[h] \in Intake /\ req[h].at = "count"
    BY <1>0, KindOfRequest DEF CheckLimit, At
  <2>2. req'[h].at = "create" /\ req'[h].by = req[h].by /\ req'[h].value = req[h].value
    BY <1>0, <1>4, <2>1 DEF TypeOK, CheckLimit, GoTo, Intake
  <2>3. \A x, v : Reporting(req', x, v) \subseteq Reporting(req, x, v)
    BY <1>2, <2>1, <2>2 DEF Reporting
  <2>4. \A v : Counting(req', v) \subseteq Counting(req, v)
    BY <1>2, <2>2 DEF Counting
  <2>5. ASSUME NEW x \in Identity
        PROVE  Cardinality(RecentOf(reports', yesterday', x))
                 + Cardinality(Creating(req', x)) < Limit + Cardinality(Handler)
    <3>1. CASE x \in req[h].by
      <4>1. RecentOf(reports, yesterday, x) \subseteq Recent(req[h].by)
        BY <3>1 DEF RecentOf, Recent, Of
      <4>2. IsFiniteSet(Recent(req[h].by))
        <5>1. Recent(req[h].by) \subseteq 1 .. Len(reports) /\ IsFiniteSet(1 .. Len(reports))
          BY <1>0, FS_Interval DEF Recent, Of
        <5>. QED
          BY <5>1, FS_Subset
      <4>3. /\ Cardinality(RecentOf(reports, yesterday, x)) \in Nat
            /\ Cardinality(RecentOf(reports, yesterday, x)) < Limit
        BY <1>4, <4>1, <4>2, NoMore, LimitType
      <4>4. /\ Cardinality(Creating(req', x)) \in Nat
            /\ Cardinality(Creating(req', x)) <= Cardinality(Handler)
        BY RequestSetsFinite
      <4>. QED
        BY <1>1, <4>3, <4>4, HandlersFinite, LimitType
    <3>2. CASE x \notin req[h].by
      <4>1. Creating(req', x) \subseteq Creating(req, x)
        BY <1>2, <2>2, <3>2 DEF Creating
      <4>2. /\ Cardinality(Creating(req', x)) <= Cardinality(Creating(req, x))
            /\ Cardinality(Creating(req', x)) \in Nat /\ Cardinality(Creating(req, x)) \in Nat
        BY <4>1, RequestSetsFinite, NoMore
      <4>3. Cardinality(RecentOf(reports, yesterday, x)) \in Nat
        BY <1>0, RowSetsFinite
      <4>4. Cardinality(RecentOf(reports, yesterday, x)) + Cardinality(Creating(req, x))
              < Limit + Cardinality(Handler)
        BY DEF Covered, LimitCovered
      <4>. QED
        BY <1>1, <4>2, <4>3, <4>4, HandlersFinite, LimitType
    <3>. QED
      BY <3>1, <3>2
  <2>6. \A x \in Identity, v \in Value :
          Cardinality(PendingOf(reports', x, v)) + Cardinality(Reporting(req', x, v))
            <= Cardinality(Handler)
    BY <1>0, <1>1, <2>3, RowsStay, DuplicatesKept
  <2>7. CountCovered'
    BY <1>0, <1>1, <2>4, RowsStay, CountKept
  <2>. QED
    BY <2>5, <2>6, <2>7 DEF LimitCovered, DuplicatesCovered
<1>. QED
  BY <1>3, <1>4

\* The report that is created leaves the requests that were about to create one.
LEMMA CreateCovered ==
  ASSUME Covered, NEW h \in Handler, Create(h)
  PROVE  LimitCovered' /\ DuplicatesCovered' /\ CountCovered'
<1>. DEFINE n == Len(reports) + 1
            new == reports'[n]
<1>0. TypeOK /\ Len(reports) \in Nat /\ n \notin 1 .. Len(reports)
  BY DEF Covered, TypeOK
<1>1. /\ Len(reports') = n
      /\ \A i \in 1 .. Len(reports) : reports'[i] = reports[i]
      /\ new.by = req[h].by /\ new.value = req[h].value
  BY <1>0, TableGrows
<1>2. yesterday' = yesterday /\ reportCount' = reportCount
  BY DEF Create
<1>3. \A g \in Handler : g # h => req'[g] = req[g]
  BY <1>0, OthersStay DEF Create
<1>4. req[h] \in Intake /\ req[h].at = "create"
  BY <1>0, KindOfRequest DEF Create, At
<1>5. req'[h].at = "corroborate" /\ req'[h].value = req[h].value
  BY <1>0, <1>4 DEF TypeOK, Create, GoTo, Intake
<1>6. 1 .. Len(reports') = (1 .. Len(reports)) \cup {n}
  BY <1>0, <1>1
<1>. HIDE DEF new, n
<1>7. ASSUME NEW x \in Identity
      PROVE  Cardinality(RecentOf(reports', yesterday', x))
               + Cardinality(Creating(req', x)) < Limit + Cardinality(Handler)
  <2>0. /\ Cardinality(RecentOf(reports, yesterday, x)) + Cardinality(Creating(req, x))
             < Limit + Cardinality(Handler)
        /\ IsFiniteSet(RecentOf(reports, yesterday, x))
        /\ IsFiniteSet(Creating(req, x)) /\ Cardinality(Creating(req, x)) \in Nat
    BY <1>0, RowSetsFinite, RequestSetsFinite DEF Covered, LimitCovered
  <2>1. CASE x \in req[h].by
    <3>1. RecentOf(reports', yesterday', x) \subseteq RecentOf(reports, yesterday, x) \cup {n}
      BY <1>1, <1>2, <1>6 DEF RecentOf
    <3>2. h \in Creating(req, x) /\ Creating(req', x) \subseteq Creating(req, x) \ {h}
      BY <1>3, <1>4, <1>5, <2>1 DEF Creating
    <3>3. /\ Cardinality(RecentOf(reports', yesterday', x))
               <= Cardinality(RecentOf(reports, yesterday, x)) + 1
          /\ Cardinality(RecentOf(reports', yesterday', x)) \in Nat
          /\ Cardinality(RecentOf(reports, yesterday, x)) \in Nat
      BY <2>0, <3>1, OneMore
    <3>4. /\ Cardinality(Creating(req', x)) + 1 <= Cardinality(Creating(req, x))
          /\ Cardinality(Creating(req', x)) \in Nat
      BY <2>0, <3>2, OneLess
    <3>. QED
      BY <2>0, <3>3, <3>4, HandlersFinite, LimitType
  <2>2. CASE x \notin req[h].by
    <3>1. RecentOf(reports', yesterday', x) \subseteq RecentOf(reports, yesterday, x)
      BY <1>1, <1>2, <1>6, <2>2 DEF RecentOf, new
    <3>2. Creating(req', x) \subseteq Creating(req, x)
      BY <1>3, <1>5 DEF Creating
    <3>3. /\ Cardinality(RecentOf(reports', yesterday', x))
               <= Cardinality(RecentOf(reports, yesterday, x))
          /\ Cardinality(RecentOf(reports', yesterday', x)) \in Nat
          /\ Cardinality(RecentOf(reports, yesterday, x)) \in Nat
      BY <2>0, <3>1, NoMore
    <3>4. /\ Cardinality(Creating(req', x)) <= Cardinality(Creating(req, x))
          /\ Cardinality(Creating(req', x)) \in Nat
      BY <2>0, <3>2, NoMore
    <3>. QED
      BY <2>0, <3>3, <3>4, HandlersFinite, LimitType
  <2>. QED
    BY <2>1, <2>2
<1>8. ASSUME NEW x \in Identity, NEW v \in Value
      PROVE  Cardinality(PendingOf(reports', x, v)) + Cardinality(Reporting(req', x, v))
               <= Cardinality(Handler)
  <2>0. /\ Cardinality(PendingOf(reports, x, v)) + Cardinality(Reporting(req, x, v))
             <= Cardinality(Handler)
        /\ IsFiniteSet(PendingOf(reports, x, v))
        /\ IsFiniteSet(Reporting(req, x, v)) /\ Cardinality(Reporting(req, x, v)) \in Nat
    BY <1>0, RowSetsFinite, RequestSetsFinite DEF Covered, DuplicatesCovered
  <2>1. CASE x \in req[h].by /\ v = req[h].value
    <3>1. PendingOf(reports', x, v) \subseteq PendingOf(reports, x, v) \cup {n}
      BY <1>1, <1>6 DEF PendingOf
    <3>2. h \in Reporting(req, x, v) /\ Reporting(req', x, v) \subseteq Reporting(req, x, v) \ {h}
      BY <1>3, <1>4, <1>5, <2>1 DEF Reporting
    <3>3. /\ Cardinality(PendingOf(reports', x, v)) <= Cardinality(PendingOf(reports, x, v)) + 1
          /\ Cardinality(PendingOf(reports', x, v)) \in Nat
          /\ Cardinality(PendingOf(reports, x, v)) \in Nat
      BY <2>0, <3>1, OneMore
    <3>4. /\ Cardinality(Reporting(req', x, v)) + 1 <= Cardinality(Reporting(req, x, v))
          /\ Cardinality(Reporting(req', x, v)) \in Nat
      BY <2>0, <3>2, OneLess
    <3>. QED
      BY <2>0, <3>3, <3>4, HandlersFinite
  <2>2. CASE ~(x \in req[h].by /\ v = req[h].value)
    <3>1. PendingOf(reports', x, v) \subseteq PendingOf(reports, x, v)
      BY <1>1, <1>6, <2>2 DEF PendingOf, new
    <3>2. Reporting(req', x, v) \subseteq Reporting(req, x, v)
      BY <1>3, <1>5 DEF Reporting
    <3>3. /\ Cardinality(PendingOf(reports', x, v)) <= Cardinality(PendingOf(reports, x, v))
          /\ Cardinality(PendingOf(reports', x, v)) \in Nat
          /\ Cardinality(PendingOf(reports, x, v)) \in Nat
      BY <2>0, <3>1, NoMore
    <3>4. /\ Cardinality(Reporting(req', x, v)) <= Cardinality(Reporting(req, x, v))
          /\ Cardinality(Reporting(req', x, v)) \in Nat
      BY <2>0, <3>2, NoMore
    <3>. QED
      BY <2>0, <3>3, <3>4, HandlersFinite
  <2>. QED
    BY <2>1, <2>2
<1>9. ASSUME NEW v \in Value
      PROVE  reportCount'[v] + Cardinality(Counting(req', v)) <= Cardinality(About(reports', v))
  <2>0. /\ reportCount[v] + Cardinality(Counting(req, v)) <= Cardinality(About(reports, v))
        /\ IsFiniteSet(About(reports, v)) /\ IsFiniteSet(About(reports', v))
        /\ IsFiniteSet(Counting(req, v)) /\ Cardinality(Counting(req, v)) \in Nat
        /\ reportCount[v] \in Nat
    <3>1. Len(reports') \in Nat
      BY <1>0, <1>1 DEF n
    <3>. QED
      BY <1>0, <3>1, RowSetsFinite, RequestSetsFinite DEF Covered, CountCovered, TypeOK
  <2>1. CASE v = req[h].value
    <3>1. n \in About(reports', v) /\ About(reports, v) \subseteq About(reports', v) \ {n}
      BY <1>0, <1>1, <1>6, <2>1 DEF About, new
    <3>2. Counting(req', v) \subseteq Counting(req, v) \cup {h}
      BY <1>3 DEF Counting
    <3>3. /\ Cardinality(About(reports, v)) + 1 <= Cardinality(About(reports', v))
          /\ Cardinality(About(reports', v)) \in Nat /\ Cardinality(About(reports, v)) \in Nat
      BY <2>0, <3>1, OneLess
    <3>4. /\ Cardinality(Counting(req', v)) <= Cardinality(Counting(req, v)) + 1
          /\ Cardinality(Counting(req', v)) \in Nat
      BY <2>0, <3>2, OneMore
    <3>. QED
      BY <1>2, <2>0, <3>3, <3>4
  <2>2. CASE v # req[h].value
    <3>1. About(reports, v) \subseteq About(reports', v)
      BY <1>1, <1>6 DEF About
    <3>2. Counting(req', v) \subseteq Counting(req, v)
      BY <1>3, <1>5, <2>2 DEF Counting
    <3>3. /\ Cardinality(About(reports, v)) <= Cardinality(About(reports', v))
          /\ Cardinality(About(reports', v)) \in Nat /\ Cardinality(About(reports, v)) \in Nat
      BY <2>0, <3>1, NoMore
    <3>4. /\ Cardinality(Counting(req', v)) <= Cardinality(Counting(req, v))
          /\ Cardinality(Counting(req', v)) \in Nat
      BY <2>0, <3>2, NoMore
    <3>. QED
      BY <1>2, <2>0, <3>3, <3>4
  <2>. QED
    BY <2>1, <2>2
<1>. QED
  BY <1>7, <1>8, <1>9 DEF LimitCovered, DuplicatesCovered, CountCovered

\* The report that is counted leaves the requests that were about to count one.
LEMMA CorroborateCovered ==
  ASSUME Covered, NEW h \in Handler, Corroborate(h)
  PROVE  LimitCovered' /\ DuplicatesCovered' /\ CountCovered'
<1>0. TypeOK /\ Len(reports) \in Nat /\ Len(reports') \in Nat
  BY DEF Covered, TypeOK, Corroborate, table
<1>1. UNCHANGED <<reports, yesterday>>
  BY DEF Corroborate, table
<1>2. \A g \in Handler : g # h => req'[g] = req[g]
  BY <1>0, OthersStay DEF Corroborate
<1>3. req[h] \in Intake /\ req[h].at = "corroborate"
  BY <1>0, KindOfRequest DEF Corroborate, At
<1>4. req'[h].at \notin Past
  BY <1>0 DEF TypeOK, Corroborate, Respond, Idle, Past
<1>5. /\ \A x : Creating(req', x) \subseteq Creating(req, x)
      /\ \A x, v : Reporting(req', x, v) \subseteq Reporting(req, x, v)
      /\ \A v : Counting(req', v) \subseteq Counting(req, v)
  BY <1>2, <1>4, RequestEnds
<1>6. LimitCovered'
  BY <1>0, <1>1, <1>5, RowsStay, LimitKept
<1>7. DuplicatesCovered'
  <2>1. \A x \in Identity, v \in Value :
          Cardinality(PendingOf(reports', x, v)) + Cardinality(Reporting(req', x, v))
            <= Cardinality(Handler)
    BY <1>0, <1>1, <1>5, RowsStay, DuplicatesKept
  <2>. QED
    BY <2>1 DEF DuplicatesCovered
<1>8. ASSUME NEW v \in Value
      PROVE  reportCount'[v] + Cardinality(Counting(req', v)) <= Cardinality(About(reports', v))
  <2>0. /\ reportCount[v] + Cardinality(Counting(req, v)) <= Cardinality(About(reports, v))
        /\ Cardinality(About(reports, v)) \in Nat
        /\ IsFiniteSet(Counting(req, v)) /\ Cardinality(Counting(req, v)) \in Nat
        /\ reportCount[v] \in Nat
    BY <1>0, RowSetsFinite, RequestSetsFinite DEF Covered, CountCovered, TypeOK
  <2>1. CASE v = req[h].value
    <3>1. h \in Counting(req, v) /\ Counting(req', v) \subseteq Counting(req, v) \ {h}
      BY <1>2, <1>3, <1>4, <2>1 DEF Counting, Past
    <3>2. /\ Cardinality(Counting(req', v)) + 1 <= Cardinality(Counting(req, v))
          /\ Cardinality(Counting(req', v)) \in Nat
      BY <2>0, <3>1, OneLess
    <3>3. reportCount'[v] = reportCount[v] + 1 \/ reportCount'[v] = reportCount[v]
      BY <1>0, <2>1 DEF Corroborate, TypeOK
    <3>. QED
      BY <1>1, <2>0, <3>2, <3>3
  <2>2. CASE v # req[h].value
    <3>1. /\ Cardinality(Counting(req', v)) <= Cardinality(Counting(req, v))
          /\ Cardinality(Counting(req', v)) \in Nat
      BY <1>5, <2>0, NoMore
    <3>2. reportCount'[v] = reportCount[v]
      BY <1>0, <2>2 DEF Corroborate, TypeOK
    <3>. QED
      BY <1>1, <2>0, <3>1, <3>2
  <2>. QED
    BY <2>1, <2>2
<1>. QED
  BY <1>6, <1>7, <1>8 DEF CountCovered

LEMMA StepCovered == Covered /\ [Next]_vars => Covered'
<1>. SUFFICES ASSUME Covered, [Next]_vars
              PROVE  LimitCovered' /\ DuplicatesCovered' /\ CountCovered'
  BY StepTyped DEF Covered
<1>0. TypeOK /\ Len(reports) \in Nat /\ yesterday \in Nat
  BY DEF Covered, TypeOK
<1>1. ASSUME NEW h \in Handler, NEW r \in Reporter, NEW v \in Value, Submit(h, r, v)
      PROVE  LimitCovered' /\ DuplicatesCovered' /\ CountCovered'
  <2>1. /\ \A g \in Handler : g # h => req'[g] = req[g]
        /\ req'[h].at \notin Past /\ UNCHANGED <<reports, yesterday, reportCount>>
    BY <1>0, <1>1 DEF TypeOK, Submit, table, Past
  <2>. QED
    BY <1>0, <2>1, RowsStay, RequestEnds, CoveredKept
<1>2. ASSUME NEW h \in Handler, NEW i \in 1 .. MaxReports, NEW verdict \in Verdict,
             RequestReview(h, i, verdict)
      PROVE  LimitCovered' /\ DuplicatesCovered' /\ CountCovered'
  <2>1. /\ \A g \in Handler : g # h => req'[g] = req[g]
        /\ req'[h].at \notin Past /\ UNCHANGED <<reports, yesterday, reportCount>>
    BY <1>0, <1>2 DEF TypeOK, RequestReview, table, Past
  <2>. QED
    BY <1>0, <2>1, RowsStay, RequestEnds, CoveredKept
<1>3. ASSUME NEW h \in Handler, LoadReviewable(h) \/ Upsert(h) \/ StatementFails(h)
      PROVE  LimitCovered' /\ DuplicatesCovered' /\ CountCovered'
  <2>1. \A g \in Handler : g # h => req'[g] = req[g]
    BY <1>0, <1>3, OthersStay DEF LoadReviewable, Upsert, StatementFails
  <2>2. req'[h].at \notin Past
    <3>1. CASE StatementFails(h)
      BY <1>0, <3>1 DEF TypeOK, StatementFails, Respond, Idle, Past
    <3>2. CASE LoadReviewable(h) \/ Upsert(h)
      <4>1. req[h] \in Review
        BY <1>0, <3>2, KindOfRequest DEF LoadReviewable, Upsert
      <4>. QED
        BY <1>0, <3>2, <4>1 DEF TypeOK, LoadReviewable, Upsert, GoTo, Respond, Idle,
           Review, Past
    <3>. QED
      BY <1>3, <3>1, <3>2
  <2>3. UNCHANGED <<reports, yesterday, reportCount>>
    BY <1>3 DEF LoadReviewable, Upsert, StatementFails, table
  <2>. QED
    BY <1>0, <2>1, <2>2, <2>3, RowsStay, RequestEnds, CoveredKept
<1>4. ASSUME NEW h \in Handler, UpdateStatus(h)
      PROVE  LimitCovered' /\ DuplicatesCovered' /\ CountCovered'
  <2>1. /\ \A g \in Handler : g # h => req'[g] = req[g]
        /\ req'[h].at \notin Past /\ UNCHANGED <<yesterday, reportCount>>
    BY <1>0, <1>4, OthersStay DEF TypeOK, UpdateStatus, Respond, Idle, Past
  <2>2. /\ Len(reports') = Len(reports)
        /\ \A i \in 1 .. Len(reports) :
             /\ reports'[i].by = reports[i].by
             /\ reports'[i].value = reports[i].value
             /\ reports'[i].status = "pending" => reports[i].status = "pending"
    BY <1>0, <1>4, TableKept DEF Verdict
  <2>3. \A x : RecentOf(reports', yesterday', x) \subseteq RecentOf(reports, yesterday, x)
    BY <2>1, <2>2 DEF RecentOf
  <2>4. \A x, v : PendingOf(reports', x, v) \subseteq PendingOf(reports, x, v)
    BY <2>2 DEF PendingOf
  <2>5. \A v : About(reports', v) = About(reports, v)
    BY <2>2 DEF About
  <2>. QED
    BY <1>0, <2>1, <2>2, <2>3, <2>4, <2>5, RequestEnds, CoveredKept
<1>5. CASE Age
  <2>1. /\ UNCHANGED <<reports, req, reportCount>> /\ yesterday' = yesterday + 1
    BY <1>5 DEF Age
  <2>2. \A x : RecentOf(reports', yesterday', x) \subseteq RecentOf(reports, yesterday, x)
    BY <1>0, <2>1 DEF RecentOf
  <2>. QED
    BY <1>0, <2>1, <2>2, CoveredKept
<1>6. CASE UNCHANGED <<reports, yesterday, req, reportCount>>
  BY <1>0, <1>6, CoveredKept
<1>. QED
  BY <1>1, <1>2, <1>3, <1>4, <1>5, <1>6, CheckDuplicateCovered, CheckLimitCovered,
     CreateCovered, CorroborateCovered
     DEF Next, Verdict, FeedUpsert, table, vars

LEMMA CoveredBounds == Covered => IntakeIsBounded
<1>. SUFFICES ASSUME Covered
              PROVE  LimitIsBounded /\ DuplicatesAreBounded /\ ReportCountIsBacked
  BY DEF IntakeIsBounded
<1>0. TypeOK /\ Len(reports) \in Nat
  BY DEF Covered, TypeOK
<1>1. ASSUME NEW x \in Identity
      PROVE  Cardinality(Recent({x})) < Limit + Cardinality(Handler)
  <2>1. Recent({x}) = RecentOf(reports, yesterday, x)
    BY DEF Recent, Of, RecentOf
  <2>2. /\ Cardinality(Recent({x})) \in Nat /\ Cardinality(Creating(req, x)) \in Nat
        /\ Cardinality(Recent({x})) + Cardinality(Creating(req, x))
             < Limit + Cardinality(Handler)
    BY <1>0, <2>1, RowSetsFinite, RequestSetsFinite DEF Covered, LimitCovered
  <2>. QED
    BY <2>2, HandlersFinite, LimitType
<1>2. ASSUME NEW x \in Identity, NEW v \in Value
      PROVE  Cardinality(Pending({x}, v)) <= Cardinality(Handler)
  <2>1. Pending({x}, v) = PendingOf(reports, x, v)
    BY DEF Pending, Of, PendingOf
  <2>2. /\ Cardinality(Pending({x}, v)) \in Nat /\ Cardinality(Reporting(req, x, v)) \in Nat
        /\ Cardinality(Pending({x}, v)) + Cardinality(Reporting(req, x, v))
             <= Cardinality(Handler)
    BY <1>0, <2>1, RowSetsFinite, RequestSetsFinite DEF Covered, DuplicatesCovered
  <2>. QED
    BY <2>2, HandlersFinite
<1>3. ASSUME NEW v \in Value
      PROVE  reportCount[v] <= Cardinality({i \in 1 .. Len(reports) : reports[i].value = v})
  <2>1. /\ Cardinality(About(reports, v)) \in Nat /\ Cardinality(Counting(req, v)) \in Nat
        /\ reportCount[v] \in Nat
        /\ reportCount[v] + Cardinality(Counting(req, v)) <= Cardinality(About(reports, v))
    BY <1>0, RowSetsFinite, RequestSetsFinite DEF Covered, CountCovered, TypeOK
  <2>2. reportCount[v] <= Cardinality(About(reports, v))
    BY <2>1
  <2>. QED
    BY <2>2 DEF About
<1>. QED
  BY <1>1, <1>2, <1>3 DEF LimitIsBounded, DuplicatesAreBounded, ReportCountIsBacked

\* The checks of the intake let no more through than there are handlers, and a
\* value is counted no more often than it was reported.
THEOREM IntakeBounded == Spec => []IntakeIsBounded
BY InitCovered, StepCovered, CoveredBounds, PTL DEF Spec
=============================================================================
