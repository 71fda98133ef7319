---------------------------- MODULE ReportReview ----------------------------
(***************************************************************************)
(* User-submitted threat reports: their intake (Report in                  *)
(* handlers/intelligence.go), their review by admins (ApproveReport and    *)
(* RejectReport in handlers/admin.go) and the table between them           *)
(* (repository/intel_reports.go).  Every handler is a chain of statements  *)
(* of its own transaction each, and handlers run side by side, in one API  *)
(* replica or in several.                                                  *)
(***************************************************************************)
EXTENDS Integers, Sequences, FiniteSets

CONSTANTS
  Handler,      \* requests served at the same time
  Identity,     \* user ids and device ids
  Reporter,     \* who reports: the ids of a request, none for a service
  Value,        \* reported indicator values
  Limit,        \* reports per reporter and day, 50 in the code
  MaxReports,   \* bound: reports ever created
  MaxReviews,   \* bound: reviews ever requested
  MaxFaults     \* bound: failing statements

ASSUME ReviewAssumption ==
  /\ IsFiniteSet(Handler)
  /\ Reporter \subseteq SUBSET Identity
  /\ Limit \in Nat \ {0}
  /\ {MaxReports, MaxReviews, MaxFaults} \subseteq Nat

VARIABLES
  reports,      \* the table, in the order of creation
  yesterday,    \* how many of them are older than 24 hours
  live,         \* values of the indicators table
  reportCount,  \* report_count of every value
  decisions,    \* decisions[i]: how often report i was decided (history)
  req,          \* req[h]: the request handler h serves
  reviews, faults

vars == <<reports, yesterday, live, reportCount, decisions, req, reviews, faults>>

Status == {"pending", "approved", "rejected"}
Report == [by : Reporter, value : Value, status : Status, linked : BOOLEAN]

Idle == [at |-> "idle"]
Intake == [at : {"duplicate", "count", "create", "corroborate"},
           by : Reporter, value : Value]
Review == [at : {"load", "upsert", "update"},
           id : 1 .. MaxReports, verdict : {"approved", "rejected"}]

TypeOK ==
  /\ reports \in Seq(Report) /\ Len(reports) <= MaxReports
  /\ yesterday \in 0 .. Len(reports)
  /\ live \subseteq Value
  /\ reportCount \in [Value -> Nat]
  /\ decisions \in [1 .. MaxReports -> Nat]
  /\ req \in [Handler -> {Idle} \cup Intake \cup Review]
  /\ \A h \in Handler : req[h] \in Review => req[h].id <= Len(reports)
  /\ reviews \in 0 .. MaxReviews
  /\ faults \in 0 .. MaxFaults

Init ==
  /\ reports = <<>>
  /\ yesterday = 0
  /\ live = {}
  /\ reportCount = [v \in Value |-> 0]
  /\ decisions = [i \in 1 .. MaxReports |-> 0]
  /\ req = [h \in Handler |-> Idle]
  /\ reviews = 0
  /\ faults = 0

table == <<reports, yesterday, decisions>>

At(h, where)    == req[h].at = where
GoTo(h, where)  == req' = [req EXCEPT ![h].at = where]
Respond(h)      == req' = [req EXCEPT ![h] = Idle]

\* The statements match on the user id or the device id, whichever is known.
Of(r)           == {i \in 1 .. Len(reports) : reports[i].by \cap r # {}}
Pending(r, v)   == {i \in Of(r) : reports[i].value = v /\ reports[i].status = "pending"}
Recent(r)       == {i \in Of(r) : i > yesterday}

(***************************************************************************)
(* Plausible slips, each an alternative form of the definition its comment *)
(* names.                                                                  *)
(***************************************************************************)

\* CountRecentByReporter compared with > instead of >=.
CountOneMore(h) ==
  /\ At(h, "count")
  /\ IF Cardinality(Recent(req[h].by)) > Limit
     THEN Respond(h)
     ELSE GoTo(h, "create")
  /\ UNCHANGED <<table, live, reportCount, reviews, faults>>

\* loadReviewableReport without its look at the status.
LoadAny(h) ==
  /\ At(h, "load")
  /\ GoTo(h, IF req[h].verdict = "approved" THEN "upsert" ELSE "update")
  /\ UNCHANGED <<table, live, reportCount, reviews, faults>>

\* An approval that updates the status although the upsert failed.
UpsertOrNot(h) ==
  /\ At(h, "upsert")
  /\ \/ live' = live \cup {reports[req[h].id].value}
     \/ UNCHANGED live
  /\ GoTo(h, "update")
  /\ UNCHANGED <<table, reportCount, reviews, faults>>

(***************************************************************************)
(* A statement fails: the handler answers with an error.                   *)
(***************************************************************************)
StatementFails(h) ==
  /\ req[h] # Idle
  /\ faults < MaxFaults /\ faults' = faults + 1
  /\ Respond(h)
  /\ UNCHANGED <<table, live, reportCount, reviews>>

(***************************************************************************)
(* Report: refuse a pending duplicate, refuse beyond the limit, create the *)
(* report, and count it for an indicator that exists.                      *)
(***************************************************************************)
Submit(h, r, v) ==
  /\ req[h] = Idle
  /\ Len(reports) < MaxReports
  /\ req' = [req EXCEPT ![h] = [at |-> "duplicate", by |-> r, value |-> v]]
  /\ UNCHANGED <<table, live, reportCount, reviews, faults>>

CheckDuplicate(h) ==
  /\ At(h, "duplicate")
  /\ IF Pending(req[h].by, req[h].value) # {}
     THEN Respond(h)
     ELSE GoTo(h, "count")
  /\ UNCHANGED <<table, live, reportCount, reviews, faults>>

CheckLimit(h) ==
  /\ At(h, "count")
  /\ IF Cardinality(Recent(req[h].by)) >= Limit
     THEN Respond(h)
     ELSE GoTo(h, "create")
  /\ UNCHANGED <<table, live, reportCount, reviews, faults>>

Create(h) ==
  /\ At(h, "create")
  /\ Len(reports) < MaxReports
  /\ reports' = Append(reports, [by |-> req[h].by, value |-> req[h].value,
                                 status |-> "pending", linked |-> FALSE])
  /\ GoTo(h, "corroborate")
  /\ UNCHANGED <<yesterday, live, reportCount, decisions, reviews, faults>>

Corroborate(h) ==
  /\ At(h, "corroborate")
  /\ reportCount' = IF req[h].value \in live
                    THEN [reportCount EXCEPT ![req[h].value] = @ + 1]
                    ELSE reportCount
  /\ Respond(h)
  /\ UNCHANGED <<table, live, reviews, faults>>

(***************************************************************************)
(* ApproveReport and RejectReport: load a report that can still be         *)
(* reviewed, store its indicator when it is approved, update its status.   *)
(***************************************************************************)
RequestReview(h, i, verdict) ==
  /\ req[h] = Idle
  /\ i \in 1 .. Len(reports)
  /\ reviews < MaxReviews /\ reviews' = reviews + 1
  /\ req' = [req EXCEPT ![h] = [at |-> "load", id |-> i, verdict |-> verdict]]
  /\ UNCHANGED <<table, live, reportCount, faults>>

LoadReviewable(h) ==
  /\ At(h, "load")
  /\ IF reports[req[h].id].status = "pending"
     THEN GoTo(h, IF req[h].verdict = "approved" THEN "upsert" ELSE "update")
     ELSE Respond(h)
  /\ UNCHANGED <<table, live, reportCount, reviews, faults>>

Upsert(h) ==
  /\ At(h, "upsert")
  /\ live' = live \cup {reports[req[h].id].value}
  /\ GoTo(h, "update")
  /\ UNCHANGED <<table, reportCount, reviews, faults>>

\* Whatever status the report has by now; a link is never taken back.
UpdateStatus(h) ==
  /\ At(h, "update")
  /\ LET i == req[h].id IN
     /\ reports' = [reports EXCEPT ![i].status = req[h].verdict,
                                   ![i].linked = @ \/ req[h].verdict = "approved"]
     /\ decisions' = [decisions EXCEPT ![i] = @ + 1]
  /\ Respond(h)
  /\ UNCHANGED <<yesterday, live, reportCount, reviews, faults>>

\* The oldest report of the last 24 hours drops out of the window.
Age ==
  /\ yesterday < Len(reports)
  /\ yesterday' = yesterday + 1
  /\ UNCHANGED <<reports, live, reportCount, decisions, req, reviews, faults>>

\* A source of the aggregator brings the indicator in.
FeedUpsert(v) ==
  /\ live' = live \cup {v}
  /\ UNCHANGED <<table, reportCount, req, reviews, faults>>

Next ==
  \/ \E h \in Handler :
       \/ \E r \in Reporter, v \in Value : Submit(h, r, v)
       \/ CheckDuplicate(h) \/ CheckLimit(h) \/ Create(h) \/ Corroborate(h)
       \/ \E i \in 1 .. MaxReports, verdict \in {"approved", "rejected"} :
            RequestReview(h, i, verdict)
       \/ LoadReviewable(h) \/ Upsert(h) \/ UpdateStatus(h)
       \/ StatementFails(h)
  \/ Age
  \/ \E v \in Value : FeedUpsert(v)

Spec == Init /\ [][Next]_vars

-----------------------------------------------------------------------------
(***************************************************************************)
(* An approved report, and a report that ever was approved, is backed by   *)
(* an indicator, whatever statements fail and whatever reviews overlap.    *)
(***************************************************************************)
ApprovedIsLive ==
  \A i \in 1 .. Len(reports) :
    reports[i].status = "approved" \/ reports[i].linked => reports[i].value \in live

LimitIsBounded ==
  \A x \in Identity : Cardinality(Recent({x})) < Limit + Cardinality(Handler)

DuplicatesAreBounded ==
  \A x \in Identity, v \in Value : Cardinality(Pending({x}, v)) <= Cardinality(Handler)

ReportCountIsBacked ==
  \A v \in Value :
    reportCount[v] <= Cardinality({i \in 1 .. Len(reports) : reports[i].value = v})

(***************************************************************************)
(* The checks of the intake are not atomic with the creation, but what     *)
(* slips through is bounded by the requests served at the same time: no    *)
(* user and no device, alone or together, gets more than Limit - 1 reports *)
(* and one per handler into a day, nor more than one pending report per    *)
(* handler for the same value; and no report counts for its value without  *)
(* having been created, or twice.                                          *)
(***************************************************************************)
IntakeIsBounded == LimitIsBounded /\ DuplicatesAreBounded /\ ReportCountIsBacked

(***************************************************************************)
(* A report is decided once, and again only by reviews that were already   *)
(* under way: no more often than there are handlers.                       *)
(***************************************************************************)
DecisionsAreBounded ==
  \A i \in 1 .. Len(reports) : decisions[i] <= Cardinality(Handler)
=============================================================================
