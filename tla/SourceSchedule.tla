--------------------------- MODULE SourceSchedule ---------------------------
(***************************************************************************)
(* When the sources are fetched: the due-sources loop of Aggregator.Run    *)
(* (aggregator.go), the sources table it schedules by                      *)
(* (repository/source.go), the PATCH of a source by an administrator       *)
(* (handlers/sources.go) and the in-memory rate-limit backoff of the       *)
(* connectors (sources/interface.go).                                      *)
(*                                                                         *)
(* A loop is the ticker loop of one API replica.  A runner is any other    *)
(* goroutine that fetches: the start-up run of all sources, the scheduler, *)
(* an admin request, the aggregator worker.  Runners, and the loops when   *)
(* they fall back, use fetchFromSource, which never touches a row: its     *)
(* connectors report the nil source id.  Only a loop working through the   *)
(* due sources uses fetchFromSourceWithDB.  Nothing keeps two contexts off *)
(* the same source, in one replica or in two.                              *)
(*                                                                         *)
(* Time is counted in ticker periods; every deadline is kept as the time   *)
(* that is left until it.  "paused" stands for both settings that take a   *)
(* source out of the schedule, paused and disabled.                        *)
(***************************************************************************)
EXTENDS Integers, FiniteSets

CONSTANTS
  Source,      \* enabled connectors, each with a row in the sources table
  Throttled,   \* those that report rate and plan limits as such
  Loop,        \* due-sources loops, one per API replica
  Runner,      \* other goroutines that fetch
  Admin,       \* PATCH requests that may overlap
  Proc,        \* operating-system processes
  ProcOf,      \* ProcOf[c]: the process that context c runs in
  Intervals,   \* Intervals[s]: what update_interval of the row of s may be
  RetryAfter,  \* the waits a provider may ask for
  PlanWait,    \* 24 hours
  NoSource,
  MaxEdits,    \* bound on PATCHes
  MaxLost      \* bound on failing statements per source and waiting time

Context == Loop \cup Runner

ASSUME ScheduleAssumption ==
  /\ Throttled \subseteq Source
  /\ Loop \cap Runner = {}
  /\ IsFiniteSet(Context)
  /\ ProcOf \in [Context -> Proc]
  /\ Intervals \in [Source -> (SUBSET (Nat \ {0})) \ {{}}]
  /\ RetryAfter \subseteq Nat \ {0}
  /\ PlanWait \in Nat \ {0}
  /\ NoSource \notin Source
  /\ MaxEdits \in Nat /\ MaxLost \in Nat

VARIABLES
  status,    \* status[s] in the sources table
  errors,    \* error_count, of which nothing tells four from more
  wait,      \* time left until next_fetch; 0 when it is due or NULL
  backoff,   \* backoff[p][s]: time left until backoffUntil, in process p
  queue,     \* queue[l]: sources loop l has still to visit in this cycle
  tracked,   \* tracked[l]: the queue came from ListDue
  flight,    \* flight[c]: the source context c has a request out to
  edit,      \* edit[a]: the row a PATCH has read and not yet written back
  edits      \* PATCHes so far

\* History, for the properties only.
VARIABLES
  answers,   \* answers[p][s]: 429s of s since p's open backoff window began
  turns,     \* turns[s]: tracked requests since the row of s last fell due
  lost,      \* lost[s]: statements on the row that failed since then
  held       \* held[s]: of the loops that had s in hand when it last ceased
             \* to be active, those that still have

row  == <<status, errors, wait>>
vars == <<status, errors, wait, backoff, queue, tracked, flight, edit, edits,
          answers, turns, lost, held>>

Larger(a, b)  == IF a < b THEN b ELSE a
Smaller(a, b) == IF a < b THEN a ELSE b
Before(n)     == IF n = 0 THEN 0 ELSE n - 1

Status == {"active", "paused", "error"}
Edit   == [source : Source, status : Status]
NoEdit == [source |-> NoSource, status |-> "active"]

\* No source is ever put off for longer than four intervals, a plan limit
\* or the longest wait a provider may ask for.
WaitIsBounded(s) ==
  \/ \E i \in Intervals[s] : wait[s] <= 4 * i
  \/ wait[s] <= PlanWait
  \/ \E w \in RetryAfter : wait[s] <= w

TypeOK ==
  /\ status \in [Source -> Status]
  /\ errors \in [Source -> 0..4]
  /\ wait \in [Source -> Nat] /\ \A s \in Source : WaitIsBounded(s)
  /\ backoff \in [Proc -> [Source -> Nat]]
  /\ queue \in [Loop -> SUBSET Source]
  /\ tracked \in [Loop -> BOOLEAN]
  /\ flight \in [Context -> Source \cup {NoSource}]
  /\ edit \in [Admin -> Edit \cup {NoEdit}]
  /\ edits \in 0..MaxEdits
  /\ answers \in [Proc -> [Source -> Nat]]
  /\ turns \in [Source -> Nat]
  /\ lost \in [Source -> 0..MaxLost]
  /\ held \in [Source -> SUBSET Loop]

\* Rows are seeded active or paused, and not fetched before.
Init ==
  /\ status \in [Source -> {"active", "paused"}]
  /\ errors = [s \in Source |-> 0]
  /\ wait = [s \in Source |-> 0]
  /\ backoff = [p \in Proc |-> [s \in Source |-> 0]]
  /\ queue = [l \in Loop |-> {}]
  /\ tracked = [l \in Loop |-> FALSE]
  /\ flight = [c \in Context |-> NoSource]
  /\ edit = [a \in Admin |-> NoEdit]
  /\ edits = 0
  /\ answers = [p \in Proc |-> [s \in Source |-> 0]]
  /\ turns = [s \in Source |-> 0]
  /\ lost = [s \in Source |-> 0]
  /\ held = [s \in Source |-> {}]

(***************************************************************************)
(* Plausible slips, each an alternative form of the definition its comment *)
(* names.                                                                  *)
(***************************************************************************)

\* ListDue that also lists errored sources.
DueOrErrored == {s \in Source : status[s] # "paused" /\ wait[s] = 0}

\* ListDue that overlooks next_fetch.
AllActive == {s \in Source : status[s] = "active"}

\* PostponeAfterError without the cap of four intervals.
PostponeUncapped(s) ==
  \E i \in Intervals[s] : wait' = [wait EXCEPT ![s] = i * (errors[s] + 2)]

\* BackingOff that a forced run does not ask.
LoopsBackOff(c, s) == c \in Loop /\ s \in Throttled /\ backoff[ProcOf[c]][s] > 0


(***************************************************************************)
(* The sources table.                                                      *)
(***************************************************************************)
ListDue == {s \in Source : status[s] = "active" /\ wait[s] = 0}

UpdateAfterFetch(s) ==
  /\ \E i \in Intervals[s] : wait' = [wait EXCEPT ![s] = i]
  /\ errors' = [errors EXCEPT ![s] = 0]
  /\ status' = [status EXCEPT ![s] = "active"]

\* next_fetch + update_interval * LEAST(error_count + 1, 4)
PostponeAfterError(s) ==
  \E i \in Intervals[s] : wait' = [wait EXCEPT ![s] = i * Smaller(errors[s] + 1, 4)]

UpdateAfterError(s) ==
  /\ PostponeAfterError(s)
  /\ errors' = [errors EXCEPT ![s] = Smaller(@ + 1, 4)]
  /\ status' = [status EXCEPT ![s] = IF errors[s] >= 3 THEN "error" ELSE @]

UpdateAfterRateLimit(s, d) ==
  /\ wait' = [wait EXCEPT ![s] = d]
  /\ UNCHANGED <<errors, status>>

MarkPlanLimited(s) ==
  /\ \E i \in Intervals[s] : wait' = [wait EXCEPT ![s] = Larger(i, PlanWait)]
  /\ errors' = [errors EXCEPT ![s] = Smaller(@ + 1, 4)]
  /\ status' = [status EXCEPT ![s] = "error"]

\* A context that tracks its fetch writes the row, unless the statement
\* fails, which nobody looks at; any other context leaves the row alone.
Tracks(c) == c \in Loop /\ tracked[c]

Record(c, s, Update) ==
  \/ Tracks(c) /\ Update /\ UNCHANGED lost
  \/ /\ Tracks(c) /\ lost[s] < MaxLost
     /\ lost' = [lost EXCEPT ![s] = @ + 1]
     /\ UNCHANGED row
  \/ ~ Tracks(c) /\ UNCHANGED <<row, lost>>

(***************************************************************************)
(* The connectors.                                                         *)
(***************************************************************************)
SetBackoff(p, s, d) == backoff' = [backoff EXCEPT ![p][s] = d]

BackingOff(c, s) == s \in Throttled /\ backoff[ProcOf[c]][s] > 0

\* A loop takes the sources of its queue in turn; a runner fetches at will.
TakeTurn(c, s) ==
  /\ flight[c] = NoSource
  /\ c \in Loop => s \in queue[c]
  /\ queue' = [l \in Loop |-> IF l = c THEN queue[l] \ {s} ELSE queue[l]]

(***************************************************************************)
(* Steps.                                                                  *)
(***************************************************************************)

\* The ticker fires and the loop is not still busy with the cycle before.
\* When the query fails, or nothing is due, all connectors are visited.
Cycle(l) ==
  /\ queue[l] = {} /\ flight[l] = NoSource
  /\ \/ /\ ListDue # {}
        /\ queue' = [queue EXCEPT ![l] = ListDue]
        /\ tracked' = [tracked EXCEPT ![l] = TRUE]
     \/ /\ queue' = [queue EXCEPT ![l] = Source]
        /\ tracked' = [tracked EXCEPT ![l] = FALSE]
  /\ UNCHANGED <<row, backoff, flight, edit, edits, answers, turns, lost>>

\* Within its backoff window the connector answers "rate limited" itself.
Skip(c, s) ==
  /\ TakeTurn(c, s)
  /\ BackingOff(c, s)
  /\ Record(c, s, UpdateAfterRateLimit(s, backoff[ProcOf[c]][s]))
  /\ UNCHANGED <<backoff, tracked, flight, edit, edits, answers, turns>>

Contact(c, s) ==
  /\ TakeTurn(c, s)
  /\ ~BackingOff(c, s)
  /\ flight' = [flight EXCEPT ![c] = s]
  /\ turns' = [turns EXCEPT ![s] = IF Tracks(c) THEN @ + 1 ELSE @]
  /\ UNCHANGED <<row, backoff, tracked, edit, edits, answers, lost>>

Land(c) ==
  /\ flight[c] # NoSource
  /\ flight' = [flight EXCEPT ![c] = NoSource]
  /\ UNCHANGED <<queue, tracked, edit, edits, turns>>

Succeed(c) ==
  /\ Land(c)
  /\ Record(c, flight[c], UpdateAfterFetch(flight[c]))
  /\ UNCHANGED <<backoff, answers>>

Fail(c) ==
  /\ Land(c)
  /\ Record(c, flight[c], UpdateAfterError(flight[c]))
  /\ UNCHANGED <<backoff, answers>>

\* HTTP 429: back off for as long as the provider asks, whatever window an
\* overlapping fetch has just opened.
RateLimit(c, d) ==
  LET p == ProcOf[c]
      s == flight[c]
  IN /\ Land(c)
     /\ s \in Throttled
     /\ SetBackoff(p, s, d)
     /\ answers' = [answers EXCEPT ![p][s] = @ + 1]
     /\ Record(c, s, UpdateAfterRateLimit(s, d))

PlanLimit(c) ==
  /\ Land(c)
  /\ flight[c] \in Throttled
  /\ Record(c, flight[c], MarkPlanLimited(flight[c]))
  /\ UNCHANGED <<backoff, answers>>

\* PATCH /api/v1/sources/{slug} reads the row, and writes it back with the
\* status the request names, or with the one it has read when the request
\* is about something else.  "error" cannot be asked for.
PatchReads(a, s) ==
  /\ edit[a] = NoEdit /\ edits < MaxEdits
  /\ edit' = [edit EXCEPT ![a] = [source |-> s, status |-> status[s]]]
  /\ edits' = edits + 1
  /\ UNCHANGED <<row, backoff, queue, tracked, flight, answers, turns, lost>>

PatchWrites(a) ==
  /\ edit[a] # NoEdit
  /\ \E st \in {edit[a].status, "active", "paused"} :
       status' = [status EXCEPT ![edit[a].source] = st]
  /\ edit' = [edit EXCEPT ![a] = NoEdit]
  /\ UNCHANGED <<errors, wait, backoff, queue, tracked, flight, edits,
                 answers, turns, lost>>

\* A period passes.  A row that falls due, and a window that closes, begin a
\* new count.
Elapse ==
  /\ wait' = [s \in Source |-> Before(wait[s])]
  /\ backoff' = [p \in Proc |-> [s \in Source |-> Before(backoff[p][s])]]
  /\ turns' = [s \in Source |-> IF wait[s] = 1 THEN 0 ELSE turns[s]]
  /\ lost' = [s \in Source |-> IF wait[s] = 1 THEN 0 ELSE lost[s]]
  /\ answers' = [p \in Proc |-> [s \in Source |->
                   IF backoff[p][s] <= 1 THEN 0 ELSE answers[p][s]]]
  /\ UNCHANGED <<status, errors, queue, tracked, flight, edit, edits>>

Visit(c) == \E s \in Source : Skip(c, s) \/ Contact(c, s)

Answer(c) ==
  \/ Succeed(c) \/ Fail(c) \/ PlanLimit(c)
  \/ \E d \in RetryAfter : RateLimit(c, d)

Patch(a) == PatchWrites(a) \/ \E s \in Source : PatchReads(a, s)

\* The loops that will record what they fetch from s.
Holding(s) == {l \in Loop : tracked[l] /\ (s \in queue[l] \/ flight[l] = s)}

Remember ==
  held' = [s \in Source |->
            IF status'[s] = "active" THEN {}
            ELSE IF status[s] = "active" THEN Holding(s)'
            ELSE held[s] \cap Holding(s)']

Next ==
  /\ \/ \E l \in Loop : Cycle(l)
     \/ \E c \in Context : Visit(c) \/ Answer(c)
     \/ \E a \in Admin : Patch(a)
     \/ Elapse
  /\ Remember

Spec == Init /\ [][Next]_vars

\* Requests time out, tickers tick and time passes; runners and
\* administrators owe nothing.
Fairness ==
  /\ WF_vars(Elapse /\ Remember)
  /\ \A l \in Loop :
       /\ WF_vars(Cycle(l) /\ Remember)
       /\ WF_vars(Visit(l) /\ Remember)
       /\ WF_vars(Answer(l) /\ Remember)

FairSpec == Spec /\ Fairness

-----------------------------------------------------------------------------
(***************************************************************************)
(* A source that falls due is asked at most once by every replica, plus    *)
(* once for every statement on its row that fails: though each replica     *)
(* goes through a list it read at the start of its cycle, and neither sees *)
(* what the others have fetched nor what an administrator has changed      *)
(* since, the first answer that is recorded ends the turn for all those    *)
(* that have not listed the source yet.                                    *)
(***************************************************************************)
OneTurnPerReplica ==
  \A s \in Source : turns[s] <= Cardinality(Loop) + lost[s]

(***************************************************************************)
(* UpdateAfterFetch makes whatever source it is told of active, and knows  *)
(* nothing of the pause or the fourth failure that came in between.  A     *)
(* source that has left the schedule comes back into it only by a PATCH,   *)
(* or by a success of one of the loops that had it in hand when it left:   *)
(* nothing else takes it up, however long it stays out.                    *)
(***************************************************************************)
Revived(s) == status[s] # "active" /\ status'[s] = "active"

RevivedOnlyByHolders ==
  [][\A s \in Source : Revived(s) =>
       \/ \E a \in Admin : edit[a].source = s /\ edit'[a] = NoEdit
       \/ \E l \in held[s] : flight[l] = s /\ flight'[l] = NoSource]_vars

(***************************************************************************)
(* "Fetches should be skipped for the given duration" (interface.go:119):  *)
(* while a process's backoff window for a provider is open, the provider   *)
(* gets no more 429s to answer it with than the process has goroutines     *)
(* that fetch; requests that were out when the window opened may still     *)
(* come back and set it anew, for longer or for less.                      *)
(***************************************************************************)
AnswersPerWindow ==
  \A p \in Proc, s \in Source :
    answers[p][s] <= Cardinality({c \in Context : ProcOf[c] = p})

=============================================================================
