-------------------------- MODULE AggregatorProofs --------------------------
(***************************************************************************)
(* Proofs about the three parts of the aggregator that decide when it      *)
(* fetches: the schedule of its sources (SourceSchedule), for every set of *)
(* sources, loops, runners, PATCHes and processes and all intervals; the   *)
(* jobs of its replicas (JobScheduler), for every set of replicas,         *)
(* connectors and job ids and any number of calls, crashes and failing     *)
(* Redis calls; and the lease of its workers (WorkerLock), for every set   *)
(* of workers, any time to live and any number of missed refreshes that    *)
(* leaves a period to spare, and any number of faults, shutdowns and       *)
(* crashes.                                                                *)
(***************************************************************************)
EXTENDS SourceSchedule, JobScheduler, WorkerLock, FiniteSetTheorems, TLAPS

-----------------------------------------------------------------------------
(***************************************************************************)
(* The schedule of the sources.  First the arithmetic of the waits.        *)
(***************************************************************************)
LEMMA BeforeLowers ==
  ASSUME NEW n \in Nat
  PROVE  Before(n) \in Nat /\ Before(n) <= n
BY DEF Before

LEMMA ErrorBackoffIsCapped ==
  ASSUME NEW i \in Nat \ {0}, NEW e \in Nat
  PROVE  i * Smaller(e + 1, 4) \in Nat \ {0} /\ i * Smaller(e + 1, 4) <= 4 * i
<1>1. Smaller(e + 1, 4) \in {1, 2, 3, 4}
  BY DEF Smaller
<1>2. ASSUME NEW n \in {1, 2, 3, 4}
      PROVE  i * n \in Nat \ {0} /\ i * n <= 4 * i
  <2>1. i * 1 = i /\ i * 2 = i + i /\ i * 3 = i + i + i /\ i * 4 = i + i + i + i
    OBVIOUS
  <2>. QED
    BY <2>1
<1>. QED
  BY <1>1, <1>2

(***************************************************************************)
(* What a connector waits by itself is a wait its provider has asked for,  *)
(* or what is left of one.                                                 *)
(***************************************************************************)
AskedFor(n) == n = 0 \/ \E w \in RetryAfter : n <= w

BackoffAsAsked == \A p \in Proc, s \in Source : AskedFor(backoff[p][s])

ScheduleTyped == TypeOK /\ BackoffAsAsked

LEMMA InitSchedule == Init => ScheduleTyped
<1>1. ASSUME NEW s \in Source
      PROVE  \E i \in Intervals[s] : 0 <= 4 * i
  BY ScheduleAssumption DEF ScheduleAssumption
<1>. QED
  BY <1>1, ScheduleAssumption
     DEF ScheduleAssumption, Init, ScheduleTyped, TypeOK, WaitIsBounded,
         BackoffAsAsked, AskedFor, Status

\* Every write of a row leaves the table well formed.
RowsTyped ==
  /\ status \in [Source -> Status]
  /\ errors \in [Source -> 0..4]
  /\ wait \in [Source -> Nat] /\ \A s \in Source : WaitIsBounded(s)

\* And it puts its source off, and touches no other.
Postponed(s) ==
  /\ wait'[s] > 0
  /\ \A t \in Source : t # s => wait'[t] = wait[t] /\ status'[t] = status[t]

LEMMA OneWait ==
  ASSUME TypeOK, NEW s \in Source, NEW n \in Nat,
         (\E i \in Intervals[s] : n <= 4 * i) \/ n <= PlanWait \/ AskedFor(n),
         wait' = [wait EXCEPT ![s] = n]
  PROVE  wait' \in [Source -> Nat] /\ \A t \in Source : WaitIsBounded(t)'
<1>1. wait' \in [Source -> Nat]
  BY DEF TypeOK
<1>2. WaitIsBounded(s)'
  <2>1. wait'[s] = n
    BY DEF TypeOK
  <2>. QED
    BY <2>1, ScheduleAssumption DEF ScheduleAssumption, WaitIsBounded, AskedFor
<1>3. ASSUME NEW t \in Source, t # s
      PROVE  WaitIsBounded(t)'
  <2>1. wait'[t] = wait[t] /\ WaitIsBounded(t)
    BY <1>3 DEF TypeOK
  <2>. QED
    BY <2>1 DEF WaitIsBounded
<1>. QED
  BY <1>1, <1>2, <1>3

LEMMA FetchTyped ==
  ASSUME TypeOK, NEW s \in Source, UpdateAfterFetch(s)
  PROVE  RowsTyped' /\ Postponed(s)
<1>1. PICK i \in Intervals[s] : wait' = [wait EXCEPT ![s] = i]
  BY DEF UpdateAfterFetch
<1>2. i \in Nat \ {0} /\ i <= 4 * i
  BY ScheduleAssumption DEF ScheduleAssumption
<1>3. wait' \in [Source -> Nat] /\ \A t \in Source : WaitIsBounded(t)'
  BY <1>1, <1>2, OneWait
<1>. QED
  BY <1>1, <1>2, <1>3 DEF TypeOK, UpdateAfterFetch, RowsTyped, Status, Postponed

LEMMA ErrorTyped ==
  ASSUME TypeOK, NEW s \in Source, UpdateAfterError(s)
  PROVE  RowsTyped' /\ Postponed(s)
<1>1. PICK i \in Intervals[s] :
             wait' = [wait EXCEPT ![s] = i * Smaller(errors[s] + 1, 4)]
  BY DEF UpdateAfterError, PostponeAfterError
<1>2. i \in Nat \ {0} /\ errors[s] \in 0..4 /\ errors[s] \in Nat
  BY ScheduleAssumption DEF ScheduleAssumption, TypeOK
<1>3. PICK n \in Nat \ {0} : n = i * Smaller(errors[s] + 1, 4) /\ n <= 4 * i
  BY <1>2, ErrorBackoffIsCapped
<1>4. wait' = [wait EXCEPT ![s] = n]
  BY <1>1, <1>3
<1>5. wait' \in [Source -> Nat] /\ \A t \in Source : WaitIsBounded(t)'
  BY <1>3, <1>4, OneWait
<1>6. errors' \in [Source -> 0..4]
  BY <1>2 DEF TypeOK, UpdateAfterError, Smaller
<1>7. status' \in [Source -> Status]
  BY DEF TypeOK, UpdateAfterError, Status
<1>8. Postponed(s)
  BY <1>3, <1>4 DEF TypeOK, UpdateAfterError, Postponed
<1>. QED
  BY <1>5, <1>6, <1>7, <1>8 DEF RowsTyped

LEMMA RateLimitTyped ==
  ASSUME TypeOK, NEW s \in Source, NEW d \in Nat \ {0}, AskedFor(d),
         UpdateAfterRateLimit(s, d)
  PROVE  RowsTyped' /\ Postponed(s)
<1>1. wait' \in [Source -> Nat] /\ \A t \in Source : WaitIsBounded(t)'
  BY OneWait DEF UpdateAfterRateLimit
<1>. QED
  BY <1>1 DEF TypeOK, UpdateAfterRateLimit, RowsTyped, Postponed

LEMMA PlanLimitTyped ==
  ASSUME TypeOK, NEW s \in Source, MarkPlanLimited(s)
  PROVE  RowsTyped' /\ Postponed(s)
<1>1. PICK i \in Intervals[s] : wait' = [wait EXCEPT ![s] = Larger(i, PlanWait)]
  BY DEF MarkPlanLimited
<1>2. i \in Nat \ {0} /\ PlanWait \in Nat \ {0}
  BY ScheduleAssumption DEF ScheduleAssumption
<1>3. /\ Larger(i, PlanWait) \in Nat \ {0}
      /\ Larger(i, PlanWait) <= 4 * i \/ Larger(i, PlanWait) <= PlanWait
  BY <1>2 DEF Larger
<1>4. wait' \in [Source -> Nat] /\ \A t \in Source : WaitIsBounded(t)'
  BY <1>1, <1>3, OneWait
<1>5. errors' \in [Source -> 0..4]
  BY DEF TypeOK, MarkPlanLimited, Smaller
<1>6. status' \in [Source -> Status]
  BY DEF TypeOK, MarkPlanLimited, Status
<1>. QED
  BY <1>1, <1>3, <1>4, <1>5, <1>6 DEF TypeOK, MarkPlanLimited, RowsTyped, Postponed

(***************************************************************************)
(* What recording a fetch does to the row of its source.                   *)
(***************************************************************************)
Recorded(c, s) ==
  \/ Tracks(c) /\ Postponed(s) /\ UNCHANGED lost
  \/ /\ Tracks(c) /\ lost[s] < MaxLost
     /\ lost' = [lost EXCEPT ![s] = @ + 1]
     /\ UNCHANGED row
  \/ ~ Tracks(c) /\ UNCHANGED <<row, lost>>

LEMMA LostTyped ==
  ASSUME TypeOK, NEW c, NEW s \in Source, Recorded(c, s)
  PROVE  lost' \in [Source -> 0..MaxLost]
<1>1. CASE UNCHANGED lost
  BY <1>1 DEF TypeOK
<1>2. CASE lost[s] < MaxLost /\ lost' = [lost EXCEPT ![s] = @ + 1]
  <2>1. lost[s] \in 0..MaxLost /\ MaxLost \in Nat
    BY ScheduleAssumption DEF ScheduleAssumption, TypeOK
  <2>. QED
    BY <1>2, <2>1 DEF TypeOK
<1>. QED
  BY <1>1, <1>2 DEF Recorded

LEMMA RowsKeptTyped == TypeOK /\ UNCHANGED row => RowsTyped'
BY DEF TypeOK, row, RowsTyped, WaitIsBounded

LEMMA LandingFlight ==
  ASSUME TypeOK, NEW c \in Context, Land(c)
  PROVE  flight[c] \in Source /\ ProcOf[c] \in Proc
BY ScheduleAssumption DEF ScheduleAssumption, TypeOK, Land

LEMMA AnswerRecorded ==
  ASSUME ScheduleTyped, NEW c \in Context, Answer(c)
  PROVE  Land(c) /\ RowsTyped' /\ Recorded(c, flight[c])
<1>1. Land(c) /\ flight[c] \in Source /\ TypeOK
  BY LandingFlight DEF Answer, Succeed, Fail, PlanLimit, RateLimit, ScheduleTyped
<1>2. ASSUME NEW d \in RetryAfter, UpdateAfterRateLimit(flight[c], d)
      PROVE  RowsTyped' /\ Postponed(flight[c])
  <2>1. d \in Nat \ {0} /\ AskedFor(d)
    BY ScheduleAssumption DEF ScheduleAssumption, AskedFor
  <2>. QED
    BY <1>1, <1>2, <2>1, RateLimitTyped
<1>. QED
  BY <1>1, <1>2, FetchTyped, ErrorTyped, PlanLimitTyped, RowsKeptTyped
     DEF Answer, Succeed, Fail, PlanLimit, RateLimit, Record, Recorded, row

LEMMA SkipRecorded ==
  ASSUME ScheduleTyped, NEW c \in Context, NEW s \in Source, Skip(c, s)
  PROVE  RowsTyped' /\ Recorded(c, s) /\ status' = status
<1>1. ProcOf[c] \in Proc /\ TypeOK
  BY ScheduleAssumption DEF ScheduleAssumption, ScheduleTyped
<1>2. /\ backoff[ProcOf[c]][s] \in Nat \ {0}
      /\ AskedFor(backoff[ProcOf[c]][s])
  BY <1>1 DEF TypeOK, ScheduleTyped, BackoffAsAsked, Skip, BackingOff
<1>3. UpdateAfterRateLimit(s, backoff[ProcOf[c]][s])
        => RowsTyped' /\ Postponed(s) /\ status' = status
  BY <1>1, <1>2, RateLimitTyped DEF UpdateAfterRateLimit
<1>. QED
  BY <1>1, <1>3, RowsKeptTyped DEF Skip, Record, Recorded, row

LEMMA StepSchedule == ScheduleTyped /\ [Next]_vars => ScheduleTyped'
<1>. SUFFICES ASSUME ScheduleTyped, [Next]_vars
              PROVE  ScheduleTyped'
  OBVIOUS
<1>0. TypeOK /\ BackoffAsAsked
  BY DEF ScheduleTyped
<1>1. CASE UNCHANGED vars
  BY <1>0, <1>1 DEF vars, row, ScheduleTyped, TypeOK, WaitIsBounded, BackoffAsAsked
<1>2. Remember => held' \in [Source -> SUBSET Loop]
  BY <1>0 DEF TypeOK, Remember, Holding
<1>. SUFFICES ASSUME held' \in [Source -> SUBSET Loop],
                     \/ \E l \in Loop : Cycle(l)
                     \/ \E c \in Context : Visit(c) \/ Answer(c)
                     \/ \E a \in Admin : Patch(a)
                     \/ Elapse
              PROVE  ScheduleTyped'
  BY <1>1, <1>2 DEF Next
<1>3. ASSUME NEW l \in Loop, Cycle(l)
      PROVE  ScheduleTyped'
  <2>. PICK S \in SUBSET Source, b \in BOOLEAN :
              /\ queue' = [queue EXCEPT ![l] = S]
              /\ tracked' = [tracked EXCEPT ![l] = b]
    <3>1. ListDue \in SUBSET Source
      BY DEF ListDue
    <3>. QED
      BY <1>3, <3>1 DEF Cycle
  <2>1. queue' \in [Loop -> SUBSET Source] /\ tracked' \in [Loop -> BOOLEAN]
    BY <1>0 DEF TypeOK
  <2>2. RowsTyped'
    BY <1>0, <1>3, RowsKeptTyped DEF Cycle
  <2>. QED
    BY <1>0, <1>3, <2>1, <2>2
       DEF ScheduleTyped, TypeOK, Cycle, RowsTyped, BackoffAsAsked
<1>4. ASSUME NEW c \in Context, NEW s \in Source, Skip(c, s)
      PROVE  ScheduleTyped'
  <2>1. RowsTyped' /\ lost' \in [Source -> 0..MaxLost]
    BY <1>0, <1>4, SkipRecorded, LostTyped
  <2>2. queue' \in [Loop -> SUBSET Source]
    BY <1>0, <1>4 DEF TypeOK, Skip, TakeTurn
  <2>. QED
    BY <1>0, <1>4, <2>1, <2>2
       DEF ScheduleTyped, TypeOK, RowsTyped, Skip, BackoffAsAsked
<1>5. ASSUME NEW c \in Context, NEW s \in Source, Contact(c, s)
      PROVE  ScheduleTyped'
  <2>1. queue' \in [Loop -> SUBSET Source]
    BY <1>0, <1>5 DEF TypeOK, Contact, TakeTurn
  <2>2. /\ flight' \in [Context -> Source \cup {NoSource}]
        /\ turns' \in [Source -> Nat]
    BY <1>0, <1>5 DEF TypeOK, Contact
  <2>3. RowsTyped'
    BY <1>0, <1>5, RowsKeptTyped DEF Contact
  <2>. QED
    BY <1>0, <1>5, <2>1, <2>2, <2>3
       DEF ScheduleTyped, TypeOK, RowsTyped, Contact, BackoffAsAsked
<1>6. ASSUME NEW c \in Context, Answer(c)
      PROVE  ScheduleTyped'
  <2>1. /\ Land(c) /\ RowsTyped' /\ flight[c] \in Source /\ ProcOf[c] \in Proc
        /\ lost' \in [Source -> 0..MaxLost]
    BY <1>0, <1>6, AnswerRecorded, LandingFlight, LostTyped
  <2>2. CASE UNCHANGED <<backoff, answers>>
    BY <1>0, <2>1, <2>2 DEF ScheduleTyped, TypeOK, Land, RowsTyped, BackoffAsAsked
  <2>3. ASSUME NEW d \in RetryAfter, RateLimit(c, d)
        PROVE  ScheduleTyped'
    <3>1. d \in Nat /\ AskedFor(d)
      BY ScheduleAssumption DEF ScheduleAssumption, AskedFor
    <3>2. /\ backoff' \in [Proc -> [Source -> Nat]]
          /\ answers' \in [Proc -> [Source -> Nat]]
      BY <1>0, <2>1, <2>3, <3>1 DEF TypeOK, RateLimit, SetBackoff
    <3>3. ASSUME NEW p \in Proc, NEW s \in Source
          PROVE  backoff'[p][s] = backoff[p][s] \/ backoff'[p][s] = d
      BY <1>0, <2>1, <2>3 DEF TypeOK, RateLimit, SetBackoff
    <3>4. BackoffAsAsked'
      BY <1>0, <3>1, <3>3 DEF BackoffAsAsked, AskedFor
    <3>. QED
      BY <1>0, <2>1, <3>2, <3>4 DEF ScheduleTyped, TypeOK, RowsTyped, Land
  <2>. QED
    BY <1>6, <2>2, <2>3 DEF Answer, Succeed, Fail, PlanLimit
<1>7. ASSUME NEW a \in Admin, Patch(a)
      PROVE  ScheduleTyped'
  <2>1. ASSUME NEW s \in Source, PatchReads(a, s)
        PROVE  ScheduleTyped'
    <3>1. [source |-> s, status |-> status[s]] \in Edit
      BY <1>0 DEF TypeOK, Edit
    <3>2. edit' \in [Admin -> Edit \cup {NoEdit}] /\ edits' \in 0..MaxEdits
      BY <1>0, <2>1, <3>1, ScheduleAssumption
         DEF ScheduleAssumption, TypeOK, PatchReads
    <3>3. RowsTyped'
      BY <1>0, <2>1, RowsKeptTyped DEF PatchReads
    <3>. QED
      BY <1>0, <2>1, <3>2, <3>3
         DEF ScheduleTyped, TypeOK, PatchReads, RowsTyped, BackoffAsAsked
  <2>2. CASE PatchWrites(a)
    <3>1. status' \in [Source -> Status] /\ edit' \in [Admin -> Edit \cup {NoEdit}]
      BY <1>0, <2>2 DEF TypeOK, PatchWrites, Edit, Status
    <3>. QED
      BY <1>0, <2>2, <3>1
         DEF ScheduleTyped, TypeOK, PatchWrites, WaitIsBounded, BackoffAsAsked
  <2>. QED
    BY <1>7, <2>1, <2>2 DEF Patch
<1>8. CASE Elapse
  <2>1. wait' \in [Source -> Nat] /\ \A s \in Source : wait'[s] <= wait[s]
    BY <1>0, <1>8, BeforeLowers DEF TypeOK, Elapse
  <2>2. ASSUME NEW s \in Source
        PROVE  WaitIsBounded(s)'
    <3>1. wait[s] \in Nat /\ wait'[s] \in Nat /\ wait'[s] <= wait[s] /\ WaitIsBounded(s)
      BY <1>0, <2>1 DEF TypeOK
    <3>2. CASE \E i \in Intervals[s] : wait[s] <= 4 * i
      <4>1. PICK i \in Intervals[s] : wait[s] <= 4 * i
        BY <3>2
      <4>2. i \in Nat
        BY ScheduleAssumption DEF ScheduleAssumption
      <4>3. wait'[s] <= 4 * i
        BY <3>1, <4>1, <4>2
      <4>. QED
        BY <4>3 DEF WaitIsBounded
    <3>3. CASE wait[s] <= PlanWait
      <4>1. PlanWait \in Nat
        BY ScheduleAssumption DEF ScheduleAssumption
      <4>2. wait'[s] <= PlanWait
        BY <3>1, <3>3, <4>1
      <4>. QED
        BY <4>2 DEF WaitIsBounded
    <3>4. CASE \E w \in RetryAfter : wait[s] <= w
      <4>1. PICK w \in RetryAfter : wait[s] <= w
        BY <3>4
      <4>2. w \in Nat
        BY ScheduleAssumption DEF ScheduleAssumption
      <4>3. wait'[s] <= w
        BY <3>1, <4>1, <4>2
      <4>. QED
        BY <4>3 DEF WaitIsBounded
    <3>. QED
      BY <3>1, <3>2, <3>3, <3>4 DEF WaitIsBounded
  <2>3. /\ backoff' \in [Proc -> [Source -> Nat]]
        /\ \A p \in Proc, s \in Source : backoff'[p][s] <= backoff[p][s]
    BY <1>0, <1>8, BeforeLowers DEF TypeOK, Elapse
  <2>4. answers' \in [Proc -> [Source -> Nat]]
    BY <1>0, <1>8 DEF TypeOK, Elapse
  <2>5. turns' \in [Source -> Nat] /\ lost' \in [Source -> 0..MaxLost]
    BY <1>0, <1>8, ScheduleAssumption DEF ScheduleAssumption, TypeOK, Elapse
  <2>6. BackoffAsAsked'
    <3>1. ASSUME NEW p \in Proc, NEW s \in Source
          PROVE  AskedFor(backoff[p][s])'
      <4>1. /\ backoff[p][s] \in Nat /\ backoff'[p][s] \in Nat
            /\ backoff'[p][s] <= backoff[p][s] /\ AskedFor(backoff[p][s])
        BY <1>0, <2>3 DEF TypeOK, BackoffAsAsked
      <4>. QED
        BY <4>1, ScheduleAssumption DEF ScheduleAssumption, AskedFor
    <3>. QED
      BY <3>1 DEF BackoffAsAsked
  <2>. QED
    BY <1>0, <1>8, <2>1, <2>2, <2>3, <2>4, <2>5, <2>6
       DEF ScheduleTyped, TypeOK, Elapse
<1>. QED
  BY <1>3, <1>4, <1>5, <1>6, <1>7, <1>8 DEF Visit

LEMMA ScheduleAlwaysTyped == Spec => []ScheduleTyped
BY InitSchedule, StepSchedule, PTL DEF Spec

(***************************************************************************)
(* No source is ever put off for longer than four of its intervals, a plan *)
(* limit or the longest wait a provider may ask for, however many errors   *)
(* it has had and whichever fetchers write its row (source.go:237).        *)
(***************************************************************************)
THEOREM ScheduleTypeCorrect == Spec => []TypeOK
<1>1. ScheduleTyped => TypeOK
  BY DEF ScheduleTyped
<1>. QED
  BY <1>1, ScheduleAlwaysTyped, PTL
-----------------------------------------------------------------------------
(***************************************************************************)
(* The turns of a source.  The loops that record are counted while it is   *)
(* due by the requests they have out, and once it is put off by the loops  *)
(* that still have it on their list: a loop is never counted twice.        *)
(***************************************************************************)
Asking(s)  == {l \in Loop : tracked[l] /\ flight[l] = s}
Waiting(s) == {l \in Loop : tracked[l] /\ s \in queue[l]}

OffTheList == \A l \in Loop : flight[l] # NoSource => flight[l] \notin queue[l]

Counted(s) ==
  /\ wait[s] = 0 => turns[s] <= lost[s] + Cardinality(Asking(s))
  /\ wait[s] > 0 => turns[s] + Cardinality(Waiting(s)) <= lost[s] + Cardinality(Loop)

TurnsCounted == OffTheList /\ \A s \in Source : Counted(s)

LEMMA LoopsAreFinite ==
  /\ IsFiniteSet(Loop) /\ Cardinality(Loop) \in Nat
  /\ \A L \in SUBSET Loop : /\ IsFiniteSet(L) /\ Cardinality(L) \in Nat
                            /\ Cardinality(L) <= Cardinality(Loop)
<1>1. IsFiniteSet(Loop)
  BY ScheduleAssumption, FS_Subset DEF ScheduleAssumption, Context
<1>. QED
  BY <1>1, FS_Subset, FS_CardinalityType

LEMMA Subloops ==
  ASSUME NEW L \in SUBSET Loop, NEW K \in SUBSET L
  PROVE  /\ Cardinality(K) \in Nat /\ Cardinality(L) \in Nat
         /\ Cardinality(K) <= Cardinality(L)
BY LoopsAreFinite, FS_Subset

LEMMA OneMore ==
  ASSUME NEW L \in SUBSET Loop, NEW l \in Loop, l \notin L
  PROVE  /\ Cardinality(L) \in Nat
         /\ Cardinality(L \cup {l}) = Cardinality(L) + 1
BY LoopsAreFinite, FS_AddElement

LEMMA OneLess ==
  ASSUME NEW L \in SUBSET Loop, NEW l \in L
  PROVE  /\ Cardinality(L) \in Nat /\ Cardinality(L \ {l}) \in Nat
         /\ Cardinality(L) = Cardinality(L \ {l}) + 1
<1>1. /\ L \ {l} \in SUBSET Loop /\ l \in Loop /\ l \notin L \ {l}
      /\ (L \ {l}) \cup {l} = L
  OBVIOUS
<1>. QED
  BY <1>1, OneMore

LEMMA ApartLoops ==
  ASSUME NEW L \in SUBSET Loop, NEW K \in SUBSET Loop, L \cap K = {}
  PROVE  /\ Cardinality(L) \in Nat /\ Cardinality(K) \in Nat
         /\ Cardinality(L) + Cardinality(K) <= Cardinality(Loop)
<1>1. Cardinality(L \cup K) = Cardinality(L) + Cardinality(K) - Cardinality(L \cap K)
  BY LoopsAreFinite, FS_Union
<1>2. Cardinality(L \cap K) = 0
  BY FS_EmptySet
<1>3. L \cup K \in SUBSET Loop
  OBVIOUS
<1>. QED
  BY <1>1, <1>2, <1>3, LoopsAreFinite

(***************************************************************************)
(* A source that is put off, its turns as they were: whoever had a request *)
(* out is no longer on the list.                                           *)
(***************************************************************************)
LEMMA PutOff ==
  ASSUME TypeOK, TypeOK', TurnsCounted, NEW s \in Source,
         wait'[s] > 0, turns'[s] = turns[s], lost'[s] >= lost[s],
         Waiting(s)' \subseteq Waiting(s)
  PROVE  Counted(s)'
<1>1. /\ wait[s] \in Nat /\ wait'[s] \in Nat /\ turns[s] \in Nat
      /\ lost[s] \in Nat /\ lost'[s] \in Nat /\ Cardinality(Loop) \in Nat
  BY LoopsAreFinite, ScheduleAssumption DEF ScheduleAssumption, TypeOK
<1>2. Waiting(s)' \in SUBSET Loop /\ Waiting(s) \in SUBSET Loop /\ Asking(s) \in SUBSET Loop
  BY DEF Waiting, Asking
<1>3. CASE wait[s] = 0
  <2>1. Asking(s) \cap Waiting(s)' = {}
    BY ScheduleAssumption
       DEF ScheduleAssumption, Asking, Waiting, TurnsCounted, OffTheList
  <2>2. /\ Cardinality(Asking(s)) \in Nat /\ Cardinality(Waiting(s)') \in Nat
        /\ Cardinality(Asking(s)) + Cardinality(Waiting(s)') <= Cardinality(Loop)
    BY <1>2, <2>1, ApartLoops
  <2>3. turns[s] <= lost[s] + Cardinality(Asking(s))
    BY <1>3 DEF TurnsCounted, Counted
  <2>. QED
    BY <1>1, <2>2, <2>3 DEF Counted
<1>4. CASE wait[s] > 0
  <2>1. /\ Cardinality(Waiting(s)) \in Nat /\ Cardinality(Waiting(s)') \in Nat
        /\ Cardinality(Waiting(s)') <= Cardinality(Waiting(s))
    BY <1>2, Subloops
  <2>2. turns[s] + Cardinality(Waiting(s)) <= lost[s] + Cardinality(Loop)
    BY <1>4 DEF TurnsCounted, Counted
  <2>. QED
    BY <1>1, <2>1, <2>2 DEF Counted
<1>. QED
  BY <1>1, <1>3, <1>4

(***************************************************************************)
(* A source whose row is as it was.                                        *)
(***************************************************************************)
LEMMA LeftAlone ==
  ASSUME TypeOK, TypeOK', TurnsCounted, NEW s \in Source,
         wait'[s] = wait[s], turns'[s] = turns[s], lost'[s] >= lost[s],
         wait[s] = 0 => Asking(s)' = Asking(s),
         wait[s] > 0 => Waiting(s)' \subseteq Waiting(s)
  PROVE  Counted(s)'
<1>1. /\ wait[s] \in Nat /\ turns[s] \in Nat /\ lost[s] \in Nat /\ lost'[s] \in Nat
  BY ScheduleAssumption DEF ScheduleAssumption, TypeOK
<1>2. CASE wait[s] > 0
  BY <1>2, PutOff
<1>3. CASE wait[s] = 0
  <2>1. Asking(s) \in SUBSET Loop
    BY DEF Asking
  <2>2. Cardinality(Asking(s)) \in Nat
    BY <2>1, LoopsAreFinite
  <2>. QED
    BY <1>1, <1>3, <2>2 DEF TurnsCounted, Counted
<1>. QED
  BY <1>1, <1>2, <1>3

LEMMA InitTurns == Init => TurnsCounted
<1>. SUFFICES ASSUME Init PROVE TurnsCounted
  OBVIOUS
<1>1. ASSUME NEW s \in Source
      PROVE  Counted(s)
  <2>1. Asking(s) \in SUBSET Loop
    BY DEF Asking
  <2>2. Cardinality(Asking(s)) \in Nat
    BY <2>1, LoopsAreFinite
  <2>. QED
    BY <2>2 DEF Init, Counted
<1>. QED
  BY <1>1 DEF Init, TurnsCounted, OffTheList

LEMMA CycleCounts ==
  ASSUME TypeOK, TypeOK', TurnsCounted, NEW l \in Loop, Cycle(l)
  PROVE  TurnsCounted'
<1>1. OffTheList'
  BY DEF TypeOK, Cycle, TurnsCounted, OffTheList, Context
<1>2. ASSUME NEW s \in Source
      PROVE  Counted(s)'
  <2>1. Asking(s)' = Asking(s)
    BY <1>2, ScheduleAssumption DEF ScheduleAssumption, TypeOK, Cycle, Asking
  <2>2. wait[s] > 0 => Waiting(s)' \subseteq Waiting(s)
    BY <1>2 DEF TypeOK, Cycle, ListDue, Waiting
  <2>3. wait'[s] = wait[s] /\ turns'[s] = turns[s] /\ lost'[s] = lost[s] /\ lost[s] \in Nat
    BY <1>2, ScheduleAssumption DEF ScheduleAssumption, TypeOK, Cycle, row
  <2>. QED
    BY <2>1, <2>2, <2>3, LeftAlone
<1>. QED
  BY <1>1, <1>2 DEF TurnsCounted

\* A context that takes its turn leaves one source off its list.
LEMMA TurnShortens ==
  ASSUME TypeOK, NEW c \in Context, NEW s \in Source, TakeTurn(c, s)
  PROVE  /\ \A l \in Loop : queue'[l] = IF l = c THEN queue[l] \ {s} ELSE queue[l]
         /\ c \in Loop => s \in queue[c]
BY DEF TakeTurn

LEMMA SkipCounts ==
  ASSUME ScheduleTyped, TypeOK', TurnsCounted,
         NEW c \in Context, NEW s \in Source, Skip(c, s)
  PROVE  TurnsCounted'
<1>1. TypeOK /\ Recorded(c, s)
  BY SkipRecorded DEF ScheduleTyped
<1>2. \A l \in Loop : queue'[l] \subseteq queue[l]
  BY <1>1, TurnShortens DEF Skip
<1>3. OffTheList'
  BY <1>2 DEF Skip, TurnsCounted, OffTheList
<1>4. ASSUME NEW t \in Source
      PROVE  Counted(t)'
  <2>1. Waiting(t)' \subseteq Waiting(t) /\ Asking(t)' = Asking(t)
    BY <1>2 DEF Skip, Waiting, Asking
  <2>2. turns'[t] = turns[t] /\ lost[t] \in Nat
    BY <1>1, ScheduleAssumption DEF ScheduleAssumption, TypeOK, Skip
  <2>3. lost'[t] >= lost[t]
    BY <1>1, <2>2 DEF TypeOK, Recorded
  <2>4. \/ wait'[t] = wait[t]
        \/ wait'[t] > 0
    BY <1>1 DEF Recorded, Postponed, row
  <2>. QED
    BY <1>1, <2>1, <2>2, <2>3, <2>4, LeftAlone, PutOff
<1>. QED
  BY <1>3, <1>4 DEF TurnsCounted

LEMMA ContactCounts ==
  ASSUME TypeOK, TypeOK', TurnsCounted,
         NEW c \in Context, NEW s \in Source, Contact(c, s)
  PROVE  TurnsCounted'
<1>1. /\ \A l \in Loop : queue'[l] = IF l = c THEN queue[l] \ {s} ELSE queue[l]
      /\ c \in Loop => s \in queue[c]
  BY TurnShortens DEF Contact
<1>2. /\ flight[c] = NoSource /\ tracked' = tracked
      /\ \A l \in Loop : flight'[l] = IF l = c THEN s ELSE flight[l]
  BY DEF TypeOK, Contact, TakeTurn, Context
<1>3. OffTheList'
  BY <1>1, <1>2 DEF TurnsCounted, OffTheList
<1>4. ASSUME NEW t \in Source
      PROVE  /\ wait'[t] = wait[t] /\ lost'[t] = lost[t] /\ lost[t] \in Nat
             /\ wait[t] \in Nat /\ turns[t] \in Nat
             /\ turns'[t] = IF t = s /\ Tracks(c) THEN turns[t] + 1 ELSE turns[t]
  BY ScheduleAssumption DEF ScheduleAssumption, TypeOK, Contact, row
<1>5. ASSUME NEW t \in Source, t # s \/ ~ Tracks(c)
      PROVE  Counted(t)'
  <2>1. Asking(t)' = Asking(t)
    BY <1>2, <1>5, ScheduleAssumption
       DEF ScheduleAssumption, Asking, Tracks
  <2>2. Waiting(t)' = Waiting(t)
    BY <1>1, <1>2, <1>5 DEF Waiting, Tracks
  <2>. QED
    BY <1>4, <1>5, <2>1, <2>2, LeftAlone
<1>6. CASE Tracks(c)
  <2>1. /\ Asking(s) \in SUBSET Loop /\ Waiting(s) \in SUBSET Loop /\ c \in Loop
    BY <1>6 DEF Asking, Waiting, Tracks
  <2>2. c \notin Asking(s) /\ Asking(s)' = Asking(s) \cup {c}
    BY <1>2, <1>6, ScheduleAssumption DEF ScheduleAssumption, Asking, Tracks
  <2>3. c \in Waiting(s) /\ Waiting(s)' = Waiting(s) \ {c}
    BY <1>1, <1>2, <1>6 DEF Waiting, Tracks
  <2>4. /\ Cardinality(Asking(s)) \in Nat
        /\ Cardinality(Asking(s)') = Cardinality(Asking(s)) + 1
    BY <2>1, <2>2, OneMore
  <2>5. /\ Cardinality(Waiting(s)) \in Nat /\ Cardinality(Waiting(s)') \in Nat
        /\ Cardinality(Waiting(s)) = Cardinality(Waiting(s)') + 1
    BY <2>1, <2>3, OneLess
  <2>6. Cardinality(Loop) \in Nat /\ Counted(s)
    BY LoopsAreFinite DEF TurnsCounted
  <2>7. /\ wait'[s] = wait[s] /\ lost'[s] = lost[s] /\ turns'[s] = turns[s] + 1
        /\ turns[s] \in Nat /\ lost[s] \in Nat /\ wait[s] \in Nat
    BY <1>4, <1>6
  <2>8. wait[s] = 0 => turns'[s] <= lost'[s] + Cardinality(Asking(s)')
    BY <2>4, <2>6, <2>7 DEF Counted
  <2>9. wait[s] > 0 => turns'[s] + Cardinality(Waiting(s)') <= lost'[s] + Cardinality(Loop)
    BY <2>5, <2>6, <2>7 DEF Counted
  <2>10. Counted(s)'
    BY <2>7, <2>8, <2>9 DEF Counted
  <2>. QED
    BY <1>3, <1>5, <2>10 DEF TurnsCounted
<1>. QED
  BY <1>3, <1>5, <1>6 DEF TurnsCounted

LEMMA AnswerCounts ==
  ASSUME ScheduleTyped, TypeOK', TurnsCounted, NEW c \in Context, Answer(c)
  PROVE  TurnsCounted'
<1>. PICK s \in Source : s = flight[c] /\ Recorded(c, s)
  BY AnswerRecorded, LandingFlight DEF ScheduleTyped
<1>1. TypeOK /\ Land(c)
  BY AnswerRecorded DEF ScheduleTyped
<1>2. /\ queue' = queue /\ tracked' = tracked
      /\ \A l \in Loop : flight'[l] = IF l = c THEN NoSource ELSE flight[l]
  BY <1>1 DEF TypeOK, Land, Context
<1>3. OffTheList'
  BY <1>2 DEF TurnsCounted, OffTheList
<1>4. ASSUME NEW t \in Source
      PROVE  /\ Waiting(t)' = Waiting(t)
             /\ turns'[t] = turns[t] /\ turns[t] \in Nat
             /\ lost[t] \in Nat /\ lost'[t] \in Nat
             /\ wait[t] \in Nat /\ wait'[t] \in Nat
  BY <1>1, <1>2, ScheduleAssumption
     DEF ScheduleAssumption, TypeOK, Land, Waiting
<1>5. ASSUME NEW t \in Source, t # s \/ ~ Tracks(c)
      PROVE  Asking(t)' = Asking(t) /\ wait'[t] = wait[t] /\ lost'[t] = lost[t]
  <2>1. Asking(t)' = Asking(t)
    BY <1>1, <1>2, <1>5, ScheduleAssumption
       DEF ScheduleAssumption, Asking, Tracks
  <2>. QED
    BY <1>1, <1>5, <2>1 DEF TypeOK, Recorded, Postponed, row
<1>6. ASSUME NEW t \in Source, t # s \/ ~ Tracks(c)
      PROVE  Counted(t)'
  BY <1>1, <1>4, <1>5, <1>6, LeftAlone
<1>7. ASSUME Tracks(c), Postponed(s), UNCHANGED lost
      PROVE  Counted(s)'
  BY <1>1, <1>4, <1>7, PutOff DEF Postponed
<1>8. ASSUME Tracks(c), lost' = [lost EXCEPT ![s] = @ + 1], UNCHANGED row
      PROVE  Counted(s)'
  <2>1. Asking(s) \in SUBSET Loop /\ c \in Asking(s)
    BY <1>8 DEF Asking, Tracks
  <2>2. Asking(s)' = Asking(s) \ {c}
    BY <1>1, <1>2, ScheduleAssumption DEF ScheduleAssumption, Asking
  <2>3. /\ Cardinality(Asking(s)) \in Nat /\ Cardinality(Asking(s)') \in Nat
        /\ Cardinality(Asking(s)) = Cardinality(Asking(s)') + 1
    BY <2>1, <2>2, OneLess
  <2>4. lost'[s] = lost[s] + 1 /\ wait'[s] = wait[s]
    BY <1>1, <1>8 DEF TypeOK, row
  <2>5. CASE wait[s] > 0
    BY <1>1, <1>4, <2>4, <2>5, PutOff
  <2>6. CASE wait[s] = 0
    BY <1>1, <1>4, <2>3, <2>4, <2>6 DEF TurnsCounted, Counted
  <2>. QED
    BY <1>1, <1>4, <2>5, <2>6
<1>9. Counted(s)'
  BY <1>1, <1>6, <1>7, <1>8 DEF Recorded
<1>. QED
  BY <1>3, <1>6, <1>9 DEF TurnsCounted

LEMMA ElapseCounts ==
  ASSUME TypeOK, TypeOK', TurnsCounted, Elapse
  PROVE  TurnsCounted'
<1>1. OffTheList'
  BY DEF Elapse, TurnsCounted, OffTheList
<1>2. ASSUME NEW s \in Source
      PROVE  Counted(s)'
  <2>1. Waiting(s)' = Waiting(s) /\ Asking(s)' = Asking(s)
    BY DEF Elapse, Waiting, Asking
  <2>2. /\ wait[s] \in Nat /\ wait'[s] = Before(wait[s])
        /\ turns'[s] = IF wait[s] = 1 THEN 0 ELSE turns[s]
        /\ lost'[s] = IF wait[s] = 1 THEN 0 ELSE lost[s]
        /\ turns[s] \in Nat /\ lost[s] \in Nat
    BY ScheduleAssumption DEF ScheduleAssumption, TypeOK, Elapse
  <2>3. Asking(s) \in SUBSET Loop /\ Waiting(s) \in SUBSET Loop
    BY DEF Asking, Waiting
  <2>4. Cardinality(Asking(s)) \in Nat /\ Cardinality(Waiting(s)) \in Nat
        /\ Cardinality(Loop) \in Nat /\ Counted(s)
    BY <2>3, LoopsAreFinite DEF TurnsCounted
  <2>. QED
    BY <2>1, <2>2, <2>4 DEF Counted, Before
<1>. QED
  BY <1>1, <1>2 DEF TurnsCounted

LEMMA StepTurns == ScheduleTyped /\ TypeOK' /\ TurnsCounted /\ [Next]_vars => TurnsCounted'
<1>. SUFFICES ASSUME ScheduleTyped, TypeOK, TypeOK', TurnsCounted, [Next]_vars
              PROVE  TurnsCounted'
  BY DEF ScheduleTyped
<1>1. ASSUME UNCHANGED <<wait, queue, tracked, flight, turns, lost>>
      PROVE  TurnsCounted'
  BY <1>1 DEF TurnsCounted, OffTheList, Counted, Asking, Waiting
<1>2. ASSUME NEW a \in Admin, Patch(a)
      PROVE  TurnsCounted'
  BY <1>1, <1>2 DEF Patch, PatchReads, PatchWrites, row
<1>. QED
  BY <1>1, <1>2, CycleCounts, SkipCounts, ContactCounts, AnswerCounts, ElapseCounts
     DEF Next, Visit, vars, row

(***************************************************************************)
(* However many replicas keep the schedule, and whatever an administrator  *)
(* changes meanwhile, a due source costs the provider one request of each  *)
(* of them, and one more for each lost statement (aggregator.go:313).      *)
(***************************************************************************)
THEOREM TurnsAreBounded == Spec => []OneTurnPerReplica
<1>1. TypeOK /\ TurnsCounted => OneTurnPerReplica
  <2>. SUFFICES ASSUME TypeOK, TurnsCounted, NEW s \in Source
                PROVE  turns[s] <= Cardinality(Loop) + lost[s]
    BY DEF OneTurnPerReplica
  <2>1. Asking(s) \in SUBSET Loop /\ Waiting(s) \in SUBSET Loop
    BY DEF Asking, Waiting
  <2>2. /\ Cardinality(Asking(s)) \in Nat /\ Cardinality(Waiting(s)) \in Nat
        /\ Cardinality(Loop) \in Nat /\ Cardinality(Asking(s)) <= Cardinality(Loop)
    BY <2>1, LoopsAreFinite
  <2>3. wait[s] \in Nat /\ turns[s] \in Nat /\ lost[s] \in Nat
    BY ScheduleAssumption DEF ScheduleAssumption, TypeOK
  <2>. QED
    BY <2>2, <2>3 DEF TurnsCounted, Counted
<1>2. ScheduleTyped => TypeOK
  BY DEF ScheduleTyped
<1>. QED
  BY <1>1, <1>2, InitTurns, StepTurns, ScheduleAlwaysTyped, PTL DEF Spec

-----------------------------------------------------------------------------
(***************************************************************************)
(* Who may bring a source back: as long as it is out of the schedule, no   *)
(* loop takes it up that did not have it in hand when it left.             *)
(***************************************************************************)
HeldCovers == \A s \in Source : status[s] # "active" => Holding(s) \subseteq held[s]

LEMMA StepHeld == TypeOK /\ HeldCovers /\ [Next]_vars => HeldCovers'
<1>. SUFFICES ASSUME TypeOK, HeldCovers, [Next]_vars,
                     NEW s \in Source, status'[s] # "active"
              PROVE  Holding(s)' \subseteq held'[s]
  BY DEF HeldCovers
<1>1. CASE UNCHANGED vars
  BY <1>1 DEF vars, row, HeldCovers, Holding
<1>2. CASE Next
  <2>1. held'[s] = IF status[s] = "active" THEN Holding(s)'
                   ELSE held[s] \cap Holding(s)'
    BY <1>2 DEF Next, Remember
  <2>2. CASE status[s] = "active"
    BY <2>1, <2>2
  <2>3. CASE status[s] # "active"
    <3>1. Holding(s) \subseteq held[s]
      BY <2>3 DEF HeldCovers
    <3>2. ASSUME NEW l \in Loop, Cycle(l)
          PROVE  Holding(s)' \subseteq Holding(s)
      <4>1. s \notin ListDue
        BY <2>3 DEF ListDue
      <4>2. \A k \in Loop \ {l} : queue'[k] = queue[k] /\ tracked'[k] = tracked[k]
        BY <3>2 DEF TypeOK, Cycle
      <4>3. /\ flight' = flight /\ flight[l] = NoSource
            /\ tracked'[l] => queue'[l] = ListDue
        BY <3>2 DEF TypeOK, Cycle
      <4>. QED
        BY <4>1, <4>2, <4>3, ScheduleAssumption DEF ScheduleAssumption, Holding
    <3>3. ASSUME NEW c \in Context, NEW t \in Source, Skip(c, t) \/ Contact(c, t)
          PROVE  Holding(s)' \subseteq Holding(s)
      <4>1. /\ \A l \in Loop : queue'[l] = IF l = c THEN queue[l] \ {t} ELSE queue[l]
            /\ c \in Loop => t \in queue[c]
        BY <3>3, TurnShortens DEF Skip, Contact
      <4>2. /\ tracked' = tracked
            /\ \A l \in Loop \ {c} : flight'[l] = flight[l]
            /\ \/ flight'[c] = flight[c]
               \/ flight'[c] = t
        <5>1. CASE Skip(c, t)
          BY <5>1 DEF Skip
        <5>2. CASE Contact(c, t)
          BY <5>2 DEF TypeOK, Contact, Context
        <5>. QED
          BY <3>3, <5>1, <5>2
      <4>. QED
        BY <4>1, <4>2 DEF Holding
    <3>4. ASSUME NEW c \in Context, Answer(c)
          PROVE  Holding(s)' \subseteq Holding(s)
      <4>1. Land(c)
        BY <3>4 DEF Answer, Succeed, Fail, PlanLimit, RateLimit
      <4>. QED
        BY <4>1, ScheduleAssumption
           DEF ScheduleAssumption, TypeOK, Land, Holding, Context
    <3>5. ASSUME UNCHANGED <<queue, tracked, flight>>
          PROVE  Holding(s)' \subseteq Holding(s)
      BY <3>5 DEF Holding
    <3>6. Holding(s)' \subseteq Holding(s)
      BY <1>2, <3>2, <3>3, <3>4, <3>5
         DEF Next, Visit, Patch, PatchReads, PatchWrites, Elapse
    <3>. QED
      BY <2>1, <2>3, <3>1, <3>6
  <2>. QED
    BY <2>2, <2>3
<1>. QED
  BY <1>1, <1>2

LEMMA HeldAlwaysCovers == Spec => [](TypeOK /\ HeldCovers)
<1>1. Init => HeldCovers
  BY DEF Init, HeldCovers, Holding
<1>. QED
  BY <1>1, StepHeld, ScheduleTypeCorrect, PTL DEF Spec

(***************************************************************************)
(* A source that is in error, paused or disabled comes back by a PATCH, or *)
(* by the success of a request that some loop was already about to make    *)
(* when the source left (source.go:226, sources.go:361).                   *)
(***************************************************************************)
THEOREM RevivalsAreHeld == Spec => RevivedOnlyByHolders
<1>. DEFINE ByHolder(s) ==
       \/ \E a \in Admin : edit[a].source = s /\ edit'[a] = NoEdit
       \/ \E l \in held[s] : flight[l] = s /\ flight'[l] = NoSource
<1>1. ASSUME TypeOK, HeldCovers, [Next]_vars, NEW s \in Source, Revived(s)
      PROVE  ByHolder(s)
  <2>1. ASSUME NEW c \in Context, Answer(c)
        PROVE  ByHolder(s)
    <3>1. Land(c) /\ flight[c] \in Source
      BY <1>1, <2>1, LandingFlight DEF Answer, Succeed, Fail, PlanLimit, RateLimit
    <3>2. /\ Tracks(c)
          /\ \/ UpdateAfterFetch(flight[c]) \/ UpdateAfterError(flight[c])
             \/ MarkPlanLimited(flight[c])
      BY <1>1, <2>1
         DEF Answer, Succeed, Fail, PlanLimit, RateLimit, Record,
             UpdateAfterRateLimit, row, Revived
    <3>3. flight[c] = s
      BY <1>1, <3>1, <3>2
         DEF TypeOK, Revived, UpdateAfterFetch, UpdateAfterError, MarkPlanLimited
    <3>4. c \in held[s]
      BY <1>1, <3>2, <3>3 DEF Tracks, Revived, HeldCovers, Holding
    <3>5. flight'[c] = NoSource
      BY <1>1, <3>1 DEF TypeOK, Land
    <3>. QED
      BY <3>3, <3>4, <3>5
  <2>2. ASSUME NEW a \in Admin, PatchWrites(a)
        PROVE  ByHolder(s)
    <3>1. edit'[a] = NoEdit
      BY <1>1, <2>2 DEF TypeOK, PatchWrites
    <3>2. edit[a].source = s
      BY <1>1, <2>2 DEF TypeOK, PatchWrites, Revived
    <3>. QED
      BY <3>1, <3>2
  <2>3. CASE UNCHANGED status
    BY <1>1, <2>3 DEF Revived
  <2>4. ASSUME NEW c \in Context, NEW t \in Source, Skip(c, t)
        PROVE  UNCHANGED status
    BY <2>4 DEF Skip, Record, UpdateAfterRateLimit, row
  <2>. QED
    BY <1>1, <2>1, <2>2, <2>3, <2>4
       DEF Next, vars, row, Visit, Cycle, Contact, Patch, PatchReads, Elapse
<1>2. TypeOK /\ HeldCovers /\ [Next]_vars =>
        [\A s \in Source : Revived(s) => ByHolder(s)]_vars
  BY <1>1
<1>. QED
  BY <1>2, HeldAlwaysCovers, PTL DEF Spec, RevivedOnlyByHolders

-----------------------------------------------------------------------------
(***************************************************************************)
(* The 429s of a window.  A process whose window for a provider is open    *)
(* sends it nothing, so only the requests that were out when it opened are *)
(* still to be answered.                                                   *)
(***************************************************************************)
Inside(p)    == {c \in Context : ProcOf[c] = p}
Sending(p, s) == {c \in Inside(p) : flight[c] = s}

Windowed(p, s) ==
  /\ s \notin Throttled => backoff[p][s] = 0
  /\ backoff[p][s] = 0 => answers[p][s] = 0
  /\ backoff[p][s] > 0 =>
       answers[p][s] + Cardinality(Sending(p, s)) <= Cardinality(Inside(p))

Windows == \A p \in Proc, s \in Source : Windowed(p, s)

LEMMA ContextsAreFinite ==
  ASSUME NEW p \in Proc, NEW K \in SUBSET Inside(p)
  PROVE  /\ IsFiniteSet(K) /\ Cardinality(K) \in Nat
         /\ Cardinality(Inside(p)) \in Nat
         /\ Cardinality(K) <= Cardinality(Inside(p))
<1>1. IsFiniteSet(Inside(p))
  BY ScheduleAssumption, FS_Subset DEF ScheduleAssumption, Inside
<1>. QED
  BY <1>1, FS_Subset, FS_CardinalityType

LEMMA FewerSending ==
  ASSUME TypeOK, Windows, NEW p \in Proc, NEW s \in Source,
         Sending(p, s)' \subseteq Sending(p, s),
         backoff'[p][s] = backoff[p][s], answers'[p][s] = answers[p][s]
  PROVE  Windowed(p, s)'
<1>1. Sending(p, s) \in SUBSET Inside(p) /\ Sending(p, s)' \in SUBSET Inside(p)
  BY DEF Sending, Inside
<1>2. IsFiniteSet(Sending(p, s))
  BY <1>1, ContextsAreFinite
<1>3. Cardinality(Sending(p, s)') <= Cardinality(Sending(p, s))
  BY <1>2, FS_Subset
<1>4. /\ Cardinality(Sending(p, s)) \in Nat /\ Cardinality(Sending(p, s)') \in Nat
      /\ Cardinality(Inside(p)) \in Nat /\ answers[p][s] \in Nat
  BY <1>1, ContextsAreFinite DEF TypeOK
<1>. QED
  BY <1>3, <1>4 DEF Windows, Windowed, Inside

LEMMA StepWindows == TypeOK /\ Windows /\ [Next]_vars => Windows'
<1>. SUFFICES ASSUME TypeOK, Windows, [Next]_vars,
                     NEW p \in Proc, NEW s \in Source
              PROVE  Windowed(p, s)'
  BY DEF Windows
<1>1. ASSUME UNCHANGED <<backoff, answers, flight>>
      PROVE  Windowed(p, s)'
  BY <1>1, FewerSending DEF Sending
<1>2. ASSUME NEW c \in Context, NEW t \in Source, Contact(c, t)
      PROVE  Windowed(p, s)'
  <2>1. UNCHANGED <<backoff, answers>>
    BY <1>2 DEF Contact
  <2>2. \A e \in Context : flight'[e] = IF e = c THEN t ELSE flight[e]
    BY <1>2 DEF TypeOK, Contact
  <2>3. CASE t = s /\ ProcOf[c] = p
    <3>1. backoff[p][s] = 0
      BY <1>2, <2>3 DEF TypeOK, Contact, BackingOff, Windows, Windowed
    <3>. QED
      BY <2>1, <3>1 DEF Windows, Windowed
  <2>4. CASE ~ (t = s /\ ProcOf[c] = p)
    <3>1. Sending(p, s)' \subseteq Sending(p, s)
      BY <2>2, <2>4 DEF Sending, Inside
    <3>. QED
      BY <2>1, <3>1, FewerSending
  <2>. QED
    BY <2>3, <2>4
<1>3. ASSUME NEW c \in Context, Answer(c)
      PROVE  Windowed(p, s)'
  <2>1. Land(c) /\ flight[c] \in Source /\ ProcOf[c] \in Proc
    BY <1>3, LandingFlight DEF Answer, Succeed, Fail, PlanLimit, RateLimit
  <2>2. \A e \in Context : flight'[e] = IF e = c THEN NoSource ELSE flight[e]
    BY <2>1 DEF TypeOK, Land
  <2>3. Sending(p, s)' \subseteq Sending(p, s)
    BY <2>2, ScheduleAssumption DEF ScheduleAssumption, Sending, Inside
  <2>4. CASE backoff'[p][s] = backoff[p][s] /\ answers'[p][s] = answers[p][s]
    BY <2>3, <2>4, FewerSending
  <2>5. ASSUME NEW d \in RetryAfter, RateLimit(c, d), flight[c] = s, ProcOf[c] = p
        PROVE  Windowed(p, s)'
    <3>1. /\ s \in Throttled /\ d \in Nat \ {0}
          /\ backoff'[p][s] = d /\ answers'[p][s] = answers[p][s] + 1
      BY <2>5, ScheduleAssumption
         DEF ScheduleAssumption, TypeOK, RateLimit, SetBackoff
    <3>2. c \in Sending(p, s) /\ Sending(p, s)' = Sending(p, s) \ {c}
      BY <2>2, <2>5, ScheduleAssumption DEF ScheduleAssumption, Sending, Inside
    <3>3. Sending(p, s) \in SUBSET Inside(p) /\ Sending(p, s)' \in SUBSET Inside(p)
      BY DEF Sending, Inside
    <3>4. /\ IsFiniteSet(Sending(p, s))
          /\ Cardinality(Sending(p, s)) \in Nat /\ Cardinality(Inside(p)) \in Nat
          /\ Cardinality(Sending(p, s)) <= Cardinality(Inside(p))
          /\ answers[p][s] \in Nat
      BY <3>3, ContextsAreFinite DEF TypeOK
    <3>5. Cardinality(Sending(p, s)') = Cardinality(Sending(p, s)) - 1
      BY <3>2, <3>4, FS_RemoveElement
    <3>6. Windowed(p, s) /\ backoff[p][s] \in Nat
      BY DEF Windows, TypeOK
    <3>7. Inside(p)' = Inside(p)
      BY DEF Inside
    <3>. QED
      BY <3>1, <3>4, <3>5, <3>6, <3>7 DEF Windowed
  <2>6. ASSUME NEW d \in RetryAfter, RateLimit(c, d), ~ (flight[c] = s /\ ProcOf[c] = p)
        PROVE  backoff'[p][s] = backoff[p][s] /\ answers'[p][s] = answers[p][s]
    BY <2>1, <2>6 DEF TypeOK, RateLimit, SetBackoff
  <2>. QED
    BY <1>3, <2>4, <2>5, <2>6 DEF Answer, Succeed, Fail, PlanLimit
<1>4. CASE Elapse
  <2>1. /\ backoff[p][s] \in Nat /\ backoff'[p][s] = Before(backoff[p][s])
        /\ answers'[p][s] = IF backoff[p][s] <= 1 THEN 0 ELSE answers[p][s]
        /\ flight' = flight
    BY <1>4 DEF TypeOK, Elapse
  <2>2. Sending(p, s)' = Sending(p, s) /\ Inside(p)' = Inside(p)
    BY <2>1 DEF Sending, Inside
  <2>3. Windowed(p, s)
    BY DEF Windows
  <2>. QED
    BY <2>1, <2>2, <2>3 DEF Windowed, Before
<1>. QED
  BY <1>1, <1>2, <1>3, <1>4
     DEF Next, vars, Visit, Cycle, Skip, Patch, PatchReads, PatchWrites

(***************************************************************************)
(* Overlapping fetches of a connector may set its window anew, and shorter *)
(* (interface.go:126), but only as many as there were when it opened: the  *)
(* provider cannot be annoyed more than once by each goroutine in a window.*)
(***************************************************************************)
THEOREM AnswersAreBounded == Spec => []AnswersPerWindow
<1>1. Init => Windows
  BY DEF Init, Windows, Windowed
<1>2. TypeOK /\ Windows => AnswersPerWindow
  <2>. SUFFICES ASSUME TypeOK, Windows, NEW p \in Proc, NEW s \in Source
                PROVE  answers[p][s] <= Cardinality(Inside(p))
    BY DEF AnswersPerWindow, Inside
  <2>1. Sending(p, s) \in SUBSET Inside(p)
    BY DEF Sending
  <2>2. Cardinality(Sending(p, s)) \in Nat /\ Cardinality(Inside(p)) \in Nat
    BY <2>1, ContextsAreFinite
  <2>3. Windowed(p, s) /\ backoff[p][s] \in Nat /\ answers[p][s] \in Nat
    BY DEF Windows, TypeOK
  <2>. QED
    BY <2>2, <2>3 DEF Windowed
<1>. QED
  BY <1>1, <1>2, StepWindows, ScheduleTypeCorrect, PTL DEF Spec

-----------------------------------------------------------------------------
(***************************************************************************)
(* The jobs of the replicas.                                               *)
(***************************************************************************)
\* ScheduleSource adds a pending job that is neither listed nor in work, and
\* changes no other.
LEMMA SchedulingTyped ==
  ASSUME JobsTypeOK, NEW r \in Replica, NEW s \in Connector, NEW isDue \in BOOLEAN,
         ScheduleSource(r, s, isDue)
  PROVE  /\ job' \in [Replica -> [JobId -> Job]]
         /\ due' \in [Replica -> SUBSET JobId]
         /\ \A q \in Replica : \A j \in snapshot[q] \cup {cur[q]} : job'[q][j] = job[q][j]
<1>1. PICK j \in JobId \ (snapshot[r] \cup {cur[r]}) :
        /\ job' = [job EXCEPT ![r][j] = [st |-> "pending", src |-> s]]
        /\ due' = [due EXCEPT ![r] = IF isDue THEN @ \cup {j} ELSE @ \ {j}]
  BY DEF ScheduleSource
<1>2. [st |-> "pending", src |-> s] \in Job
  BY DEF Job
<1>3. job' \in [Replica -> [JobId -> Job]]
  BY <1>1, <1>2 DEF JobsTypeOK
<1>4. due' \in [Replica -> SUBSET JobId]
  BY <1>1 DEF JobsTypeOK
<1>5. ASSUME NEW q \in Replica, NEW i \in snapshot[q] \cup {cur[q]}
      PROVE  job'[q][i] = job[q][i]
  <2>1. CASE q = r
    <3>1. i # j
      BY <1>1, <2>1
    <3>. QED
      BY <1>1, <2>1, <3>1 DEF JobsTypeOK
  <2>2. CASE q # r
    BY <1>1, <2>2 DEF JobsTypeOK
  <2>. QED
    BY <2>1, <2>2
<1>. QED
  BY <1>3, <1>4, <1>5

\* A change of the status of one job keeps the table typed and every source.
LEMMA StatusTyped ==
  ASSUME JobsTypeOK, NEW r \in Replica, NEW j \in JobId,
         NEW state \in {"pending", "running", "skipped", "free"},
         SetStatus(r, j, state)
  PROVE  /\ job' \in [Replica -> [JobId -> Job]]
         /\ job'[r][j].st = state
         /\ \A q \in Replica, i \in JobId : job'[q][i].src = job[q][i].src
         /\ \A q \in Replica, i \in JobId : q # r \/ i # j => job'[q][i] = job[q][i]
<1>1. /\ job \in [Replica -> [JobId -> Job]]
      /\ job[r][j] \in Job
  BY DEF JobsTypeOK
<1>2. job' = [job EXCEPT ![r] = [job[r] EXCEPT ![j] = [job[r][j] EXCEPT !.st = state]]]
  BY DEF SetStatus
<1>3. /\ [job[r][j] EXCEPT !.st = state] \in Job
      /\ [job[r][j] EXCEPT !.st = state].st = state
      /\ [job[r][j] EXCEPT !.st = state].src = job[r][j].src
  BY <1>1 DEF Job
<1>. QED
  BY <1>1, <1>2, <1>3

\* A change of jobs that are in work leaves the listed ones as they are.
LEMMA ListKept ==
  ASSUME JobsTypeOK, NEW r \in Replica,
         \A q \in Replica, i \in JobId : q # r \/ i # cur[r] => job'[q][i] = job[q][i]
  PROVE  \A q \in Replica : \A j \in snapshot[q] :
           j # cur[q] /\ job'[q][j].st \in {"pending", "skipped"}
<1>1. SUFFICES ASSUME NEW q \in Replica, NEW j \in snapshot[q]
               PROVE  j # cur[q] /\ job'[q][j].st \in {"pending", "skipped"}
  OBVIOUS
<1>2. j \in JobId /\ j # cur[q] /\ job[q][j].st \in {"pending", "skipped"}
  BY DEF JobsTypeOK
<1>3. job'[q][j] = job[q][j]
  BY <1>2
<1>. QED
  BY <1>2, <1>3

\* The job in work is one of the table.
LEMMA CurTyped ==
  ASSUME JobsTypeOK, NEW r \in Replica, stage[r] # "idle"
  PROVE  cur[r] \in JobId /\ SourceOf(r) \in Connector
BY DEF JobsTypeOK, SourceOf, Job

LEMMA HandsTyped ==
  ASSUME JobsTypeOK, NEW r, LeavesHands(r)
  PROVE  overruns' \in [Connector -> Nat]
BY DEF JobsTypeOK, LeavesHands

LEMMA InitJobsTyped == JobsInit => JobsTypeOK
BY SchedulerAssumption
   DEF SchedulerAssumption, JobsInit, JobsTypeOK, Scheduled, Stages, None

\* The steps of executeJob and processJobs keep the types.
LEMMA WorkTyped ==
  ASSUME JobsTypeOK, NEW r \in Replica, Work(r)
  PROVE  JobsTypeOK'
<1>1. CASE ProcessJobs(r)
  <2>1. cur[r] = NoJob /\ NoJob \notin JobId
    BY <1>1, SchedulerAssumption
       DEF SchedulerAssumption, JobsTypeOK, ProcessJobs
  <2>2. \A q \in Replica : \A j \in snapshot'[q] :
          j \in JobId /\ j # cur[q] /\ job[q][j].st \in {"pending", "skipped"}
    BY <1>1, <2>1 DEF JobsTypeOK, ProcessJobs
  <2>. QED
    BY <1>1, <2>2 DEF JobsTypeOK, ProcessJobs, history
<1>2. ASSUME NEW j \in JobId, Acquire(r, j)
      PROVE  JobsTypeOK'
  BY <1>2, SchedulerAssumption
     DEF SchedulerAssumption, JobsTypeOK, Acquire, Attempt, history, Stages
<1>3. ASSUME NEW j \in JobId, AcquireFails(r, j)
      PROVE  JobsTypeOK'
  <2>1. /\ lock' \in [Connector -> BOOLEAN]
        /\ faults' \in Nat
    <3>1. lock' = lock \/ lock' = [lock EXCEPT ![job[r][j].src] = TRUE]
      BY <1>3 DEF AcquireFails
    <3>2. lock' \in [Connector -> BOOLEAN]
      BY <3>1 DEF JobsTypeOK
    <3>3. faults' = faults \/ faults' = faults + 1
      BY <1>3 DEF AcquireFails, Fault
    <3>. QED
      BY <3>2, <3>3 DEF JobsTypeOK
  <2>. QED
    BY <1>3, <2>1 DEF JobsTypeOK, AcquireFails, Attempt, history
<1>4. CASE StartRun(r)
  <2>1. cur[r] \in JobId
    BY <1>4, CurTyped DEF StartRun
  <2>2. /\ job' \in [Replica -> [JobId -> Job]]
        /\ \A q \in Replica, i \in JobId : q # r \/ i # cur[r] => job'[q][i] = job[q][i]
    BY <1>4, <2>1, StatusTyped DEF StartRun
  <2>3. \A q \in Replica : \A j \in snapshot[q] :
          j # cur[q] /\ job'[q][j].st \in {"pending", "skipped"}
    BY <2>2, ListKept
  <2>4. stage' \in [Replica -> Stages] /\ \A q \in Replica : cur[q] = NoJob <=> stage'[q] = "idle"
    BY <1>4 DEF JobsTypeOK, StartRun, Stages
  <2>. QED
    BY <1>4, <2>2, <2>3, <2>4 DEF JobsTypeOK, StartRun, history
<1>5. CASE EndRun(r)
  <2>1. cur[r] \in JobId
    BY <1>5, CurTyped DEF EndRun
  <2>2. /\ job' \in [Replica -> [JobId -> Job]]
        /\ \A q \in Replica, i \in JobId : q # r \/ i # cur[r] => job'[q][i] = job[q][i]
    BY <1>5, <2>1, StatusTyped DEF EndRun
  <2>3. \A q \in Replica : \A j \in snapshot[q] :
          j # cur[q] /\ job'[q][j].st \in {"pending", "skipped"}
    BY <2>2, ListKept
  <2>4. stage' \in [Replica -> Stages] /\ \A q \in Replica : cur[q] = NoJob <=> stage'[q] = "idle"
    BY <1>5 DEF JobsTypeOK, EndRun, Stages
  <2>. QED
    BY <1>5, <2>2, <2>3, <2>4 DEF JobsTypeOK, EndRun, history
<1>6. CASE Reschedule(r)
  <2>1. /\ job' \in [Replica -> [JobId -> Job]]
        /\ due' \in [Replica -> SUBSET JobId]
        /\ \A q \in Replica : \A j \in snapshot[q] : job'[q][j] = job[q][j]
    BY <1>6, CurTyped, SchedulingTyped DEF Reschedule
  <2>2. stage' \in [Replica -> Stages] /\ \A q \in Replica : cur[q] = NoJob <=> stage'[q] = "idle"
    BY <1>6 DEF JobsTypeOK, Reschedule, Stages
  <2>. QED
    BY <1>6, <2>1, <2>2 DEF JobsTypeOK, Reschedule, history
<1>7. CASE Release(r)
  <2>1. /\ lock' \in [Connector -> BOOLEAN]
        /\ faults' \in Nat
    <3>1. lock' = lock \/ lock' = [lock EXCEPT ![SourceOf(r)] = FALSE]
      BY <1>7 DEF Release
    <3>2. lock' \in [Connector -> BOOLEAN]
      BY <3>1 DEF JobsTypeOK
    <3>3. faults' = faults \/ faults' = faults + 1
      BY <1>7 DEF Release, Fault
    <3>. QED
      BY <3>2, <3>3 DEF JobsTypeOK
  <2>2. /\ cur' \in [Replica -> JobId \cup {NoJob}]
        /\ stage' \in [Replica -> Stages]
        /\ \A q \in Replica : cur'[q] = NoJob <=> stage'[q] = "idle"
    BY <1>7 DEF JobsTypeOK, Release, Stages
  <2>3. \A q \in Replica : \A j \in snapshot[q] : j # cur'[q]
    BY <1>7, SchedulerAssumption DEF SchedulerAssumption, JobsTypeOK, Release
  <2>4. overruns' \in [Connector -> Nat]
    BY <1>7, HandsTyped DEF Release
  <2>. QED
    BY <1>7, <2>1, <2>2, <2>3, <2>4 DEF JobsTypeOK, Release
<1>. QED
  BY <1>1, <1>2, <1>3, <1>4, <1>5, <1>6, <1>7 DEF Work

\* So does everything else that happens.
LEMMA EventTyped ==
  ASSUME JobsTypeOK,
         \/ \E r \in Replica : Crash(r)
         \/ \E r \in Replica, s \in Connector : ScheduleNow(r, s)
         \/ \E r \in Replica, j \in JobId : CancelJob(r, j) \/ ComesDue(r, j)
         \/ \E s \in Connector : Expire(s)
  PROVE  JobsTypeOK'
<1>1. ASSUME NEW r \in Replica, Crash(r)
      PROVE  JobsTypeOK'
  <2>1. overruns' \in [Connector -> Nat]
    BY <1>1, HandsTyped DEF Crash
  <2>2. /\ job' \in [Replica -> [JobId -> Job]]
        /\ \A q \in Replica \ {r} : job'[q] = job[q]
    BY <1>1 DEF JobsTypeOK, Crash, Scheduled
  <2>3. \A q \in Replica : \A j \in snapshot'[q] :
          j # cur'[q] /\ job'[q][j].st \in {"pending", "skipped"}
    BY <1>1, <2>2 DEF JobsTypeOK, Crash
  <2>. QED
    BY <1>1, <2>1, <2>2, <2>3, SchedulerAssumption
       DEF SchedulerAssumption, JobsTypeOK, Crash, Stages, None
<1>2. ASSUME NEW r \in Replica, NEW s \in Connector, ScheduleNow(r, s)
      PROVE  JobsTypeOK'
  <2>1. /\ job' \in [Replica -> [JobId -> Job]]
        /\ due' \in [Replica -> SUBSET JobId]
        /\ \A q \in Replica : \A j \in snapshot[q] : job'[q][j] = job[q][j]
    BY <1>2, SchedulingTyped DEF ScheduleNow
  <2>2. extra' \in [Replica -> [Connector -> Nat]]
    BY <1>2 DEF JobsTypeOK, ScheduleNow
  <2>. QED
    BY <1>2, <2>1, <2>2 DEF JobsTypeOK, ScheduleNow
<1>3. ASSUME NEW r \in Replica, NEW j \in JobId, CancelJob(r, j)
      PROVE  JobsTypeOK'
  <2>1. /\ job' \in [Replica -> [JobId -> Job]]
        /\ job'[r][j].st = "skipped"
        /\ \A q \in Replica, i \in JobId : q # r \/ i # j => job'[q][i] = job[q][i]
    BY <1>3, StatusTyped DEF CancelJob
  <2>2. cancelled' \in [Replica -> [Connector -> Nat]]
    <3>1. job[r][j].src \in Connector
      BY DEF JobsTypeOK, Job
    <3>. QED
      BY <1>3, <3>1 DEF JobsTypeOK, CancelJob
  <2>3. \A q \in Replica : \A i \in snapshot[q] :
          i # cur[q] /\ job'[q][i].st \in {"pending", "skipped"}
    <3>1. \A q \in Replica : \A i \in snapshot[q] :
            /\ i \in JobId /\ i # cur[q] /\ job[q][i].st \in {"pending", "skipped"}
      BY DEF JobsTypeOK
    <3>2. \A q \in Replica : \A i \in snapshot[q] :
            job'[q][i].st = job[q][i].st \/ job'[q][i].st = "skipped"
      BY <2>1, <3>1
    <3>. QED
      BY <3>1, <3>2
  <2>. QED
    BY <1>3, <2>1, <2>2, <2>3 DEF JobsTypeOK, CancelJob
<1>4. ASSUME NEW r \in Replica, NEW j \in JobId, ComesDue(r, j)
      PROVE  JobsTypeOK'
  BY <1>4 DEF JobsTypeOK, ComesDue, history
<1>5. ASSUME NEW s \in Connector, Expire(s)
      PROVE  JobsTypeOK'
  BY <1>5 DEF JobsTypeOK, Expire, history
<1>. QED
  BY <1>1, <1>2, <1>3, <1>4, <1>5

LEMMA StepJobsTyped == JobsTypeOK /\ [JobsNext]_jobsVars => JobsTypeOK'
<1>1. ASSUME JobsTypeOK, UNCHANGED jobsVars
      PROVE  JobsTypeOK'
  BY <1>1 DEF JobsTypeOK, jobsVars, history
<1>. QED
  BY <1>1, WorkTyped, EventTyped DEF JobsNext

(***************************************************************************)
(* Type correctness: executeJob only ever works on a known job that it has *)
(* taken off the list, and the list never holds a job that is running or   *)
(* already done.                                                           *)
(***************************************************************************)
THEOREM JobsTypeCorrect == JobsSpec => []JobsTypeOK
BY InitJobsTyped, StepJobsTyped, PTL DEF JobsSpec

-----------------------------------------------------------------------------
(***************************************************************************)
(* Why runs are counted by overruns.  A source whose key is there is in    *)
(* the hands of at most one replica more than keys have expired under      *)
(* them; without a key, of one fewer: the next acquisition makes up for it.*)
(* A release takes away a key, its own or not, and a holder with it.       *)
(***************************************************************************)
Covered(s) ==
  Cardinality(Holders(s)) <= IF lock[s] THEN 1 + overruns[s] ELSE overruns[s]

Locked == JobsTypeOK /\ \A s \in Connector : Covered(s)

LEMMA HoldersCounted ==
  ASSUME NEW H \in SUBSET Replica, NEW G \in SUBSET H
  PROVE  /\ IsFiniteSet(H) /\ Cardinality(H) \in Nat
         /\ Cardinality(G) \in Nat /\ Cardinality(G) <= Cardinality(H)
BY SchedulerAssumption, FS_Subset, FS_CardinalityType DEF SchedulerAssumption

\* Nobody takes hold of s, its key stays, and no overrun is forgotten.
LEMMA StaysCovered ==
  ASSUME Locked, JobsTypeOK', NEW s \in Connector,
         Holders(s)' \subseteq Holders(s), lock[s] => lock'[s],
         overruns'[s] = overruns[s]
  PROVE  Covered(s)'
<1>1. Holders(s) \in SUBSET Replica /\ Holders(s)' \in SUBSET Holders(s)
  BY DEF Holders
<1>2. /\ Cardinality(Holders(s)) \in Nat /\ Cardinality(Holders(s)') \in Nat
      /\ Cardinality(Holders(s)') <= Cardinality(Holders(s))
  BY <1>1, HoldersCounted
<1>3. Covered(s) /\ overruns[s] \in Nat /\ lock[s] \in BOOLEAN /\ lock'[s] \in BOOLEAN
  BY DEF Locked, JobsTypeOK
<1>. QED
  BY <1>2, <1>3 DEF Covered

\* A replica lets go of every source it has.
LEMMA LettingGo ==
  ASSUME Locked, JobsTypeOK', NEW r \in Replica, LeavesHands(r),
         \A s \in Connector : Holders(s)' = Holders(s) \ {r},
         \A s \in Connector : lock'[s] = lock[s] \/ r \in Holders(s)
  PROVE  Locked'
<1>1. ASSUME NEW s \in Connector
      PROVE  Covered(s)'
  <2>1. Holders(s) \in SUBSET Replica /\ Holders(s)' \in SUBSET Holders(s)
    BY <1>1 DEF Holders
  <2>2. /\ IsFiniteSet(Holders(s)) /\ Cardinality(Holders(s)) \in Nat
        /\ Cardinality(Holders(s)') \in Nat
    BY <2>1, HoldersCounted
  <2>3. /\ Covered(s) /\ overruns[s] \in Nat /\ lock[s] \in BOOLEAN
        /\ overruns'[s] \in Nat /\ lock'[s] \in BOOLEAN
    BY DEF Locked, JobsTypeOK
  <2>4. CASE Holders(s) \subseteq {r}
    <3>1. Cardinality(Holders(s)') = 0
      BY <1>1, <2>4, FS_EmptySet
    <3>. QED
      BY <2>3, <3>1 DEF Covered
  <2>5. CASE ~ (Holders(s) \subseteq {r})
    <3>1. overruns'[s] = overruns[s]
      BY <2>5 DEF LeavesHands
    <3>2. CASE r \in Holders(s)
      <4>1. Cardinality(Holders(s)') = Cardinality(Holders(s)) - 1
        BY <1>1, <2>2, <3>2, FS_RemoveElement
      <4>. QED
        BY <2>2, <2>3, <3>1, <4>1 DEF Covered
    <3>3. CASE r \notin Holders(s)
      BY <2>1, <3>1, <3>3, StaysCovered
    <3>. QED
      BY <3>2, <3>3
  <2>. QED
    BY <2>4, <2>5
<1>. QED
  BY <1>1 DEF Locked

LEMMA InitLocked == JobsInit => Locked
<1>. SUFFICES ASSUME JobsInit, NEW s \in Connector
              PROVE  Covered(s)
  BY InitJobsTyped DEF Locked
<1>1. Holders(s) = {}
  BY DEF JobsInit, Holders, Holds
<1>2. Cardinality(Holders(s)) = 0
  BY <1>1, FS_EmptySet
<1>. QED
  BY <1>2 DEF JobsInit, Covered, None

LEMMA StepLocked ==
  ASSUME Locked, [JobsNext]_jobsVars
  PROVE  Locked'
<1>1. JobsTypeOK /\ JobsTypeOK'
  BY StepJobsTyped DEF Locked
<1>a. ASSUME \A q \in Replica, s \in Connector : Holds(q, s)' => Holds(q, s),
             \A s \in Connector : lock[s] => lock'[s],
             UNCHANGED overruns
      PROVE  Locked'
  <2>1. ASSUME NEW s \in Connector
        PROVE  Covered(s)'
    <3>1. Holders(s)' \subseteq Holders(s)
      BY <1>a DEF Holders
    <3>. QED
      BY <1>1, <1>a, <3>1, StaysCovered
  <2>. QED
    BY <1>1, <2>1 DEF Locked
<1>2. ASSUME NEW r \in Replica, NEW j \in JobId, Acquire(r, j)
      PROVE  Locked'
  <2>1. /\ ~lock[job[r][j].src] /\ stage[r] = "idle"
        /\ lock' = [lock EXCEPT ![job[r][j].src] = TRUE]
        /\ stage' = [stage EXCEPT ![r] = "locked"]
        /\ cur' = [cur EXCEPT ![r] = j]
        /\ job' = job /\ overruns' = overruns
    BY <1>2 DEF Acquire, Attempt, history
  <2>2. job[r][j].src \in Connector
    BY <1>1 DEF JobsTypeOK, Job
  <2>3. \A s \in Connector : Holds(r, s)' <=> s = job[r][j].src
    BY <1>1, <2>1, <2>2 DEF JobsTypeOK, Holds, SourceOf
  <2>4. \A q \in Replica \ {r}, s \in Connector : Holds(q, s)' <=> Holds(q, s)
    BY <1>1, <2>1 DEF JobsTypeOK, Holds, SourceOf
  <2>5. ASSUME NEW s \in Connector, s # job[r][j].src
        PROVE  Covered(s)'
    <3>1. Holders(s)' \subseteq Holders(s)
      BY <2>3, <2>4, <2>5 DEF Holders
    <3>2. lock'[s] = lock[s]
      BY <1>1, <2>1, <2>5 DEF JobsTypeOK
    <3>. QED
      BY <1>1, <2>1, <3>1, <3>2, StaysCovered
  <2>6. PICK s \in Connector : s = job[r][j].src
    BY <2>2
  <2>7. Covered(s)'
    <3>1. r \notin Holders(s) /\ Holders(s)' = Holders(s) \cup {r}
      BY <2>1, <2>3, <2>4, <2>6 DEF Holders, Holds
    <3>2. Holders(s) \in SUBSET Replica
      BY DEF Holders
    <3>3. IsFiniteSet(Holders(s)) /\ Cardinality(Holders(s)) \in Nat
      BY <3>2, HoldersCounted
    <3>4. Cardinality(Holders(s)') = Cardinality(Holders(s)) + 1
      BY <3>1, <3>3, FS_AddElement
    <3>5. /\ ~lock[s] /\ lock'[s] /\ overruns'[s] = overruns[s]
          /\ Covered(s) /\ overruns[s] \in Nat
      BY <1>1, <2>1, <2>6 DEF Locked, JobsTypeOK
    <3>. QED
      BY <3>3, <3>4, <3>5 DEF Covered
  <2>. QED
    BY <1>1, <2>5, <2>6, <2>7 DEF Locked
<1>3. ASSUME NEW r \in Replica, NEW j \in JobId, AcquireFails(r, j)
      PROVE  Locked'
  <2>1. \A q \in Replica, s \in Connector : Holds(q, s)' => Holds(q, s)
    BY <1>3 DEF AcquireFails, Attempt, Holds, SourceOf
  <2>2. \A s \in Connector : lock[s] => lock'[s]
    BY <1>1, <1>3 DEF AcquireFails, JobsTypeOK
  <2>3. UNCHANGED overruns
    BY <1>3 DEF AcquireFails, Attempt, history
  <2>. QED
    BY <2>1, <2>2, <2>3, <1>a
<1>4. ASSUME NEW r \in Replica, StartRun(r) \/ EndRun(r)
      PROVE  Locked'
  <2>1. cur[r] \in JobId
    BY <1>1, <1>4, CurTyped DEF StartRun, EndRun
  <2>2. \A q \in Replica, i \in JobId : job'[q][i].src = job[q][i].src
    BY <1>1, <1>4, <2>1, StatusTyped DEF StartRun, EndRun
  <2>3. \A q \in Replica, s \in Connector : Holds(q, s)' => Holds(q, s)
    BY <1>1, <1>4, <2>2 DEF StartRun, EndRun, Holds, SourceOf, JobsTypeOK
  <2>. QED
    BY <1>4, <2>3, <1>a DEF StartRun, EndRun, history
<1>5. ASSUME NEW r \in Replica, Reschedule(r) \/ (\E s \in Connector : ScheduleNow(r, s))
      PROVE  Locked'
  <2>1. \A q \in Replica : job'[q][cur[q]] = job[q][cur[q]]
    BY <1>1, <1>5, CurTyped, SchedulingTyped DEF Reschedule, ScheduleNow
  <2>2. cur' = cur /\ \A q \in Replica : stage'[q] # "idle" => stage[q] # "idle"
    BY <1>1, <1>5 DEF Reschedule, ScheduleNow, JobsTypeOK
  <2>3. \A q \in Replica, s \in Connector : Holds(q, s)' => Holds(q, s)
    BY <2>1, <2>2 DEF Holds, SourceOf
  <2>. QED
    BY <1>5, <2>3, <1>a DEF Reschedule, ScheduleNow, history
<1>6. ASSUME NEW r \in Replica, Release(r)
      PROVE  Locked'
  <2>1. /\ stage[r] # "idle" /\ stage' = [stage EXCEPT ![r] = "idle"]
        /\ cur' = [cur EXCEPT ![r] = NoJob] /\ job' = job
        /\ lock' = lock \/ lock' = [lock EXCEPT ![SourceOf(r)] = FALSE]
        /\ LeavesHands(r)
    BY <1>6 DEF Release
  <2>2. ASSUME NEW s \in Connector
        PROVE  Holders(s)' = Holders(s) \ {r}
    <3>1. ~Holds(r, s)'
      BY <1>1, <2>1 DEF JobsTypeOK, Holds
    <3>2. \A q \in Replica \ {r} : Holds(q, s)' <=> Holds(q, s)
      BY <1>1, <2>1 DEF JobsTypeOK, Holds, SourceOf
    <3>. QED
      BY <3>1, <3>2 DEF Holders
  <2>3. SourceOf(r) \in Connector /\ r \in Holders(SourceOf(r))
    BY <1>1, <2>1, CurTyped DEF Holders, Holds
  <2>4. \A s \in Connector : lock'[s] = lock[s] \/ r \in Holders(s)
    BY <1>1, <2>1, <2>3 DEF JobsTypeOK
  <2>. QED
    BY <1>1, <2>1, <2>2, <2>4, LettingGo
<1>7. ASSUME NEW r \in Replica, NEW j \in JobId, CancelJob(r, j)
      PROVE  Locked'
  <2>1. \A q \in Replica, i \in JobId : job'[q][i].src = job[q][i].src
    BY <1>1, <1>7, StatusTyped DEF CancelJob
  <2>2. \A q \in Replica, s \in Connector : Holds(q, s)' => Holds(q, s)
    BY <1>1, <1>7, <2>1 DEF CancelJob, Holds, SourceOf, JobsTypeOK
  <2>. QED
    BY <1>7, <2>2, <1>a DEF CancelJob
<1>8. ASSUME NEW s \in Connector, Expire(s)
      PROVE  Locked'
  <2>1. \A t \in Connector : Holders(t)' = Holders(t)
    BY <1>8 DEF Expire, Holders, Holds, SourceOf
  <2>2. ASSUME NEW t \in Connector, t # s
        PROVE  Covered(t)'
    <3>1. lock'[t] = lock[t] /\ overruns'[t] = overruns[t]
      BY <1>1, <1>8, <2>2 DEF JobsTypeOK, Expire
    <3>. QED
      BY <1>1, <2>1, <3>1, StaysCovered
  <2>3. Covered(s)'
    <3>1. /\ Covered(s) /\ overruns[s] \in Nat /\ lock[s] /\ ~lock'[s]
      BY <1>1, <1>8 DEF Locked, JobsTypeOK, Expire
    <3>2. Holders(s) \in SUBSET Replica
      BY DEF Holders
    <3>3. Cardinality(Holders(s)) \in Nat
      BY <3>2, HoldersCounted
    <3>4. \/ Cardinality(Holders(s)) = 0 /\ overruns'[s] = overruns[s]
          \/ overruns'[s] = overruns[s] + 1
      BY <1>1, <1>8, FS_EmptySet DEF JobsTypeOK, Expire
    <3>. QED
      BY <2>1, <3>1, <3>3, <3>4 DEF Covered
  <2>. QED
    BY <1>1, <2>2, <2>3 DEF Locked
<1>9. ASSUME NEW r \in Replica, Crash(r)
      PROVE  Locked'
  <2>1. /\ LeavesHands(r) /\ lock' = lock
        /\ stage' = [stage EXCEPT ![r] = "idle"] /\ cur' = [cur EXCEPT ![r] = NoJob]
        /\ \A q \in Replica \ {r} : job'[q] = job[q]
    BY <1>1, <1>9 DEF Crash, JobsTypeOK
  <2>2. ASSUME NEW s \in Connector
        PROVE  Holders(s)' = Holders(s) \ {r}
    <3>1. ~Holds(r, s)'
      BY <1>1, <2>1 DEF JobsTypeOK, Holds
    <3>2. \A q \in Replica \ {r} : Holds(q, s)' <=> Holds(q, s)
      BY <1>1, <2>1 DEF JobsTypeOK, Holds, SourceOf
    <3>. QED
      BY <3>1, <3>2 DEF Holders
  <2>. QED
    BY <1>1, <2>1, <2>2, LettingGo
<1>10. ASSUME \/ \E r \in Replica : ProcessJobs(r) \/ \E j \in JobId : ComesDue(r, j)
              \/ UNCHANGED jobsVars
       PROVE  Locked'
  BY <1>10, <1>a DEF ProcessJobs, ComesDue, jobsVars, history, Holds, SourceOf
<1>. QED
  BY <1>2, <1>3, <1>4, <1>5, <1>6, <1>7, <1>8, <1>9, <1>10 DEF JobsNext, Work

(***************************************************************************)
(* "Acquire distributed lock to prevent duplicate execution"               *)
(* (scheduler.go:224): a source is never run more often at a time than     *)
(* once, and once more for every key that has expired under a run; never   *)
(* twice, as long as no run outlasts its key.                              *)
(***************************************************************************)
THEOREM RunsAreCounted == JobsSpec => []OneRunPerOverrun
<1>1. ASSUME Locked, NEW s \in Connector
      PROVE  Cardinality({r \in Replica : Running(r, s)}) <= 1 + overruns[s]
  <2>1. /\ {r \in Replica : Running(r, s)} \in SUBSET Holders(s)
        /\ Holders(s) \in SUBSET Replica
    BY DEF Holders, Holds, Running
  <2>2. /\ Cardinality(Holders(s)) \in Nat
        /\ Cardinality({r \in Replica : Running(r, s)}) \in Nat
        /\ Cardinality({r \in Replica : Running(r, s)}) <= Cardinality(Holders(s))
    BY <2>1, HoldersCounted
  <2>3. Covered(s) /\ overruns[s] \in Nat /\ lock[s] \in BOOLEAN
    BY <1>1 DEF Locked, JobsTypeOK
  <2>. QED
    BY <2>2, <2>3 DEF Covered
<1>2. Locked => OneRunPerOverrun
  BY <1>1 DEF OneRunPerOverrun
<1>3. Locked /\ [JobsNext]_jobsVars => Locked'
  BY StepLocked
<1>. QED
  BY InitLocked, <1>2, <1>3, PTL DEF JobsSpec

-----------------------------------------------------------------------------
(***************************************************************************)
(* Why chains are conserved.  A cancelled job that executeJob has already  *)
(* listed, or is about to start, runs all the same and so brings its chain *)
(* back to life: counted along with the live jobs, it makes the upper      *)
(* bound inductive.  The lower bound needs only the live ones.             *)
(***************************************************************************)
LiveJobs(r, s) ==
  {j \in JobId : job[r][j].src = s /\ job[r][j].st \in {"pending", "running"}}

StillRuns(r, j) == j \in snapshot[r] \/ (stage[r] = "locked" /\ j = cur[r])

Chained(r, s) ==
  LiveJobs(r, s) \cup
  {j \in JobId : job[r][j].src = s /\ job[r][j].st = "skipped" /\ StillRuns(r, j)}

Between(r, s) == IF stage[r] = "ended" /\ SourceOf(r) = s THEN 1 ELSE 0

\* executeJob's stage agrees with the status it has written.
InStep(r) ==
  /\ stage[r] = "locked" => job[r][cur[r]].st \in {"pending", "skipped"}
  /\ stage[r] = "running" => job[r][cur[r]].st = "running"
  /\ stage[r] \in {"ended", "rescheduled"} => job[r][cur[r]].st = "free"

Balanced(r) ==
  \A s \in Connector :
    /\ Cardinality(LiveJobs(r, s)) + Between(r, s) + cancelled[r][s] >= 1 + extra[r][s]
    /\ Cardinality(Chained(r, s)) + Between(r, s) <= 1 + extra[r][s]

Chains == \A r \in Replica : InStep(r) /\ Balanced(r)

\* A table is finite, and so is every part of it.
LEMMA JobsCounted ==
  ASSUME NEW T \in SUBSET JobId, NEW S \in SUBSET T
  PROVE  /\ IsFiniteSet(T) /\ Cardinality(T) \in Nat
         /\ IsFiniteSet(S) /\ Cardinality(S) \in Nat
         /\ Cardinality(S) <= Cardinality(T)
BY SchedulerAssumption, FS_Subset, FS_CardinalityType DEF SchedulerAssumption

LEMMA ChainsCounted ==
  ASSUME NEW r \in Replica, NEW s \in Connector
  PROVE  /\ LiveJobs(r, s) \subseteq JobId /\ Chained(r, s) \subseteq JobId
         /\ IsFiniteSet(LiveJobs(r, s)) /\ IsFiniteSet(Chained(r, s))
         /\ Cardinality(LiveJobs(r, s)) \in Nat /\ Cardinality(Chained(r, s)) \in Nat
         /\ Cardinality(LiveJobs(r, s)) <= Cardinality(Chained(r, s))
<1>1. /\ LiveJobs(r, s) \subseteq Chained(r, s)
      /\ LiveJobs(r, s) \subseteq JobId /\ Chained(r, s) \subseteq JobId
  BY DEF Chained, LiveJobs
<1>. QED
  BY <1>1, JobsCounted

\* What another replica does changes nothing here.
LEMMA ReplicaKept ==
  ASSUME NEW q \in Replica, InStep(q), Balanced(q),
         job'[q] = job[q], snapshot'[q] = snapshot[q], cur'[q] = cur[q],
         stage'[q] = stage[q], extra'[q] = extra[q], cancelled'[q] = cancelled[q]
  PROVE  InStep(q)' /\ Balanced(q)'
<1>1. InStep(q)'
  BY DEF InStep
<1>2. ASSUME NEW s \in Connector
      PROVE  /\ LiveJobs(q, s)' = LiveJobs(q, s) /\ Chained(q, s)' = Chained(q, s)
             /\ Between(q, s)' = Between(q, s)
  BY DEF LiveJobs, Chained, StillRuns, Between, SourceOf
<1>. QED
  BY <1>1, <1>2 DEF Balanced

\* A step that ends no live job and adds none keeps the balance.
LEMMA ChainsKept ==
  ASSUME JobsTypeOK, NEW r \in Replica, Balanced(r),
         extra' = extra, cancelled' = cancelled,
         \A s \in Connector : /\ LiveJobs(r, s) \subseteq LiveJobs(r, s)'
                           /\ Chained(r, s)' \subseteq Chained(r, s)
                           /\ Between(r, s)' = Between(r, s)
  PROVE  Balanced(r)'
<1>. SUFFICES ASSUME NEW s \in Connector
              PROVE  /\ Cardinality(LiveJobs(r, s)') + Between(r, s) + cancelled[r][s]
                          >= 1 + extra[r][s]
                     /\ Cardinality(Chained(r, s)') + Between(r, s) <= 1 + extra[r][s]
  BY DEF Balanced
<1>1. /\ LiveJobs(r, s)' \subseteq JobId /\ Chained(r, s) \subseteq JobId
  BY DEF LiveJobs, Chained
<1>2. /\ Cardinality(LiveJobs(r, s)) <= Cardinality(LiveJobs(r, s)')
      /\ Cardinality(LiveJobs(r, s)) \in Nat /\ Cardinality(LiveJobs(r, s)') \in Nat
  BY <1>1, JobsCounted
<1>3. /\ Cardinality(Chained(r, s)') <= Cardinality(Chained(r, s))
      /\ Cardinality(Chained(r, s)) \in Nat /\ Cardinality(Chained(r, s)') \in Nat
  BY <1>1, JobsCounted
<1>4. Between(r, s) \in Nat /\ cancelled[r][s] \in Nat /\ extra[r][s] \in Nat
  BY DEF Between, JobsTypeOK
<1>. QED
  BY <1>2, <1>3, <1>4 DEF Balanced

\* Listing, attempting, starting and releasing, and a job that comes due,
\* all leave the chains as they are.
LEMMA QuietBalanced ==
  ASSUME JobsTypeOK, NEW r \in Replica, InStep(r), Balanced(r),
         \/ ProcessJobs(r) \/ StartRun(r) \/ Release(r)
         \/ \E j \in JobId : Acquire(r, j) \/ AcquireFails(r, j) \/ ComesDue(r, j)
  PROVE  InStep(r)' /\ Balanced(r)'
<1>1. extra' = extra /\ cancelled' = cancelled
  BY DEF ProcessJobs, StartRun, Release, Acquire, AcquireFails, Attempt,
     ComesDue, history
<1>2. CASE ProcessJobs(r)
  <2>1. /\ job' = job /\ stage' = stage /\ cur' = cur /\ stage[r] = "idle"
        /\ \A j \in snapshot'[r] : job[r][j].st = "pending"
    BY <1>2 DEF ProcessJobs, JobsTypeOK
  <2>2. \A s \in Connector : /\ LiveJobs(r, s)' = LiveJobs(r, s)
                          /\ Chained(r, s)' \subseteq Chained(r, s)
                          /\ Between(r, s)' = Between(r, s)
    BY <2>1 DEF LiveJobs, Chained, StillRuns, Between, SourceOf
  <2>. QED
    BY <1>1, <2>1, <2>2, ChainsKept DEF InStep
<1>3. ASSUME NEW j \in JobId, Acquire(r, j)
      PROVE  InStep(r)' /\ Balanced(r)'
  <2>1. /\ job' = job /\ stage[r] = "idle" /\ stage'[r] = "locked" /\ cur'[r] = j
        /\ j \in snapshot[r] /\ snapshot'[r] = snapshot[r] \ {j}
    BY <1>3 DEF Acquire, Attempt, JobsTypeOK
  <2>2. \A s \in Connector : /\ LiveJobs(r, s)' = LiveJobs(r, s)
                          /\ Chained(r, s)' \subseteq Chained(r, s)
                          /\ Between(r, s)' = Between(r, s)
    BY <2>1 DEF LiveJobs, Chained, StillRuns, Between, SourceOf
  <2>3. job[r][j].st \in {"pending", "skipped"}
    BY <2>1 DEF JobsTypeOK
  <2>. QED
    BY <1>1, <2>1, <2>2, <2>3, ChainsKept DEF InStep
<1>4. ASSUME NEW j \in JobId, AcquireFails(r, j)
      PROVE  InStep(r)' /\ Balanced(r)'
  <2>1. /\ job' = job /\ stage' = stage /\ cur' = cur
        /\ snapshot'[r] \subseteq snapshot[r]
    BY <1>4 DEF AcquireFails, Attempt, JobsTypeOK
  <2>2. \A s \in Connector : /\ LiveJobs(r, s)' = LiveJobs(r, s)
                          /\ Chained(r, s)' \subseteq Chained(r, s)
                          /\ Between(r, s)' = Between(r, s)
    BY <2>1 DEF LiveJobs, Chained, StillRuns, Between, SourceOf
  <2>. QED
    BY <1>1, <2>1, <2>2, ChainsKept DEF InStep
<1>5. CASE StartRun(r)
  <2>1. /\ stage[r] = "locked" /\ stage'[r] = "running" /\ cur' = cur
        /\ snapshot' = snapshot /\ cur[r] \in JobId
        /\ job[r][cur[r]].st \in {"pending", "skipped"}
    BY <1>5, CurTyped DEF StartRun, JobsTypeOK, InStep
  <2>2. /\ job'[r][cur[r]].st = "running"
        /\ \A i \in JobId : job'[r][i].src = job[r][i].src
        /\ \A i \in JobId : i # cur[r] => job'[r][i] = job[r][i]
    BY <1>5, <2>1, StatusTyped DEF StartRun
  <2>3. \A s \in Connector : /\ LiveJobs(r, s) \subseteq LiveJobs(r, s)'
                          /\ Chained(r, s)' \subseteq Chained(r, s)
                          /\ Between(r, s)' = Between(r, s)
    BY <2>1, <2>2 DEF LiveJobs, Chained, StillRuns, Between
  <2>. QED
    BY <1>1, <2>1, <2>2, <2>3, ChainsKept DEF InStep
<1>6. CASE Release(r)
  <2>1. /\ job' = job /\ snapshot' = snapshot
        /\ stage[r] = "rescheduled" /\ stage'[r] = "idle"
    BY <1>6 DEF Release, JobsTypeOK
  <2>2. \A s \in Connector : /\ LiveJobs(r, s)' = LiveJobs(r, s)
                          /\ Chained(r, s)' \subseteq Chained(r, s)
                          /\ Between(r, s)' = Between(r, s)
    BY <2>1 DEF LiveJobs, Chained, StillRuns, Between
  <2>. QED
    BY <1>1, <2>1, <2>2, ChainsKept DEF InStep
<1>7. ASSUME NEW j \in JobId, ComesDue(r, j)
      PROVE  InStep(r)' /\ Balanced(r)'
  BY <1>7, ReplicaKept DEF ComesDue, history
<1>. QED
  BY <1>2, <1>3, <1>4, <1>5, <1>6, <1>7

\* The end of a run ends a live job, and owes the next one of its chain.
LEMMA EndBalanced ==
  ASSUME JobsTypeOK, NEW r \in Replica, InStep(r), Balanced(r), EndRun(r)
  PROVE  InStep(r)' /\ Balanced(r)'
<1>1. /\ stage[r] = "running" /\ stage'[r] = "ended" /\ cur' = cur
      /\ snapshot' = snapshot /\ cur[r] \in JobId /\ job[r][cur[r]].st = "running"
      /\ extra' = extra /\ cancelled' = cancelled /\ cur[r] \notin snapshot[r]
  BY CurTyped DEF EndRun, JobsTypeOK, InStep, history
<1>2. /\ job'[r][cur[r]].st = "free"
      /\ \A i \in JobId : job'[r][i].src = job[r][i].src
      /\ \A i \in JobId : i # cur[r] => job'[r][i] = job[r][i]
  BY <1>1, StatusTyped DEF EndRun
<1>3. InStep(r)'
  BY <1>1, <1>2 DEF InStep
<1>4. ASSUME NEW s \in Connector
      PROVE  /\ Cardinality(LiveJobs(r, s)') + Between(r, s)'
                  = Cardinality(LiveJobs(r, s)) + Between(r, s)
             /\ Cardinality(Chained(r, s)') + Between(r, s)'
                  = Cardinality(Chained(r, s)) + Between(r, s)
  <2>0. Between(r, s) = 0
    BY <1>1 DEF Between
  <2>1. CASE SourceOf(r) = s
    <3>1. /\ LiveJobs(r, s)' = LiveJobs(r, s) \ {cur[r]} /\ cur[r] \in LiveJobs(r, s)
          /\ Chained(r, s)' = Chained(r, s) \ {cur[r]} /\ cur[r] \in Chained(r, s)
      BY <1>1, <1>2, <2>1 DEF LiveJobs, Chained, StillRuns, SourceOf
    <3>2. Between(r, s)' = 1
      BY <1>1, <1>2, <2>1 DEF Between, SourceOf
    <3>3. /\ IsFiniteSet(LiveJobs(r, s)) /\ IsFiniteSet(Chained(r, s))
          /\ Cardinality(LiveJobs(r, s)) \in Nat /\ Cardinality(Chained(r, s)) \in Nat
      BY ChainsCounted
    <3>4. Cardinality(LiveJobs(r, s)') = Cardinality(LiveJobs(r, s)) - 1
      BY <3>1, <3>3, FS_RemoveElement
    <3>5. Cardinality(Chained(r, s)') = Cardinality(Chained(r, s)) - 1
      BY <3>1, <3>3, FS_RemoveElement
    <3>. QED
      BY <2>0, <3>2, <3>3, <3>4, <3>5
  <2>2. CASE SourceOf(r) # s
    <3>1. /\ LiveJobs(r, s)' = LiveJobs(r, s) /\ Chained(r, s)' = Chained(r, s)
      BY <1>1, <1>2, <2>2 DEF LiveJobs, Chained, StillRuns, SourceOf
    <3>2. Between(r, s)' = 0
      BY <1>1, <1>2, <2>2 DEF Between, SourceOf
    <3>. QED
      BY <2>0, <3>1, <3>2
  <2>. QED
    BY <2>1, <2>2
<1>5. Balanced(r)'
  <2>. SUFFICES ASSUME NEW s \in Connector
                PROVE  /\ Cardinality(LiveJobs(r, s)') + Between(r, s)' + cancelled[r][s]
                            >= 1 + extra[r][s]
                       /\ Cardinality(Chained(r, s)') + Between(r, s)' <= 1 + extra[r][s]
    BY <1>1 DEF Balanced
  <2>. QED
    BY <1>4 DEF Balanced
<1>. QED
  BY <1>3, <1>5

\* ScheduleSource adds one live job to its source, and nothing to another:
\* the id it takes was of no chain.
LEMMA SchedulingCounted ==
  ASSUME JobsTypeOK, NEW r \in Replica, NEW s \in Connector, NEW isDue \in BOOLEAN,
         ScheduleSource(r, s, isDue), snapshot' = snapshot, cur' = cur,
         stage'[r] = "locked" <=> stage[r] = "locked",
         NEW t \in Connector
  PROVE  LET one == IF t = s THEN 1 ELSE 0
         IN  /\ Cardinality(LiveJobs(r, t)') = Cardinality(LiveJobs(r, t)) + one
             /\ Cardinality(Chained(r, t)') = Cardinality(Chained(r, t)) + one
<1>1. PICK j \in JobId \ (snapshot[r] \cup {cur[r]}) :
        /\ job[r][j].st \in {"free", "skipped"}
        /\ job' = [job EXCEPT ![r][j] = [st |-> "pending", src |-> s]]
  BY DEF ScheduleSource
<1>2. /\ job'[r][j] = [st |-> "pending", src |-> s]
      /\ \A i \in JobId : i # j => job'[r][i] = job[r][i]
  BY <1>1 DEF JobsTypeOK
<1>3. j \notin LiveJobs(r, t) /\ j \notin Chained(r, t)
  BY <1>1 DEF LiveJobs, Chained, StillRuns
<1>4. CASE t = s
  <2>1. /\ LiveJobs(r, t)' = LiveJobs(r, t) \cup {j}
        /\ Chained(r, t)' = Chained(r, t) \cup {j}
    BY <1>1, <1>2, <1>4 DEF LiveJobs, Chained, StillRuns
  <2>2. /\ Cardinality(LiveJobs(r, t)') = Cardinality(LiveJobs(r, t)) + 1
        /\ Cardinality(Chained(r, t)') = Cardinality(Chained(r, t)) + 1
    BY <1>3, <2>1, ChainsCounted, FS_AddElement
  <2>. QED
    BY <1>4, <2>2
<1>5. CASE t # s
  <2>1. /\ LiveJobs(r, t)' = LiveJobs(r, t) /\ Chained(r, t)' = Chained(r, t)
    BY <1>1, <1>2, <1>3, <1>5 DEF LiveJobs, Chained, StillRuns
  <2>2. Cardinality(LiveJobs(r, t)) \in Nat /\ Cardinality(Chained(r, t)) \in Nat
    BY ChainsCounted
  <2>. QED
    BY <1>5, <2>1, <2>2
<1>. QED
  BY <1>4, <1>5

\* The next job of the chain takes the place of the one that has run.
LEMMA RescheduleBalanced ==
  ASSUME JobsTypeOK, NEW r \in Replica, InStep(r), Balanced(r), Reschedule(r)
  PROVE  InStep(r)' /\ Balanced(r)'
<1>1. /\ stage[r] = "ended" /\ stage'[r] = "rescheduled" /\ cur' = cur
      /\ snapshot' = snapshot /\ extra' = extra /\ cancelled' = cancelled
      /\ SourceOf(r) \in Connector /\ ScheduleSource(r, SourceOf(r), FALSE)
  BY CurTyped DEF Reschedule, JobsTypeOK, history
<1>2. job'[r][cur[r]] = job[r][cur[r]]
  BY <1>1, SchedulingTyped
<1>3. InStep(r)'
  BY <1>1, <1>2 DEF InStep
<1>4. Balanced(r)'
  <2>. SUFFICES ASSUME NEW s \in Connector
                PROVE  /\ Cardinality(LiveJobs(r, s)') + Between(r, s)' + cancelled[r][s]
                            >= 1 + extra[r][s]
                       /\ Cardinality(Chained(r, s)') + Between(r, s)' <= 1 + extra[r][s]
    BY <1>1 DEF Balanced
  <2>. DEFINE one == IF s = SourceOf(r) THEN 1 ELSE 0
  <2>1. /\ Cardinality(LiveJobs(r, s)') = Cardinality(LiveJobs(r, s)) + one
        /\ Cardinality(Chained(r, s)') = Cardinality(Chained(r, s)) + one
    BY <1>1, SchedulingCounted
  <2>2. Between(r, s)' = 0 /\ Between(r, s) = one
    BY <1>1 DEF Between
  <2>3. /\ Cardinality(LiveJobs(r, s)) \in Nat /\ Cardinality(Chained(r, s)) \in Nat
        /\ cancelled[r][s] \in Nat /\ extra[r][s] \in Nat
    BY ChainsCounted DEF JobsTypeOK
  <2>4. /\ Cardinality(LiveJobs(r, s)) + Between(r, s) + cancelled[r][s] >= 1 + extra[r][s]
        /\ Cardinality(Chained(r, s)) + Between(r, s) <= 1 + extra[r][s]
    BY DEF Balanced
  <2>. QED
    BY <2>1, <2>2, <2>3, <2>4
<1>. QED
  BY <1>3, <1>4

\* ScheduleNow adds a chain, and counts it.
LEMMA ScheduleNowBalanced ==
  ASSUME JobsTypeOK, NEW r \in Replica, InStep(r), Balanced(r),
         NEW t \in Connector, ScheduleNow(r, t)
  PROVE  InStep(r)' /\ Balanced(r)'
<1>1. /\ stage' = stage /\ cur' = cur /\ snapshot' = snapshot /\ cancelled' = cancelled
      /\ extra' = [extra EXCEPT ![r][t] = @ + 1] /\ ScheduleSource(r, t, TRUE)
  BY DEF ScheduleNow
<1>2. job'[r][cur[r]] = job[r][cur[r]]
  BY <1>1, SchedulingTyped
<1>3. InStep(r)'
  BY <1>1, <1>2 DEF InStep
<1>4. Balanced(r)'
  <2>. SUFFICES ASSUME NEW s \in Connector
                PROVE  /\ Cardinality(LiveJobs(r, s)') + Between(r, s)' + cancelled[r][s]
                            >= 1 + extra'[r][s]
                       /\ Cardinality(Chained(r, s)') + Between(r, s)' <= 1 + extra'[r][s]
    BY <1>1 DEF Balanced
  <2>. DEFINE one == IF s = t THEN 1 ELSE 0
  <2>1. /\ Cardinality(LiveJobs(r, s)') = Cardinality(LiveJobs(r, s)) + one
        /\ Cardinality(Chained(r, s)') = Cardinality(Chained(r, s)) + one
    BY <1>1, SchedulingCounted
  <2>2. Between(r, s)' = Between(r, s) /\ Between(r, s) \in Nat
    BY <1>1, <1>2 DEF Between, SourceOf
  <2>3. extra'[r][s] = extra[r][s] + one
    BY <1>1 DEF JobsTypeOK
  <2>4. /\ Cardinality(LiveJobs(r, s)) \in Nat /\ Cardinality(Chained(r, s)) \in Nat
        /\ cancelled[r][s] \in Nat /\ extra[r][s] \in Nat
    BY ChainsCounted DEF JobsTypeOK
  <2>5. /\ Cardinality(LiveJobs(r, s)) + Between(r, s) + cancelled[r][s] >= 1 + extra[r][s]
        /\ Cardinality(Chained(r, s)) + Between(r, s) <= 1 + extra[r][s]
    BY DEF Balanced
  <2>. QED
    BY <2>1, <2>2, <2>3, <2>4, <2>5
<1>. QED
  BY <1>3, <1>4

\* A job that is cancelled may end its chain, and is counted.
LEMMA CancelBalanced ==
  ASSUME JobsTypeOK, NEW r \in Replica, InStep(r), Balanced(r),
         NEW j \in JobId, CancelJob(r, j)
  PROVE  InStep(r)' /\ Balanced(r)'
<1>1. /\ stage' = stage /\ cur' = cur /\ snapshot' = snapshot /\ extra' = extra
      /\ cancelled' = [cancelled EXCEPT ![r][job[r][j].src] = @ + 1]
      /\ job[r][j].st = "pending" /\ job[r][j].src \in Connector
  BY DEF CancelJob, JobsTypeOK, Job
<1>2. /\ job'[r][j].st = "skipped"
      /\ \A i \in JobId : job'[r][i].src = job[r][i].src
      /\ \A i \in JobId : i # j => job'[r][i] = job[r][i]
  BY StatusTyped DEF CancelJob
<1>3. InStep(r)'
  <2>1. stage[r] # "idle" => cur[r] \in JobId
    BY CurTyped
  <2>. QED
    BY <1>1, <1>2, <2>1 DEF InStep
<1>4. Balanced(r)'
  <2>. SUFFICES ASSUME NEW s \in Connector
                PROVE  /\ Cardinality(LiveJobs(r, s)') + Between(r, s)' + cancelled'[r][s]
                            >= 1 + extra[r][s]
                       /\ Cardinality(Chained(r, s)') + Between(r, s)' <= 1 + extra[r][s]
    BY <1>1 DEF Balanced
  <2>1. Between(r, s)' = Between(r, s) /\ Between(r, s) \in Nat
    <3>1. stage[r] = "ended" => cur[r] \in JobId
      BY CurTyped
    <3>. QED
      BY <1>1, <1>2, <3>1 DEF Between, SourceOf
  <2>2. Chained(r, s)' \subseteq Chained(r, s)
    BY <1>1, <1>2 DEF LiveJobs, Chained, StillRuns
  <2>3. /\ Cardinality(Chained(r, s)') \in Nat
        /\ Cardinality(Chained(r, s)') <= Cardinality(Chained(r, s))
    BY <2>2, ChainsCounted, JobsCounted
  <2>4. /\ Cardinality(LiveJobs(r, s)) \in Nat /\ Cardinality(Chained(r, s)) \in Nat
        /\ cancelled[r][s] \in Nat /\ extra[r][s] \in Nat
    BY ChainsCounted DEF JobsTypeOK
  <2>5. /\ Cardinality(LiveJobs(r, s)) + Between(r, s) + cancelled[r][s] >= 1 + extra[r][s]
        /\ Cardinality(Chained(r, s)) + Between(r, s) <= 1 + extra[r][s]
    BY DEF Balanced
  <2>6. CASE s = job[r][j].src
    <3>1. j \in LiveJobs(r, s) /\ LiveJobs(r, s)' = LiveJobs(r, s) \ {j}
      BY <1>1, <1>2, <2>6 DEF LiveJobs
    <3>2. Cardinality(LiveJobs(r, s)') = Cardinality(LiveJobs(r, s)) - 1
      BY <3>1, ChainsCounted, FS_RemoveElement
    <3>3. cancelled'[r][s] = cancelled[r][s] + 1
      BY <1>1, <2>6 DEF JobsTypeOK
    <3>. QED
      BY <2>1, <2>3, <2>4, <2>5, <3>2, <3>3
  <2>7. CASE s # job[r][j].src
    <3>1. LiveJobs(r, s)' = LiveJobs(r, s)
      BY <1>1, <1>2, <2>7 DEF LiveJobs
    <3>2. cancelled'[r][s] = cancelled[r][s]
      BY <1>1, <2>7 DEF JobsTypeOK
    <3>. QED
      BY <2>1, <2>3, <2>4, <2>5, <3>1, <3>2
  <2>. QED
    BY <2>6, <2>7
<1>. QED
  BY <1>3, <1>4

\* A fresh table has one job of each source, and no caller has been there.
Fresh(r) ==
  /\ job[r] \in Scheduled /\ snapshot[r] = {} /\ stage[r] = "idle"
  /\ extra[r] = None /\ cancelled[r] = None

LEMMA FreshBalanced == \A r \in Replica : Fresh(r) => InStep(r) /\ Balanced(r)
<1>. SUFFICES ASSUME NEW r \in Replica, Fresh(r)
              PROVE  InStep(r) /\ Balanced(r)
  OBVIOUS
<1>. USE DEF Fresh
<1>1. InStep(r)
  BY DEF InStep
<1>2. ASSUME NEW s \in Connector
      PROVE  /\ Cardinality(LiveJobs(r, s)) = 1 /\ Cardinality(Chained(r, s)) = 1
             /\ Between(r, s) = 0 /\ extra[r][s] = 0 /\ cancelled[r][s] = 0
  <2>. DEFINE first == {j \in JobId : job[r][j] = [st |-> "pending", src |-> s]}
  <2>1. /\ job[r] \in [JobId -> Job] /\ Cardinality(first) = 1
        /\ \A j \in JobId : job[r][j].st \in {"pending", "free"}
    BY DEF Scheduled
  <2>2. \A j \in JobId : job[r][j] = [st |-> job[r][j].st, src |-> job[r][j].src]
    BY <2>1 DEF Job
  <2>3. LiveJobs(r, s) = first /\ Chained(r, s) = first
    BY <2>1, <2>2 DEF LiveJobs, Chained
  <2>4. Between(r, s) = 0 /\ extra[r][s] = 0 /\ cancelled[r][s] = 0
    BY DEF Between, None
  <2>. QED
    BY <2>1, <2>3, <2>4
<1>. QED
  BY <1>1, <1>2 DEF Balanced

\* The same of the state that a restart leads to.
LEMMA RestartedBalanced == (\A r \in Replica : Fresh(r) => InStep(r) /\ Balanced(r))'
BY FreshBalanced, PTL

LEMMA InitChains == JobsInit => Chains
<1>. SUFFICES ASSUME JobsInit, NEW r \in Replica
              PROVE  InStep(r) /\ Balanced(r)
  BY DEF Chains
<1>1. Fresh(r)
  BY DEF JobsInit, Fresh
<1>. QED
  BY <1>1, FreshBalanced

\* Every chain is accounted for after every step.
LEMMA ChainsStep ==
  ASSUME JobsTypeOK, Chains, [JobsNext]_jobsVars
  PROVE  Chains'
<1>. SUFFICES ASSUME NEW q \in Replica
              PROVE  InStep(q)' /\ Balanced(q)'
  BY DEF Chains
<1>0. InStep(q) /\ Balanced(q)
  BY DEF Chains
<1>1. ASSUME NEW r \in Replica, Work(r)
      PROVE  InStep(q)' /\ Balanced(q)'
  <2>1. CASE q = r
    BY <1>0, <1>1, <2>1, QuietBalanced, EndBalanced, RescheduleBalanced
       DEF Work
  <2>2. CASE q # r
    <3>1. /\ job'[q] = job[q] /\ snapshot'[q] = snapshot[q] /\ cur'[q] = cur[q]
          /\ stage'[q] = stage[q] /\ extra' = extra /\ cancelled' = cancelled
      BY <1>1, <2>2
         DEF Work, ProcessJobs, Acquire, AcquireFails, Attempt, StartRun, EndRun,
             Reschedule, Release, ScheduleSource, SetStatus, history, JobsTypeOK
    <3>. QED
      BY <1>0, <3>1, ReplicaKept
  <2>. QED
    BY <2>1, <2>2
<1>2. ASSUME NEW r \in Replica, Crash(r)
      PROVE  InStep(q)' /\ Balanced(q)'
  <2>1. CASE q = r
    <3>1. Fresh(q)'
      BY <1>2, <2>1 DEF Crash, JobsTypeOK, Fresh
    <3>. QED
      BY <3>1, RestartedBalanced
  <2>2. CASE q # r
    <3>1. /\ job'[q] = job[q] /\ snapshot'[q] = snapshot[q] /\ cur'[q] = cur[q]
          /\ stage'[q] = stage[q] /\ extra'[q] = extra[q] /\ cancelled'[q] = cancelled[q]
      BY <1>2, <2>2 DEF Crash, JobsTypeOK
    <3>. QED
      BY <1>0, <3>1, ReplicaKept
  <2>. QED
    BY <2>1, <2>2
<1>3. ASSUME NEW r \in Replica, NEW s \in Connector, ScheduleNow(r, s)
      PROVE  InStep(q)' /\ Balanced(q)'
  <2>1. CASE q = r
    BY <1>0, <1>3, <2>1, ScheduleNowBalanced
  <2>2. CASE q # r
    <3>1. /\ job'[q] = job[q] /\ snapshot'[q] = snapshot[q] /\ cur'[q] = cur[q]
          /\ stage'[q] = stage[q] /\ extra'[q] = extra[q] /\ cancelled'[q] = cancelled[q]
      BY <1>3, <2>2 DEF ScheduleNow, ScheduleSource, JobsTypeOK
    <3>. QED
      BY <1>0, <3>1, ReplicaKept
  <2>. QED
    BY <2>1, <2>2
<1>4. ASSUME NEW r \in Replica, NEW j \in JobId, CancelJob(r, j)
      PROVE  InStep(q)' /\ Balanced(q)'
  <2>1. CASE q = r
    BY <1>0, <1>4, <2>1, CancelBalanced
  <2>2. CASE q # r
    <3>1. /\ job'[q] = job[q] /\ snapshot'[q] = snapshot[q] /\ cur'[q] = cur[q]
          /\ stage'[q] = stage[q] /\ extra'[q] = extra[q] /\ cancelled'[q] = cancelled[q]
      BY <1>4, <2>2 DEF CancelJob, SetStatus, JobsTypeOK
    <3>. QED
      BY <1>0, <3>1, ReplicaKept
  <2>. QED
    BY <2>1, <2>2
<1>5. ASSUME \/ \E r \in Replica, j \in JobId : ComesDue(r, j)
             \/ \E s \in Connector : Expire(s)
             \/ UNCHANGED jobsVars
      PROVE  InStep(q)' /\ Balanced(q)'
  BY <1>0, <1>5, ReplicaKept DEF ComesDue, Expire, jobsVars, history
<1>. QED
  BY <1>1, <1>2, <1>3, <1>4, <1>5 DEF JobsNext

(***************************************************************************)
(* Every source keeps its chain of jobs, and one for each ScheduleNow,     *)
(* unless jobs are cancelled; no failure or crash adds or loses one.       *)
(***************************************************************************)
THEOREM ChainsAreAlwaysConserved == JobsSpec => []ChainsAreConserved
<1>1. JobsTypeOK /\ Chains => ChainsAreConserved
  <2>. SUFFICES ASSUME JobsTypeOK, Chains, NEW r \in Replica, NEW s \in Connector
                PROVE  /\ Live(r, s) >= 1 + extra[r][s] - cancelled[r][s]
                       /\ Live(r, s) <= 1 + extra[r][s]
    BY DEF ChainsAreConserved
  <2>1. Live(r, s) = Cardinality(LiveJobs(r, s)) + Between(r, s)
    BY DEF Live, LiveJobs, Between
  <2>2. /\ Cardinality(LiveJobs(r, s)) + Between(r, s) + cancelled[r][s] >= 1 + extra[r][s]
        /\ Cardinality(Chained(r, s)) + Between(r, s) <= 1 + extra[r][s]
    BY DEF Chains, Balanced
  <2>3. /\ Cardinality(LiveJobs(r, s)) \in Nat /\ Cardinality(Chained(r, s)) \in Nat
        /\ Cardinality(LiveJobs(r, s)) <= Cardinality(Chained(r, s))
    BY ChainsCounted
  <2>4. Between(r, s) \in Nat /\ cancelled[r][s] \in Nat /\ extra[r][s] \in Nat
    BY DEF Between, JobsTypeOK
  <2>. QED
    BY <2>1, <2>2, <2>3, <2>4
<1>2. JobsTypeOK /\ Chains /\ [JobsNext]_jobsVars => Chains'
  BY ChainsStep
<1>. QED
  BY InitChains, JobsTypeCorrect, <1>1, <1>2, PTL DEF JobsSpec

-----------------------------------------------------------------------------
(***************************************************************************)
(* The lease of the workers.                                               *)
(***************************************************************************)
LEMMA InitLeaseTyped == LeaseInit => LeaseTypeOK
BY LeaseAssumption DEF LeaseAssumption, LeaseInit, LeaseTypeOK

LEMMA StepLeaseTyped == LeaseTypeOK /\ [LeaseNext]_leaseVars => LeaseTypeOK'
<1>. SUFFICES ASSUME LeaseTypeOK, [LeaseNext]_leaseVars
              PROVE  LeaseTypeOK'
  OBVIOUS
<1>. USE LeaseAssumption DEF LeaseAssumption, LeaseTypeOK
<1>1. ASSUME NEW w \in Worker, AcquireLease(w)
      PROVE  LeaseTypeOK'
  BY <1>1 DEF AcquireLease
<1>2. ASSUME NEW w \in Worker, AcquireLost(w)
      PROVE  LeaseTypeOK'
  BY <1>2 DEF AcquireLost, CallFails
<1>3. ASSUME NEW w \in Worker, Complete(w)
      PROVE  LeaseTypeOK'
  BY <1>3 DEF Complete
<1>4. ASSUME NEW w \in Worker, ReleaseLease(w)
      PROVE  LeaseTypeOK'
  BY <1>4 DEF ReleaseLease, CallFails
<1>5. ASSUME NEW w \in Worker, Refresh(w)
      PROVE  LeaseTypeOK'
  BY <1>5 DEF Refresh, ExpireKey
<1>6. ASSUME NEW w \in Worker, DropRefresh(w)
      PROVE  LeaseTypeOK'
  BY <1>6 DEF DropRefresh
<1>7. ASSUME NEW w \in Worker, ShutDown(w)
      PROVE  LeaseTypeOK'
  BY <1>7 DEF ShutDown
<1>8. ASSUME NEW w \in Worker, Exit(w) \/ WorkerCrash(w)
      PROVE  LeaseTypeOK'
  <2>1. /\ st' \in [Worker -> {"waiting", "running", "releasing"}]
        /\ shutdown' \in [Worker -> BOOLEAN]
        /\ refresher' \in [Worker -> BOOLEAN]
        /\ refreshDue' \in [Worker -> BOOLEAN]
        /\ misses' \in [Worker -> 0 .. MaxMisses]
    <3>1. StartAgain(w)
      BY <1>8 DEF Exit, WorkerCrash
    <3>2. 0 \in 0 .. MaxMisses
      OBVIOUS
    <3>. QED
      BY <3>1, <3>2 DEF StartAgain
  <2>2. workerCrashes' \in 0 .. MaxWorkerCrashes
    BY <1>8 DEF Exit, WorkerCrash
  <2>. QED
    BY <1>8, <2>1, <2>2 DEF Exit, WorkerCrash
<1>9. CASE Tick
  BY <1>9 DEF Tick
<1>10. CASE UNCHANGED leaseVars
  BY <1>10 DEF leaseVars
<1>. QED
  BY <1>1, <1>2, <1>3, <1>4, <1>5, <1>6, <1>7, <1>8, <1>9, <1>10
     DEF LeaseNext, Settle

\* The time left to the key never exceeds LockTTL, and no more refreshes
\* than MaxMisses ever fail in a row.
THEOREM LeaseTypeCorrect == LeaseSpec => []LeaseTypeOK
BY InitLeaseTyped, StepLeaseTyped, PTL DEF LeaseSpec

-----------------------------------------------------------------------------
(***************************************************************************)
(* Why the lease excludes: at most one worker is past its acquisition, it  *)
(* has the key, and unless it is about to stop, a goroutine refreshes it.  *)
(***************************************************************************)
AtWork(w)     == st[w] # "waiting"
WorkerIsAlone == \A v, w \in Worker : AtWork(v) /\ AtWork(w) => v = w
RunIsRefreshed ==
  \A w \in Worker : st[w] = "running" /\ ~shutdown[w] => refresher[w]

Leased == LeaseTypeOK /\ WorkerIsAlone /\ RunIsRefreshed /\ LeaseIsCovered

LEMMA InitLeased == LeaseInit => Leased
BY InitLeaseTyped
   DEF LeaseInit, Leased, WorkerIsAlone, RunIsRefreshed, LeaseIsCovered, AtWork

\* There is always a period left when the last refresh that may fail is due.
LEMMA BudgetIsPositive ==
  ASSUME LeaseTypeOK, NEW w \in Worker
  PROVE  Budget(w) > 0 /\ Budget(w) <= LockTTL
BY LeaseAssumption DEF LeaseAssumption, LeaseTypeOK, Budget

LEMMA StepLeased == Leased /\ [LeaseNext]_leaseVars => Leased'
<1>. SUFFICES ASSUME Leased, [LeaseNext]_leaseVars
              PROVE  Leased'
  OBVIOUS
<1>. USE DEF Leased
<1>1. LeaseTypeOK /\ LeaseTypeOK'
  BY StepLeaseTyped
<1>2. ASSUME NEW w \in Worker, AcquireLease(w)
      PROVE  Leased'
  <2>1. \A v \in Worker : ~AtWork(v)
    BY <1>2 DEF AcquireLease, LeaseIsCovered, AtWork
  <2>2. \A v \in Worker : AtWork(v)' => v = w
    BY <1>1, <1>2, <2>1 DEF LeaseTypeOK, AcquireLease, AtWork
  <2>3. refresher'[w] /\ ttl' = LockTTL
    BY <1>1, <1>2 DEF LeaseTypeOK, AcquireLease
  <2>4. Budget(w)' > 0 /\ Budget(w)' <= LockTTL
    BY <1>1, BudgetIsPositive, LeaseAssumption
       DEF LeaseAssumption, LeaseTypeOK, Budget
  <2>5. WorkerIsAlone' /\ RunIsRefreshed'
    BY <2>2, <2>3 DEF WorkerIsAlone, RunIsRefreshed, AtWork
  <2>6. LeaseIsCovered'
    BY <2>2, <2>3, <2>4, LeaseAssumption
       DEF LeaseAssumption, LeaseIsCovered, AtWork
  <2>. QED
    BY <1>1, <2>5, <2>6
<1>3. ASSUME NEW w \in Worker, AcquireLost(w)
      PROVE  Leased'
  <2>1. \A v \in Worker : ~AtWork(v)
    BY <1>3 DEF AcquireLost, LeaseIsCovered, AtWork
  <2>. QED
    BY <1>1, <1>3, <2>1
       DEF AcquireLost, WorkerIsAlone, RunIsRefreshed, LeaseIsCovered, AtWork
<1>4. ASSUME NEW w \in Worker, Complete(w)
      PROVE  Leased'
  <2>1. \A v \in Worker : st'[v] # "waiting" => st[v] # "waiting"
    BY <1>1, <1>4 DEF LeaseTypeOK, Complete
  <2>2. \A v \in Worker : st'[v] = "running" => v # w /\ st[v] = "running"
    BY <1>1, <1>4 DEF LeaseTypeOK, Complete
  <2>3. \A v \in Worker : refresher'[v] <=> refresher[v] /\ v # w
    BY <1>1, <1>4 DEF LeaseTypeOK, Complete
  <2>. QED
    BY <1>1, <1>4, <2>1, <2>2, <2>3
       DEF Complete, WorkerIsAlone, RunIsRefreshed, LeaseIsCovered, Budget, AtWork
<1>5. ASSUME NEW w \in Worker, ReleaseLease(w)
      PROVE  Leased'
  <2>1. \A v \in Worker : ~AtWork(v)'
    BY <1>1, <1>5 DEF LeaseTypeOK, ReleaseLease, WorkerIsAlone, AtWork
  <2>. QED
    BY <1>1, <2>1 DEF WorkerIsAlone, RunIsRefreshed, LeaseIsCovered, AtWork
<1>6. ASSUME NEW w \in Worker, Refresh(w)
      PROVE  Leased'
  <2>1. ttl > 0 => ttl' >= ttl
    BY <1>1, <1>6 DEF LeaseTypeOK, Refresh, ExpireKey
  <2>2. ASSUME NEW v \in Worker, AtWork(v), refresher[v]
        PROVE  ttl' >= Budget(v)'
    <3>1. ttl > 0 /\ ttl >= Budget(v)
      BY <2>2 DEF LeaseIsCovered, AtWork
    <3>2. CASE v # w
      <4>1. refreshDue'[v] = refreshDue[v] /\ misses'[v] = misses[v]
        BY <1>1, <1>6, <3>2 DEF LeaseTypeOK, Refresh
      <4>2. Budget(v)' = Budget(v)
        BY <4>1 DEF Budget
      <4>. QED
        BY <1>1, <2>1, <3>1, <4>2, BudgetIsPositive, LeaseAssumption
           DEF LeaseAssumption, LeaseTypeOK, Budget
    <3>3. CASE v = w /\ ExpireKey
      BY <1>1, <3>1, <3>3, LeaseAssumption
         DEF LeaseAssumption, LeaseTypeOK, ExpireKey, Budget
    <3>4. CASE v = w /\ ttl' = ttl /\ misses' = [misses EXCEPT ![w] = @ + 1]
      <4>1. refreshDue[v] /\ ~refreshDue'[v]
        BY <1>1, <1>6, <3>4 DEF LeaseTypeOK, Refresh
      <4>2. Budget(v) = LockTTL - misses[v] - 1 /\ Budget(v)' = LockTTL - misses'[v] - 0
        BY <4>1 DEF Budget
      <4>3. misses'[v] = misses[v] + 1 /\ misses[v] \in Nat
        BY <1>1, <3>4, LeaseAssumption DEF LeaseAssumption, LeaseTypeOK
      <4>. QED
        BY <1>1, <3>1, <3>4, <4>2, <4>3, LeaseAssumption
           DEF LeaseAssumption, LeaseTypeOK
    <3>. QED
      BY <1>6, <3>2, <3>3, <3>4 DEF Refresh
  <2>. QED
    BY <1>1, <1>6, <2>1, <2>2
       DEF LeaseTypeOK, Refresh, WorkerIsAlone, RunIsRefreshed, LeaseIsCovered, AtWork
<1>7. ASSUME NEW w \in Worker, DropRefresh(w)
      PROVE  Leased'
  <2>1. \A v \in Worker : refresher[v] => Budget(v)' = Budget(v)
    BY <1>1, <1>7 DEF LeaseTypeOK, DropRefresh, Budget
  <2>. QED
    BY <1>1, <1>7, <2>1
       DEF DropRefresh, WorkerIsAlone, RunIsRefreshed, LeaseIsCovered, AtWork
<1>8. ASSUME NEW w \in Worker, ShutDown(w)
      PROVE  Leased'
  <2>1. \A v \in Worker : /\ refresher'[v] <=> refresher[v] /\ v # w
                          /\ shutdown'[v] <=> shutdown[v] \/ v = w
    BY <1>1, <1>8 DEF LeaseTypeOK, ShutDown
  <2>. QED
    BY <1>1, <1>8, <2>1
       DEF ShutDown, WorkerIsAlone, RunIsRefreshed, LeaseIsCovered, Budget, AtWork
<1>9. ASSUME NEW w \in Worker, Exit(w) \/ WorkerCrash(w)
      PROVE  Leased'
  <2>1. ttl' = ttl /\ StartAgain(w)
    BY <1>9 DEF Exit, WorkerCrash
  <2>2. \A v \in Worker : AtWork(v)' => v # w /\ AtWork(v)
    BY <1>1, <2>1 DEF LeaseTypeOK, StartAgain, AtWork
  <2>3. \A v \in Worker : v # w => /\ st'[v] = st[v] /\ shutdown'[v] = shutdown[v]
                                   /\ refresher'[v] = refresher[v]
                                   /\ Budget(v)' = Budget(v)
    BY <1>1, <2>1 DEF LeaseTypeOK, StartAgain, Budget
  <2>. QED
    BY <1>1, <2>1, <2>2, <2>3
       DEF WorkerIsAlone, RunIsRefreshed, LeaseIsCovered, AtWork
<1>10. CASE Tick
  <2>1. ASSUME NEW v \in Worker, AtWork(v)
        PROVE  ttl' > 0 /\ ttl' >= Budget(v)'
    <3>1. refresher[v] /\ ~refreshDue[v] /\ st[v] = "running"
      BY <1>1, <1>10, <2>1 DEF LeaseTypeOK, Tick, RunIsRefreshed, AtWork
    <3>2. ttl >= LockTTL - misses[v] /\ ttl' = ttl - 1
      <4>1. ttl > 0 /\ ttl >= Budget(v)
        BY <2>1, <3>1 DEF LeaseIsCovered, AtWork
      <4>2. Budget(v) = LockTTL - misses[v] - 0
        BY <3>1 DEF Budget
      <4>3. ttl' = ttl - 1
        BY <1>10, <4>1 DEF Tick
      <4>. QED
        BY <1>1, <4>1, <4>2, <4>3, LeaseAssumption
           DEF LeaseAssumption, LeaseTypeOK
    <3>3. Budget(v)' = LockTTL - misses[v] - 1
      BY <1>1, <1>10, <3>1 DEF LeaseTypeOK, Tick, Budget
    <3>. QED
      BY <1>1, <3>2, <3>3, LeaseAssumption DEF LeaseAssumption, LeaseTypeOK
  <2>. QED
    BY <1>1, <1>10, <2>1
       DEF Tick, WorkerIsAlone, RunIsRefreshed, LeaseIsCovered, AtWork
<1>11. CASE UNCHANGED leaseVars
  BY <1>1, <1>11
     DEF leaseVars, WorkerIsAlone, RunIsRefreshed, LeaseIsCovered, Budget, AtWork
<1>. QED
  BY <1>2, <1>3, <1>4, <1>5, <1>6, <1>7, <1>8, <1>9, <1>10, <1>11
     DEF LeaseNext, Settle

LEMMA AlwaysLeased == LeaseSpec => []Leased
BY InitLeased, StepLeased, PTL DEF LeaseSpec

(***************************************************************************)
(* The lease of the workers excludes although the key carries no owner:    *)
(* "another worker is running, skipping" (main.go:204).                    *)
(***************************************************************************)
THEOREM WorkersExcludeEachOther == LeaseSpec => []MutualExclusion
<1>1. Leased => MutualExclusion
  BY DEF Leased, WorkerIsAlone, AtWork, MutualExclusion
<1>. QED
  BY <1>1, AlwaysLeased, PTL

(***************************************************************************)
(* From acquisition to release a worker has the key, with at least as much *)
(* time left as the refreshes that may still fail.                         *)
(***************************************************************************)
THEOREM LeaseIsAlwaysCovered == LeaseSpec => []LeaseIsCovered
<1>1. Leased => LeaseIsCovered
  BY DEF Leased
<1>. QED
  BY <1>1, AlwaysLeased, PTL
=============================================================================
