------------------------ MODULE SessionRefreshProofs ------------------------
(***************************************************************************)
(* Proofs about SessionRefresh, for any number of clients, requests and    *)
(* pairs, and any number of faults, restarts and expiries.                 *)
(***************************************************************************)
EXTENDS SessionRefresh, FiniteSetTheorems, FunctionTheorems, TLAPS

-----------------------------------------------------------------------------
(***************************************************************************)
(* Types.                                                                  *)
(***************************************************************************)
Exchanging == {"refreshing", "saving", "savingRefresh"}
Clearing == {"clearing", "clearingRefresh"}

\* The pair that r's refresh call was answered is on its way into the memory
\* of the client and the shared preferences.
Arrived(r) ==
  \/ call[r].phase = "refreshing" /\ call[r].answer = "ok"
  \/ call[r].phase \in {"saving", "savingRefresh"}

\* What is carried about has been issued.
KnownMemory ==
  /\ refresh \in [Client -> 0 .. pairs \cup {None}]
  /\ stored.refresh \in 0 .. pairs \cup {None}

KnownCalls ==
  \A r \in Request :
    /\ call[r].phase \in Exchanging => call[r].key \in 0 .. pairs
    /\ Arrived(r) => call[r].pair \in 0 .. pairs

KnownHandlers ==
  \A r \in Request :
    /\ handler[r].at # "idle" => handler[r].key \in 0 .. pairs
    /\ At(r, "issued") => handler[r].pair \in 0 .. pairs

Known == KnownMemory /\ KnownCalls /\ KnownHandlers

Working == [at : {"called", "found", "unlinked", "revoked", "issued"},
            key : Pair, pair : Pair \cup {None}]

CallsOK == call \in [Request -> Call]
HandlersOK == handler \in [Request -> {Free} \cup Working]
RedisOK == tokens \subseteq Pair /\ refreshes \subseteq Pair /\ pairs \in Pair
MemoryOK ==
  /\ access \in [Client -> Pair \cup {None}] /\ refresh \in [Client -> Pair \cup {None}]
  /\ isRefreshing \in [Client -> BOOLEAN] /\ queue \in [Client -> SUBSET Request]
StoredOK == stored \in [access : Pair \cup {None}, refresh : Pair \cup {None}]
HistoryOK ==
  /\ expired \subseteq Pair /\ burnt \subseteq Pair /\ stray \subseteq Pair
  /\ spent \in [Pair -> SUBSET Client] /\ left \subseteq Request
BoundsOK ==
  /\ expiries \in 0 .. MaxExpiries
  /\ faults \in Nat /\ restarts \in Nat /\ faults + restarts <= MaxMishaps

LEMMA TypeParts ==
  TypeOK <=> /\ CallsOK /\ HandlersOK /\ RedisOK /\ MemoryOK /\ StoredOK
             /\ HistoryOK /\ BoundsOK
BY DEF TypeOK, CallsOK, HandlersOK, RedisOK, MemoryOK, StoredOK, HistoryOK, BoundsOK,
   Handler, Working

LEMMA TypePartsNext ==
  (CallsOK /\ HandlersOK /\ RedisOK /\ MemoryOK /\ StoredOK /\ HistoryOK /\ BoundsOK)'
    => TypeOK'
BY DEF TypeOK, CallsOK, HandlersOK, RedisOK, MemoryOK, StoredOK, HistoryOK, BoundsOK,
   Handler, Working

Typed == TypeOK /\ Known

LEMMA Given ==
  /\ ClientOf \in [Request -> Client] /\ MaxPairs \in Nat \ {0} /\ MaxRetries \in Nat
  /\ MaxExpiries \in Nat /\ MaxMishaps \in Nat /\ None \notin Pair
  /\ 0 \in Pair /\ 1 \in Pair /\ 0 \in 0 .. MaxRetries
BY SessionAssumption DEF SessionAssumption, Pair

LEMMA InitTyped == Init => Typed
<1>. SUFFICES ASSUME Init PROVE TypeOK /\ Known
  BY DEF Typed
<1>1. PICK k \in {0, 1} :
    /\ tokens = {0, k} /\ refreshes = {k} /\ pairs = k
    /\ access = [c \in Client |-> k] /\ refresh = [c \in Client |-> k]
    /\ stored = [access |-> k, refresh |-> k]
    /\ isRefreshing = [c \in Client |-> FALSE] /\ queue = [c \in Client |-> {}]
    /\ handler = [r \in Request |-> Free]
    /\ call = [r \in Request |-> Blank]
    /\ expired = {} /\ burnt = {} /\ stray = {}
    /\ spent = [p \in Pair |-> {}] /\ left = {}
    /\ expiries = 0 /\ faults = 0 /\ restarts = 0
  BY DEF Init
<1>2. k \in Pair /\ k \in 0 .. pairs
  BY <1>1, Given
<1>3. CallsOK
  BY <1>1, Given DEF CallsOK, Call, Blank, Phase, Ended
<1>4. HandlersOK /\ RedisOK /\ MemoryOK /\ StoredOK /\ HistoryOK /\ BoundsOK
  BY <1>1, <1>2, Given DEF HandlersOK, RedisOK, MemoryOK, StoredOK, HistoryOK, BoundsOK
<1>5. Known
  BY <1>1, <1>2 DEF Known, KnownMemory, KnownCalls, KnownHandlers, Free, Blank, At, Exchanging,
     Arrived
<1>. QED
  BY <1>3, <1>4, <1>5, TypeParts

-----------------------------------------------------------------------------
(***************************************************************************)
(* What each step makes of the request it is about.                        *)
(***************************************************************************)
\* The request r goes to a phase, with or without the lock; the others stay.
Moves(r, phase, leads) ==
  /\ call' \in [Request -> Call]
  /\ \A q \in Request \ {r} : call'[q] = call[q]
  /\ call'[r].phase = phase /\ call'[r].leads = leads

\* What r carries afterwards.
Carries(r, key, pair, answer) ==
  call'[r].key = key /\ call'[r].pair = pair /\ call'[r].answer = answer

LEMMA CallTyped ==
  ASSUME TypeOK, NEW r \in Request
  PROVE  /\ call[r] \in Call /\ call \in [Request -> Call]
         /\ ClientOf[r] \in Client /\ access[ClientOf[r]] \in Pair \cup {None}
         /\ refresh[ClientOf[r]] \in Pair \cup {None}
         /\ handler[r] \in {Free} \cup Working
BY Given DEF TypeOK, Handler, Working

LEMMA RecordsTyped ==
  ASSUME TypeOK, NEW r \in Request, NEW rec \in Call
  PROVE  /\ Sent(r, rec) \in Call /\ Sent(r, rec).phase = "sent"
         /\ Sent(r, rec).leads = rec.leads
         /\ \A phase \in Ended : /\ End(phase) \in Call /\ End(phase).phase = phase
                                 /\ End(phase).leads = FALSE
<1>1. access[ClientOf[r]] \in Pair \cup {None}
  BY CallTyped
<1>2. Sent(r, rec) \in Call /\ Sent(r, rec).phase = "sent" /\ Sent(r, rec).leads = rec.leads
  BY <1>1 DEF Sent, Call, Phase
<1>3. \A phase \in Ended : /\ End(phase) \in Call /\ End(phase).phase = phase
                           /\ End(phase).leads = FALSE
  BY Given DEF End, Blank, Call, Phase, Ended
<1>. QED
  BY <1>2, <1>3

LEMMA TurnsTyped ==
  ASSUME TypeOK, NEW r \in Request, NEW new \in Call,
         call' = [call EXCEPT ![r] = new]
  PROVE  Moves(r, new.phase, new.leads) /\ Carries(r, new.key, new.pair, new.answer)
BY CallTyped DEF Moves, Carries, TypeOK

LEMMA PhaseTyped ==
  ASSUME TypeOK, NEW r \in Request, NEW phase \in Phase
  PROVE  LET new == [call[r] EXCEPT !.phase = phase] IN
         /\ new \in Call /\ new.phase = phase /\ new.leads = call[r].leads
         /\ new.key = call[r].key /\ new.pair = call[r].pair /\ new.answer = call[r].answer
BY CallTyped DEF Call

\* A step that only changes the phase.
LEMMA PhaseMoves ==
  ASSUME TypeOK, NEW r \in Request, NEW phase \in Phase,
         call' = [call EXCEPT ![r].phase = phase]
  PROVE  /\ Moves(r, phase, call[r].leads)
         /\ Carries(r, call[r].key, call[r].pair, call[r].answer)
<1>. DEFINE new == [call[r] EXCEPT !.phase = phase]
<1>1. call' = [call EXCEPT ![r] = new]
  OBVIOUS
<1>2. /\ new \in Call /\ new.phase = phase /\ new.leads = call[r].leads
      /\ new.key = call[r].key /\ new.pair = call[r].pair /\ new.answer = call[r].answer
  BY PhaseTyped
<1>. HIDE DEF new
<1>3. Moves(r, new.phase, new.leads) /\ Carries(r, new.key, new.pair, new.answer)
  BY <1>1, <1>2, TurnsTyped
<1>. QED
  BY <1>2, <1>3

\* A step that ends or repeats the request.
LEMMA SentMoves ==
  ASSUME TypeOK, NEW r \in Request, NEW rec \in Call,
         call' = [call EXCEPT ![r] = Sent(r, rec)]
  PROVE  Moves(r, "sent", rec.leads)
<1>1. Sent(r, rec) \in Call /\ Sent(r, rec).phase = "sent" /\ Sent(r, rec).leads = rec.leads
  BY RecordsTyped
<1>2. Moves(r, Sent(r, rec).phase, Sent(r, rec).leads)
  BY <1>1, TurnsTyped
<1>. QED
  BY <1>1, <1>2

LEMMA EndMoves ==
  ASSUME TypeOK, NEW r \in Request, call' = [call EXCEPT ![r] = End("ended")]
  PROVE  Moves(r, "ended", FALSE)
<1>1. /\ End("ended") \in Call /\ End("ended").phase = "ended"
      /\ End("ended").leads = FALSE
  BY Given DEF End, Blank, Call, Phase, Ended
<1>2. Moves(r, End("ended").phase, End("ended").leads)
  BY <1>1, TurnsTyped
<1>. QED
  BY <1>1, <1>2

\* The steps of a request that is neither being refreshed nor about to be.
LEMMA PlainMoves ==
  ASSUME TypeOK, NEW r \in Request
  PROVE  /\ Send(r) => Moves(r, "sent", call[r].leads)
         /\ Judge(r) \/ JudgeFails(r) => Moves(r, "sent", call[r].leads)
         /\ Retry(r) => Moves(r, "sent", call[r].leads)
         /\ Wait(r) => Moves(r, "queued", call[r].leads)
         /\ Fail(r) => Moves(r, "ended", FALSE)
         /\ RepeatFails(r) => Moves(r, "clearing", call[r].leads)
         /\ RemoveAccess(r) => Moves(r, "clearingRefresh", call[r].leads)
         /\ RemoveRefresh(r) => Moves(r, "ended", FALSE)
<1>0. call[r] \in Call
  BY CallTyped
<1>1. ASSUME Send(r) PROVE Moves(r, "sent", call[r].leads)
  <2>1. call' = [call EXCEPT ![r] = Sent(r, call[r])]
    BY <1>1 DEF Send
  <2>. QED
    BY <1>0, <2>1, SentMoves
<1>2. ASSUME Judge(r) \/ JudgeFails(r) PROVE Moves(r, "sent", call[r].leads)
  <2>1. PICK answer \in {"ok", "denied", "rejected", "error"} :
          call[r].phase = "sent" /\ Answered(r, answer)
    BY <1>2 DEF Judge, JudgeFails, Received
  <2>. DEFINE new == [call[r] EXCEPT !.answer = answer,
                                     !.cred = IF answer = "error" THEN @ ELSE None]
  <2>2. new \in Call /\ new.phase = "sent" /\ new.leads = call[r].leads
    BY <1>0, <2>1 DEF Call
  <2>3. call' = [call EXCEPT ![r] = new]
    BY <2>1, CallTyped DEF Answered
  <2>. HIDE DEF new
  <2>4. Moves(r, new.phase, new.leads)
    BY <2>2, <2>3, TurnsTyped
  <2>. QED
    BY <2>2, <2>4
<1>3. ASSUME Retry(r) PROVE Moves(r, "sent", call[r].leads)
  <2>. DEFINE rec == [call[r] EXCEPT !.tries = @ + 1]
  <2>1. call[r].tries + 1 \in 0 .. MaxRetries
    BY <1>0, <1>3, Given DEF Retry, MayRetry, Call
  <2>2. rec \in Call /\ rec.leads = call[r].leads
    BY <1>0, <2>1 DEF Call
  <2>3. call' = [call EXCEPT ![r] = Sent(r, rec)]
    BY <1>3 DEF Retry
  <2>. HIDE DEF rec
  <2>4. Moves(r, "sent", rec.leads)
    BY <2>2, <2>3, SentMoves
  <2>. QED
    BY <2>2, <2>4
<1>4. ASSUME Wait(r) PROVE Moves(r, "queued", call[r].leads)
  <2>. DEFINE new == [call[r] EXCEPT !.phase = "queued", !.answer = "none"]
  <2>1. new \in Call /\ new.phase = "queued" /\ new.leads = call[r].leads
    BY <1>0 DEF Call, Phase
  <2>2. call' = [call EXCEPT ![r] = new]
    BY <1>4, CallTyped DEF Wait
  <2>. HIDE DEF new
  <2>3. Moves(r, new.phase, new.leads)
    BY <2>1, <2>2, TurnsTyped
  <2>. QED
    BY <2>1, <2>3
<1>5. ASSUME Fail(r) \/ RemoveRefresh(r) PROVE Moves(r, "ended", FALSE)
  BY <1>5, EndMoves DEF Fail, RemoveRefresh, GiveUp
<1>6. ASSUME RepeatFails(r) PROVE Moves(r, "clearing", call[r].leads)
  BY <1>6, PhaseMoves DEF RepeatFails, Phase
<1>7. ASSUME RemoveAccess(r) PROVE Moves(r, "clearingRefresh", call[r].leads)
  BY <1>7, PhaseMoves DEF RemoveAccess, Phase
<1>. QED
  BY <1>1, <1>2, <1>3, <1>4, <1>5, <1>6, <1>7

\* The steps of a refresh, on the client's side.
LEMMA RefreshMoves ==
  ASSUME TypeOK, NEW r \in Request
  PROVE  /\ StartRefresh(r) => /\ Moves(r, "refreshing", TRUE)
                               /\ Carries(r, refresh[ClientOf[r]], call[r].pair, "none")
         /\ TakePair(r) => /\ Moves(r, "saving", call[r].leads)
                           /\ Carries(r, call[r].key, call[r].pair, call[r].answer)
         /\ SaveAccess(r) => /\ Moves(r, "savingRefresh", call[r].leads)
                             /\ Carries(r, call[r].key, call[r].pair, call[r].answer)
         /\ SaveRefresh(r) => Moves(r, "sent", call[r].leads)
         /\ RetryRefresh(r) => /\ Moves(r, "refreshing", call[r].leads)
                               /\ Carries(r, call[r].key, call[r].pair, "none")
         /\ RefreshFails(r) => Moves(r, "ended", FALSE)
<1>0. call[r] \in Call
  BY CallTyped
<1>1. ASSUME StartRefresh(r)
      PROVE  /\ Moves(r, "refreshing", TRUE)
             /\ Carries(r, refresh[ClientOf[r]], call[r].pair, "none")
  <2>. DEFINE new == [call[r] EXCEPT !.phase = "refreshing", !.leads = TRUE,
                                     !.answer = "none", !.key = refresh[ClientOf[r]],
                                     !.refreshTries = 0]
  <2>1. /\ new \in Call /\ new.phase = "refreshing" /\ new.leads = TRUE
        /\ new.answer = "none" /\ new.key = refresh[ClientOf[r]] /\ new.pair = call[r].pair
    BY <1>0, Given, CallTyped DEF Call, Phase
  <2>2. call' = [call EXCEPT ![r] = new]
    BY <1>1 DEF StartRefresh, Lead
  <2>. HIDE DEF new
  <2>3. Moves(r, new.phase, new.leads) /\ Carries(r, new.key, new.pair, new.answer)
    BY <2>1, <2>2, TurnsTyped
  <2>. QED
    BY <2>1, <2>3
<1>2. ASSUME TakePair(r)
      PROVE  /\ Moves(r, "saving", call[r].leads)
             /\ Carries(r, call[r].key, call[r].pair, call[r].answer)
  BY <1>2, PhaseMoves DEF TakePair, Phase
<1>3. ASSUME SaveAccess(r)
      PROVE  /\ Moves(r, "savingRefresh", call[r].leads)
             /\ Carries(r, call[r].key, call[r].pair, call[r].answer)
  BY <1>3, PhaseMoves DEF SaveAccess, Phase
<1>4. ASSUME SaveRefresh(r) PROVE Moves(r, "sent", call[r].leads)
  <2>1. call' = [call EXCEPT ![r] = Sent(r, call[r])]
    BY <1>4 DEF SaveRefresh
  <2>. QED
    BY <1>0, <2>1, SentMoves
<1>5. ASSUME RetryRefresh(r)
      PROVE  /\ Moves(r, "refreshing", call[r].leads)
             /\ Carries(r, call[r].key, call[r].pair, "none")
  <2>. DEFINE new == [call[r] EXCEPT !.refreshTries = @ + 1, !.answer = "none"]
  <2>1. call[r].refreshTries + 1 \in 0 .. MaxRetries /\ call[r].phase = "refreshing"
    BY <1>0, <1>5, Given DEF RetryRefresh, Refreshed, MayRetry, Call
  <2>2. /\ new \in Call /\ new.phase = "refreshing" /\ new.leads = call[r].leads
        /\ new.answer = "none" /\ new.key = call[r].key /\ new.pair = call[r].pair
    BY <1>0, <2>1 DEF Call
  <2>3. call' = [call EXCEPT ![r] = new]
    BY <1>5, CallTyped DEF RetryRefresh
  <2>. HIDE DEF new
  <2>4. Moves(r, new.phase, new.leads) /\ Carries(r, new.key, new.pair, new.answer)
    BY <2>2, <2>3, TurnsTyped
  <2>. QED
    BY <2>2, <2>4
<1>6. ASSUME RefreshFails(r) PROVE Moves(r, "ended", FALSE)
  BY <1>6, EndMoves DEF RefreshFails, GiveUp
<1>. QED
  BY <1>1, <1>2, <1>3, <1>4, <1>5, <1>6

\* The steps that are about several requests.
Wakes(r) == IF call[r].leads THEN queue[ClientOf[r]] ELSE {}

LEMMA SucceedMoves ==
  ASSUME TypeOK, NEW r \in Request, Succeed(r)
  PROVE  /\ call' \in [Request -> Call]
         /\ call'[r].phase = "ended" /\ call'[r].leads = FALSE
         /\ \A q \in Wakes(r) \ {r} : call'[q].phase = "sent" /\ call'[q].leads = call[q].leads
         /\ \A q \in Request \ Wakes(r) : q # r => call'[q] = call[q]
         /\ Wakes(r) \subseteq Request
<1>1. Wakes(r) \subseteq Request
  BY CallTyped DEF Wakes, TypeOK
<1>2. call' = [q \in Request |-> IF q = r THEN End("ended")
                                 ELSE IF q \in Wakes(r) THEN Sent(q, call[q]) ELSE call[q]]
  BY DEF Succeed, Wakes
<1>3. /\ End("ended") \in Call /\ End("ended").phase = "ended"
      /\ End("ended").leads = FALSE
  BY Given DEF End, Blank, Call, Phase, Ended
<1>4. \A q \in Request : /\ call[q] \in Call /\ Sent(q, call[q]) \in Call
                         /\ Sent(q, call[q]).phase = "sent"
                         /\ Sent(q, call[q]).leads = call[q].leads
  BY CallTyped, RecordsTyped
<1>. QED
  BY <1>1, <1>2, <1>3, <1>4

Ends(c) == {q \in Request : ClientOf[q] = c /\ call[q].phase \notin Ended \cup {"idle"}}

LEMMA RestartMoves ==
  ASSUME TypeOK, NEW c \in Client, Restart(c)
  PROVE  /\ call' \in [Request -> Call]
         /\ \A q \in Ends(c) : call'[q].phase = "killed" /\ call'[q].leads = FALSE
         /\ \A q \in Request \ Ends(c) : call'[q] = call[q]
<1>1. call' = [q \in Request |-> IF q \in Ends(c) THEN End("killed") ELSE call[q]]
  BY DEF Restart, Ends
<1>2. /\ End("killed") \in Call /\ End("killed").phase = "killed"
      /\ End("killed").leads = FALSE
  BY Given DEF End, Blank, Call, Phase, Ended
<1>3. \A q \in Request : call[q] \in Call
  BY CallTyped
<1>. QED
  BY <1>1, <1>2, <1>3 DEF Ends

\* What a step makes of a handler.
Hands(r, at, key, pair) ==
  /\ handler' \in [Request -> {Free} \cup Working]
  /\ \A q \in Request \ {r} : handler'[q] = handler[q]
  /\ handler'[r].at = at /\ handler'[r].key = key /\ handler'[r].pair = pair

LEMMA HandsTyped ==
  ASSUME TypeOK, NEW r \in Request, NEW new \in {Free} \cup Working,
         handler' = [handler EXCEPT ![r] = new]
  PROVE  Hands(r, new.at, new.key, new.pair)
<1>1. handler \in [Request -> {Free} \cup Working]
  BY DEF TypeOK, Handler, Working
<1>. QED
  BY <1>1 DEF Hands

\* A handler at work.
LEMMA AtWork ==
  ASSUME TypeOK, NEW r \in Request, handler[r].at # "idle"
  PROVE  /\ handler[r] \in Working /\ handler[r].key \in Pair
         /\ handler[r].pair \in Pair \cup {None}
<1>1. handler[r] \in Working
  BY CallTyped DEF Free
<1>. QED
  BY <1>1 DEF Working

LEMMA GoHands ==
  ASSUME TypeOK, NEW r \in Request, handler[r].at # "idle",
         NEW at \in {"called", "found", "unlinked", "revoked", "issued"}, Go(r, at)
  PROVE  Hands(r, at, handler[r].key, handler[r].pair)
<1>. DEFINE new == [handler[r] EXCEPT !.at = at]
<1>1. /\ new \in {Free} \cup Working /\ new.at = at
      /\ new.key = handler[r].key /\ new.pair = handler[r].pair
  BY AtWork DEF Working
<1>2. handler' = [handler EXCEPT ![r] = new]
  BY DEF Go
<1>. HIDE DEF new
<1>3. Hands(r, new.at, new.key, new.pair)
  BY <1>1, <1>2, HandsTyped
<1>. QED
  BY <1>1, <1>3

LEMMA CallHands ==
  ASSUME TypeOK, NEW r \in Request, NEW key \in Pair,
         handler' = [handler EXCEPT ![r] = [@ EXCEPT !.at = "called", !.key = key]]
  PROVE  Hands(r, "called", key, handler[r].pair)
<1>. DEFINE new == [handler[r] EXCEPT !.at = "called", !.key = key]
<1>1. handler[r].pair \in Pair \cup {None}
  BY CallTyped DEF Working, Free
<1>2. /\ new \in {Free} \cup Working /\ new.at = "called"
      /\ new.key = key /\ new.pair = handler[r].pair
  <2>1. handler[r] \in [at : {"idle", "called", "found", "unlinked", "revoked", "issued"},
                         key : Pair \cup {None}, pair : Pair \cup {None}]
    BY CallTyped DEF Working, Free
  <2>. QED
    BY <2>1 DEF Working
<1>3. handler' = [handler EXCEPT ![r] = new]
  BY CallTyped
<1>. HIDE DEF new
<1>4. Hands(r, new.at, new.key, new.pair)
  BY <1>2, <1>3, HandsTyped
<1>. QED
  BY <1>2, <1>4

LEMMA ReplyMoves ==
  ASSUME TypeOK, NEW r \in Request, NEW answer \in {"ok", "denied", "error"},
         Reply(r, answer)
  PROVE  /\ Hands(r, "idle", None, None)
         /\ call[r].phase = "refreshing" =>
              /\ Moves(r, "refreshing", call[r].leads)
              /\ Carries(r, call[r].key, handler[r].pair, answer)
         /\ call[r].phase # "refreshing" => call' = call
<1>1. Hands(r, "idle", None, None)
  <2>1. /\ Free \in {Free} \cup Working /\ Free.at = "idle" /\ Free.key = None
        /\ Free.pair = None
    BY DEF Free
  <2>. QED
    BY <2>1, HandsTyped DEF Reply
<1>2. ASSUME call[r].phase = "refreshing"
      PROVE  /\ Moves(r, "refreshing", call[r].leads)
             /\ Carries(r, call[r].key, handler[r].pair, answer)
  <2>. DEFINE new == [call[r] EXCEPT !.answer = answer, !.pair = handler[r].pair]
  <2>1. handler[r].pair \in Pair \cup {None}
    BY CallTyped DEF Working, Free
  <2>2. /\ new \in Call /\ new.phase = "refreshing" /\ new.leads = call[r].leads
        /\ new.answer = answer /\ new.key = call[r].key /\ new.pair = handler[r].pair
    BY <1>2, <2>1, CallTyped DEF Call
  <2>3. call' = [call EXCEPT ![r] = new]
    BY <1>2, CallTyped DEF Reply
  <2>. HIDE DEF new
  <2>4. Moves(r, new.phase, new.leads) /\ Carries(r, new.key, new.pair, new.answer)
    BY <2>2, <2>3, TurnsTyped
  <2>. QED
    BY <2>2, <2>4
<1>3. call[r].phase # "refreshing" => call' = call
  BY DEF Reply
<1>. QED
  BY <1>1, <1>2, <1>3

-----------------------------------------------------------------------------
(***************************************************************************)
(* Every step keeps the types.                                             *)
(***************************************************************************)
Plain(r) ==
  \/ Send(r) \/ Judge(r) \/ JudgeFails(r) \/ Retry(r) \/ Wait(r) \/ Fail(r)
  \/ RepeatFails(r) \/ RemoveAccess(r) \/ RemoveRefresh(r)

LEMMA PlainPhases ==
  ASSUME TypeOK, NEW r \in Request, Plain(r)
  PROVE  \E phase \in Phase \ Exchanging, leads \in BOOLEAN : Moves(r, phase, leads)
<1>1. call[r].leads \in BOOLEAN
  BY CallTyped DEF Call
<1>2. {"sent", "queued", "ended", "clearing", "clearingRefresh"} \subseteq Phase \ Exchanging
  BY DEF Phase, Ended, Exchanging
<1>. QED
  BY <1>1, <1>2, PlainMoves DEF Plain

\* A request that turns to a phase outside a refresh carries nothing.
LEMMA KnownOutside ==
  ASSUME KnownCalls, pairs' = pairs, NEW S \in SUBSET Request,
         \A q \in S : call'[q].phase \notin Exchanging,
         \A q \in Request \ S : call'[q] = call[q]
  PROVE  KnownCalls'
BY DEF KnownCalls, Arrived, Exchanging

LEMMA PlainTyped ==
  ASSUME Typed, NEW r \in Request, Plain(r) \/ Succeed(r)
  PROVE  Typed'
<1>0. TypeOK /\ Known
  BY DEF Typed
<1>1. CallsOK'
  BY <1>0, PlainPhases, SucceedMoves DEF Moves, CallsOK
<1>2. UNCHANGED <<redis, handler>>
  BY DEF Plain, Send, Judge, JudgeFails, Retry, Wait, Fail, RepeatFails, RemoveAccess,
     RemoveRefresh, Succeed
<1>3. HandlersOK' /\ RedisOK'
  BY <1>0, <1>2, TypeParts DEF HandlersOK, RedisOK, redis
<1>4. MemoryOK' /\ KnownMemory'
  <2>1. \/ UNCHANGED memory
        \/ access' = access /\ refresh' = refresh /\ isRefreshing' = isRefreshing
           /\ queue' = [queue EXCEPT ![ClientOf[r]] = @ \cup {r}]
        \/ access' = [access EXCEPT ![ClientOf[r]] = None] /\ isRefreshing' = isRefreshing
           /\ refresh' = [refresh EXCEPT ![ClientOf[r]] = None] /\ queue' = queue
        \/ access' = access /\ refresh' = refresh /\ queue' = queue
           /\ isRefreshing' = [isRefreshing EXCEPT ![ClientOf[r]] = FALSE]
        \/ access' = access /\ refresh' = refresh
           /\ queue' = [queue EXCEPT ![ClientOf[r]] = @ \ Wakes(r)]
           /\ isRefreshing' = [isRefreshing EXCEPT ![ClientOf[r]] = @ /\ ~call[r].leads]
    BY DEF Plain, Send, Judge, JudgeFails, Retry, Wait, Fail, RepeatFails, RemoveAccess,
       RemoveRefresh, GiveUp, Succeed, Wakes, memory
  <2>2. MemoryOK /\ ClientOf[r] \in Client /\ call[r].leads \in BOOLEAN
    BY <1>0, TypeParts, CallTyped DEF Call
  <2>3. MemoryOK'
    <3>1. access' \in [Client -> Pair \cup {None}] /\ refresh' \in [Client -> Pair \cup {None}]
      BY <2>1, <2>2 DEF MemoryOK, memory
    <3>2. isRefreshing' \in [Client -> BOOLEAN]
      BY <2>1, <2>2 DEF MemoryOK, memory
    <3>3. queue' \in [Client -> SUBSET Request]
      BY <2>1, <2>2 DEF MemoryOK, memory
    <3>. QED
      BY <3>1, <3>2, <3>3 DEF MemoryOK
  <2>4. \/ stored' = stored \/ stored' = [stored EXCEPT !.access = None]
        \/ stored' = [stored EXCEPT !.refresh = None]
    BY DEF Plain, Send, Judge, JudgeFails, Retry, Wait, Fail, RepeatFails, RemoveAccess,
       RemoveRefresh, GiveUp, Succeed
  <2>5. stored'.refresh \in {stored.refresh, None}
    BY <1>0, <2>4 DEF TypeOK
  <2>6. refresh' = refresh \/ refresh' = [refresh EXCEPT ![ClientOf[r]] = None]
    BY <2>1 DEF memory
  <2>7. KnownMemory'
    BY <1>0, <1>2, <2>5, <2>6 DEF Known, KnownMemory, redis
  <2>. QED
    BY <2>3, <2>7
<1>5. StoredOK'
  BY <1>0 DEF Plain, Send, Judge, JudgeFails, Retry, Wait, Fail, RepeatFails, RemoveAccess,
     RemoveRefresh, Succeed, TypeOK, StoredOK
<1>6. HistoryOK'
  <2>1. /\ UNCHANGED <<expired, spent, burnt, stray>>
        /\ left' \in {left, left \cup queue[ClientOf[r]], left \ Wakes(r)}
    BY DEF Plain, Send, Judge, JudgeFails, Retry, Wait, Fail, RepeatFails, RemoveAccess,
       RemoveRefresh, GiveUp, Succeed, Wakes, history
  <2>. QED
    BY <1>0, <2>1, CallTyped DEF TypeOK, HistoryOK
<1>7. BoundsOK'
  <2>1. UNCHANGED bounds \/ JudgeFails(r)
    BY DEF Plain, Send, Judge, Retry, Wait, Fail, RepeatFails, RemoveAccess,
       RemoveRefresh, Succeed, bounds
  <2>2. JudgeFails(r) => Fault /\ UNCHANGED <<expiries, restarts>>
    BY DEF JudgeFails
  <2>. QED
    BY <1>0, <2>1, <2>2, Given DEF TypeOK, BoundsOK, Fault, bounds
<1>8. KnownCalls' /\ KnownHandlers'
  <2>1. KnownCalls'
    <3>1. CASE Plain(r)
      <4>1. call'[r].phase \notin Exchanging /\ \A q \in Request \ {r} : call'[q] = call[q]
        BY <1>0, <3>1, PlainPhases DEF Moves
      <4>2. {r} \in SUBSET Request
        OBVIOUS
      <4>3. \A q \in {r} : call'[q].phase \notin Exchanging
        BY <4>1
      <4>. QED
        BY <1>0, <1>2, <4>1, <4>2, <4>3, KnownOutside DEF Known, redis
    <3>2. CASE Succeed(r)
      <4>1. \A q \in Wakes(r) \cup {r} : call'[q].phase \notin Exchanging
        BY <1>0, <3>2, SucceedMoves DEF Exchanging
      <4>2. /\ Wakes(r) \cup {r} \subseteq Request
            /\ \A q \in Request \ (Wakes(r) \cup {r}) : call'[q] = call[q]
        BY <1>0, <3>2, SucceedMoves
      <4>. QED
        BY <1>0, <1>2, <4>1, <4>2, KnownOutside DEF Known, redis
    <3>. QED
      BY <3>1, <3>2
  <2>2. KnownHandlers'
    BY <1>0, <1>2 DEF Known, KnownHandlers, At, redis
  <2>. QED
    BY <2>1, <2>2
<1>. QED
  BY <1>1, <1>3, <1>4, <1>5, <1>6, <1>7, <1>8, TypePartsNext DEF Typed, Known

\* What the pairs on their way are numbered by.
LEMMA PairFacts ==
  ASSUME Typed, NEW r \in Request
  PROVE  /\ pairs \in Nat /\ 0 .. pairs \subseteq Pair
         /\ refresh[ClientOf[r]] \in 0 .. pairs \cup {None}
         /\ call[r].phase \in Exchanging => call[r].key \in 0 .. pairs
         /\ Arrived(r) => call[r].pair \in 0 .. pairs
         /\ handler[r].at # "idle" => handler[r].key \in 0 .. pairs
         /\ At(r, "issued") => handler[r].pair \in 0 .. pairs
<1>1. pairs \in 0 .. MaxPairs /\ MaxPairs \in Nat
  BY Given DEF Typed, TypeOK, Pair
<1>2. pairs \in Nat /\ 0 .. pairs \subseteq Pair
  BY <1>1 DEF Pair
<1>3. ClientOf[r] \in Client
  BY Given
<1>. QED
  BY <1>2, <1>3 DEF Typed, Known, KnownMemory, KnownCalls, KnownHandlers

\* A request that carries on with a known key, and a known pair if it has one.
LEMMA KnownInside ==
  ASSUME KnownCalls, pairs' = pairs, NEW r \in Request,
         NEW phase, NEW leads, Moves(r, phase, leads),
         NEW key \in 0 .. pairs, NEW pair, NEW answer, Carries(r, key, pair, answer),
         answer = "ok" \/ phase # "refreshing" => pair \in 0 .. pairs
  PROVE  KnownCalls'
BY DEF KnownCalls, Arrived, Exchanging, Moves, Carries

LEMMA KnownHands ==
  ASSUME KnownHandlers, pairs' = pairs, NEW r \in Request,
         NEW at, NEW key, NEW pair, Hands(r, at, key, pair),
         at # "idle" => key \in 0 .. pairs, at = "issued" => pair \in 0 .. pairs
  PROVE  KnownHandlers'
BY DEF KnownHandlers, Hands, At

LEMMA RefreshTyped ==
  ASSUME Typed, NEW r \in Request,
         \/ StartRefresh(r) \/ TakePair(r) \/ SaveAccess(r) \/ SaveRefresh(r)
         \/ RetryRefresh(r) \/ RefreshFails(r)
  PROVE  Typed'
<1>0. /\ TypeOK /\ Known /\ ClientOf[r] \in Client
      /\ CallsOK /\ HandlersOK /\ RedisOK /\ MemoryOK /\ StoredOK /\ HistoryOK /\ BoundsOK
      /\ KnownMemory /\ KnownCalls /\ KnownHandlers
  BY TypeParts, Given DEF Typed, Known
<1>1. CallsOK' /\ UNCHANGED <<redis, bounds, expired, spent, burnt, stray>>
  BY <1>0, RefreshMoves DEF Moves, CallsOK, StartRefresh, Lead, TakePair, SaveAccess,
     SaveRefresh, RetryRefresh, RefreshFails, history
<1>2. RedisOK' /\ BoundsOK' /\ pairs' = pairs
  BY <1>0, <1>1 DEF RedisOK, BoundsOK, redis, bounds
<1>3. CASE StartRefresh(r)
  <2>1. /\ handler' = [handler EXCEPT ![r] = [@ EXCEPT !.at = "called",
                                                     !.key = refresh[ClientOf[r]]]]
        /\ isRefreshing' = [isRefreshing EXCEPT ![ClientOf[r]] = TRUE]
        /\ UNCHANGED <<access, refresh, queue, stored, left>>
    BY <1>3 DEF StartRefresh, Lead, history
  <2>2. refresh[ClientOf[r]] \in 0 .. pairs /\ refresh[ClientOf[r]] \in Pair
    BY <1>3, PairFacts DEF StartRefresh
  <2>3. Hands(r, "called", refresh[ClientOf[r]], handler[r].pair)
    BY <1>0, <2>1, <2>2, CallHands
  <2>4. HandlersOK' /\ KnownHandlers'
    BY <1>0, <1>2, <2>2, <2>3, KnownHands DEF HandlersOK, Hands
  <2>5. KnownCalls'
    BY <1>0, <1>2, <1>3, <2>2, RefreshMoves, KnownInside
  <2>6. MemoryOK' /\ KnownMemory' /\ StoredOK' /\ HistoryOK'
    BY <1>0, <1>1, <1>2, <2>1 DEF MemoryOK, KnownMemory, StoredOK, HistoryOK
  <2>. QED
    BY <1>1, <1>2, <2>4, <2>5, <2>6, TypePartsNext DEF Typed, Known
<1>4. CASE TakePair(r)
  <2>1. /\ access' = [access EXCEPT ![ClientOf[r]] = call[r].pair]
        /\ refresh' = [refresh EXCEPT ![ClientOf[r]] = call[r].pair]
        /\ UNCHANGED <<handler, isRefreshing, queue, stored, left>>
    BY <1>4 DEF TakePair, history
  <2>2. /\ call[r].pair \in 0 .. pairs /\ call[r].pair \in Pair
        /\ call[r].key \in 0 .. pairs
    BY <1>4, PairFacts DEF TakePair, Refreshed, Arrived, Exchanging
  <2>3. HandlersOK' /\ KnownHandlers'
    BY <1>0, <1>2, <2>1 DEF HandlersOK, KnownHandlers, At
  <2>4. KnownCalls'
    BY <1>0, <1>2, <1>4, <2>2, RefreshMoves, KnownInside
  <2>5. MemoryOK' /\ KnownMemory'
    BY <1>0, <1>2, <2>1, <2>2 DEF MemoryOK, KnownMemory
  <2>6. StoredOK' /\ HistoryOK'
    BY <1>0, <1>1, <2>1 DEF StoredOK, HistoryOK
  <2>. QED
    BY <1>1, <1>2, <2>3, <2>4, <2>5, <2>6, TypePartsNext DEF Typed, Known
<1>5. CASE SaveAccess(r) \/ SaveRefresh(r)
  <2>1. /\ UNCHANGED <<handler, access, refresh, isRefreshing, queue, left>>
        /\ \/ stored' = [stored EXCEPT !.access = call[r].pair]
           \/ stored' = [stored EXCEPT !.refresh = call[r].pair]
    BY <1>5 DEF SaveAccess, SaveRefresh, history, memory
  <2>2. /\ call[r].pair \in 0 .. pairs /\ call[r].pair \in Pair
        /\ call[r].key \in 0 .. pairs
    BY <1>5, PairFacts DEF SaveAccess, SaveRefresh, Arrived, Exchanging
  <2>3. HandlersOK' /\ KnownHandlers' /\ MemoryOK' /\ HistoryOK'
    BY <1>0, <1>1, <1>2, <2>1 DEF HandlersOK, KnownHandlers, At, MemoryOK, HistoryOK
  <2>4. KnownCalls'
    <3>1. CASE SaveAccess(r)
      BY <1>0, <1>2, <3>1, <2>2, RefreshMoves, KnownInside
    <3>2. CASE SaveRefresh(r)
      <4>1. /\ call'[r].phase \notin Exchanging
            /\ \A q \in Request \ {r} : call'[q] = call[q]
        BY <1>0, <3>2, RefreshMoves DEF Moves, Exchanging
      <4>. QED
        BY <1>0, <1>2, <4>1 DEF KnownCalls, Arrived, Exchanging
    <3>. QED
      BY <1>5, <3>1, <3>2
  <2>5. StoredOK' /\ KnownMemory'
    BY <1>0, <1>2, <2>1, <2>2 DEF StoredOK, KnownMemory
  <2>. QED
    BY <1>1, <1>2, <2>3, <2>4, <2>5, TypePartsNext DEF Typed, Known
<1>6. CASE RetryRefresh(r)
  <2>1. /\ handler' = [handler EXCEPT ![r] = [@ EXCEPT !.at = "called",
                                                     !.key = call[r].key]]
        /\ UNCHANGED <<memory, stored, left>>
    BY <1>6 DEF RetryRefresh, history
  <2>2. call[r].key \in 0 .. pairs /\ call[r].key \in Pair
    BY <1>6, PairFacts DEF RetryRefresh, Refreshed, Exchanging
  <2>3. Hands(r, "called", call[r].key, handler[r].pair)
    BY <1>0, <2>1, <2>2, CallHands
  <2>4. HandlersOK' /\ KnownHandlers'
    BY <1>0, <1>2, <2>2, <2>3, KnownHands DEF HandlersOK, Hands
  <2>5. KnownCalls'
    BY <1>0, <1>2, <1>6, <2>2, RefreshMoves, KnownInside
  <2>6. MemoryOK' /\ KnownMemory' /\ StoredOK' /\ HistoryOK'
    BY <1>0, <1>1, <1>2, <2>1 DEF MemoryOK, KnownMemory, StoredOK, HistoryOK, memory
  <2>. QED
    BY <1>1, <1>2, <2>4, <2>5, <2>6, TypePartsNext DEF Typed, Known
<1>7. CASE RefreshFails(r)
  <2>1. /\ isRefreshing' = [isRefreshing EXCEPT ![ClientOf[r]] = FALSE]
        /\ left' = left \cup queue[ClientOf[r]]
        /\ UNCHANGED <<handler, access, refresh, queue, stored>>
    BY <1>7 DEF RefreshFails, GiveUp
  <2>2. KnownCalls'
    <3>1. call'[r].phase \notin Exchanging /\ \A q \in Request \ {r} : call'[q] = call[q]
      BY <1>0, <1>7, RefreshMoves DEF Moves, Exchanging
    <3>. QED
      BY <1>0, <1>2, <3>1 DEF KnownCalls, Arrived, Exchanging
  <2>3. HandlersOK' /\ KnownHandlers' /\ StoredOK' /\ KnownMemory'
    BY <1>0, <1>2, <2>1 DEF HandlersOK, KnownHandlers, At, StoredOK, KnownMemory
  <2>4. MemoryOK' /\ HistoryOK'
    BY <1>0, <1>1, <2>1 DEF MemoryOK, HistoryOK
  <2>. QED
    BY <1>1, <1>2, <2>2, <2>3, <2>4, TypePartsNext DEF Typed, Known
<1>. QED
  BY <1>3, <1>4, <1>5, <1>6, <1>7

LEMMA ReplyTyped ==
  ASSUME Typed, NEW r \in Request, NEW answer \in {"ok", "denied", "error"},
         Reply(r, answer), pairs' = pairs,
         answer = "ok" => At(r, "issued")
  PROVE  CallsOK' /\ HandlersOK' /\ KnownCalls' /\ KnownHandlers'
<1>0. TypeOK /\ KnownCalls /\ KnownHandlers /\ call \in [Request -> Call]
  BY DEF Typed, Known, TypeOK
<1>1. HandlersOK' /\ KnownHandlers'
  <2>1. Hands(r, "idle", None, None)
    BY <1>0, ReplyMoves
  <2>. QED
    BY <1>0, <2>1, KnownHands DEF HandlersOK, Hands
<1>2. CallsOK' /\ KnownCalls'
  <2>1. CASE call[r].phase = "refreshing"
    <3>1. /\ Moves(r, "refreshing", call[r].leads)
          /\ Carries(r, call[r].key, handler[r].pair, answer)
      BY <1>0, <2>1, ReplyMoves
    <3>2. call[r].key \in 0 .. pairs /\ (answer = "ok" => handler[r].pair \in 0 .. pairs)
      BY <2>1, PairFacts DEF Exchanging
    <3>. QED
      BY <1>0, <3>1, <3>2, KnownInside DEF CallsOK, Moves
  <2>2. CASE call[r].phase # "refreshing"
    <3>1. call' = call
      BY <1>0, <2>2, ReplyMoves
    <3>. QED
      BY <1>0, <3>1 DEF CallsOK, KnownCalls, Arrived
  <2>. QED
    BY <2>1, <2>2
<1>. QED
  BY <1>1, <1>2

LEMMA GoTyped ==
  ASSUME Typed, NEW r \in Request, handler[r].at # "idle",
         NEW at \in {"found", "unlinked", "revoked"}, Go(r, at), pairs' = pairs
  PROVE  HandlersOK' /\ KnownHandlers'
<1>1. Hands(r, at, handler[r].key, handler[r].pair)
  BY GoHands DEF Typed
<1>2. handler[r].key \in 0 .. pairs
  BY PairFacts
<1>. QED
  BY <1>1, <1>2, KnownHands DEF Typed, Known, HandlersOK, Hands

LEMMA ServerTyped ==
  ASSUME Typed, NEW r \in Request,
         \/ LookupRefresh(r) \/ LookupFails(r) \/ DeleteToken(r) \/ DeleteRefresh(r)
         \/ DeleteFails(r) \/ IssueToken(r) \/ IssueRefresh(r) \/ IssueFails(r)
         \/ Abandon(r)
  PROVE  Typed'
<1>0. /\ TypeOK /\ Known /\ ClientOf[r] \in Client
      /\ CallsOK /\ HandlersOK /\ RedisOK /\ MemoryOK /\ StoredOK /\ HistoryOK /\ BoundsOK
      /\ KnownMemory /\ KnownCalls /\ KnownHandlers
  BY TypeParts, Given DEF Typed, Known
<1>1. handler[r].at # "idle" /\ handler[r].key \in Pair /\ handler[r].key \in 0 .. pairs
  <2>1. handler[r].at # "idle"
    BY DEF LookupRefresh, LookupFails, DeleteToken, DeleteRefresh, DeleteFails, IssueToken,
       IssueRefresh, IssueFails, Abandon, At
  <2>. QED
    BY <1>0, <2>1, AtWork, PairFacts
<1>2. UNCHANGED <<memory, stored, expired, left, expiries, restarts>>
  BY DEF LookupRefresh, LookupFails, DeleteToken, DeleteRefresh, DeleteFails, IssueToken,
     IssueRefresh, IssueFails, Abandon, history, bounds
<1>3. MemoryOK' /\ StoredOK'
  BY <1>0, <1>2 DEF MemoryOK, memory, StoredOK
<1>4. BoundsOK'
  <2>1. UNCHANGED bounds \/ (Fault /\ UNCHANGED <<expiries, restarts>>)
    BY DEF LookupRefresh, LookupFails, DeleteToken, DeleteRefresh, DeleteFails, IssueToken,
     IssueRefresh, IssueFails, Abandon, bounds
  <2>. QED
    BY <1>0, <2>1, Given DEF BoundsOK, Fault, bounds
<1>5. ASSUME pairs' = pairs
      PROVE  KnownMemory'
  BY <1>0, <1>2, <1>5 DEF KnownMemory, memory
<1>6. ASSUME UNCHANGED call, pairs' = pairs
      PROVE  CallsOK' /\ KnownCalls'
  BY <1>0, <1>6 DEF CallsOK, KnownCalls, Arrived
<1>8. CASE LookupRefresh(r) \/ LookupFails(r)
  <2>1. /\ UNCHANGED <<redis, spent, burnt, stray>>
        /\ \/ Go(r, "found") /\ UNCHANGED call
           \/ Reply(r, "denied") \/ Reply(r, "error")
    BY <1>8 DEF LookupRefresh, LookupFails, history
  <2>2. pairs' = pairs /\ RedisOK' /\ HistoryOK'
    BY <1>0, <1>2, <2>1 DEF redis, RedisOK, HistoryOK
  <2>3. CallsOK' /\ HandlersOK' /\ KnownCalls' /\ KnownHandlers'
    BY <1>1, <1>6, <2>1, <2>2, GoTyped, ReplyTyped
  <2>. QED
    BY <1>3, <1>4, <1>5, <2>2, <2>3, TypePartsNext DEF Typed, Known
<1>9. CASE DeleteToken(r) \/ DeleteRefresh(r) \/ DeleteFails(r)
  <2>1. /\ UNCHANGED <<call, pairs, burnt>> /\ (Go(r, "unlinked") \/ Go(r, "revoked"))
        /\ tokens' \subseteq tokens /\ refreshes' \subseteq refreshes
        /\ stray' \in {stray, stray \cup SessionToken(handler[r].key)}
        /\ spent' \in {spent, [spent EXCEPT ![handler[r].key] = @ \cup {ClientOf[r]}]}
    BY <1>9 DEF DeleteToken, DeleteRefresh, DeleteFails, history, redis
  <2>2. RedisOK'
    BY <1>0, <2>1 DEF RedisOK
  <2>3. HistoryOK'
    BY <1>0, <1>1, <1>2, <2>1 DEF HistoryOK, SessionToken
  <2>4. HandlersOK' /\ KnownHandlers'
    BY <1>1, <2>1, GoTyped
  <2>. QED
    BY <1>3, <1>4, <1>5, <1>6, <2>1, <2>2, <2>3, <2>4, TypePartsNext DEF Typed, Known
<1>10. CASE IssueToken(r)
  <2>1. /\ pairs < MaxPairs /\ pairs' = pairs + 1 /\ tokens' = tokens \cup {pairs + 1}
        /\ handler' = [handler EXCEPT ![r].at = "issued", ![r].pair = pairs + 1]
        /\ UNCHANGED <<refreshes, memory, stored, call, history>>
    BY <1>10 DEF IssueToken
  <2>2. /\ pairs + 1 \in Pair /\ pairs \in Nat /\ 0 .. pairs \subseteq 0 .. pairs'
        /\ pairs + 1 \in 0 .. pairs'
    BY <1>0, <2>1, Given DEF RedisOK, Pair
  <2>3. Hands(r, "issued", handler[r].key, pairs + 1)
    <3>. DEFINE new == [handler[r] EXCEPT !.at = "issued", !.pair = pairs + 1]
    <3>1. handler' = [handler EXCEPT ![r] = new]
      BY <1>0, <2>1 DEF HandlersOK
    <3>2. /\ new \in {Free} \cup Working /\ new.at = "issued" /\ new.pair = pairs + 1
          /\ new.key = handler[r].key
      BY <1>0, <1>1, <2>2, AtWork DEF Working
    <3>. HIDE DEF new
    <3>3. Hands(r, new.at, new.key, new.pair)
      BY <1>0, <3>1, <3>2, HandsTyped
    <3>. QED
      BY <3>2, <3>3
  <2>4. HandlersOK' /\ RedisOK' /\ HistoryOK' /\ CallsOK'
    BY <1>0, <2>1, <2>2, <2>3 DEF HandlersOK, Hands, RedisOK, HistoryOK, history, CallsOK
  <2>5. KnownHandlers'
    BY <1>0, <1>1, <2>2, <2>3 DEF KnownHandlers, Hands, At
  <2>6. KnownCalls' /\ KnownMemory'
    BY <1>0, <2>1, <2>2 DEF KnownCalls, Arrived, KnownMemory, memory
  <2>. QED
    BY <1>3, <1>4, <2>4, <2>5, <2>6, TypePartsNext DEF Typed, Known
<1>11. CASE IssueRefresh(r)
  <2>1. /\ At(r, "issued") /\ refreshes' = refreshes \cup {handler[r].pair}
        /\ Reply(r, "ok") /\ UNCHANGED <<tokens, pairs, history>>
    BY <1>11 DEF IssueRefresh
  <2>2. handler[r].pair \in Pair
    BY <2>1, PairFacts
  <2>3. RedisOK' /\ HistoryOK'
    BY <1>0, <2>1, <2>2 DEF RedisOK, HistoryOK, history
  <2>4. CallsOK' /\ HandlersOK' /\ KnownCalls' /\ KnownHandlers'
    BY <2>1, ReplyTyped
  <2>. QED
    BY <1>3, <1>4, <1>5, <2>1, <2>3, <2>4, TypePartsNext DEF Typed, Known
<1>12. CASE IssueFails(r)
  <2>1. /\ Reply(r, "error") /\ burnt' = burnt \cup {handler[r].key}
        /\ UNCHANGED <<tokens, pairs, spent>>
        /\ \/ UNCHANGED <<refreshes, stray>>
           \/ At(r, "issued") /\ UNCHANGED refreshes /\ stray' = stray \cup {handler[r].pair}
           \/ At(r, "issued") /\ UNCHANGED stray
              /\ refreshes' = refreshes \cup {handler[r].pair}
    BY <1>12 DEF IssueFails
  <2>2. At(r, "issued") => handler[r].pair \in Pair
    BY PairFacts
  <2>3. RedisOK' /\ HistoryOK'
    BY <1>0, <1>1, <1>2, <2>1, <2>2 DEF RedisOK, HistoryOK
  <2>4. CallsOK' /\ HandlersOK' /\ KnownCalls' /\ KnownHandlers'
    BY <2>1, ReplyTyped
  <2>. QED
    BY <1>3, <1>4, <1>5, <2>1, <2>3, <2>4, TypePartsNext DEF Typed, Known
<1>13. CASE Abandon(r)
  <2>1. /\ handler' = [handler EXCEPT ![r] = Free]
        /\ stray' = IF At(r, "issued") THEN stray \cup {handler[r].pair} ELSE stray
        /\ UNCHANGED <<redis, call, spent, burnt>>
    BY <1>13 DEF Abandon
  <2>2. At(r, "issued") => handler[r].pair \in Pair
    BY PairFacts
  <2>3. RedisOK' /\ HistoryOK' /\ pairs' = pairs
    BY <1>0, <1>2, <2>1, <2>2 DEF RedisOK, HistoryOK, redis
  <2>4. Hands(r, "idle", None, None)
    <3>1. Free.at = "idle" /\ Free.key = None /\ Free.pair = None
      BY DEF Free
    <3>. QED
      BY <1>0, <2>1, <3>1, HandsTyped
  <2>5. HandlersOK' /\ KnownHandlers'
    BY <1>0, <2>3, <2>4, KnownHands DEF HandlersOK, Hands
  <2>. QED
    BY <1>3, <1>4, <1>5, <1>6, <2>1, <2>3, <2>5, TypePartsNext DEF Typed, Known
<1>. QED
  BY <1>8, <1>9, <1>10, <1>11, <1>12, <1>13

LEMMA RestartTyped ==
  ASSUME Typed, NEW c \in Client, Restart(c)
  PROVE  Typed'
<1>0. /\ TypeOK /\ Known
      /\ CallsOK /\ HandlersOK /\ RedisOK /\ MemoryOK /\ StoredOK /\ HistoryOK /\ BoundsOK
      /\ KnownMemory /\ KnownCalls /\ KnownHandlers
  BY TypeParts DEF Typed, Known
<1>1. /\ access' = [access EXCEPT ![c] = stored.access]
      /\ refresh' = [refresh EXCEPT ![c] = stored.refresh]
      /\ isRefreshing' = [isRefreshing EXCEPT ![c] = FALSE]
      /\ queue' = [queue EXCEPT ![c] = {}]
      /\ left' \subseteq left
      /\ faults + restarts < MaxMishaps /\ restarts' = restarts + 1
      /\ UNCHANGED <<redis, handler, stored, expired, spent, stray, expiries, faults>>
  BY DEF Restart
<1>2. burnt' \subseteq Pair
  <2>. DEFINE busy == {q \in {r \in Request : ClientOf[r] = c} : call[q].phase \in Exchanging}
  <2>1. burnt' = burnt \cup {call[q].key : q \in busy}
    BY DEF Restart, Exchanging
  <2>2. \A q \in busy : call[q].key \in Pair
    BY PairFacts
  <2>. HIDE DEF busy
  <2>. QED
    BY <1>0, <2>1, <2>2 DEF HistoryOK
<1>3. CallsOK' /\ KnownCalls'
  <2>1. Ends(c) \in SUBSET Request /\ \A q \in Ends(c) : call'[q].phase \notin Exchanging
    BY <1>0, RestartMoves DEF Ends, Exchanging
  <2>. QED
    BY <1>0, <1>1, <2>1, RestartMoves, KnownOutside DEF CallsOK, redis
<1>4. HandlersOK' /\ RedisOK' /\ KnownHandlers' /\ StoredOK'
  BY <1>0, <1>1 DEF HandlersOK, RedisOK, redis, KnownHandlers, At, StoredOK
<1>5. MemoryOK' /\ KnownMemory'
  BY <1>0, <1>1 DEF MemoryOK, KnownMemory, redis, StoredOK
<1>6. HistoryOK' /\ BoundsOK'
  BY <1>0, <1>1, <1>2, Given DEF HistoryOK, BoundsOK
<1>. QED
  BY <1>3, <1>4, <1>5, <1>6, TypePartsNext DEF Typed, Known

LEMMA ExpiryTyped ==
  ASSUME Typed, NEW k \in Pair, ExpireToken(k) \/ ExpireRefresh(k)
  PROVE  Typed'
<1>0. /\ TypeOK /\ Known
      /\ CallsOK /\ HandlersOK /\ RedisOK /\ MemoryOK /\ StoredOK /\ HistoryOK /\ BoundsOK
      /\ KnownMemory /\ KnownCalls /\ KnownHandlers
  BY TypeParts DEF Typed, Known
<1>1. /\ tokens' \subseteq tokens /\ refreshes' \subseteq refreshes
      /\ expired' \in {expired, expired \cup {k}} /\ Expiry
      /\ UNCHANGED <<pairs, handler, memory, stored, call, spent, burnt, stray, left,
                     faults, restarts>>
  BY DEF ExpireToken, ExpireRefresh, history
<1>2. CallsOK' /\ HandlersOK' /\ RedisOK' /\ MemoryOK' /\ StoredOK' /\ HistoryOK'
  BY <1>0, <1>1 DEF CallsOK, HandlersOK, RedisOK, MemoryOK, StoredOK, HistoryOK, memory
<1>3. BoundsOK'
  BY <1>0, <1>1, Given DEF BoundsOK, Expiry
<1>4. Known'
  BY <1>0, <1>1 DEF Known, KnownMemory, KnownCalls, KnownHandlers, Arrived, At, memory
<1>. QED
  BY <1>2, <1>3, <1>4, TypePartsNext DEF Typed

\* The steps of Next, by what they are about.
Refreshing(r) ==
  \/ StartRefresh(r) \/ TakePair(r) \/ SaveAccess(r) \/ SaveRefresh(r)
  \/ RetryRefresh(r) \/ RefreshFails(r)

Serving(r) ==
  \/ LookupRefresh(r) \/ LookupFails(r) \/ DeleteToken(r) \/ DeleteRefresh(r)
  \/ DeleteFails(r) \/ IssueToken(r) \/ IssueRefresh(r) \/ IssueFails(r) \/ Abandon(r)

LEMMA Steps ==
  [Next]_vars =>
    \/ \E r \in Request : Plain(r) \/ Succeed(r) \/ Refreshing(r) \/ Serving(r)
    \/ \E c \in Client : Restart(c)
    \/ \E k \in Pair : ExpireToken(k) \/ ExpireRefresh(k)
    \/ UNCHANGED vars
BY DEF Next, Step, Server, Failure, Plain, Refreshing, Serving

LEMMA StepTyped == Typed /\ [Next]_vars => Typed'
<1>1. ASSUME Typed, UNCHANGED vars PROVE Typed'
  BY <1>1 DEF Typed, TypeOK, Known, KnownMemory, KnownCalls, KnownHandlers, Arrived, At,
     vars, redis, memory, history, bounds
<1>. QED
  BY <1>1, Steps, PlainTyped, RefreshTyped, ServerTyped, RestartTyped, ExpiryTyped
     DEF Refreshing, Serving

LEMMA AlwaysTyped == Spec => []Typed
BY InitTyped, StepTyped, PTL DEF Spec

(***************************************************************************)
(* Every variable keeps its type: no request carries, and no key stands    *)
(* for, a pair that has not been issued.                                   *)
(***************************************************************************)
THEOREM TypeCorrect == Spec => []TypeOK
BY AlwaysTyped, PTL DEF Typed

-----------------------------------------------------------------------------
(***************************************************************************)
(* The lock.  Whoever is in the course of a refresh, or repeats a request  *)
(* after one, holds _isRefreshing, and a request that waits does nothing   *)
(* else.                                                                   *)
(***************************************************************************)
Led ==
  /\ \A r \in Request : call[r].leads =>
       isRefreshing[ClientOf[r]] /\ call[r].phase \notin Ended \cup {"idle"}
  /\ \A q, r \in Request :
       call[q].leads /\ call[r].leads /\ ClientOf[q] = ClientOf[r] => q = r
  /\ \A c \in Client : isRefreshing[c] => \E r \in Request : ClientOf[r] = c /\ call[r].leads
  /\ \A r \in Request : call[r].phase \in Exchanging \cup Clearing => call[r].leads

Waiting ==
  \A c \in Client : \A r \in queue[c] : call[r].phase = "queued" /\ ClientOf[r] = c

LEMMA InitLed == Init => Led /\ Waiting
BY Given DEF Init, Led, Waiting, Blank, Exchanging, Clearing

\* A request whose lock stays as it is.
LockStays(q) ==
  /\ call'[q].leads = call[q].leads
  /\ call'[q].phase \in Exchanging \cup Clearing => call[q].leads
  /\ call[q].leads => call'[q].phase \notin Ended \cup {"idle"}

LEMMA LedQuiet ==
  ASSUME Led, isRefreshing' = isRefreshing, \A q \in Request : LockStays(q)
  PROVE  Led'
BY DEF Led, LockStays

LEMMA SameLock ==
  ASSUME Led, NEW q \in Request, call'[q] = call[q]
  PROVE  LockStays(q)
BY DEF Led, LockStays

LEMMA LedRelease ==
  ASSUME TypeOK, Led, NEW c \in Client, isRefreshing' = [isRefreshing EXCEPT ![c] = FALSE],
         \A q \in Request : ClientOf[q] # c => LockStays(q),
         \A q \in Request : ClientOf[q] = c =>
           call'[q].leads = FALSE /\ call'[q].phase \notin Exchanging \cup Clearing
  PROVE  Led'
<1>. USE Given DEF Led, LockStays
<1>0. \A d \in Client : isRefreshing'[d] = (IF d = c THEN FALSE ELSE isRefreshing[d])
  BY DEF TypeOK
<1>1. \A r \in Request : call'[r].leads => ClientOf[r] # c
  OBVIOUS
<1>2. \A r \in Request : call'[r].leads =>
        isRefreshing'[ClientOf[r]] /\ call'[r].phase \notin Ended \cup {"idle"}
  BY <1>0, <1>1
<1>3. \A q, r \in Request :
        call'[q].leads /\ call'[r].leads /\ ClientOf[q] = ClientOf[r] => q = r
  BY <1>1
<1>4. \A d \in Client :
        isRefreshing'[d] => \E r \in Request : ClientOf[r] = d /\ call'[r].leads
  <2>. SUFFICES ASSUME NEW d \in Client, isRefreshing'[d]
                PROVE  \E r \in Request : ClientOf[r] = d /\ call'[r].leads
    OBVIOUS
  <2>1. d # c /\ isRefreshing[d]
    BY <1>0
  <2>2. PICK r \in Request : ClientOf[r] = d /\ call[r].leads
    BY <2>1
  <2>3. LockStays(r)
    BY <2>1, <2>2
  <2>. QED
    BY <2>2, <2>3
<1>5. \A r \in Request : call'[r].phase \in Exchanging \cup Clearing => call'[r].leads
  OBVIOUS
<1>. QED
  BY <1>2, <1>3, <1>4, <1>5

\* The release by the request that holds the lock.
LEMMA LeaderReleases ==
  ASSUME TypeOK, Led, NEW r \in Request, call[r].leads,
         isRefreshing' = [isRefreshing EXCEPT ![ClientOf[r]] = FALSE],
         call'[r].leads = FALSE, call'[r].phase \notin Exchanging \cup Clearing,
         \A q \in Request \ {r} : LockStays(q)
  PROVE  Led'
<1>1. \A q \in Request : ClientOf[q] # ClientOf[r] => LockStays(q)
  OBVIOUS
<1>2. \A q \in Request : ClientOf[q] = ClientOf[r] =>
        call'[q].leads = FALSE /\ call'[q].phase \notin Exchanging \cup Clearing
  <2>. SUFFICES ASSUME NEW q \in Request, ClientOf[q] = ClientOf[r], q # r
                PROVE  call'[q].leads = FALSE /\ call'[q].phase \notin Exchanging \cup Clearing
    OBVIOUS
  <2>1. call[q].leads = FALSE
    BY CallTyped DEF Led, Call
  <2>. QED
    BY <2>1 DEF LockStays
<1>3. ClientOf[r] \in Client
  BY Given
<1>. QED
  BY <1>1, <1>2, <1>3, LedRelease

LEMMA PlainLed ==
  ASSUME Typed, Led, NEW r \in Request, Plain(r)
  PROVE  Led'
<1>0. TypeOK /\ \A q \in Request \ {r} : call'[q] = call[q]
  BY PlainPhases DEF Typed, Moves
<1>1. \A q \in Request \ {r} : LockStays(q)
  BY <1>0, SameLock
<1>2. CASE RemoveRefresh(r)
  <2>1. call[r].leads /\ isRefreshing' = [isRefreshing EXCEPT ![ClientOf[r]] = FALSE]
    BY <1>2 DEF RemoveRefresh, GiveUp, Led, Clearing
  <2>2. call'[r].leads = FALSE /\ call'[r].phase \notin Exchanging \cup Clearing
    BY <1>0, <1>2, PlainMoves DEF Moves, Exchanging, Clearing
  <2>. QED
    BY <1>0, <1>1, <2>1, <2>2, LeaderReleases
<1>3. CASE ~RemoveRefresh(r)
  <2>1. isRefreshing' = isRefreshing
    BY <1>3 DEF Plain, Send, Judge, JudgeFails, Retry, Wait, Fail, RepeatFails,
       RemoveAccess, memory
  <2>2. LockStays(r)
    <3>1. CASE Fail(r)
      <4>1. call[r].leads = FALSE
        BY <1>0, <3>1, CallTyped DEF Fail, Call
      <4>. QED
        BY <1>0, <3>1, <4>1, PlainMoves DEF Moves, LockStays, Exchanging, Clearing
    <3>2. CASE Send(r) \/ Judge(r) \/ JudgeFails(r) \/ Retry(r) \/ Wait(r)
      <4>1. call'[r].phase \in {"sent", "queued"} /\ call'[r].leads = call[r].leads
        BY <1>0, <3>2, PlainMoves DEF Moves
      <4>. QED
        BY <4>1 DEF LockStays, Exchanging, Clearing, Ended
    <3>3. CASE RepeatFails(r) \/ RemoveAccess(r)
      <4>1. /\ call'[r].phase \in {"clearing", "clearingRefresh"}
            /\ call'[r].leads = call[r].leads
        BY <1>0, <3>3, PlainMoves DEF Moves
      <4>2. call[r].leads
        BY <3>3 DEF RepeatFails, RemoveAccess, Led, Clearing
      <4>. QED
        BY <4>1, <4>2 DEF LockStays, Ended
    <3>. QED
      BY <1>3, <3>1, <3>2, <3>3 DEF Plain
  <2>. QED
    BY <1>1, <2>1, <2>2, LedQuiet
<1>. QED
  BY <1>2, <1>3

LEMMA SucceedLed ==
  ASSUME Typed, Led, Waiting, NEW r \in Request, Succeed(r)
  PROVE  Led'
<1>0. TypeOK /\ ClientOf[r] \in Client /\ call[r].leads \in BOOLEAN
  BY CallTyped DEF Typed, Call
<1>1. \A q \in Request \ {r} : LockStays(q)
  <2>. SUFFICES ASSUME NEW q \in Request, q # r PROVE LockStays(q)
    OBVIOUS
  <2>1. CASE q \in Wakes(r)
    BY <1>0, <2>1, SucceedMoves DEF LockStays, Exchanging, Clearing, Ended
  <2>2. CASE q \notin Wakes(r)
    BY <1>0, <2>2, SucceedMoves, SameLock
  <2>. QED
    BY <2>1, <2>2
<1>2. call'[r].leads = FALSE /\ call'[r].phase \notin Exchanging \cup Clearing
  BY <1>0, SucceedMoves DEF Exchanging, Clearing
<1>3. isRefreshing' = [isRefreshing EXCEPT ![ClientOf[r]] = @ /\ ~call[r].leads]
  BY DEF Succeed
<1>4. CASE call[r].leads
  <2>1. isRefreshing' = [isRefreshing EXCEPT ![ClientOf[r]] = FALSE]
    BY <1>3, <1>4
  <2>. QED
    BY <1>0, <1>1, <1>2, <1>4, <2>1, LeaderReleases
<1>5. CASE ~call[r].leads
  <2>1. isRefreshing' = isRefreshing
    BY <1>0, <1>3, <1>5 DEF TypeOK
  <2>2. LockStays(r)
    BY <1>0, <1>2, <1>5 DEF LockStays
  <2>. QED
    BY <1>1, <2>1, <2>2, LedQuiet
<1>. QED
  BY <1>4, <1>5

LEMMA RefreshingLed ==
  ASSUME Typed, Led, NEW r \in Request, Refreshing(r)
  PROVE  Led'
<1>0. TypeOK /\ ClientOf[r] \in Client /\ call[r].leads \in BOOLEAN
  BY CallTyped DEF Typed, Call
<1>1. \A q \in Request \ {r} : call'[q] = call[q] /\ LockStays(q)
  BY <1>0, RefreshMoves, SameLock DEF Refreshing, Moves
<1>2. CASE StartRefresh(r)
  <2>1. /\ ~isRefreshing[ClientOf[r]]
        /\ isRefreshing' = [isRefreshing EXCEPT ![ClientOf[r]] = TRUE]
    BY <1>2 DEF StartRefresh, Lead
  <2>2. call'[r].leads = TRUE /\ call'[r].phase = "refreshing"
    BY <1>0, <1>2, RefreshMoves DEF Moves
  <2>3. \A q \in Request : call[q].leads => ClientOf[q] # ClientOf[r]
    BY <2>1 DEF Led
  <2>4. \A d \in Client : isRefreshing'[d] = (IF d = ClientOf[r] THEN TRUE ELSE isRefreshing[d])
    BY <1>0, <2>1 DEF TypeOK
  <2>5. \A q \in Request : call'[q].leads =>
          isRefreshing'[ClientOf[q]] /\ call'[q].phase \notin Ended \cup {"idle"}
    <3>1. \A q \in Request \ {r} : call'[q].leads =>
            isRefreshing[ClientOf[q]] /\ call'[q].phase \notin Ended \cup {"idle"}
      BY <1>1 DEF Led
    <3>2. \A q \in Request : ClientOf[q] \in Client
      BY Given
    <3>. QED
      BY <2>2, <2>4, <3>1, <3>2 DEF Ended
  <2>6. \A p, q \in Request :
          call'[p].leads /\ call'[q].leads /\ ClientOf[p] = ClientOf[q] => p = q
    BY <1>1, <2>3 DEF Led
  <2>7. \A d \in Client :
          isRefreshing'[d] => \E q \in Request : ClientOf[q] = d /\ call'[q].leads
    <3>. SUFFICES ASSUME NEW d \in Client, isRefreshing'[d]
                  PROVE  \E q \in Request : ClientOf[q] = d /\ call'[q].leads
      OBVIOUS
    <3>1. CASE d = ClientOf[r]
      BY <2>2, <3>1
    <3>2. CASE d # ClientOf[r]
      <4>1. PICK q \in Request : ClientOf[q] = d /\ call[q].leads
        BY <2>4, <3>2 DEF Led
      <4>. QED
        BY <1>1, <3>2, <4>1
    <3>. QED
      BY <3>1, <3>2
  <2>8. \A q \in Request : call'[q].phase \in Exchanging \cup Clearing => call'[q].leads
    BY <1>1, <2>2 DEF Led
  <2>. QED
    BY <2>5, <2>6, <2>7, <2>8 DEF Led
<1>3. CASE RefreshFails(r)
  <2>1. call[r].leads /\ isRefreshing' = [isRefreshing EXCEPT ![ClientOf[r]] = FALSE]
    BY <1>3 DEF RefreshFails, Refreshed, GiveUp, Led, Exchanging
  <2>2. call'[r].leads = FALSE /\ call'[r].phase \notin Exchanging \cup Clearing
    BY <1>0, <1>3, RefreshMoves DEF Moves, Exchanging, Clearing
  <2>. QED
    BY <1>0, <1>1, <2>1, <2>2, LeaderReleases
<1>4. CASE TakePair(r) \/ SaveAccess(r) \/ SaveRefresh(r) \/ RetryRefresh(r)
  <2>1. isRefreshing' = isRefreshing /\ call[r].leads
    BY <1>4 DEF TakePair, SaveAccess, SaveRefresh, RetryRefresh, Refreshed, memory, Led,
       Exchanging
  <2>2. /\ call'[r].leads = call[r].leads
        /\ call'[r].phase \in {"saving", "savingRefresh", "sent", "refreshing"}
    BY <1>0, <1>4, RefreshMoves DEF Moves
  <2>3. LockStays(r)
    BY <2>1, <2>2 DEF LockStays, Ended
  <2>. QED
    BY <1>1, <2>1, <2>3, LedQuiet
<1>. QED
  BY <1>2, <1>3, <1>4 DEF Refreshing

\* What a step of a handler makes of the requests: an answer, or nothing.
LEMMA ServingCalls ==
  ASSUME TypeOK, NEW r \in Request, Serving(r)
  PROVE  /\ \A q \in Request \ {r} : call'[q] = call[q]
         /\ call'[r] # call[r] => call[r].phase = "refreshing"
         /\ call'[r].phase = call[r].phase /\ call'[r].leads = call[r].leads
         /\ call'[r].key = call[r].key
<1>1. \/ call' = call
      \/ \E answer \in {"ok", "denied", "error"} : Reply(r, answer)
  BY DEF Serving, LookupRefresh, LookupFails, DeleteToken, DeleteRefresh, DeleteFails,
     IssueToken, IssueRefresh, IssueFails, Abandon
<1>. QED
  BY <1>1, ReplyMoves DEF Moves, Carries

LEMMA ServingLed ==
  ASSUME Typed, Led, NEW r \in Request, Serving(r)
  PROVE  Led'
<1>1. isRefreshing' = isRefreshing
  BY DEF Serving, LookupRefresh, LookupFails, DeleteToken, DeleteRefresh, DeleteFails,
     IssueToken, IssueRefresh, IssueFails, Abandon, memory
<1>2. \A q \in Request : LockStays(q)
  <2>1. \A q \in Request : /\ call'[q].phase = call[q].phase
                           /\ call'[q].leads = call[q].leads
    BY ServingCalls DEF Typed
  <2>. QED
    BY <2>1 DEF LockStays, Led
<1>. QED
  BY <1>1, <1>2, LedQuiet

LEMMA RestartLed ==
  ASSUME Typed, Led, NEW c \in Client, Restart(c)
  PROVE  Led'
<1>0. TypeOK /\ isRefreshing' = [isRefreshing EXCEPT ![c] = FALSE]
  BY DEF Typed, Restart
<1>1. \A q \in Request : ClientOf[q] # c => LockStays(q)
  BY <1>0, RestartMoves, SameLock DEF Ends
<1>2. \A q \in Request : ClientOf[q] = c =>
        call'[q].leads = FALSE /\ call'[q].phase \notin Exchanging \cup Clearing
  <2>. SUFFICES ASSUME NEW q \in Request, ClientOf[q] = c
                PROVE  call'[q].leads = FALSE /\ call'[q].phase \notin Exchanging \cup Clearing
    OBVIOUS
  <2>1. CASE q \in Ends(c)
    BY <1>0, <2>1, RestartMoves DEF Exchanging, Clearing
  <2>2. CASE q \notin Ends(c)
    <3>1. call'[q] = call[q] /\ call[q].phase \in Ended \cup {"idle"}
      BY <1>0, <2>2, RestartMoves DEF Ends
    <3>2. call[q].leads = FALSE
      BY <1>0, <3>1, CallTyped DEF Led, Call
    <3>. QED
      BY <3>1, <3>2 DEF Ended, Exchanging, Clearing
  <2>. QED
    BY <2>1, <2>2
<1>. QED
  BY <1>0, <1>1, <1>2, LedRelease

LEMMA WaitingKept ==
  ASSUME TypeOK, Waiting, \A c \in Client : queue'[c] \subseteq queue[c],
         \A c \in Client : \A q \in queue'[c] : call'[q] = call[q]
  PROVE  Waiting'
BY DEF Waiting

LEMMA StepWaiting ==
  ASSUME Typed, Waiting, [Next]_vars
  PROVE  Waiting'
<1>0. TypeOK /\ queue \in [Client -> SUBSET Request]
  BY DEF Typed, TypeOK
<1>1. ASSUME NEW r \in Request, call[r].phase # "queued", UNCHANGED queue,
             \A q \in Request \ {r} : call'[q] = call[q]
      PROVE  Waiting'
  BY <1>0, <1>1, WaitingKept DEF Waiting
<1>2. ASSUME NEW r \in Request, Plain(r) PROVE Waiting'
  <2>1. \A q \in Request \ {r} : call'[q] = call[q]
    BY <1>0, <1>2, PlainPhases DEF Moves
  <2>2. CASE Wait(r)
    <3>1. queue' = [queue EXCEPT ![ClientOf[r]] = @ \cup {r}] /\ call[r].phase = "sent"
      BY <2>2 DEF Wait, Received
    <3>2. call'[r].phase = "queued"
      BY <1>0, <2>2, PlainMoves DEF Moves
    <3>. QED
      BY <1>0, <2>1, <3>1, <3>2, Given DEF Waiting
  <2>3. CASE ~Wait(r)
    <3>1. call[r].phase # "queued" /\ UNCHANGED queue
      BY <1>2, <2>3 DEF Plain, Send, Judge, JudgeFails, Retry, Fail, Refused, RepeatFails,
         RemoveAccess, RemoveRefresh, Received, memory
    <3>. QED
      BY <1>1, <2>1, <3>1
  <2>. QED
    BY <2>2, <2>3
<1>3. ASSUME NEW r \in Request, Succeed(r) PROVE Waiting'
  <2>1. /\ queue' = [queue EXCEPT ![ClientOf[r]] = @ \ Wakes(r)]
        /\ call[r].phase = "sent"
    BY <1>3 DEF Succeed, Received, Wakes
  <2>2. \A c \in Client : queue'[c] \subseteq queue[c]
    BY <1>0, <2>1
  <2>3. \A c \in Client : \A q \in queue'[c] : q \notin Wakes(r) /\ q # r
    <3>. SUFFICES ASSUME NEW c \in Client, NEW q \in queue'[c]
                  PROVE  q \notin Wakes(r) /\ q # r
      OBVIOUS
    <3>1. q \in queue[c] /\ call[q].phase = "queued" /\ ClientOf[q] = c
      BY <2>2 DEF Waiting
    <3>2. CASE c = ClientOf[r]
      BY <1>0, <2>1, <3>1, <3>2
    <3>3. CASE c # ClientOf[r]
      BY <2>1, <3>1, <3>3, Given DEF Waiting, Wakes
    <3>. QED
      BY <3>2, <3>3
  <2>4. \A c \in Client : \A q \in queue'[c] : call'[q] = call[q]
    BY <1>0, <1>3, <2>2, <2>3, SucceedMoves
  <2>. QED
    BY <1>0, <2>2, <2>4, WaitingKept
<1>4. ASSUME NEW r \in Request, Refreshing(r) PROVE Waiting'
  <2>1. call[r].phase # "queued" /\ UNCHANGED queue
    BY <1>4 DEF Refreshing, StartRefresh, Lead, TakePair, SaveAccess, SaveRefresh,
       RetryRefresh, RefreshFails, GiveUp, Received, Refreshed, memory
  <2>2. \A q \in Request \ {r} : call'[q] = call[q]
    BY <1>0, <1>4, RefreshMoves DEF Refreshing, Moves
  <2>. QED
    BY <1>1, <2>1, <2>2
<1>5. ASSUME NEW r \in Request, Serving(r) PROVE Waiting'
  <2>1. UNCHANGED queue
    BY <1>5 DEF Serving, LookupRefresh, LookupFails, DeleteToken, DeleteRefresh,
       DeleteFails, IssueToken, IssueRefresh, IssueFails, Abandon, memory
  <2>2. \A q \in Request : call'[q].phase = call[q].phase
    BY <1>0, <1>5, ServingCalls
  <2>. QED
    BY <1>0, <2>1, <2>2 DEF Waiting
<1>6. ASSUME NEW c \in Client, Restart(c) PROVE Waiting'
  <2>1. queue' = [queue EXCEPT ![c] = {}]
    BY <1>6 DEF Restart
  <2>2. \A d \in Client : queue'[d] \subseteq queue[d]
    BY <1>0, <2>1
  <2>3. \A d \in Client : \A q \in queue'[d] : q \notin Ends(c) /\ q \in Request
    BY <1>0, <2>1 DEF Waiting, Ends
  <2>4. \A d \in Client : \A q \in queue'[d] : call'[q] = call[q]
    BY <1>0, <1>6, <2>3, RestartMoves
  <2>. QED
    BY <1>0, <2>2, <2>4, WaitingKept
<1>7. ASSUME \/ \E k \in Pair : ExpireToken(k) \/ ExpireRefresh(k)
             \/ UNCHANGED vars
      PROVE  Waiting'
  <2>1. UNCHANGED <<queue, call>>
    BY <1>7 DEF ExpireToken, ExpireRefresh, vars, memory
  <2>. QED
    BY <2>1 DEF Waiting
<1>. QED
  BY <1>2, <1>3, <1>4, <1>5, <1>6, <1>7, Steps

LEMMA StepLed ==
  ASSUME Typed, Led, Waiting, [Next]_vars
  PROVE  Led'
<1>1. ASSUME \/ \E k \in Pair : ExpireToken(k) \/ ExpireRefresh(k)
             \/ UNCHANGED vars
      PROVE  Led'
  <2>1. UNCHANGED <<isRefreshing, call>>
    BY <1>1 DEF ExpireToken, ExpireRefresh, vars, memory
  <2>. QED
    BY <2>1 DEF Led
<1>. QED
  BY <1>1, PlainLed, SucceedLed, RefreshingLed, ServingLed, RestartLed, Steps

LEMMA LedIsOne == Led => OneRefreshPerClient
<1>. SUFFICES ASSUME Led, NEW c \in Client
              PROVE  IF isRefreshing[c] THEN \E r \in Request : Leaders(c) = {r}
                                        ELSE Leaders(c) = {}
  BY DEF OneRefreshPerClient
<1>1. CASE isRefreshing[c]
  <2>1. PICK r \in Request : ClientOf[r] = c /\ call[r].leads
    BY <1>1 DEF Led
  <2>2. Leaders(c) = {r}
    BY <2>1 DEF Led, Leaders
  <2>. QED
    BY <1>1, <2>2
<1>2. CASE ~isRefreshing[c]
  BY <1>2 DEF Led, Leaders
<1>. QED
  BY <1>1, <1>2

LEMMA AlwaysLed == Spec => [](Typed /\ Led /\ Waiting)
BY InitTyped, InitLed, StepTyped, StepLed, StepWaiting, PTL DEF Spec

(***************************************************************************)
(* _isRefreshing excludes: whatever becomes of refreshes, of the requests  *)
(* repeated after them and of the process, the flag is set exactly while   *)
(* one request of the client is answerable for it.                         *)
(***************************************************************************)
THEOREM OneRefreshAtATime == Spec => []OneRefreshPerClient
BY AlwaysLed, LedIsOne, PTL

-----------------------------------------------------------------------------
(***************************************************************************)
(* A handler at work serves the refresh call its client waits for, or one  *)
(* whose client is gone.                                                   *)
(***************************************************************************)
ServedCall(r) ==
  handler[r].at # "idle" =>
    \/ /\ call[r].phase = "refreshing" /\ call[r].answer = "none"
       /\ call[r].key = handler[r].key
    \/ call[r].phase = "killed" /\ handler[r].key \in burnt

Served == \A r \in Request : ServedCall(r)

\* The steps of Serving, by what becomes of the handler.
LEMMA ServingHands ==
  ASSUME TypeOK, NEW r \in Request, Serving(r)
  PROVE  /\ handler[r].at # "idle" /\ \A q \in Request \ {r} : handler'[q] = handler[q]
         /\ handler'[r].at # "idle" => handler'[r].key = handler[r].key /\ call' = call
         /\ IssueToken(r) \/ (At(r, "issued")' => At(r, "issued") /\ handler' = handler)
         /\ burnt \subseteq burnt'
<1>1. handler[r].at # "idle"
  BY DEF Serving, LookupRefresh, LookupFails, DeleteToken, DeleteRefresh, DeleteFails,
     IssueToken, IssueRefresh, IssueFails, Abandon, At
<1>2. burnt \subseteq burnt'
  BY DEF Serving, LookupRefresh, LookupFails, DeleteToken, DeleteRefresh, DeleteFails,
     IssueToken, IssueRefresh, IssueFails, Abandon, history
<1>3. ASSUME NEW at \in {"found", "unlinked", "revoked"}, Go(r, at)
      PROVE  /\ \A q \in Request \ {r} : handler'[q] = handler[q]
             /\ handler'[r].key = handler[r].key /\ ~At(r, "issued")'
  BY <1>1, <1>3, GoHands DEF Hands, At
<1>4. ASSUME NEW answer \in {"ok", "denied", "error"}, Reply(r, answer)
      PROVE  /\ \A q \in Request \ {r} : handler'[q] = handler[q]
             /\ handler'[r].at = "idle"
  BY <1>4, ReplyMoves DEF Hands
<1>5. CASE IssueToken(r)
  <2>1. handler' = [handler EXCEPT ![r].at = "issued", ![r].pair = pairs + 1] /\ call' = call
    BY <1>5 DEF IssueToken
  <2>2. handler'[r].key = handler[r].key
    BY <1>1, <2>1, AtWork DEF TypeOK, Working, Handler
  <2>3. \A q \in Request \ {r} : handler'[q] = handler[q]
    BY <2>1 DEF TypeOK
  <2>. QED
    BY <1>1, <1>2, <1>5, <2>1, <2>2, <2>3
<1>6. CASE Abandon(r)
  <2>1. handler' = [handler EXCEPT ![r] = Free]
    BY <1>6 DEF Abandon
  <2>2. handler'[r].at = "idle"
    BY <2>1 DEF TypeOK, Free
  <2>. QED
    BY <1>1, <1>2, <2>1, <2>2 DEF At
<1>7. CASE ~IssueToken(r) /\ ~Abandon(r)
  <2>1. \/ \E at \in {"found", "unlinked", "revoked"} : Go(r, at) /\ call' = call
        \/ \E answer \in {"ok", "denied", "error"} : Reply(r, answer)
    BY <1>7 DEF Serving, LookupRefresh, LookupFails, DeleteToken, DeleteRefresh,
       DeleteFails, IssueRefresh, IssueFails
  <2>. QED
    BY <1>1, <1>2, <1>3, <1>4, <2>1 DEF At
<1>. QED
  BY <1>5, <1>6, <1>7

LEMMA ServedKept ==
  ASSUME Served, NEW r \in Request, handler'[r] = handler[r], burnt \subseteq burnt',
         call'[r] = call[r] \/ call[r].phase \notin {"refreshing", "killed"}
  PROVE  ServedCall(r)'
BY DEF Served, ServedCall

LEMMA StepServed ==
  ASSUME Typed, Waiting, Served, [Next]_vars
  PROVE  Served'
<1>0. TypeOK /\ call \in [Request -> Call] /\ handler \in [Request -> Handler]
  BY DEF Typed, TypeOK
<1>1. ASSUME NEW r \in Request, Plain(r) PROVE Served'
  <2>1. call[r].phase \notin {"refreshing", "killed"} /\ UNCHANGED <<handler, burnt>>
    BY <1>1 DEF Plain, Send, Judge, JudgeFails, Retry, Wait, Fail, Refused, RepeatFails,
       RemoveAccess, RemoveRefresh, Received, history
  <2>2. \A q \in Request \ {r} : call'[q] = call[q]
    BY <1>0, <1>1, PlainPhases DEF Moves
  <2>. QED
    BY <2>1, <2>2, ServedKept DEF Served
<1>2. ASSUME NEW r \in Request, Succeed(r) PROVE Served'
  <2>1. /\ call[r].phase \notin {"refreshing", "killed"} /\ UNCHANGED <<handler, burnt>>
        /\ ClientOf[r] \in Client
    BY <1>2, Given DEF Succeed, Received
  <2>2. \A q \in Wakes(r) : call[q].phase \notin {"refreshing", "killed"}
    BY <1>2, <2>1 DEF Wakes, Waiting
  <2>3. \A q \in Request : q = r \/ q \in Wakes(r) \/ call'[q] = call[q]
    BY <1>0, <1>2, SucceedMoves
  <2>. QED
    BY <2>1, <2>2, <2>3, ServedKept DEF Served
<1>3. ASSUME NEW r \in Request, Refreshing(r) PROVE Served'
  <2>1. \A q \in Request \ {r} : call'[q] = call[q]
    BY <1>0, <1>3, RefreshMoves DEF Refreshing, Moves
  <2>2. UNCHANGED burnt
    BY <1>3 DEF Refreshing, StartRefresh, Lead, TakePair, SaveAccess, SaveRefresh,
       RetryRefresh, RefreshFails, history
  <2>3. CASE StartRefresh(r) \/ RetryRefresh(r)
    <3>1. /\ call'[r].phase = "refreshing" /\ call'[r].answer = "none"
          /\ handler' = [handler EXCEPT ![r] = [@ EXCEPT !.at = "called",
                                                        !.key = call'[r].key]]
          /\ call'[r].key \in Pair
      <4>1. CASE StartRefresh(r)
        <5>1. Moves(r, "refreshing", TRUE) /\ Carries(r, refresh[ClientOf[r]], call[r].pair, "none")
          BY <1>0, <4>1, RefreshMoves
        <5>2. refresh[ClientOf[r]] \in Pair
          BY <1>0, <4>1, CallTyped DEF StartRefresh
        <5>. QED
          BY <4>1, <5>1, <5>2 DEF StartRefresh, Lead, Moves, Carries
      <4>2. CASE RetryRefresh(r)
        <5>1. Moves(r, "refreshing", call[r].leads) /\ Carries(r, call[r].key, call[r].pair, "none")
          BY <1>0, <4>2, RefreshMoves
        <5>2. call[r].key \in Pair
          BY <4>2, PairFacts DEF RetryRefresh, Refreshed, Exchanging
        <5>. QED
          BY <4>2, <5>1, <5>2 DEF RetryRefresh, Moves, Carries
      <4>. QED
        BY <2>3, <4>1, <4>2
    <3>2. Hands(r, "called", call'[r].key, handler[r].pair)
      BY <1>0, <3>1, CallHands
    <3>3. ServedCall(r)'
      BY <3>1, <3>2 DEF ServedCall, Hands
    <3>. QED
      BY <2>1, <2>2, <3>2, <3>3, ServedKept DEF Served, Hands
  <2>4. CASE ~(StartRefresh(r) \/ RetryRefresh(r))
    <3>1. UNCHANGED handler /\ call[r].phase # "killed"
      BY <1>3, <2>4 DEF Refreshing, TakePair, SaveAccess, SaveRefresh, RefreshFails, Refreshed
    <3>2. call[r].phase = "refreshing" => call[r].answer # "none"
      BY <1>3, <2>4 DEF Refreshing, TakePair, SaveAccess, SaveRefresh, RefreshFails, Refreshed
    <3>3. handler[r].at = "idle"
      BY <3>1, <3>2 DEF Served, ServedCall
    <3>4. ServedCall(r)'
      BY <3>1, <3>3 DEF ServedCall
    <3>. QED
      BY <2>1, <2>2, <3>1, <3>4, ServedKept DEF Served
  <2>. QED
    BY <2>3, <2>4
<1>4. ASSUME NEW r \in Request, Serving(r) PROVE Served'
  <2>1. \A q \in Request \ {r} : ServedCall(q)'
    BY <1>0, <1>4, ServingHands, ServingCalls, ServedKept
  <2>2. ServedCall(r)'
    BY <1>0, <1>4, ServingHands DEF Served, ServedCall
  <2>. QED
    BY <2>1, <2>2 DEF Served
<1>5. ASSUME NEW c \in Client, Restart(c) PROVE Served'
  <2>1. UNCHANGED handler /\ burnt \subseteq burnt'
        /\ \A q \in Request : ClientOf[q] = c /\ call[q].phase = "refreshing"
                                => call[q].key \in burnt'
    BY <1>5 DEF Restart
  <2>2. \A q \in Ends(c) : call'[q].phase = "killed"
    BY <1>0, <1>5, RestartMoves
  <2>. SUFFICES ASSUME NEW q \in Request PROVE ServedCall(q)'
    BY DEF Served
  <2>3. CASE q \in Ends(c)
    <3>1. handler[q].at # "idle" => call[q].phase = "refreshing" /\ call[q].key = handler[q].key
      BY <2>3 DEF Ends, Ended, Served, ServedCall
    <3>. QED
      BY <2>1, <2>2, <2>3, <3>1 DEF ServedCall, Ends
  <2>4. CASE q \notin Ends(c)
    BY <1>0, <1>5, <2>1, <2>4, RestartMoves, ServedKept
  <2>. QED
    BY <2>3, <2>4
<1>6. ASSUME \/ \E k \in Pair : ExpireToken(k) \/ ExpireRefresh(k)
             \/ UNCHANGED vars
      PROVE  Served'
  <2>1. UNCHANGED <<handler, call, burnt>>
    BY <1>6 DEF ExpireToken, ExpireRefresh, vars, history
  <2>. QED
    BY <2>1 DEF Served, ServedCall
<1>. QED
  BY <1>1, <1>2, <1>3, <1>4, <1>5, <1>6, Steps

-----------------------------------------------------------------------------
(***************************************************************************)
(* A pair that is on its way from the handler to the shared preferences is *)
(* known to nobody else, so that nobody else can spend it.                 *)
(***************************************************************************)
Saving == {"saving", "savingRefresh"}

InHand(r, p) ==
  \/ At(r, "issued") /\ handler[r].pair = p
  \/ Arrived(r) /\ call[r].pair = p

\* Keys that may be exchanged, or be read from the preferences.
Spread(p) ==
  \/ \E q \in Request : handler[q].at # "idle" /\ handler[q].key = p
  \/ \E q \in Request : call[q].phase = "refreshing" /\ call[q].key = p
  \/ stored.refresh = p

Secret(r, p) ==
  InHand(r, p) =>
    /\ ~Spread(p)
    /\ \A c \in Client : refresh[c] = p => c = ClientOf[r] /\ call[r].phase \in Saving
    /\ \A q \in Request : InHand(q, p) => q = r

Fresh == \A r \in Request, p \in 0 .. pairs : Secret(r, p)

LEMMA InitFresh == Init => Served /\ Fresh
<1>. SUFFICES ASSUME Init PROVE Served /\ Fresh
  OBVIOUS
<1>1. \A r \in Request : handler[r].at = "idle" /\ call[r].phase = "idle"
  BY DEF Init, Free, Blank
<1>. QED
  BY <1>1 DEF Served, ServedCall, Fresh, Secret, InHand, Arrived, At

\* A step that puts nothing into anybody's hand and spreads nothing of what is.
LEMMA FreshKept ==
  ASSUME Fresh, pairs' = pairs,
         \A r \in Request, p \in 0 .. pairs : InHand(r, p)' =>
           /\ InHand(r, p) /\ (Spread(p)' => Spread(p))
           /\ \A c \in Client : refresh'[c] = p => c = ClientOf[r] /\ call'[r].phase \in Saving
  PROVE  Fresh'
<1>. SUFFICES ASSUME NEW r \in Request, NEW p \in 0 .. pairs, InHand(r, p)'
              PROVE  Secret(r, p)'
  BY DEF Fresh, Secret
<1>1. Secret(r, p) /\ InHand(r, p)
  BY DEF Fresh
<1>2. ~Spread(p)'
  BY <1>1 DEF Secret
<1>3. \A q \in Request : InHand(q, p)' => q = r
  BY <1>1 DEF Secret
<1>. QED
  BY <1>2, <1>3 DEF Secret

\* What a request that is not touched has in hand.
LEMMA HandKept ==
  ASSUME NEW r \in Request, handler'[r] = handler[r], call'[r] = call[r], NEW p
  PROVE  InHand(r, p)' <=> InHand(r, p)
BY DEF InHand, Arrived, At

\* Outside a refresh, a client has only what a handler is about to answer.
LEMMA FreshOutside ==
  ASSUME TypeOK, Fresh, Served, pairs' = pairs, handler' = handler,
         stored'.refresh \in {stored.refresh, None},
         \A c \in Client : refresh'[c] \in {refresh[c], stored.refresh, None},
         NEW S \in SUBSET Request,
         \A q \in S : call'[q].phase \notin Exchanging,
         \A q \in Request \ S : call'[q] = call[q]
  PROVE  Fresh'
<1>0. None \notin 0 .. pairs
  BY Given DEF TypeOK, Pair
<1>1. ASSUME NEW r \in Request, NEW p \in 0 .. pairs, InHand(r, p)'
      PROVE  InHand(r, p)
  <2>1. CASE r \in S
    <3>1. ~Arrived(r)'
      BY <2>1 DEF Arrived, Exchanging
    <3>. QED
      BY <1>1, <3>1 DEF InHand, At
  <2>2. CASE r \notin S
    BY <1>1, <2>2, HandKept
  <2>. QED
    BY <2>1, <2>2
<1>2. ASSUME NEW p \in 0 .. pairs, Spread(p)'
      PROVE  Spread(p)
  BY <1>0, <1>2 DEF Spread, Exchanging
<1>3. ASSUME NEW r \in Request, NEW p \in 0 .. pairs, InHand(r, p)',
             NEW c \in Client, refresh'[c] = p
      PROVE  c = ClientOf[r] /\ call'[r].phase \in Saving
  <2>1. Secret(r, p) /\ InHand(r, p)
    BY <1>1, <1>3 DEF Fresh
  <2>2. refresh[c] = p /\ refresh'[c] = refresh[c]
    BY <1>0, <1>3, <2>1 DEF Secret, Spread
  <2>3. c = ClientOf[r] /\ call[r].phase \in Saving
    BY <2>1, <2>2 DEF Secret
  <2>4. r \notin S
    <3>. SUFFICES ASSUME r \in S PROVE FALSE
      OBVIOUS
    <3>1. At(r, "issued")
      BY <1>3 DEF InHand, Arrived, Exchanging, At
    <3>. QED
      BY <2>3, <3>1 DEF Served, ServedCall, At, Saving
  <2>. QED
    BY <2>3, <2>4
<1>. QED
  BY <1>1, <1>2, <1>3, FreshKept

LEMMA RefreshingFresh ==
  ASSUME Typed, Led, Served, Fresh, NEW r \in Request, Refreshing(r)
  PROVE  Fresh'
<1>0. /\ TypeOK /\ ClientOf[r] \in Client /\ refresh \in [Client -> Pair \cup {None}]
      /\ None \notin 0 .. pairs
  BY Given DEF Typed, TypeOK, Pair
<1>1. pairs' = pairs /\ \A q \in Request \ {r} : call'[q] = call[q]
  BY <1>0, RefreshMoves DEF Refreshing, Moves, StartRefresh, Lead, TakePair, SaveAccess,
     SaveRefresh, RetryRefresh, RefreshFails, redis
<1>2. ASSUME NEW q \in Request, NEW p \in 0 .. pairs, InHand(q, p)
      PROVE  /\ ~Spread(p) /\ \A s \in Request : InHand(s, p) => s = q
             /\ \A c \in Client : refresh[c] = p => c = ClientOf[q] /\ call[q].phase \in Saving
  BY <1>2 DEF Fresh, Secret
<1>3. CASE StartRefresh(r)
  <2>1. /\ UNCHANGED <<refresh, stored>> /\ ~isRefreshing[ClientOf[r]]
        /\ handler' = [handler EXCEPT ![r] = [@ EXCEPT !.at = "called",
                                                      !.key = refresh[ClientOf[r]]]]
    BY <1>3 DEF StartRefresh, Lead
  <2>2. /\ call'[r].phase = "refreshing" /\ call'[r].answer = "none"
        /\ call'[r].key = refresh[ClientOf[r]]
    BY <1>0, <1>3, RefreshMoves DEF Moves, Carries
  <2>3. /\ \A q \in Request \ {r} : handler'[q] = handler[q]
        /\ handler'[r].at = "called" /\ handler'[r].key = refresh[ClientOf[r]]
    <3>1. refresh[ClientOf[r]] \in Pair
      BY <1>0, <1>3 DEF StartRefresh
    <3>. QED
      BY <1>0, <2>1, <3>1, CallHands DEF Hands
  <2>4. ASSUME NEW q \in Request, NEW p \in 0 .. pairs, InHand(q, p)'
        PROVE  q # r /\ InHand(q, p)
    <3>1. ~InHand(r, p)'
      BY <2>2, <2>3 DEF InHand, Arrived, At
    <3>. QED
      BY <1>1, <2>3, <2>4, <3>1, HandKept
  <2>5. ASSUME NEW q \in Request, NEW p \in 0 .. pairs, InHand(q, p)'
        PROVE  refresh[ClientOf[r]] # p
    <3>. SUFFICES ASSUME refresh[ClientOf[r]] = p PROVE FALSE
      OBVIOUS
    <3>1. ClientOf[r] = ClientOf[q] /\ call[q].phase \in Saving
      BY <1>0, <1>2, <2>4, <2>5
    <3>2. call[q].leads
      BY <3>1 DEF Led, Saving, Exchanging
    <3>. QED
      BY <2>1, <3>1, <3>2 DEF Led
  <2>6. ASSUME NEW q \in Request, NEW p \in 0 .. pairs, InHand(q, p)'
        PROVE  /\ InHand(q, p) /\ (Spread(p)' => Spread(p))
               /\ \A c \in Client : refresh'[c] = p => c = ClientOf[q] /\ call'[q].phase \in Saving
    <3>1. q # r /\ InHand(q, p) /\ refresh[ClientOf[r]] # p
      BY <2>4, <2>5, <2>6
    <3>2. Spread(p)' => Spread(p)
      BY <1>1, <2>1, <2>2, <2>3, <3>1 DEF Spread
    <3>3. \A c \in Client : refresh'[c] = p => c = ClientOf[q] /\ call'[q].phase \in Saving
      BY <1>1, <1>2, <2>1, <3>1
    <3>. QED
      BY <3>1, <3>2, <3>3
  <2>. QED
    BY <1>1, <2>6, FreshKept
<1>4. CASE TakePair(r)
  <2>1. /\ refresh' = [refresh EXCEPT ![ClientOf[r]] = call[r].pair]
        /\ UNCHANGED <<handler, stored>> /\ Arrived(r)
    BY <1>4 DEF TakePair, Refreshed, Arrived
  <2>2. call'[r].phase = "saving" /\ call'[r].pair = call[r].pair
    BY <1>0, <1>4, RefreshMoves DEF Moves, Carries
  <2>3. ASSUME NEW q \in Request, NEW p \in 0 .. pairs, InHand(q, p)'
        PROVE  InHand(q, p)
    <3>1. CASE q = r
      BY <2>1, <2>2, <2>3, <3>1 DEF InHand, At
    <3>2. CASE q # r
      BY <1>1, <2>1, <2>3, <3>2, HandKept
    <3>. QED
      BY <3>1, <3>2
  <2>4. ASSUME NEW q \in Request, NEW p \in 0 .. pairs, InHand(q, p)',
               NEW c \in Client, refresh'[c] = p
        PROVE  c = ClientOf[q] /\ call'[q].phase \in Saving
    <3>1. InHand(q, p)
      BY <2>3, <2>4
    <3>2. CASE c = ClientOf[r]
      <4>1. call[r].pair = p
        BY <1>0, <2>1, <2>4, <3>2
      <4>2. InHand(r, p)
        BY <2>1, <4>1 DEF InHand
      <4>3. q = r
        BY <1>2, <3>1, <4>2
      <4>. QED
        BY <2>2, <3>2, <4>3 DEF Saving
    <3>3. CASE c # ClientOf[r]
      <4>1. refresh[c] = p
        BY <1>0, <2>1, <2>4, <3>3
      <4>2. c = ClientOf[q] /\ call[q].phase \in Saving
        BY <1>2, <3>1, <4>1
      <4>. QED
        BY <1>1, <3>3, <4>2
    <3>. QED
      BY <3>2, <3>3
  <2>5. ASSUME NEW p, Spread(p)' PROVE Spread(p)
    BY <1>1, <2>1, <2>2, <2>5 DEF Spread
  <2>. QED
    BY <1>1, <2>3, <2>4, <2>5, FreshKept
<1>5. CASE SaveAccess(r)
  <2>1. /\ UNCHANGED <<handler, refresh>> /\ call[r].phase = "saving"
        /\ stored' = [stored EXCEPT !.access = call[r].pair]
    BY <1>5 DEF SaveAccess, memory
  <2>2. stored'.refresh = stored.refresh
    BY <1>0, <2>1 DEF TypeOK
  <2>3. call'[r].phase = "savingRefresh" /\ call'[r].pair = call[r].pair
    BY <1>0, <1>5, RefreshMoves DEF Moves, Carries
  <2>4. ASSUME NEW q \in Request, NEW p \in 0 .. pairs, InHand(q, p)'
        PROVE  InHand(q, p)
    <3>1. CASE q = r
      BY <2>1, <2>3, <2>4, <3>1 DEF InHand, At, Arrived
    <3>2. CASE q # r
      BY <1>1, <2>1, <2>4, <3>2, HandKept
    <3>. QED
      BY <3>1, <3>2
  <2>5. ASSUME NEW p, Spread(p)' PROVE Spread(p)
    BY <1>1, <2>1, <2>2, <2>3, <2>5 DEF Spread
  <2>6. ASSUME NEW q \in Request, NEW p \in 0 .. pairs, InHand(q, p)',
               NEW c \in Client, refresh'[c] = p
        PROVE  c = ClientOf[q] /\ call'[q].phase \in Saving
    BY <1>1, <1>2, <2>1, <2>3, <2>4, <2>6 DEF Saving
  <2>. QED
    BY <1>1, <2>4, <2>5, <2>6, FreshKept
<1>6. CASE SaveRefresh(r)
  <2>1. /\ UNCHANGED <<handler, refresh>> /\ call[r].phase = "savingRefresh"
        /\ stored' = [stored EXCEPT !.refresh = call[r].pair]
    BY <1>6 DEF SaveRefresh, memory
  <2>2. stored'.refresh = call[r].pair /\ InHand(r, call[r].pair)
        /\ call[r].pair \in 0 .. pairs
    BY <1>0, <2>1, PairFacts DEF TypeOK, InHand, Arrived
  <2>3. call'[r].phase = "sent"
    BY <1>0, <1>6, RefreshMoves DEF Moves
  <2>4. handler[r].at = "idle"
    BY <2>1 DEF Served, ServedCall
  <2>5. ASSUME NEW q \in Request, NEW p \in 0 .. pairs, InHand(q, p)'
        PROVE  q # r /\ InHand(q, p) /\ p # call[r].pair
    <3>1. q # r
      BY <2>1, <2>3, <2>4, <2>5 DEF InHand, At, Arrived
    <3>2. InHand(q, p)
      BY <1>1, <2>1, <2>5, <3>1, HandKept
    <3>. QED
      BY <1>2, <2>2, <3>1, <3>2
  <2>6. ASSUME NEW p, p # call[r].pair, Spread(p)' PROVE Spread(p)
    BY <1>1, <2>1, <2>2, <2>3, <2>6 DEF Spread
  <2>7. ASSUME NEW q \in Request, NEW p \in 0 .. pairs, InHand(q, p)',
               NEW c \in Client, refresh'[c] = p
        PROVE  c = ClientOf[q] /\ call'[q].phase \in Saving
    BY <1>1, <1>2, <2>1, <2>5, <2>7
  <2>. QED
    BY <1>1, <2>5, <2>6, <2>7, FreshKept
<1>7. CASE RetryRefresh(r)
  <2>1. /\ UNCHANGED <<refresh, stored>> /\ call[r].phase = "refreshing"
        /\ handler' = [handler EXCEPT ![r] = [@ EXCEPT !.at = "called", !.key = call[r].key]]
    BY <1>7 DEF RetryRefresh, Refreshed, memory
  <2>2. /\ call'[r].phase = "refreshing" /\ call'[r].answer = "none"
        /\ call'[r].key = call[r].key
    BY <1>0, <1>7, RefreshMoves DEF Moves, Carries
  <2>3. /\ \A q \in Request \ {r} : handler'[q] = handler[q]
        /\ handler'[r].at = "called" /\ handler'[r].key = call[r].key
    <3>1. call[r].key \in Pair
      BY <2>1, PairFacts DEF Exchanging
    <3>. QED
      BY <1>0, <2>1, <3>1, CallHands DEF Hands
  <2>4. ASSUME NEW q \in Request, NEW p \in 0 .. pairs, InHand(q, p)'
        PROVE  q # r /\ InHand(q, p)
    <3>1. ~InHand(r, p)'
      BY <2>2, <2>3 DEF InHand, Arrived, At
    <3>. QED
      BY <1>1, <2>3, <2>4, <3>1, HandKept
  <2>5. ASSUME NEW p, Spread(p)' PROVE Spread(p)
    BY <1>1, <2>1, <2>2, <2>3, <2>5 DEF Spread
  <2>6. ASSUME NEW q \in Request, NEW p \in 0 .. pairs, InHand(q, p)',
               NEW c \in Client, refresh'[c] = p
        PROVE  c = ClientOf[q] /\ call'[q].phase \in Saving
    BY <1>1, <1>2, <2>1, <2>4, <2>6
  <2>. QED
    BY <1>1, <2>4, <2>5, <2>6, FreshKept
<1>8. CASE RefreshFails(r)
  <2>1. UNCHANGED <<handler, refresh, stored>>
    BY <1>8 DEF RefreshFails
  <2>2. call'[r].phase \notin Exchanging
    BY <1>0, <1>8, RefreshMoves DEF Moves, Exchanging
  <2>3. {r} \in SUBSET Request /\ \A q \in {r} : call'[q].phase \notin Exchanging
    BY <2>2
  <2>. QED
    BY <1>0, <1>1, <2>1, <2>3, FreshOutside
<1>. QED
  BY <1>3, <1>4, <1>5, <1>6, <1>7, <1>8 DEF Refreshing

\* The steps outside a refresh.
LEMMA PlainKeeps ==
  ASSUME TypeOK, NEW r \in Request, Plain(r) \/ Succeed(r)
  PROVE  /\ UNCHANGED <<redis, handler, expired, spent, burnt>>
         /\ stored'.refresh \in {stored.refresh, None}
         /\ \A c \in Client : refresh'[c] \in {refresh[c], None}
<1>0. /\ ClientOf[r] \in Client /\ refresh \in [Client -> Pair \cup {None}]
      /\ stored \in [access : Pair \cup {None}, refresh : Pair \cup {None}]
  BY Given DEF TypeOK
<1>1. ASSUME Send(r) \/ Judge(r) \/ JudgeFails(r) \/ Retry(r) \/ Wait(r) \/ Fail(r) \/ Succeed(r)
      PROVE  UNCHANGED <<redis, handler, expired, spent, burnt, stored, refresh>>
  BY <1>1 DEF Send, Judge, JudgeFails, Retry, Wait, Fail, Succeed, history, memory, redis
<1>2. ASSUME RepeatFails(r)
      PROVE  /\ UNCHANGED <<redis, handler, expired, spent, burnt, stored>>
             /\ refresh' = [refresh EXCEPT ![ClientOf[r]] = None]
  BY <1>2 DEF RepeatFails, history, redis
<1>3. ASSUME RemoveAccess(r)
      PROVE  /\ UNCHANGED <<redis, handler, expired, spent, burnt, refresh>>
             /\ stored' = [stored EXCEPT !.access = None]
  BY <1>3 DEF RemoveAccess, history, memory, redis
<1>4. ASSUME RemoveRefresh(r)
      PROVE  /\ UNCHANGED <<redis, handler, expired, spent, burnt, refresh>>
             /\ stored' = [stored EXCEPT !.refresh = None]
  BY <1>4 DEF RemoveRefresh, redis
<1>. QED
  BY <1>0, <1>1, <1>2, <1>3, <1>4 DEF Plain

\* The requests that such a step moves.
LEMMA PlainSet ==
  ASSUME TypeOK, Waiting, NEW r \in Request, Plain(r) \/ Succeed(r)
  PROVE  \E S \in SUBSET Request :
           /\ r \in S
           /\ \A q \in S : call'[q].phase \notin Exchanging
           /\ \A q \in S \ {r} : call[q].phase = "queued"
           /\ \A q \in Request \ S : call'[q] = call[q]
<1>1. CASE Plain(r)
  <2>1. PICK phase \in Phase \ Exchanging, leads \in BOOLEAN : Moves(r, phase, leads)
    BY <1>1, PlainPhases
  <2>. WITNESS {r} \in SUBSET Request
  <2>. QED
    BY <2>1 DEF Moves
<1>2. CASE Succeed(r)
  <2>1. /\ call'[r].phase = "ended"
        /\ \A q \in Wakes(r) \ {r} : call'[q].phase = "sent"
        /\ \A q \in Request \ Wakes(r) : q # r => call'[q] = call[q]
        /\ Wakes(r) \subseteq Request
    BY <1>2, SucceedMoves
  <2>2. \A q \in Wakes(r) : call[q].phase = "queued"
    BY Given DEF Wakes, Waiting
  <2>3. Wakes(r) \cup {r} \in SUBSET Request
    BY <2>1
  <2>. QED
    BY <2>3, <2>1, <2>2 DEF Exchanging
<1>. QED
  BY <1>1, <1>2

LEMMA PlainFresh ==
  ASSUME TypeOK, Waiting, Fresh, Served, NEW r \in Request, Plain(r) \/ Succeed(r)
  PROVE  Fresh'
<1>1. /\ pairs' = pairs /\ handler' = handler /\ stored'.refresh \in {stored.refresh, None}
      /\ \A c \in Client : refresh'[c] \in {refresh[c], stored.refresh, None}
  BY PlainKeeps DEF redis
<1>2. PICK S \in SUBSET Request :
           /\ \A q \in S : call'[q].phase \notin Exchanging
           /\ \A q \in Request \ S : call'[q] = call[q]
  BY PlainSet
<1>. QED
  BY <1>1, <1>2, FreshOutside

LEMMA RestartFresh ==
  ASSUME TypeOK, Fresh, Served, NEW c \in Client, Restart(c)
  PROVE  Fresh'
<1>1. /\ pairs' = pairs /\ handler' = handler /\ stored' = stored
      /\ refresh' = [refresh EXCEPT ![c] = stored.refresh]
  BY DEF Restart, redis
<1>2. \A d \in Client : refresh'[d] \in {refresh[d], stored.refresh, None}
  BY <1>1 DEF TypeOK
<1>3. /\ \A q \in Ends(c) : call'[q].phase \notin Exchanging
      /\ \A q \in Request \ Ends(c) : call'[q] = call[q]
  BY RestartMoves DEF Exchanging
<1>4. Ends(c) \in SUBSET Request
  BY DEF Ends
<1>. QED
  BY <1>1, <1>2, <1>3, <1>4, FreshOutside

\* The steps on the server: the new pair passes from the handler to the call.
LEMMA IssueTokenFresh ==
  ASSUME Typed, Fresh, NEW r \in Request, IssueToken(r)
  PROVE  Fresh'
<1>0. /\ TypeOK /\ pairs \in Nat /\ pairs' = pairs + 1
      /\ UNCHANGED <<memory, stored, call>> /\ call \in [Request -> Call]
      /\ handler' = [handler EXCEPT ![r].at = "issued", ![r].pair = pairs + 1]
      /\ At(r, "revoked")
  BY PairFacts DEF Typed, IssueToken, TypeOK
<1>1. /\ \A q \in Request \ {r} : handler'[q] = handler[q]
      /\ handler'[r].at = "issued" /\ handler'[r].pair = pairs + 1
      /\ handler'[r].key = handler[r].key /\ handler[r].at = "revoked"
  <2>1. handler \in [Request -> {Free} \cup Working] /\ handler[r] \in Working
    BY <1>0, AtWork DEF At, TypeOK, Handler, Working
  <2>. QED
    BY <1>0, <2>1 DEF Working, At
<1>2. None \notin 0 .. pairs + 1
  BY <1>0, Given DEF TypeOK, Pair, IssueToken
<1>3. ASSUME NEW p, Spread(p)' PROVE Spread(p)
  BY <1>0, <1>1, <1>3 DEF Spread
<1>4. ~Spread(pairs + 1)
  <2>1. \A q \in Request : /\ handler[q].at # "idle" => handler[q].key \in 0 .. pairs
                           /\ call[q].phase = "refreshing" => call[q].key \in 0 .. pairs
    BY PairFacts DEF Exchanging
  <2>2. stored.refresh \in 0 .. pairs \cup {None}
    BY DEF Typed, Known, KnownMemory
  <2>. QED
    BY <1>0, <1>2, <2>1, <2>2 DEF Spread
<1>5. \A c \in Client : refresh[c] # pairs + 1
  BY <1>0, <1>2 DEF Typed, Known, KnownMemory
<1>6. \A q \in Request : ~InHand(q, pairs + 1)
  BY <1>0, PairFacts DEF InHand
<1>7. \A p : ~InHand(r, p)' \/ p = pairs + 1 \/ (Arrived(r) /\ call[r].pair = p)
  BY <1>0, <1>1 DEF InHand, At, Arrived
<1>. SUFFICES ASSUME NEW q \in Request, NEW p \in 0 .. pairs + 1, InHand(q, p)'
              PROVE  Secret(q, p)'
  BY <1>0 DEF Fresh, Secret
<1>8. CASE p = pairs + 1
  <2>1. \A s \in Request \ {r} : ~InHand(s, p)'
    BY <1>0, <1>1, <1>6, <1>8, HandKept
  <2>. QED
    BY <1>0, <1>3, <1>4, <1>5, <1>8, <2>1 DEF Secret, memory
<1>9. CASE p # pairs + 1
  <2>1. \A s \in Request : InHand(s, p)' => InHand(s, p)
    BY <1>0, <1>1, <1>7, <1>9, HandKept DEF InHand
  <2>2. p \in 0 .. pairs
    BY <1>0, <1>9
  <2>3. Secret(q, p) /\ InHand(q, p)
    BY <2>1, <2>2 DEF Fresh
  <2>. QED
    BY <1>0, <1>3, <2>1, <2>3 DEF Secret, memory
<1>. QED
  BY <1>8, <1>9

LEMMA ServingFresh ==
  ASSUME Typed, Led, Served, Fresh, NEW r \in Request, Serving(r)
  PROVE  Fresh'
<1>0. TypeOK
  BY DEF Typed
<1>1. CASE IssueToken(r)
  BY <1>1, IssueTokenFresh
<1>2. CASE ~IssueToken(r)
  <2>1. UNCHANGED <<pairs, memory, stored>>
    BY <1>2 DEF Serving, LookupRefresh, LookupFails, DeleteToken, DeleteRefresh, DeleteFails,
       IssueRefresh, IssueFails, Abandon, redis
  <2>2. /\ \A q \in Request \ {r} : handler'[q] = handler[q] /\ call'[q] = call[q]
        /\ handler[r].at # "idle"
        /\ handler'[r].at # "idle" => handler'[r].key = handler[r].key /\ call' = call
        /\ At(r, "issued")' => At(r, "issued") /\ handler' = handler
        /\ call'[r].phase = call[r].phase /\ call'[r].key = call[r].key
    BY <1>0, <1>2, ServingHands, ServingCalls
  <2>3. ASSUME NEW p, Spread(p)' PROVE Spread(p)
    BY <2>1, <2>2, <2>3 DEF Spread
  <2>4. ASSUME Arrived(r)'
        PROVE  IssueRefresh(r)
    <3>1. ~Arrived(r)
      BY <2>2 DEF Served, ServedCall, Arrived
    <3>2. call'[r].phase = "refreshing" /\ call'[r].answer = "ok" /\ call'[r] # call[r]
      BY <2>2, <2>4, <3>1 DEF Arrived
    <3>3. ASSUME NEW answer \in {"denied", "error"}, Reply(r, answer) PROVE FALSE
      BY <1>0, <3>2, <3>3, ReplyMoves, <2>2 DEF Carries
    <3>. QED
      BY <3>2, <3>3 DEF Serving, LookupRefresh, LookupFails, DeleteToken, DeleteRefresh,
         DeleteFails, IssueFails, IssueToken, Abandon
  <2>5. ASSUME NEW q \in Request, NEW p \in 0 .. pairs, InHand(q, p)'
        PROVE  InHand(q, p)
    <3>1. CASE q # r
      BY <2>2, <2>5, <3>1, HandKept
    <3>2. CASE q = r /\ At(r, "issued")'
      BY <2>2, <2>4, <2>5, <3>2 DEF InHand, At, IssueRefresh, Served, ServedCall, Arrived
    <3>3. CASE q = r /\ ~At(r, "issued")'
      <4>1. Arrived(r)' /\ call'[r].pair = p
        BY <2>5, <3>3 DEF InHand
      <4>2. At(r, "issued") /\ Reply(r, "ok")
        BY <2>4, <4>1 DEF IssueRefresh
      <4>3. call'[r].pair = handler[r].pair
        <5>1. call[r].phase = "refreshing"
          BY <2>2, <4>1, <4>2 DEF Served, ServedCall, Arrived, At
        <5>. QED
          BY <1>0, <4>2, <5>1, ReplyMoves DEF Carries
      <4>. QED
        BY <3>3, <4>1, <4>2, <4>3 DEF InHand
    <3>. QED
      BY <3>1, <3>2, <3>3
  <2>6. ASSUME NEW q \in Request, NEW p \in 0 .. pairs, InHand(q, p)',
               NEW c \in Client, refresh'[c] = p
        PROVE  c = ClientOf[q] /\ call'[q].phase \in Saving
    <3>1. Secret(q, p) /\ InHand(q, p) /\ refresh[c] = p
      BY <2>1, <2>5, <2>6 DEF Fresh, memory
    <3>. QED
      BY <2>2, <3>1 DEF Secret
  <2>. QED
    BY <2>1, <2>3, <2>5, <2>6, FreshKept
<1>. QED
  BY <1>1, <1>2

LEMMA StepFresh ==
  ASSUME Typed, Led, Waiting, Served, Fresh, [Next]_vars
  PROVE  Fresh'
<1>0. TypeOK
  BY DEF Typed
<1>1. ASSUME NEW r \in Request, Plain(r) \/ Succeed(r) PROVE Fresh'
  BY <1>0, <1>1, PlainFresh
<1>2. ASSUME NEW r \in Request, Refreshing(r) PROVE Fresh'
  BY <1>2, RefreshingFresh
<1>3. ASSUME NEW r \in Request, Serving(r) PROVE Fresh'
  BY <1>3, ServingFresh
<1>4. ASSUME NEW c \in Client, Restart(c) PROVE Fresh'
  BY <1>0, <1>4, RestartFresh
<1>5. ASSUME \/ \E k \in Pair : ExpireToken(k) \/ ExpireRefresh(k)
             \/ UNCHANGED vars
      PROVE  Fresh'
  <2>1. UNCHANGED <<pairs, handler, stored, refresh, call>>
    BY <1>5 DEF ExpireToken, ExpireRefresh, vars, history, memory, redis
  <2>. QED
    BY <2>1 DEF Fresh, Secret, InHand, Spread, Arrived, At, Saving
<1>. QED
  BY <1>1, <1>2, <1>3, <1>4, <1>5, Steps

-----------------------------------------------------------------------------
(***************************************************************************)
(* Why held keys are live.  The key of a refresh call is, until the        *)
(* handler has deleted it, and again once the call has failed; the pair    *)
(* that arrives is; hence what memory and preferences are left with is,    *)
(* too, unless the refresh call that carries it is still under way.        *)
(***************************************************************************)
Fine(k, c) ==
  k \in refreshes \cup expired \cup burnt \/ \E d \in Client \ {c} : d \in spent[k]

Landed(r) == Arrived(r) => call[r].pair \in refreshes \cup expired

Pending(r) ==
  call[r].phase = "refreshing" /\ call[r].answer # "ok"
  /\ handler[r].at \notin {"revoked", "issued"} => Fine(call[r].key, ClientOf[r])

Carried(c, k, phases) ==
  \E r \in Request : ClientOf[r] = c /\ call[r].phase \in phases /\ call[r].key = k

InMemory(c) ==
  refresh[c] \in Pair => Fine(refresh[c], c) \/ Carried(c, refresh[c], {"refreshing"})

InStore(c) ==
  stored.refresh \in Pair =>
    Fine(stored.refresh, c) \/ Carried(c, stored.refresh, Exchanging)

Live ==
  /\ \A r \in Request : Landed(r) /\ Pending(r)
  /\ \A c \in Client : InMemory(c) /\ InStore(c)

\* Nothing that made a key live ceases to.
Lasting ==
  /\ refreshes \cup expired \subseteq refreshes' \cup expired' /\ burnt \subseteq burnt'
  /\ \A k \in Pair : spent[k] \subseteq spent'[k]

LEMMA FineLasts ==
  ASSUME Lasting, NEW k \in Pair, NEW c, Fine(k, c)
  PROVE  Fine(k, c)'
BY DEF Fine, Lasting

LEMMA Lasts ==
  ASSUME TypeOK, NEW r \in Request,
         Plain(r) \/ Succeed(r) \/ Refreshing(r) \/ (Serving(r) /\ ~DeleteRefresh(r))
  PROVE  Lasting
<1>1. CASE Plain(r) \/ Succeed(r)
  BY <1>1, PlainKeeps DEF Lasting, redis
<1>2. CASE Refreshing(r)
  <2>1. UNCHANGED <<refreshes, expired, burnt, spent>>
    BY <1>2 DEF Refreshing, StartRefresh, Lead, TakePair, SaveAccess, SaveRefresh,
       RetryRefresh, RefreshFails, redis, history
  <2>. QED
    BY <2>1 DEF Lasting
<1>3. CASE Serving(r) /\ ~DeleteRefresh(r)
  <2>1. /\ UNCHANGED <<expired, spent>> /\ refreshes \subseteq refreshes'
        /\ burnt \subseteq burnt'
    BY <1>3 DEF Serving, LookupRefresh, LookupFails, DeleteToken, DeleteFails, IssueToken,
       IssueRefresh, IssueFails, Abandon, redis, history
  <2>. QED
    BY <2>1 DEF Lasting
<1>. QED
  BY <1>1, <1>2, <1>3

LEMMA InitLive == Init => Live
<1>. SUFFICES ASSUME Init PROVE Live
  OBVIOUS
<1>1. /\ \A r \in Request : call[r].phase = "idle"
      /\ \A c \in Client : refresh[c] \in refreshes
      /\ stored.refresh \in refreshes
  BY DEF Init, Blank
<1>. QED
  BY <1>1 DEF Live, Landed, Pending, InMemory, InStore, Arrived, Fine

\* Outside a refresh, keys are only forgotten.
LEMMA LiveOutside ==
  ASSUME Typed, Live, Lasting, handler' = handler,
         stored'.refresh \in {stored.refresh, None},
         \A c \in Client : refresh'[c] \in {refresh[c], None},
         NEW S \in SUBSET Request,
         \A q \in S : call[q].phase \notin Exchanging /\ call'[q].phase \notin Exchanging,
         \A q \in Request \ S : call'[q] = call[q]
  PROVE  Live'
<1>1. ASSUME NEW r \in Request PROVE Landed(r)' /\ Pending(r)'
  <2>1. CASE r \in S
    BY <2>1 DEF Landed, Pending, Arrived, Exchanging
  <2>2. CASE r \notin S
    <3>1. call[r].phase = "refreshing" => call[r].key \in Pair
      BY PairFacts DEF Exchanging
    <3>2. Landed(r) /\ Pending(r) /\ call'[r] = call[r]
      BY <2>2 DEF Live
    <3>3. Landed(r)'
      BY <3>2 DEF Landed, Arrived, Lasting
    <3>4. Pending(r)'
      BY <3>1, <3>2, FineLasts DEF Pending
    <3>. QED
      BY <3>3, <3>4
  <2>. QED
    BY <2>1, <2>2
<1>2. ASSUME NEW c, NEW k, NEW phases \in SUBSET Exchanging, Carried(c, k, phases)
      PROVE  Carried(c, k, phases)'
  BY <1>2 DEF Carried
<1>3. ASSUME NEW c \in Client PROVE InMemory(c)' /\ InStore(c)'
  <2>0. {"refreshing"} \in SUBSET Exchanging /\ Exchanging \in SUBSET Exchanging
    BY DEF Exchanging
  <2>1. InMemory(c) /\ InStore(c)
    BY DEF Live
  <2>2. ASSUME NEW k \in Pair, refresh'[c] = k
        PROVE  (Fine(k, c) \/ Carried(c, k, {"refreshing"}))'
    <3>1. refresh[c] = k
      BY <2>2, Given
    <3>. QED
      BY <1>2, <2>0, <2>1, <3>1, FineLasts DEF InMemory
  <2>3. ASSUME NEW k \in Pair, stored'.refresh = k
        PROVE  (Fine(k, c) \/ Carried(c, k, Exchanging))'
    <3>1. stored.refresh = k
      BY <2>3, Given
    <3>. QED
      BY <1>2, <2>0, <2>1, <3>1, FineLasts DEF InStore
  <2>. QED
    BY <2>2, <2>3 DEF InMemory, InStore
<1>. QED
  BY <1>1, <1>3 DEF Live

LEMMA PlainLive ==
  ASSUME Typed, Waiting, Live, NEW r \in Request, Plain(r) \/ Succeed(r)
  PROVE  Live'
<1>0. TypeOK
  BY DEF Typed
<1>1. /\ Lasting /\ handler' = handler /\ stored'.refresh \in {stored.refresh, None}
      /\ \A c \in Client : refresh'[c] \in {refresh[c], None}
  BY <1>0, PlainKeeps, Lasts
<1>2. PICK S \in SUBSET Request :
           /\ \A q \in S : call'[q].phase \notin Exchanging
           /\ \A q \in S \ {r} : call[q].phase = "queued"
           /\ \A q \in Request \ S : call'[q] = call[q]
  BY <1>0, PlainSet
<1>3. call[r].phase \notin Exchanging
  BY DEF Plain, Exchanging, Send, Judge, JudgeFails, Retry, Wait, Fail, Refused, RepeatFails,
     RemoveAccess, RemoveRefresh, Succeed, Received
<1>4. \A q \in S : call[q].phase \notin Exchanging
  BY <1>2, <1>3 DEF Exchanging
<1>. QED
  BY <1>1, <1>2, <1>4, LiveOutside

LEMMA ExpiryLive ==
  ASSUME Typed, Live,
         \/ \E k \in Pair : ExpireToken(k) \/ ExpireRefresh(k)
         \/ UNCHANGED vars
  PROVE  Live'
<1>1. UNCHANGED <<handler, stored, refresh, call>>
  BY DEF ExpireToken, ExpireRefresh, vars, history, memory, redis
<1>2. Lasting
  BY DEF Lasting, ExpireToken, ExpireRefresh, vars, history, redis
<1>3. {} \in SUBSET Request
  OBVIOUS
<1>. QED
  BY <1>1, <1>2, <1>3, LiveOutside

\* What the other requests carry, and the rest of a client that has not moved.
LEMMA OthersLive ==
  ASSUME Typed, Live, Lasting, NEW r \in Request,
         \A q \in Request \ {r} : handler'[q] = handler[q] /\ call'[q] = call[q],
         Landed(r)', Pending(r)'
  PROVE  \A q \in Request : Landed(q)' /\ Pending(q)'
<1>. SUFFICES ASSUME NEW q \in Request \ {r} PROVE Landed(q)' /\ Pending(q)'
  OBVIOUS
<1>1. call[q].phase = "refreshing" => call[q].key \in Pair
  BY PairFacts DEF Exchanging
<1>2. Landed(q) /\ Pending(q) /\ call'[q] = call[q] /\ handler'[q] = handler[q]
  BY DEF Live
<1>3. Landed(q)'
  BY <1>2 DEF Landed, Arrived, Lasting
<1>4. Pending(q)'
  BY <1>1, <1>2, FineLasts DEF Pending
<1>. QED
  BY <1>3, <1>4

LEMMA HoldersLive ==
  ASSUME Live, Lasting,
         \A c \in Client, k \in Pair :
           \/ refresh'[c] # k \/ (Fine(k, c) \/ Carried(c, k, {"refreshing"}))'
           \/ /\ refresh[c] = k
              /\ Carried(c, k, {"refreshing"}) =>
                   (Fine(k, c) \/ Carried(c, k, {"refreshing"}))',
         \A c \in Client, k \in Pair :
           \/ stored'.refresh # k \/ (Fine(k, c) \/ Carried(c, k, Exchanging))'
           \/ /\ stored.refresh = k
              /\ Carried(c, k, Exchanging) => (Fine(k, c) \/ Carried(c, k, Exchanging))'
  PROVE  \A c \in Client : InMemory(c)' /\ InStore(c)'
<1>. SUFFICES ASSUME NEW c \in Client PROVE InMemory(c)' /\ InStore(c)'
  OBVIOUS
<1>0. InMemory(c) /\ InStore(c)
  BY DEF Live
<1>1. ASSUME NEW k \in Pair, refresh'[c] = k
      PROVE  (Fine(k, c) \/ Carried(c, k, {"refreshing"}))'
  BY <1>0, <1>1, FineLasts DEF InMemory
<1>2. ASSUME NEW k \in Pair, stored'.refresh = k
      PROVE  (Fine(k, c) \/ Carried(c, k, Exchanging))'
  BY <1>0, <1>2, FineLasts DEF InStore
<1>. QED
  BY <1>1, <1>2 DEF InMemory, InStore

LEMMA RefreshingLive ==
  ASSUME Typed, Led, Served, Live, NEW r \in Request, Refreshing(r)
  PROVE  Live'
<1>0. /\ TypeOK /\ ClientOf[r] \in Client /\ refresh \in [Client -> Pair \cup {None}]
      /\ stored \in [access : Pair \cup {None}, refresh : Pair \cup {None}]
      /\ None \notin Pair
  BY Given DEF Typed, TypeOK
<1>1. Lasting
  BY <1>0, Lasts
<1>2. \A q \in Request \ {r} : call'[q] = call[q]
  BY <1>0, RefreshMoves DEF Refreshing, Moves
<1>3. /\ Landed(r) /\ Pending(r) /\ \A c \in Client : InMemory(c) /\ InStore(c)
  BY DEF Live
<1>4. ASSUME NEW c, NEW k, NEW phases, Carried(c, k, phases),
             call[r].phase \in phases => call'[r].phase \in phases /\ call'[r].key = call[r].key
      PROVE  Carried(c, k, phases)'
  BY <1>2, <1>4 DEF Carried
<1>5. CASE StartRefresh(r)
  <2>1. /\ call[r].phase = "sent" /\ refresh[ClientOf[r]] \in Pair /\ UNCHANGED <<refresh, stored>>
        /\ ~isRefreshing[ClientOf[r]]
        /\ handler' = [handler EXCEPT ![r] = [@ EXCEPT !.at = "called",
                                                      !.key = refresh[ClientOf[r]]]]
    BY <1>0, <1>5 DEF StartRefresh, Lead, Received
  <2>2. /\ call'[r].phase = "refreshing" /\ call'[r].answer = "none"
        /\ call'[r].key = refresh[ClientOf[r]]
    BY <1>0, <1>5, RefreshMoves DEF Moves, Carries
  <2>3. \A q \in Request \ {r} : handler'[q] = handler[q]
    BY <1>0, <2>1, CallHands DEF Hands
  <2>4. ~Carried(ClientOf[r], refresh[ClientOf[r]], {"refreshing"})
    BY <2>1 DEF Carried, Led, Exchanging
  <2>5. Fine(refresh[ClientOf[r]], ClientOf[r])
    BY <1>0, <1>3, <2>1, <2>4 DEF InMemory
  <2>6. Landed(r)' /\ Pending(r)'
    <3>1. ~Arrived(r)'
      BY <2>2 DEF Arrived
    <3>2. \A k \in Pair : k = refresh[ClientOf[r]] => Fine(k, ClientOf[r])'
      BY <1>1, <2>5, FineLasts
    <3>. QED
      BY <2>1, <2>2, <3>1, <3>2 DEF Landed, Pending
  <2>7. \A q \in Request : Landed(q)' /\ Pending(q)'
    BY <1>1, <1>2, <2>3, <2>6, OthersLive
  <2>8. \A c, k : /\ Carried(c, k, {"refreshing"}) => Carried(c, k, {"refreshing"})'
                  /\ Carried(c, k, Exchanging) => Carried(c, k, Exchanging)'
    BY <1>4, <2>1 DEF Exchanging
  <2>9. \A c \in Client : InMemory(c)' /\ InStore(c)'
    BY <1>1, <2>1, <2>8, HoldersLive
  <2>. QED
    BY <2>7, <2>9 DEF Live
<1>6. CASE TakePair(r)
  <2>1. /\ refresh' = [refresh EXCEPT ![ClientOf[r]] = call[r].pair]
        /\ UNCHANGED <<handler, stored>> /\ Arrived(r) /\ call[r].phase = "refreshing"
    BY <1>6 DEF TakePair, Refreshed, Arrived
  <2>2. call'[r].phase = "saving" /\ call'[r].pair = call[r].pair /\ call'[r].key = call[r].key
    BY <1>0, <1>6, RefreshMoves DEF Moves, Carries
  <2>3. call[r].pair \in refreshes \cup expired /\ call[r].pair \in Pair
    BY <1>3, <2>1, PairFacts DEF Landed
  <2>4. Landed(r)' /\ Pending(r)'
    BY <1>1, <2>2, <2>3 DEF Landed, Pending, Lasting
  <2>5. \A q \in Request : Landed(q)' /\ Pending(q)'
    BY <1>1, <1>2, <2>1, <2>4, OthersLive
  <2>6. \A c, k : Carried(c, k, Exchanging) => Carried(c, k, Exchanging)'
    BY <1>4, <2>2 DEF Exchanging
  <2>7. \A c, k : c # ClientOf[r] /\ Carried(c, k, {"refreshing"})
                    => Carried(c, k, {"refreshing"})'
    BY <1>2 DEF Carried
  <2>8. \A k : refresh'[ClientOf[r]] = k => Fine(k, ClientOf[r])'
    BY <1>0, <1>1, <2>1, <2>3 DEF Fine, Lasting
  <2>9. \A c \in Client : c # ClientOf[r] => refresh'[c] = refresh[c]
    BY <1>0, <2>1
  <2>10. \A c \in Client : InMemory(c)' /\ InStore(c)'
    BY <1>1, <2>1, <2>6, <2>7, <2>8, <2>9, HoldersLive
  <2>. QED
    BY <2>5, <2>10 DEF Live
<1>7. CASE SaveAccess(r)
  <2>1. /\ UNCHANGED <<handler, refresh>> /\ call[r].phase = "saving"
        /\ stored' = [stored EXCEPT !.access = call[r].pair]
    BY <1>7 DEF SaveAccess, memory
  <2>2. stored'.refresh = stored.refresh
    BY <1>0, <2>1
  <2>3. /\ call'[r].phase = "savingRefresh" /\ call'[r].pair = call[r].pair
        /\ call'[r].key = call[r].key
    BY <1>0, <1>7, RefreshMoves DEF Moves, Carries
  <2>4. Landed(r)' /\ Pending(r)'
    BY <1>1, <1>3, <2>1, <2>3 DEF Landed, Pending, Lasting, Arrived
  <2>5. \A q \in Request : Landed(q)' /\ Pending(q)'
    BY <1>1, <1>2, <2>1, <2>4, OthersLive
  <2>6. \A c, k : /\ Carried(c, k, {"refreshing"}) => Carried(c, k, {"refreshing"})'
                  /\ Carried(c, k, Exchanging) => Carried(c, k, Exchanging)'
    BY <1>4, <2>1, <2>3 DEF Exchanging
  <2>7. \A c \in Client : InMemory(c)' /\ InStore(c)'
    BY <1>1, <2>1, <2>2, <2>6, HoldersLive
  <2>. QED
    BY <2>5, <2>7 DEF Live
<1>8. CASE SaveRefresh(r)
  <2>1. /\ UNCHANGED <<handler, refresh>> /\ call[r].phase = "savingRefresh"
        /\ stored' = [stored EXCEPT !.refresh = call[r].pair] /\ Arrived(r)
    BY <1>8 DEF SaveRefresh, memory, Arrived
  <2>2. stored'.refresh = call[r].pair /\ call[r].pair \in refreshes \cup expired
    BY <1>0, <1>3, <2>1 DEF Landed
  <2>3. call'[r].phase = "sent"
    BY <1>0, <1>8, RefreshMoves DEF Moves
  <2>4. Landed(r)' /\ Pending(r)'
    BY <2>3 DEF Landed, Pending, Arrived
  <2>5. \A q \in Request : Landed(q)' /\ Pending(q)'
    BY <1>1, <1>2, <2>1, <2>4, OthersLive
  <2>6. \A c, k : Carried(c, k, {"refreshing"}) => Carried(c, k, {"refreshing"})'
    BY <1>4, <2>1
  <2>7. \A c, k : stored'.refresh = k => Fine(k, c)'
    BY <1>1, <2>2 DEF Fine, Lasting
  <2>8. \A c \in Client : InMemory(c)' /\ InStore(c)'
    BY <1>1, <2>1, <2>6, <2>7, HoldersLive
  <2>. QED
    BY <2>5, <2>8 DEF Live
<1>9. CASE RetryRefresh(r)
  <2>1. /\ UNCHANGED <<refresh, stored>> /\ call[r].phase = "refreshing"
        /\ call[r].answer = "error"
        /\ handler' = [handler EXCEPT ![r] = [@ EXCEPT !.at = "called", !.key = call[r].key]]
    BY <1>9 DEF RetryRefresh, Refreshed, memory
  <2>2. /\ call'[r].phase = "refreshing" /\ call'[r].answer = "none"
        /\ call'[r].key = call[r].key /\ call[r].key \in Pair
    BY <1>0, <1>9, <2>1, RefreshMoves, PairFacts DEF Moves, Carries, Exchanging
  <2>3. \A q \in Request \ {r} : handler'[q] = handler[q]
    BY <1>0, <2>1, <2>2, CallHands DEF Hands
  <2>4. Fine(call[r].key, ClientOf[r])
    BY <1>3, <2>1 DEF Pending, Served, ServedCall
  <2>5. Landed(r)' /\ Pending(r)'
    <3>1. ~Arrived(r)'
      BY <2>2 DEF Arrived
    <3>2. \A k \in Pair : k = call[r].key => Fine(k, ClientOf[r])'
      BY <1>1, <2>4, FineLasts
    <3>. QED
      BY <2>2, <3>1, <3>2 DEF Landed, Pending
  <2>6. \A q \in Request : Landed(q)' /\ Pending(q)'
    BY <1>1, <1>2, <2>3, <2>5, OthersLive
  <2>7. \A c, k : /\ Carried(c, k, {"refreshing"}) => Carried(c, k, {"refreshing"})'
                  /\ Carried(c, k, Exchanging) => Carried(c, k, Exchanging)'
    BY <1>4, <2>1, <2>2 DEF Exchanging
  <2>8. \A c \in Client : InMemory(c)' /\ InStore(c)'
    BY <1>1, <2>1, <2>7, HoldersLive
  <2>. QED
    BY <2>6, <2>8 DEF Live
<1>10. CASE RefreshFails(r)
  <2>1. /\ UNCHANGED <<handler, refresh, stored>> /\ call[r].phase = "refreshing"
        /\ call[r].answer \in {"denied", "error"}
    BY <1>10 DEF RefreshFails, Refreshed
  <2>2. call'[r].phase = "ended"
    BY <1>0, <1>10, RefreshMoves DEF Moves
  <2>3. Landed(r)' /\ Pending(r)'
    BY <2>2 DEF Landed, Pending, Arrived
  <2>4. \A q \in Request : Landed(q)' /\ Pending(q)'
    BY <1>1, <1>2, <2>1, <2>3, OthersLive
  <2>5. Fine(call[r].key, ClientOf[r]) /\ call[r].key \in Pair
    BY <1>3, <2>1, PairFacts DEF Pending, Served, ServedCall, Exchanging
  <2>6. \A k \in Pair : k = call[r].key => Fine(k, ClientOf[r])'
    BY <1>1, <2>5, FineLasts
  <2>7. \A c \in Client, k \in Pair :
          /\ Carried(c, k, {"refreshing"}) => (Fine(k, c) \/ Carried(c, k, {"refreshing"}))'
          /\ Carried(c, k, Exchanging) => (Fine(k, c) \/ Carried(c, k, Exchanging))'
    BY <1>2, <2>6 DEF Carried
  <2>8. \A c \in Client : InMemory(c)' /\ InStore(c)'
    BY <1>1, <2>1, <2>7, HoldersLive
  <2>. QED
    BY <2>4, <2>8 DEF Live
<1>. QED
  BY <1>5, <1>6, <1>7, <1>8, <1>9, <1>10 DEF Refreshing

LEMMA CarriersStay ==
  ASSUME Typed, Live, Lasting, NEW r \in Request, UNCHANGED <<refresh, stored>>,
         \A q \in Request \ {r} : handler'[q] = handler[q] /\ call'[q] = call[q],
         call'[r].phase = call[r].phase, call'[r].key = call[r].key,
         Landed(r)', Pending(r)'
  PROVE  Live'
<1>1. \A q \in Request : Landed(q)' /\ Pending(q)'
  BY OthersLive
<1>2. \A c, k : /\ Carried(c, k, {"refreshing"}) => Carried(c, k, {"refreshing"})'
                /\ Carried(c, k, Exchanging) => Carried(c, k, Exchanging)'
  BY DEF Carried
<1>3. \A c \in Client : InMemory(c)' /\ InStore(c)'
  BY <1>2, HoldersLive
<1>. QED
  BY <1>1, <1>3 DEF Live

LEMMA IssueStaysAtWork ==
  ASSUME TypeOK, NEW r \in Request, IssueToken(r)
  PROVE  handler'[r].at = "issued"
<1>1. handler[r] \in Working
  BY AtWork DEF IssueToken, At
<1>2. /\ handler \in [Request -> {Free} \cup Working]
      /\ handler' = [handler EXCEPT ![r].at = "issued", ![r].pair = pairs + 1]
  BY DEF IssueToken, TypeOK, Handler, Working
<1>. QED
  BY <1>1, <1>2 DEF Working

\* Only the deletion of the key ends what made it live, and that is for the
\* client that exchanges it.
LEMMA DeleteLive ==
  ASSUME Typed, Led, Served, Fresh, Live, NEW r \in Request, DeleteRefresh(r)
  PROVE  Live'
<1>0. /\ TypeOK /\ ClientOf \in [Request -> Client] /\ refreshes \subseteq Pair
      /\ spent \in [Pair -> SUBSET Client] /\ None \notin Pair
  BY Given DEF Typed, TypeOK
<1>. DEFINE k0 == handler[r].key
<1>1. /\ handler[r].at = "unlinked" /\ Go(r, "revoked")
      /\ UNCHANGED <<call, stored, refresh, expired, burnt, pairs>>
      /\ refreshes' = refreshes \ {k0}
      /\ spent' = [spent EXCEPT ![k0] = @ \cup {ClientOf[r]}]
  BY DEF DeleteRefresh, At, memory
<1>2. /\ \A q \in Request \ {r} : handler'[q] = handler[q]
      /\ handler'[r].at = "revoked"
      /\ k0 \in Pair
  BY <1>0, <1>1, GoHands, AtWork DEF Hands
<1>. HIDE DEF k0
<1>3. \/ call[r].phase = "refreshing" /\ call[r].key = k0
      \/ k0 \in burnt
  BY <1>1 DEF Served, ServedCall, k0
<1>4. ASSUME NEW k \in Pair, NEW c \in Client, Fine(k, c), ~Fine(k, c)'
      PROVE  /\ k = k0 /\ c = ClientOf[r]
             /\ call[r].phase = "refreshing" /\ call[r].key = k0
  <2>1. \A j \in Pair : spent[j] \subseteq spent'[j]
    BY <1>0, <1>1, <1>2
  <2>2. k = k0
    BY <1>1, <1>4, <2>1 DEF Fine
  <2>3. k0 \notin burnt
    BY <1>1, <1>4, <2>2 DEF Fine
  <2>4. c = ClientOf[r]
    BY <1>0, <1>1, <1>2, <1>4, <2>2 DEF Fine
  <2>. QED
    BY <1>3, <2>2, <2>3, <2>4
<1>5. ASSUME NEW q \in Request PROVE Landed(q)'
  <2>1. SUFFICES ASSUME Arrived(q) PROVE call[q].pair \in refreshes' \cup expired
    BY <1>1 DEF Landed, Arrived
  <2>2. InHand(q, call[q].pair) /\ call[q].pair \in 0 .. pairs
    BY <2>1, PairFacts DEF InHand
  <2>3. ~Spread(call[q].pair)
    BY <2>2 DEF Fresh, Secret
  <2>4. call[q].pair # k0
    BY <1>1, <2>3 DEF Spread, k0
  <2>. QED
    BY <1>1, <2>1, <2>4 DEF Live, Landed
<1>6. ASSUME NEW q \in Request PROVE Pending(q)'
  <2>. SUFFICES ASSUME q # r, call[q].phase = "refreshing", call[q].answer # "ok",
                       handler[q].at \notin {"revoked", "issued"}
                PROVE  Fine(call[q].key, ClientOf[q])'
    BY <1>1, <1>2 DEF Pending
  <2>1. Fine(call[q].key, ClientOf[q]) /\ call[q].key \in Pair /\ ClientOf[q] \in Client
    BY <1>0, PairFacts DEF Live, Pending, Exchanging
  <2>2. ASSUME NEW k \in Pair, k = call[q].key, ~Fine(k, ClientOf[q])' PROVE FALSE
    <3>1. ClientOf[q] = ClientOf[r] /\ call[r].phase = "refreshing"
      BY <1>4, <2>1, <2>2
    <3>2. call[q].leads /\ call[r].leads
      BY <3>1 DEF Led, Exchanging
    <3>. QED
      BY <3>1, <3>2 DEF Led
  <2>. QED
    BY <1>0, <1>1, <2>1, <2>2
<1>7. ASSUME NEW c \in Client PROVE InMemory(c)' /\ InStore(c)'
  <2>1. \A k : /\ Carried(c, k, {"refreshing"}) => Carried(c, k, {"refreshing"})'
               /\ Carried(c, k, Exchanging) => Carried(c, k, Exchanging)'
    BY <1>1 DEF Carried
  <2>2. ASSUME NEW k \in Pair, Fine(k, c), ~Fine(k, c)'
        PROVE  Carried(c, k, {"refreshing"})' /\ Carried(c, k, Exchanging)'
    BY <1>1, <1>4, <2>2 DEF Carried, Exchanging
  <2>3. InMemory(c) /\ InStore(c)
    BY DEF Live
  <2>4. \A k \in Pair : refresh'[c] = k => (Fine(k, c) \/ Carried(c, k, {"refreshing"}))'
    BY <1>1, <2>1, <2>2, <2>3 DEF InMemory
  <2>5. \A k \in Pair : stored'.refresh = k => (Fine(k, c) \/ Carried(c, k, Exchanging))'
    BY <1>1, <2>1, <2>2, <2>3 DEF InStore
  <2>. QED
    BY <2>4, <2>5 DEF InMemory, InStore
<1>. QED
  BY <1>5, <1>6, <1>7 DEF Live

LEMMA ServingLive ==
  ASSUME Typed, Led, Served, Fresh, Live, NEW r \in Request, Serving(r)
  PROVE  Live'
<1>0. TypeOK /\ ClientOf[r] \in Client
  BY Given DEF Typed
<1>1. CASE DeleteRefresh(r)
  BY <1>1, DeleteLive
<1>2. CASE ~DeleteRefresh(r)
  <2>1. Lasting
    BY <1>0, <1>2, Lasts
  <2>2. /\ \A q \in Request \ {r} : handler'[q] = handler[q] /\ call'[q] = call[q]
        /\ handler[r].at # "idle"
        /\ call'[r].phase = call[r].phase /\ call'[r].key = call[r].key
        /\ call'[r] # call[r] => call[r].phase = "refreshing"
    BY <1>0, ServingHands, ServingCalls
  <2>3. UNCHANGED <<refresh, stored>>
    BY <1>2 DEF Serving, LookupRefresh, LookupFails, DeleteToken, DeleteFails, IssueToken,
       IssueRefresh, IssueFails, Abandon, memory
  <2>4. CASE call[r].phase = "refreshing"
    <3>1. call[r].answer = "none" /\ call[r].key = handler[r].key /\ call[r].key \in Pair
      BY <2>2, <2>4, PairFacts DEF Served, ServedCall, Exchanging
    <3>2. ASSUME call'[r].answer = "ok" PROVE call'[r].pair \in refreshes'
      <4>1. IssueRefresh(r)
        <5>1. call'[r] # call[r]
          BY <3>1, <3>2
        <5>2. ASSUME NEW answer \in {"denied", "error"}, Reply(r, answer) PROVE FALSE
          BY <1>0, <2>4, <3>2, <5>2, ReplyMoves DEF Carries
        <5>. QED
          BY <1>2, <5>1, <5>2 DEF Serving, LookupRefresh, LookupFails, DeleteToken,
             DeleteFails, IssueFails, IssueToken, Abandon
      <4>2. call'[r].pair = handler[r].pair
        BY <1>0, <2>4, <4>1, ReplyMoves DEF IssueRefresh, Carries
      <4>. QED
        BY <4>1, <4>2 DEF IssueRefresh
    <3>3. ASSUME handler'[r].at \notin {"revoked", "issued"}
          PROVE  \/ Fine(call[r].key, ClientOf[r])
                 \/ call[r].key \in burnt'
                 \/ call'[r].answer = "ok"
      <4>1. CASE handler[r].at \notin {"revoked", "issued"}
        BY <2>4, <3>1, <4>1 DEF Live, Pending
      <4>2. CASE handler[r].at \in {"revoked", "issued"}
        <5>1. ~IssueToken(r)
          BY <1>0, <3>3, IssueStaysAtWork
        <5>2. IssueRefresh(r) \/ IssueFails(r)
          BY <1>2, <2>4, <4>2, <5>1 DEF Serving, LookupRefresh, LookupFails, DeleteToken,
             DeleteFails, Abandon, At
        <5>3. IssueRefresh(r) => call'[r].answer = "ok"
          BY <1>0, <2>4, ReplyMoves DEF IssueRefresh, Carries
        <5>. QED
          BY <3>1, <5>2, <5>3 DEF IssueFails
      <4>. QED
        BY <4>1, <4>2
    <3>4. Landed(r)'
      BY <2>2, <2>4, <3>2 DEF Landed, Arrived
    <3>5. Pending(r)'
      <4>1. \A k \in Pair : k = call[r].key /\ Fine(k, ClientOf[r]) => Fine(k, ClientOf[r])'
        BY <2>1, FineLasts
      <4>. QED
        BY <2>2, <3>1, <3>3, <4>1 DEF Pending, Fine
    <3>. QED
      BY <2>1, <2>2, <2>3, <3>4, <3>5, CarriersStay
  <2>5. CASE call[r].phase # "refreshing"
    <3>1. call'[r] = call[r]
      BY <2>2, <2>5
    <3>2. Landed(r)' /\ Pending(r)'
      BY <2>1, <2>5, <3>1 DEF Live, Landed, Pending, Arrived, Lasting
    <3>. QED
      BY <2>1, <2>2, <2>3, <3>2, CarriersStay
  <2>. QED
    BY <2>4, <2>5
<1>. QED
  BY <1>1, <1>2

\* What a client's process was in the middle of exchanging is burnt with it.
LEMMA RestartLive ==
  ASSUME Typed, Live, NEW c \in Client, Restart(c)
  PROVE  Live'
<1>0. TypeOK /\ refresh \in [Client -> Pair \cup {None}]
  BY DEF Typed, TypeOK
<1>1. /\ UNCHANGED <<redis, handler, stored, expired, spent>>
      /\ refresh' = [refresh EXCEPT ![c] = stored.refresh]
      /\ burnt' = burnt \cup {call[r].key : r \in {q \in {s \in Request : ClientOf[s] = c} :
                                                 call[q].phase \in Exchanging}}
  BY DEF Restart, Exchanging
<1>2. /\ \A q \in Ends(c) : call'[q].phase = "killed"
      /\ \A q \in Request \ Ends(c) : call'[q] = call[q]
  BY <1>0, RestartMoves
<1>3. Lasting
  BY <1>1 DEF Lasting, redis
<1>4. ASSUME NEW q \in Request PROVE Landed(q)' /\ Pending(q)'
  <2>1. CASE q \in Ends(c)
    BY <1>2, <2>1 DEF Landed, Pending, Arrived
  <2>2. CASE q \notin Ends(c)
    <3>1. call[q].phase = "refreshing" => call[q].key \in Pair
      BY PairFacts DEF Exchanging
    <3>2. Landed(q) /\ Pending(q) /\ call'[q] = call[q] /\ handler'[q] = handler[q]
      BY <1>1, <1>2, <2>2 DEF Live
    <3>3. Landed(q)'
      BY <1>3, <3>2 DEF Landed, Arrived, Lasting
    <3>4. Pending(q)'
      BY <1>3, <3>1, <3>2, FineLasts DEF Pending
    <3>. QED
      BY <3>3, <3>4
  <2>. QED
    BY <2>1, <2>2
<1>5. ASSUME NEW k \in Pair, Carried(c, k, Exchanging) PROVE Fine(k, c)'
  BY <1>1, <1>5 DEF Carried, Fine
<1>6. ASSUME NEW d \in Client, d # c, NEW k, NEW phases, Carried(d, k, phases)
      PROVE  Carried(d, k, phases)'
  BY <1>2, <1>6 DEF Carried, Ends
<1>7. ASSUME NEW d \in Client, NEW k \in Pair, stored.refresh = k
      PROVE  (Fine(k, d) \/ Carried(d, k, Exchanging))'
  <2>1. Fine(k, d) \/ Carried(d, k, Exchanging)
    BY <1>7 DEF Live, InStore
  <2>. QED
    BY <1>3, <1>5, <1>6, <2>1, FineLasts
<1>8. ASSUME NEW d \in Client, NEW k \in Pair, refresh'[d] = k
      PROVE  (Fine(k, d) \/ Carried(d, k, {"refreshing"}))'
  <2>1. CASE d = c
    <3>1. stored.refresh = k
      BY <1>0, <1>1, <1>8, <2>1
    <3>2. Fine(k, c) \/ Carried(c, k, Exchanging)
      BY <3>1 DEF Live, InStore
    <3>. QED
      BY <1>3, <1>5, <2>1, <3>2, FineLasts
  <2>2. CASE d # c
    <3>1. refresh[d] = k
      BY <1>0, <1>1, <1>8, <2>2
    <3>2. Fine(k, d) \/ Carried(d, k, {"refreshing"})
      BY <3>1 DEF Live, InMemory
    <3>. QED
      BY <1>3, <1>6, <2>2, <3>2, FineLasts
  <2>. QED
    BY <2>1, <2>2
<1>9. \A d \in Client : InMemory(d)' /\ InStore(d)'
  BY <1>1, <1>7, <1>8 DEF InMemory, InStore
<1>. QED
  BY <1>4, <1>9 DEF Live

LEMMA StepLive ==
  ASSUME Typed, Led, Waiting, Served, Fresh, Live, [Next]_vars
  PROVE  Live'
<1>1. ASSUME NEW r \in Request, Plain(r) \/ Succeed(r) PROVE Live'
  BY <1>1, PlainLive
<1>2. ASSUME NEW r \in Request, Refreshing(r) PROVE Live'
  BY <1>2, RefreshingLive
<1>3. ASSUME NEW r \in Request, Serving(r) PROVE Live'
  BY <1>3, ServingLive
<1>4. ASSUME NEW c \in Client, Restart(c) PROVE Live'
  BY <1>4, RestartLive
<1>. QED
  BY <1>1, <1>2, <1>3, <1>4, ExpiryLive, Steps

LEMMA LiveKeys == Live => HeldKeysAreLive
BY DEF Live, InMemory, Fine, Carried, HeldKeysAreLive

-----------------------------------------------------------------------------
(***************************************************************************)
(* A refresh token is spent when it is used (auth.go:168).  However the    *)
(* steps of any number of clients, their refresh calls and their handlers  *)
(* interleave, with faults, retries, restarts and expiries: the refresh    *)
(* token a client goes by is live, unless it is being exchanged, has       *)
(* expired, was spent by another client, or by an exchange whose answer a  *)
(* fault or the end of the process kept from being stored.                 *)
(***************************************************************************)
THEOREM HeldKeysAlwaysLive == Spec => []HeldKeysAreLive
<1>. DEFINE Inv == Served /\ Fresh /\ Live
<1>1. Init => Inv
  BY InitFresh, InitLive
<1>2. Typed /\ Led /\ Waiting /\ Inv /\ [Next]_vars => Inv'
  BY StepServed, StepFresh, StepLive
<1>3. Inv => HeldKeysAreLive
  BY LiveKeys
<1>. HIDE DEF Inv
<1>. QED
  BY <1>1, <1>2, <1>3, AlwaysLed, PTL DEF Spec

-----------------------------------------------------------------------------
(***************************************************************************)
(* Session tokens do not outlive their pair: what a handler has deleted    *)
(* the session token of, it may delete the refresh token of.               *)
(***************************************************************************)
Unlinked(r) ==
  At(r, "unlinked") => handler[r].key \notin tokens \ ({0} \cup stray)

Paired ==
  /\ tokens \subseteq 0 .. pairs \cup {0}
  /\ \A r \in Request : Unlinked(r)
  /\ NoTokenOutlivesItsPair

LEMMA InitPaired == Init => Paired
<1>. SUFFICES ASSUME Init PROVE Paired
  OBVIOUS
<1>1. PICK k \in {0, 1} :
        tokens = {0, k} /\ refreshes = {k} /\ pairs = k /\ handler = [r \in Request |-> Free]
  BY DEF Init
<1>. QED
  BY <1>1 DEF Paired, Unlinked, NoTokenOutlivesItsPair, At, Free

\* A step that lets no session token appear and no refresh token go keeps the
\* pairs, if it leaves the handlers that issue alone.
LEMMA PairedKept ==
  ASSUME Paired, pairs' = pairs, tokens' \subseteq tokens, refreshes \subseteq refreshes',
         stray \subseteq stray',
         \A q \in Request : Unlinked(q)',
         \A q \in Request : At(q, "issued") =>
           \/ At(q, "issued")' /\ handler'[q].pair = handler[q].pair
           \/ handler[q].pair \in refreshes' \cup stray'
  PROVE  Paired'
<1>1. NoTokenOutlivesItsPair'
  <2>. SUFFICES ASSUME NEW k \in tokens' \ ({0} \cup refreshes' \cup stray')
                PROVE  \E r \in Request : At(r, "issued")' /\ handler'[r].pair = k
    BY DEF NoTokenOutlivesItsPair
  <2>1. PICK r \in Request : At(r, "issued") /\ handler[r].pair = k
    BY DEF Paired, NoTokenOutlivesItsPair
  <2>. QED
    BY <2>1
<1>. QED
  BY <1>1 DEF Paired

\* The steps that leave Redis and what is stray as they are.
LEMMA PairedClient ==
  ASSUME Paired, UNCHANGED <<redis, stray>>,
         \A q \in Request : \/ handler'[q] = handler[q]
                            \/ handler[q].at = "idle" /\ handler'[q].at = "called"
  PROVE  Paired'
<1>1. \A q \in Request : Unlinked(q)'
  BY DEF Paired, Unlinked, At, redis
<1>. QED
  BY <1>1, PairedKept DEF At, redis

\* No session token goes from a pair that the server does not know of.
LEMMA PairedServing ==
  ASSUME Typed, Paired, NEW r \in Request, Serving(r)
  PROVE  Paired'
<1>0. TypeOK
  BY DEF Typed
<1>1. \A q \in Request \ {r} : handler'[q] = handler[q]
  BY <1>0, ServingHands
<1>2. /\ tokens \subseteq 0 .. pairs \cup {0} /\ pairs \in Nat
      /\ handler[r].at # "idle" => handler[r].key \in 0 .. pairs
  BY PairFacts DEF Paired
<1>3. ASSUME NEW answer \in {"ok", "denied", "error"}, Reply(r, answer)
      PROVE  handler'[r].at = "idle"
  BY <1>0, <1>3, ReplyMoves DEF Hands
<1>4. ASSUME NEW at \in {"found", "unlinked", "revoked"}, handler[r].at # "idle", Go(r, at)
      PROVE  handler'[r].at = at /\ handler'[r].key = handler[r].key
  BY <1>0, <1>4, GoHands DEF Hands
<1>5. CASE LookupRefresh(r) \/ LookupFails(r)
  <2>1. /\ At(r, "called") /\ handler'[r].at \in {"idle", "found"}
        /\ UNCHANGED <<redis, stray>>
    BY <1>3, <1>4, <1>5 DEF LookupRefresh, LookupFails, history, At
  <2>2. \A q \in Request : Unlinked(q)'
    BY <1>1, <2>1 DEF Paired, Unlinked, At, redis
  <2>. QED
    BY <1>1, <2>1, <2>2, PairedKept DEF At, redis
<1>6. CASE DeleteToken(r)
  <2>1. /\ handler[r].at = "found" /\ handler'[r].at = "unlinked"
        /\ handler'[r].key = handler[r].key
        /\ tokens' = tokens \ ({handler[r].key} \ {0})
        /\ UNCHANGED <<refreshes, pairs, stray>>
    BY <1>4, <1>6 DEF DeleteToken, SessionToken, history, At
  <2>2. \A q \in Request : Unlinked(q)'
    BY <1>1, <2>1 DEF Paired, Unlinked, At
  <2>. QED
    BY <1>1, <2>1, <2>2, PairedKept DEF At
<1>7. CASE DeleteRefresh(r)
  <2>1. /\ handler[r].at = "unlinked" /\ handler'[r].at = "revoked"
        /\ refreshes' = refreshes \ {handler[r].key}
        /\ UNCHANGED <<tokens, pairs, stray>>
    BY <1>4, <1>7 DEF DeleteRefresh, At
  <2>2. \A q \in Request : Unlinked(q)'
    BY <1>1, <2>1 DEF Paired, Unlinked, At
  <2>3. handler[r].key \notin tokens \ ({0} \cup stray)
    BY <2>1 DEF Paired, Unlinked, At
  <2>4. NoTokenOutlivesItsPair'
    <3>. SUFFICES ASSUME NEW k \in tokens \ ({0} \cup refreshes' \cup stray)
                  PROVE  \E q \in Request : At(q, "issued")' /\ handler'[q].pair = k
      BY <2>1 DEF NoTokenOutlivesItsPair
    <3>1. k \notin refreshes
      BY <2>1, <2>3
    <3>2. PICK q \in Request : At(q, "issued") /\ handler[q].pair = k
      BY <3>1 DEF Paired, NoTokenOutlivesItsPair
    <3>3. q # r
      BY <2>1, <3>2 DEF At
    <3>. QED
      BY <1>1, <3>2, <3>3 DEF At
  <2>. QED
    BY <2>1, <2>2, <2>4 DEF Paired
<1>8. CASE DeleteFails(r)
  <2>1. /\ handler'[r].key = handler[r].key /\ UNCHANGED redis
        /\ \/ /\ handler[r].at = "found" /\ handler'[r].at = "unlinked"
              /\ stray' = stray \cup ({handler[r].key} \ {0})
           \/ handler[r].at = "unlinked" /\ handler'[r].at = "revoked" /\ stray' = stray
    BY <1>4, <1>8 DEF DeleteFails, SessionToken, At
  <2>2. \A q \in Request : Unlinked(q)'
    BY <1>1, <2>1 DEF Paired, Unlinked, At, redis
  <2>. QED
    BY <1>1, <2>1, <2>2, PairedKept DEF At, redis
<1>9. CASE IssueToken(r)
  <2>1. /\ handler[r].at = "revoked" /\ pairs' = pairs + 1
        /\ tokens' = tokens \cup {pairs + 1}
        /\ UNCHANGED <<refreshes, stray>>
        /\ handler' = [handler EXCEPT ![r].at = "issued", ![r].pair = pairs + 1]
    BY <1>9 DEF IssueToken, history, At
  <2>2. handler'[r].at = "issued" /\ handler'[r].pair = pairs + 1
    <3>1. handler[r] \in Working /\ handler \in [Request -> Handler]
      BY <1>0, <2>1, AtWork DEF TypeOK
    <3>. QED
      BY <2>1, <3>1 DEF Working
  <2>3. \A q \in Request : Unlinked(q)'
    <3>. SUFFICES ASSUME NEW q \in Request, At(q, "unlinked")'
                  PROVE  handler'[q].key \notin tokens' \ ({0} \cup stray')
      BY DEF Unlinked
    <3>1. q # r /\ At(q, "unlinked") /\ handler'[q] = handler[q]
      BY <1>1, <2>2 DEF At
    <3>2. handler[q].key \in 0 .. pairs
      BY <3>1, PairFacts DEF At
    <3>3. handler[q].key # pairs + 1
      BY <1>2, <3>2
    <3>. QED
      BY <2>1, <3>1, <3>3 DEF Paired, Unlinked
  <2>4. NoTokenOutlivesItsPair'
    <3>. SUFFICES ASSUME NEW k \in tokens' \ ({0} \cup refreshes \cup stray)
                  PROVE  \E q \in Request : At(q, "issued")' /\ handler'[q].pair = k
      BY <2>1 DEF NoTokenOutlivesItsPair
    <3>1. CASE k = pairs + 1
      BY <2>2, <3>1 DEF At
    <3>2. CASE k # pairs + 1
      <4>1. PICK q \in Request : At(q, "issued") /\ handler[q].pair = k
        BY <2>1, <3>2 DEF Paired, NoTokenOutlivesItsPair
      <4>2. q # r
        BY <2>1, <4>1 DEF At
      <4>. QED
        BY <1>1, <4>1, <4>2 DEF At
    <3>. QED
      BY <3>1, <3>2
  <2>5. tokens' \subseteq 0 .. pairs' \cup {0}
    BY <1>2, <2>1
  <2>. QED
    BY <2>3, <2>4, <2>5 DEF Paired
<1>10. CASE IssueRefresh(r) \/ IssueFails(r)
  <2>1. /\ handler'[r].at = "idle" /\ UNCHANGED <<tokens, pairs>>
        /\ refreshes \subseteq refreshes' /\ stray \subseteq stray'
        /\ At(r, "issued") => handler[r].pair \in refreshes' \cup stray'
    BY <1>3, <1>10 DEF IssueRefresh, IssueFails, history, At
  <2>2. \A q \in Request : Unlinked(q)'
    BY <1>1, <2>1 DEF Paired, Unlinked, At
  <2>. QED
    BY <1>1, <2>1, <2>2, PairedKept DEF At
<1>11. CASE Abandon(r)
  <2>1. /\ handler'[r].at = "idle" /\ UNCHANGED redis /\ stray \subseteq stray'
        /\ At(r, "issued") => handler[r].pair \in stray'
    BY <1>0, <1>11 DEF Abandon, Free, TypeOK
  <2>2. \A q \in Request : Unlinked(q)'
    BY <1>1, <2>1 DEF Paired, Unlinked, At, redis
  <2>. QED
    BY <1>1, <2>1, <2>2, PairedKept DEF At, redis
<1>. QED
  BY <1>5, <1>6, <1>7, <1>8, <1>9, <1>10, <1>11 DEF Serving

LEMMA StepPaired ==
  ASSUME Typed, Served, Paired, [Next]_vars
  PROVE  Paired'
<1>0. TypeOK
  BY DEF Typed
<1>1. ASSUME NEW r \in Request, Plain(r) \/ Succeed(r) PROVE Paired'
  <2>1. UNCHANGED <<redis, handler, stray>>
    BY <1>1 DEF Plain, Send, Judge, JudgeFails, Retry, Wait, Fail, RepeatFails,
       RemoveAccess, RemoveRefresh, Succeed, history
  <2>. QED
    BY <2>1, PairedClient
<1>2. ASSUME NEW r \in Request, Refreshing(r) PROVE Paired'
  <2>1. UNCHANGED <<redis, stray>>
    BY <1>2 DEF Refreshing, StartRefresh, Lead, TakePair, SaveAccess, SaveRefresh,
       RetryRefresh, RefreshFails, history
  <2>2. CASE StartRefresh(r) \/ RetryRefresh(r)
    <3>1. /\ \A q \in Request \ {r} : handler'[q] = handler[q]
          /\ handler'[r].at = "called"
      <4>1. CASE StartRefresh(r)
        <5>1. refresh[ClientOf[r]] \in Pair
          BY <1>0, <4>1, CallTyped DEF StartRefresh
        <5>. QED
          BY <1>0, <4>1, <5>1, CallHands DEF StartRefresh, Lead, Hands
      <4>2. CASE RetryRefresh(r)
        <5>1. call[r].key \in Pair
          BY <4>2, PairFacts DEF RetryRefresh, Refreshed, Exchanging
        <5>. QED
          BY <1>0, <4>2, <5>1, CallHands DEF RetryRefresh, Hands
      <4>. QED
        BY <2>2, <4>1, <4>2
    <3>2. handler[r].at = "idle"
      BY <2>2 DEF StartRefresh, RetryRefresh, Received, Refreshed, Served, ServedCall
    <3>. QED
      BY <2>1, <3>1, <3>2, PairedClient
  <2>3. CASE ~(StartRefresh(r) \/ RetryRefresh(r))
    <3>1. UNCHANGED handler
      BY <1>2, <2>3 DEF Refreshing, TakePair, SaveAccess, SaveRefresh, RefreshFails
    <3>. QED
      BY <2>1, <3>1, PairedClient
  <2>. QED
    BY <2>2, <2>3
<1>3. ASSUME NEW r \in Request, Serving(r) PROVE Paired'
  BY <1>3, PairedServing
<1>4. ASSUME \/ \E c \in Client : Restart(c)
             \/ UNCHANGED vars
      PROVE  Paired'
  <2>1. UNCHANGED <<redis, handler, stray>>
    BY <1>4 DEF Restart, vars, history
  <2>. QED
    BY <2>1, PairedClient
<1>5. ASSUME NEW k \in Pair, ExpireToken(k) \/ ExpireRefresh(k) PROVE Paired'
  <2>1. /\ UNCHANGED <<handler, stray, pairs>> /\ tokens' \subseteq tokens
        /\ refreshes' = refreshes \/ (refreshes' = refreshes \ {k} /\ (k # 0 => k \notin tokens'))
    BY <1>5 DEF ExpireToken, ExpireRefresh, history
  <2>2. \A q \in Request : Unlinked(q)'
    BY <2>1 DEF Paired, Unlinked, At
  <2>3. NoTokenOutlivesItsPair'
    <3>. SUFFICES ASSUME NEW j \in tokens' \ ({0} \cup refreshes' \cup stray')
                  PROVE  \E q \in Request : At(q, "issued")' /\ handler'[q].pair = j
      BY DEF NoTokenOutlivesItsPair
    <3>1. j \in tokens \ ({0} \cup refreshes \cup stray)
      BY <2>1
    <3>. QED
      BY <2>1, <3>1 DEF Paired, NoTokenOutlivesItsPair, At
  <2>. QED
    BY <2>1, <2>2, <2>3 DEF Paired
<1>. QED
  BY <1>1, <1>2, <1>3, <1>4, <1>5, Steps

-----------------------------------------------------------------------------
(***************************************************************************)
(* Sessions do not multiply.  A client keeps one key at most: the one it   *)
(* goes by, nothing while that one is deleted and not yet replaced, or the *)
(* new one that it has been answered.  A handler whose client is gone may  *)
(* keep one more.  Every other live key is charged to a fault, a restart,  *)
(* or a client that has dropped its tokens and keeps none.                 *)
(***************************************************************************)
Busy(r, c) == ClientOf[r] = c /\ call[r].phase = "refreshing"
Replacing(r) == handler[r].at \in {"revoked", "issued"}

Keeps(c, k) ==
  \/ \E r \in Request : Busy(r, c) /\ call[r].answer = "ok" /\ call[r].pair = k
  \/ /\ refresh[c] = k
     /\ \A r \in Request : Busy(r, c) => call[r].answer # "ok" /\ ~Replacing(r)

Orphaned == {r \in Request : call[r].phase = "killed" /\ handler[r].at # "idle"}

Leaves(r, k) == r \in Orphaned /\ ~Replacing(r) /\ handler[r].key = k

Kept == {k \in Pair : (\E c \in Client : Keeps(c, k)) \/ (\E r \in Request : Leaves(r, k))}

Extra == refreshes \ Kept

Without == {c \in Client : refresh[c] = None}

Mishaps == faults + restarts

Charged ==
  Cardinality(Extra) + Cardinality(Orphaned) <= Mishaps + Cardinality(Without)

\* A refresh call carries the token its client goes by.
Carrying ==
  \A r \in Request : call[r].phase = "refreshing" => call[r].key = refresh[ClientOf[r]]

Few == IsFiniteSet(Client) /\ Client # {} /\ IsFiniteSet(Request)

\* What is counted is finite.
LEMMA Finite ==
  ASSUME Few
  PROVE  /\ \A S \in SUBSET Pair : IsFiniteSet(S) /\ Cardinality(S) \in Nat
         /\ \A S \in SUBSET Client : IsFiniteSet(S) /\ Cardinality(S) \in Nat
         /\ \A S \in SUBSET Request : IsFiniteSet(S) /\ Cardinality(S) \in Nat
<1>1. IsFiniteSet(Pair)
  BY Given, FS_Interval DEF Pair
<1>2. \A S \in SUBSET Pair : IsFiniteSet(S) /\ Cardinality(S) \in Nat
  BY <1>1, FS_Subset, FS_CardinalityType
<1>3. \A S \in SUBSET Client : IsFiniteSet(S) /\ Cardinality(S) \in Nat
  BY FS_Subset, FS_CardinalityType DEF Few
<1>4. \A S \in SUBSET Request : IsFiniteSet(S) /\ Cardinality(S) \in Nat
  BY FS_Subset, FS_CardinalityType DEF Few
<1>. QED
  BY <1>2, <1>3, <1>4

LEMMA SumOfNumbers == \A m, n \in Nat : m + n \in Nat
OBVIOUS

LEMMA Counted ==
  ASSUME TypeOK
  PROVE  /\ Extra \subseteq Pair /\ Orphaned \subseteq Request /\ Without \subseteq Client
         /\ Mishaps \in Nat
BY DEF Extra, Orphaned, Without, Mishaps, TypeOK

LEMMA CountedNext ==
  ASSUME TypeOK'
  PROVE  /\ Extra' \subseteq Pair /\ Orphaned' \subseteq Request /\ Without' \subseteq Client
         /\ Mishaps' \in Nat
<1>1. Extra' \subseteq Pair /\ Orphaned' \subseteq Request /\ Without' \subseteq Client
  BY DEF Extra, Orphaned, Without, TypeOK
<1>2. faults' \in Nat /\ restarts' \in Nat
  BY DEF TypeOK
<1>3. Mishaps' \in Nat
  BY <1>2, SumOfNumbers, Zenon DEF Mishaps
<1>. QED
  BY <1>1, <1>3

LEMMA OneMore ==
  ASSUME NEW S, IsFiniteSet(S), NEW x, NEW T \in SUBSET (S \cup {x})
  PROVE  /\ IsFiniteSet(T) /\ Cardinality(T) \in Nat /\ Cardinality(S) \in Nat
         /\ Cardinality(T) <= Cardinality(S) + 1
<1>1. IsFiniteSet(S \cup {x}) /\ Cardinality(S \cup {x}) <= Cardinality(S) + 1
  <2>1. Cardinality(S) \in Nat
    BY FS_CardinalityType
  <2>2. /\ IsFiniteSet(S \cup {x})
        /\ Cardinality(S \cup {x}) = Cardinality(S) \/ Cardinality(S \cup {x}) = Cardinality(S) + 1
    BY FS_AddElement
  <2>. QED
    BY <2>1, <2>2
<1>2. IsFiniteSet(T) /\ Cardinality(T) <= Cardinality(S \cup {x})
  BY <1>1, FS_Subset
<1>3. /\ Cardinality(T) \in Nat /\ Cardinality(S) \in Nat
      /\ Cardinality(S \cup {x}) \in Nat
  BY <1>1, <1>2, FS_CardinalityType
<1>. QED
  BY <1>1, <1>2, <1>3

LEMMA OneLess ==
  ASSUME NEW S, IsFiniteSet(S), NEW x \in S, NEW T \in SUBSET (S \ {x})
  PROVE  Cardinality(T) + 1 <= Cardinality(S)
<1>1. IsFiniteSet(S \ {x}) /\ Cardinality(S \ {x}) = Cardinality(S) - 1
  BY FS_RemoveElement
<1>2. IsFiniteSet(T) /\ Cardinality(T) <= Cardinality(S \ {x})
  BY <1>1, FS_Subset
<1>3. Cardinality(T) \in Nat /\ Cardinality(S) \in Nat
  BY <1>2, FS_CardinalityType
<1>. QED
  BY <1>1, <1>2, <1>3

\* What the counts of a step have to do with each other.
Counts ==
  /\ Mishaps \in Nat /\ Mishaps' \in Nat
  /\ Cardinality(Extra) \in Nat /\ Cardinality(Extra') \in Nat
  /\ Cardinality(Orphaned) \in Nat /\ Cardinality(Orphaned') \in Nat
  /\ Cardinality(Without) \in Nat /\ Cardinality(Without') \in Nat

Finites ==
  /\ IsFiniteSet(Extra) /\ IsFiniteSet(Extra') /\ IsFiniteSet(Orphaned)
  /\ IsFiniteSet(Orphaned') /\ IsFiniteSet(Without) /\ IsFiniteSet(Without')

LEMMA CountsOfStep ==
  ASSUME Few, TypeOK, TypeOK'
  PROVE  Counts /\ Finites
<1>1. /\ Mishaps \in Nat /\ Mishaps' \in Nat
      /\ Extra \subseteq Pair /\ Extra' \subseteq Pair
      /\ Orphaned \subseteq Request /\ Orphaned' \subseteq Request
      /\ Without \subseteq Client /\ Without' \subseteq Client
  BY Counted, CountedNext
<1>. QED
  BY <1>1, Finite DEF Counts, Finites

\* A step that makes no live key extra.
LEMMA ChargedKept ==
  ASSUME Few, TypeOK, TypeOK', Charged,
         Extra' \subseteq Extra, Orphaned' \subseteq Orphaned, Without \subseteq Without',
         Mishaps <= Mishaps'
  PROVE  Charged'
<1>1. Counts /\ Finites
  BY CountsOfStep
<1>2. /\ Cardinality(Extra') <= Cardinality(Extra)
      /\ Cardinality(Orphaned') <= Cardinality(Orphaned)
      /\ Cardinality(Without) <= Cardinality(Without')
  BY <1>1, FS_Subset DEF Finites
<1>3. Cardinality(Extra) + Cardinality(Orphaned) <= Mishaps + Cardinality(Without)
  BY DEF Charged
<1>4. Cardinality(Extra') + Cardinality(Orphaned') <= Mishaps' + Cardinality(Without')
  BY <1>1, <1>2, <1>3 DEF Counts
<1>. QED
  BY <1>4 DEF Charged

\* A fault makes one live key extra at most.
LEMMA ChargedFault ==
  ASSUME Few, TypeOK, TypeOK', Charged, NEW k, Extra' \subseteq Extra \cup {k},
         Orphaned' \subseteq Orphaned, Without \subseteq Without', Mishaps' = Mishaps + 1
  PROVE  Charged'
<1>1. Counts /\ Finites
  BY CountsOfStep
<1>2. Cardinality(Extra') <= Cardinality(Extra) + 1
  BY <1>1, OneMore DEF Finites
<1>3. /\ Cardinality(Orphaned') <= Cardinality(Orphaned)
      /\ Cardinality(Without) <= Cardinality(Without')
  BY <1>1, FS_Subset DEF Finites
<1>4. Cardinality(Extra) + Cardinality(Orphaned) <= Mishaps + Cardinality(Without)
  BY DEF Charged
<1>5. Cardinality(Extra') + Cardinality(Orphaned') <= Mishaps' + Cardinality(Without')
  BY <1>1, <1>2, <1>3, <1>4 DEF Counts
<1>. QED
  BY <1>5 DEF Charged

\* So does a handler that leaves.
LEMMA ChargedLeaver ==
  ASSUME Few, TypeOK, TypeOK', Charged, NEW k, Extra' \subseteq Extra \cup {k},
         NEW r \in Orphaned, Orphaned' \subseteq Orphaned \ {r},
         Without \subseteq Without', Mishaps <= Mishaps'
  PROVE  Charged'
<1>1. Counts /\ Finites
  BY CountsOfStep
<1>2. Cardinality(Extra') <= Cardinality(Extra) + 1
  BY <1>1, OneMore DEF Finites
<1>3. Cardinality(Orphaned') + 1 <= Cardinality(Orphaned)
  BY <1>1, OneLess DEF Finites
<1>4. Cardinality(Without) <= Cardinality(Without')
  BY <1>1, FS_Subset DEF Finites
<1>5. Cardinality(Extra) + Cardinality(Orphaned) <= Mishaps + Cardinality(Without)
  BY DEF Charged
<1>6. Cardinality(Extra') + Cardinality(Orphaned') <= Mishaps' + Cardinality(Without')
  BY <1>1, <1>2, <1>3, <1>4, <1>5 DEF Counts
<1>. QED
  BY <1>6 DEF Charged

\* And a client that drops its tokens.
LEMMA ChargedClient ==
  ASSUME Few, TypeOK, TypeOK', Charged, NEW k, Extra' \subseteq Extra \cup {k},
         Orphaned' \subseteq Orphaned,
         NEW c \in Without', Without \subseteq Without' \ {c}, Mishaps <= Mishaps'
  PROVE  Charged'
<1>1. Counts /\ Finites
  BY CountsOfStep
<1>2. Cardinality(Extra') <= Cardinality(Extra) + 1
  BY <1>1, OneMore DEF Finites
<1>3. Cardinality(Without) + 1 <= Cardinality(Without')
  BY <1>1, OneLess DEF Finites
<1>4. Cardinality(Orphaned') <= Cardinality(Orphaned)
  BY <1>1, FS_Subset DEF Finites
<1>5. Cardinality(Extra) + Cardinality(Orphaned) <= Mishaps + Cardinality(Without)
  BY DEF Charged
<1>6. Cardinality(Extra') + Cardinality(Orphaned') <= Mishaps' + Cardinality(Without')
  BY <1>1, <1>2, <1>3, <1>4, <1>5 DEF Counts
<1>. QED
  BY <1>6 DEF Charged

\* A restart pays for a handler that loses its client, or for a client that
\* has tokens again.
LEMMA ChargedRestart ==
  ASSUME Few, TypeOK, TypeOK', Charged, Extra' \subseteq Extra, Mishaps' = Mishaps + 1,
         NEW x,
         \/ Orphaned' \subseteq Orphaned /\ Without \subseteq Without' \cup {x}
         \/ Orphaned' \subseteq Orphaned \cup {x} /\ Without \subseteq Without'
  PROVE  Charged'
<1>1. Counts /\ Finites
  BY CountsOfStep
<1>2. Cardinality(Extra') <= Cardinality(Extra)
  BY <1>1, FS_Subset DEF Finites
<1>3. Cardinality(Extra) + Cardinality(Orphaned) <= Mishaps + Cardinality(Without)
  BY DEF Charged
<1>4. Cardinality(Extra') + Cardinality(Orphaned') <= Mishaps' + Cardinality(Without')
  <2>1. CASE Orphaned' \subseteq Orphaned /\ Without \subseteq Without' \cup {x}
    <3>1. Cardinality(Orphaned') <= Cardinality(Orphaned)
      BY <1>1, <2>1, FS_Subset DEF Finites
    <3>2. Cardinality(Without) <= Cardinality(Without') + 1
      BY <1>1, <2>1, OneMore DEF Finites
    <3>. QED
      BY <1>1, <1>2, <1>3, <3>1, <3>2 DEF Counts
  <2>2. CASE Orphaned' \subseteq Orphaned \cup {x} /\ Without \subseteq Without'
    <3>1. Cardinality(Orphaned') <= Cardinality(Orphaned) + 1
      BY <1>1, <2>2, OneMore DEF Finites
    <3>2. Cardinality(Without) <= Cardinality(Without')
      BY <1>1, <2>2, FS_Subset DEF Finites
    <3>. QED
      BY <1>1, <1>2, <1>3, <3>1, <3>2 DEF Counts
  <2>. QED
    BY <2>1, <2>2
<1>. QED
  BY <1>4 DEF Charged

LEMMA MishapsKept ==
  ASSUME UNCHANGED <<faults, restarts>>
  PROVE  Mishaps' = Mishaps
BY DEF Mishaps

LEMMA MishapsFault ==
  ASSUME TypeOK, faults' = faults + 1, restarts' = restarts
  PROVE  Mishaps' = Mishaps + 1
<1>1. Mishaps' = (faults + 1) + restarts
  BY Zenon DEF Mishaps
<1>2. (faults + 1) + restarts = Mishaps + 1
  BY DEF Mishaps, TypeOK
<1>. QED
  BY <1>1, <1>2

LEMMA MishapsRestart ==
  ASSUME TypeOK, restarts' = restarts + 1, faults' = faults
  PROVE  Mishaps' = Mishaps + 1
<1>1. Mishaps' = faults + (restarts + 1)
  BY Zenon DEF Mishaps
<1>2. faults + (restarts + 1) = Mishaps + 1
  BY DEF Mishaps, TypeOK
<1>. QED
  BY <1>1, <1>2

\* A live key is extra after a step if it was before or nobody keeps it on.
LEMMA ExtraFrom ==
  ASSUME TypeOK', NEW X, refreshes' \subseteq refreshes \cup X,
         \A c \in Client : \A k \in refreshes' \ X : Keeps(c, k) => Keeps(c, k)',
         \A r \in Request : \A k \in refreshes' \ X : Leaves(r, k) => Leaves(r, k)'
  PROVE  Extra' \subseteq Extra \cup X
<1>1. refreshes' \subseteq Pair
  BY DEF TypeOK
<1>. QED
  BY <1>1 DEF Extra, Kept

\* The same for a step that is about the request r.
LEMMA ExtraOne ==
  ASSUME TypeOK', NEW X, refreshes' \subseteq refreshes \cup X, NEW r \in Request,
         \A q \in Request \ {r} : call'[q] = call[q] /\ handler'[q] = handler[q],
         \A c \in Client \ {ClientOf[r]} : refresh'[c] = refresh[c],
         \A k \in refreshes' \ X : /\ Keeps(ClientOf[r], k) => Keeps(ClientOf[r], k)'
                                   /\ Leaves(r, k) => Leaves(r, k)'
  PROVE  Extra' \subseteq Extra \cup X
<1>1. ASSUME NEW c \in Client, NEW k \in refreshes' \ X, Keeps(c, k)
      PROVE  Keeps(c, k)'
  <2>1. CASE c = ClientOf[r]
    BY <1>1, <2>1
  <2>2. CASE c # ClientOf[r]
    BY <1>1, <2>2 DEF Keeps, Busy, Replacing
  <2>. QED
    BY <2>1, <2>2
<1>2. ASSUME NEW q \in Request, NEW k \in refreshes' \ X, Leaves(q, k)
      PROVE  Leaves(q, k)'
  <2>1. CASE q = r
    BY <1>2, <2>1
  <2>2. CASE q # r
    BY <1>2, <2>2 DEF Leaves, Orphaned, Replacing
  <2>. QED
    BY <2>1, <2>2
<1>. QED
  BY <1>1, <1>2, ExtraFrom

\* The requests that a plain step moves have no handler at work.
LEMMA PlainIdle ==
  ASSUME TypeOK, Waiting, Served, NEW r \in Request, Plain(r) \/ Succeed(r)
  PROVE  \E S \in SUBSET Request :
           /\ \A q \in S : /\ call[q].phase # "refreshing" /\ call'[q].phase # "refreshing"
                           /\ handler[q].at = "idle"
           /\ \A q \in Request \ S : call'[q] = call[q]
<1>1. PICK S \in SUBSET Request :
           /\ \A q \in S : call'[q].phase \notin Exchanging
           /\ \A q \in S \ {r} : call[q].phase = "queued"
           /\ \A q \in Request \ S : call'[q] = call[q]
  BY PlainSet
<1>2. call[r].phase \notin {"refreshing", "killed"}
  BY DEF Plain, Send, Judge, JudgeFails, Retry, Wait, Fail, Refused, RepeatFails,
     RemoveAccess, RemoveRefresh, Received, Succeed
<1>3. \A q \in S : call[q].phase \notin {"refreshing", "killed"}
  BY <1>1, <1>2
<1>4. \A q \in S : handler[q].at = "idle"
  BY <1>3 DEF Served, ServedCall
<1>. QED
  BY <1>1, <1>3, <1>4 DEF Exchanging

LEMMA PlainCharged ==
  ASSUME Few, Typed, TypeOK', Waiting, Served, Charged,
         NEW r \in Request, Plain(r) \/ Succeed(r)
  PROVE  Charged'
<1>. DEFINE c == ClientOf[r]
<1>0. TypeOK /\ c \in Client
  BY Given DEF Typed
<1>1. PICK S \in SUBSET Request :
           /\ \A q \in S : /\ call[q].phase # "refreshing" /\ call'[q].phase # "refreshing"
                           /\ handler[q].at = "idle"
           /\ \A q \in Request \ S : call'[q] = call[q]
  BY <1>0, PlainIdle
<1>2. UNCHANGED <<refreshes, handler>>
  BY <1>0, PlainKeeps DEF redis
<1>3. Orphaned' \subseteq Orphaned
  BY <1>1, <1>2 DEF Orphaned
<1>4. Mishaps \in Nat /\ Mishaps <= Mishaps'
  <2>1. Mishaps \in Nat
    BY <1>0, Counted
  <2>2. CASE JudgeFails(r)
    <3>1. Mishaps' = Mishaps + 1
      BY <1>0, <2>2, MishapsFault DEF JudgeFails, Fault
    <3>. QED
      BY <2>1, <3>1
  <2>3. CASE ~JudgeFails(r)
    <3>1. UNCHANGED <<faults, restarts>>
      BY <2>3 DEF Plain, Send, Judge, Retry, Wait, Fail, RepeatFails, RemoveAccess,
         RemoveRefresh, Succeed, bounds
    <3>. QED
      BY <2>1, <3>1, MishapsKept
  <2>. QED
    BY <2>2, <2>3
<1>5. \A q \in Request, k \in refreshes' : Leaves(q, k) => Leaves(q, k)'
  BY <1>1, <1>2 DEF Leaves, Orphaned, Replacing
<1>6. ASSUME NEW d \in Client, NEW k \in refreshes', refresh'[d] = refresh[d], Keeps(d, k)
      PROVE  Keeps(d, k)'
  BY <1>1, <1>2, <1>6 DEF Keeps, Busy, Replacing
<1>7. CASE refresh' = refresh
  <2>1. Extra' \subseteq Extra \cup {}
    BY <1>2, <1>5, <1>6, <1>7, ExtraFrom
  <2>2. Without' = Without
    BY <1>7 DEF Without
  <2>. QED
    BY <1>0, <1>3, <1>4, <2>1, <2>2, ChargedKept
<1>8. CASE refresh' # refresh
  <2>1. refresh' = [refresh EXCEPT ![c] = None] /\ refresh \in [Client -> Pair \cup {None}]
    BY <1>0, <1>8 DEF Plain, Send, Judge, JudgeFails, Retry, Wait, Fail, RepeatFails,
       RemoveAccess, RemoveRefresh, Succeed, memory, TypeOK
  <2>2. refresh[c] # None
    BY <1>0, <1>8, <2>1
  <2>3. Extra' \subseteq Extra \cup {refresh[c]}
    <3>1. ASSUME NEW d \in Client, NEW k \in refreshes' \ {refresh[c]}, Keeps(d, k)
          PROVE  Keeps(d, k)'
      <4>1. CASE d = c
        BY <1>1, <1>2, <3>1, <4>1 DEF Keeps, Busy
      <4>2. CASE d # c
        BY <1>6, <2>1, <3>1, <4>2
      <4>. QED
        BY <4>1, <4>2
    <3>. QED
      BY <1>2, <1>5, <3>1, ExtraFrom
  <2>4. c \in Without' /\ Without \subseteq Without' \ {c}
    BY <1>0, <2>1, <2>2 DEF Without
  <2>. QED
    BY <1>0, <1>3, <1>4, <2>3, <2>4, ChargedClient
<1>. QED
  BY <1>7, <1>8

\* The lock lets a client have one refresh call at a time.
LEMMA OneBusy ==
  ASSUME Led, NEW r \in Request, call[r].leads \/ call[r].phase \in Exchanging,
         NEW q \in Request, Busy(q, ClientOf[r])
  PROVE  q = r
BY DEF Led, Busy, Exchanging

LEMMA PlainCarrying ==
  ASSUME TypeOK, Led, Waiting, Served, Carrying, NEW r \in Request, Plain(r) \/ Succeed(r)
  PROVE  Carrying'
<1>1. PICK S \in SUBSET Request :
           /\ \A q \in S : /\ call[q].phase # "refreshing" /\ call'[q].phase # "refreshing"
                           /\ handler[q].at = "idle"
           /\ \A q \in Request \ S : call'[q] = call[q]
  BY PlainIdle
<1>2. ASSUME NEW q \in Request, call'[q].phase = "refreshing"
      PROVE  call'[q].key = refresh'[ClientOf[q]]
  <2>1. call'[q] = call[q] /\ call[q].phase = "refreshing" /\ call[q].key = refresh[ClientOf[q]]
    BY <1>1, <1>2 DEF Carrying
  <2>2. refresh'[ClientOf[q]] = refresh[ClientOf[q]]
    <3>1. CASE RepeatFails(r)
      <4>1. call[r].leads /\ call[r].phase = "sent"
        BY <3>1 DEF RepeatFails, Refused, Received
      <4>2. ClientOf[q] # ClientOf[r]
        BY <2>1, <4>1, OneBusy DEF Busy
      <4>3. refresh' = [refresh EXCEPT ![ClientOf[r]] = None]
        BY <3>1 DEF RepeatFails
      <4>. QED
        BY <4>2, <4>3, Given DEF TypeOK
    <3>2. CASE ~RepeatFails(r)
      BY <3>2 DEF Plain, Send, Judge, JudgeFails, Retry, Wait, Fail, RemoveAccess,
         RemoveRefresh, Succeed, memory
    <3>. QED
      BY <3>1, <3>2
  <2>. QED
    BY <2>1, <2>2
<1>. QED
  BY <1>2 DEF Carrying

LEMMA RefreshingCarrying ==
  ASSUME TypeOK, Led, Carrying, NEW r \in Request, Refreshing(r)
  PROVE  Carrying'
<1>0. \A q \in Request \ {r} : call'[q] = call[q]
  BY RefreshMoves DEF Refreshing, Moves
<1>1. CASE StartRefresh(r)
  <2>1. UNCHANGED refresh /\ call'[r].key = refresh[ClientOf[r]]
    BY <1>1, RefreshMoves DEF StartRefresh, Lead, Carries
  <2>. QED
    BY <1>0, <2>1 DEF Carrying
<1>2. CASE RetryRefresh(r)
  <2>1. UNCHANGED refresh /\ call'[r].key = call[r].key /\ call[r].phase = "refreshing"
    BY <1>2, RefreshMoves DEF RetryRefresh, Refreshed, memory, Carries
  <2>. QED
    BY <1>0, <2>1 DEF Carrying
<1>3. CASE SaveAccess(r) \/ SaveRefresh(r) \/ RefreshFails(r)
  <2>1. UNCHANGED refresh /\ call'[r].phase # "refreshing"
    BY <1>3, RefreshMoves DEF SaveAccess, SaveRefresh, RefreshFails, memory, Moves
  <2>. QED
    BY <1>0, <2>1 DEF Carrying
<1>4. CASE TakePair(r)
  <2>1. /\ refresh' = [refresh EXCEPT ![ClientOf[r]] = call[r].pair]
        /\ call[r].phase = "refreshing" /\ call'[r].phase # "refreshing"
    BY <1>4, RefreshMoves DEF TakePair, Refreshed, Moves
  <2>2. ASSUME NEW q \in Request, call'[q].phase = "refreshing"
        PROVE  call'[q].key = refresh'[ClientOf[q]]
    <3>1. q # r /\ call'[q] = call[q] /\ call[q].phase = "refreshing"
      BY <1>0, <2>1, <2>2
    <3>2. ClientOf[q] # ClientOf[r]
      BY <2>1, <3>1, OneBusy DEF Busy, Exchanging
    <3>3. refresh'[ClientOf[q]] = refresh[ClientOf[q]]
      BY <2>1, <3>2, Given DEF TypeOK
    <3>. QED
      BY <3>1, <3>3 DEF Carrying
  <2>. QED
    BY <2>2 DEF Carrying
<1>. QED
  BY <1>1, <1>2, <1>3, <1>4 DEF Refreshing

LEMMA StepCarrying ==
  ASSUME Typed, Led, Waiting, Served, Carrying, [Next]_vars
  PROVE  Carrying'
<1>0. TypeOK
  BY DEF Typed
<1>1. ASSUME NEW r \in Request, Serving(r) PROVE Carrying'
  <2>1. /\ \A q \in Request : call'[q].phase = call[q].phase /\ call'[q].key = call[q].key
        /\ UNCHANGED refresh
    BY <1>0, <1>1, ServingCalls DEF Serving, LookupRefresh, LookupFails, DeleteToken,
       DeleteRefresh, DeleteFails, IssueToken, IssueRefresh, IssueFails, Abandon, memory
  <2>. QED
    BY <2>1 DEF Carrying
<1>2. ASSUME NEW c \in Client, Restart(c) PROVE Carrying'
  <2>1. /\ \A q \in Ends(c) : call'[q].phase = "killed"
        /\ \A q \in Request \ Ends(c) : call'[q] = call[q]
    BY <1>0, <1>2, RestartMoves
  <2>2. refresh' = [refresh EXCEPT ![c] = stored.refresh]
    BY <1>2 DEF Restart
  <2>3. ASSUME NEW q \in Request, call'[q].phase = "refreshing"
        PROVE  call'[q].key = refresh'[ClientOf[q]]
    <3>1. q \notin Ends(c) /\ call'[q] = call[q] /\ call[q].phase = "refreshing"
      BY <2>1, <2>3
    <3>2. ClientOf[q] # c
      BY <3>1 DEF Ends, Ended
    <3>3. refresh'[ClientOf[q]] = refresh[ClientOf[q]]
      BY <1>0, <2>2, <3>2, Given DEF TypeOK
    <3>. QED
      BY <3>1, <3>3 DEF Carrying
  <2>. QED
    BY <2>3 DEF Carrying
<1>3. ASSUME UNCHANGED <<call, refresh>> PROVE Carrying'
  BY <1>3 DEF Carrying
<1>4. ASSUME NEW k \in Pair, ExpireToken(k) \/ ExpireRefresh(k) PROVE Carrying'
  BY <1>3, <1>4 DEF ExpireToken, ExpireRefresh, memory
<1>5. UNCHANGED vars => Carrying'
  BY <1>3 DEF vars, memory
<1>. QED
  BY <1>0, <1>1, <1>2, <1>4, <1>5, Steps, PlainCarrying, RefreshingCarrying

\* What a client does about its refresh call makes no live key extra.
LEMMA RefreshingCharged ==
  ASSUME Few, Typed, TypeOK', Led, Served, Carrying, Charged,
         NEW r \in Request, Refreshing(r)
  PROVE  Charged'
<1>. DEFINE c == ClientOf[r]
<1>0. /\ TypeOK /\ c \in Client /\ None \notin Pair
      /\ refresh \in [Client -> Pair \cup {None}]
  BY Given DEF Typed, TypeOK
<1>1. /\ \A q \in Request \ {r} : call'[q] = call[q]
      /\ call'[r].phase # "killed"
  BY <1>0, RefreshMoves DEF Refreshing, Moves
<1>2. call[r].phase # "killed" /\ UNCHANGED <<refreshes, faults, restarts>>
  BY DEF Refreshing, StartRefresh, Lead, TakePair, SaveAccess, SaveRefresh, RetryRefresh,
     RefreshFails, Received, Refreshed, redis, bounds
<1>3. \A q \in Request \ {r} : handler'[q] = handler[q]
  <2>1. CASE StartRefresh(r)
    <3>1. refresh[c] \in Pair
      BY <1>0, <2>1, CallTyped DEF StartRefresh
    <3>. QED
      BY <1>0, <2>1, <3>1, CallHands DEF StartRefresh, Lead, Hands
  <2>2. CASE RetryRefresh(r)
    <3>1. call[r].key \in Pair
      BY <2>2, PairFacts DEF RetryRefresh, Refreshed, Exchanging
    <3>. QED
      BY <1>0, <2>2, <3>1, CallHands DEF RetryRefresh, Hands
  <2>3. CASE ~StartRefresh(r) /\ ~RetryRefresh(r)
    BY <2>3 DEF Refreshing, TakePair, SaveAccess, SaveRefresh, RefreshFails
  <2>. QED
    BY <2>1, <2>2, <2>3
<1>4. Orphaned' \subseteq Orphaned
  BY <1>1, <1>3 DEF Orphaned
<1>5. Mishaps \in Nat /\ Mishaps' = Mishaps
  BY <1>0, <1>2, Counted, MishapsKept
<1>6. \A k \in Pair : ~Leaves(r, k)
  BY <1>2 DEF Leaves, Orphaned
<1>7. /\ Without \subseteq Without'
      /\ \A d \in Client \ {c} : refresh'[d] = refresh[d]
      /\ \A k \in refreshes' : Keeps(c, k) => Keeps(c, k)'
  <2>1. CASE StartRefresh(r) \/ RetryRefresh(r)
    <3>1. /\ call'[r].phase = "refreshing" /\ call'[r].answer = "none"
          /\ UNCHANGED refresh /\ ClientOf[r] = c
      BY <1>0, <2>1, RefreshMoves DEF StartRefresh, Lead, RetryRefresh, memory, Moves, Carries
    <3>2. handler'[r].at = "called"
      <4>1. CASE StartRefresh(r)
        <5>1. refresh[c] \in Pair
          BY <1>0, <4>1, CallTyped DEF StartRefresh
        <5>. QED
          BY <1>0, <4>1, <5>1, CallHands DEF StartRefresh, Lead, Hands
      <4>2. CASE RetryRefresh(r)
        <5>1. call[r].key \in Pair
          BY <4>2, PairFacts DEF RetryRefresh, Refreshed, Exchanging
        <5>. QED
          BY <1>0, <4>2, <5>1, CallHands DEF RetryRefresh, Hands
      <4>. QED
        BY <2>1, <4>1, <4>2
    <3>3. ~(call[r].phase = "refreshing" /\ call[r].answer = "ok")
      BY <2>1 DEF StartRefresh, RetryRefresh, Received, Refreshed
    <3>. QED
      BY <1>1, <1>3, <3>1, <3>2, <3>3 DEF Keeps, Busy, Replacing, Without
  <2>2. CASE SaveAccess(r) \/ SaveRefresh(r)
    <3>1. /\ call[r].phase # "refreshing" /\ call'[r].phase # "refreshing"
          /\ UNCHANGED <<refresh, handler>>
      BY <1>0, <2>2, RefreshMoves DEF SaveAccess, SaveRefresh, memory, Moves
    <3>. QED
      BY <1>1, <3>1 DEF Keeps, Busy, Replacing, Without
  <2>3. CASE RefreshFails(r)
    <3>1. /\ call[r].phase = "refreshing" /\ call[r].answer # "ok"
          /\ call'[r].phase # "refreshing" /\ UNCHANGED <<refresh, handler>>
      BY <1>0, <2>3, RefreshMoves DEF RefreshFails, Refreshed, Moves
    <3>. QED
      BY <1>1, <3>1 DEF Keeps, Busy, Replacing, Without
  <2>4. CASE TakePair(r)
    <3>1. /\ call[r].phase = "refreshing" /\ call[r].answer = "ok"
          /\ call'[r].phase # "refreshing" /\ UNCHANGED handler
          /\ refresh' = [refresh EXCEPT ![c] = call[r].pair]
      BY <1>0, <2>4, RefreshMoves DEF TakePair, Refreshed, Moves
    <3>2. refresh[c] \in Pair
      BY <1>0, <3>1, PairFacts DEF Carrying, Exchanging
    <3>3. \A q \in Request : Busy(q, c) => q = r
      BY <3>1, OneBusy DEF Exchanging
    <3>4. \A q \in Request : ~Busy(q, c)'
      BY <1>1, <3>1, <3>3 DEF Busy
    <3>5. Without \subseteq Without' /\ \A d \in Client \ {c} : refresh'[d] = refresh[d]
      BY <1>0, <3>1, <3>2 DEF Without
    <3>6. refresh'[c] = call[r].pair
      BY <1>0, <3>1
    <3>7. ASSUME NEW k, Keeps(c, k) PROVE Keeps(c, k)'
      <4>1. Busy(r, c)
        BY <3>1 DEF Busy
      <4>2. k = call[r].pair
        BY <3>1, <3>3, <3>7, <4>1 DEF Keeps
      <4>. QED
        BY <3>4, <3>6, <4>2 DEF Keeps
    <3>. QED
      BY <3>5, <3>7
  <2>. QED
    BY <2>1, <2>2, <2>3, <2>4 DEF Refreshing
<1>8. Extra' \subseteq Extra \cup {}
  <2>1. \A k \in refreshes' \ {} : Leaves(r, k) => Leaves(r, k)'
    BY <1>0, <1>2, <1>6 DEF TypeOK
  <2>. QED
    BY <1>1, <1>2, <1>3, <1>7, <2>1, ExtraOne
<1>. QED
  BY <1>0, <1>4, <1>5, <1>7, <1>8, ChargedKept

\* A handler keeps nobody from a key but the one it exchanges, and from that
\* one no longer when it replaces it.
LEMMA ServingKeeps ==
  ASSUME TypeOK, Served, Carrying, NEW r \in Request, Serving(r),
         NEW k, k # handler[r].key \/ Replacing(r)
  PROVE  /\ Keeps(ClientOf[r], k) => Keeps(ClientOf[r], k)'
         /\ Leaves(r, k) => Leaves(r, k)'
<1>. DEFINE c == ClientOf[r]
<1>1. /\ \A q \in Request \ {r} : call'[q] = call[q] /\ handler'[q] = handler[q]
      /\ call'[r].phase = call[r].phase /\ UNCHANGED refresh
      /\ handler[r].at # "idle"
  BY ServingCalls, ServingHands DEF Serving, LookupRefresh, LookupFails, DeleteToken,
     DeleteRefresh, DeleteFails, IssueToken, IssueRefresh, IssueFails, Abandon, memory
<1>2. Busy(r, c) => call[r].answer = "none" /\ handler[r].key = refresh[c]
  BY <1>1 DEF Served, ServedCall, Carrying, Busy
<1>3. ASSUME Keeps(c, k) PROVE Keeps(c, k)'
  <2>1. CASE \E q \in Request : Busy(q, c) /\ call[q].answer = "ok" /\ call[q].pair = k
    BY <1>1, <1>2, <2>1 DEF Keeps, Busy
  <2>2. CASE /\ refresh[c] = k
             /\ \A q \in Request : Busy(q, c) => call[q].answer # "ok" /\ ~Replacing(q)
    <3>1. ~Busy(r, c)
      BY <1>2, <2>2
    <3>2. \A q \in Request : Busy(q, c)' => q # r /\ Busy(q, c)
      BY <1>1, <3>1 DEF Busy
    <3>. QED
      BY <1>1, <2>2, <3>2 DEF Keeps, Replacing
  <2>. QED
    BY <1>3, <2>1, <2>2 DEF Keeps
<1>4. ~Leaves(r, k)
  BY DEF Leaves
<1>. QED
  BY <1>3, <1>4

\* Nor does one that only goes on.
LEMMA ServingGoes ==
  ASSUME NEW r \in Request, NEW k, UNCHANGED <<call, refresh>>,
         \A q \in Request \ {r} : handler'[q] = handler[q],
         handler'[r].at \in {"found", "unlinked"}, handler'[r].key = handler[r].key,
         ~Replacing(r), handler[r].at # "idle"
  PROVE  /\ Keeps(ClientOf[r], k) => Keeps(ClientOf[r], k)'
         /\ Leaves(r, k) => Leaves(r, k)'
<1>1. \A q \in Request : Replacing(q)' <=> Replacing(q)
  BY DEF Replacing
<1>2. \A q \in Request : Busy(q, ClientOf[r])' <=> Busy(q, ClientOf[r])
  BY DEF Busy
<1>3. Keeps(ClientOf[r], k) => Keeps(ClientOf[r], k)'
  BY <1>1, <1>2 DEF Keeps
<1>4. Leaves(r, k) => Leaves(r, k)'
  BY <1>1 DEF Leaves, Orphaned
<1>. QED
  BY <1>3, <1>4

LEMMA ServingCharged ==
  ASSUME Few, Typed, TypeOK', Served, Carrying, Charged, NEW r \in Request, Serving(r)
  PROVE  Charged'
<1>. DEFINE c == ClientOf[r]
            key == handler[r].key
            pair == handler[r].pair
<1>0. TypeOK
  BY DEF Typed
<1>1. /\ \A q \in Request \ {r} : call'[q] = call[q] /\ handler'[q] = handler[q]
      /\ call'[r].phase = call[r].phase /\ UNCHANGED refresh
      /\ handler[r].at # "idle"
  BY <1>0, ServingCalls, ServingHands DEF Serving, LookupRefresh, LookupFails, DeleteToken,
     DeleteRefresh, DeleteFails, IssueToken, IssueRefresh, IssueFails, Abandon, memory
<1>2. Without' = Without /\ Orphaned' \subseteq Orphaned
  BY <1>1 DEF Without, Orphaned
<1>3. \A k : k # key \/ Replacing(r) => /\ Keeps(c, k) => Keeps(c, k)'
                                        /\ Leaves(r, k) => Leaves(r, k)'
  BY <1>0, ServingKeeps
<1>4. Mishaps \in Nat
  BY <1>0, Counted
<1>5. ASSUME NEW answer \in {"ok", "denied", "error"}, Reply(r, answer)
      PROVE  handler'[r].at = "idle"
  BY <1>0, <1>5, ReplyMoves DEF Hands
<1>6. ASSUME NEW at \in {"found", "unlinked", "revoked"}, Go(r, at)
      PROVE  handler'[r].at = at /\ handler'[r].key = key
  BY <1>0, <1>1, <1>6, GoHands DEF Hands
<1>7. CASE LookupFails(r) \/ DeleteFails(r)
  <2>1. UNCHANGED refreshes /\ faults' = faults + 1 /\ restarts' = restarts
    BY <1>7 DEF LookupFails, DeleteFails, Fault, redis
  <2>2. \A k \in refreshes' \ {key} : /\ Keeps(c, k) => Keeps(c, k)'
                                      /\ Leaves(r, k) => Leaves(r, k)'
    BY <1>3
  <2>3. Extra' \subseteq Extra \cup {key}
    BY <1>1, <2>1, <2>2, ExtraOne
  <2>. QED
    BY <1>0, <1>2, <2>1, <2>3, MishapsFault, ChargedFault
<1>8. CASE IssueFails(r)
  <2>1. /\ refreshes' \subseteq refreshes \cup {pair} /\ Replacing(r)
        /\ faults' = faults + 1 /\ restarts' = restarts
    BY <1>8 DEF IssueFails, Fault, Replacing, At
  <2>2. \A k \in refreshes' \ {pair} : /\ Keeps(c, k) => Keeps(c, k)'
                                       /\ Leaves(r, k) => Leaves(r, k)'
    BY <1>3, <2>1
  <2>3. Extra' \subseteq Extra \cup {pair}
    BY <1>1, <2>1, <2>2, ExtraOne
  <2>. QED
    BY <1>0, <1>2, <2>1, <2>3, MishapsFault, ChargedFault
<1>9. CASE Abandon(r)
  <2>1. /\ UNCHANGED <<refreshes, faults, restarts>> /\ call[r].phase = "killed"
        /\ handler'[r].at = "idle"
    BY <1>0, <1>9 DEF Abandon, Free, TypeOK, redis, bounds
  <2>2. \A k \in refreshes' \ {key} : /\ Keeps(c, k) => Keeps(c, k)'
                                      /\ Leaves(r, k) => Leaves(r, k)'
    BY <1>3
  <2>3. Extra' \subseteq Extra \cup {key}
    BY <1>1, <2>1, <2>2, ExtraOne
  <2>4. r \in Orphaned /\ Orphaned' \subseteq Orphaned \ {r}
    BY <1>1, <1>2, <2>1 DEF Orphaned
  <2>5. Mishaps <= Mishaps'
    BY <1>4, <2>1, MishapsKept
  <2>. QED
    BY <1>0, <1>2, <2>3, <2>4, <2>5, ChargedLeaver
<1>10. CASE IssueRefresh(r)
  <2>1. /\ refreshes' = refreshes \cup {pair} /\ Replacing(r) /\ Reply(r, "ok")
        /\ UNCHANGED <<faults, restarts>>
    BY <1>10 DEF IssueRefresh, Replacing, At, bounds
  <2>2. \A k \in refreshes' \ {pair} : /\ Keeps(c, k) => Keeps(c, k)'
                                       /\ Leaves(r, k) => Leaves(r, k)'
    BY <1>3, <2>1
  <2>3. Extra' \subseteq Extra \cup {pair}
    BY <1>1, <2>1, <2>2, ExtraOne
  <2>4. Mishaps <= Mishaps'
    BY <1>4, <2>1, MishapsKept
  <2>5. CASE call[r].phase = "refreshing"
    <3>1. call'[r].phase = "refreshing" /\ call'[r].pair = pair /\ call'[r].answer = "ok"
      BY <1>0, <2>1, <2>5, ReplyMoves DEF Moves, Carries
    <3>2. PICK p \in Pair : p = pair
      <4>1. At(r, "issued")
        BY <1>10 DEF IssueRefresh
      <4>. QED
        BY <4>1, PairFacts
    <3>3. c \in Client /\ Keeps(c, p)'
      BY <3>1, <3>2, Given DEF Keeps, Busy
    <3>4. p \notin Extra'
      BY <3>3 DEF Extra, Kept
    <3>5. Extra' \subseteq Extra
      BY <2>3, <3>2, <3>4
    <3>. QED
      BY <1>0, <1>2, <2>4, <3>5, ChargedKept
  <2>6. CASE call[r].phase # "refreshing"
    <3>1. call[r].phase = "killed"
      BY <1>1, <2>6 DEF Served, ServedCall
    <3>2. handler'[r].at = "idle"
      BY <1>5, <2>1
    <3>3. r \in Orphaned /\ Orphaned' \subseteq Orphaned \ {r}
      BY <1>1, <1>2, <3>1, <3>2 DEF Orphaned
    <3>. QED
      BY <1>0, <1>2, <2>3, <2>4, <3>3, ChargedLeaver
  <2>. QED
    BY <2>5, <2>6
<1>11. CASE \/ LookupRefresh(r) \/ DeleteToken(r) \/ DeleteRefresh(r) \/ IssueToken(r)
  <2>1. UNCHANGED <<faults, restarts>>
    BY <1>11 DEF LookupRefresh, DeleteToken, DeleteRefresh, IssueToken, bounds
  <2>2. Mishaps <= Mishaps'
    BY <1>4, <2>1, MishapsKept
  <2>3. /\ refreshes' \subseteq refreshes
        /\ \A k \in refreshes' : /\ Keeps(c, k) => Keeps(c, k)'
                                 /\ Leaves(r, k) => Leaves(r, k)'
    <3>1. CASE \/ DeleteToken(r)
               \/ LookupRefresh(r) /\ key \in refreshes
      <4>1. /\ UNCHANGED <<call, refresh, refreshes>>
            /\ handler'[r].at \in {"found", "unlinked"} /\ handler'[r].key = key
            /\ ~Replacing(r)
        BY <1>1, <1>6, <3>1 DEF DeleteToken, LookupRefresh, redis, Replacing, At
      <4>. QED
        BY <1>1, <4>1, ServingGoes
    <3>2. CASE \/ IssueToken(r) \/ DeleteRefresh(r)
               \/ LookupRefresh(r) /\ key \notin refreshes
      <4>1. /\ refreshes' \subseteq refreshes
            /\ Replacing(r) \/ key \notin refreshes'
        BY <3>2 DEF IssueToken, DeleteRefresh, LookupRefresh, redis, Replacing, At
      <4>. QED
        BY <1>3, <4>1
    <3>. QED
      BY <1>11, <3>1, <3>2
  <2>4. Extra' \subseteq Extra \cup {}
    BY <1>1, <2>3, ExtraOne
  <2>. QED
    BY <1>0, <1>2, <2>2, <2>4, ChargedKept
<1>. QED
  BY <1>7, <1>8, <1>9, <1>10, <1>11 DEF Serving

\* A client keeps one key at most, and none if it has no refresh token.
LEMMA KeepsOne ==
  ASSUME Led, NEW c \in Client
  PROVE  \E x : \A k : Keeps(c, k) => k = x
<1>1. CASE \E r \in Request : Busy(r, c) /\ call[r].answer = "ok"
  <2>1. PICK r \in Request : Busy(r, c) /\ call[r].answer = "ok"
    BY <1>1
  <2>2. \A q \in Request : Busy(q, c) => q = r
    BY <2>1, OneBusy DEF Busy, Exchanging
  <2>3. \A k : Keeps(c, k) => k = call[r].pair
    BY <2>1, <2>2 DEF Keeps
  <2>. QED
    BY <2>3
<1>2. CASE ~\E r \in Request : Busy(r, c) /\ call[r].answer = "ok"
  <2>1. \A k : Keeps(c, k) => k = refresh[c]
    BY <1>2 DEF Keeps
  <2>. QED
    BY <2>1
<1>. QED
  BY <1>1, <1>2

LEMMA KeepsNone ==
  ASSUME Typed, Carrying, NEW c \in Client, refresh[c] = None, NEW k \in Pair
  PROVE  ~Keeps(c, k)
<1>1. \A r \in Request : ~Busy(r, c)
  <2>. SUFFICES ASSUME NEW r \in Request, Busy(r, c) PROVE FALSE
    OBVIOUS
  <2>1. call[r].phase = "refreshing" /\ call[r].key = None
    BY DEF Busy, Carrying
  <2>2. call[r].key \in Pair
    BY <2>1, PairFacts DEF Exchanging
  <2>. QED
    BY <2>1, <2>2, Given
<1>. QED
  BY <1>1, Given DEF Keeps

LEMMA RestartCharged ==
  ASSUME Few, Typed, TypeOK', Led, Served, Carrying, Charged, NEW c \in Client, Restart(c)
  PROVE  Charged'
<1>0. TypeOK /\ None \notin Pair /\ refresh \in [Client -> Pair \cup {None}]
  BY Given DEF Typed, TypeOK
<1>1. /\ \A q \in Ends(c) : call'[q].phase = "killed"
      /\ \A q \in Request \ Ends(c) : call'[q] = call[q]
  BY <1>0, RestartMoves
<1>2. /\ refresh' = [refresh EXCEPT ![c] = stored.refresh]
      /\ UNCHANGED <<refreshes, handler, faults>> /\ restarts' = restarts + 1
  BY DEF Restart, redis
<1>3. Mishaps' = Mishaps + 1
  BY <1>0, <1>2, MishapsRestart
<1>4. ASSUME NEW d \in Client \ {c}, NEW k, Keeps(d, k) PROVE Keeps(d, k)'
  <2>1. refresh'[d] = refresh[d]
    BY <1>0, <1>2
  <2>2. \A q \in Request : ClientOf[q] = d => call'[q] = call[q]
    BY <1>1 DEF Ends
  <2>. QED
    BY <1>2, <1>4, <2>1, <2>2 DEF Keeps, Busy, Replacing
<1>5. ASSUME NEW q \in Request, NEW k, Leaves(q, k) PROVE Leaves(q, k)'
  <2>1. call'[q] = call[q]
    BY <1>1, <1>5 DEF Leaves, Orphaned, Ends, Ended
  <2>. QED
    BY <1>2, <1>5, <2>1 DEF Leaves, Orphaned, Replacing
<1>6. ASSUME NEW q \in Request, q \in Orphaned' \ Orphaned
      PROVE  Busy(q, c) /\ handler[q].at # "idle"
  <2>1. q \in Ends(c) /\ handler[q].at # "idle"
    BY <1>1, <1>2, <1>6 DEF Orphaned
  <2>. QED
    BY <2>1 DEF Ends, Ended, Served, ServedCall, Busy
<1>7. CASE \E r \in Request : Busy(r, c) /\ handler[r].at # "idle"
  <2>1. PICK r \in Request : Busy(r, c) /\ handler[r].at # "idle"
    BY <1>7
  <2>2. \A q \in Request : Busy(q, c) => q = r
    BY <2>1, OneBusy DEF Busy, Exchanging
  <2>3. /\ call[r].answer = "none" /\ handler[r].key = refresh[c] /\ refresh[c] \in Pair
    <3>1. call[r].answer = "none" /\ call[r].key = handler[r].key /\ call[r].key = refresh[c]
      BY <2>1 DEF Served, ServedCall, Carrying, Busy
    <3>2. call[r].key \in Pair
      BY <2>1, PairFacts DEF Busy, Exchanging
    <3>. QED
      BY <3>1, <3>2
  <2>4. r \in Ends(c)
    BY <2>1 DEF Busy, Ends, Ended
  <2>5. ASSUME NEW k \in Kept PROVE k \in Kept'
    <3>1. CASE Keeps(c, k)
      <4>1. k = refresh[c] /\ ~Replacing(r)
        BY <2>1, <2>2, <2>3, <3>1 DEF Keeps
      <4>2. Leaves(r, k)'
        BY <1>1, <1>2, <2>1, <2>3, <2>4, <4>1 DEF Leaves, Orphaned, Replacing
      <4>. QED
        BY <4>2 DEF Kept
    <3>2. CASE ~Keeps(c, k)
      BY <1>4, <1>5, <3>2 DEF Kept
    <3>. QED
      BY <3>1, <3>2
  <2>6. Extra' \subseteq Extra
    BY <1>2, <2>5 DEF Extra
  <2>7. Orphaned' \subseteq Orphaned \cup {r}
    <3>1. Orphaned' \subseteq Request
      BY DEF Orphaned
    <3>. QED
      BY <1>6, <2>2, <3>1
  <2>8. Without \subseteq Without'
    BY <1>0, <1>2, <2>3 DEF Without
  <2>. QED
    BY <1>0, <1>3, <2>6, <2>7, <2>8, ChargedRestart
<1>8. CASE ~\E r \in Request : Busy(r, c) /\ handler[r].at # "idle"
  <2>1. Orphaned' \subseteq Orphaned
    <3>1. Orphaned' \subseteq Request
      BY DEF Orphaned
    <3>. QED
      BY <1>6, <1>8, <3>1
  <2>2. CASE refresh[c] = None
    <3>1. \A k \in Pair : ~Keeps(c, k)
      BY <2>2, KeepsNone
    <3>2. \A k \in Kept : k \in Kept'
      BY <1>4, <1>5, <3>1 DEF Kept
    <3>3. Extra' \subseteq Extra
      BY <1>2, <3>2 DEF Extra
    <3>4. Without \subseteq Without' \cup {c}
      BY <1>0, <1>2 DEF Without
    <3>. QED
      BY <1>0, <1>3, <2>1, <3>3, <3>4, ChargedRestart
  <2>3. CASE refresh[c] # None
    <3>1. PICK x : \A k : Keeps(c, k) => k = x
      BY KeepsOne
    <3>2. \A k \in Kept : k # x => k \in Kept'
      BY <1>4, <1>5, <3>1 DEF Kept
    <3>3. Extra' \subseteq Extra \cup {x}
      BY <1>2, <3>2 DEF Extra
    <3>4. Without \subseteq Without'
      BY <1>0, <1>2, <2>3 DEF Without
    <3>. QED
      BY <1>0, <1>3, <2>1, <3>3, <3>4, ChargedFault
  <2>. QED
    BY <2>2, <2>3
<1>. QED
  BY <1>7, <1>8

LEMMA StepCharged ==
  ASSUME Few, Typed, Typed', Led, Waiting, Served, Carrying, Charged, [Next]_vars
  PROVE  Charged'
<1>0. TypeOK /\ TypeOK'
  BY DEF Typed
<1>1. ASSUME UNCHANGED <<handler, call, refresh, faults, restarts>>, refreshes' \subseteq refreshes
      PROVE  Charged'
  <2>1. Orphaned' = Orphaned /\ Without' = Without
    BY <1>1 DEF Orphaned, Without
  <2>2. \A c \in Client : \A k \in refreshes' \ {} : Keeps(c, k) => Keeps(c, k)'
    BY <1>1 DEF Keeps, Busy, Replacing
  <2>3. \A r \in Request : \A k \in refreshes' \ {} : Leaves(r, k) => Leaves(r, k)'
    BY <1>1 DEF Leaves, Orphaned, Replacing
  <2>4. Extra' \subseteq Extra \cup {}
    BY <1>0, <1>1, <2>2, <2>3, ExtraFrom
  <2>5. Mishaps \in Nat /\ Mishaps' = Mishaps
    BY <1>0, <1>1, Counted, MishapsKept
  <2>. QED
    BY <1>0, <2>1, <2>4, <2>5, ChargedKept
<1>2. ASSUME NEW k \in Pair, ExpireToken(k) \/ ExpireRefresh(k) PROVE Charged'
  BY <1>1, <1>2 DEF ExpireToken, ExpireRefresh, memory
<1>3. UNCHANGED vars => Charged'
  BY <1>1 DEF vars, redis, memory, bounds
<1>. QED
  BY <1>0, <1>2, <1>3, Steps, PlainCharged, RefreshingCharged, ServingCharged, RestartCharged

LEMMA InitCharged == Few /\ Init => Served /\ Carrying /\ Charged
<1>. SUFFICES ASSUME Few, Init PROVE Served /\ Carrying /\ Charged
  OBVIOUS
<1>1. TypeOK /\ Served
  BY InitTyped, InitFresh DEF Typed
<1>2. PICK k \in {0, 1} :
        /\ refreshes = {k} /\ refresh = [c \in Client |-> k]
        /\ handler = [r \in Request |-> Free] /\ call = [r \in Request |-> Blank]
  BY DEF Init
<1>3. \A r \in Request : call[r].phase = "idle"
  BY <1>2 DEF Blank
<1>4. Carrying
  BY <1>3 DEF Carrying
<1>5. PICK c \in Client : TRUE
  BY DEF Few
<1>6. Keeps(c, k)
  BY <1>2, <1>3 DEF Keeps, Busy
<1>7. k \in Pair
  BY <1>2, Given
<1>8. Extra = {} /\ Orphaned = {}
  BY <1>2, <1>3, <1>6, <1>7 DEF Extra, Kept, Orphaned
<1>9. Cardinality(Extra) = 0 /\ Cardinality(Orphaned) = 0
  BY <1>8, FS_EmptySet
<1>10. Mishaps \in Nat /\ Cardinality(Without) \in Nat
  BY <1>1, Counted, Finite
<1>11. Charged
  BY <1>9, <1>10 DEF Charged
<1>. QED
  BY <1>1, <1>4, <1>11

\* A set each of whose elements some member of S stands for is no larger.
LEMMA CountedBy ==
  ASSUME NEW S, IsFiniteSet(S), NEW T, NEW f, \A t \in T : \E s \in S : f[s] = t
  PROVE  IsFiniteSet(T) /\ Cardinality(T) <= Cardinality(S)
<1>. DEFINE D == {s \in S : f[s] \in T}
            g == [s \in D |-> f[s]]
<1>1. IsFiniteSet(D) /\ Cardinality(D) <= Cardinality(S)
  BY FS_Subset
<1>2. g \in Surjection(D, T)
  <2>1. g \in [D -> T] /\ \A t \in T : \E s \in D : g[s] = t
    OBVIOUS
  <2>. HIDE DEF D, g
  <2>. QED
    BY <2>1, Fun_IsSurj
<1>. HIDE DEF D, g
<1>3. IsFiniteSet(T) /\ Cardinality(T) <= Cardinality(D)
  BY <1>1, <1>2, FS_Surjection
<1>4. /\ Cardinality(T) \in Nat /\ Cardinality(D) \in Nat /\ Cardinality(S) \in Nat
  BY <1>1, <1>3, FS_CardinalityType
<1>. QED
  BY <1>1, <1>3, <1>4

LEMMA UnionCounted ==
  ASSUME NEW S, NEW T, IsFiniteSet(S), IsFiniteSet(T)
  PROVE  /\ IsFiniteSet(S \cup T)
         /\ Cardinality(S) \in Nat /\ Cardinality(T) \in Nat /\ Cardinality(S \cup T) \in Nat
         /\ Cardinality(S \cup T) <= Cardinality(S) + Cardinality(T)
<1>1. /\ IsFiniteSet(S \cup T) /\ IsFiniteSet(S \cap T)
      /\ Cardinality(S \cup T) = Cardinality(S) + Cardinality(T) - Cardinality(S \cap T)
  BY FS_Union, FS_Intersection
<1>2. /\ Cardinality(S) \in Nat /\ Cardinality(T) \in Nat /\ Cardinality(S \cup T) \in Nat
      /\ Cardinality(S \cap T) \in Nat
  BY <1>1, FS_CardinalityType
<1>. QED
  BY <1>1, <1>2

LEMMA ChargedIsBounded ==
  ASSUME Few, Typed, Led, Carrying, Charged
  PROVE  LiveKeysAreBounded
<1>. DEFINE ByClient == {k \in Pair : \E c \in Client : Keeps(c, k)}
            ByHandler == {k \in Pair : \E r \in Request : Leaves(r, k)}
            With == Client \ Without
<1>0. TypeOK
  BY DEF Typed
<1>1. /\ IsFiniteSet(Extra) /\ IsFiniteSet(Orphaned) /\ IsFiniteSet(With)
      /\ IsFiniteSet(Without) /\ IsFiniteSet(Client) /\ IsFiniteSet(refreshes)
      /\ Cardinality(Extra) \in Nat /\ Cardinality(Orphaned) \in Nat
      /\ Cardinality(With) \in Nat /\ Cardinality(Without) \in Nat
      /\ Cardinality(Client) \in Nat /\ Cardinality(refreshes) \in Nat
  <2>1. Extra \subseteq Pair /\ Orphaned \subseteq Request /\ Without \subseteq Client
    BY <1>0, Counted
  <2>2. refreshes \subseteq Pair /\ With \subseteq Client
    BY <1>0 DEF TypeOK
  <2>. QED
    BY <2>1, <2>2, Finite
<1>2. Cardinality(With) = Cardinality(Client) - Cardinality(Without)
  <2>1. Client \cap Without = Without
    BY DEF Without
  <2>2. Cardinality(Client \ Without) = Cardinality(Client) - Cardinality(Client \cap Without)
    BY <1>1, FS_Difference
  <2>. QED
    BY <2>1, <2>2
<1>3. IsFiniteSet(ByClient) /\ Cardinality(ByClient) <= Cardinality(With)
  <2>. DEFINE f == [c \in Client |-> CHOOSE x : \A k : Keeps(c, k) => k = x]
  <2>1. \A c \in Client : \A k : Keeps(c, k) => k = f[c]
    BY KeepsOne
  <2>. HIDE DEF f
  <2>2. \A k \in ByClient : \E c \in With : f[c] = k
    BY <2>1, KeepsNone DEF Without
  <2>. HIDE DEF ByClient, With
  <2>. QED
    BY <1>1, <2>2, CountedBy
<1>4. IsFiniteSet(ByHandler) /\ Cardinality(ByHandler) <= Cardinality(Orphaned)
  <2>. DEFINE f == [r \in Request |-> handler[r].key]
  <2>1. \A k \in ByHandler : \E r \in Orphaned : f[r] = k
    BY DEF Leaves, Orphaned
  <2>. HIDE DEF f, ByHandler
  <2>. QED
    BY <1>1, <2>1, CountedBy
<1>5. refreshes \subseteq (Extra \cup ByClient) \cup ByHandler
  BY <1>0 DEF Extra, Kept, TypeOK
<1>. HIDE DEF ByClient, ByHandler, With
<1>6. /\ IsFiniteSet(Extra \cup ByClient)
      /\ Cardinality(ByClient) \in Nat /\ Cardinality(Extra \cup ByClient) \in Nat
      /\ Cardinality(Extra \cup ByClient) <= Cardinality(Extra) + Cardinality(ByClient)
  BY <1>1, <1>3, UnionCounted
<1>7. /\ IsFiniteSet((Extra \cup ByClient) \cup ByHandler)
      /\ Cardinality(ByHandler) \in Nat
      /\ Cardinality((Extra \cup ByClient) \cup ByHandler) \in Nat
      /\ Cardinality((Extra \cup ByClient) \cup ByHandler)
           <= Cardinality(Extra \cup ByClient) + Cardinality(ByHandler)
  BY <1>4, <1>6, UnionCounted
<1>8. Cardinality(refreshes) <= Cardinality((Extra \cup ByClient) \cup ByHandler)
  BY <1>5, <1>7, FS_Subset
<1>9. Cardinality(Extra) + Cardinality(Orphaned) <= Mishaps + Cardinality(Without)
  BY DEF Charged
<1>10. Mishaps \in Nat
  BY <1>0, Counted
<1>11. Cardinality(refreshes) <= Cardinality(Client) + Mishaps
  BY <1>1, <1>2, <1>3, <1>4, <1>6, <1>7, <1>8, <1>9, <1>10
<1>12. Cardinality(Client) + Mishaps = Cardinality(Client) + faults + restarts
  BY <1>0, <1>1 DEF Mishaps, TypeOK
<1>. QED
  BY <1>11, <1>12 DEF LiveKeysAreBounded

-----------------------------------------------------------------------------
(***************************************************************************)
(* Two clients that exchange the same token at once both get a pair        *)
(* (auth.go:146 reads what auth.go:168 deletes), but sessions do not       *)
(* multiply, however many clients, requests, faults and restarts there     *)
(* are: there is at most one live refresh token for each client and one    *)
(* for each fault or restart, and no session token outlives its rotation   *)
(* (auth.go:166) but by a lost call.                                       *)
(***************************************************************************)
THEOREM SessionsAreAlwaysBounded ==
  ASSUME Few
  PROVE  Spec => []SessionsAreBounded
<1>. DEFINE Inv == Served /\ Paired /\ Carrying /\ Charged
<1>1. Init => Inv
  BY InitFresh, InitPaired, InitCharged
<1>2. Typed /\ Typed' /\ Led /\ Waiting /\ Inv /\ [Next]_vars => Inv'
  BY StepServed, StepPaired, StepCarrying, StepCharged
<1>3. Typed /\ Led /\ Inv => SessionsAreBounded
  BY ChargedIsBounded DEF SessionsAreBounded, Paired
<1>. HIDE DEF Inv
<1>. QED
  BY <1>1, <1>2, <1>3, AlwaysLed, PTL DEF Spec

=============================================================================
