--------------------------- MODULE SessionRefresh ---------------------------
(***************************************************************************)
(* The credentials of a registered device: the pairs of session and        *)
(* refresh token in Redis (handlers/auth.go, middleware/auth.go) and the   *)
(* app's AuthInterceptor and RetryInterceptor (api_interceptors.dart).     *)
(*                                                                         *)
(* The app and its headless agent are clients with a memory each over one  *)
(* stored pair.  Pairs are numbered in the order they are issued; access   *)
(* credential 0 is the API key, which the app uses instead of the session  *)
(* token that registration issues.                                         *)
(***************************************************************************)
EXTENDS Integers, FiniteSets

CONSTANTS
  Client,     \* isolates with an OrbGuardApiClient of their own
  Request,
  ClientOf,
  UserRoute,  \* requests of routes that answer 401 to every device
  MaxPairs, MaxRetries, MaxExpiries,
  MaxMishaps, \* faults and restarts together
  None

ASSUME SessionAssumption ==
  /\ ClientOf \in [Request -> Client] /\ UserRoute \subseteq Request
  /\ MaxPairs \in Nat \ {0} /\ MaxRetries \in Nat /\ MaxExpiries \in Nat
  /\ MaxMishaps \in Nat
  /\ None \notin 0..MaxPairs

VARIABLES
  tokens,      \* access credentials with a key in Redis
  refreshes,   \* refresh tokens with a key in Redis
  pairs,       \* the number of the last pair
  handler,     \* handler[r]: Refresh at work for the refresh call of r
  access, refresh, isRefreshing, queue,   \* AuthInterceptor, by client
  stored,      \* the pair in the shared preferences
  call,        \* call[r]: the request r as its client sees it
  expired, spent, burnt, stray,   \* what became of keys (history)
  left,        \* requests that a failed refresh left in the queue (history)
  expiries, faults, restarts

redis == <<tokens, refreshes, pairs>>
memory == <<access, refresh, isRefreshing, queue>>
history == <<expired, spent, burnt, stray, left>>
bounds == <<expiries, faults, restarts>>
vars == <<redis, handler, memory, stored, call, history, bounds>>

Pair == 0..MaxPairs
Ended == {"ended", "killed"}

Phase == {"idle", "sent", "queued", "refreshing", "saving", "savingRefresh",
          "clearing", "clearingRefresh"} \cup Ended

\* cred is the access token of the request; key and pair are what its refresh
\* call carries and was answered.
Call == [phase : Phase, cred : Pair \cup {None},
         answer : {"none", "ok", "denied", "rejected", "error"},
         leads : BOOLEAN,        \* it has set _isRefreshing
         key : Pair \cup {None}, pair : Pair \cup {None},
         tries : 0..MaxRetries, refreshTries : 0..MaxRetries]

Blank == [phase |-> "idle", cred |-> None, answer |-> "none", leads |-> FALSE,
          key |-> None, pair |-> None, tries |-> 0, refreshTries |-> 0]

Free == [at |-> "idle", key |-> None, pair |-> None]

Handler == {Free} \cup [at : {"called", "found", "unlinked", "revoked", "issued"},
                        key : Pair, pair : Pair \cup {None}]

TypeOK ==
  /\ tokens \subseteq Pair /\ refreshes \subseteq Pair /\ pairs \in Pair
  /\ handler \in [Request -> Handler]
  /\ access \in [Client -> Pair \cup {None}]
  /\ refresh \in [Client -> Pair \cup {None}]
  /\ isRefreshing \in [Client -> BOOLEAN]
  /\ queue \in [Client -> SUBSET Request]
  /\ stored \in [access : Pair \cup {None}, refresh : Pair \cup {None}]
  /\ call \in [Request -> Call]
  /\ expired \subseteq Pair /\ burnt \subseteq Pair /\ stray \subseteq Pair
  /\ spent \in [Pair -> SUBSET Client] /\ left \subseteq Request
  /\ expiries \in 0..MaxExpiries
  /\ faults \in Nat /\ restarts \in Nat /\ faults + restarts <= MaxMishaps

\* A device that has just registered, or has rotated its pair before.
Init ==
  \E k \in {0, 1} :
    /\ tokens = {0, k} /\ refreshes = {k} /\ pairs = k
    /\ access = [c \in Client |-> k] /\ refresh = [c \in Client |-> k]
    /\ stored = [access |-> k, refresh |-> k]
    /\ isRefreshing = [c \in Client |-> FALSE] /\ queue = [c \in Client |-> {}]
    /\ handler = [r \in Request |-> Free]
    /\ call = [r \in Request |-> Blank]
    /\ expired = {} /\ burnt = {} /\ stray = {}
    /\ spent = [p \in Pair |-> {}] /\ left = {}
    /\ expiries = 0 /\ faults = 0 /\ restarts = 0

Fault == faults + restarts < MaxMishaps /\ faults' = faults + 1

-----------------------------------------------------------------------------
(***************************************************************************)
(* The steps of a request and of the handler of its refresh call.          *)
(***************************************************************************)
\* onRequest: every request, the repeated ones too, goes out with the access
\* token in memory; when there is none, with the header it has already.
Sent(r, rec) ==
  [rec EXCEPT !.phase = "sent", !.answer = "none",
              !.cred = IF access[ClientOf[r]] = None THEN @ ELSE access[ClientOf[r]],
              !.key = None, !.pair = None]

End(phase) == [Blank EXCEPT !.phase = phase]

\* What is sent again after an error may carry its old header; what is sent
\* again after a refusal gets a new one.
Answered(r, answer) ==
  call' = [call EXCEPT ![r].answer = answer,
                       ![r].cred = IF answer = "error" THEN @ ELSE None]

Received(r, answer) == call[r].phase = "sent" /\ call[r].answer = answer

\* r sets _isRefreshing and sends the refresh call.
Lead(r, c) ==
  /\ isRefreshing' = [isRefreshing EXCEPT ![c] = TRUE]
  /\ call' = [call EXCEPT ![r] = [@ EXCEPT !.phase = "refreshing", !.leads = TRUE,
                                           !.answer = "none", !.key = refresh[c],
                                           !.refreshTries = 0]]
  /\ handler' = [handler EXCEPT ![r] = [@ EXCEPT !.at = "called", !.key = refresh[c]]]
  /\ UNCHANGED <<redis, access, refresh, queue, stored, history, bounds>>

\* RetryInterceptor._shouldRetry, on a request sent again n times before.
MayRetry(n) == n < MaxRetries

Refreshed(r, answer) == call[r].phase = "refreshing" /\ call[r].answer = answer

At(r, at) == handler[r].at = at
Go(r, at) == handler' = [handler EXCEPT ![r].at = at]

\* The answer reaches the client if it still waits for it.
Reply(r, answer) ==
  /\ handler' = [handler EXCEPT ![r] = Free]
  /\ call' = IF call[r].phase = "refreshing"
             THEN [call EXCEPT ![r].answer = answer, ![r].pair = handler[r].pair]
             ELSE call

(***************************************************************************)
(* Plausible slips, each an alternative form of the definition its comment *)
(* describes.                                                              *)
(***************************************************************************)
\* The new refresh token of the answer is dropped.
TakeAccess(r) ==
  LET c == ClientOf[r] IN
  /\ Refreshed(r, "ok")
  /\ access' = [access EXCEPT ![c] = call[r].pair]
  /\ call' = [call EXCEPT ![r].phase = "saving"]
  /\ UNCHANGED <<redis, handler, refresh, isRefreshing, queue, stored, history, bounds>>

\* The used refresh token stays.
KeepRefresh(r) ==
  /\ At(r, "unlinked") /\ Go(r, "revoked")
  /\ spent' = [spent EXCEPT ![handler[r].key] = @ \cup {ClientOf[r]}]
  /\ UNCHANGED <<redis, memory, stored, call, expired, burnt, stray, left, bounds>>

\* The queue is not run after a refresh.
SucceedAlone(r) ==
  LET c == ClientOf[r] IN
  /\ Received(r, "ok")
  /\ call' = [call EXCEPT ![r].phase = "ended", ![r].leads = FALSE]
  /\ isRefreshing' = [isRefreshing EXCEPT ![c] = @ /\ ~call[r].leads]
  /\ UNCHANGED <<redis, handler, access, refresh, queue, stored, history, bounds>>

-----------------------------------------------------------------------------
(***************************************************************************)
(* The client's side of a request.                                         *)
(***************************************************************************)

Send(r) ==
  /\ call[r].phase = "idle"
  /\ call' = [call EXCEPT ![r] = Sent(r, @)]
  /\ UNCHANGED <<redis, handler, memory, stored, history, bounds>>

\* lookupToken, a route's own demand for a user, and what the route answers
\* otherwise, a 4xx included.
Judge(r) ==
  /\ Received(r, "none")
  /\ \E answer \in IF call[r].cred \in tokens /\ r \notin UserRoute
                   THEN {"ok", "rejected"} ELSE {"denied"} : Answered(r, answer)
  /\ UNCHANGED <<redis, handler, memory, stored, history, bounds>>

\* Redis does not answer, which lookupToken takes for an unknown token; or
\* the request times out or ends in a server error.
JudgeFails(r) ==
  /\ Received(r, "none") /\ Fault
  /\ \E answer \in {"denied", "error"} : Answered(r, answer)
  /\ UNCHANGED <<redis, handler, memory, stored, history, expiries, restarts>>

\* A repeated request that succeeds releases the queue; the finally block
\* follows before any of the queued requests goes on.
Succeed(r) ==
  /\ Received(r, "ok")
  /\ LET c == ClientOf[r]
         woken == IF call[r].leads THEN queue[c] ELSE {}
     IN  /\ call' = [q \in Request |->
                      IF q = r THEN End("ended")
                      ELSE IF q \in woken THEN Sent(q, call[q]) ELSE call[q]]
         /\ queue' = [queue EXCEPT ![c] = @ \ woken]
         /\ left' = left \ woken
         /\ isRefreshing' = [isRefreshing EXCEPT ![c] = @ /\ ~call[r].leads]
  /\ UNCHANGED <<redis, handler, access, refresh, stored, expired, spent, burnt,
                 stray, bounds>>

\* A 401 while no refresh is under way: the request starts one.
StartRefresh(r) ==
  LET c == ClientOf[r] IN
  /\ Received(r, "denied") /\ refresh[c] # None /\ ~isRefreshing[c]
  /\ Lead(r, c)

\* A 401 while one is: the request waits for it.  It may be the repeated
\* request of the refresh itself.
Wait(r) ==
  LET c == ClientOf[r] IN
  /\ Received(r, "denied") /\ refresh[c] # None /\ isRefreshing[c]
  /\ call' = [call EXCEPT ![r].phase = "queued", ![r].answer = "none"]
  /\ queue' = [queue EXCEPT ![c] = @ \cup {r}]
  /\ UNCHANGED <<redis, handler, access, refresh, isRefreshing, stored, history, bounds>>

\* RetryInterceptor.
Retry(r) ==
  /\ Received(r, "error") /\ MayRetry(call[r].tries)
  /\ call' = [call EXCEPT ![r] = Sent(r, [call[r] EXCEPT !.tries = @ + 1])]
  /\ UNCHANGED <<redis, handler, memory, stored, history, bounds>>

\* An answer other than 2xx that is not tried again.
Refused(r) ==
  \/ Received(r, "denied") /\ refresh[ClientOf[r]] = None
  \/ Received(r, "rejected")
  \/ Received(r, "error") /\ ~MayRetry(call[r].tries)

\* The error reaches the caller.
Fail(r) ==
  /\ Refused(r)
  /\ ~call[r].leads
  /\ call' = [call EXCEPT ![r] = End("ended")]
  /\ UNCHANGED <<redis, handler, memory, stored, history, bounds>>

\* The repeated request fails: "Refresh failed, clear tokens".
RepeatFails(r) ==
  LET c == ClientOf[r] IN
  /\ Refused(r) /\ call[r].leads
  /\ access' = [access EXCEPT ![c] = None]
  /\ refresh' = [refresh EXCEPT ![c] = None]
  /\ call' = [call EXCEPT ![r].phase = "clearing"]
  /\ UNCHANGED <<redis, handler, isRefreshing, queue, stored, history, bounds>>

RemoveAccess(r) ==
  /\ call[r].phase = "clearing"
  /\ stored' = [stored EXCEPT !.access = None]
  /\ call' = [call EXCEPT ![r].phase = "clearingRefresh"]
  /\ UNCHANGED <<redis, handler, memory, history, bounds>>

\* The finally block ends the refresh; the queue is left as it is.
GiveUp(r) ==
  /\ isRefreshing' = [isRefreshing EXCEPT ![ClientOf[r]] = FALSE]
  /\ left' = left \cup queue[ClientOf[r]]
  /\ call' = [call EXCEPT ![r] = End("ended")]

RemoveRefresh(r) ==
  /\ call[r].phase = "clearingRefresh"
  /\ stored' = [stored EXCEPT !.refresh = None]
  /\ GiveUp(r)
  /\ UNCHANGED <<redis, handler, access, refresh, queue, expired, spent, burnt,
                 stray, bounds>>

-----------------------------------------------------------------------------
(***************************************************************************)
(* The client's side of a refresh call.                                    *)
(***************************************************************************)
TakePair(r) ==
  LET c == ClientOf[r] IN
  /\ Refreshed(r, "ok")
  /\ access' = [access EXCEPT ![c] = call[r].pair]
  /\ refresh' = [refresh EXCEPT ![c] = call[r].pair]
  /\ call' = [call EXCEPT ![r].phase = "saving"]
  /\ UNCHANGED <<redis, handler, isRefreshing, queue, stored, history, bounds>>

SaveAccess(r) ==
  /\ call[r].phase = "saving"
  /\ stored' = [stored EXCEPT !.access = call[r].pair]
  /\ call' = [call EXCEPT ![r].phase = "savingRefresh"]
  /\ UNCHANGED <<redis, handler, memory, history, bounds>>

\* saveTokens is through, and the request is repeated.
SaveRefresh(r) ==
  /\ call[r].phase = "savingRefresh"
  /\ stored' = [stored EXCEPT !.refresh = call[r].pair]
  /\ call' = [call EXCEPT ![r] = Sent(r, @)]
  /\ UNCHANGED <<redis, handler, memory, history, bounds>>

\* The RetryInterceptor repeats the refresh call as it was.
RetryRefresh(r) ==
  /\ Refreshed(r, "error") /\ MayRetry(call[r].refreshTries)
  /\ call' = [call EXCEPT ![r].refreshTries = @ + 1, ![r].answer = "none"]
  /\ handler' = [handler EXCEPT ![r] = [@ EXCEPT !.at = "called", !.key = call[r].key]]
  /\ UNCHANGED <<redis, memory, stored, history, bounds>>

RefreshFails(r) ==
  /\ \/ Refreshed(r, "denied")
     \/ Refreshed(r, "error") /\ ~MayRetry(call[r].refreshTries)
  /\ GiveUp(r)
  /\ UNCHANGED <<redis, handler, access, refresh, queue, stored, expired, spent,
                 burnt, stray, bounds>>

\* The process of client c ends, and starts again with the stored pair.
Restart(c) ==
  LET mine == {r \in Request : ClientOf[r] = c} IN
  /\ faults + restarts < MaxMishaps /\ restarts' = restarts + 1
  /\ call' = [r \in Request |->
               IF r \in mine /\ call[r].phase \notin Ended \cup {"idle"}
               THEN End("killed") ELSE call[r]]
  /\ access' = [access EXCEPT ![c] = stored.access]
  /\ refresh' = [refresh EXCEPT ![c] = stored.refresh]
  /\ isRefreshing' = [isRefreshing EXCEPT ![c] = FALSE]
  /\ queue' = [queue EXCEPT ![c] = {}]
  /\ left' = left \ mine
  /\ burnt' = burnt \cup {call[r].key : r \in {q \in mine : call[q].phase \in
                                    {"refreshing", "saving", "savingRefresh"}}}
  /\ UNCHANGED <<redis, handler, stored, expired, spent, stray, expiries, faults>>

-----------------------------------------------------------------------------
(***************************************************************************)
(* Refresh, on the server.                                                 *)
(***************************************************************************)
\* refreshClaims carries the session token of the pair; the API key is no
\* session token.
SessionToken(key) == {key} \ {0}

LookupRefresh(r) ==
  /\ At(r, "called")
  /\ IF handler[r].key \in refreshes
     THEN Go(r, "found") /\ UNCHANGED call
     ELSE Reply(r, "denied")
  /\ UNCHANGED <<redis, memory, stored, history, bounds>>

\* Redis does not answer, which counts as an unknown token; or the call does
\* not reach the server.
LookupFails(r) ==
  /\ At(r, "called") /\ Fault
  /\ \E answer \in {"denied", "error"} : Reply(r, answer)
  /\ UNCHANGED <<redis, memory, stored, history, expiries, restarts>>

DeleteToken(r) ==
  /\ At(r, "found") /\ Go(r, "unlinked")
  /\ tokens' = tokens \ SessionToken(handler[r].key)
  /\ UNCHANGED <<refreshes, pairs, memory, stored, call, history, bounds>>

DeleteRefresh(r) ==
  /\ At(r, "unlinked") /\ Go(r, "revoked")
  /\ refreshes' = refreshes \ {handler[r].key}
  /\ spent' = [spent EXCEPT ![handler[r].key] = @ \cup {ClientOf[r]}]
  /\ UNCHANGED <<tokens, pairs, memory, stored, call, expired, burnt, stray,
                 left, bounds>>

\* Neither deletion that fails stops the rotation.
DeleteFails(r) ==
  /\ Fault
  /\ \/ /\ At(r, "found") /\ Go(r, "unlinked")
        /\ stray' = stray \cup SessionToken(handler[r].key)
     \/ At(r, "unlinked") /\ Go(r, "revoked") /\ UNCHANGED stray
  /\ UNCHANGED <<redis, memory, stored, call, expired, spent, burnt, left,
                 expiries, restarts>>

IssueToken(r) ==
  /\ At(r, "revoked") /\ pairs < MaxPairs
  /\ pairs' = pairs + 1 /\ tokens' = tokens \cup {pairs + 1}
  /\ handler' = [handler EXCEPT ![r].at = "issued", ![r].pair = pairs + 1]
  /\ UNCHANGED <<refreshes, memory, stored, call, history, bounds>>

IssueRefresh(r) ==
  /\ At(r, "issued")
  /\ refreshes' = refreshes \cup {handler[r].pair}
  /\ Reply(r, "ok")
  /\ UNCHANGED <<tokens, pairs, memory, stored, history, bounds>>

\* One of the two writes of issueSession fails, or the answer is lost.
IssueFails(r) ==
  /\ Fault /\ Reply(r, "error")
  /\ burnt' = burnt \cup {handler[r].key}
  /\ \/ At(r, "revoked") /\ UNCHANGED <<refreshes, stray>>
     \/ /\ At(r, "issued") /\ UNCHANGED refreshes
        /\ stray' = stray \cup {handler[r].pair}
     \/ /\ At(r, "issued") /\ UNCHANGED stray
        /\ refreshes' = refreshes \cup {handler[r].pair}
  /\ UNCHANGED <<tokens, pairs, memory, stored, expired, spent, left,
                 expiries, restarts>>

\* The call's client is gone, and the context of the handler with it.
Abandon(r) ==
  /\ call[r].phase = "killed" /\ handler[r].at # "idle"
  /\ handler' = [handler EXCEPT ![r] = Free]
  /\ stray' = IF At(r, "issued") THEN stray \cup {handler[r].pair} ELSE stray
  /\ UNCHANGED <<redis, memory, stored, call, expired, spent, burnt, left, bounds>>

(***************************************************************************)
(* Time.  A session token lives a day and its refresh token a month; the   *)
(* API key lives a year and the refresh token issued with it a month.  A   *)
(* request that is being repeated does not take a day.                     *)
(***************************************************************************)
Expiry == expiries < MaxExpiries /\ expiries' = expiries + 1

ExpireToken(k) ==
  /\ Expiry /\ k \in tokens
  /\ k = 0 => 0 \notin refreshes
  /\ \A r \in Request : ~(call[r].leads /\ call[r].phase = "sent")
  /\ tokens' = tokens \ {k}
  /\ UNCHANGED <<refreshes, pairs, handler, memory, stored, call, history,
                 faults, restarts>>

ExpireRefresh(k) ==
  /\ Expiry /\ k \in refreshes
  /\ k # 0 => k \notin tokens
  /\ refreshes' = refreshes \ {k}
  /\ expired' = expired \cup {k}
  /\ UNCHANGED <<tokens, pairs, handler, memory, stored, call, spent, burnt,
                 stray, left, faults, restarts>>

-----------------------------------------------------------------------------
\* What goes on without anybody's doing once a request has been sent.
Step(r) ==
  \/ Succeed(r) \/ StartRefresh(r) \/ Wait(r) \/ Retry(r) \/ Fail(r)
  \/ RepeatFails(r) \/ RemoveAccess(r) \/ RemoveRefresh(r)
  \/ TakePair(r) \/ SaveAccess(r) \/ SaveRefresh(r)
  \/ RetryRefresh(r) \/ RefreshFails(r)

Server(r) ==
  \/ Judge(r) \/ LookupRefresh(r) \/ DeleteToken(r) \/ DeleteRefresh(r)
  \/ IssueToken(r) \/ IssueRefresh(r)

Failure(r) ==
  \/ JudgeFails(r) \/ LookupFails(r) \/ DeleteFails(r) \/ IssueFails(r)
  \/ Abandon(r)

Next ==
  \/ \E r \in Request : Send(r) \/ Step(r) \/ Server(r) \/ Failure(r)
  \/ \E c \in Client : Restart(c)
  \/ \E k \in Pair : ExpireToken(k) \/ ExpireRefresh(k)

Spec == Init /\ [][Next]_vars

\* At most one of the two sides of a request has a step to take.
FairSpec ==
  /\ Spec
  /\ \A r \in Request : WF_vars(Step(r) \/ Server(r))

-----------------------------------------------------------------------------
(***************************************************************************)
(* _isRefreshing is a lock (api_interceptors.dart:103): it is held by      *)
(* exactly one request of the client, whatever becomes of the refresh and  *)
(* of the request that is repeated after it.                               *)
(***************************************************************************)
Leaders(c) == {r \in Request : ClientOf[r] = c /\ call[r].leads}

OneRefreshPerClient ==
  \A c \in Client :
    IF isRefreshing[c] THEN \E r \in Request : Leaders(c) = {r} ELSE Leaders(c) = {}

(***************************************************************************)
(* A refresh token is spent when it is used (auth.go:168), so one step in  *)
(* the wrong place locks the device out for good.  The refresh token a     *)
(* client goes by is live, unless it is being exchanged, has expired, was  *)
(* spent by the device's other client, or by an exchange whose answer a    *)
(* fault or the end of the process kept from being stored.                 *)
(***************************************************************************)
HeldKeysAreLive ==
  \A c \in Client : refresh[c] \in Pair \ (refreshes \cup expired \cup burnt) =>
    \/ \E d \in Client \ {c} : d \in spent[refresh[c]]
    \/ \E r \in Request : /\ ClientOf[r] = c /\ call[r].phase = "refreshing"
                          /\ call[r].key = refresh[c]

LiveKeysAreBounded ==
  Cardinality(refreshes) <= Cardinality(Client) + faults + restarts

NoTokenOutlivesItsPair ==
  \A k \in tokens \ ({0} \cup refreshes \cup stray) :
    \E r \in Request : At(r, "issued") /\ handler[r].pair = k

(***************************************************************************)
(* Two clients that exchange the same token at once both get a pair        *)
(* (auth.go:146 reads what auth.go:168 deletes), but sessions do not       *)
(* multiply: there is at most one live refresh token for each client, and  *)
(* one for each fault or restart that left one behind.  Nor do session     *)
(* tokens outlive their rotation (auth.go:166): one that is accepted can   *)
(* still be refreshed, or is the one being issued, or a deletion or the    *)
(* second write of its pair was lost.                                      *)
(***************************************************************************)
SessionsAreBounded == LiveKeysAreBounded /\ NoTokenOutlivesItsPair

(***************************************************************************)
(* Every request ends ("Queue this request until refresh completes",       *)
(* api_interceptors.dart:128) but for two cases in which it stays in the   *)
(* queue: the refresh it waits for, or the request repeated after it,      *)
(* fails; or the repeated request has queued behind its own refresh.       *)
(***************************************************************************)
Stranded(r) ==
  LET waiting == queue[ClientOf[r]] IN
  \/ r \in left
  \/ r \in waiting /\ \E q \in waiting : call[q].leads

RequestsEndOrStrand ==
  \A r \in Request :
    call[r].phase = "sent" ~> call[r].phase \in Ended \/ Stranded(r)

(***************************************************************************)
(* "Never try to refresh the refresh call itself (it would queue forever   *)
(* behind _isRefreshing and deadlock)" (api_interceptors.dart:96): every   *)
(* refresh comes to an end.                                                *)
(***************************************************************************)
RefreshEnds == \A c \in Client : isRefreshing[c] ~> ~isRefreshing[c]

=============================================================================
