--------------------------- MODULE SIEMForwarding ---------------------------
(***************************************************************************)
(* Forwarding of security events to SIEM integrations: SIEMService         *)
(* (enterprise.go), the rows of siem_alerts and enterprise_integrations    *)
(* (repository/enterprise.go) and the request that brings an event         *)
(* (handlers/enterprise.go).                                               *)
(*                                                                         *)
(* One process, whose memory holds the integrations and, for each of them, *)
(* a queue.  A queue is flushed by the ticker, or by a goroutine that the  *)
(* event which fills it starts, with the context of that event's request.  *)
(***************************************************************************)
EXTENDS Integers, Sequences, SequencesExt

CONSTANTS
  Integration,   \* enabled integrations that may come to exist
  Event,         \* events, each brought by a request of its own
  Wanted,        \* Wanted[i]: the events that pass the filters of i
  BatchSize,
  MaxCrashes,
  Unrouted,      \* the integration_id NULL
  Ticker         \* the goroutine that Start starts

ASSUME ForwardingAssumption ==
  /\ Wanted \in [Integration -> SUBSET Event]
  /\ BatchSize \in Nat \ {0}
  /\ MaxCrashes \in Nat
  /\ Unrouted \notin Integration
  /\ Ticker \notin Event

Alert == Event \X (Integration \cup {Unrouted})

VARIABLES
  fresh,      \* ids no integration has had yet
  stored,     \* rows of enterprise_integrations
  creating,   \* integrations between their row and their entry in memory
  configs,    \* keys of s.configs and of s.eventQueues
  queues,     \* s.eventQueues
  request,    \* request[e]: how far the request and SendEvent are with e
  targets,    \* targets[e]: the integrations e was resolved to
  inserting,  \* inserting[e]: targets whose row is still to be written
  row,        \* row[<<e, t>>]: the siem_alerts row
  spawned,    \* flushes started by an event, not yet running
  due,        \* queues the ticker has still to visit in this cycle
  flights,    \* batches on their way
  received,   \* received[<<e, i>>]: how often i has received e (history)
  attempts,   \* attempts[<<e, i>>]: how often e was sent to i (history)
  crashes

integrationVars == <<fresh, stored, creating, configs>>
requestVars == <<request, targets, inserting>>
flushVars == <<spawned, due, flights>>
history == <<received, attempts>>
vars == <<integrationVars, queues, requestVars, row, flushVars, history, crashes>>

TypeOK ==
  /\ fresh \subseteq Integration /\ stored \subseteq Integration
  /\ creating \subseteq Integration /\ configs \subseteq Integration
  /\ queues \in [Integration -> Seq(Event)]
  /\ request \in [Event -> {"idle", "resolving", "inserting", "queued",
                            "accepted", "rejected", "lost"}]
  /\ targets \in [Event -> SUBSET Integration]
  /\ inserting \in [Event -> SUBSET (Integration \cup {Unrouted})]
  /\ row \in [Alert -> {"none", "open", "forwarded", "failed"}]
  /\ spawned \subseteq Event \X Integration
  /\ due \subseteq Integration
  /\ flights \subseteq [by : Event \cup {Ticker}, to : Integration,
                        batch : Seq(Event),
                        answer : {"awaited", "forwarded", "failed"}]
  /\ received \in [Alert -> Nat] /\ attempts \in [Alert -> Nat]
  /\ crashes \in 0..MaxCrashes

Init ==
  /\ stored \in SUBSET Integration
  /\ fresh = Integration \ stored
  /\ creating = {} /\ configs = stored
  /\ queues = [i \in Integration |-> <<>>]
  /\ request = [e \in Event |-> "idle"]
  /\ targets = [e \in Event |-> {}]
  /\ inserting = [e \in Event |-> {}]
  /\ row = [a \in Alert |-> "none"]
  /\ spawned = {} /\ due = {} /\ flights = {}
  /\ received = [a \in Alert |-> 0]
  /\ attempts = [a \in Alert |-> 0]
  /\ crashes = 0

Alerts(f) == {<<e, f.to>> : e \in ToSet(f.batch)}

Flight(by, i) == [by |-> by, to |-> i, batch |-> queues[i], answer |-> "awaited"]

(***************************************************************************)
(* Plausible slips, each an alternative form of the definition its comment *)
(* names.                                                                  *)
(***************************************************************************)

\* Flush that leaves the batch in the queue while it is sent.
FlushKeeping(by, i) ==
  /\ queues[i] # <<>>
  /\ flights' = flights \cup {Flight(by, i)}
  /\ UNCHANGED queues

\* Enqueue that does not look whether the integration still exists.
EnqueueUnchecked(e) ==
  queues' = [i \in Integration |->
               IF i \in targets[e] THEN Append(queues[i], e) ELSE queues[i]]

\* Outcome that takes any answer for a success.
AnyAnswer(ok) == "forwarded"

\* TickerQueues of the full queues only.
FullQueues == {i \in configs : Len(queues[i]) >= BatchSize}

(***************************************************************************)
(* Integrations: the row first, then memory.                               *)
(***************************************************************************)

\* A failing statement fails the request, committed though it may be.
CreateStored(i) ==
  /\ i \in fresh
  /\ fresh' = fresh \ {i}
  /\ stored' = stored \cup {i}
  /\ creating' \in {creating, creating \cup {i}}
  /\ UNCHANGED <<configs, queues, requestVars, row, flushVars, history, crashes>>

CreateVisible(i) ==
  /\ i \in creating
  /\ creating' = creating \ {i}
  /\ configs' = configs \cup {i}
  /\ queues' = [queues EXCEPT ![i] = <<>>]
  /\ UNCHANGED <<fresh, stored, requestVars, row, flushVars, history, crashes>>

\* Row and memory in one section of the mutex; when the statement fails,
\* committed though it may be, memory stays.
DeleteIntegration(i) ==
  /\ i \in configs
  /\ stored' = stored \ {i}
  /\ \/ /\ configs' = configs \ {i}
        /\ queues' = [queues EXCEPT ![i] = <<>>]
     \/ UNCHANGED <<configs, queues>>
  /\ UNCHANGED <<fresh, creating, requestVars, row, flushVars, history, crashes>>

(***************************************************************************)
(* SendEvent.                                                              *)
(***************************************************************************)
Matching(e) == {i \in configs : e \in Wanted[i]}

Full(q) == Len(q) >= BatchSize

\* HasEnabledIntegrations, in a section of its own.
Receipt(e) ==
  /\ request[e] = "idle"
  /\ request' = [request EXCEPT ![e] =
                   IF configs = {} THEN "rejected" ELSE "resolving"]
  /\ UNCHANGED <<integrationVars, queues, targets, inserting, row, flushVars,
                 history, crashes>>

Resolve(e) ==
  /\ request[e] = "resolving"
  /\ request' = [request EXCEPT ![e] = "inserting"]
  /\ targets' = [targets EXCEPT ![e] = Matching(e)]
  /\ inserting' = [inserting EXCEPT ![e] =
                     IF Matching(e) = {} THEN {Unrouted} ELSE Matching(e)]
  /\ UNCHANGED <<integrationVars, queues, row, flushVars, history, crashes>>

Insert(e) ==
  /\ request[e] = "inserting"
  /\ \E t \in inserting[e] :
       /\ row' = [row EXCEPT ![<<e, t>>] = "open"]
       /\ inserting' = [inserting EXCEPT ![e] = @ \ {t}]
  /\ UNCHANGED <<integrationVars, queues, request, targets, flushVars, history,
                 crashes>>

\* The statement fails, committed or not, and the request with it.
InsertFails(e) ==
  /\ request[e] = "inserting"
  /\ \E t \in inserting[e] : row' \in {row, [row EXCEPT ![<<e, t>>] = "open"]}
  /\ request' = [request EXCEPT ![e] = "rejected"]
  /\ targets' = [targets EXCEPT ![e] = {}]
  /\ inserting' = [inserting EXCEPT ![e] = {}]
  /\ UNCHANGED <<integrationVars, queues, flushVars, history, crashes>>

\* Integrations deleted since the event was resolved are passed over.
Enqueue(e) ==
  queues' = [i \in Integration |->
               IF i \in targets[e] \cap configs THEN Append(queues[i], e)
               ELSE queues[i]]

Queue(e) ==
  /\ request[e] = "inserting" /\ inserting[e] = {}
  /\ Enqueue(e)
  /\ spawned' = spawned \cup
       {<<e, i>> : i \in {j \in targets[e] \cap configs : Full(queues'[j])}}
  /\ request' = [request EXCEPT ![e] = "queued"]
  /\ UNCHANGED <<integrationVars, targets, inserting, row, due, flights, history,
                 crashes>>

\* The handler answers 202, and the context of the request is cancelled.
Return(e) ==
  /\ request[e] = "queued"
  /\ request' = [request EXCEPT ![e] = "accepted"]
  /\ UNCHANGED <<integrationVars, queues, targets, inserting, row, flushVars,
                 history, crashes>>

(***************************************************************************)
(* flushQueue.                                                             *)
(***************************************************************************)
Flush(by, i) ==
  /\ queues[i] # <<>>
  /\ queues' = [queues EXCEPT ![i] = <<>>]
  /\ flights' = IF i \in configs THEN flights \cup {Flight(by, i)} ELSE flights

NothingToFlush(i) == queues[i] = <<>> /\ UNCHANGED <<queues, flights>>

FlushFull(e, i) ==
  /\ <<e, i>> \in spawned
  /\ spawned' = spawned \ {<<e, i>>}
  /\ Flush(e, i) \/ NothingToFlush(i)
  /\ UNCHANGED <<integrationVars, requestVars, row, due, history, crashes>>

TickerIdle == \A f \in flights : f.by # Ticker

TickerQueues == configs

Tick ==
  /\ due = {} /\ TickerIdle
  /\ due' = TickerQueues
  /\ UNCHANGED <<integrationVars, queues, requestVars, row, spawned, flights,
                 history, crashes>>

FlushDue(i) ==
  /\ i \in due /\ TickerIdle
  /\ due' = due \ {i}
  /\ Flush(Ticker, i) \/ NothingToFlush(i)
  /\ UNCHANGED <<integrationVars, requestVars, row, spawned, history, crashes>>

\* The context of a flush that an event has started ends with its request.
Cancelled(f) == f.by # Ticker /\ request[f.by] = "accepted"

Outcome(ok) == IF ok THEN "forwarded" ELSE "failed"

\* The batch is received, or the endpoint or the context fails it after
\* some of it: Splunk is sent one event at a time, and an answer may be lost.
Send(f) ==
  /\ f.answer = "awaited"
  /\ \E n \in 0..Len(f.batch), ok \in BOOLEAN :
       LET got == {<<f.batch[k], f.to>> : k \in 1..n} IN
       /\ ok => n = Len(f.batch) /\ ~Cancelled(f)
       /\ received' = [a \in Alert |-> received[a] + (IF a \in got THEN 1 ELSE 0)]
       /\ flights' = (flights \ {f}) \cup {[f EXCEPT !.answer = Outcome(ok)]}
  /\ attempts' = [a \in Alert |-> attempts[a] + (IF a \in Alerts(f) THEN 1 ELSE 0)]
  /\ UNCHANGED <<integrationVars, queues, requestVars, row, spawned, due, crashes>>

\* SetForwardOutcome, whose failure is only logged.
Settle(f) ==
  /\ f.answer # "awaited"
  /\ row' \in {row, [a \in Alert |-> IF a \in Alerts(f) THEN f.answer ELSE row[a]]}
  /\ flights' = flights \ {f}
  /\ UNCHANGED <<integrationVars, queues, requestVars, spawned, due, history,
                 crashes>>

\* A restart loads the integrations, or none when the query fails.
Restart ==
  /\ crashes < MaxCrashes
  /\ crashes' = crashes + 1
  /\ configs' \in {stored, {}}
  /\ creating' = {}
  /\ queues' = [i \in Integration |-> <<>>]
  /\ request' = [e \in Event |->
       IF request[e] \in {"idle", "accepted", "rejected"} THEN request[e]
       ELSE "lost"]
  /\ targets' = [e \in Event |-> {}]
  /\ inserting' = [e \in Event |-> {}]
  /\ spawned' = {} /\ due' = {} /\ flights' = {}
  /\ UNCHANGED <<fresh, stored, row, history>>

SendEvent(e) ==
  \/ Receipt(e) \/ Resolve(e)
  \/ Insert(e) \/ InsertFails(e)
  \/ Queue(e) \/ Return(e)

Next ==
  \/ \E i \in Integration :
       CreateStored(i) \/ CreateVisible(i) \/ DeleteIntegration(i) \/ FlushDue(i)
  \/ \E e \in Event : SendEvent(e) \/ \E i \in Integration : FlushFull(e, i)
  \/ Tick
  \/ \E f \in flights : Send(f) \/ Settle(f)
  \/ Restart

Spec == Init /\ [][Next]_vars

\* The ticker ticks, and its calls return: the client has a timeout.
Fairness ==
  /\ WF_vars(Tick)
  /\ \A i \in Integration : WF_vars(FlushDue(i))
  /\ WF_vars(\E f \in flights : f.by = Ticker /\ (Send(f) \/ Settle(f)))

FairSpec == Spec /\ Fairness

-----------------------------------------------------------------------------
Queued(e, i) == e \in ToSet(queues[i])

InFlight(e, i) ==
  \E f \in flights : f.to = i /\ f.answer = "awaited" /\ e \in ToSet(f.batch)

One(p) == IF p THEN 1 ELSE 0

Places(e, i) == One(Queued(e, i)) + One(InFlight(e, i)) + attempts[<<e, i>>]

(***************************************************************************)
(* An event is in one place at most: the queue of a target, a batch on its *)
(* way to it, or sent; and without a restart or the removal of the target  *)
(* it is in one, whatever flushes overlap.                                 *)
(***************************************************************************)
EventsAreConserved ==
  \A e \in Event, i \in Integration :
    /\ Places(e, i) <= 1
    /\ /\ request[e] \in {"queued", "accepted"} /\ i \in targets[e]
       /\ i \in configs /\ crashes = 0
       => Places(e, i) = 1

(***************************************************************************)
(* No queue is left over for an integration that has been deleted, though  *)
(* targets are resolved in another section of the mutex than they are      *)
(* queued in: flushAllQueues would drop its events unseen.                 *)
(***************************************************************************)
QueuesHaveOwners ==
  \A i \in Integration : queues[i] # <<>> => i \in configs

(***************************************************************************)
(* A queue that has reached its batch size does not wait for the ticker: a *)
(* flush of it is under way, in whatever order flushes and events come.    *)
(***************************************************************************)
FullQueueIsFlushed ==
  \A i \in Integration :
    Len(queues[i]) >= BatchSize => \E e \in Event : <<e, i>> \in spawned

(***************************************************************************)
(* "so the feed never loses an event that the flush loop later forwards"   *)
(* (enterprise.go:1456): the path implements the ledger.                   *)
(***************************************************************************)
Ledger == INSTANCE AlertLedger

ImplementsLedger == Ledger!Spec

(***************************************************************************)
(* No event waits in a queue for ever: the ticker empties every queue,     *)
(* also the one that no further event fills.                               *)
(***************************************************************************)
QueuesAreFlushed == \A i \in Integration : []<>(queues[i] = <<>>)
=============================================================================
