------------------------ MODULE SIEMForwardingProofs ------------------------
(***************************************************************************)
(* Proofs about SIEMForwarding, for every set of integrations and events,  *)
(* all filters, every batch size and any number of restarts.               *)
(***************************************************************************)
EXTENDS SIEMForwarding, TLAPS

-----------------------------------------------------------------------------
(***************************************************************************)
(* What the operators on queues and batches return.                        *)
(***************************************************************************)
LEMMA AppendMembers ==
  ASSUME NEW q \in Seq(Event), NEW e \in Event
  PROVE  /\ Append(q, e) \in Seq(Event)
         /\ ToSet(Append(q, e)) = ToSet(q) \cup {e}
         /\ Append(q, e) # <<>>
<1>1. /\ Append(q, e) \in Seq(Event) /\ Len(Append(q, e)) = Len(q) + 1
      /\ \A k \in 1..Len(q) : Append(q, e)[k] = q[k]
      /\ Append(q, e)[Len(q) + 1] = e
  OBVIOUS
<1>2. /\ DOMAIN q = 1..Len(q) /\ DOMAIN Append(q, e) = 1..(Len(q) + 1)
      /\ Len(q) \in Nat
  BY <1>1
<1>3. \A x \in ToSet(q) \cup {e} : x \in ToSet(Append(q, e))
  BY <1>1, <1>2 DEF ToSet
<1>4. \A x \in ToSet(Append(q, e)) : x \in ToSet(q) \cup {e}
  <2>. SUFFICES ASSUME NEW k \in 1..(Len(q) + 1)
                PROVE  Append(q, e)[k] \in ToSet(q) \cup {e}
    BY <1>2 DEF ToSet
  <2>1. CASE k = Len(q) + 1
    BY <1>1, <2>1
  <2>2. CASE k # Len(q) + 1
    <3>1. k \in 1..Len(q)
      BY <1>2, <2>2
    <3>. QED
      BY <1>1, <1>2, <3>1 DEF ToSet
  <2>. QED
    BY <2>1, <2>2
<1>5. Append(q, e) # <<>>
  BY <1>1, <1>2
<1>. QED
  BY <1>1, <1>3, <1>4, <1>5

LEMMA NothingInEmpty == <<>> \in Seq(Event) /\ ToSet(<<>>) = {} /\ Len(<<>>) = 0
BY DEF ToSet

LEMMA MembersAreEvents ==
  ASSUME NEW q \in Seq(Event)
  PROVE  ToSet(q) \subseteq Event
BY DEF ToSet

\* What an event does to the queues.
LEMMA EnqueueEffect ==
  ASSUME TypeOK, NEW e \in Event, Enqueue(e)
  PROVE  /\ queues' \in [Integration -> Seq(Event)]
         /\ \A i \in Integration :
              /\ i \in targets[e] \cap configs =>
                   ToSet(queues'[i]) = ToSet(queues[i]) \cup {e}
              /\ i \notin targets[e] \cap configs => queues'[i] = queues[i]
BY AppendMembers DEF TypeOK, Enqueue

-----------------------------------------------------------------------------
Flights == [by : Event \cup {Ticker}, to : Integration, batch : Seq(Event),
            answer : {"awaited", "forwarded", "failed"}]

LEMMA InitTyped == Init => TypeOK
BY ForwardingAssumption DEF ForwardingAssumption, Init, TypeOK, Alert

LEMMA FlushTyped ==
  ASSUME TypeOK, NEW by \in Event \cup {Ticker}, NEW i \in Integration,
         Flush(by, i) \/ NothingToFlush(i)
  PROVE  /\ queues' \in [Integration -> Seq(Event)]
         /\ flights' \subseteq Flights
<1>1. Flight(by, i) \in Flights
  BY DEF TypeOK, Flight, Flights
<1>2. queues' \in [Integration -> Seq(Event)]
  BY NothingInEmpty DEF TypeOK, Flush, NothingToFlush
<1>3. flights' \subseteq flights \cup {Flight(by, i)}
  BY DEF Flush, NothingToFlush
<1>. QED
  BY <1>1, <1>2, <1>3 DEF TypeOK, Flights

LEMMA StepTyped == TypeOK /\ [Next]_vars => TypeOK'
<1>. SUFFICES ASSUME TypeOK, [Next]_vars
              PROVE  TypeOK'
  OBVIOUS
<1>. USE ForwardingAssumption
     DEF ForwardingAssumption, TypeOK, vars, integrationVars, requestVars,
         flushVars, history
<1>1. ASSUME NEW i \in Integration, CreateStored(i)
      PROVE  TypeOK'
  BY <1>1 DEF CreateStored
<1>2. ASSUME NEW i \in Integration, CreateVisible(i)
      PROVE  TypeOK'
  BY <1>2 DEF CreateVisible
<1>3. ASSUME NEW i \in Integration, DeleteIntegration(i)
      PROVE  TypeOK'
  <2>1. queues' \in [Integration -> Seq(Event)]
    BY <1>3, NothingInEmpty DEF DeleteIntegration
  <2>2. configs' \subseteq Integration
    BY <1>3 DEF DeleteIntegration
  <2>. QED
    BY <1>3, <2>1, <2>2 DEF DeleteIntegration
<1>4. ASSUME NEW i \in Integration, FlushDue(i)
      PROVE  TypeOK'
  <2>1. Flush(Ticker, i) \/ NothingToFlush(i)
    BY <1>4 DEF FlushDue
  <2>2. /\ queues' \in [Integration -> Seq(Event)]
        /\ flights' \subseteq Flights
    BY <2>1, FlushTyped
  <2>. QED
    BY <1>4, <2>2 DEF FlushDue, Flights
<1>5. ASSUME NEW e \in Event, Receipt(e)
      PROVE  TypeOK'
  BY <1>5 DEF Receipt
<1>6. ASSUME NEW e \in Event, Resolve(e)
      PROVE  TypeOK'
  BY <1>6 DEF Resolve, Matching
<1>7. ASSUME NEW e \in Event, Insert(e)
      PROVE  TypeOK'
  <2>1. PICK t \in inserting[e] :
          /\ row' = [row EXCEPT ![<<e, t>>] = "open"]
          /\ inserting' = [inserting EXCEPT ![e] = @ \ {t}]
    BY <1>7 DEF Insert
  <2>2. /\ row' \in [Alert -> {"none", "open", "forwarded", "failed"}]
        /\ inserting' \in [Event -> SUBSET (Integration \cup {Unrouted})]
    BY <2>1
  <2>. QED
    BY <1>7, <2>2 DEF Insert
<1>8. ASSUME NEW e \in Event, InsertFails(e)
      PROVE  TypeOK'
  <2>1. PICK t \in inserting[e] : row' \in {row, [row EXCEPT ![<<e, t>>] = "open"]}
    BY <1>8 DEF InsertFails
  <2>2. row' \in [Alert -> {"none", "open", "forwarded", "failed"}]
    BY <2>1
  <2>. QED
    BY <1>8, <2>2 DEF InsertFails
<1>9. ASSUME NEW e \in Event, Queue(e)
      PROVE  TypeOK'
  <2>1. queues' \in [Integration -> Seq(Event)]
    BY <1>9, EnqueueEffect DEF Queue
  <2>2. spawned' \subseteq Event \X Integration
    BY <1>9 DEF Queue
  <2>. QED
    BY <1>9, <2>1, <2>2 DEF Queue
<1>10. ASSUME NEW e \in Event, Return(e)
       PROVE  TypeOK'
  BY <1>10 DEF Return
<1>11. ASSUME NEW e \in Event, NEW i \in Integration, FlushFull(e, i)
       PROVE  TypeOK'
  <2>1. Flush(e, i) \/ NothingToFlush(i)
    BY <1>11 DEF FlushFull
  <2>2. /\ queues' \in [Integration -> Seq(Event)]
        /\ flights' \subseteq Flights
    BY <2>1, FlushTyped
  <2>. QED
    BY <1>11, <2>2 DEF FlushFull, Flights
<1>12. CASE Tick
  BY <1>12 DEF Tick, TickerQueues
<1>13. ASSUME NEW f \in flights, Send(f)
       PROVE  TypeOK'
  <2>1. flights' \subseteq Flights
    BY <1>13 DEF Send, Outcome, Flights
  <2>2. received' \in [Alert -> Nat] /\ attempts' \in [Alert -> Nat]
    BY <1>13 DEF Send
  <2>. QED
    BY <1>13, <2>1, <2>2 DEF Send, Flights
<1>14. ASSUME NEW f \in flights, Settle(f)
       PROVE  TypeOK'
  <2>1. row' \in [Alert -> {"none", "open", "forwarded", "failed"}]
    BY <1>14 DEF Settle
  <2>. QED
    BY <1>14, <2>1 DEF Settle
<1>15. CASE Restart
  BY <1>15 DEF Restart
<1>16. CASE UNCHANGED vars
  BY <1>16
<1>. QED
  BY <1>1, <1>2, <1>3, <1>4, <1>5, <1>6, <1>7, <1>8, <1>9, <1>10, <1>11,
     <1>12, <1>13, <1>14, <1>15, <1>16 DEF Next, SendEvent

\* Queues and batches hold events, rows and requests have the states of the
\* code, and no restart is counted that did not happen.
THEOREM TypeCorrect == Spec => []TypeOK
BY InitTyped, StepTyped, PTL DEF Spec

-----------------------------------------------------------------------------
(***************************************************************************)
(* The queues of integrations.                                             *)
(***************************************************************************)
Owned == TypeOK /\ QueuesHaveOwners /\ FullQueueIsFlushed

LEMMA InitOwned == Init => Owned
BY InitTyped, NothingInEmpty, ForwardingAssumption
   DEF ForwardingAssumption, Init, Owned, QueuesHaveOwners, FullQueueIsFlushed

LEMMA FlushOwned ==
  ASSUME Owned, NEW by, NEW i \in Integration, configs' = configs,
         Flush(by, i) \/ NothingToFlush(i),
         \A j \in Integration, e \in Event :
           j # i /\ <<e, j>> \in spawned => <<e, j>> \in spawned'
  PROVE  QueuesHaveOwners' /\ FullQueueIsFlushed'
<1>1. queues' = [queues EXCEPT ![i] = <<>>]
  BY DEF Owned, TypeOK, Flush, NothingToFlush
<1>2. \A j \in Integration : queues'[j] = IF j = i THEN <<>> ELSE queues[j]
  BY <1>1 DEF Owned, TypeOK
<1>. QED
  BY <1>2, NothingInEmpty, ForwardingAssumption
     DEF ForwardingAssumption, Owned, QueuesHaveOwners, FullQueueIsFlushed

LEMMA StepOwned == Owned /\ [Next]_vars => Owned'
<1>. SUFFICES ASSUME Owned, [Next]_vars
              PROVE  QueuesHaveOwners' /\ FullQueueIsFlushed'
  BY StepTyped DEF Owned
<1>. USE NothingInEmpty, ForwardingAssumption
     DEF ForwardingAssumption, QueuesHaveOwners, FullQueueIsFlushed
<1>0. TypeOK /\ QueuesHaveOwners /\ FullQueueIsFlushed
  BY DEF Owned
<1>1. ASSUME NEW i \in Integration, CreateVisible(i)
      PROVE  QueuesHaveOwners' /\ FullQueueIsFlushed'
  <2>1. \A j \in Integration : queues'[j] = IF j = i THEN <<>> ELSE queues[j]
    BY <1>0, <1>1 DEF TypeOK, CreateVisible
  <2>. QED
    BY <1>0, <1>1, <2>1 DEF CreateVisible, flushVars
<1>2. ASSUME NEW i \in Integration, DeleteIntegration(i)
      PROVE  QueuesHaveOwners' /\ FullQueueIsFlushed'
  <2>1. CASE configs' = configs \ {i} /\ queues' = [queues EXCEPT ![i] = <<>>]
    <3>1. \A j \in Integration : queues'[j] = IF j = i THEN <<>> ELSE queues[j]
      BY <1>0, <2>1 DEF TypeOK
    <3>. QED
      BY <1>0, <1>2, <2>1, <3>1 DEF DeleteIntegration, flushVars
  <2>2. CASE UNCHANGED <<configs, queues>>
    BY <1>0, <1>2, <2>2 DEF DeleteIntegration, flushVars
  <2>. QED
    BY <1>2, <2>1, <2>2 DEF DeleteIntegration
<1>3. ASSUME NEW i \in Integration, FlushDue(i)
      PROVE  QueuesHaveOwners' /\ FullQueueIsFlushed'
  BY <1>3, FlushOwned DEF FlushDue, integrationVars
<1>4. ASSUME NEW e \in Event, NEW i \in Integration, FlushFull(e, i)
      PROVE  QueuesHaveOwners' /\ FullQueueIsFlushed'
  BY <1>4, FlushOwned DEF FlushFull, integrationVars
<1>5. ASSUME NEW e \in Event, Queue(e)
      PROVE  QueuesHaveOwners' /\ FullQueueIsFlushed'
  <2>1. \A j \in Integration :
          j \notin targets[e] \cap configs => queues'[j] = queues[j]
    BY <1>0, <1>5, EnqueueEffect DEF Queue
  <2>2. targets[e] \subseteq Integration /\ configs' = configs
    BY <1>0, <1>5 DEF TypeOK, Queue, integrationVars
  <2>3. ASSUME NEW j \in Integration, Len(queues'[j]) >= BatchSize
        PROVE  \E x \in Event : <<x, j>> \in spawned'
    <3>1. CASE j \in targets[e] \cap configs
      BY <1>5, <2>3, <3>1 DEF Queue, Full
    <3>2. CASE j \notin targets[e] \cap configs
      BY <1>0, <1>5, <2>1, <2>3, <3>2 DEF Queue
    <3>. QED
      BY <3>1, <3>2
  <2>. QED
    BY <1>0, <2>1, <2>2, <2>3
<1>6. CASE Restart
  BY <1>6 DEF Restart
<1>7. CASE UNCHANGED <<configs, queues, spawned>>
  BY <1>0, <1>7
<1>. QED
  BY <1>1, <1>2, <1>3, <1>4, <1>5, <1>6, <1>7
     DEF Next, SendEvent, CreateStored, Receipt, Resolve, Insert, InsertFails,
         Return, Tick, Send, Settle, vars, integrationVars, flushVars

\* Only an integration in memory has a queue: no event waits for one that has
\* been deleted, whenever its targets were resolved.
THEOREM OnlyOwnersHaveQueues == Spec => []QueuesHaveOwners
BY InitOwned, StepOwned, PTL DEF Spec, Owned

\* Whatever flushes and events overlap, a queue that has reached its batch
\* size has a flush of its own under way.
THEOREM FullQueuesAreFlushed == Spec => []FullQueueIsFlushed
BY InitOwned, StepOwned, PTL DEF Spec, Owned

-----------------------------------------------------------------------------
(***************************************************************************)
(* Why the path implements the ledger: what is queued or on its way is on  *)
(* record, and not yet received; no two batches to an integration share an *)
(* event, and none shares one with the queue.                              *)
(***************************************************************************)
Early(e) == request[e] \in {"idle", "resolving", "inserting"}
Taken(e) == request[e] \in {"queued", "accepted"}

QueuedAreOnRecord ==
  \A i \in Integration : \A e \in ToSet(queues[i]) :
    Taken(e) /\ row[<<e, i>>] = "open" /\ received[<<e, i>>] = 0

FlightsAreOnRecord ==
  \A f \in flights : \A e \in ToSet(f.batch) :
    /\ Taken(e) /\ row[<<e, f.to>>] = "open" /\ e \notin ToSet(queues[f.to])
    /\ f.answer = "awaited" => received[<<e, f.to>>] = 0
    /\ f.answer = "forwarded" => received[<<e, f.to>>] = 1

FlightsAreApart ==
  \A f, g \in flights :
    f.to = g.to => f = g \/ ToSet(f.batch) \cap ToSet(g.batch) = {}

RowsFollow(e) ==
  \A t \in Integration \cup {Unrouted} :
    /\ Early(e) => received[<<e, t>>] = 0
    /\ request[e] \in {"idle", "resolving"} => row[<<e, t>>] = "none"
    /\ request[e] = "inserting" =>
         /\ t \in inserting[e] => row[<<e, t>>] = "none"
         /\ t \in targets[e] \ inserting[e] => row[<<e, t>>] = "open"

RowsFollowRequests == \A e \in Event : RowsFollow(e)

OnRecord == /\ QueuedAreOnRecord /\ FlightsAreOnRecord
            /\ FlightsAreApart /\ RowsFollowRequests

Recorded == TypeOK /\ OnRecord

LEMMA InitRecorded == Init => Recorded
<1>. SUFFICES ASSUME Init
              PROVE  OnRecord
  BY InitTyped DEF Recorded
<1>. USE DEF Init
<1>1. QueuedAreOnRecord
  BY NothingInEmpty DEF QueuedAreOnRecord
<1>2. RowsFollowRequests
  BY DEF RowsFollowRequests, RowsFollow, Alert
<1>. QED
  BY <1>1, <1>2 DEF OnRecord, FlightsAreOnRecord, FlightsAreApart

\* What a flush leaves in the queues and adds to the batches on their way.
LEMMA FlushEffect ==
  ASSUME TypeOK, NEW by, NEW i \in Integration, Flush(by, i) \/ NothingToFlush(i)
  PROVE  /\ \A j \in Integration : queues'[j] = IF j = i THEN <<>> ELSE queues[j]
         /\ flights' \in {flights, flights \cup {Flight(by, i)}}
BY DEF TypeOK, Flush, NothingToFlush

LEMMA FlushRecorded ==
  ASSUME Recorded, NEW by, NEW i \in Integration,
         Flush(by, i) \/ NothingToFlush(i),
         UNCHANGED <<request, targets, inserting, row, received>>
  PROVE  OnRecord'
<1>. USE DEF Recorded, OnRecord
<1>1. \A j \in Integration : queues'[j] = IF j = i THEN <<>> ELSE queues[j]
  BY FlushEffect
<1>2. flights' \in {flights, flights \cup {Flight(by, i)}}
  BY FlushEffect
<1>3. /\ Flight(by, i).to = i /\ Flight(by, i).batch = queues[i]
      /\ Flight(by, i).answer = "awaited"
  BY DEF Flight
<1>4. \A f \in flights : f.to \in Integration
  BY DEF TypeOK
<1>5. QueuedAreOnRecord'
  BY <1>1, NothingInEmpty DEF QueuedAreOnRecord, Taken
<1>6. \A f \in flights' : f \in flights \/ f = Flight(by, i)
  BY <1>2
<1>7. FlightsAreOnRecord'
  <2>. SUFFICES ASSUME NEW f \in flights', NEW e \in ToSet(f.batch)
                PROVE  /\ Taken(e) /\ row[<<e, f.to>>] = "open"
                       /\ e \notin ToSet(queues'[f.to])
                       /\ f.answer = "awaited" => received[<<e, f.to>>] = 0
                       /\ f.answer = "forwarded" => received[<<e, f.to>>] = 1
    BY DEF FlightsAreOnRecord, Taken
  <2>1. CASE f \in flights
    BY <1>1, <1>4, <2>1, NothingInEmpty DEF FlightsAreOnRecord
  <2>2. CASE f = Flight(by, i)
    BY <1>1, <1>3, <2>2, NothingInEmpty DEF QueuedAreOnRecord
  <2>. QED
    BY <1>6, <2>1, <2>2
<1>8. FlightsAreApart'
  BY <1>3, <1>6 DEF FlightsAreApart, FlightsAreOnRecord
<1>9. RowsFollowRequests'
  BY DEF RowsFollowRequests, RowsFollow, Early
<1>. QED
  BY <1>5, <1>7, <1>8, <1>9

\* The batch of f takes a new answer, and no other batch does.
LEMMA AnswerRecorded ==
  ASSUME Recorded, NEW f \in flights, NEW answer \in {"forwarded", "failed"},
         f.answer = "awaited",
         flights' = (flights \ {f}) \cup {[f EXCEPT !.answer = answer]},
         received' \in [Alert -> Nat],
         \A a \in Alert : received'[a] # received[a] => a \in Alerts(f),
         answer = "forwarded" => \A a \in Alerts(f) : received'[a] = 1,
         UNCHANGED <<queues, request, targets, inserting, row>>
  PROVE  OnRecord'
<1>. DEFINE g == [f EXCEPT !.answer = answer]
<1>. USE DEF Recorded, OnRecord
<1>1. g.to = f.to /\ g.batch = f.batch /\ g.answer = answer /\ f.to \in Integration
  BY DEF TypeOK
<1>2. \A h \in flights' : (h \in flights /\ h # f) \/ h = g
  OBVIOUS
<1>3. \A h \in flights : /\ h.to \in Integration
                        /\ ToSet(h.batch) \subseteq Event
  BY MembersAreEvents DEF TypeOK
<1>4. \A e \in Event, i \in Integration :
        received'[<<e, i>>] # received[<<e, i>>] =>
          i = f.to /\ e \in ToSet(f.batch)
  BY DEF Alert, Alerts
<1>5. QueuedAreOnRecord'
  <2>. SUFFICES ASSUME NEW i \in Integration, NEW e \in ToSet(queues[i])
                PROVE  received'[<<e, i>>] = 0
    BY DEF QueuedAreOnRecord, Taken
  <2>1. e \in Event
    BY MembersAreEvents DEF TypeOK
  <2>. QED
    BY <1>4, <2>1 DEF QueuedAreOnRecord, FlightsAreOnRecord
<1>6. ASSUME NEW h \in flights', NEW e \in ToSet(h.batch)
      PROVE  /\ Taken(e) /\ row[<<e, h.to>>] = "open"
             /\ e \notin ToSet(queues[h.to])
             /\ h.answer = "awaited" => received'[<<e, h.to>>] = 0
             /\ h.answer = "forwarded" => received'[<<e, h.to>>] = 1
  <2>1. CASE h \in flights /\ h # f
    <3>1. e \in Event /\ h.to \in Integration
      BY <1>3, <2>1
    <3>2. received'[<<e, h.to>>] = received[<<e, h.to>>]
      BY <1>4, <2>1, <3>1 DEF FlightsAreApart
    <3>. QED
      BY <2>1, <3>2 DEF FlightsAreOnRecord
  <2>2. CASE h = g
    <3>1. e \in ToSet(f.batch) /\ <<e, f.to>> \in Alerts(f)
      BY <1>1, <2>2 DEF Alerts
    <3>. QED
      BY <1>1, <2>2, <3>1 DEF FlightsAreOnRecord
  <2>. QED
    BY <1>2, <2>1, <2>2
<1>7. FlightsAreApart'
  <2>. SUFFICES ASSUME NEW h \in flights', NEW k \in flights', h.to = k.to, h # k
                PROVE  ToSet(h.batch) \cap ToSet(k.batch) = {}
    BY DEF FlightsAreApart
  <2>1. CASE h # g /\ k # g
    BY <1>2, <2>1 DEF FlightsAreApart
  <2>2. CASE h = g
    BY <1>1, <1>2, <2>2 DEF FlightsAreApart
  <2>3. CASE k = g
    BY <1>1, <1>2, <2>3 DEF FlightsAreApart
  <2>. QED
    BY <2>1, <2>2, <2>3
<1>8. RowsFollowRequests'
  <2>. SUFFICES ASSUME NEW e \in Event, NEW t \in Integration \cup {Unrouted},
                       Early(e)
                PROVE  received'[<<e, t>>] = received[<<e, t>>]
    BY DEF RowsFollowRequests, RowsFollow, Early
  <2>1. \A a \in Alerts(f) : a[1] \in ToSet(f.batch)
    BY DEF Alerts
  <2>2. e \notin ToSet(f.batch)
    BY DEF FlightsAreOnRecord, Early, Taken
  <2>. QED
    BY <2>1, <2>2 DEF Alert
<1>9. FlightsAreOnRecord'
  BY ONLY <1>6, UNCHANGED <<queues, request, row>> DEF FlightsAreOnRecord, Taken
<1>. QED
  BY <1>5, <1>7, <1>8, <1>9

LEMMA EnqueueRecorded ==
  ASSUME Recorded, NEW e \in Event, Queue(e)
  PROVE  OnRecord'
<1>0. /\ TypeOK /\ QueuedAreOnRecord /\ FlightsAreOnRecord
      /\ FlightsAreApart /\ RowsFollowRequests
  BY DEF Recorded, OnRecord
<1>1. /\ request[e] = "inserting" /\ inserting[e] = {} /\ Enqueue(e)
      /\ request' = [request EXCEPT ![e] = "queued"]
      /\ UNCHANGED <<targets, inserting, row, flights, received>>
  BY DEF Queue, history
<1>2. /\ \A x \in Event : request'[x] = IF x = e THEN "queued" ELSE request[x]
      /\ targets[e] \subseteq Integration
  BY <1>0, <1>1 DEF TypeOK
<1>3. \A j \in Integration :
        \/ j \in targets[e] /\ ToSet(queues'[j]) = ToSet(queues[j]) \cup {e}
        \/ queues'[j] = queues[j]
  BY <1>0, <1>1, EnqueueEffect
<1>4. /\ \A i \in Integration : \A x \in ToSet(queues[i]) : x \in Event
      /\ \A f \in flights : /\ f.to \in Integration
                            /\ \A x \in ToSet(f.batch) : x \in Event
  BY <1>0, MembersAreEvents DEF TypeOK
<1>5. \A x \in Event : request[x] \in {"queued", "accepted"} =>
                         request'[x] \in {"queued", "accepted"}
  BY <1>0, <1>2
<1>6. /\ request'[e] = "queued" /\ ~Taken(e)
      /\ \A t \in targets[e] : row[<<e, t>>] = "open" /\ received[<<e, t>>] = 0
  BY <1>0, <1>1, <1>2 DEF RowsFollowRequests, RowsFollow, Early, Taken
<1>7. QueuedAreOnRecord'
  <2>. SUFFICES ASSUME NEW i \in Integration, NEW x \in ToSet(queues'[i])
                PROVE  /\ request'[x] \in {"queued", "accepted"}
                       /\ row'[<<x, i>>] = "open" /\ received'[<<x, i>>] = 0
    BY DEF QueuedAreOnRecord, Taken
  <2>1. CASE x \in ToSet(queues[i])
    BY <1>0, <1>1, <1>4, <1>5, <2>1 DEF QueuedAreOnRecord, Taken
  <2>2. CASE i \in targets[e] /\ x = e
    BY <1>0, <1>1, <1>6, <2>2
  <2>. QED
    BY <1>0, <1>3, <2>1, <2>2
<1>8. FlightsAreOnRecord'
  <2>. SUFFICES ASSUME NEW f \in flights', NEW x \in ToSet(f.batch)
                PROVE  /\ request'[x] \in {"queued", "accepted"}
                       /\ row'[<<x, f.to>>] = "open" /\ x \notin ToSet(queues'[f.to])
                       /\ f.answer = "awaited" => received'[<<x, f.to>>] = 0
                       /\ f.answer = "forwarded" => received'[<<x, f.to>>] = 1
    BY DEF FlightsAreOnRecord, Taken
  <2>1. x \in Event /\ f \in flights /\ f.to \in Integration /\ x # e
    BY <1>0, <1>1, <1>4, <1>6 DEF FlightsAreOnRecord
  <2>2. /\ request[x] \in {"queued", "accepted"} /\ x \notin ToSet(queues[f.to])
        /\ f.answer = "awaited" => received[<<x, f.to>>] = 0
        /\ f.answer = "forwarded" => received[<<x, f.to>>] = 1
        /\ row[<<x, f.to>>] = "open"
    BY <1>0, <2>1 DEF FlightsAreOnRecord, Taken
  <2>. QED
    BY <1>0, <1>1, <1>3, <1>5, <2>1, <2>2
<1>9. FlightsAreApart'
  BY <1>0, <1>1 DEF FlightsAreApart
<1>10. RowsFollowRequests'
  <2>. SUFFICES ASSUME NEW x \in Event
                PROVE  RowsFollow(x)'
    BY DEF RowsFollowRequests
  <2>. QED
    BY <1>0, <1>1, <1>2 DEF RowsFollowRequests, RowsFollow, Early
<1>. QED
  BY <1>7, <1>8, <1>9, <1>10 DEF OnRecord

\* A step of the request of e before e is queued, or after it, disturbs what
\* is known of no other event.
LEMMA RequestRecorded ==
  ASSUME Recorded, NEW e \in Event,
         ~Taken(e) \/ (Taken(e)' /\ row' = row), RowsFollow(e)',
         \A x \in Event \ {e} :
           /\ request'[x] = request[x]
           /\ targets'[x] = targets[x] /\ inserting'[x] = inserting[x]
           /\ \A t \in Integration \cup {Unrouted} : row'[<<x, t>>] = row[<<x, t>>],
         UNCHANGED <<queues, flights, received>>
  PROVE  OnRecord'
<1>0. /\ TypeOK /\ QueuedAreOnRecord /\ FlightsAreOnRecord
      /\ FlightsAreApart /\ RowsFollowRequests
  BY DEF Recorded, OnRecord
<1>1. /\ \A i \in Integration : \A x \in ToSet(queues[i]) : x \in Event
      /\ \A f \in flights : /\ f.to \in Integration
                            /\ \A x \in ToSet(f.batch) : x \in Event
  BY <1>0, MembersAreEvents DEF TypeOK
<1>2. \A x \in Event : request[x] \in {"queued", "accepted"} =>
        /\ request'[x] \in {"queued", "accepted"}
        /\ \A t \in Integration : row'[<<x, t>>] = row[<<x, t>>]
  BY <1>0 DEF Taken
<1>3. QueuedAreOnRecord'
  <2>. SUFFICES ASSUME NEW i \in Integration, NEW x \in ToSet(queues'[i])
                PROVE  /\ request'[x] \in {"queued", "accepted"}
                       /\ row'[<<x, i>>] = "open" /\ received'[<<x, i>>] = 0
    BY DEF QueuedAreOnRecord, Taken
  <2>1. x \in Event /\ request[x] \in {"queued", "accepted"}
    BY <1>0, <1>1 DEF QueuedAreOnRecord, Taken
  <2>. QED
    BY <1>0, <1>2, <2>1 DEF QueuedAreOnRecord
<1>4. ASSUME NEW g \in flights', NEW x \in ToSet(g.batch)
      PROVE  /\ request'[x] \in {"queued", "accepted"}
             /\ row'[<<x, g.to>>] = "open" /\ x \notin ToSet(queues'[g.to])
             /\ g.answer = "awaited" => received'[<<x, g.to>>] = 0
             /\ g.answer = "forwarded" => received'[<<x, g.to>>] = 1
  <2>1. x \in Event /\ g.to \in Integration /\ request[x] \in {"queued", "accepted"}
    BY <1>0, <1>1 DEF FlightsAreOnRecord, Taken
  <2>. QED
    BY <1>0, <1>2, <2>1 DEF FlightsAreOnRecord
<1>5. FlightsAreApart'
  BY <1>0 DEF FlightsAreApart
<1>6. ASSUME NEW x \in Event \ {e}
      PROVE  RowsFollow(x)'
  BY <1>0 DEF RowsFollowRequests, RowsFollow, Early
<1>7. RowsFollowRequests'
  BY <1>0, <1>6 DEF RowsFollowRequests
<1>8. FlightsAreOnRecord'
  BY ONLY <1>4 DEF FlightsAreOnRecord, Taken
<1>. QED
  BY <1>3, <1>5, <1>7, <1>8 DEF OnRecord

\* A row is the row of one event.
LEMMA RowUpdate ==
  ASSUME TypeOK, NEW e \in Event, NEW t \in Integration \cup {Unrouted},
         row' = [row EXCEPT ![<<e, t>>] = "open"]
  PROVE  \A x \in Event, u \in Integration \cup {Unrouted} :
           row'[<<x, u>>] = IF x = e /\ u = t THEN "open" ELSE row[<<x, u>>]
<1>1. \A x \in Event, u \in Integration \cup {Unrouted} : <<x, u>> \in Alert
  BY DEF Alert
<1>2. row \in [Alert -> {"none", "open", "forwarded", "failed"}]
  BY DEF TypeOK
<1>3. \A a \in Alert : row'[a] = IF a = <<e, t>> THEN "open" ELSE row[a]
  BY <1>1, <1>2
<1>. QED
  BY <1>1, <1>3

LEMMA InsertRecorded ==
  ASSUME Recorded, NEW e \in Event, Insert(e)
  PROVE  OnRecord'
<1>. TypeOK
  BY DEF Recorded
<1>1. PICK t \in inserting[e] :
        /\ row' = [row EXCEPT ![<<e, t>>] = "open"]
        /\ inserting' = [inserting EXCEPT ![e] = @ \ {t}]
  BY DEF Insert
<1>2. /\ request[e] = "inserting" /\ ~Taken(e)
      /\ UNCHANGED <<queues, request, targets, flights, received>>
  BY DEF Insert, Taken, flushVars, history
<1>3. t \in Integration \cup {Unrouted}
  BY DEF TypeOK
<1>4. \A x \in Event, u \in Integration \cup {Unrouted} :
        row'[<<x, u>>] = IF x = e /\ u = t THEN "open" ELSE row[<<x, u>>]
  BY <1>1, <1>3, RowUpdate
<1>5. inserting'[e] = inserting[e] \ {t} /\ \A x \in Event \ {e} : inserting'[x] = inserting[x]
  BY <1>1 DEF TypeOK
<1>6. RowsFollow(e)'
  BY <1>2, <1>4, <1>5 DEF Recorded, OnRecord, RowsFollowRequests, RowsFollow, Early
<1>. QED
  BY <1>2, <1>4, <1>5, <1>6, RequestRecorded

LEMMA InsertFailsRecorded ==
  ASSUME Recorded, NEW e \in Event, InsertFails(e)
  PROVE  OnRecord'
<1>. TypeOK
  BY DEF Recorded
<1>1. PICK t \in inserting[e] : row' \in {row, [row EXCEPT ![<<e, t>>] = "open"]}
  BY DEF InsertFails
<1>2. /\ ~Taken(e) /\ UNCHANGED <<queues, flights, received>>
      /\ request' = [request EXCEPT ![e] = "rejected"]
      /\ targets' = [targets EXCEPT ![e] = {}]
      /\ inserting' = [inserting EXCEPT ![e] = {}]
  BY DEF InsertFails, Taken, flushVars, history
<1>3. t \in Integration \cup {Unrouted}
  BY DEF TypeOK
<1>4. \A x \in Event \ {e}, u \in Integration \cup {Unrouted} :
        row'[<<x, u>>] = row[<<x, u>>]
  <2>1. CASE row' = row
    BY <2>1
  <2>2. CASE row' = [row EXCEPT ![<<e, t>>] = "open"]
    BY <1>3, <2>2, RowUpdate
  <2>. QED
    BY <1>1, <2>1, <2>2
<1>5. /\ request'[e] = "rejected"
      /\ \A x \in Event \ {e} : /\ request'[x] = request[x]
                               /\ targets'[x] = targets[x]
                               /\ inserting'[x] = inserting[x]
  BY <1>2 DEF TypeOK
<1>6. RowsFollow(e)'
  BY <1>5 DEF RowsFollow, Early
<1>. QED
  BY <1>2, <1>4, <1>5, <1>6, RequestRecorded

LEMMA ReceiptRecorded ==
  ASSUME Recorded, NEW e \in Event, Receipt(e) \/ Resolve(e) \/ Return(e)
  PROVE  OnRecord'
<1>. TypeOK
  BY DEF Recorded
<1>1. UNCHANGED <<queues, row, flights, received>>
  BY DEF Receipt, Resolve, Return, flushVars, history
<1>2. \A x \in Event \ {e} : /\ request'[x] = request[x]
                            /\ targets'[x] = targets[x]
                            /\ inserting'[x] = inserting[x]
  BY DEF TypeOK, Receipt, Resolve, Return
<1>3. ~Taken(e) \/ Taken(e)'
  BY DEF TypeOK, Receipt, Resolve, Return, Taken
<1>4. RowsFollow(e)
  BY DEF Recorded, OnRecord, RowsFollowRequests
<1>5. RowsFollow(e)'
  <2>1. CASE Receipt(e)
    <3>1. request[e] = "idle" /\ request'[e] \in {"rejected", "resolving"}
      BY <2>1 DEF TypeOK, Receipt
    <3>. QED
      BY <1>1, <1>4, <3>1 DEF RowsFollow, Early
  <2>2. CASE Resolve(e)
    <3>1. /\ request[e] = "resolving" /\ request'[e] = "inserting"
          /\ targets'[e] \subseteq inserting'[e] \/ targets'[e] = {}
      BY <2>2 DEF TypeOK, Resolve
    <3>. QED
      BY <1>1, <1>4, <3>1 DEF RowsFollow, Early
  <2>3. CASE Return(e)
    BY <2>3 DEF TypeOK, Return, RowsFollow, Early
  <2>. QED
    BY <2>1, <2>2, <2>3
<1>. QED
  BY <1>1, <1>2, <1>3, <1>5, RequestRecorded

LEMMA SettleRecorded ==
  ASSUME Recorded, NEW f \in flights, Settle(f)
  PROVE  OnRecord'
<1>0. /\ TypeOK /\ QueuedAreOnRecord /\ FlightsAreOnRecord
      /\ FlightsAreApart /\ RowsFollowRequests
  BY DEF Recorded, OnRecord
<1>1. /\ flights' = flights \ {f}
      /\ UNCHANGED <<queues, request, targets, inserting, received>>
  BY DEF Settle, requestVars, history
<1>2. /\ \A i \in Integration : \A x \in ToSet(queues[i]) : x \in Event
      /\ \A g \in flights : /\ g.to \in Integration
                            /\ \A x \in ToSet(g.batch) : x \in Event
  BY <1>0, MembersAreEvents DEF TypeOK
<1>3. \A x \in Event, t \in Integration \cup {Unrouted} :
        row'[<<x, t>>] # row[<<x, t>>] => t = f.to /\ x \in ToSet(f.batch)
  <2>1. CASE row' = row
    BY <1>0, <2>1
  <2>2. CASE row' = [a \in Alert |-> IF a \in Alerts(f) THEN f.answer ELSE row[a]]
    <3>1. \A x \in Event, t \in Integration \cup {Unrouted} : <<x, t>> \in Alert
      BY DEF Alert
    <3>2. \A x \in Event, t \in Integration \cup {Unrouted} :
            row'[<<x, t>>] = IF <<x, t>> \in Alerts(f) THEN f.answer ELSE row[<<x, t>>]
      BY <1>0, <2>2, <3>1
    <3>3. \A x, t : <<x, t>> \in Alerts(f) => t = f.to /\ x \in ToSet(f.batch)
      BY DEF Alerts
    <3>. QED
      BY <1>0, <3>2, <3>3
  <2>. QED
    BY <2>1, <2>2 DEF Settle
<1>4. ASSUME NEW i \in Integration, NEW x \in ToSet(queues'[i])
      PROVE  /\ request'[x] \in {"queued", "accepted"}
             /\ row'[<<x, i>>] = "open" /\ received'[<<x, i>>] = 0
  <2>1. x \in Event /\ ~(i = f.to /\ x \in ToSet(f.batch))
    BY <1>0, <1>1, <1>2 DEF FlightsAreOnRecord
  <2>. QED
    BY <1>0, <1>1, <1>3, <2>1 DEF QueuedAreOnRecord, Taken
<1>5. FlightsAreOnRecord'
  <2>. SUFFICES ASSUME NEW g \in flights', NEW x \in ToSet(g.batch)
                PROVE  /\ request'[x] \in {"queued", "accepted"}
                       /\ row'[<<x, g.to>>] = "open" /\ x \notin ToSet(queues'[g.to])
                       /\ g.answer = "awaited" => received'[<<x, g.to>>] = 0
                       /\ g.answer = "forwarded" => received'[<<x, g.to>>] = 1
    BY DEF FlightsAreOnRecord, Taken
  <2>1. x \in Event /\ g.to \in Integration /\ g \in flights /\ g # f
    BY <1>0, <1>1, <1>2
  <2>2. ~(g.to = f.to /\ x \in ToSet(f.batch))
    BY <1>0, <2>1 DEF FlightsAreApart
  <2>. QED
    BY <1>0, <1>1, <1>3, <2>1, <2>2 DEF FlightsAreOnRecord, Taken
<1>6. FlightsAreApart'
  BY <1>0, <1>1 DEF FlightsAreApart
<1>7. RowsFollowRequests'
  <2>. SUFFICES ASSUME NEW x \in Event
                PROVE  RowsFollow(x)'
    BY DEF RowsFollowRequests
  <2>1. x \in ToSet(f.batch) => request[x] \in {"queued", "accepted"}
    BY <1>0 DEF FlightsAreOnRecord, Taken
  <2>. QED
    BY <1>0, <1>1, <1>3, <2>1 DEF RowsFollowRequests, RowsFollow, Early
<1>8. QueuedAreOnRecord'
  BY ONLY <1>4 DEF QueuedAreOnRecord, Taken
<1>. QED
  BY <1>5, <1>6, <1>7, <1>8 DEF OnRecord

\* What a batch is received of, and with what answer.
LEMMA SendEffect ==
  ASSUME TypeOK, NEW f \in flights, Send(f)
  PROVE  \E got \in SUBSET Alerts(f), answer \in {"forwarded", "failed"} :
           /\ f.answer = "awaited"
           /\ answer = "forwarded" => got = Alerts(f)
           /\ received' = [a \in Alert |->
                             received[a] + (IF a \in got THEN 1 ELSE 0)]
           /\ flights' = (flights \ {f}) \cup {[f EXCEPT !.answer = answer]}
<1>1. PICK n \in 0..Len(f.batch), ok \in BOOLEAN :
        LET got == {<<f.batch[k], f.to>> : k \in 1..n} IN
        /\ ok => n = Len(f.batch) /\ ~Cancelled(f)
        /\ received' = [a \in Alert |->
                          received[a] + (IF a \in got THEN 1 ELSE 0)]
        /\ flights' = (flights \ {f}) \cup {[f EXCEPT !.answer = Outcome(ok)]}
  BY DEF Send
<1>. DEFINE got == {<<f.batch[k], f.to>> : k \in 1..n}
<1>2. f.batch \in Seq(Event) /\ DOMAIN f.batch = 1..Len(f.batch) /\ Len(f.batch) \in Nat
  BY DEF TypeOK
<1>3. got \subseteq Alerts(f)
  BY <1>2 DEF Alerts, ToSet
<1>4. n = Len(f.batch) => got = Alerts(f)
  BY <1>2 DEF Alerts, ToSet
<1>5. Outcome(ok) \in {"forwarded", "failed"} /\ (Outcome(ok) = "forwarded" => ok)
  BY DEF Outcome
<1>6. f.answer = "awaited"
  BY DEF Send
<1>. HIDE DEF got
<1>. QED
  BY <1>1, <1>3, <1>4, <1>5, <1>6 DEF got

LEMMA SendRecorded ==
  ASSUME Recorded, NEW f \in flights, Send(f)
  PROVE  OnRecord'
<1>. TypeOK
  BY DEF Recorded
<1>1. PICK got \in SUBSET Alerts(f), answer \in {"forwarded", "failed"} :
           /\ f.answer = "awaited"
           /\ answer = "forwarded" => got = Alerts(f)
           /\ received' = [a \in Alert |->
                             received[a] + (IF a \in got THEN 1 ELSE 0)]
           /\ flights' = (flights \ {f}) \cup {[f EXCEPT !.answer = answer]}
  BY SendEffect
<1>2. \A a \in Alerts(f) : a \in Alert /\ received[a] = 0
  <2>1. ToSet(f.batch) \subseteq Event /\ f.to \in Integration
    BY MembersAreEvents DEF TypeOK
  <2>. QED
    BY <1>1, <2>1 DEF Alerts, Alert, Recorded, OnRecord, FlightsAreOnRecord
<1>3. /\ received' \in [Alert -> Nat]
      /\ \A a \in Alert : received'[a] # received[a] => a \in Alerts(f)
      /\ answer = "forwarded" => \A a \in Alerts(f) : received'[a] = 1
  BY <1>1, <1>2 DEF TypeOK
<1>4. UNCHANGED <<queues, request, targets, inserting, row>>
  BY DEF Send, requestVars
<1>. QED
  BY <1>1, <1>3, <1>4, AnswerRecorded

LEMMA StepRecorded == Recorded /\ [Next]_vars => Recorded'
<1>. SUFFICES ASSUME Recorded, [Next]_vars
              PROVE  OnRecord'
  BY StepTyped DEF Recorded
<1>. USE DEF vars, integrationVars, requestVars, flushVars, history
<1>0. TypeOK /\ OnRecord
  BY DEF Recorded
<1>1. ASSUME NEW i \in Integration, CreateVisible(i) \/ DeleteIntegration(i)
      PROVE  OnRecord'
  <2>1. /\ queues' \in {queues, [queues EXCEPT ![i] = <<>>]}
        /\ UNCHANGED <<request, targets, inserting, row, flights, received>>
    BY <1>1 DEF CreateVisible, DeleteIntegration
  <2>2. \A j \in Integration : queues'[j] \in {queues[j], <<>>}
    BY <1>0, <2>1 DEF TypeOK
  <2>3. QueuedAreOnRecord'
    BY <1>0, <2>1, <2>2, NothingInEmpty DEF OnRecord, QueuedAreOnRecord, Taken
  <2>4. FlightsAreOnRecord'
    <3>1. \A f \in flights : f.to \in Integration
      BY <1>0 DEF TypeOK
    <3>. QED
      BY <1>0, <2>1, <2>2, <3>1, NothingInEmpty
         DEF OnRecord, FlightsAreOnRecord, Taken
  <2>5. FlightsAreApart' /\ RowsFollowRequests'
    BY <1>0, <2>1 DEF OnRecord, FlightsAreApart, RowsFollowRequests, RowsFollow, Early
  <2>. QED
    BY <2>3, <2>4, <2>5 DEF OnRecord
<1>2. ASSUME NEW i \in Integration, FlushDue(i)
      PROVE  OnRecord'
  BY <1>2, FlushRecorded DEF FlushDue
<1>3. ASSUME NEW e \in Event, NEW i \in Integration, FlushFull(e, i)
      PROVE  OnRecord'
  BY <1>3, FlushRecorded DEF FlushFull
<1>8. CASE Restart
  <2>1. QueuedAreOnRecord' /\ FlightsAreOnRecord' /\ FlightsAreApart'
    BY <1>8, NothingInEmpty
       DEF Restart, QueuedAreOnRecord, FlightsAreOnRecord, FlightsAreApart
  <2>2. RowsFollowRequests'
    BY <1>0, <1>8 DEF Restart, OnRecord, RowsFollowRequests, RowsFollow, Early
  <2>. QED
    BY <2>1, <2>2 DEF OnRecord
<1>9. CASE UNCHANGED <<queues, request, targets, inserting, row, flights, received>>
  BY <1>0, <1>9 DEF OnRecord, QueuedAreOnRecord, FlightsAreOnRecord,
     FlightsAreApart, RowsFollowRequests, RowsFollow, Taken, Early
<1>. QED
  BY <1>1, <1>2, <1>3, <1>8, <1>9, EnqueueRecorded, InsertRecorded,
     InsertFailsRecorded, ReceiptRecorded, SendRecorded, SettleRecorded
     DEF Next, SendEvent, CreateStored, Tick
-----------------------------------------------------------------------------
(***************************************************************************)
(* The refinement: every step is a step of the ledger or leaves it alone.  *)
(***************************************************************************)
LedgerStep == Ledger!Next \/ UNCHANGED <<row, received>>

\* A statement that inserts a row, answered or not.
LEMMA InsertOnLedger ==
  ASSUME Recorded, NEW e \in Event, Insert(e) \/ InsertFails(e)
  PROVE  LedgerStep
<1>1. PICK t \in inserting[e] : row' \in {row, [row EXCEPT ![<<e, t>>] = "open"]}
  BY DEF Insert, InsertFails
<1>2. <<e, t>> \in Alert
  BY DEF Recorded, TypeOK, Alert
<1>3. row[<<e, t>>] = "none"
  BY DEF Recorded, TypeOK, OnRecord, RowsFollowRequests, RowsFollow, Insert,
         InsertFails
<1>4. UNCHANGED received
  BY DEF Insert, InsertFails, history
<1>5. CASE row' = row
  BY <1>4, <1>5 DEF LedgerStep
<1>6. CASE row' = [row EXCEPT ![<<e, t>>] = "open"]
  <2>1. Ledger!Insert(<<e, t>>)
    BY <1>3, <1>4, <1>6 DEF Ledger!Insert
  <2>. QED
    BY <1>2, <2>1 DEF LedgerStep, Ledger!Next
<1>. QED
  BY <1>1, <1>5, <1>6

\* The alerts of a batch on its way are open, and not received before.
LEMMA BatchIsOpen ==
  ASSUME Recorded, NEW f \in flights
  PROVE  /\ Alerts(f) \subseteq Alert
         /\ \A a \in Alerts(f) :
              /\ row[a] = "open"
              /\ f.answer = "awaited" => received[a] = 0
              /\ f.answer = "forwarded" => received[a] = 1
<1>1. f.to \in Integration /\ ToSet(f.batch) \subseteq Event
  BY MembersAreEvents DEF Recorded, TypeOK
<1>. QED
  BY <1>1 DEF Recorded, OnRecord, FlightsAreOnRecord, Alerts, Alert

LEMMA SendOnLedger ==
  ASSUME Recorded, NEW f \in flights, Send(f)
  PROVE  LedgerStep
<1>1. PICK got \in SUBSET Alerts(f) :
        /\ f.answer = "awaited"
        /\ received' = [a \in Alert |->
                          received[a] + (IF a \in got THEN 1 ELSE 0)]
  BY SendEffect DEF Recorded
<1>2. \A a \in got : a \in Alert /\ row[a] = "open" /\ received[a] = 0
  BY <1>1, BatchIsOpen
<1>3. received' = [a \in Alert |-> IF a \in got THEN 1 ELSE received[a]]
  BY <1>1, <1>2 DEF Recorded, TypeOK
<1>4. Ledger!Receive(got)
  BY <1>2, <1>3 DEF Ledger!Receive, Send
<1>. QED
  BY <1>2, <1>4 DEF LedgerStep, Ledger!Next

LEMMA SettleOnLedger ==
  ASSUME Recorded, NEW f \in flights, Settle(f)
  PROVE  LedgerStep
<1>1. /\ f.answer \in {"forwarded", "failed"} /\ UNCHANGED received
      /\ row' \in {row, [a \in Alert |-> IF a \in Alerts(f) THEN f.answer ELSE row[a]]}
  BY DEF Recorded, TypeOK, Settle, history
<1>2. CASE row' = row
  BY <1>1, <1>2 DEF LedgerStep
<1>3. CASE row' = [a \in Alert |-> IF a \in Alerts(f) THEN f.answer ELSE row[a]]
  <2>1. Ledger!SetOutcome(Alerts(f), f.answer)
    BY <1>1, <1>3, BatchIsOpen DEF Ledger!SetOutcome
  <2>2. Alerts(f) \in SUBSET Alert /\ f.answer \in Ledger!Outcome
    BY <1>1, BatchIsOpen DEF Ledger!Outcome
  <2>. QED
    BY <2>1, <2>2 DEF LedgerStep, Ledger!Next
<1>. QED
  BY <1>1, <1>2, <1>3

LEMMA StepOnLedger == Recorded /\ [Next]_vars => LedgerStep
<1>. SUFFICES ASSUME Recorded, [Next]_vars
              PROVE  LedgerStep
  OBVIOUS
<1>1. CASE UNCHANGED <<row, received>>
  BY <1>1 DEF LedgerStep
<1>2. CASE ~UNCHANGED <<row, received>>
  <2>1. \/ \E e \in Event : Insert(e) \/ InsertFails(e)
        \/ \E f \in flights : Send(f) \/ Settle(f)
    BY <1>2
       DEF Next, SendEvent, CreateStored, CreateVisible, DeleteIntegration,
           FlushDue, Receipt, Resolve, Queue, Return, FlushFull, Tick, Restart,
           vars, history
  <2>. QED
    BY <2>1, InsertOnLedger, SendOnLedger, SettleOnLedger
<1>. QED
  BY <1>1, <1>2

\* The event path implements the ledger: no integration receives an event
\* that is not on record, none receives one twice, and what the record calls
\* forwarded was received, through overlapping flushes, lost answers and
\* restarts.
THEOREM PathImplementsLedger == Spec => ImplementsLedger
<1>1. Init => Ledger!Init
  BY DEF Init, Ledger!Init
<1>2. Recorded /\ [Next]_vars => [Ledger!Next]_<<row, received>>
  BY StepOnLedger DEF LedgerStep
<1>. QED
  BY <1>1, <1>2, InitRecorded, StepRecorded, PTL DEF Spec, ImplementsLedger, Ledger!Spec
-----------------------------------------------------------------------------
(***************************************************************************)
(* Conservation: what is sent once is sent no more, and a target that an   *)
(* integration can be was there before the event.                          *)
(***************************************************************************)
IdsAreUsedOnce ==
  /\ fresh \cap (stored \cup configs \cup creating) = {}
  /\ creating \cap configs = {}
  /\ \A e \in Event : targets[e] \cap (fresh \cup creating) = {}

SentOnce ==
  \A e \in Event, i \in Integration :
    /\ attempts[<<e, i>>] \in {0, 1}
    /\ Early(e) \/ Queued(e, i) \/ InFlight(e, i) => attempts[<<e, i>>] = 0
    /\ Queued(e, i) => ~InFlight(e, i)

NoneIsLost ==
  \A e \in Event, i \in Integration :
    Taken(e) /\ i \in targets[e] /\ i \in configs /\ crashes = 0
    => Queued(e, i) \/ InFlight(e, i) \/ attempts[<<e, i>>] = 1
Conserved == Recorded /\ IdsAreUsedOnce /\ SentOnce /\ NoneIsLost

LEMMA InitConserved == Init => Conserved
<1>. SUFFICES ASSUME Init
              PROVE  Conserved
  OBVIOUS
<1>1. Recorded
  BY InitRecorded
<1>2. IdsAreUsedOnce
  BY DEF Init, IdsAreUsedOnce
<1>3. \A e \in Event, i \in Integration : <<e, i>> \in Alert
  BY DEF Alert
<1>4. SentOnce
  BY <1>3, NothingInEmpty DEF Init, SentOnce, Queued, InFlight
<1>5. NoneIsLost
  BY DEF Init, NoneIsLost, Taken
<1>. QED
  BY <1>1, <1>2, <1>4, <1>5 DEF Conserved

LEMMA StepIds == TypeOK /\ IdsAreUsedOnce /\ [Next]_vars => IdsAreUsedOnce'
<1>. SUFFICES ASSUME TypeOK, IdsAreUsedOnce, [Next]_vars
              PROVE  IdsAreUsedOnce'
  OBVIOUS
<1>. USE DEF IdsAreUsedOnce
<1>1. ASSUME NEW i \in Integration, CreateStored(i)
      PROVE  IdsAreUsedOnce'
  BY <1>1 DEF CreateStored, requestVars
<1>2. ASSUME NEW i \in Integration, CreateVisible(i)
      PROVE  IdsAreUsedOnce'
  BY <1>2 DEF CreateVisible, requestVars
<1>3. ASSUME NEW i \in Integration, DeleteIntegration(i)
      PROVE  IdsAreUsedOnce'
  BY <1>3 DEF DeleteIntegration, requestVars
<1>4. ASSUME NEW e \in Event, Resolve(e)
      PROVE  IdsAreUsedOnce'
  <2>1. \A x \in Event : targets'[x] \subseteq targets[x] \cup configs
    BY <1>4 DEF TypeOK, Resolve, Matching
  <2>. QED
    BY <1>4, <2>1 DEF Resolve, integrationVars
<1>5. ASSUME NEW e \in Event, InsertFails(e)
      PROVE  IdsAreUsedOnce'
  <2>1. \A x \in Event : targets'[x] \subseteq targets[x]
    BY <1>5 DEF TypeOK, InsertFails
  <2>. QED
    BY <1>5, <2>1 DEF InsertFails, integrationVars
<1>6. CASE Restart
  BY <1>6 DEF Restart
<1>7. CASE UNCHANGED <<integrationVars, targets>>
  BY <1>7 DEF integrationVars
<1>. QED
  BY <1>1, <1>2, <1>3, <1>4, <1>5, <1>6, <1>7
     DEF Next, SendEvent, FlushDue, Receipt, Insert, Queue, Return, FlushFull,
         Tick, Send, Settle, vars, integrationVars, requestVars

\* A step that moves no event, and takes up no new one.
LEMMA NothingMoved ==
  ASSUME SentOnce, NoneIsLost,
         \A e \in Event, i \in Integration :
           /\ Early(e)' => Early(e)
           /\ Queued(e, i)' <=> Queued(e, i)
           /\ InFlight(e, i)' <=> InFlight(e, i)
           /\ Taken(e)' /\ i \in targets'[e] /\ i \in configs' /\ crashes' = 0
              => Taken(e) /\ i \in targets[e] /\ i \in configs /\ crashes = 0,
         UNCHANGED attempts
  PROVE  SentOnce' /\ NoneIsLost'
BY DEF SentOnce, NoneIsLost, Early, Taken, Queued, InFlight

\* Where the events are after a flush.
LEMMA FlushMoves ==
  ASSUME TypeOK, NEW by, NEW i \in Integration, Flush(by, i) \/ NothingToFlush(i)
  PROVE  \A e \in Event, j \in Integration :
           /\ Queued(e, j)' <=> Queued(e, j) /\ j # i
           /\ InFlight(e, j) => InFlight(e, j)'
           /\ InFlight(e, j)' => InFlight(e, j) \/ (j = i /\ Queued(e, i))
           /\ i \in configs /\ Queued(e, i) => InFlight(e, i)'
<1>1. \A j \in Integration : queues'[j] = IF j = i THEN <<>> ELSE queues[j]
  BY FlushEffect
<1>2. flights' \in {flights, flights \cup {Flight(by, i)}}
  BY FlushEffect
<1>3. /\ Flight(by, i).to = i /\ Flight(by, i).batch = queues[i]
      /\ Flight(by, i).answer = "awaited"
  BY DEF Flight
<1>4. \A e \in Event : i \in configs /\ Queued(e, i) => Flight(by, i) \in flights'
  BY NothingInEmpty DEF Flush, NothingToFlush, Queued
<1>. QED
  BY <1>1, <1>2, <1>3, <1>4, NothingInEmpty DEF Queued, InFlight

LEMMA FlushConserves ==
  ASSUME Conserved, NEW by, NEW i \in Integration,
         Flush(by, i) \/ NothingToFlush(i),
         UNCHANGED <<request, targets, configs, crashes, attempts>>
  PROVE  SentOnce' /\ NoneIsLost'
<1>1. SentOnce /\ NoneIsLost /\ TypeOK
  BY DEF Conserved, Recorded
<1>2. \A e \in Event, j \in Integration :
           /\ Queued(e, j)' <=> Queued(e, j) /\ j # i
           /\ InFlight(e, j) => InFlight(e, j)'
           /\ InFlight(e, j)' => InFlight(e, j) \/ (j = i /\ Queued(e, i))
           /\ i \in configs /\ Queued(e, i) => InFlight(e, i)'
  BY <1>1, FlushMoves
<1>3. ASSUME NEW e \in Event, NEW j \in Integration
      PROVE  /\ attempts'[<<e, j>>] \in {0, 1}
             /\ Early(e)' \/ Queued(e, j)' \/ InFlight(e, j)' => attempts'[<<e, j>>] = 0
             /\ Queued(e, j)' => ~InFlight(e, j)'
             /\ Taken(e)' /\ j \in targets'[e] /\ j \in configs' /\ crashes' = 0
                => Queued(e, j)' \/ InFlight(e, j)' \/ attempts'[<<e, j>>] = 1
  <2>1. (Early(e)' <=> Early(e)) /\ (Taken(e)' <=> Taken(e))
    BY DEF Early, Taken
  <2>. QED
    BY <1>1, <1>2, <2>1 DEF SentOnce, NoneIsLost
<1>. QED
  BY ONLY <1>3 DEF SentOnce, NoneIsLost, Early, Taken, Queued, InFlight
LEMMA QueueConserves ==
  ASSUME Conserved, NEW e \in Event, Queue(e)
  PROVE  SentOnce' /\ NoneIsLost'
<1>0. TypeOK /\ SentOnce /\ NoneIsLost /\ FlightsAreOnRecord
  BY DEF Conserved, Recorded, OnRecord
<1>1. /\ request[e] = "inserting" /\ Enqueue(e)
      /\ request' = [request EXCEPT ![e] = "queued"]
      /\ UNCHANGED <<targets, configs, crashes, flights, attempts>>
  BY DEF Queue, integrationVars, history
<1>2. \A x \in Event : request'[x] = IF x = e THEN "queued" ELSE request[x]
  BY <1>0, <1>1 DEF TypeOK
<1>3. \A x \in Event, j \in Integration :
        Queued(x, j)' <=> Queued(x, j) \/ (x = e /\ j \in targets[e] \cap configs)
  <2>. SUFFICES ASSUME NEW x \in Event, NEW j \in Integration
                PROVE  x \in ToSet(queues'[j]) <=>
                         \/ x \in ToSet(queues[j])
                         \/ x = e /\ j \in targets[e] \cap configs
    BY DEF Queued
  <2>1. j \in targets[e] \cap configs => ToSet(queues'[j]) = ToSet(queues[j]) \cup {e}
    BY <1>0, <1>1, EnqueueEffect
  <2>2. j \notin targets[e] \cap configs => queues'[j] = queues[j]
    BY <1>0, <1>1, EnqueueEffect
  <2>. QED
    BY <2>1, <2>2
<1>4. \A x \in Event, j \in Integration :
        /\ InFlight(x, j)' <=> InFlight(x, j)
        /\ InFlight(x, j) => x # e
  BY <1>0, <1>1 DEF InFlight, FlightsAreOnRecord, Taken
<1>5. ASSUME NEW x \in Event, NEW j \in Integration
      PROVE  /\ attempts'[<<x, j>>] \in {0, 1}
             /\ Early(x)' \/ Queued(x, j)' \/ InFlight(x, j)' => attempts'[<<x, j>>] = 0
             /\ Queued(x, j)' => ~InFlight(x, j)'
             /\ Taken(x)' /\ j \in targets'[x] /\ j \in configs' /\ crashes' = 0
                => Queued(x, j)' \/ InFlight(x, j)' \/ attempts'[<<x, j>>] = 1
  <2>1. CASE x = e
    BY <1>0, <1>1, <1>2, <1>3, <1>4, <2>1 DEF SentOnce, Early, Taken
  <2>2. CASE x # e
    BY <1>0, <1>1, <1>2, <1>3, <1>4, <2>2 DEF SentOnce, NoneIsLost, Early, Taken
  <2>. QED
    BY <2>1, <2>2
<1>. QED
  BY ONLY <1>5 DEF SentOnce, NoneIsLost, Early, Taken, Queued, InFlight

LEMMA SendConserves ==
  ASSUME Conserved, NEW f \in flights, Send(f)
  PROVE  SentOnce' /\ NoneIsLost'
<1>0. TypeOK /\ SentOnce /\ NoneIsLost /\ FlightsAreOnRecord /\ FlightsAreApart
  BY DEF Conserved, Recorded, OnRecord
<1>1. PICK answer \in {"forwarded", "failed"} :
        /\ f.answer = "awaited"
        /\ flights' = (flights \ {f}) \cup {[f EXCEPT !.answer = answer]}
  BY <1>0, SendEffect
<1>2. /\ attempts' = [a \in Alert |-> attempts[a] + (IF a \in Alerts(f) THEN 1 ELSE 0)]
      /\ UNCHANGED <<queues, request, targets, configs, crashes>>
  BY DEF Send, integrationVars, requestVars
<1>3. \A x \in Event, j \in Integration :
        /\ <<x, j>> \in Alert
        /\ <<x, j>> \in Alerts(f) <=> j = f.to /\ x \in ToSet(f.batch)
  BY DEF Alert, Alerts
<1>4. \A x \in Event, j \in Integration :
        attempts'[<<x, j>>] = attempts[<<x, j>>]
                              + (IF j = f.to /\ x \in ToSet(f.batch) THEN 1 ELSE 0)
  BY <1>2, <1>3
<1>5. /\ [f EXCEPT !.answer = answer].answer # "awaited"
      /\ \A g \in flights' : g.answer = "awaited" => g \in flights /\ g # f
      /\ \A g \in flights : g # f => g \in flights'
  BY <1>0, <1>1 DEF TypeOK
<1>6. ASSUME NEW x \in Event, NEW j \in Integration
      PROVE  /\ InFlight(x, j)' <=> InFlight(x, j) /\ ~(j = f.to /\ x \in ToSet(f.batch))
             /\ j = f.to /\ x \in ToSet(f.batch) => InFlight(x, j)
  <2>1. j = f.to /\ x \in ToSet(f.batch) => InFlight(x, j) /\ ~InFlight(x, j)'
    BY <1>0, <1>1, <1>5 DEF InFlight, FlightsAreApart
  <2>2. ~(j = f.to /\ x \in ToSet(f.batch)) => (InFlight(x, j)' <=> InFlight(x, j))
    BY <1>5 DEF InFlight
  <2>. QED
    BY <2>1, <2>2
<1>7. ASSUME NEW x \in Event, NEW j \in Integration
      PROVE  /\ attempts'[<<x, j>>] \in {0, 1}
             /\ Early(x)' \/ Queued(x, j)' \/ InFlight(x, j)' => attempts'[<<x, j>>] = 0
             /\ Queued(x, j)' => ~InFlight(x, j)'
             /\ Taken(x)' /\ j \in targets'[x] /\ j \in configs' /\ crashes' = 0
                => Queued(x, j)' \/ InFlight(x, j)' \/ attempts'[<<x, j>>] = 1
  <2>1. /\ Early(x)' <=> Early(x)
        /\ Taken(x)' <=> Taken(x)
        /\ Queued(x, j)' <=> Queued(x, j)
    BY <1>2 DEF Early, Taken, Queued
  <2>2. Early(x) => ~(j = f.to /\ x \in ToSet(f.batch))
    BY <1>0 DEF FlightsAreOnRecord, Early, Taken
  <2>. QED
    BY <1>0, <1>2, <1>4, <1>6, <2>1, <2>2 DEF SentOnce, NoneIsLost
<1>. QED
  BY ONLY <1>7 DEF SentOnce, NoneIsLost, Early, Taken, Queued, InFlight

LEMMA StepConserved == Conserved /\ [Next]_vars => Conserved'
<1>. SUFFICES ASSUME Conserved, [Next]_vars
              PROVE  SentOnce' /\ NoneIsLost'
  BY StepRecorded, StepIds DEF Conserved, Recorded
<1>0. TypeOK /\ IdsAreUsedOnce /\ SentOnce /\ NoneIsLost
  BY DEF Conserved, Recorded
<1>1. ASSUME NEW i \in Integration, CreateVisible(i)
      PROVE  SentOnce' /\ NoneIsLost'
  <2>1. /\ i \in creating /\ configs' = configs \cup {i}
        /\ queues' = [queues EXCEPT ![i] = <<>>]
        /\ UNCHANGED <<request, targets, flights, crashes, attempts>>
    BY <1>1 DEF CreateVisible, requestVars, flushVars, history
  <2>2. ASSUME NEW e \in Event, NEW j \in Integration
        PROVE  /\ attempts'[<<e, j>>] \in {0, 1}
               /\ Early(e)' \/ Queued(e, j)' \/ InFlight(e, j)' => attempts'[<<e, j>>] = 0
               /\ Queued(e, j)' => ~InFlight(e, j)'
               /\ Taken(e)' /\ j \in targets'[e] /\ j \in configs' /\ crashes' = 0
                  => Queued(e, j)' \/ InFlight(e, j)' \/ attempts'[<<e, j>>] = 1
    <3>1. /\ Early(e)' <=> Early(e)
          /\ Taken(e)' <=> Taken(e)
          /\ InFlight(e, j)' <=> InFlight(e, j)
          /\ Queued(e, j)' <=> Queued(e, j) /\ j # i
      BY <1>0, <2>1, NothingInEmpty DEF TypeOK, Early, Taken, InFlight, Queued
    <3>2. j \in targets'[e] /\ j \in configs' => j \in configs /\ j # i
      BY <1>0, <2>1 DEF IdsAreUsedOnce
    <3>. QED
      BY <1>0, <2>1, <3>1, <3>2 DEF SentOnce, NoneIsLost
  <2>. QED
    BY ONLY <2>2 DEF SentOnce, NoneIsLost, Early, Taken, Queued, InFlight
<1>2. ASSUME NEW i \in Integration, DeleteIntegration(i)
      PROVE  SentOnce' /\ NoneIsLost'
  <2>1. /\ \/ configs' = configs \ {i} /\ queues' = [queues EXCEPT ![i] = <<>>]
           \/ UNCHANGED <<configs, queues>>
        /\ UNCHANGED <<request, targets, flights, crashes, attempts>>
    BY <1>2 DEF DeleteIntegration, requestVars, flushVars, history
  <2>2. ASSUME NEW e \in Event, NEW j \in Integration
        PROVE  /\ attempts'[<<e, j>>] \in {0, 1}
               /\ Early(e)' \/ Queued(e, j)' \/ InFlight(e, j)' => attempts'[<<e, j>>] = 0
               /\ Queued(e, j)' => ~InFlight(e, j)'
               /\ Taken(e)' /\ j \in targets'[e] /\ j \in configs' /\ crashes' = 0
                  => Queued(e, j)' \/ InFlight(e, j)' \/ attempts'[<<e, j>>] = 1
    <3>1. /\ Early(e)' <=> Early(e)
          /\ Taken(e)' <=> Taken(e)
          /\ InFlight(e, j)' <=> InFlight(e, j)
          /\ Queued(e, j)' => Queued(e, j)
          /\ j \in configs' => j \in configs /\ (Queued(e, j) => Queued(e, j)')
      BY <1>0, <2>1, NothingInEmpty DEF TypeOK, Early, Taken, InFlight, Queued
    <3>. QED
      BY <1>0, <2>1, <3>1 DEF SentOnce, NoneIsLost
  <2>. QED
    BY ONLY <2>2 DEF SentOnce, NoneIsLost, Early, Taken, Queued, InFlight
<1>3. ASSUME NEW i \in Integration, FlushDue(i)
      PROVE  SentOnce' /\ NoneIsLost'
  BY <1>3, FlushConserves DEF FlushDue, integrationVars, requestVars, history
<1>4. ASSUME NEW e \in Event, NEW i \in Integration, FlushFull(e, i)
      PROVE  SentOnce' /\ NoneIsLost'
  BY <1>4, FlushConserves DEF FlushFull, integrationVars, requestVars, history
<1>5. ASSUME NEW e \in Event,
             Receipt(e) \/ Resolve(e) \/ Insert(e) \/ InsertFails(e) \/ Return(e)
      PROVE  SentOnce' /\ NoneIsLost'
  <2>1. UNCHANGED <<configs, queues, flights, crashes, attempts>>
    BY <1>5 DEF Receipt, Resolve, Insert, InsertFails, Return, integrationVars,
                flushVars, history
  <2>2. \A x \in Event :
          /\ Early(x)' => Early(x)
          /\ Taken(x)' => Taken(x) /\ targets'[x] = targets[x]
    BY <1>0, <1>5 DEF TypeOK, Receipt, Resolve, Insert, InsertFails, Return,
                      Early, Taken
  <2>. QED
    BY <1>0, <2>1, <2>2, NothingMoved DEF Queued, InFlight
<1>6. ASSUME NEW f \in flights, Settle(f)
      PROVE  SentOnce' /\ NoneIsLost'
  <2>1. /\ f.answer # "awaited" /\ flights' = flights \ {f}
        /\ UNCHANGED <<queues, request, targets, configs, crashes, attempts>>
    BY <1>6 DEF Settle, integrationVars, requestVars, history
  <2>. QED
    BY <1>0, <2>1, NothingMoved DEF Queued, InFlight, Early, Taken
<1>7. CASE Restart
  <2>1. ASSUME NEW e \in Event, NEW i \in Integration
        PROVE  /\ attempts'[<<e, i>>] = attempts[<<e, i>>]
               /\ ~Queued(e, i)' /\ ~InFlight(e, i)' /\ i \notin targets'[e]
               /\ Early(e)' => Early(e)
    BY <1>7, NothingInEmpty DEF Restart, Queued, InFlight, Early, history
  <2>2. ASSUME NEW e \in Event, NEW i \in Integration
        PROVE  /\ attempts'[<<e, i>>] \in {0, 1}
               /\ Early(e)' \/ Queued(e, i)' \/ InFlight(e, i)' => attempts'[<<e, i>>] = 0
               /\ Queued(e, i)' => ~InFlight(e, i)'
               /\ Taken(e)' /\ i \in targets'[e] /\ i \in configs' /\ crashes' = 0
                  => Queued(e, i)' \/ InFlight(e, i)' \/ attempts'[<<e, i>>] = 1
    BY <1>0, <2>1 DEF SentOnce
  <2>. QED
    BY ONLY <2>2 DEF SentOnce, NoneIsLost, Early, Taken, Queued, InFlight
<1>8. CASE UNCHANGED <<queues, request, targets, configs, crashes, flights, attempts>>
  BY <1>0, <1>8, NothingMoved DEF Queued, InFlight, Early, Taken
<1>. QED
  BY <1>1, <1>2, <1>3, <1>4, <1>5, <1>6, <1>7, <1>8, QueueConserves, SendConserves
     DEF Next, SendEvent, CreateStored, Tick, vars, integrationVars, requestVars,
         flushVars, history

\* No event is ever in two places at once or sent twice, and while the process
\* and the target live none is mislaid, whatever flushes overlap.
THEOREM EventsConserved == Spec => []EventsAreConserved
<1>1. Conserved => EventsAreConserved
  <2>. SUFFICES ASSUME Conserved, NEW e \in Event, NEW i \in Integration
                PROVE  /\ Places(e, i) <= 1
                       /\ /\ request[e] \in {"queued", "accepted"} /\ i \in targets[e]
                          /\ i \in configs /\ crashes = 0
                          => Places(e, i) = 1
    BY DEF EventsAreConserved
  <2>1. SentOnce /\ NoneIsLost
    BY DEF Conserved
  <2>. QED
    BY <2>1 DEF SentOnce, NoneIsLost, Places, One, Taken
<1>. QED
  BY <1>1, InitConserved, StepConserved, PTL DEF Spec
=============================================================================
