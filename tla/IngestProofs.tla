---------------------------- MODULE IngestProofs ----------------------------
(***************************************************************************)
(* Proofs about Ingest, for every set of hashes, sources, processes and    *)
(* fetchers, every feed and every number of faults and restarts.           *)
(***************************************************************************)
EXTENDS IngestProps, SequenceTheorems, FiniteSetTheorems, TLAPS

(***************************************************************************)
(* What is true of a fetcher between two steps: it has something to check  *)
(* while it deduplicates, and an indicator that its process may vouch for  *)
(* in hand while it marks and announces.                                   *)
(***************************************************************************)
Vouched(p) == Stored \cup (IF p \in connected THEN {} ELSE Passed)

InHand ==
  \A f \in Fetcher :
    /\ pc[f] = "dedup" => batch[f] # <<>>
    /\ pc[f] \in Handling => fresh[f] # <<>> /\ Current(f) \in Vouched(ProcOf[f])

Typed == Types /\ InHand

\* The initial state is well typed and no fetcher has anything in hand.
LEMMA InitTyped == Init => Typed
BY IngestAssumption
   DEF IngestAssumption, Init, Typed, Types, InHand, Location, Handling

\* A fetcher that deduplicates has a hash to check, and a typed rest.
LEMMA CheckingTyped ==
  ASSUME Typed, NEW f \in Fetcher, pc[f] = "dedup"
  PROVE  /\ Checking(f) \in Hash
         /\ Tail(batch[f]) \in Seq(Hash)
         /\ Append(fresh[f], Checking(f)) \in Seq(Hash)
<1>1. batch[f] \in Seq(Hash) /\ batch[f] # <<>> /\ fresh[f] \in Seq(Hash)
  BY DEF Typed, Types, InHand
<1>2. Checking(f) \in Hash /\ Tail(batch[f]) \in Seq(Hash)
  BY <1>1, HeadTailProperties DEF Checking
<1>. QED
  BY <1>1, <1>2, AppendProperties

\* A fetcher with new indicators left has one in hand, and a typed rest.
LEMMA CurrentTyped ==
  ASSUME Typed, NEW f \in Fetcher, fresh[f] # <<>>
  PROVE  Current(f) \in Hash /\ Tail(fresh[f]) \in Seq(Hash)
<1>1. fresh[f] \in Seq(Hash)
  BY DEF Typed, Types
<1>. QED
  BY <1>1, HeadTailProperties DEF Current

\* Writing a row stores one more indicator and loses none.
LEMMA WriteRowStores ==
  ASSUME Typed, NEW h \in Hash, WriteRow(h)
  PROVE  /\ rows' \in [Hash -> Nat]
         /\ unsynced' \in SUBSET Hash
         /\ Stored' = Stored \cup {h}
BY DEF Typed, Types, WriteRow, Stored

\* Handling an indicator without a repository loses none either.
LEMMA SkipStorePasses ==
  ASSUME Typed, NEW f \in Fetcher, SkipStore(f)
  PROVE  /\ Current(f) \in Hash /\ rowless' \in [Hash -> Nat]
         /\ Passed' = Passed \cup {Current(f)} /\ Stored' = Stored
<1>1. Current(f) \in Hash
  BY CurrentTyped DEF SkipStore
<1>. QED
  BY <1>1 DEF SkipStore, Typed, Types, Passed, Stored

\* A step of Deduplicate keeps the types and what every fetcher has in hand.
LEMMA DedupTyped ==
  ASSUME Typed, NEW f \in Fetcher, DedupHit(f) \/ DedupMiss(f) \/ DedupError(f)
  PROVE  Typed'
<1>1. pc[f] = "dedup" /\ NextToCheck(f)
  BY DEF DedupHit, DedupMiss, DedupError
<1>2. /\ fresh' \in [Fetcher -> Seq(Hash)]
      /\ \A g \in Fetcher : g # f => fresh'[g] = fresh[g]
  BY <1>1, CheckingTyped DEF Typed, Types, DedupHit, DedupMiss, DedupError
<1>3. faults' \in 0..MaxFaults
  BY IngestAssumption DEF IngestAssumption, Typed, Types,
     DedupHit, DedupMiss, DedupError, CallWorks, CallFails
<1>4. Types'
  BY <1>1, <1>2, <1>3, CheckingTyped DEF Typed, Types, NextToCheck, Location
<1>5. ASSUME NEW g \in Fetcher
      PROVE  /\ pc'[g] = "dedup" => batch'[g] # <<>>
             /\ pc'[g] \in Handling => fresh'[g] # <<>> /\ Current(g)' \in Vouched(ProcOf[g])'
  <2>1. CASE g = f
    BY <1>1, <2>1 DEF Typed, Types, NextToCheck, Handling
  <2>2. CASE g # f
    <3>1. /\ pc'[g] = pc[g] /\ batch'[g] = batch[g] /\ fresh'[g] = fresh[g]
          /\ UNCHANGED <<rows, rowless, connected>>
      BY <1>1, <1>2, <2>2 DEF Typed, Types, NextToCheck
    <3>. QED
      BY <3>1 DEF Typed, InHand, Current, Vouched, Stored, Passed
  <2>. QED
    BY <2>1, <2>2
<1>. QED
  BY <1>4, <1>5 DEF Typed, InHand

\* So does every step of the store loop, from the write to the announcement.
LEMMA StoreTyped ==
  ASSUME Typed, NEW f \in Fetcher,
         \/ Upsert(f) \/ UpsertFails(f) \/ SkipStore(f) \/ MarkMemory(f) \/ MarkCache(f)
         \/ PublishNewThreat(f) \/ FinishFetch(f)
  PROVE  Typed'
<1>1. CASE Upsert(f)
  <2>1. Current(f) \in Hash /\ fresh[f] # <<>>
    BY <1>1, CurrentTyped DEF Upsert
  <2>2. rows' \in [Hash -> Nat] /\ unsynced' \in SUBSET Hash /\ Stored' = Stored \cup {Current(f)}
    BY <1>1, <2>1, WriteRowStores DEF Upsert
  <2>3. Types'
    BY <1>1, <2>2 DEF Typed, Types, Upsert, CallWorks, Location, Handling
  <2>4. InHand'
    <3>1. UNCHANGED <<rowless, connected, fresh>>
      BY <1>1 DEF Upsert
    <3>. QED
      BY <1>1, <2>1, <2>2, <3>1
         DEF Typed, Types, InHand, Upsert, Handling, Current, Vouched, Passed
  <2>. QED
    BY <2>3, <2>4 DEF Typed
<1>2. CASE UpsertFails(f)
  <2>1. Current(f) \in Hash /\ Tail(fresh[f]) \in Seq(Hash)
    BY <1>2, CurrentTyped DEF UpsertFails
  <2>2. rows' \in [Hash -> Nat] /\ unsynced' \in SUBSET Hash /\ Stored \subseteq Stored'
    BY <1>2, <2>1, WriteRowStores DEF UpsertFails, Typed, Types, Stored
  <2>3. Types'
    <3>1. fresh' \in [Fetcher -> Seq(Hash)]
      BY <1>2, <2>1 DEF Typed, Types, UpsertFails
    <3>2. faults' \in 0..MaxFaults
      BY <1>2, IngestAssumption DEF IngestAssumption, Typed, Types, UpsertFails, CallFails
    <3>. QED
      BY <1>2, <2>2, <3>1, <3>2 DEF Typed, Types, UpsertFails
  <2>4. InHand'
    <3>1. UNCHANGED <<rowless, connected>>
      BY <1>2 DEF UpsertFails
    <3>. QED
      BY <1>2, <2>2, <3>1
         DEF Typed, Types, InHand, UpsertFails, Handling, Current, Vouched, Passed
  <2>. QED
    BY <2>3, <2>4 DEF Typed
<1>3. CASE MarkMemory(f)
  <2>1. Current(f) \in Hash /\ ProcOf[f] \in Proc
    BY <1>3, IngestAssumption, CurrentTyped
       DEF IngestAssumption, MarkMemory, Typed, InHand, Handling
  <2>2. Types'
    BY <1>3, <2>1 DEF Typed, Types, MarkMemory, Location, Handling
  <2>3. InHand'
    BY <1>3 DEF Typed, Types, InHand, MarkMemory, Handling, Current,
           Vouched, Stored, Passed
  <2>. QED
    BY <2>2, <2>3 DEF Typed
<1>4. CASE MarkCache(f)
  <2>1. Current(f) \in Hash
    BY <1>4, CurrentTyped DEF MarkCache, Typed, InHand, Handling
  <2>2. Types'
    BY <1>4, <2>1, IngestAssumption
       DEF IngestAssumption, Typed, Types, MarkCache, CallWorks, CallFails,
           Location, Handling
  <2>3. InHand'
    BY <1>4 DEF Typed, Types, InHand, MarkCache, Handling, Current,
           Vouched, Stored, Passed
  <2>. QED
    BY <2>2, <2>3 DEF Typed
<1>5. CASE PublishNewThreat(f)
  <2>1. Current(f) \in Hash /\ Tail(fresh[f]) \in Seq(Hash)
    BY <1>5, CurrentTyped DEF PublishNewThreat, Typed, InHand, Handling
  <2>2. Types'
    <3>1. announced' \in [Hash -> Nat]
      BY <1>5, <2>1 DEF Typed, Types, PublishNewThreat
    <3>2. fresh' \in [Fetcher -> Seq(Hash)] /\ pc' \in [Fetcher -> Location]
      BY <1>5, <2>1 DEF Typed, Types, PublishNewThreat, Location
    <3>. QED
      BY <1>5, <3>1, <3>2 DEF Typed, Types, PublishNewThreat
  <2>3. InHand'
    BY <1>5 DEF Typed, Types, InHand, PublishNewThreat, Handling, Current,
           Vouched, Stored, Passed
  <2>. QED
    BY <2>2, <2>3 DEF Typed
<1>6. CASE FinishFetch(f)
  <2>1. Types'
    BY <1>6, IngestAssumption
       DEF IngestAssumption, Typed, Types, FinishFetch, CallWorks, CallFails, Location
  <2>2. InHand'
    BY <1>6 DEF Typed, Types, InHand, FinishFetch, Handling, Current,
           Vouched, Stored, Passed
  <2>. QED
    BY <2>1, <2>2 DEF Typed
<1>7. CASE SkipStore(f)
  <2>1. /\ fresh[f] # <<>> /\ Current(f) \in Hash /\ rowless' \in [Hash -> Nat]
        /\ Passed' = Passed \cup {Current(f)} /\ Stored' = Stored
        /\ ProcOf[f] \notin connected /\ UNCHANGED <<connected, fresh, batch>>
    BY <1>7, SkipStorePasses DEF SkipStore, HasRepository
  <2>2. Types'
    BY <1>7, <2>1 DEF Typed, Types, SkipStore, Location, Handling
  <2>3. InHand'
    BY <1>7, <2>1 DEF Typed, Types, InHand, SkipStore, Handling, Current, Vouched
  <2>. QED
    BY <2>2, <2>3 DEF Typed
<1>. QED
  BY <1>1, <1>2, <1>3, <1>4, <1>5, <1>6, <1>7

\* A fetch that begins has a non-empty list of hashes before it.
LEMMA FetchTyped ==
  ASSUME Typed, NEW s \in Source, FetchFrom(s)
  PROVE  Typed'
<1>. PICK f \in Fetcher, b \in Feed[s] : Fetch(f, s, b)
  BY DEF FetchFrom
<1>1. b \in Seq(Hash) /\ b # <<>>
  BY IngestAssumption DEF IngestAssumption
<1>2. Types'
  BY <1>1 DEF Typed, Types, Fetch, Location
<1>3. InHand'
  BY <1>1 DEF Typed, Types, InHand, Fetch, Handling, Current,
         Vouched, Stored, Passed
<1>. QED
  BY <1>2, <1>3 DEF Typed

\* Neither a key that expires nor a process that restarts takes a fetcher
\* from under its indicator.
LEMMA EnvironmentTyped ==
  ASSUME Typed, (\E h \in Hash : ExpireKey(h)) \/ (\E p \in Proc : Restart(p))
  PROVE  Typed'
<1>1. CASE \E h \in Hash : ExpireKey(h)
  BY <1>1 DEF Typed, Types, InHand, ExpireKey, Current, Vouched, Stored, Passed
<1>2. CASE \E p \in Proc : Restart(p)
  <2>. PICK p \in Proc : Restart(p)
    BY <1>2
  <2>1. Types'
    <3>1. seenHashes' \in [Proc -> SUBSET Hash] /\ crashes' \in 0..MaxCrashes
      BY IngestAssumption DEF IngestAssumption, Typed, Types, Restart
    <3>2. batch' \in [Fetcher -> Seq(Hash)] /\ fresh' \in [Fetcher -> Seq(Hash)]
      BY EmptySeq DEF Typed, Types, Restart
    <3>. QED
      BY <3>1, <3>2 DEF Typed, Types, Restart, Location
  <2>2. InHand'
    <3>. SUFFICES ASSUME NEW f \in Fetcher
                  PROVE  /\ pc'[f] = "dedup" => batch'[f] # <<>>
                         /\ pc'[f] \in Handling =>
                              fresh'[f] # <<>> /\ Current(f)' \in Vouched(ProcOf[f])'
      BY DEF InHand
    <3>1. CASE ProcOf[f] = p
      BY <3>1 DEF Restart, Handling
    <3>2. CASE ProcOf[f] # p
      BY <3>2 DEF Typed, InHand, Restart, Current, Vouched, Stored, Passed
    <3>. QED
      BY <3>1, <3>2
  <2>. QED
    BY <2>1, <2>2 DEF Typed
<1>. QED
  BY <1>1, <1>2

\* The types and what is in hand survive every step.
LEMMA NextTyped == Typed /\ [Next]_vars => Typed'
<1>. SUFFICES ASSUME Typed, [Next]_vars PROVE Typed'
  OBVIOUS
<1>1. CASE \E s \in Source : FetchFrom(s)
  BY <1>1, FetchTyped
<1>2. CASE \E f \in Fetcher : Process(f)
  BY <1>2, DedupTyped, StoreTyped DEF Process
<1>3. CASE (\E h \in Hash : ExpireKey(h)) \/ (\E p \in Proc : Restart(p))
  BY <1>3, EnvironmentTyped
<1>4. CASE UNCHANGED vars
  BY <1>4 DEF vars, Typed, Types, InHand, Current, Vouched, Stored, Passed
<1>. QED
  BY <1>1, <1>2, <1>3, <1>4 DEF Next

(***************************************************************************)
(* Type correctness, and what every fetcher has in hand, in every          *)
(* reachable state of the pipeline.                                        *)
(***************************************************************************)
THEOREM AlwaysTyped == Spec => []Typed
BY InitTyped, NextTyped, PTL DEF Spec

(***************************************************************************)
(* Every variable keeps its type, and neither loop reads past its list.    *)
(***************************************************************************)
THEOREM TypeCorrect == Spec => []TypeOK
<1>1. Typed => TypeOK
  BY DEF Typed, InHand, TypeOK
<1>. QED
  BY <1>1, AlwaysTyped, PTL

-----------------------------------------------------------------------------
(***************************************************************************)
(* Marking a hash happens with the indicator in hand, so no step makes a   *)
(* hash seen that its process may not vouch for.                           *)
(***************************************************************************)
LEMMA SeenStep ==
  ASSUME Typed, SeenIsStored, [Next]_vars
  PROVE  SeenIsStored'
<1>1. CASE \E s \in Source : FetchFrom(s)
  BY <1>1 DEF FetchFrom, Fetch, SeenIsStored, Stored, Passed
<1>2. ASSUME NEW f \in Fetcher, Process(f)
      PROVE  SeenIsStored'
  <2>1. CASE DedupHit(f) \/ DedupMiss(f) \/ DedupError(f)
    BY <2>1 DEF DedupHit, DedupMiss, DedupError, NextToCheck, SeenIsStored, Stored, Passed
  <2>2. CASE Upsert(f)
    <3>1. Stored \subseteq Stored' /\ Passed' = Passed
      BY <2>2, CurrentTyped, WriteRowStores DEF Upsert, Passed
    <3>. QED
      BY <2>2, <3>1 DEF Upsert, SeenIsStored
  <2>3. CASE UpsertFails(f)
    <3>1. Stored \subseteq Stored' /\ Passed' = Passed
      BY <2>3, CurrentTyped, WriteRowStores DEF UpsertFails, Stored, Passed
    <3>. QED
      BY <2>3, <3>1 DEF UpsertFails, SeenIsStored
  <2>4. CASE SkipStore(f)
    <3>1. Stored' = Stored /\ Passed \subseteq Passed'
      BY <2>4, SkipStorePasses
    <3>. QED
      BY <2>4, <3>1 DEF SkipStore, SeenIsStored
  <2>5. CASE MarkMemory(f)
    <3>1. Current(f) \in Vouched(ProcOf[f]) /\ UNCHANGED <<Stored, Passed, connected, dedupKeys>>
      BY <2>5 DEF MarkMemory, Typed, InHand, Handling, Stored, Passed
    <3>2. \A p \in Proc : seenHashes'[p] \subseteq seenHashes[p] \cup {h \in {Current(f)} : p = ProcOf[f]}
      BY <2>5 DEF MarkMemory, Typed, Types
    <3>3. connected \subseteq Proc
      BY DEF Typed, Types
    <3>. QED
      BY <3>1, <3>2, <3>3 DEF SeenIsStored, Vouched
  <2>6. CASE MarkCache(f)
    <3>1. /\ Current(f) \in Stored \cup Passed
          /\ UNCHANGED <<Stored, Passed, connected, seenHashes>>
      BY <2>6 DEF MarkCache, Typed, InHand, Handling, Vouched, Stored, Passed
    <3>. QED
      BY <2>6, <3>1 DEF MarkCache, SeenIsStored
  <2>7. CASE PublishNewThreat(f) \/ FinishFetch(f)
    BY <2>7 DEF PublishNewThreat, FinishFetch, SeenIsStored, Stored, Passed
  <2>. QED
    BY <1>2, <2>1, <2>2, <2>3, <2>4, <2>5, <2>6, <2>7 DEF Process
<1>3. CASE \E h \in Hash : ExpireKey(h)
  BY <1>3 DEF ExpireKey, SeenIsStored, Stored, Passed
<1>4. CASE \E p \in Proc : Restart(p)
  <2>. PICK p \in Proc : Restart(p)
    BY <1>4
  <2>1. /\ UNCHANGED <<Stored, Passed, dedupKeys>>
        /\ \A q \in Proc : q # p => seenHashes'[q] = seenHashes[q]
        /\ seenHashes'[p] = {} /\ connected' \subseteq Proc
        /\ \A q \in connected' : q = p \/ q \in connected
    BY DEF Restart, Stored, Passed, Typed, Types
  <2>. QED
    BY <2>1 DEF SeenIsStored
<1>5. CASE UNCHANGED vars
  BY <1>5 DEF vars, SeenIsStored, Stored, Passed
<1>. QED
  BY <1>1, <1>2, <1>3, <1>4, <1>5 DEF Next

(***************************************************************************)
(* No process that has a database ever vouches for an indicator that has   *)
(* no row, which is what the order "store, then MarkSeen" is there for;    *)
(* and no process, and no key in Redis, for one that was neither stored    *)
(* nor handled without a database.                                         *)
(***************************************************************************)
THEOREM SeenIsAlwaysStored == Spec => []SeenIsStored
<1>1. Init => SeenIsStored
  BY DEF Init, SeenIsStored, Stored, Passed
<1>2. Typed /\ SeenIsStored /\ [Next]_vars => SeenIsStored'
  BY SeenStep
<1>. QED
  BY <1>1, <1>2, AlwaysTyped, PTL DEF Spec

-----------------------------------------------------------------------------
(***************************************************************************)
(* The fetchers that have stored h, or passed it, and not yet announced it.*)
(* Counting them makes "announced no more often than written" inductive:   *)
(* each of them still holds what its announcement will rest on.            *)
(***************************************************************************)
Holding(h) == {f \in Fetcher : pc[f] \in Handling /\ Current(f) = h}

Ledger == \A h \in Hash : announced[h] + Cardinality(Holding(h)) <= rows[h] + rowless[h]

\* Any set of fetchers is finite, and counts no more than a larger one.
LEMMA FetcherSubset ==
  ASSUME NEW T \in SUBSET Fetcher, NEW S \in SUBSET T
  PROVE  /\ IsFiniteSet(T) /\ Cardinality(T) \in Nat
         /\ IsFiniteSet(S) /\ Cardinality(S) \in Nat
         /\ Cardinality(S) <= Cardinality(T)
BY IngestAssumption, FS_Subset, FS_CardinalityType DEF IngestAssumption

\* A step that takes no write back and announces nothing keeps the ledger, if
\* no fetcher begins to hold anything by it.
LEMMA LedgerKept ==
  ASSUME Typed, Ledger, rows' \in [Hash -> Nat], announced' = announced, rowless' = rowless,
         \A h \in Hash : rows[h] <= rows'[h],
         \A f \in Fetcher : pc'[f] \in Handling => pc[f] \in Handling /\ fresh'[f] = fresh[f]
  PROVE  Ledger'
<1>. SUFFICES ASSUME NEW h \in Hash
              PROVE  announced[h] + Cardinality(Holding(h)') <= rows'[h] + rowless'[h]
  BY DEF Ledger
<1>1. Holding(h)' \subseteq Holding(h) /\ Holding(h) \subseteq Fetcher
  BY DEF Holding, Current
<1>2. Cardinality(Holding(h)') <= Cardinality(Holding(h))
      /\ Cardinality(Holding(h)') \in Nat /\ Cardinality(Holding(h)) \in Nat
  BY <1>1, FetcherSubset
<1>. QED
  BY <1>2 DEF Ledger, Typed, Types

\* A write, or passing an indicator where there is no database, adds one
\* fetcher to those that have it to announce.
LEMMA LedgerTakes ==
  ASSUME Typed, Ledger, NEW f \in Fetcher, Upsert(f) \/ SkipStore(f)
  PROVE  Ledger'
<1>1. /\ Current(f) \in Hash /\ pc[f] = "store" /\ UNCHANGED <<announced, fresh>>
      /\ pc' = [pc EXCEPT ![f] = "mark"]
  BY CurrentTyped DEF Upsert, SkipStore
<1>2. \A h \in Hash :
        /\ rows'[h] + rowless'[h] \in Nat
        /\ rows'[h] + rowless'[h] =
             IF h = Current(f) THEN rows[h] + rowless[h] + 1 ELSE rows[h] + rowless[h]
  <2>. rows \in [Hash -> Nat] /\ rowless \in [Hash -> Nat]
    BY DEF Typed, Types
  <2>1. CASE Upsert(f)
    <3>1. rows' = [rows EXCEPT ![Current(f)] = @ + 1] /\ rowless' = rowless
      BY <2>1 DEF Upsert, WriteRow
    <3>. QED
      BY <1>1, <3>1
  <2>2. CASE SkipStore(f)
    <3>1. rowless' = [rowless EXCEPT ![Current(f)] = @ + 1] /\ rows' = rows
      BY <2>2 DEF SkipStore
    <3>. QED
      BY <1>1, <3>1
  <2>. QED
    BY <2>1, <2>2
<1>. SUFFICES ASSUME NEW h \in Hash
              PROVE  announced[h] + Cardinality(Holding(h)') <= rows'[h] + rowless'[h]
  BY <1>1 DEF Ledger
<1>3. Holding(h) \subseteq Fetcher /\ f \notin Holding(h)
  BY <1>1 DEF Holding, Handling
<1>4. IsFiniteSet(Holding(h)) /\ Cardinality(Holding(h)) \in Nat
  BY <1>3, FetcherSubset
<1>5. announced[h] \in Nat /\ rows[h] \in Nat /\ rowless[h] \in Nat
      /\ announced[h] + Cardinality(Holding(h)) <= rows[h] + rowless[h]
  BY DEF Ledger, Typed, Types
<1>6. CASE h = Current(f)
  <2>1. Holding(h)' = Holding(h) \cup {f}
    BY <1>1, <1>6 DEF Holding, Handling, Current, Typed, Types
  <2>2. Cardinality(Holding(h) \cup {f}) = Cardinality(Holding(h)) + 1
    BY <1>3, <1>4, FS_AddElement
  <2>. QED
    BY <1>2, <1>4, <1>5, <1>6, <2>1, <2>2
<1>7. CASE h # Current(f)
  <2>1. Holding(h)' = Holding(h)
    BY <1>1, <1>7 DEF Holding, Handling, Current, Typed, Types
  <2>. QED
    BY <1>2, <1>5, <1>7, <2>1
<1>. QED
  BY <1>6, <1>7

\* An announcement takes one fetcher away from those that hold the row.
LEMMA LedgerPublish ==
  ASSUME Typed, Ledger, NEW f \in Fetcher, PublishNewThreat(f)
  PROVE  Ledger'
<1>1. Current(f) \in Hash /\ pc[f] = "announce"
  BY CurrentTyped DEF PublishNewThreat, Typed, InHand, Handling
<1>2. SUFFICES ASSUME NEW h \in Hash
               PROVE  announced'[h] + Cardinality(Holding(h)') <= rows[h] + rowless[h]
  BY DEF Ledger, PublishNewThreat
<1>3. Holding(h)' = Holding(h) \ {f}
  BY <1>1 DEF PublishNewThreat, Holding, Handling, Current, Typed, Types
<1>4. Holding(h) \subseteq Fetcher
  BY DEF Holding
<1>5. IsFiniteSet(Holding(h)) /\ Cardinality(Holding(h)) \in Nat
  BY <1>4, FetcherSubset
<1>6. CASE h = Current(f)
  <2>1. f \in Holding(h)
    BY <1>1, <1>6 DEF Holding, Handling
  <2>2. Cardinality(Holding(h)') = Cardinality(Holding(h)) - 1
    BY <1>3, <1>5, <2>1, FS_RemoveElement
  <2>3. announced'[h] = announced[h] + 1
    BY <1>6 DEF PublishNewThreat, Typed, Types
  <2>. QED
    BY <1>5, <2>2, <2>3 DEF Ledger, Typed, Types
<1>7. CASE h # Current(f)
  <2>1. f \notin Holding(h)
    BY <1>7 DEF Holding
  <2>2. Holding(h)' = Holding(h)
    BY <1>3, <2>1
  <2>3. announced'[h] = announced[h]
    BY <1>7 DEF PublishNewThreat, Typed, Types
  <2>. QED
    BY <2>2, <2>3 DEF Ledger
<1>. QED
  BY <1>6, <1>7

\* The ledger survives every step.
LEMMA LedgerStep ==
  ASSUME Typed, Ledger, [Next]_vars
  PROVE  Ledger'
<1>. rows \in [Hash -> Nat] /\ \A h \in Hash : rows[h] <= rows[h]
  BY DEF Typed, Types
<1>1. CASE \E s \in Source : FetchFrom(s)
  BY <1>1, LedgerKept DEF FetchFrom, Fetch, Handling, Typed, Types
<1>2. ASSUME NEW f \in Fetcher, Process(f)
      PROVE  Ledger'
  <2>1. CASE DedupHit(f) \/ DedupMiss(f) \/ DedupError(f)
    <3>1. /\ NextToCheck(f)
          /\ \A g \in Fetcher : g # f => fresh'[g] = fresh[g]
      BY <2>1 DEF DedupHit, DedupMiss, DedupError, Typed, Types
    <3>. QED
      BY <3>1, LedgerKept DEF NextToCheck, Handling, Typed, Types
  <2>2. CASE Upsert(f) \/ SkipStore(f)
    BY <2>2, LedgerTakes
  <2>3. CASE UpsertFails(f)
    <3>1. Current(f) \in Hash
      BY <2>3, CurrentTyped DEF UpsertFails
    <3>2. rows' \in [Hash -> Nat] /\ \A h \in Hash : rows[h] <= rows'[h]
      <4>1. CASE WriteRow(Current(f))
        BY <3>1, <4>1 DEF WriteRow, Typed, Types
      <4>2. CASE UNCHANGED <<rows, unsynced>>
        BY <4>2
      <4>. QED
        BY <2>3, <4>1, <4>2 DEF UpsertFails
    <3>. QED
      BY <2>3, <3>2, LedgerKept DEF UpsertFails, Handling, Typed, Types
  <2>4. CASE MarkMemory(f)
    BY <2>4, LedgerKept DEF MarkMemory, Handling, Typed, Types
  <2>5. CASE MarkCache(f)
    BY <2>5, LedgerKept DEF MarkCache, Handling, Typed, Types
  <2>6. CASE PublishNewThreat(f)
    BY <2>6, LedgerPublish
  <2>7. CASE FinishFetch(f)
    BY <2>7, LedgerKept DEF FinishFetch, Handling, Typed, Types
  <2>. QED
    BY <1>2, <2>1, <2>2, <2>3, <2>4, <2>5, <2>6, <2>7 DEF Process
<1>3. CASE \E h \in Hash : ExpireKey(h)
  BY <1>3, LedgerKept DEF ExpireKey
<1>4. CASE \E p \in Proc : Restart(p)
  BY <1>4, LedgerKept DEF Restart, Handling
<1>5. CASE UNCHANGED vars
  BY <1>5, LedgerKept DEF vars
<1>. QED
  BY <1>1, <1>2, <1>3, <1>4, <1>5 DEF Next

(***************************************************************************)
(* However fetches overlap, fail and restart, no indicator is announced    *)
(* more often than its row was written or it was passed without one.       *)
(***************************************************************************)
THEOREM AnnouncementsAreAlwaysBacked == Spec => []AnnouncementsAreBacked
<1>1. Init => Ledger
  <2>. SUFFICES ASSUME Init, NEW h \in Hash
                PROVE  announced[h] + Cardinality(Holding(h)) <= rows[h] + rowless[h]
    BY DEF Ledger
  <2>1. Holding(h) = {}
    BY DEF Init, Holding, Handling
  <2>. QED
    BY <2>1, FS_EmptySet DEF Init
<1>2. Typed /\ Ledger /\ [Next]_vars => Ledger'
  BY LedgerStep
<1>3. Typed /\ Ledger => AnnouncementsAreBacked
  <2>. SUFFICES ASSUME Typed, Ledger, NEW h \in Hash
                PROVE  announced[h] <= rows[h] + rowless[h]
    BY DEF AnnouncementsAreBacked
  <2>1. Cardinality(Holding(h)) \in Nat
    BY FetcherSubset DEF Holding
  <2>. QED
    BY <2>1 DEF Ledger, Typed, Types
<1>. QED
  BY <1>1, <1>2, <1>3, AlwaysTyped, PTL DEF Spec

-----------------------------------------------------------------------------
(***************************************************************************)
(* The refinement.  Two of the catalog's sets, as Ingest has them.         *)
(***************************************************************************)
Skipped == dedupKeys \cup UNION {seenHashes[p] : p \in Proc}
Told    == {h \in Hash : announced[h] > 0}

\* A step after which the same rows are stored and the same indicators have
\* been announced is a stutter or a change of mind about what to skip.
LEMMA RememberStep ==
  ASSUME Stored' = Stored, Passed' = Passed, Told' = Told, Skipped' \subseteq Stored \cup Passed
  PROVE  [Catalog!Next]_(Catalog!vars)
BY DEF Catalog!Next, Catalog!vars, Catalog!Remember, Catalog!Known,
       Stored, Passed, Told, Skipped

\* A step that writes the row of h stores h in the catalog.
LEMMA StoreStep ==
  ASSUME Typed, NEW h \in Hash, WriteRow(h),
         UNCHANGED <<rowless, seenHashes, dedupKeys, announced>>
  PROVE  [Catalog!Next]_(Catalog!vars)
<1>1. Stored' = Stored \cup {h}
  BY WriteRowStores
<1>2. Passed' = Passed /\ Skipped' = Skipped /\ Told' = Told
  BY DEF Passed, Skipped, Told
<1>. QED
  BY <1>1, <1>2
     DEF Catalog!Next, Catalog!Store, Stored, Passed, Told, Skipped

\* Every step of a fetcher is a step of the catalog or a stutter.
LEMMA ProcessRefines ==
  ASSUME Typed, SeenIsStored, SeenIsStored',
         NEW f \in Fetcher, Process(f)
  PROVE  [Catalog!Next]_(Catalog!vars)
<1>0. Skipped' \subseteq Stored' \cup Passed'
  BY DEF Skipped, SeenIsStored
<1>1. CASE DedupHit(f) \/ DedupMiss(f) \/ DedupError(f)
  <2>1. UNCHANGED <<rows, rowless, announced>>
    BY <1>1 DEF DedupHit, DedupMiss, DedupError, NextToCheck
  <2>. QED
    BY <1>0, <2>1, RememberStep DEF Stored, Passed, Told
<1>2. CASE Upsert(f)
  BY <1>2, CurrentTyped, StoreStep DEF Upsert
<1>3. CASE UpsertFails(f)
  <2>1. CASE WriteRow(Current(f))
    BY <1>3, <2>1, CurrentTyped, StoreStep DEF UpsertFails
  <2>2. CASE UNCHANGED <<rows, unsynced>>
    BY <1>0, <1>3, <2>2, RememberStep DEF UpsertFails, Stored, Passed, Told
  <2>. QED
    BY <1>3, <2>1, <2>2 DEF UpsertFails
<1>4. CASE SkipStore(f)
  <2>1. Current(f) \in Hash /\ Passed' = Passed \cup {Current(f)} /\ Stored' = Stored
    BY <1>4, SkipStorePasses
  <2>2. Skipped' = Skipped /\ Told' = Told
    BY <1>4 DEF SkipStore, Skipped, Told
  <2>. QED
    BY <2>1, <2>2 DEF Catalog!Next, Catalog!Pass, Stored, Passed, Told, Skipped
<1>5. CASE MarkMemory(f)
  BY <1>0, <1>5, RememberStep DEF MarkMemory, Stored, Passed, Told
<1>6. CASE MarkCache(f)
  BY <1>0, <1>6, RememberStep DEF MarkCache, Stored, Passed, Told
<1>7. CASE PublishNewThreat(f)
  <2>1. Current(f) \in Hash /\ Current(f) \in Stored \cup Passed
    BY <1>7, CurrentTyped DEF PublishNewThreat, Typed, InHand, Handling, Vouched
  <2>2. Told' = Told \cup {Current(f)}
    BY <1>7, <2>1 DEF PublishNewThreat, Told, Typed, Types
  <2>3. Stored' = Stored /\ Passed' = Passed /\ Skipped' = Skipped
    BY <1>7 DEF PublishNewThreat, Stored, Passed, Skipped
  <2>. QED
    BY <2>1, <2>2, <2>3
       DEF Catalog!Next, Catalog!Announce, Catalog!Known, Stored, Passed, Told, Skipped
<1>8. CASE FinishFetch(f)
  BY <1>0, <1>8, RememberStep DEF FinishFetch, Stored, Passed, Told
<1>. QED
  BY <1>1, <1>2, <1>3, <1>4, <1>5, <1>6, <1>7, <1>8 DEF Process

(***************************************************************************)
(* The pipeline implements the catalog: rows are never lost, and whatever  *)
(* is skipped or announced is stored, or was passed without a database.    *)
(***************************************************************************)
THEOREM PipelineImplementsCatalog == Spec => ImplementsCatalog
<1>1. Init => Catalog!Init
  BY DEF Init, Catalog!Init, Stored, Passed
<1>2. ASSUME Typed, SeenIsStored, SeenIsStored', [Next]_vars
      PROVE  [Catalog!Next]_(Catalog!vars)
  <2>0. Skipped' \subseteq Stored' \cup Passed'
    BY <1>2 DEF Skipped, SeenIsStored
  <2>1. CASE \E s \in Source : FetchFrom(s)
    BY <2>0, <2>1, RememberStep DEF FetchFrom, Fetch, Stored, Passed, Told
  <2>2. CASE \E f \in Fetcher : Process(f)
    BY <1>2, <2>2, ProcessRefines
  <2>3. CASE \E h \in Hash : ExpireKey(h)
    BY <2>0, <2>3, RememberStep DEF ExpireKey, Stored, Passed, Told
  <2>4. CASE \E p \in Proc : Restart(p)
    BY <2>0, <2>4, RememberStep DEF Restart, Stored, Passed, Told
  <2>5. CASE UNCHANGED vars
    BY <2>0, <2>5, RememberStep DEF vars, Stored, Passed, Told
  <2>. QED
    BY <1>2, <2>1, <2>2, <2>3, <2>4, <2>5 DEF Next
<1>. QED
  BY <1>1, <1>2, AlwaysTyped, SeenIsAlwaysStored, PTL
     DEF Spec, ImplementsCatalog, Catalog!Spec

-----------------------------------------------------------------------------
(***************************************************************************)
(* The bound on repeated announcements.  A fetcher that has announced h in *)
(* the present life of its process will not do so again: the memory of the *)
(* process knows h, and h is no longer among what the fetcher took for new *)
(* before that.  Counting those fetchers pays for the announcements since  *)
(* the last restart; a restart pays for the earlier ones with a full       *)
(* round of all fetchers.                                                  *)
(***************************************************************************)

\* The values on a list.
On(list) == {list[i] : i \in DOMAIN list}

NoRepeat(list) == \A i, j \in DOMAIN list : list[i] = list[j] => i = j

\* No list that a source serves repeats a value.
ListsAreSets == \A s \in Source : \A b \in Feed[s] : NoRepeat(b)

Settled(h) == {f \in Fetcher : h \in seenHashes[ProcOf[f]] /\ h \notin On(fresh[f])}

\* What a fetcher has still to look at and what it took for new are apart
\* and repeat nothing; what it has marked, its process knows.
Apart ==
  \A f \in Fetcher :
    /\ NoRepeat(batch[f]) /\ NoRepeat(fresh[f])
    /\ On(batch[f]) \cap On(fresh[f]) = {}
    /\ pc[f] \in {"cache", "announce"} => Current(f) \in seenHashes[ProcOf[f]]

Paid ==
  \A h \in Hash :
    announced[h] <= Cardinality(Fetcher) * crashes + Cardinality(Settled(h))

\* Taking the first value off a list that repeats nothing.
LEMMA TailOfList ==
  ASSUME NEW list \in Seq(Hash), list # <<>>, NoRepeat(list)
  PROVE  /\ NoRepeat(Tail(list))
         /\ On(Tail(list)) = On(list) \ {Head(list)}
         /\ Head(list) \in On(list)
<1>1. /\ DOMAIN list = 1..Len(list) /\ Len(list) \in Nat /\ Len(list) >= 1
      /\ DOMAIN Tail(list) = 1..(Len(list) - 1)
      /\ Head(list) = list[1]
      /\ \A i \in 1..(Len(list) - 1) : Tail(list)[i] = list[i + 1]
  BY HeadTailProperties, EmptySeq
<1>2. NoRepeat(Tail(list))
  <2>. SUFFICES ASSUME NEW i \in 1..(Len(list) - 1), NEW j \in 1..(Len(list) - 1),
                       list[i + 1] = list[j + 1]
                PROVE  i = j
    BY <1>1 DEF NoRepeat
  <2>1. i + 1 \in DOMAIN list /\ j + 1 \in DOMAIN list
    BY <1>1
  <2>. QED
    BY <2>1 DEF NoRepeat
<1>3. ASSUME NEW x PROVE x \in On(Tail(list)) <=> x \in On(list) /\ x # Head(list)
  <2>1. ASSUME NEW i \in 1..(Len(list) - 1), x = Tail(list)[i]
        PROVE  x \in On(list) /\ x # Head(list)
    <3>1. i + 1 \in DOMAIN list /\ 1 \in DOMAIN list /\ i + 1 # 1 /\ x = list[i + 1]
      BY <1>1, <2>1
    <3>. QED
      BY <1>1, <3>1 DEF NoRepeat, On
  <2>2. ASSUME NEW i \in 1..Len(list), x = list[i], x # Head(list)
        PROVE  x \in On(Tail(list))
    <3>1. i # 1
      BY <1>1, <2>2
    <3>2. i - 1 \in 1..(Len(list) - 1) /\ (i - 1) + 1 = i
      BY <1>1, <3>1
    <3>. QED
      BY <1>1, <2>2, <3>2 DEF On
  <2>. QED
    BY <1>1, <2>1, <2>2 DEF On
<1>4. Head(list) \in On(list)
  BY <1>1 DEF On
<1>. QED
  BY <1>2, <1>3, <1>4

\* Adding a value that is not on a list.
LEMMA AppendToList ==
  ASSUME NEW list \in Seq(Hash), NEW h \in Hash, NoRepeat(list), h \notin On(list)
  PROVE  NoRepeat(Append(list, h)) /\ On(Append(list, h)) = On(list) \cup {h}
<1>. DEFINE longer == Append(list, h)
<1>1. /\ DOMAIN list = 1..Len(list) /\ Len(list) \in Nat
      /\ DOMAIN longer = 1..(Len(list) + 1)
      /\ longer[Len(list) + 1] = h
      /\ \A i \in 1..Len(list) : longer[i] = list[i]
  BY AppendProperties
<1>. HIDE DEF longer
<1>2. \A i \in 1..Len(list) : longer[i] \in On(list) /\ longer[i] # h
  BY <1>1 DEF On
<1>3. NoRepeat(longer)
  <2>. SUFFICES ASSUME NEW i \in 1..(Len(list) + 1), NEW j \in 1..(Len(list) + 1),
                       longer[i] = longer[j]
                PROVE  i = j
    BY <1>1 DEF NoRepeat
  <2>1. CASE i = Len(list) + 1 \/ j = Len(list) + 1
    BY <1>1, <1>2, <2>1
  <2>2. CASE i # Len(list) + 1 /\ j # Len(list) + 1
    <3>1. i \in DOMAIN list /\ j \in DOMAIN list /\ list[i] = list[j]
      BY <1>1, <2>2
    <3>. QED
      BY <3>1 DEF NoRepeat
  <2>. QED
    BY <2>1, <2>2
<1>4. On(longer) = On(list) \cup {h}
  <2>1. On(longer) \subseteq On(list) \cup {h}
    BY <1>1, <1>2 DEF On
  <2>2. On(list) \subseteq On(longer)
    BY <1>1 DEF On
  <2>3. h \in On(longer)
    BY <1>1 DEF On
  <2>. QED
    BY <2>1, <2>2, <2>3
<1>. QED
  BY <1>3, <1>4 DEF longer

\* An empty list holds nothing.
LEMMA EmptyList == On(<<>>) = {} /\ NoRepeat(<<>>)
BY DEF On, NoRepeat

\* A step of Deduplicate keeps the lists apart: the value it takes off one
\* list was not on the other.
LEMMA ApartDedup ==
  ASSUME Typed, Apart, NEW f \in Fetcher, DedupHit(f) \/ DedupMiss(f) \/ DedupError(f)
  PROVE  Apart'
<1>1. /\ pc[f] = "dedup" /\ batch[f] \in Seq(Hash) /\ batch[f] # <<>>
      /\ fresh[f] \in Seq(Hash) /\ Checking(f) \in Hash
  BY CheckingTyped DEF DedupHit, DedupMiss, DedupError, Typed, Types, InHand
<1>2. /\ batch' = [batch EXCEPT ![f] = Tail(@)] /\ UNCHANGED seenHashes
      /\ pc'[f] \in {"dedup", "store"} /\ \A g \in Fetcher : g # f => pc'[g] = pc[g]
      /\ fresh' \in {fresh, [fresh EXCEPT ![f] = Append(@, Checking(f))]}
  BY DEF DedupHit, DedupMiss, DedupError, NextToCheck, Typed, Types
<1>3. /\ NoRepeat(Tail(batch[f])) /\ On(Tail(batch[f])) = On(batch[f]) \ {Checking(f)}
      /\ Checking(f) \in On(batch[f])
  BY <1>1, TailOfList DEF Apart, Checking
<1>4. Checking(f) \notin On(fresh[f])
  BY <1>3 DEF Apart
<1>5. /\ NoRepeat(Append(fresh[f], Checking(f)))
      /\ On(Append(fresh[f], Checking(f))) = On(fresh[f]) \cup {Checking(f)}
  BY <1>1, <1>4, AppendToList DEF Apart
<1>6. ASSUME NEW g \in Fetcher
      PROVE  /\ NoRepeat(batch'[g]) /\ NoRepeat(fresh'[g])
             /\ On(batch'[g]) \cap On(fresh'[g]) = {}
             /\ pc'[g] \in {"cache", "announce"} => Current(g)' \in seenHashes'[ProcOf[g]]
  <2>1. CASE g = f
    <3>1. /\ batch'[f] = Tail(batch[f])
          /\ fresh'[f] \in {fresh[f], Append(fresh[f], Checking(f))}
      BY <1>2 DEF Typed, Types
    <3>. QED
      BY <1>2, <1>3, <1>5, <2>1, <3>1 DEF Apart
  <2>2. CASE g # f
    <3>1. batch'[g] = batch[g] /\ fresh'[g] = fresh[g] /\ pc'[g] = pc[g]
      BY <1>2, <2>2 DEF Typed, Types
    <3>. QED
      BY <1>2, <3>1 DEF Apart, Current
  <2>. QED
    BY <2>1, <2>2
<1>. QED
  BY <1>6 DEF Apart

\* The step that leaves an indicator behind takes it off the list of the new
\* ones, and only there.
LEMMA ApartDrop ==
  ASSUME Typed, Apart, NEW f \in Fetcher, UpsertFails(f) \/ PublishNewThreat(f)
  PROVE  /\ fresh' = [fresh EXCEPT ![f] = Tail(@)]
         /\ On(fresh'[f]) = On(fresh[f]) \ {Current(f)}
         /\ Apart'
<1>1. fresh[f] \in Seq(Hash) /\ fresh[f] # <<>>
  BY DEF UpsertFails, PublishNewThreat, Handling, Typed, Types, InHand
<1>2. /\ NoRepeat(Tail(fresh[f])) /\ On(Tail(fresh[f])) = On(fresh[f]) \ {Current(f)}
  BY <1>1, TailOfList DEF Apart, Current
<1>3. /\ fresh' = [fresh EXCEPT ![f] = Tail(@)] /\ UNCHANGED <<batch, seenHashes>>
      /\ pc'[f] = "store" /\ \A g \in Fetcher : g # f => pc'[g] = pc[g]
  BY DEF UpsertFails, PublishNewThreat, Typed, Types
<1>4. fresh'[f] = Tail(fresh[f]) /\ \A g \in Fetcher : g # f => fresh'[g] = fresh[g]
  BY <1>3 DEF Typed, Types
<1>5. ASSUME NEW g \in Fetcher
      PROVE  /\ NoRepeat(batch'[g]) /\ NoRepeat(fresh'[g])
             /\ On(batch'[g]) \cap On(fresh'[g]) = {}
             /\ pc'[g] \in {"cache", "announce"} => Current(g)' \in seenHashes'[ProcOf[g]]
  <2>1. CASE g = f
    BY <1>2, <1>3, <1>4, <2>1 DEF Apart
  <2>2. CASE g # f
    BY <1>3, <1>4, <2>2 DEF Apart, Current
  <2>. QED
    BY <2>1, <2>2
<1>. QED
  BY <1>2, <1>3, <1>4, <1>5 DEF Apart

\* Marking makes the process know the indicator in hand.
LEMMA ApartMark ==
  ASSUME Typed, Apart, NEW f \in Fetcher, MarkMemory(f)
  PROVE  /\ Apart'
         /\ \A p \in Proc : seenHashes[p] \subseteq seenHashes'[p]
<1>1. ProcOf \in [Fetcher -> Proc]
  BY IngestAssumption DEF IngestAssumption
<1>2. /\ \A p \in Proc : seenHashes[p] \subseteq seenHashes'[p]
      /\ Current(f) \in seenHashes'[ProcOf[f]]
      /\ UNCHANGED <<batch, fresh>> /\ \A g \in Fetcher : g # f => pc'[g] = pc[g]
  BY <1>1 DEF MarkMemory, Typed, Types
<1>3. ASSUME NEW g \in Fetcher, pc'[g] \in {"cache", "announce"}
      PROVE  Current(g)' \in seenHashes'[ProcOf[g]]
  <2>1. CASE g = f
    BY <1>2, <2>1 DEF Current
  <2>2. CASE g # f
    BY <1>1, <1>2, <1>3, <2>2 DEF Apart, Current
  <2>. QED
    BY <2>1, <2>2
<1>. QED
  BY <1>2, <1>3 DEF Apart

\* The lists stay apart through every step.
LEMMA ApartStep ==
  ASSUME ListsAreSets, Typed, Apart, [Next]_vars
  PROVE  Apart'
<1>1. CASE \E s \in Source : FetchFrom(s)
  <2>. PICK s \in Source : FetchFrom(s)
    BY <1>1
  <2>. PICK f \in Fetcher, b \in Feed[s] : Fetch(f, s, b)
    BY DEF FetchFrom
  <2>1. NoRepeat(b) /\ On(b) \cap On(<<>>) = {} /\ NoRepeat(<<>>)
    BY EmptyList DEF ListsAreSets
  <2>. QED
    BY <2>1 DEF Fetch, Apart, Current, Typed, Types
<1>2. ASSUME NEW f \in Fetcher, Process(f)
      PROVE  Apart'
  <2>1. CASE DedupHit(f) \/ DedupMiss(f) \/ DedupError(f)
    BY <2>1, ApartDedup
  <2>2. CASE Upsert(f) \/ SkipStore(f)
    BY <2>2 DEF Upsert, SkipStore, Apart, Current, Typed, Types
  <2>3. CASE UpsertFails(f) \/ PublishNewThreat(f)
    BY <2>3, ApartDrop
  <2>4. CASE MarkMemory(f)
    BY <2>4, ApartMark
  <2>5. CASE MarkCache(f)
    BY <2>5 DEF MarkCache, Apart, Current, Typed, Types
  <2>6. CASE FinishFetch(f)
    BY <2>6 DEF FinishFetch, Apart, Current, Typed, Types
  <2>. QED
    BY <1>2, <2>1, <2>2, <2>3, <2>4, <2>5, <2>6 DEF Process
<1>3. CASE \E h \in Hash : ExpireKey(h)
  BY <1>3 DEF ExpireKey, Apart, Current
<1>4. CASE \E p \in Proc : Restart(p)
  <2>. PICK p \in Proc : Restart(p)
    BY <1>4
  <2>. QED
    BY EmptyList, IngestAssumption
       DEF Restart, Apart, Current, Typed, Types, IngestAssumption
<1>5. CASE UNCHANGED vars
  BY <1>5 DEF vars, Apart, Current
<1>. QED
  BY <1>1, <1>2, <1>3, <1>4, <1>5 DEF Next

\* The counts that the bound is made of.
LEMMA SettledCounted ==
  ASSUME NEW h \in Hash
  PROVE  /\ Cardinality(Fetcher) \in Nat
         /\ IsFiniteSet(Settled(h)) /\ Cardinality(Settled(h)) \in Nat
         /\ Cardinality(Settled(h)) <= Cardinality(Fetcher)
<1>1. Settled(h) \subseteq Fetcher
  BY DEF Settled
<1>. QED
  BY <1>1, FetcherSubset

\* A step that announces nothing and unsettles no fetcher leaves all paid.
LEMMA PaidKept ==
  ASSUME Typed, Paid, announced' = announced, crashes' = crashes,
         \A h \in Hash : Settled(h) \subseteq Settled(h)'
  PROVE  Paid'
<1>. SUFFICES ASSUME NEW h \in Hash
              PROVE  announced[h] <= Cardinality(Fetcher) * crashes + Cardinality(Settled(h)')
  BY DEF Paid
<1>1. Settled(h) \subseteq Settled(h)' /\ Settled(h)' \subseteq Fetcher
  BY DEF Settled
<1>2. /\ Cardinality(Settled(h)) <= Cardinality(Settled(h)')
      /\ Cardinality(Settled(h)) \in Nat /\ Cardinality(Settled(h)') \in Nat
  BY <1>1, FetcherSubset
<1>3. announced[h] <= Cardinality(Fetcher) * crashes + Cardinality(Settled(h))
  BY DEF Paid
<1>. DEFINE earlier == Cardinality(Fetcher) * crashes
<1>4. earlier \in Int /\ announced[h] \in Int
  BY SettledCounted, IngestAssumption DEF IngestAssumption, Typed, Types
<1>. HIDE DEF earlier
<1>5. announced[h] <= earlier + Cardinality(Settled(h))
  BY <1>3 DEF earlier
<1>6. announced[h] <= earlier + Cardinality(Settled(h)')
  BY <1>2, <1>4, <1>5
<1>. QED
  BY <1>6 DEF earlier

\* What Deduplicate takes for new, the process does not know: no fetcher
\* that was settled with it comes to owe it again.
LEMMA PaidDedup ==
  ASSUME Typed, Paid, NEW f \in Fetcher, DedupHit(f) \/ DedupMiss(f) \/ DedupError(f)
  PROVE  Paid'
<1>1. UNCHANGED <<announced, crashes, seenHashes>>
  BY DEF DedupHit, DedupMiss, DedupError, NextToCheck
<1>2. ASSUME NEW h \in Hash, NEW g \in Settled(h)
      PROVE  g \in Settled(h)'
  <2>1. g \in Fetcher /\ h \in seenHashes[ProcOf[g]] /\ h \notin On(fresh[g])
    BY DEF Settled
  <2>2. CASE fresh'[g] = fresh[g]
    BY <1>1, <2>1, <2>2 DEF Settled, On
  <2>3. CASE fresh'[g] # fresh[g]
    <3>1. /\ g = f /\ fresh'[f] = Append(fresh[f], Checking(f))
          /\ Checking(f) \notin seenHashes[ProcOf[f]]
      BY <2>1, <2>3 DEF DedupHit, DedupMiss, DedupError, Typed, Types
    <3>2. fresh[f] \in Seq(Hash) /\ Checking(f) \in Hash
      BY CheckingTyped DEF DedupHit, DedupMiss, DedupError, Typed, Types
    <3>3. On(fresh'[f]) \subseteq On(fresh[f]) \cup {Checking(f)}
      BY <3>1, <3>2, AppendProperties DEF On
    <3>. QED
      BY <1>1, <2>1, <3>1, <3>3 DEF Settled
  <2>. QED
    BY <2>2, <2>3
<1>. QED
  BY <1>1, <1>2, PaidKept

\* An announcement is paid for by the fetcher that it settles.
LEMMA PaidPublish ==
  ASSUME Typed, Apart, Paid, NEW f \in Fetcher, PublishNewThreat(f)
  PROVE  Paid'
<1>1. /\ fresh' = [fresh EXCEPT ![f] = Tail(@)]
      /\ On(fresh'[f]) = On(fresh[f]) \ {Current(f)}
  BY ApartDrop
<1>2. /\ pc[f] = "announce" /\ fresh[f] \in Seq(Hash) /\ fresh[f] # <<>>
      /\ Current(f) \in Hash /\ UNCHANGED <<seenHashes, crashes>>
      /\ announced' = [announced EXCEPT ![Current(f)] = @ + 1]
  BY CurrentTyped DEF PublishNewThreat, Handling, Typed, Types, InHand
<1>3. Current(f) \in seenHashes[ProcOf[f]] /\ Current(f) \in On(fresh[f])
  BY <1>2, TailOfList DEF Apart, Current
<1>. SUFFICES ASSUME NEW h \in Hash
              PROVE  announced'[h] <= Cardinality(Fetcher) * crashes + Cardinality(Settled(h)')
  BY <1>2 DEF Paid
<1>4. \A g \in Fetcher : g # f => fresh'[g] = fresh[g]
  BY <1>1 DEF Typed, Types
<1>5. Settled(h) \subseteq Settled(h)'
  <2>. SUFFICES ASSUME NEW g \in Settled(h) PROVE g \in Settled(h)'
    OBVIOUS
  <2>1. CASE g = f
    BY <1>1, <1>2, <2>1 DEF Settled
  <2>2. CASE g # f
    BY <1>2, <1>4, <2>2 DEF Settled, On
  <2>. QED
    BY <2>1, <2>2
<1>6. Settled(h)' \subseteq Fetcher
  BY DEF Settled
<1>7. /\ IsFiniteSet(Settled(h)) /\ Cardinality(Settled(h)) \in Nat
      /\ Cardinality(Settled(h)') \in Nat /\ IsFiniteSet(Settled(h)')
      /\ Cardinality(Settled(h)) <= Cardinality(Settled(h)')
  BY <1>5, <1>6, FetcherSubset
<1>. DEFINE earlier == Cardinality(Fetcher) * crashes
<1>8. earlier \in Int /\ announced[h] \in Int
  BY SettledCounted, IngestAssumption DEF IngestAssumption, Typed, Types
<1>9. announced[h] <= earlier + Cardinality(Settled(h))
  BY DEF Paid
<1>. HIDE DEF earlier
<1>10. CASE h = Current(f)
  <2>1. f \notin Settled(h) /\ f \in Settled(h)'
    BY <1>1, <1>2, <1>3, <1>10 DEF Settled
  <2>2. Cardinality(Settled(h) \cup {f}) = Cardinality(Settled(h)) + 1
    BY <1>7, <2>1, FS_AddElement
  <2>3. Cardinality(Settled(h) \cup {f}) <= Cardinality(Settled(h)')
    BY <1>5, <1>6, <2>1, FetcherSubset
  <2>4. announced'[h] = announced[h] + 1
    BY <1>2, <1>10 DEF Typed, Types
  <2>5. announced'[h] <= earlier + Cardinality(Settled(h)')
    BY <1>7, <1>8, <1>9, <2>2, <2>3, <2>4
  <2>. QED
    BY <2>5 DEF earlier
<1>11. CASE h # Current(f)
  <2>1. announced'[h] = announced[h]
    BY <1>2, <1>11 DEF Typed, Types
  <2>2. announced'[h] <= earlier + Cardinality(Settled(h)')
    BY <1>7, <1>8, <1>9, <2>1
  <2>. QED
    BY <2>2 DEF earlier
<1>. QED
  BY <1>10, <1>11

\* A restart unsettles no more fetchers than there are.
LEMMA PaidRestart ==
  ASSUME Typed, Paid, NEW p \in Proc, Restart(p)
  PROVE  Paid'
<1>. SUFFICES ASSUME NEW h \in Hash
              PROVE  announced[h] <= Cardinality(Fetcher) * (crashes + 1) + Cardinality(Settled(h)')
  BY DEF Paid, Restart
<1>1. Settled(h)' \subseteq Fetcher
  BY DEF Settled
<1>2. Cardinality(Settled(h)') \in Nat
  BY <1>1, FetcherSubset
<1>3. /\ Cardinality(Fetcher) \in Nat /\ Cardinality(Settled(h)) \in Nat
      /\ Cardinality(Settled(h)) <= Cardinality(Fetcher)
  BY SettledCounted
<1>. DEFINE all == Cardinality(Fetcher)
            earlier == all * crashes
<1>4. crashes \in Nat /\ announced[h] \in Nat
  BY IngestAssumption DEF IngestAssumption, Typed, Types
<1>5. earlier \in Int /\ all * (crashes + 1) = earlier + all
  BY <1>3, <1>4
<1>6. announced[h] <= earlier + Cardinality(Settled(h))
  BY DEF Paid
<1>. HIDE DEF earlier
<1>7. announced[h] <= earlier + all + Cardinality(Settled(h)')
  BY <1>2, <1>3, <1>4, <1>5, <1>6
<1>. QED
  BY <1>5, <1>7

\* Every announcement stays paid for.
LEMMA PaidStep ==
  ASSUME Typed, Apart, Paid, [Next]_vars
  PROVE  Paid'
<1>1. CASE \E s \in Source : FetchFrom(s)
  <2>. PICK s \in Source : FetchFrom(s)
    BY <1>1
  <2>. PICK f \in Fetcher, b \in Feed[s] : Fetch(f, s, b)
    BY DEF FetchFrom
  <2>1. /\ UNCHANGED <<announced, crashes, seenHashes>>
        /\ \A g \in Fetcher : fresh'[g] \in {fresh[g], <<>>}
    BY DEF Fetch, Typed, Types
  <2>2. \A h \in Hash : Settled(h) \subseteq Settled(h)'
    BY <2>1, EmptyList DEF Settled
  <2>. QED
    BY <2>1, <2>2, PaidKept
<1>2. ASSUME NEW f \in Fetcher, Process(f)
      PROVE  Paid'
  <2>1. CASE DedupHit(f) \/ DedupMiss(f) \/ DedupError(f)
    BY <2>1, PaidDedup
  <2>2. CASE UpsertFails(f)
    <3>1. /\ fresh' = [fresh EXCEPT ![f] = Tail(@)]
          /\ On(fresh'[f]) \subseteq On(fresh[f])
      BY <2>2, ApartDrop
    <3>2. \A g \in Fetcher : On(fresh'[g]) \subseteq On(fresh[g])
      BY <3>1 DEF Typed, Types
    <3>3. UNCHANGED <<announced, crashes, seenHashes>>
      BY <2>2 DEF UpsertFails
    <3>4. \A h \in Hash : Settled(h) \subseteq Settled(h)'
      BY <3>2, <3>3 DEF Settled
    <3>. QED
      BY <3>3, <3>4, PaidKept
  <2>3. CASE MarkMemory(f)
    <3>1. UNCHANGED <<announced, crashes, fresh>>
      BY <2>3 DEF MarkMemory
    <3>2. \A p \in Proc : seenHashes[p] \subseteq seenHashes'[p]
      BY <2>3, ApartMark
    <3>3. \A h \in Hash : Settled(h) \subseteq Settled(h)'
      BY <3>1, <3>2, IngestAssumption DEF Settled, IngestAssumption
    <3>. QED
      BY <3>1, <3>3, PaidKept
  <2>4. CASE PublishNewThreat(f)
    BY <2>4, PaidPublish
  <2>5. CASE Upsert(f) \/ SkipStore(f) \/ MarkCache(f) \/ FinishFetch(f)
    BY <2>5, PaidKept DEF Upsert, SkipStore, MarkCache, FinishFetch, Settled
  <2>. QED
    BY <1>2, <2>1, <2>2, <2>3, <2>4, <2>5 DEF Process
<1>3. CASE \E h \in Hash : ExpireKey(h)
  BY <1>3, PaidKept DEF ExpireKey, Settled
<1>4. CASE \E p \in Proc : Restart(p)
  BY <1>4, PaidRestart
<1>5. CASE UNCHANGED vars
  BY <1>5, PaidKept DEF vars, Settled
<1>. QED
  BY <1>1, <1>2, <1>3, <1>4, <1>5 DEF Next

\* Nothing is announced at the start.
LEMMA InitPaid == Init => Apart /\ Paid
<1>. SUFFICES ASSUME Init PROVE Apart /\ Paid
  OBVIOUS
<1>1. Apart
  BY EmptyList DEF Init, Apart
<1>2. Paid
  <2>. SUFFICES ASSUME NEW h \in Hash
                PROVE  announced[h] <= Cardinality(Fetcher) * crashes + Cardinality(Settled(h))
    BY DEF Paid
  <2>1. announced[h] = 0 /\ Cardinality(Fetcher) * crashes = 0
    BY SettledCounted DEF Init
  <2>. QED
    BY <2>1, SettledCounted
<1>. QED
  BY <1>1, <1>2

(***************************************************************************)
(* Where no list repeats a value, one life of a process announces an       *)
(* indicator at most once per fetcher, whatever the caches forget.         *)
(***************************************************************************)
THEOREM AnnouncementsAreAlwaysBounded ==
  ASSUME ListsAreSets
  PROVE  Spec => []AnnouncementsAreBounded
<1>1. Init => Apart /\ Paid
  BY InitPaid
<1>2. Typed /\ Apart /\ Paid /\ [Next]_vars => Apart' /\ Paid'
  BY ApartStep, PaidStep
<1>3. Typed /\ Paid => AnnouncementsAreBounded
  <2>. SUFFICES ASSUME Typed, Paid, NEW h \in Hash
                PROVE  announced[h] <= Cardinality(Fetcher) * (1 + crashes)
    BY DEF AnnouncementsAreBounded
  <2>. DEFINE all == Cardinality(Fetcher)
              earlier == all * crashes
  <2>1. crashes \in Nat /\ announced[h] \in Nat
    BY IngestAssumption DEF IngestAssumption, Typed, Types
  <2>2. all \in Nat /\ Cardinality(Settled(h)) \in Nat /\ Cardinality(Settled(h)) <= all
    BY SettledCounted
  <2>3. earlier \in Int /\ all * (1 + crashes) = earlier + all
    BY <2>1, <2>2
  <2>4. announced[h] <= earlier + Cardinality(Settled(h))
    BY DEF Paid
  <2>. HIDE DEF earlier
  <2>5. announced[h] <= earlier + all
    BY <2>1, <2>2, <2>3, <2>4
  <2>. QED
    BY <2>3, <2>5
<1>. QED
  BY <1>1, <1>2, <1>3, AlwaysTyped, PTL DEF Spec

=============================================================================
