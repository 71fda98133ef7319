------------------------------- MODULE Ingest -------------------------------
(***************************************************************************)
(* The threat-intelligence ingestion pipeline: Aggregator.fetchFromSource  *)
(* and fetchFromSourceWithDB over the Deduplicator, the indicators table   *)
(* and Redis (backend/internal/domain/services/aggregator.go and           *)
(* deduplicator.go).                                                       *)
(*                                                                         *)
(* A fetcher is one goroutine that is fetching: a worker of the pool of    *)
(* runAllSources, the due-sources loop, the scheduler loop, or a goroutine *)
(* started by an admin request.  Nothing keeps two of them off the same    *)
(* source.  Fetchers live in operating-system processes (the API server    *)
(* and the aggregator worker); every process has its own in-memory set of  *)
(* seen hashes, and all of them share Postgres and Redis.                  *)
(*                                                                         *)
(* A process that cannot reach Postgres when it starts goes on without a   *)
(* database for the rest of its life ("continuing without database"): its  *)
(* aggregator has no repository, and every statement is left out.          *)
(*                                                                         *)
(* One step is one call on shared state: the lock-protected map, one Redis *)
(* command, one SQL statement, one publication.                            *)
(***************************************************************************)
EXTENDS Integers, Sequences, FiniteSets

CONSTANTS
  Hash,        \* value hashes of indicators
  Source,      \* configured connectors
  Proc,        \* operating-system processes
  Fetcher,     \* goroutines that fetch
  ProcOf,      \* ProcOf[f]: the process fetcher f runs in
  Feed,        \* Feed[s]: the non-empty lists source s may serve, normalized
  MaxFaults,   \* bound on failed Redis and Postgres calls
  MaxCrashes   \* bound on process restarts

ASSUME IngestAssumption ==
  /\ IsFiniteSet(Fetcher)
  /\ ProcOf \in [Fetcher -> Proc]
  /\ Feed \in [Source -> SUBSET (Seq(Hash) \ {<<>>})]
  /\ MaxFaults \in Nat
  /\ MaxCrashes \in Nat

VARIABLES
  rows,        \* rows[h]: source_count of the row of h, 0 when there is none
  connected,   \* the processes that found Postgres when they started
  rowless,     \* rowless[h]: how often h was handled without a repository
  seenHashes,  \* seenHashes[p]: Deduplicator.seenHashes of process p
  dedupKeys,   \* the hashes whose "dedup:" key is in Redis
  announced,   \* announced[h]: how many "new threat" events were sent for h
  unsynced,    \* rows written since the sync version last moved
  pc,          \* where each fetcher is
  batch,       \* batch[f]: what Deduplicate has still to look at
  fresh,       \* fresh[f]: NewIndicators, those still to be handled
  faults,      \* failed calls so far
  crashes      \* process restarts so far

vars == <<rows, connected, rowless, seenHashes, dedupKeys, announced, unsynced,
          pc, batch, fresh, faults, crashes>>

\* Where a fetcher that has just written a row stands with that row.
Handling == {"mark", "cache", "announce"}
Location == {"idle", "dedup", "store"} \cup Handling

Stored == {h \in Hash : rows[h] > 0}
Passed == {h \in Hash : rowless[h] > 0}

\* The hash a fetcher is deduplicating, and the one it is storing.
Checking(f) == Head(batch[f])
Current(f)  == Head(fresh[f])

Types ==
  /\ rows \in [Hash -> Nat]
  /\ connected \in SUBSET Proc
  /\ rowless \in [Hash -> Nat]
  /\ seenHashes \in [Proc -> SUBSET Hash]
  /\ dedupKeys \in SUBSET Hash
  /\ announced \in [Hash -> Nat]
  /\ unsynced \in SUBSET Hash
  /\ pc \in [Fetcher -> Location]
  /\ batch \in [Fetcher -> Seq(Hash)]
  /\ fresh \in [Fetcher -> Seq(Hash)]
  /\ faults \in 0..MaxFaults
  /\ crashes \in 0..MaxCrashes

\* The loops never look past their lists.
TypeOK ==
  /\ Types
  /\ \A f \in Fetcher :
       /\ pc[f] = "dedup" => batch[f] # <<>>
       /\ pc[f] \in Handling => fresh[f] # <<>>

Init ==
  /\ rows = [h \in Hash |-> 0]
  /\ connected \in SUBSET Proc
  /\ rowless = [h \in Hash |-> 0]
  /\ seenHashes = [p \in Proc |-> {}]
  /\ dedupKeys = {}
  /\ announced = [h \in Hash |-> 0]
  /\ unsynced = {}
  /\ pc = [f \in Fetcher |-> "idle"]
  /\ batch = [f \in Fetcher |-> <<>>]
  /\ fresh = [f \in Fetcher |-> <<>>]
  /\ faults = 0
  /\ crashes = 0

(***************************************************************************)
(* Faults.  A call on Redis or Postgres either works, or fails and uses up *)
(* one of the MaxFaults failures.                                          *)
(***************************************************************************)
CallWorks == faults' = faults

CallFails ==
  /\ faults < MaxFaults
  /\ faults' = faults + 1

(***************************************************************************)
(* Plausible slips of this code, each an alternative form of the           *)
(* definition named in its comment.                                        *)
(***************************************************************************)

\* DedupMiss marking the hash as seen at once, before it is stored.
MarkOnMiss(f) ==
  /\ pc[f] = "dedup"
  /\ Checking(f) \notin seenHashes[ProcOf[f]] \cup dedupKeys
  /\ fresh' = [fresh EXCEPT ![f] = Append(@, Checking(f))]
  /\ batch' = [batch EXCEPT ![f] = Tail(@)]
  /\ seenHashes' = [seenHashes EXCEPT ![ProcOf[f]] = @ \cup {Checking(f)}]
  /\ pc' = [pc EXCEPT ![f] = IF Tail(batch[f]) = <<>> THEN "store" ELSE "dedup"]
  /\ CallWorks
  /\ UNCHANGED <<rows, connected, rowless, dedupKeys, announced, unsynced, crashes>>

\* UpsertFails without the `continue`: the indicator is handled all the same.
FailThrough(f) ==
  /\ pc[f] = "store" /\ fresh[f] # <<>>
  /\ ProcOf[f] \in connected
  /\ pc' = [pc EXCEPT ![f] = "mark"]
  /\ CallFails
  /\ UNCHANGED <<rows, connected, rowless, seenHashes, dedupKeys, announced, unsynced,
                 batch, fresh, crashes>>

\* MarkMemory relying on Redis alone.
MarkNothing(f) ==
  /\ pc[f] = "mark"
  /\ pc' = [pc EXCEPT ![f] = "cache"]
  /\ UNCHANGED <<rows, connected, rowless, seenHashes, dedupKeys, announced, unsynced,
                 batch, fresh, faults, crashes>>

\* FinishFetch that forgets the sync version.
FinishQuietly(f) ==
  /\ pc[f] = "store" /\ fresh[f] = <<>>
  /\ pc' = [pc EXCEPT ![f] = "idle"]
  /\ CallWorks
  /\ UNCHANGED <<rows, connected, rowless, seenHashes, dedupKeys, announced, unsynced,
                 batch, fresh, crashes>>

(***************************************************************************)
(* Fetching and deduplication.                                             *)
(***************************************************************************)

\* The connector answers with list b.  A fetch that fails, or that returns
\* an empty list, ends here and leaves this part of the state alone.
Fetch(f, s, b) ==
  /\ pc[f] = "idle"
  /\ b \in Feed[s]
  /\ batch' = [batch EXCEPT ![f] = b]
  /\ fresh' = [fresh EXCEPT ![f] = <<>>]
  /\ pc' = [pc EXCEPT ![f] = "dedup"]
  /\ UNCHANGED <<rows, connected, rowless, seenHashes, dedupKeys, announced, unsynced,
                 faults, crashes>>

\* One turn of the loop of Deduplicate is over.
NextToCheck(f) ==
  /\ batch' = [batch EXCEPT ![f] = Tail(@)]
  /\ pc' = [pc EXCEPT ![f] = IF Tail(batch[f]) = <<>> THEN "store" ELSE "dedup"]
  /\ UNCHANGED <<rows, connected, rowless, seenHashes, dedupKeys, announced, unsynced, crashes>>

\* Found in memory, or not there but found in Redis: an existing indicator,
\* which nothing further is done with.
DedupHit(f) ==
  /\ pc[f] = "dedup"
  /\ Checking(f) \in seenHashes[ProcOf[f]] \cup dedupKeys
  /\ CallWorks
  /\ UNCHANGED fresh
  /\ NextToCheck(f)

DedupMiss(f) ==
  /\ pc[f] = "dedup"
  /\ Checking(f) \notin seenHashes[ProcOf[f]] \cup dedupKeys
  /\ fresh' = [fresh EXCEPT ![f] = Append(@, Checking(f))]
  /\ CallWorks
  /\ NextToCheck(f)

\* Redis is asked only when the memory does not know the hash; when it
\* fails, the indicator is taken to be new.
DedupError(f) ==
  /\ pc[f] = "dedup"
  /\ Checking(f) \notin seenHashes[ProcOf[f]]
  /\ fresh' = [fresh EXCEPT ![f] = Append(@, Checking(f))]
  /\ CallFails
  /\ NextToCheck(f)

(***************************************************************************)
(* Storing, remembering and announcing, one new indicator at a time.       *)
(***************************************************************************)

WriteRow(h) ==
  /\ rows' = [rows EXCEPT ![h] = @ + 1]
  /\ unsynced' = unsynced \cup {h}

HasRepository(f) == ProcOf[f] \in connected

Upsert(f) ==
  /\ pc[f] = "store" /\ fresh[f] # <<>>
  /\ HasRepository(f)
  /\ WriteRow(Current(f))
  /\ pc' = [pc EXCEPT ![f] = "mark"]
  /\ CallWorks
  /\ UNCHANGED <<connected, rowless, seenHashes, dedupKeys, announced,
                 batch, fresh, crashes>>

\* An error from Postgres skips the indicator.  The statement may have been
\* committed all the same, when it is the answer that was lost.
UpsertFails(f) ==
  /\ pc[f] = "store" /\ fresh[f] # <<>>
  /\ HasRepository(f)
  /\ \/ WriteRow(Current(f))
     \/ UNCHANGED <<rows, unsynced>>
  /\ fresh' = [fresh EXCEPT ![f] = Tail(@)]
  /\ CallFails
  /\ UNCHANGED <<connected, rowless, seenHashes, dedupKeys, announced,
                 pc, batch, crashes>>

\* Without a repository nothing is written, and the indicator is marked and
\* announced all the same.
SkipStore(f) ==
  /\ pc[f] = "store" /\ fresh[f] # <<>>
  /\ ~ HasRepository(f)
  /\ rowless' = [rowless EXCEPT ![Current(f)] = @ + 1]
  /\ pc' = [pc EXCEPT ![f] = "mark"]
  /\ UNCHANGED <<rows, connected, seenHashes, dedupKeys, announced, unsynced,
                 batch, fresh, faults, crashes>>

\* MarkSeen, its first half: the process's own map.
MarkMemory(f) ==
  /\ pc[f] = "mark"
  /\ seenHashes' = [seenHashes EXCEPT ![ProcOf[f]] = @ \cup {Current(f)}]
  /\ pc' = [pc EXCEPT ![f] = "cache"]
  /\ UNCHANGED <<rows, connected, rowless, dedupKeys, announced, unsynced,
                 batch, fresh, faults, crashes>>

\* MarkSeen, its second half: the shared key, whose failure is only logged.
MarkCache(f) ==
  /\ pc[f] = "cache"
  /\ \/ dedupKeys' = dedupKeys \cup {Current(f)} /\ CallWorks
     \/ dedupKeys' = dedupKeys /\ CallFails
  /\ pc' = [pc EXCEPT ![f] = "announce"]
  /\ UNCHANGED <<rows, connected, rowless, seenHashes, announced, unsynced, batch, fresh, crashes>>

PublishNewThreat(f) ==
  /\ pc[f] = "announce"
  /\ announced' = [announced EXCEPT ![Current(f)] = @ + 1]
  /\ fresh' = [fresh EXCEPT ![f] = Tail(@)]
  /\ pc' = [pc EXCEPT ![f] = "store"]
  /\ UNCHANGED <<rows, connected, rowless, seenHashes, dedupKeys, unsynced, batch, faults, crashes>>

\* Every new indicator has been dealt with: the sync version moves on, unless
\* Redis fails, which nobody looks at.
FinishFetch(f) ==
  /\ pc[f] = "store" /\ fresh[f] = <<>>
  /\ \/ unsynced' = {} /\ CallWorks
     \/ unsynced' = unsynced /\ CallFails
  /\ pc' = [pc EXCEPT ![f] = "idle"]
  /\ UNCHANGED <<rows, connected, rowless, seenHashes, dedupKeys, announced, batch, fresh, crashes>>

(***************************************************************************)
(* The environment.                                                        *)
(***************************************************************************)

\* Redis drops the key 24 hours after it was set.
ExpireKey(h) ==
  /\ h \in dedupKeys
  /\ dedupKeys' = dedupKeys \ {h}
  /\ UNCHANGED <<rows, connected, rowless, seenHashes, announced, unsynced,
                 pc, batch, fresh, faults, crashes>>

\* A process stops wherever its fetchers are and starts again with an empty
\* memory; nothing loads the stored hashes back into it.  It may find
\* Postgres this time, or not.
Restart(p) ==
  /\ crashes < MaxCrashes
  /\ crashes' = crashes + 1
  /\ connected' \in {connected \cup {p}, connected \ {p}}
  /\ seenHashes' = [seenHashes EXCEPT ![p] = {}]
  /\ pc' = [f \in Fetcher |-> IF ProcOf[f] = p THEN "idle" ELSE pc[f]]
  /\ batch' = [f \in Fetcher |-> IF ProcOf[f] = p THEN <<>> ELSE batch[f]]
  /\ fresh' = [f \in Fetcher |-> IF ProcOf[f] = p THEN <<>> ELSE fresh[f]]
  /\ UNCHANGED <<rows, rowless, dedupKeys, announced, unsynced, faults>>

-----------------------------------------------------------------------------
FetchFrom(s) == \E f \in Fetcher, b \in Feed[s] : Fetch(f, s, b)

\* The same by a fetcher that can store what it gets.
FetchToStore(s) == \E f \in Fetcher, b \in Feed[s] : HasRepository(f) /\ Fetch(f, s, b)

Process(f) ==
  \/ DedupHit(f) \/ DedupMiss(f) \/ DedupError(f)
  \/ Upsert(f) \/ UpsertFails(f) \/ SkipStore(f)
  \/ MarkMemory(f) \/ MarkCache(f) \/ PublishNewThreat(f)
  \/ FinishFetch(f)

Next ==
  \/ \E s \in Source : FetchFrom(s)
  \/ \E f \in Fetcher : Process(f)
  \/ \E h \in Hash : ExpireKey(h)
  \/ \E p \in Proc : Restart(p)

Spec == Init /\ [][Next]_vars

\* A running goroutine goes on running; the tickers bring every enabled
\* source's turn round again and again, also among the processes that have a
\* database, as long as there is one; Redis honours its TTL.  Restarts and
\* failures owe nothing.
Fairness ==
  /\ \A f \in Fetcher : WF_vars(Process(f))
  /\ \A s \in Source : SF_vars(FetchFrom(s)) /\ SF_vars(FetchToStore(s))
  /\ \A h \in Hash : WF_vars(ExpireKey(h))

FairSpec == Spec /\ Fairness
=============================================================================
