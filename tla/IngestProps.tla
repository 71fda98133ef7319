----------------------------- MODULE IngestProps -----------------------------
(***************************************************************************)
(* What the ingestion pipeline must get right.                             *)
(***************************************************************************)
EXTENDS Ingest

(***************************************************************************)
(* "Mark as seen AFTER successful storage to avoid losing data on storage  *)
(* failures" (aggregator.go:487).  A process that has a database takes a   *)
(* hash for already seen by its own memory only when the indicator has a   *)
(* row.  Where there is no database the order protects nothing: such a     *)
(* process remembers, and tells the others through Redis, indicators that  *)
(* have none; but nobody ever vouches for an indicator that was neither    *)
(* stored nor handled there.                                               *)
(***************************************************************************)
SeenIsStored ==
  /\ \A p \in connected : seenHashes[p] \subseteq Stored
  /\ \A p \in Proc : seenHashes[p] \subseteq Stored \cup Passed
  /\ dedupKeys \subseteq Stored \cup Passed

(***************************************************************************)
(* Every "new threat" event rests on a write of its own, or on one of the  *)
(* times the indicator was handled without a database: however fetches     *)
(* overlap, fail or restart, a failed or unanswered write is not           *)
(* announced, and no write is announced twice.                             *)
(***************************************************************************)
AnnouncementsAreBacked == \A h \in Hash : announced[h] <= rows[h] + rowless[h]

(***************************************************************************)
(* The two caches do not stop two concurrent fetches from taking the same  *)
(* indicator for new, but they bound the damage: as long as no single list *)
(* repeats a value, one life of a process announces an indicator at most   *)
(* once per fetcher, however long the process fetches, whatever Redis      *)
(* drops or refuses.                                                       *)
(***************************************************************************)
AnnouncementsAreBounded ==
  \A h \in Hash : announced[h] <= Cardinality(Fetcher) * (1 + crashes)

(***************************************************************************)
(* Every step of the pipeline is a step of the catalog: rows are never     *)
(* lost, skipped indicators are stored ones, announced ones too, but for   *)
(* those handled without a database.                                       *)
(***************************************************************************)
Catalog == INSTANCE IndicatorCatalog WITH
  stored <- Stored,
  passed <- Passed,
  skipped <- dedupKeys \cup UNION {seenHashes[p] : p \in Proc},
  announced <- {h \in Hash : announced[h] > 0}

ImplementsCatalog == Catalog!Spec

(***************************************************************************)
(* An indicator that is in every list some source serves is stored in the  *)
(* end, if from some time on there is always a process that has a          *)
(* database: a failed write, a lost answer, a restart or a dropped key     *)
(* only delays it, and so does a process without a database, whose key in  *)
(* Redis keeps the others from storing the indicator until it expires.     *)
(***************************************************************************)
AlwaysServed ==
  {h \in Hash : \E s \in Source : \A b \in Feed[s] : h \in {b[i] : i \in DOMAIN b}}

ServedIsStored ==
  <>[](connected # {}) => \A h \in AlwaysServed : <>(h \in Stored)

(***************************************************************************)
(* No written row stays behind the sync version for ever ("incremented by  *)
(* the aggregator on data changes", intelligence.go:337): a fetch cut      *)
(* short between its write and IncrementSyncVersion, or a refused          *)
(* increment, is made up for by a later fetch.                             *)
(***************************************************************************)
RowsAreSynced == \A h \in Hash : h \in unsynced ~> h \notin unsynced
=============================================================================
