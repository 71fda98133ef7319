----------------------------- MODULE WorkerLock -----------------------------
(***************************************************************************)
(* The lease by which the aggregator workers (cmd/aggregator/main.go) take *)
(* turns: one Redis key with a time to live and no owner, taken before a   *)
(* run, extended every minute by a goroutine of its own while the run      *)
(* lasts, and deleted after it.                                            *)
(*                                                                         *)
(* Time is counted in periods of that goroutine's ticker.  The goroutine,  *)
(* a release and a shutdown each do their work within the period they are  *)
(* due in; a run may last for any number of periods.                       *)
(***************************************************************************)
EXTENDS Integers

CONSTANTS
  Worker,          \* worker processes
  LockTTL,         \* lockTTL, in periods of lockRefresh
  MaxMisses,       \* failing refreshes in a row
  MaxFailedCalls,  \* bound: other failing Redis calls
  MaxShutdowns,    \* bound: workers shut down, and started again
  MaxWorkerCrashes \* bound: workers crashed, and started again

\* A refresh gets through before the key can expire.
ASSUME LeaseAssumption ==
  /\ {LockTTL, MaxMisses} \subseteq Nat
  /\ {MaxFailedCalls, MaxShutdowns, MaxWorkerCrashes} \subseteq Nat
  /\ MaxMisses + 1 < LockTTL

VARIABLES
  ttl,        \* time left to the key; 0 when there is none
  st,         \* st[w]: what runWithLockAndRetry of w is doing
  shutdown,   \* shutdown[w]: the context of w is cancelled
  refresher,  \* refresher[w]: refreshLock is alive
  refreshDue, \* refreshDue[w]: its ticker has fired, and Expire is to come
  misses,     \* misses[w]: Expire calls that failed since one got through
  failedCalls, shutdowns, workerCrashes

leaseVars ==
  <<ttl, st, shutdown, refresher, refreshDue, misses, failedCalls, shutdowns,
    workerCrashes>>

LeaseTypeOK ==
  /\ ttl \in 0 .. LockTTL
  /\ st \in [Worker -> {"waiting", "running", "releasing"}]
  /\ shutdown \in [Worker -> BOOLEAN]
  /\ refresher \in [Worker -> BOOLEAN]
  /\ refreshDue \in [Worker -> BOOLEAN]
  /\ misses \in [Worker -> 0 .. MaxMisses]
  /\ failedCalls \in 0 .. MaxFailedCalls
  /\ shutdowns \in 0 .. MaxShutdowns
  /\ workerCrashes \in 0 .. MaxWorkerCrashes

LeaseInit ==
  /\ ttl = 0
  /\ st = [w \in Worker |-> "waiting"]
  /\ shutdown = [w \in Worker |-> FALSE]
  /\ refresher = [w \in Worker |-> FALSE]
  /\ refreshDue = [w \in Worker |-> FALSE]
  /\ misses = [w \in Worker |-> 0]
  /\ failedCalls = 0 /\ shutdowns = 0 /\ workerCrashes = 0

CallFails == failedCalls < MaxFailedCalls /\ failedCalls' = failedCalls + 1

(***************************************************************************)
(* Plausible slips, each an alternative form of the definition its comment *)
(* names.                                                                  *)
(***************************************************************************)

\* Expire of a key name without its prefix.
ExpireNothing == ttl' = ttl

\* Complete that leaves the refresh goroutine alive.
CompleteAlone(w) ==
  /\ st[w] = "running"
  /\ st' = [st EXCEPT ![w] = "releasing"]
  /\ UNCHANGED <<ttl, shutdown, refresher, refreshDue, misses, failedCalls,
                 shutdowns, workerCrashes>>

(***************************************************************************)
(* The worker.                                                             *)
(***************************************************************************)

\* AcquireLock sets the key if there is none; when there is one, the worker
\* waits for its next ticker, which changes nothing.
AcquireLease(w) ==
  /\ st[w] = "waiting" /\ ~shutdown[w] /\ ttl = 0
  /\ ttl' = LockTTL
  /\ st' = [st EXCEPT ![w] = "running"]
  /\ refresher' = [refresher EXCEPT ![w] = TRUE]
  /\ refreshDue' = [refreshDue EXCEPT ![w] = FALSE]
  /\ misses' = [misses EXCEPT ![w] = 0]
  /\ UNCHANGED <<shutdown, failedCalls, shutdowns, workerCrashes>>

\* The key is set, but the answer is an error: nobody runs.
AcquireLost(w) ==
  /\ st[w] = "waiting" /\ ~shutdown[w] /\ ttl = 0
  /\ CallFails
  /\ ttl' = LockTTL
  /\ UNCHANGED <<st, shutdown, refresher, refreshDue, misses, shutdowns,
                 workerCrashes>>

\* The run ends, with or without an error; lockCancel stops the goroutine,
\* but not an Expire already under way.
Complete(w) ==
  /\ st[w] = "running"
  /\ st' = [st EXCEPT ![w] = "releasing"]
  /\ refresher' = [refresher EXCEPT ![w] = FALSE]
  /\ UNCHANGED <<ttl, shutdown, refreshDue, misses, failedCalls, shutdowns,
                 workerCrashes>>

\* ReleaseLock deletes the key; it fails with the call, and always fails
\* once the context is cancelled.
ReleaseLease(w) ==
  /\ st[w] = "releasing"
  /\ \/ ~shutdown[w] /\ ttl' = 0 /\ UNCHANGED failedCalls
     \/ shutdown[w] /\ UNCHANGED <<ttl, failedCalls>>
     \/ CallFails /\ UNCHANGED ttl
  /\ st' = [st EXCEPT ![w] = "waiting"]
  /\ UNCHANGED <<shutdown, refresher, refreshDue, misses, shutdowns,
                 workerCrashes>>

\* EXPIRE extends whatever key it finds, and does nothing without one.
ExpireKey == ttl' = IF ttl > 0 THEN LockTTL ELSE 0

Refresh(w) ==
  /\ refreshDue[w]
  /\ refreshDue' = [refreshDue EXCEPT ![w] = FALSE]
  /\ \/ ExpireKey /\ misses' = [misses EXCEPT ![w] = 0]
     \/ /\ misses[w] < MaxMisses
        /\ misses' = [misses EXCEPT ![w] = @ + 1]
        /\ UNCHANGED ttl
  /\ UNCHANGED <<st, shutdown, refresher, failedCalls, shutdowns,
                 workerCrashes>>

\* An Expire that does not happen any more, its context being cancelled.
DropRefresh(w) ==
  /\ refreshDue[w] /\ ~refresher[w]
  /\ refreshDue' = [refreshDue EXCEPT ![w] = FALSE]
  /\ UNCHANGED <<ttl, st, shutdown, refresher, misses, failedCalls, shutdowns,
                 workerCrashes>>

\* SIGTERM cancels the context, the goroutine's with it.
ShutDown(w) ==
  /\ ~shutdown[w] /\ shutdowns < MaxShutdowns
  /\ shutdowns' = shutdowns + 1
  /\ shutdown' = [shutdown EXCEPT ![w] = TRUE]
  /\ refresher' = [refresher EXCEPT ![w] = FALSE]
  /\ UNCHANGED <<ttl, st, refreshDue, misses, failedCalls, workerCrashes>>

StartAgain(w) ==
  /\ st' = [st EXCEPT ![w] = "waiting"]
  /\ shutdown' = [shutdown EXCEPT ![w] = FALSE]
  /\ refresher' = [refresher EXCEPT ![w] = FALSE]
  /\ refreshDue' = [refreshDue EXCEPT ![w] = FALSE]
  /\ misses' = [misses EXCEPT ![w] = 0]

\* Two seconds after the signal main returns, done or not.
Exit(w) ==
  /\ shutdown[w]
  /\ StartAgain(w)
  /\ UNCHANGED <<ttl, failedCalls, shutdowns, workerCrashes>>

WorkerCrash(w) ==
  /\ workerCrashes < MaxWorkerCrashes
  /\ workerCrashes' = workerCrashes + 1
  /\ StartAgain(w)
  /\ UNCHANGED <<ttl, failedCalls, shutdowns>>

\* A period passes: no refresh, release or shutdown is left for the next.
Tick ==
  /\ \A w \in Worker : ~refreshDue[w] /\ st[w] # "releasing" /\ ~shutdown[w]
  /\ ttl' = IF ttl > 0 THEN ttl - 1 ELSE 0
  /\ refreshDue' = refresher
  /\ UNCHANGED <<st, shutdown, refresher, misses, failedCalls, shutdowns,
                 workerCrashes>>

Settle(w) == ReleaseLease(w) \/ Refresh(w) \/ DropRefresh(w) \/ Exit(w)

LeaseNext ==
  \/ \E w \in Worker :
       \/ AcquireLease(w) \/ AcquireLost(w) \/ Complete(w) \/ Settle(w)
       \/ ShutDown(w) \/ WorkerCrash(w)
  \/ Tick

LeaseSpec == LeaseInit /\ [][LeaseNext]_leaseVars

\* Tickers fire, runs end, Redis answers and time passes.
LeaseFairness ==
  /\ WF_leaseVars(Tick)
  /\ \A w \in Worker :
       /\ WF_leaseVars(AcquireLease(w))
       /\ WF_leaseVars(Complete(w)) /\ WF_leaseVars(Settle(w))

FairLeaseSpec == LeaseSpec /\ LeaseFairness

-----------------------------------------------------------------------------
(***************************************************************************)
(* "another worker is running, skipping" (main.go:204): two workers never  *)
(* run at the same time, however long a run lasts, whatever release finds  *)
(* the key of another worker, and although a key has no owner.             *)
(***************************************************************************)
MutualExclusion ==
  \A v, w \in Worker : st[v] = "running" /\ st[w] = "running" => v = w

(***************************************************************************)
(* A worker has the key from its acquisition to its release, so the        *)
(* release deletes no other worker's key; and while the key is refreshed,  *)
(* it outlives every refresh that may still fail.                          *)
(***************************************************************************)
Budget(w) == LockTTL - misses[w] - (IF refreshDue[w] THEN 1 ELSE 0)

LeaseIsCovered ==
  \A w \in Worker : st[w] # "waiting" =>
    /\ ttl > 0
    /\ refresher[w] => ttl >= Budget(w)

(***************************************************************************)
(* No crash, shutdown, lost answer or failed release locks the workers out *)
(* for good: some worker runs again and again.                             *)
(***************************************************************************)
NoLockout == []<>(\E w \in Worker : st[w] = "running")
=============================================================================
