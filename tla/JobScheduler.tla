---------------------------- MODULE JobScheduler ----------------------------
(***************************************************************************)
(* The job scheduler of the API replicas (scheduler.go): every replica     *)
(* keeps its own job table in memory, starts it with one fetch job per     *)
(* enabled connector, looks every minute for jobs that have come due, and  *)
(* runs them one after another.  A run takes the Redis key job:<source>    *)
(* first, which carries no owner and a time to live of ten minutes, and    *)
(* ends by scheduling the next job of its source.                          *)
(*                                                                         *)
(* Completed and failed jobs stay in the code's table for good but are     *)
(* never looked at again; here their ids become free.  Time is left out: a *)
(* pending job comes due at some moment, and a key expires at some moment, *)
(* under a run that still relies on it too: a fetch has no time limit and  *)
(* nothing refreshes its key.                                              *)
(***************************************************************************)
EXTENDS Integers, FiniteSets

CONSTANTS
  Replica,     \* API processes
  Called,      \* those that ScheduleNow and CancelJob reach
  Connector,   \* enabled connectors
  JobId,       \* ids of the jobs one replica remembers at a time
  NoJob,
  MaxOverruns, \* bound: keys that expire while a source is being run
  MaxNow,      \* bound: ScheduleNow calls per replica and source
  MaxCancels,  \* bound: successful CancelJob calls per replica and source
  MaxCrashes,  \* bound: replicas lost and restarted
  MaxFaults    \* bound: failing Redis calls

ASSUME SchedulerAssumption ==
  /\ IsFiniteSet(Replica) /\ IsFiniteSet(Connector) /\ IsFiniteSet(JobId)
  /\ Called \subseteq Replica
  /\ Cardinality(Connector) <= Cardinality(JobId)
  /\ NoJob \notin JobId
  /\ {MaxOverruns, MaxNow, MaxCancels, MaxCrashes, MaxFaults} \subseteq Nat

VARIABLES
  job,        \* job[r]: the job table of replica r
  due,        \* due[r]: its jobs whose ExecuteAt has passed
  snapshot,   \* snapshot[r]: due jobs processJobs has still to execute
  cur,        \* cur[r]: the job executeJob is busy with
  stage,      \* stage[r]: how far executeJob is
  lock,       \* lock[s]: the key job:<s> exists
  extra,      \* extra[r]: ScheduleNow calls so far, by source (history)
  cancelled,  \* cancelled[r]: successful CancelJob calls, by source (history)
  overruns,   \* overruns[s]: keys of s that have expired under a run, since s
              \* was last in nobody's hands (history)
  crashes, faults

history == <<extra, cancelled, overruns>>

jobsVars == <<job, due, snapshot, cur, stage, lock, history, crashes, faults>>

Job    == [st : {"pending", "running", "skipped", "free"}, src : Connector]
Stages == {"idle", "locked", "running", "ended", "rescheduled"}

\* Also: executeJob works on a job that it has taken off the list.
JobsTypeOK ==
  /\ job \in [Replica -> [JobId -> Job]]
  /\ due \in [Replica -> SUBSET JobId]
  /\ snapshot \in [Replica -> SUBSET JobId]
  /\ cur \in [Replica -> JobId \cup {NoJob}]
  /\ stage \in [Replica -> Stages]
  /\ \A r \in Replica : cur[r] = NoJob <=> stage[r] = "idle"
  /\ \A r \in Replica : \A j \in snapshot[r] :
       j # cur[r] /\ job[r][j].st \in {"pending", "skipped"}
  /\ lock \in [Connector -> BOOLEAN]
  /\ extra \in [Replica -> [Connector -> Nat]]
  /\ cancelled \in [Replica -> [Connector -> Nat]]
  /\ overruns \in [Connector -> Nat]
  /\ crashes \in Nat /\ faults \in Nat

\* scheduleAllSources in a fresh process: one job per source, none due yet.
Scheduled == {table \in [JobId -> Job] :
                /\ \A j \in JobId : table[j].st \in {"pending", "free"}
                /\ \A s \in Connector :
                     Cardinality({j \in JobId : table[j] = [st |-> "pending", src |-> s]}) = 1}

None == [s \in Connector |-> 0]

JobsInit ==
  /\ job \in [Replica -> Scheduled]
  /\ due = [r \in Replica |-> {}]
  /\ snapshot = [r \in Replica |-> {}]
  /\ cur = [r \in Replica |-> NoJob]
  /\ stage = [r \in Replica |-> "idle"]
  /\ lock = [s \in Connector |-> FALSE]
  /\ extra = [r \in Replica |-> None]
  /\ cancelled = [r \in Replica |-> None]
  /\ overruns = None
  /\ crashes = 0 /\ faults = 0

SourceOf(r)  == job[r][cur[r]].src
Holds(r, s)  == stage[r] # "idle" /\ SourceOf(r) = s
Holders(s)   == {r \in Replica : Holds(r, s)}

\* Once r lets go of it, a source may be in nobody's hands.
LeavesHands(r) ==
  overruns' = [s \in Connector |-> IF Holders(s) \subseteq {r} THEN 0 ELSE overruns[s]]

\* A Redis call fails.
Fault == faults < MaxFaults /\ faults' = faults + 1

\* The status of a job is written under the table's mutex.
SetStatus(r, j, status) == job' = [job EXCEPT ![r][j].st = status]

\* ScheduleSource under the table's mutex, with a new id.
ScheduleSource(r, s, isDue) ==
  \E j \in JobId \ (snapshot[r] \cup {cur[r]}) :
    /\ job[r][j].st \in {"free", "skipped"}
    /\ job' = [job EXCEPT ![r][j] = [st |-> "pending", src |-> s]]
    /\ due' = [due EXCEPT ![r] = IF isDue THEN @ \cup {j} ELSE @ \ {j}]

(***************************************************************************)
(* Plausible slips, each an alternative form of the definition its comment *)
(* names.                                                                  *)
(***************************************************************************)

\* Reschedule that is skipped, together with the release, after a failure.
RescheduleOrGiveUp(r) ==
  /\ stage[r] = "ended"
  /\ \/ /\ ScheduleSource(r, SourceOf(r), FALSE)
        /\ stage' = [stage EXCEPT ![r] = "rescheduled"]
        /\ UNCHANGED cur
     \/ /\ stage' = [stage EXCEPT ![r] = "idle"]
        /\ cur' = [cur EXCEPT ![r] = NoJob]
        /\ UNCHANGED <<job, due>>
  /\ UNCHANGED <<history, snapshot, lock, crashes, faults>>

\* Acquire by a plain SET.
AcquireBlindly(r, j) ==
  /\ stage[r] = "idle" /\ j \in snapshot[r]
  /\ snapshot' = [snapshot EXCEPT ![r] = @ \ {j}]
  /\ lock' = [lock EXCEPT ![job[r][j].src] = TRUE]
  /\ stage' = [stage EXCEPT ![r] = "locked"]
  /\ cur' = [cur EXCEPT ![r] = j]
  /\ UNCHANGED <<job, due, history, crashes, faults>>

(***************************************************************************)
(* processJobs and executeJob.                                             *)
(***************************************************************************)

\* The minute ticks: list the pending jobs that are due.
ProcessJobs(r) ==
  /\ stage[r] = "idle" /\ snapshot[r] = {}
  /\ snapshot' = [snapshot EXCEPT ![r] = {j \in due[r] : job[r][j].st = "pending"}]
  /\ UNCHANGED <<history, job, due, cur, stage, lock, crashes, faults>>

Attempt(r, j) ==
  /\ stage[r] = "idle" /\ j \in snapshot[r]
  /\ snapshot' = [snapshot EXCEPT ![r] = @ \ {j}]
  /\ UNCHANGED <<history, job, due, crashes>>

Acquire(r, j) ==
  /\ Attempt(r, j)
  /\ ~lock[job[r][j].src]
  /\ lock' = [lock EXCEPT ![job[r][j].src] = TRUE]
  /\ stage' = [stage EXCEPT ![r] = "locked"]
  /\ cur' = [cur EXCEPT ![r] = j]
  /\ UNCHANGED faults

\* The key exists, or the call fails, before or after it took effect: the
\* job stays pending until a later minute.
AcquireFails(r, j) ==
  /\ Attempt(r, j)
  /\ \/ lock[job[r][j].src] /\ UNCHANGED <<lock, faults>>
     \/ Fault /\ UNCHANGED lock
     \/ Fault /\ lock' = [lock EXCEPT ![job[r][j].src] = TRUE]
  /\ UNCHANGED <<cur, stage>>

\* Whatever has become of the job since it was listed.
StartRun(r) ==
  /\ stage[r] = "locked"
  /\ SetStatus(r, cur[r], "running")
  /\ stage' = [stage EXCEPT ![r] = "running"]
  /\ UNCHANGED <<history, due, snapshot, cur, lock, crashes, faults>>

\* RunSource returns, with or without an error.
EndRun(r) ==
  /\ stage[r] = "running"
  /\ SetStatus(r, cur[r], "free")
  /\ stage' = [stage EXCEPT ![r] = "ended"]
  /\ UNCHANGED <<history, due, snapshot, cur, lock, crashes, faults>>

Reschedule(r) ==
  /\ stage[r] = "ended"
  /\ ScheduleSource(r, SourceOf(r), FALSE)
  /\ stage' = [stage EXCEPT ![r] = "rescheduled"]
  /\ UNCHANGED <<history, snapshot, cur, lock, crashes, faults>>

\* The deferred ReleaseLock deletes the key, whoever set it, or fails.
Release(r) ==
  /\ stage[r] = "rescheduled"
  /\ \/ lock' = [lock EXCEPT ![SourceOf(r)] = FALSE] /\ UNCHANGED faults
     \/ Fault /\ UNCHANGED lock
  /\ stage' = [stage EXCEPT ![r] = "idle"]
  /\ cur' = [cur EXCEPT ![r] = NoJob]
  /\ LeavesHands(r)
  /\ UNCHANGED <<extra, cancelled, job, due, snapshot, crashes>>

(***************************************************************************)
(* Callers, the clock and the platform.                                    *)
(***************************************************************************)
ScheduleNow(r, s) ==
  /\ r \in Called
  /\ extra[r][s] < MaxNow
  /\ ScheduleSource(r, s, TRUE)
  /\ extra' = [extra EXCEPT ![r][s] = @ + 1]
  /\ UNCHANGED <<snapshot, cur, stage, lock, cancelled, overruns, crashes, faults>>

CancelJob(r, j) ==
  /\ r \in Called
  /\ cancelled[r][job[r][j].src] < MaxCancels
  /\ job[r][j].st = "pending"
  /\ SetStatus(r, j, "skipped")
  /\ cancelled' = [cancelled EXCEPT ![r][job[r][j].src] = @ + 1]
  /\ UNCHANGED <<due, snapshot, cur, stage, lock, extra, overruns, crashes, faults>>

ComesDue(r, j) ==
  /\ job[r][j].st = "pending" /\ j \notin due[r]
  /\ due' = [due EXCEPT ![r] = @ \cup {j}]
  /\ UNCHANGED <<history, job, snapshot, cur, stage, lock, crashes, faults>>

\* The ten minutes are over, whoever may still be relying on the key.
Expire(s) ==
  /\ lock[s]
  /\ lock' = [lock EXCEPT ![s] = FALSE]
  /\ \/ Holders(s) = {} /\ UNCHANGED overruns
     \/ /\ Holders(s) # {} /\ overruns[s] < MaxOverruns
        /\ overruns' = [overruns EXCEPT ![s] = @ + 1]
  /\ UNCHANGED <<extra, cancelled, job, due, snapshot, cur, stage, crashes, faults>>

\* The replica dies and is restarted; its keys stay in Redis.
Crash(r) ==
  /\ crashes < MaxCrashes
  /\ crashes' = crashes + 1
  /\ \E table \in Scheduled : job' = [job EXCEPT ![r] = table]
  /\ due' = [due EXCEPT ![r] = {}]
  /\ snapshot' = [snapshot EXCEPT ![r] = {}]
  /\ cur' = [cur EXCEPT ![r] = NoJob]
  /\ stage' = [stage EXCEPT ![r] = "idle"]
  /\ extra' = [extra EXCEPT ![r] = None]
  /\ cancelled' = [cancelled EXCEPT ![r] = None]
  /\ LeavesHands(r)
  /\ UNCHANGED <<lock, faults>>

Work(r) ==
  \/ ProcessJobs(r)
  \/ \E j \in JobId : Acquire(r, j) \/ AcquireFails(r, j)
  \/ StartRun(r) \/ EndRun(r) \/ Reschedule(r) \/ Release(r)

JobsNext ==
  \/ \E r \in Replica : Work(r) \/ Crash(r)
  \/ \E r \in Replica, s \in Connector : ScheduleNow(r, s)
  \/ \E r \in Replica, j \in JobId : CancelJob(r, j) \/ ComesDue(r, j)
  \/ \E s \in Connector : Expire(s)

JobsSpec == JobsInit /\ [][JobsNext]_jobsVars

\* Tickers tick, fetches return, jobs come due and keys expire.
JobsFairness ==
  /\ \A r \in Replica :
       /\ WF_jobsVars(ProcessJobs(r) /\ snapshot'[r] # {})
       /\ \A j \in JobId : WF_jobsVars(Acquire(r, j) \/ AcquireFails(r, j))
       /\ WF_jobsVars(StartRun(r) \/ EndRun(r) \/ Reschedule(r) \/ Release(r))
       /\ \A j \in JobId : WF_jobsVars(ComesDue(r, j))
  /\ \A s \in Connector : WF_jobsVars(Expire(s))

FairJobsSpec == JobsSpec /\ JobsFairness

-----------------------------------------------------------------------------
(***************************************************************************)
(* "Acquire distributed lock to prevent duplicate execution"               *)
(* (scheduler.go:224).  A key that expires under a run lets a second one   *)
(* in, and from then on every release may delete the key of another run.   *)
(* Still a source is never run more often at a time than once, and once    *)
(* more for every key that expired since nobody was running it: whoever    *)
(* deletes the key of another has itself just ended a run.  Without an     *)
(* overrun runs exclude each other, through failing Redis calls, crashes   *)
(* and keys that linger.                                                   *)
(***************************************************************************)
Running(r, s) == stage[r] = "running" /\ SourceOf(r) = s

OneRunPerOverrun ==
  \A s \in Connector : Cardinality({r \in Replica : Running(r, s)}) <= 1 + overruns[s]

(***************************************************************************)
(* A source has one chain of jobs, each scheduling the next, and one more  *)
(* for every ScheduleNow; a cancelled job may end its chain, and nothing   *)
(* else does: no failed fetch, no missed lock, no job listed twice.        *)
(***************************************************************************)
Live(r, s) ==
  Cardinality({j \in JobId : job[r][j].src = s /\ job[r][j].st \in {"pending", "running"}})
  + (IF stage[r] = "ended" /\ SourceOf(r) = s THEN 1 ELSE 0)

ChainsAreConserved ==
  \A r \in Replica, s \in Connector :
    /\ Live(r, s) >= 1 + extra[r][s] - cancelled[r][s]
    /\ Live(r, s) <= 1 + extra[r][s]

(***************************************************************************)
(* Every source is run again and again by some replica, whatever runs      *)
(* fail, whatever locks are missed and whichever replica is restarted,     *)
(* unless in every replica as many jobs were cancelled as it had chains.    *)
(***************************************************************************)
SourcesKeepRunning ==
  \A s \in Connector :
    []<>(\/ \E r \in Replica : Running(r, s)
         \/ \A r \in Replica : cancelled[r][s] > extra[r][s])
=============================================================================
