--------------------------- MODULE RemoteCommands ---------------------------
(***************************************************************************)
(* Anti-theft commands on their way from the owner to one device: the      *)
(* queue in the table device_commands (services/device_security.go and     *)
(* repository/device_security.go) and the agents of the app that poll it,  *)
(* perform what they find and answer (device_agent.dart).  Two agents run  *)
(* on a device and know nothing of each other: one in the foreground, and  *)
(* one in the headless isolate that WorkManager starts.                    *)
(***************************************************************************)
EXTENDS Integers, Sequences, FiniteSets

CONSTANTS
  Foreground,   \* the agent of the open app
  Headless,     \* the agents of background isolates, one at a time in the app
  Type,         \* types of commands
  Gated,        \* those the anti-theft settings can disable
  NeedsScreen,  \* those a headless agent leaves pending
  Nested,       \* those whose answer is sent inside a try of its own
  Defaults,     \* the settings of an app that could not load any
  MaxCommands,  \* bound: commands ever issued
  MaxChanges,   \* bound: changes of the settings
  MaxFaults     \* bound: calls that fail, are late or do not return, agents killed

Agent == {Foreground} \cup Headless

ASSUME CommandsAssumption ==
  /\ IsFiniteSet(Headless) /\ Foreground \notin Headless
  /\ Gated \subseteq Type
  /\ Defaults \subseteq Gated
  /\ {MaxCommands, MaxChanges, MaxFaults} \subseteq Nat

VARIABLES
  commands,     \* the table
  settings,     \* the gated types the settings enable
  policy,       \* policy[a]: those that agent a believes enabled
  answer,       \* settings on their way to the app, at most one set of them
  agent,        \* agent[a]: where agent a is in its cycle
  stranded,     \* agents whose cycle waits for a call that does not return
  overdue,      \* answers given up by their agents that may still arrive
  performed,    \* performed[i]: how often the device did command i (history)
  changes, faults

vars == <<commands, settings, policy, answer, agent, stranded, overdue,
          performed, changes, faults>>

Status  == {"pending", "executed", "failed", "expired"}
Command == [type : Type, status : Status, stale : BOOLEAN]
Id      == 1 .. MaxCommands

Idle  == [at |-> "idle"]
Poll  == [at |-> "poll"]
Run   == [at : {"run"}, todo : SUBSET Id]
\* Answering a command: what it says, and how often a catch block answers again.
Reply == [at : {"reply"}, todo : SUBSET Id, id : Id,
          verdict : {"executed", "failed"}, spare : 0 .. 2]

TypeOK ==
  /\ commands \in Seq(Command) /\ Len(commands) <= MaxCommands
  /\ settings \in SUBSET Gated
  /\ policy \in [Agent -> SUBSET Gated]
  /\ answer = {} \/ \E s \in SUBSET Gated : answer = {s}
  /\ agent \in [Agent -> {Idle, Poll} \cup Run \cup Reply]
  /\ \A a \in Agent :
       /\ agent[a] \in Run \cup Reply => agent[a].todo \subseteq DOMAIN commands
       /\ agent[a] \in Reply => agent[a].id \in DOMAIN commands \ agent[a].todo
  /\ stranded \subseteq Agent
  /\ overdue \subseteq [id : DOMAIN commands, verdict : {"executed", "failed"}]
  /\ performed \in [Id -> Nat]
  /\ changes \in 0 .. MaxChanges
  /\ faults \in 0 .. MaxFaults

Init ==
  /\ commands = <<>>
  /\ settings = Defaults
  /\ policy = [a \in Agent |-> Defaults]
  /\ answer = {}
  /\ agent = [a \in Agent |-> Idle]
  /\ stranded = {}
  /\ overdue = {}
  /\ performed = [i \in Id |-> 0]
  /\ changes = 0
  /\ faults = 0

Allows(toggles, t) == t \in Gated => t \in toggles
Fault == faults < MaxFaults /\ faults' = faults + 1
owner  == <<settings, policy, answer, changes>>

\* Agent a turns to command i's answer, and goes on with the commands left.
Turn(a, i, verdict, spare) ==
  agent' = [agent EXCEPT ![a] = [at |-> "reply", todo |-> agent[a].todo \ {i}, id |-> i,
                                 verdict |-> verdict, spare |-> spare]]
Proceed(a, rest) ==
  agent' = [agent EXCEPT ![a] = IF rest = {} THEN Idle ELSE [at |-> "run", todo |-> rest]]

(***************************************************************************)
(* Plausible slips, each an alternative form of the definition its comment *)
(* names.                                                                  *)
(***************************************************************************)

\* GetPendingCommands without its look at the status.
EverythingFresh == {i \in DOMAIN commands : ~commands[i].stale}

\* GetPendingCommands without its first statement.
NothingSettled == commands

\* An action that failed is reported as done.
FailInSilence(a, i) ==
  /\ i \in agent[a].todo
  /\ Allows(policy[a], commands[i].type)
  /\ Turn(a, i, "executed", 1)
  /\ UNCHANGED <<commands, owner, stranded, overdue, performed, faults>>

\* The agent acts and leaves the answer to the next poll.
PerformAndLeave(a, i) ==
  /\ i \in agent[a].todo
  /\ Allows(policy[a], commands[i].type)
  /\ performed' = [performed EXCEPT ![i] = @ + 1]
  /\ Proceed(a, agent[a].todo \ {i})
  /\ UNCHANGED <<commands, owner, stranded, overdue, faults>>

\* A refused command stays in the agent's list.
RefuseAndKeep(a, i) ==
  /\ i \in agent[a].todo
  /\ ~Allows(policy[a], commands[i].type)
  /\ agent' = [agent EXCEPT ![a] = [at |-> "reply", todo |-> agent[a].todo, id |-> i,
                                    verdict |-> "failed", spare |-> 1]]
  /\ UNCHANGED <<commands, owner, stranded, overdue, performed, faults>>

-----------------------------------------------------------------------------
(***************************************************************************)
(* The server.                                                             *)
(***************************************************************************)

\* IssueCommand checks the settings and inserts in two statements; a change
\* of the settings between them is no different from one after them.
IssueCommand(t) ==
  /\ Len(commands) < MaxCommands
  /\ Allows(settings, t)
  /\ commands' = Append(commands, [type |-> t, status |-> "pending", stale |-> FALSE])
  /\ UNCHANGED <<owner, agent, stranded, overdue, performed, faults>>

\* The 24 hours of a command are over; of a settled command nobody asks.
Expire(i) ==
  /\ commands[i].status = "pending" /\ ~commands[i].stale
  /\ commands' = [commands EXCEPT ![i].stale = TRUE]
  /\ UNCHANGED <<owner, agent, stranded, overdue, performed, faults>>

\* The first statement of GetPendingCommands, and the rows of its second.
Settled ==
  [i \in DOMAIN commands |->
     IF commands[i].status = "pending" /\ commands[i].stale
     THEN [commands[i] EXCEPT !.status = "expired"] ELSE commands[i]]

Deliverable ==
  {i \in DOMAIN commands : commands[i].status = "pending" /\ ~commands[i].stale}

\* AckCommand: whatever the status is by now.
AckCommand(i, verdict) == commands' = [commands EXCEPT ![i].status = verdict]

-----------------------------------------------------------------------------
(***************************************************************************)
(* The settings: changed from the web, or saved and loaded by the app,     *)
(* whose agent goes by what the app was answered last.                     *)
(***************************************************************************)
ChangeOnTheWeb(new) ==
  /\ changes < MaxChanges /\ changes' = changes + 1
  /\ settings' = new
  /\ UNCHANGED <<commands, policy, answer, agent, stranded, overdue, performed, faults>>

SaveSettings(new) ==
  /\ answer = {}
  /\ changes < MaxChanges /\ changes' = changes + 1
  /\ settings' = new /\ answer' = {new}
  /\ UNCHANGED <<commands, policy, agent, stranded, overdue, performed, faults>>

LoadSettings ==
  /\ answer = {}
  /\ answer' = {settings}
  /\ UNCHANGED <<commands, settings, policy, agent, stranded, overdue, performed, changes, faults>>

UpdatePolicy ==
  /\ \E s \in answer : policy' = [policy EXCEPT ![Foreground] = s]
  /\ answer' = {}
  /\ UNCHANGED <<commands, settings, agent, stranded, overdue, performed, changes, faults>>

LoseAnswer ==
  /\ answer # {}
  /\ Fault
  /\ answer' = {}
  /\ UNCHANGED <<commands, settings, policy, agent, stranded, overdue, performed, changes>>

\* The app starts without having been able to load its settings.
StartWithDefaults ==
  /\ agent[Foreground] = Idle
  /\ Fault
  /\ policy' = [policy EXCEPT ![Foreground] = Defaults]
  /\ UNCHANGED <<commands, settings, answer, agent, stranded, overdue, performed, changes>>

-----------------------------------------------------------------------------
(***************************************************************************)
(* An agent's cycle: find out the policy (a headless agent asks the server *)
(* or falls back to what the app persisted last), fetch the commands,      *)
(* perform and answer them one by one.                                     *)
(***************************************************************************)
PollNow ==
  /\ agent[Foreground] = Idle
  /\ agent' = [agent EXCEPT ![Foreground] = Poll]
  /\ UNCHANGED <<commands, owner, stranded, overdue, performed, faults>>

RunHeadless(a) ==
  /\ agent[a] = Idle
  /\ agent' = [agent EXCEPT ![a] = Poll]
  /\ \/ policy' = [policy EXCEPT ![a] = settings] /\ UNCHANGED faults
     \/ policy' = [policy EXCEPT ![a] = policy[Foreground]] /\ Fault
  /\ UNCHANGED <<commands, settings, answer, stranded, overdue, performed, changes>>

FetchPendingCommands(a) ==
  /\ agent[a] = Poll /\ a \notin stranded
  /\ commands' = Settled
  /\ Proceed(a, Deliverable)
  /\ UNCHANGED <<owner, stranded, overdue, performed, faults>>

\* The request or its answer is lost: the cycle finds no commands.
FetchFails(a) ==
  /\ agent[a] = Poll /\ a \notin stranded
  /\ Fault
  /\ commands' \in {commands, Settled}
  /\ Proceed(a, {})
  /\ UNCHANGED <<owner, stranded, overdue, performed>>

Defers(a, i) == a \in Headless /\ commands[i].type \in NeedsScreen

Defer(a, i) ==
  /\ agent[a].at = "run" /\ i \in agent[a].todo
  /\ Defers(a, i)
  /\ Proceed(a, agent[a].todo \ {i})
  /\ UNCHANGED <<commands, owner, stranded, overdue, performed, faults>>

Refuse(a, i) ==
  /\ i \in agent[a].todo
  /\ ~Allows(policy[a], commands[i].type)
  /\ Turn(a, i, "failed", 1)
  /\ UNCHANGED <<commands, owner, stranded, overdue, performed, faults>>

Perform(a, i) ==
  /\ i \in agent[a].todo
  /\ Allows(policy[a], commands[i].type)
  /\ performed' = [performed EXCEPT ![i] = @ + 1]
  /\ Turn(a, i, "executed", IF commands[i].type \in Nested THEN 2 ELSE 1)
  /\ UNCHANGED <<commands, owner, stranded, overdue, faults>>

\* The device cannot do it, or the type is not supported.
PerformFails(a, i) ==
  /\ i \in agent[a].todo
  /\ Allows(policy[a], commands[i].type)
  /\ Turn(a, i, "failed", 1)
  /\ UNCHANGED <<commands, owner, stranded, overdue, performed, faults>>

ExecuteCommand(a) ==
  /\ agent[a].at = "run" /\ a \notin stranded
  /\ \E i \in agent[a].todo :
       \/ Defer(a, i)
       \/ ~Defers(a, i) /\ (Refuse(a, i) \/ Perform(a, i) \/ PerformFails(a, i))

Answer(a) ==
  /\ agent[a].at = "reply" /\ a \notin stranded
  /\ AckCommand(agent[a].id, agent[a].verdict)
  /\ Proceed(a, agent[a].todo)
  /\ UNCHANGED <<owner, stranded, overdue, performed, faults>>

\* The answer throws: what it said may still arrive, and the catch block
\* answers that the command failed, if there is one left.
AnswerThrows(a) ==
  /\ agent[a].at = "reply" /\ a \notin stranded
  /\ Fault
  /\ overdue' = overdue \cup {[id |-> agent[a].id, verdict |-> agent[a].verdict]}
  /\ IF agent[a].spare = 0
     THEN Proceed(a, agent[a].todo)
     ELSE Turn(a, agent[a].id, "failed", agent[a].spare - 1)
  /\ UNCHANGED <<commands, owner, stranded, performed>>

Overdue(m) ==
  /\ overdue' = overdue \ {m}
  /\ AckCommand(m.id, m.verdict)
  /\ UNCHANGED <<owner, agent, stranded, performed, faults>>

(***************************************************************************)
(* Every call of a cycle goes through the AuthInterceptor.  One that was   *)
(* answered 401 while a refresh is under way waits in the interceptor's    *)
(* queue, which only a refresh that succeeds empties (SessionRefresh); the *)
(* cycle waits with it, and `_polling` keeps the next one from starting.   *)
(* A location or SIM report that is stranded after the commands looks like *)
(* a stranded fetch of the cycle that follows.                             *)
(***************************************************************************)
Strand(a) ==
  /\ agent[a] # Idle /\ a \notin stranded
  /\ Fault
  /\ stranded' = stranded \cup {a}
  /\ UNCHANGED <<commands, owner, agent, overdue, performed>>

Release(a) ==
  /\ a \in stranded
  /\ stranded' = stranded \ {a}
  /\ UNCHANGED <<commands, owner, agent, overdue, performed, faults>>

Killed(a) ==
  /\ agent[a] # Idle
  /\ Fault
  /\ agent' = [agent EXCEPT ![a] = Idle]
  /\ stranded' = stranded \ {a}
  /\ UNCHANGED <<commands, owner, overdue, performed>>

-----------------------------------------------------------------------------
Next ==
  \/ \E t \in Type : IssueCommand(t)
  \/ \E i \in DOMAIN commands : Expire(i)
  \/ \E new \in SUBSET Gated : ChangeOnTheWeb(new) \/ SaveSettings(new)
  \/ LoadSettings \/ UpdatePolicy \/ LoseAnswer \/ StartWithDefaults
  \/ PollNow
  \/ \E a \in Headless : RunHeadless(a)
  \/ \E a \in Agent :
       \/ FetchPendingCommands(a) \/ FetchFails(a)
       \/ ExecuteCommand(a) \/ Answer(a) \/ AnswerThrows(a)
       \/ Strand(a) \/ Release(a) \/ Killed(a)
  \/ \E m \in overdue : Overdue(m)

Spec == Init /\ [][Next]_vars

(***************************************************************************)
(* The app is open, its timer ticks every minute and its calls return,     *)
(* except those that are stranded; a command's 24 hours end.               *)
(***************************************************************************)
Fairness ==
  /\ WF_vars(PollNow)
  /\ WF_vars(FetchPendingCommands(Foreground))
  /\ WF_vars(ExecuteCommand(Foreground))
  /\ WF_vars(Answer(Foreground))
  /\ \A i \in Id : WF_vars(i \in DOMAIN commands /\ Expire(i))

LiveSpec == Spec /\ Fairness

-----------------------------------------------------------------------------
Answering(a, i) == agent[a].at = "reply" /\ agent[a].id = i

(***************************************************************************)
(* "Commands that need privileges this app does not hold are acked FAILED  *)
(* ... never silently "executed"" (device_agent.dart:10-11): the owner is   *)
(* told that a command was executed only if the device did it, whichever   *)
(* answers are late and whichever agents overlap.                          *)
(***************************************************************************)
ExecutedIsPerformed ==
  \A i \in DOMAIN commands : commands[i].status = "executed" => performed[i] > 0

(***************************************************************************)
(* What the device did is answered: as long as no call fails and no agent  *)
(* is killed, a command that was performed is neither pending nor expired  *)
(* unless an agent is just about to answer it.                             *)
(***************************************************************************)
PerformedIsAnswered ==
  \A i \in DOMAIN commands :
    performed[i] > 0 /\ commands[i].status \in {"pending", "expired"} /\ faults = 0
      => \E a \in Agent : Answering(a, i)

(***************************************************************************)
(* Delivery is at least once and nothing claims a command for an agent,    *)
(* but repetition is bounded: each agent once, and once more for every     *)
(* fault.                                                                  *)
(***************************************************************************)
RepetitionIsBounded ==
  \A i \in Id : performed[i] <= Cardinality(Agent) + faults

(***************************************************************************)
(* A command does not stay pending for ever while the app is open, unless  *)
(* a call of the app's agent is stranded for good: a call that fails, a    *)
(* killed agent and a call that is released after all do not excuse it.    *)
(***************************************************************************)
PendingEnds ==
  \A i \in Id :
    (i \in DOMAIN commands /\ commands[i].status = "pending")
      ~> \/ i \in DOMAIN commands /\ commands[i].status # "pending"
         \/ [](Foreground \in stranded)
=============================================================================
