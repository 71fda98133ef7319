------------------------ MODULE RemoteCommandsProofs ------------------------
(***************************************************************************)
(* Proofs about RemoteCommands, for every finite set of headless agents,   *)
(* every set of command types and any number of commands, changes of the   *)
(* settings and faults.                                                    *)
(***************************************************************************)
EXTENDS RemoteCommands, FiniteSetTheorems, TLAPS

-----------------------------------------------------------------------------
(***************************************************************************)
(* The parts of TypeOK that several steps disturb, said of any table of n  *)
(* commands and any function f from the agents to their places.            *)
(***************************************************************************)
Place == {Idle, Poll} \cup Run \cup Reply

PlaceOK(p, n) ==
  /\ p \in Place
  /\ p \in Run \cup Reply => p.todo \subseteq 1 .. n
  /\ p \in Reply => p.id \in (1 .. n) \ p.todo

\* Agent a's place becomes new.
Becomes(a, new) == agent' = [agent EXCEPT ![a] = new]

LEMMA Numbers ==
  /\ MaxCommands \in Nat /\ MaxChanges \in Nat /\ MaxFaults \in Nat
  /\ IsFiniteSet(Agent) /\ Cardinality(Agent) \in Nat
<1>1. IsFiniteSet(Agent)
  <2>1. IsFiniteSet(Headless \cup {Foreground})
    BY CommandsAssumption, FS_AddElement DEF CommandsAssumption
  <2>2. Agent = Headless \cup {Foreground}
    BY DEF Agent
  <2>. QED
    BY <2>1, <2>2
<1>. QED
  BY <1>1, CommandsAssumption, FS_CardinalityType DEF CommandsAssumption

LEMMA TableFacts ==
  ASSUME TypeOK
  PROVE  /\ Len(commands) \in Nat /\ Len(commands) <= MaxCommands
         /\ DOMAIN commands = 1 .. Len(commands) /\ DOMAIN commands \subseteq Id
         /\ \A i \in 1 .. Len(commands) : commands[i] \in Command
BY Numbers DEF TypeOK, Id

\* TypeOK says of every agent that its place is in order.
LEMMA Places ==
  ASSUME TypeOK
  PROVE  \A a \in Agent : PlaceOK(agent[a], Len(commands))
BY TableFacts DEF TypeOK, PlaceOK, Place

LEMMA PlacesTyped ==
  ASSUME NEW f, NEW n \in Nat, f \in [Agent -> Place],
         \A a \in Agent : PlaceOK(f[a], n)
  PROVE  /\ f \in [Agent -> {Idle, Poll} \cup Run \cup Reply]
         /\ \A a \in Agent :
              /\ f[a] \in Run \cup Reply => f[a].todo \subseteq 1 .. n
              /\ f[a] \in Reply => f[a].id \in (1 .. n) \ f[a].todo
BY DEF PlaceOK, Place

\* Where an agent is tells what its place holds.
LEMMA KindOfPlace ==
  ASSUME NEW p \in Place
  PROVE  /\ p.at \in {"idle", "poll", "run", "reply"}
         /\ p.at = "run" => p \in Run
         /\ p.at = "reply" => p \in Reply
         /\ p \in Run => p.at = "run" /\ p \notin Reply
         /\ p \in Reply => p.at = "reply" /\ p \notin Run
BY DEF Place, Idle, Poll, Run, Reply

LEMMA NoWork ==
  ASSUME NEW n
  PROVE  /\ PlaceOK(Idle, n) /\ Idle.at = "idle"
         /\ PlaceOK(Poll, n) /\ Poll.at = "poll"
BY DEF PlaceOK, Place, Idle, Poll, Run, Reply

LEMMA MoreCommands ==
  ASSUME NEW p, NEW n \in Nat, NEW m \in Nat, n <= m, PlaceOK(p, n)
  PROVE  PlaceOK(p, m)
<1>1. 1 .. n \subseteq 1 .. m
  OBVIOUS
<1>. QED
  BY <1>1 DEF PlaceOK

\* What Proceed and Turn make of an agent's place.
Rest(rest) == IF rest = {} THEN Idle ELSE [at |-> "run", todo |-> rest]
Said(rest, i, verdict, spare) ==
  [at |-> "reply", todo |-> rest, id |-> i, verdict |-> verdict, spare |-> spare]

LEMMA RestOK ==
  ASSUME NEW n \in Nat, n <= MaxCommands, NEW rest \in SUBSET (1 .. n)
  PROVE  /\ PlaceOK(Rest(rest), n)
         /\ Rest(rest).at \in {"idle", "run"}
         /\ Rest(rest).at = "run" => Rest(rest).todo = rest
<1>1. CASE rest = {}
  BY <1>1, NoWork DEF Rest
<1>2. CASE rest # {}
  <2>1. [at |-> "run", todo |-> rest] \in Run
    BY Numbers DEF Run, Id
  <2>. QED
    BY <1>2, <2>1, KindOfPlace DEF Rest, PlaceOK, Place
<1>. QED
  BY <1>1, <1>2

LEMMA SaidOK ==
  ASSUME NEW n \in Nat, n <= MaxCommands, NEW rest \in SUBSET (1 .. n),
         NEW i \in (1 .. n) \ rest, NEW verdict \in {"executed", "failed"},
         NEW spare \in 0 .. 2
  PROVE  /\ PlaceOK(Said(rest, i, verdict, spare), n)
         /\ Said(rest, i, verdict, spare).at = "reply"
         /\ Said(rest, i, verdict, spare).todo = rest
         /\ Said(rest, i, verdict, spare).id = i
         /\ Said(rest, i, verdict, spare).verdict = verdict
<1>1. Said(rest, i, verdict, spare) \in Reply
  BY Numbers DEF Said, Reply, Id
<1>2. /\ Said(rest, i, verdict, spare).todo = rest
      /\ Said(rest, i, verdict, spare).id = i
      /\ Said(rest, i, verdict, spare).verdict = verdict
  BY DEF Said
<1>. QED
  BY <1>1, <1>2, KindOfPlace DEF PlaceOK, Place

-----------------------------------------------------------------------------
(***************************************************************************)
(* What each step of an agent does to the table and to its place.          *)
(***************************************************************************)
LEMMA OneAgent ==
  ASSUME TypeOK, NEW a \in Agent, NEW new, Becomes(a, new)
  PROVE  agent'[a] = new /\ \A b \in Agent : b # a => agent'[b] = agent[b]
BY DEF TypeOK, Becomes

LEMMA AgentsTyped ==
  ASSUME TypeOK, NEW a \in Agent, NEW new, Becomes(a, new),
         Len(commands') \in Nat, Len(commands) <= Len(commands'),
         PlaceOK(new, Len(commands'))
  PROVE  agent' \in [Agent -> Place] /\ \A b \in Agent : PlaceOK(agent'[b], Len(commands'))
<1>1. agent' \in [Agent -> Place]
  BY DEF TypeOK, Becomes, Place, PlaceOK
<1>2. \A b \in Agent : b # a => PlaceOK(agent[b], Len(commands'))
  BY Places, TableFacts, MoreCommands
<1>. QED
  BY <1>1, <1>2, OneAgent

LEMMA SettledFacts ==
  ASSUME TypeOK
  PROVE  /\ Settled \in Seq(Command) /\ Len(Settled) = Len(commands)
         /\ \A i \in 1 .. Len(commands) :
              /\ Settled[i].stale = commands[i].stale
              /\ Settled[i].status = IF commands[i].status = "pending" /\ commands[i].stale
                                     THEN "expired" ELSE commands[i].status
         /\ Deliverable \subseteq 1 .. Len(commands)
<1>1. \A i \in 1 .. Len(commands) :
        /\ commands[i] \in Command
        /\ [commands[i] EXCEPT !.status = "expired"] \in Command
        /\ [commands[i] EXCEPT !.status = "expired"].stale = commands[i].stale
        /\ [commands[i] EXCEPT !.status = "expired"].status = "expired"
  BY TableFacts DEF Command, Status
<1>2. DOMAIN commands = 1 .. Len(commands) /\ Len(commands) \in Nat
  BY TableFacts
<1>3. Settled \in [1 .. Len(commands) -> Command]
  BY <1>1, <1>2 DEF Settled
<1>4. Settled \in Seq(Command) /\ Len(Settled) = Len(commands)
  BY <1>2, <1>3
<1>5. \A i \in 1 .. Len(commands) :
        /\ Settled[i].stale = commands[i].stale
        /\ Settled[i].status = IF commands[i].status = "pending" /\ commands[i].stale
                               THEN "expired" ELSE commands[i].status
  BY <1>1, <1>2 DEF Settled
<1>. QED
  BY <1>2, <1>4, <1>5 DEF Deliverable

LEMMA AckFacts ==
  ASSUME TypeOK, NEW i \in 1 .. Len(commands), NEW verdict \in {"executed", "failed"},
         AckCommand(i, verdict)
  PROVE  /\ commands' \in Seq(Command) /\ Len(commands') = Len(commands)
         /\ commands'[i].status = verdict
         /\ \A j \in 1 .. Len(commands) :
              /\ j # i => commands'[j] = commands[j]
              /\ commands'[j].stale = commands[j].stale
<1>. DEFINE new == [commands[i] EXCEPT !.status = verdict]
<1>1. new \in Command /\ new.status = verdict /\ new.stale = commands[i].stale
  BY TableFacts DEF Command, Status
<1>2. commands' = [commands EXCEPT ![i] = new]
  BY TableFacts DEF AckCommand, TypeOK
<1>. HIDE DEF new
<1>. QED
  BY <1>1, <1>2 DEF TypeOK

\* A command is left for later, or answered with a verdict.
Leaves(a, i) ==
  Becomes(a, Rest(agent[a].todo \ {i})) /\ performed' = performed
Tells(a, i, verdict, spare) ==
  /\ Becomes(a, Said(agent[a].todo \ {i}, i, verdict, spare))
  /\ performed' = IF verdict = "executed" THEN [performed EXCEPT ![i] = @ + 1] ELSE performed

LEMMA Executes ==
  ASSUME TypeOK, NEW a \in Agent, ExecuteCommand(a)
  PROVE  /\ agent[a].at = "run" /\ agent[a].todo \subseteq 1 .. Len(commands)
         /\ UNCHANGED <<commands, owner, overdue, faults>>
         /\ \E i \in agent[a].todo :
              \/ Leaves(a, i)
              \/ \E verdict \in {"executed", "failed"}, spare \in 0 .. 2 :
                   Tells(a, i, verdict, spare)
<1>1. agent[a].at = "run"
  BY DEF ExecuteCommand
<1>2. agent[a].todo \subseteq 1 .. Len(commands)
  BY <1>1, Places, KindOfPlace DEF PlaceOK
<1>3. PICK i \in agent[a].todo :
        \/ Defer(a, i)
        \/ Refuse(a, i) \/ Perform(a, i) \/ PerformFails(a, i)
  BY DEF ExecuteCommand
<1>4. CASE Defer(a, i)
  BY <1>1, <1>2, <1>4 DEF Defer, Proceed, Leaves, Becomes, Rest
<1>5. CASE Refuse(a, i) \/ PerformFails(a, i)
  <2>1. Tells(a, i, "failed", 1)
    BY <1>5 DEF Refuse, PerformFails, Turn, Tells, Becomes, Said
  <2>2. 1 \in 0 .. 2
    OBVIOUS
  <2>3. UNCHANGED <<commands, owner, overdue, faults>>
    BY <1>5 DEF Refuse, PerformFails
  <2>. QED
    BY <1>1, <1>2, <2>1, <2>2, <2>3
<1>6. CASE Perform(a, i)
  <2>1. Tells(a, i, "executed", 1) \/ Tells(a, i, "executed", 2)
    BY <1>6 DEF Perform, Turn, Tells, Becomes, Said
  <2>2. 1 \in 0 .. 2 /\ 2 \in 0 .. 2
    OBVIOUS
  <2>3. UNCHANGED <<commands, owner, overdue, faults>>
    BY <1>6 DEF Perform
  <2>. QED
    BY <1>1, <1>2, <2>1, <2>2, <2>3
<1>. QED
  BY <1>3, <1>4, <1>5, <1>6

\* Where an agent that answers stands.
LEMMA AtReply ==
  ASSUME TypeOK, NEW a \in Agent, agent[a].at = "reply"
  PROVE  /\ agent[a].todo \subseteq 1 .. Len(commands)
         /\ agent[a].id \in (1 .. Len(commands)) \ agent[a].todo
         /\ agent[a].verdict \in {"executed", "failed"}
         /\ agent[a].spare \in 0 .. 2
<1>1. agent[a] \in Reply /\ PlaceOK(agent[a], Len(commands))
  BY Places, KindOfPlace DEF PlaceOK
<1>. QED
  BY <1>1 DEF PlaceOK, Reply

LEMMA OverdueType ==
  ASSUME TypeOK, NEW m \in overdue
  PROVE  m.id \in 1 .. Len(commands) /\ m.verdict \in {"executed", "failed"}
BY TableFacts DEF TypeOK

-----------------------------------------------------------------------------
LEMMA InitTyped == Init => TypeOK
<1>. SUFFICES ASSUME Init
              PROVE  TypeOK
  OBVIOUS
<1>1. commands \in Seq(Command) /\ Len(commands) = 0 /\ DOMAIN commands = 1 .. 0
  BY DEF Init
<1>2. \A a \in Agent : agent[a] = Idle /\ agent[a] \notin Run \cup Reply
  BY DEF Init, Idle, Run, Reply
<1>3. settings \in SUBSET Gated /\ policy \in [Agent -> SUBSET Gated]
  BY CommandsAssumption DEF CommandsAssumption, Init
<1>4. agent \in [Agent -> {Idle, Poll} \cup Run \cup Reply]
  BY DEF Init
<1>. QED
  BY <1>1, <1>2, <1>3, <1>4, Numbers DEF Init, TypeOK

OwnerOK ==
  /\ settings \in SUBSET Gated
  /\ policy \in [Agent -> SUBSET Gated]
  /\ answer = {} \/ \E s \in SUBSET Gated : answer = {s}
  /\ changes \in 0 .. MaxChanges

\* The parts of TypeOK that are said in terms of the table's length.
LEMMA TypedAgain ==
  ASSUME TypeOK,
         commands' \in Seq(Command), Len(commands') <= MaxCommands,
         Len(commands) <= Len(commands'),
         agent' \in [Agent -> Place], \A a \in Agent : PlaceOK(agent'[a], Len(commands')),
         overdue' \subseteq [id : 1 .. Len(commands'), verdict : {"executed", "failed"}],
         performed' \in [Id -> Nat],
         OwnerOK', faults' \in 0 .. MaxFaults, stranded' \subseteq Agent
  PROVE  TypeOK'
<1>1. DOMAIN commands' = 1 .. Len(commands') /\ Len(commands') \in Nat
  OBVIOUS
<1>2. /\ agent' \in [Agent -> {Idle, Poll} \cup Run \cup Reply]
      /\ \A a \in Agent :
           /\ agent'[a] \in Run \cup Reply => agent'[a].todo \subseteq DOMAIN commands'
           /\ agent'[a] \in Reply => agent'[a].id \in DOMAIN commands' \ agent'[a].todo
  BY <1>1, PlacesTyped
<1>. QED
  BY <1>1, <1>2 DEF TypeOK, OwnerOK

LEMMA OwnerKept == TypeOK /\ UNCHANGED owner => OwnerOK'
BY DEF TypeOK, OwnerOK, owner

LEMMA StrandedTyped == TypeOK /\ [Next]_vars => stranded' \subseteq Agent
<1>. SUFFICES ASSUME TypeOK, [Next]_vars
              PROVE  stranded' \subseteq Agent
  OBVIOUS
<1>1. stranded \subseteq Agent
  BY DEF TypeOK
<1>2. ASSUME NEW a \in Agent, ExecuteCommand(a)
      PROVE  stranded' = stranded
  BY <1>2 DEF ExecuteCommand, Defer, Refuse, Perform, PerformFails
<1>3. ASSUME NEW a \in Agent, FetchPendingCommands(a) \/ FetchFails(a) \/ Answer(a) \/ AnswerThrows(a)
      PROVE  stranded' = stranded
  BY <1>3 DEF FetchPendingCommands, FetchFails, Answer, AnswerThrows
<1>4. ASSUME NEW a \in Agent, Strand(a) \/ Release(a) \/ Killed(a)
      PROVE  stranded' \subseteq Agent
  BY <1>1, <1>4 DEF Strand, Release, Killed
<1>5. ASSUME NEW a \in Headless, RunHeadless(a)
      PROVE  stranded' = stranded
  BY <1>5 DEF RunHeadless
<1>6. ASSUME NEW new \in SUBSET Gated, ChangeOnTheWeb(new) \/ SaveSettings(new)
      PROVE  stranded' = stranded
  BY <1>6 DEF ChangeOnTheWeb, SaveSettings
<1>7. CASE LoadSettings \/ UpdatePolicy \/ LoseAnswer \/ StartWithDefaults \/ PollNow
  BY <1>1, <1>7 DEF LoadSettings, UpdatePolicy, LoseAnswer, StartWithDefaults, PollNow
<1>8. ASSUME NEW t \in Type, IssueCommand(t)
      PROVE  stranded' = stranded
  BY <1>8 DEF IssueCommand
<1>9. ASSUME NEW i \in DOMAIN commands, Expire(i)
      PROVE  stranded' = stranded
  BY <1>9 DEF Expire
<1>10. ASSUME NEW m \in overdue, Overdue(m)
       PROVE  stranded' = stranded
  BY <1>10 DEF Overdue
<1>11. CASE UNCHANGED vars
  BY <1>1, <1>11 DEF vars
<1>. QED
  BY <1>1, <1>2, <1>3, <1>4, <1>5, <1>6, <1>7, <1>8, <1>9, <1>10, <1>11 DEF Next

LEMMA SameTable ==
  ASSUME TypeOK, UNCHANGED commands
  PROVE  /\ commands' \in Seq(Command) /\ Len(commands') <= MaxCommands
         /\ Len(commands) <= Len(commands') /\ Len(commands') \in Nat
BY TableFacts DEF TypeOK

LEMMA OverdueKept ==
  ASSUME TypeOK, Len(commands') \in Nat, Len(commands) <= Len(commands'),
         \A m \in overdue' : m \in overdue
  PROVE  overdue' \subseteq [id : 1 .. Len(commands'), verdict : {"executed", "failed"}]
<1>1. 1 .. Len(commands) \subseteq 1 .. Len(commands')
  BY TableFacts
<1>. QED
  BY <1>1, TableFacts DEF TypeOK

LEMMA StepTyped == TypeOK /\ [Next]_vars => TypeOK'
<1>. SUFFICES ASSUME TypeOK, [Next]_vars
              PROVE  TypeOK'
  OBVIOUS
<1>0. /\ commands \in Seq(Command) /\ Len(commands) \in Nat /\ Len(commands) <= MaxCommands
      /\ DOMAIN commands = 1 .. Len(commands)
      /\ overdue \subseteq [id : 1 .. Len(commands), verdict : {"executed", "failed"}]
      /\ performed \in [Id -> Nat]
      /\ OwnerOK /\ faults \in 0 .. MaxFaults
      /\ agent \in [Agent -> Place] /\ stranded' \subseteq Agent
  BY TableFacts, StrandedTyped DEF TypeOK, Place, OwnerOK
<1>1. ASSUME NEW t \in Type, IssueCommand(t)
      PROVE  TypeOK'
  <2>1. [type |-> t, status |-> "pending", stale |-> FALSE] \in Command
    BY DEF Command, Status
  <2>2. /\ commands' \in Seq(Command) /\ Len(commands') = Len(commands) + 1
        /\ Len(commands') <= MaxCommands
    BY <1>0, <1>1, <2>1, Numbers DEF IssueCommand
  <2>3. \A a \in Agent : PlaceOK(agent'[a], Len(commands'))
    BY <1>0, <1>1, <2>2, Places, MoreCommands DEF IssueCommand
  <2>4. UNCHANGED <<owner, agent, overdue, performed, faults>>
    BY <1>1 DEF IssueCommand
  <2>5. overdue' \subseteq [id : 1 .. Len(commands'), verdict : {"executed", "failed"}]
    BY <1>0, <2>2, <2>4, OverdueKept
  <2>. QED
    BY <1>0, <2>2, <2>3, <2>4, <2>5, OwnerKept, TypedAgain
<1>2. ASSUME NEW i \in DOMAIN commands, Expire(i)
      PROVE  TypeOK'
  <2>1. [commands[i] EXCEPT !.stale = TRUE] \in Command
    BY <1>0, TableFacts DEF Command
  <2>2. commands' = [commands EXCEPT ![i] = [commands[i] EXCEPT !.stale = TRUE]]
    BY <1>0, <1>2 DEF Expire
  <2>3. commands' \in Seq(Command) /\ Len(commands') = Len(commands)
    BY <1>0, <2>1, <2>2
  <2>4. \A a \in Agent : PlaceOK(agent'[a], Len(commands'))
    BY <1>2, <2>3, Places DEF Expire
  <2>5. UNCHANGED <<owner, agent, overdue, performed, faults>>
    BY <1>2 DEF Expire
  <2>. QED
    BY <1>0, <2>3, <2>4, <2>5, OwnerKept, TypedAgain
<1>3. ASSUME UNCHANGED <<commands, agent, overdue, performed>>,
             OwnerOK', faults' \in 0 .. MaxFaults
      PROVE  TypeOK'
  <2>1. \A a \in Agent : PlaceOK(agent'[a], Len(commands'))
    BY <1>3, Places
  <2>. QED
    BY <1>0, <1>3, <2>1, SameTable, OverdueKept, TypedAgain
<1>4. ASSUME NEW new \in SUBSET Gated, ChangeOnTheWeb(new) \/ SaveSettings(new)
      PROVE  TypeOK'
  <2>1. OwnerOK'
    <3>1. settings' = new /\ policy' = policy /\ (answer' = answer \/ answer' = {new})
      BY <1>4 DEF ChangeOnTheWeb, SaveSettings
    <3>2. changes' \in 0 .. MaxChanges
      BY <1>0, <1>4, Numbers DEF ChangeOnTheWeb, SaveSettings, OwnerOK
    <3>. QED
      BY <1>0, <3>1, <3>2 DEF OwnerOK
  <2>. QED
    BY <1>0, <1>3, <1>4, <2>1 DEF ChangeOnTheWeb, SaveSettings
<1>5. CASE LoadSettings \/ UpdatePolicy \/ LoseAnswer \/ StartWithDefaults
  <2>1. OwnerOK'
    <3>1. CASE UpdatePolicy
      BY <1>0, <3>1 DEF UpdatePolicy, OwnerOK
    <3>2. CASE LoadSettings \/ LoseAnswer
      BY <1>0, <3>2 DEF LoadSettings, LoseAnswer, OwnerOK
    <3>3. CASE StartWithDefaults
      BY <1>0, <3>3, CommandsAssumption DEF StartWithDefaults, OwnerOK, CommandsAssumption
    <3>. QED
      BY <1>5, <3>1, <3>2, <3>3
  <2>2. faults' \in 0 .. MaxFaults
    BY <1>0, <1>5, Numbers DEF LoadSettings, UpdatePolicy, LoseAnswer, StartWithDefaults, Fault
  <2>3. UNCHANGED <<commands, agent, overdue, performed>>
    BY <1>5 DEF LoadSettings, UpdatePolicy, LoseAnswer, StartWithDefaults
  <2>. QED
    BY <1>3, <2>1, <2>2, <2>3
<1>6. ASSUME NEW a \in Agent, NEW new, Becomes(a, new), PlaceOK(new, Len(commands)),
             UNCHANGED commands, OwnerOK',
             performed' \in [Id -> Nat], faults' \in 0 .. MaxFaults,
             overdue' \subseteq [id : 1 .. Len(commands), verdict : {"executed", "failed"}]
      PROVE  TypeOK'
  <2>1. /\ agent' \in [Agent -> Place]
        /\ \A b \in Agent : PlaceOK(agent'[b], Len(commands'))
    BY <1>0, <1>6, AgentsTyped
  <2>. QED
    BY <1>0, <1>6, <2>1, SameTable, TypedAgain
<1>7. CASE PollNow
  <2>1. Becomes(Foreground, Poll) /\ Foreground \in Agent
    BY <1>7 DEF PollNow, Becomes, Agent
  <2>. QED
    BY <1>0, <1>6, <1>7, <2>1, NoWork, OwnerKept DEF PollNow
<1>8. ASSUME NEW a \in Headless, RunHeadless(a)
      PROVE  TypeOK'
  <2>1. a \in Agent /\ Foreground \in Agent /\ Becomes(a, Poll)
    BY <1>8 DEF RunHeadless, Becomes, Agent
  <2>2. OwnerOK'
    BY <1>0, <1>8, <2>1 DEF RunHeadless, OwnerOK
  <2>3. faults' \in 0 .. MaxFaults
    BY <1>0, <1>8, Numbers DEF RunHeadless, Fault
  <2>. QED
    BY <1>0, <1>6, <1>8, <2>1, <2>2, <2>3, NoWork DEF RunHeadless
<1>9. ASSUME NEW a \in Agent, FetchPendingCommands(a) \/ FetchFails(a)
      PROVE  TypeOK'
  <2>1. commands' \in Seq(Command) /\ Len(commands') = Len(commands)
    BY <1>0, <1>9, SettledFacts DEF FetchPendingCommands, FetchFails
  <2>2. PICK rest \in SUBSET (1 .. Len(commands)) : Becomes(a, Rest(rest))
    <3>1. CASE FetchPendingCommands(a)
      BY <3>1, SettledFacts DEF FetchPendingCommands, Proceed, Becomes, Rest
    <3>2. CASE FetchFails(a)
      BY <3>2 DEF FetchFails, Proceed, Becomes, Rest
    <3>. QED
      BY <1>9, <3>1, <3>2
  <2>3. PlaceOK(Rest(rest), Len(commands'))
    BY <1>0, <2>1, RestOK
  <2>4. agent' \in [Agent -> Place] /\ \A b \in Agent : PlaceOK(agent'[b], Len(commands'))
    BY <1>0, <2>1, <2>2, <2>3, AgentsTyped
  <2>5. faults' \in 0 .. MaxFaults
    BY <1>0, <1>9, Numbers DEF FetchPendingCommands, FetchFails, Fault
  <2>6. UNCHANGED <<owner, overdue, performed>>
    BY <1>9 DEF FetchPendingCommands, FetchFails
  <2>. QED
    BY <1>0, <2>1, <2>4, <2>5, <2>6, OwnerKept, TypedAgain
<1>10. ASSUME NEW a \in Agent, ExecuteCommand(a)
       PROVE  TypeOK'
  <2>1. /\ agent[a].at = "run" /\ agent[a].todo \subseteq 1 .. Len(commands)
        /\ UNCHANGED <<commands, owner, overdue, faults>>
    BY <1>10, Executes
  <2>2. PICK i \in agent[a].todo :
          \/ Leaves(a, i)
          \/ \E verdict \in {"executed", "failed"}, spare \in 0 .. 2 :
               Tells(a, i, verdict, spare)
    BY <1>10, Executes
  <2>3. \E new : Becomes(a, new) /\ PlaceOK(new, Len(commands))
    BY <1>0, <2>1, <2>2, RestOK, SaidOK DEF Leaves, Tells
  <2>4. i \in Id
    BY <1>0, <2>1, Numbers DEF Id
  <2>5. performed' \in [Id -> Nat]
    BY <1>0, <2>2, <2>4 DEF Leaves, Tells
  <2>. QED
    BY <1>0, <1>6, <2>1, <2>3, <2>5, OwnerKept
<1>11. ASSUME NEW a \in Agent, Answer(a)
       PROVE  TypeOK'
  <2>1. commands' \in Seq(Command) /\ Len(commands') = Len(commands)
    BY <1>11, AtReply, AckFacts DEF Answer
  <2>2. Becomes(a, Rest(agent[a].todo))
    BY <1>11 DEF Answer, Proceed, Becomes, Rest
  <2>3. PlaceOK(Rest(agent[a].todo), Len(commands'))
    BY <1>0, <1>11, <2>1, AtReply, RestOK DEF Answer
  <2>4. agent' \in [Agent -> Place] /\ \A b \in Agent : PlaceOK(agent'[b], Len(commands'))
    BY <1>0, <2>1, <2>2, <2>3, AgentsTyped
  <2>5. UNCHANGED <<owner, overdue, performed, faults>>
    BY <1>11 DEF Answer
  <2>. QED
    BY <1>0, <2>1, <2>4, <2>5, OwnerKept, TypedAgain
<1>12. ASSUME NEW a \in Agent, AnswerThrows(a)
       PROVE  TypeOK'
  <2>1. /\ agent[a].todo \subseteq 1 .. Len(commands)
        /\ agent[a].id \in (1 .. Len(commands)) \ agent[a].todo
        /\ agent[a].verdict \in {"executed", "failed"}
        /\ agent[a].spare \in 0 .. 2
    BY <1>12, AtReply DEF AnswerThrows
  <2>2. \E new : Becomes(a, new) /\ PlaceOK(new, Len(commands))
    <3>1. CASE agent[a].spare = 0
      BY <1>0, <1>12, <2>1, <3>1, RestOK DEF AnswerThrows, Proceed, Becomes, Rest
    <3>2. CASE agent[a].spare # 0
      <4>1. agent[a].todo \ {agent[a].id} = agent[a].todo /\ agent[a].spare - 1 \in 0 .. 2
        BY <2>1, <3>2
      <4>2. Becomes(a, Said(agent[a].todo, agent[a].id, "failed", agent[a].spare - 1))
        BY <1>12, <3>2, <4>1 DEF AnswerThrows, Turn, Becomes, Said
      <4>. QED
        BY <1>0, <2>1, <4>1, <4>2, SaidOK
    <3>. QED
      BY <3>1, <3>2
  <2>3. overdue' \subseteq [id : 1 .. Len(commands), verdict : {"executed", "failed"}]
    BY <1>0, <1>12, <2>1 DEF AnswerThrows
  <2>4. faults' \in 0 .. MaxFaults
    BY <1>0, <1>12, Numbers DEF AnswerThrows, Fault
  <2>. QED
    BY <1>0, <1>6, <1>12, <2>2, <2>3, <2>4, OwnerKept DEF AnswerThrows
<1>13. ASSUME NEW m \in overdue, Overdue(m)
       PROVE  TypeOK'
  <2>1. commands' \in Seq(Command) /\ Len(commands') = Len(commands)
    BY <1>13, OverdueType, AckFacts DEF Overdue
  <2>2. \A b \in Agent : PlaceOK(agent'[b], Len(commands'))
    BY <1>13, <2>1, Places DEF Overdue
  <2>3. UNCHANGED <<owner, agent, performed, faults>>
    BY <1>13 DEF Overdue
  <2>4. overdue' \subseteq [id : 1 .. Len(commands'), verdict : {"executed", "failed"}]
    BY <1>0, <1>13, <2>1, OverdueKept DEF Overdue
  <2>. QED
    BY <1>0, <2>1, <2>2, <2>3, <2>4, OwnerKept, TypedAgain
<1>14. ASSUME NEW a \in Agent, Killed(a)
       PROVE  TypeOK'
  <2>1. Becomes(a, Idle) /\ faults' \in 0 .. MaxFaults
    BY <1>0, <1>14, Numbers DEF Killed, Fault, Becomes
  <2>. QED
    BY <1>0, <1>6, <1>14, <2>1, NoWork, OwnerKept DEF Killed
<1>15. ASSUME NEW a \in Agent, Strand(a) \/ Release(a)
       PROVE  TypeOK'
  <2>1. faults' \in 0 .. MaxFaults
    BY <1>0, <1>15, Numbers DEF Strand, Release, Fault
  <2>2. UNCHANGED <<commands, owner, agent, overdue, performed>>
    BY <1>15 DEF Strand, Release
  <2>. QED
    BY <1>3, <2>1, <2>2, OwnerKept
<1>16. CASE UNCHANGED vars
  BY <1>0, <1>3, <1>16, OwnerKept DEF vars, owner
<1>. QED
  BY <1>1, <1>2, <1>4, <1>5, <1>7, <1>8, <1>9, <1>10, <1>11, <1>12, <1>13, <1>14,
     <1>15, <1>16 DEF Next

\* Commands, places and settings keep their types: no agent works on a command
\* that does not exist, and none has the one it is answering still on its list.
THEOREM TypeCorrect == Spec => []TypeOK
BY InitTyped, StepTyped, PTL DEF Spec

-----------------------------------------------------------------------------
(***************************************************************************)
(* What the owner is told.  An answer on its way, from an agent or overdue,*)
(* says no more than an answer that has arrived may say; and a command     *)
(* that was never issued was never performed.                              *)
(***************************************************************************)
RepliesAreTrue ==
  \A a \in Agent : agent[a].at = "reply" /\ agent[a].verdict = "executed" =>
    performed[agent[a].id] > 0

OverdueIsTrue == \A m \in overdue : m.verdict = "executed" => performed[m.id] > 0

OnlyIssuedIsPerformed == \A i \in Id : i > Len(commands) => performed[i] = 0

\* What is open, and done, is being answered, until the first fault.
Unanswered(i) == performed[i] > 0 /\ commands[i].status \in {"pending", "expired"}

Claims ==
  /\ ExecutedIsPerformed /\ RepliesAreTrue /\ OverdueIsTrue
  /\ OnlyIssuedIsPerformed
  /\ \A i \in 1 .. Len(commands) :
       Unanswered(i) /\ faults = 0 => \E a \in Agent : Answering(a, i)

Honest == TypeOK /\ Claims

LEMMA InitHonest == Init => Honest
<1>. SUFFICES ASSUME Init
              PROVE  Claims
  BY InitTyped DEF Honest
<1>1. Len(commands) = 0 /\ DOMAIN commands = {} /\ overdue = {} /\ 1 .. Len(commands) = {}
  BY DEF Init
<1>2. \A i \in Id : performed[i] = 0
  BY DEF Init
<1>3. \A a \in Agent : agent[a].at = "idle"
  BY DEF Init, Idle
<1>. QED
  BY <1>1, <1>2, <1>3 DEF Claims, ExecutedIsPerformed, RepliesAreTrue, OverdueIsTrue,
     OnlyIssuedIsPerformed

\* The statuses only change into something that claims and owes nothing new,
\* and the agents that answer stay, or there was a fault.
LEMMA ClaimsKept ==
  ASSUME Honest, Len(commands') = Len(commands), performed' = performed,
         DOMAIN commands' = 1 .. Len(commands),
         \A m \in overdue' : m \in overdue,
         \A i \in 1 .. Len(commands) :
           /\ commands'[i].status = "executed" => commands[i].status = "executed"
           /\ commands'[i].status \in {"pending", "expired"} =>
                commands[i].status \in {"pending", "expired"},
         \A a \in Agent : agent'[a].at = "reply" => agent'[a] = agent[a],
         faults' = 0 =>
           faults = 0 /\ \A a \in Agent : agent[a].at = "reply" => agent'[a] = agent[a]
  PROVE  Claims'
<1>0. DOMAIN commands = 1 .. Len(commands)
  BY TableFacts DEF Honest
<1>1. ExecutedIsPerformed'
  BY <1>0 DEF Honest, Claims, ExecutedIsPerformed
<1>2. RepliesAreTrue'
  BY DEF Honest, Claims, RepliesAreTrue
<1>3. OverdueIsTrue'
  BY DEF Honest, Claims, OverdueIsTrue
<1>4. OnlyIssuedIsPerformed'
  BY DEF Honest, Claims, OnlyIssuedIsPerformed
<1>5. ASSUME NEW i \in 1 .. Len(commands), Unanswered(i)', faults' = 0
      PROVE  \E a \in Agent : Answering(a, i)'
  <2>1. Unanswered(i) /\ faults = 0
    BY <1>5 DEF Unanswered
  <2>2. PICK a \in Agent : Answering(a, i)
    BY <2>1 DEF Honest, Claims
  <2>. QED
    BY <1>5, <2>2 DEF Answering
<1>. QED
  BY <1>1, <1>2, <1>3, <1>4, <1>5 DEF Claims

\* An answer arrives: it is true, and settles its command.
LEMMA AckHonest ==
  ASSUME Honest, NEW i \in 1 .. Len(commands), NEW verdict \in {"executed", "failed"},
         AckCommand(i, verdict), verdict = "executed" => performed[i] > 0,
         performed' = performed, faults' = faults,
         \A m \in overdue' : m \in overdue,
         \A a \in Agent : agent'[a].at = "reply" => agent'[a] = agent[a],
         \A a \in Agent : agent[a].at = "reply" /\ agent[a].id # i => agent'[a] = agent[a]
  PROVE  Claims'
<1>0. TypeOK /\ DOMAIN commands = 1 .. Len(commands)
  BY TableFacts DEF Honest
<1>1. /\ Len(commands') = Len(commands) /\ DOMAIN commands' = 1 .. Len(commands)
      /\ commands'[i].status = verdict
      /\ \A j \in 1 .. Len(commands) : j # i => commands'[j] = commands[j]
  BY <1>0, AckFacts
<1>2. ExecutedIsPerformed'
  BY <1>0, <1>1 DEF Honest, Claims, ExecutedIsPerformed
<1>3. RepliesAreTrue' /\ OverdueIsTrue' /\ OnlyIssuedIsPerformed'
  BY <1>1 DEF Honest, Claims, RepliesAreTrue, OverdueIsTrue, OnlyIssuedIsPerformed
<1>4. ASSUME NEW j \in 1 .. Len(commands), Unanswered(j)', faults' = 0
      PROVE  \E a \in Agent : Answering(a, j)'
  <2>1. j # i /\ Unanswered(j) /\ faults = 0
    BY <1>1, <1>4 DEF Unanswered
  <2>2. PICK a \in Agent : Answering(a, j)
    BY <2>1 DEF Honest, Claims
  <2>. QED
    BY <2>1, <2>2 DEF Answering
<1>. QED
  BY <1>1, <1>2, <1>3, <1>4 DEF Claims

\* An agent tells what became of a command: it was done if it says so.
LEMMA TellsHonest ==
  ASSUME Honest, NEW a \in Agent, agent[a].at = "run", NEW i \in agent[a].todo,
         NEW verdict \in {"executed", "failed"}, NEW spare \in 0 .. 2,
         Tells(a, i, verdict, spare), UNCHANGED <<commands, overdue, faults>>
  PROVE  Claims'
<1>0. /\ TypeOK /\ DOMAIN commands = 1 .. Len(commands) /\ performed \in [Id -> Nat]
      /\ Len(commands) \in Nat /\ Len(commands) <= MaxCommands
  BY TableFacts DEF Honest, TypeOK
<1>1. agent[a].todo \subseteq 1 .. Len(commands)
  BY <1>0, Places, KindOfPlace DEF PlaceOK
<1>2. i \in 1 .. Len(commands) /\ i \in Id
  BY <1>0, <1>1, Numbers DEF Id
<1>3. /\ agent'[a].at = "reply" /\ agent'[a].id = i /\ agent'[a].verdict = verdict
      /\ \A b \in Agent : b # a => agent'[b] = agent[b]
  BY <1>0, OneAgent DEF Tells, Said
<1>4. /\ \A j \in Id : performed'[j] >= performed[j] /\ performed[j] \in Nat
      /\ \A j \in Id : j # i => performed'[j] = performed[j]
      /\ verdict = "executed" => performed'[i] > 0
      /\ verdict = "failed" => performed' = performed
  BY <1>0, <1>2 DEF Tells
<1>5. \A j \in 1 .. Len(commands) : j \in Id
  BY <1>0, Numbers DEF Id
<1>6. ExecutedIsPerformed'
  BY <1>0, <1>4, <1>5 DEF Honest, Claims, ExecutedIsPerformed
<1>7. RepliesAreTrue'
  <2>1. \A b \in Agent : agent[b].at = "reply" => agent[b].id \in Id
    BY <1>0, <1>5, AtReply
  <2>2. \A b \in Agent : b # a /\ agent'[b].at = "reply" /\ agent'[b].verdict = "executed" =>
          performed'[agent'[b].id] > 0
    BY <1>3, <1>4, <2>1 DEF Honest, Claims, RepliesAreTrue
  <2>. QED
    BY <1>3, <1>4, <2>2 DEF RepliesAreTrue
<1>8. OverdueIsTrue'
  BY <1>0, <1>4, <1>5, OverdueType DEF Honest, Claims, OverdueIsTrue
<1>9. OnlyIssuedIsPerformed'
  BY <1>0, <1>2, <1>4 DEF Honest, Claims, OnlyIssuedIsPerformed
<1>10. ASSUME NEW j \in 1 .. Len(commands), Unanswered(j)', faults' = 0
       PROVE  \E b \in Agent : Answering(b, j)'
  <2>1. CASE j = i
    BY <1>3, <2>1 DEF Answering
  <2>2. CASE j # i
    <3>1. Unanswered(j) /\ faults = 0
      BY <1>4, <1>5, <1>10, <2>2 DEF Unanswered
    <3>2. PICK b \in Agent : Answering(b, j)
      BY <3>1 DEF Honest, Claims
    <3>3. b # a
      BY <3>2 DEF Answering
    <3>. QED
      BY <1>3, <3>2, <3>3 DEF Answering
  <2>. QED
    BY <2>1, <2>2
<1>. QED
  BY <1>6, <1>7, <1>8, <1>9, <1>10 DEF Claims

LEMMA StepHonest == Honest /\ [Next]_vars => Honest'
<1>. SUFFICES ASSUME Honest, [Next]_vars
              PROVE  Claims'
  BY StepTyped DEF Honest
<1>0. /\ TypeOK /\ Len(commands) \in Nat /\ DOMAIN commands = 1 .. Len(commands)
      /\ Len(commands) <= MaxCommands /\ performed \in [Id -> Nat] /\ faults \in Nat
  <2>1. TypeOK
    BY DEF Honest
  <2>2. performed \in [Id -> Nat] /\ faults \in 0 .. MaxFaults
    BY <2>1 DEF TypeOK
  <2>. QED
    BY <2>1, <2>2, TableFacts
<1>1. ASSUME NEW t \in Type, IssueCommand(t)
      PROVE  Claims'
  <2>. DEFINE n == Len(commands) + 1
  <2>1. /\ Len(commands') = n /\ DOMAIN commands' = 1 .. n
        /\ \A i \in 1 .. Len(commands) : commands'[i] = commands[i]
        /\ commands'[n].status = "pending"
    BY <1>0, <1>1 DEF IssueCommand, TypeOK
  <2>2. UNCHANGED <<agent, overdue, performed, faults>>
    BY <1>1 DEF IssueCommand
  <2>3. n \in Id /\ performed[n] = 0 /\ n > Len(commands)
    <3>1. n \in Id /\ n > Len(commands)
      BY <1>0, <1>1, Numbers DEF IssueCommand, Id
    <3>. QED
      BY <3>1 DEF Honest, Claims, OnlyIssuedIsPerformed
  <2>4. \A i \in 1 .. n : i \in 1 .. Len(commands) \/ i = n
    BY <1>0
  <2>. HIDE DEF n
  <2>5. ExecutedIsPerformed'
    BY <1>0, <2>1, <2>2, <2>4 DEF Honest, Claims, ExecutedIsPerformed
  <2>6. RepliesAreTrue' /\ OverdueIsTrue'
    BY <2>2 DEF Honest, Claims, RepliesAreTrue, OverdueIsTrue
  <2>7. OnlyIssuedIsPerformed'
    <3>1. \A i \in Id : i > n => i > Len(commands)
      BY <1>0 DEF n, Id
    <3>. QED
      BY <2>1, <2>2, <3>1 DEF Honest, Claims, OnlyIssuedIsPerformed
  <2>8. ASSUME NEW i \in 1 .. Len(commands'), Unanswered(i)', faults' = 0
        PROVE  \E a \in Agent : Answering(a, i)'
    <3>1. i \in 1 .. Len(commands) /\ Unanswered(i) /\ faults = 0
      BY <2>1, <2>2, <2>3, <2>4, <2>8 DEF Unanswered
    <3>2. PICK a \in Agent : Answering(a, i)
      BY <3>1 DEF Honest, Claims
    <3>. QED
      BY <2>2, <3>2 DEF Answering
  <2>. QED
    BY <2>5, <2>6, <2>7, <2>8 DEF Claims
<1>2. ASSUME NEW i \in DOMAIN commands, Expire(i)
      PROVE  Claims'
  <2>1. /\ Len(commands') = Len(commands) /\ DOMAIN commands' = 1 .. Len(commands)
        /\ \A j \in 1 .. Len(commands) : commands'[j].status = commands[j].status
    <3>. DEFINE new == [commands[i] EXCEPT !.stale = TRUE]
    <3>1. new.status = commands[i].status
      BY <1>0, TableFacts DEF Command
    <3>2. commands' = [commands EXCEPT ![i] = new]
      BY <1>2 DEF Expire
    <3>. HIDE DEF new
    <3>. QED
      BY <1>0, <3>1, <3>2, TableFacts DEF TypeOK
  <2>2. UNCHANGED <<agent, overdue, performed, faults>>
    BY <1>2 DEF Expire
  <2>. QED
    BY <2>1, <2>2, ClaimsKept
<1>3. ASSUME UNCHANGED <<commands, overdue, performed>>,
             faults' = 0 => faults = 0 /\ \A a \in Agent : agent[a].at = "reply" => agent'[a] = agent[a],
             \A a \in Agent : agent'[a].at = "reply" => agent'[a] = agent[a]
      PROVE  Claims'
  BY <1>0, <1>3, ClaimsKept
<1>4. ASSUME NEW new \in SUBSET Gated, ChangeOnTheWeb(new) \/ SaveSettings(new)
      PROVE  Claims'
  BY <1>3, <1>4 DEF ChangeOnTheWeb, SaveSettings
<1>5. CASE LoadSettings \/ UpdatePolicy \/ LoseAnswer \/ StartWithDefaults
  BY <1>0, <1>3, <1>5 DEF LoadSettings, UpdatePolicy, LoseAnswer, StartWithDefaults, Fault
<1>6. ASSUME NEW a \in Agent, agent[a] = Idle, Becomes(a, Poll),
             UNCHANGED <<commands, overdue, performed>>, faults' = 0 => faults = 0
      PROVE  Claims'
  <2>1. \A b \in Agent : b # a => agent'[b] = agent[b]
    BY <1>0, <1>6, OneAgent
  <2>2. agent'[a].at = "poll" /\ agent[a].at = "idle"
    BY <1>0, <1>6, OneAgent DEF Idle, Poll
  <2>. QED
    BY <1>3, <1>6, <2>1, <2>2
<1>7. CASE PollNow
  BY <1>6, <1>7 DEF PollNow, Becomes, Agent
<1>8. ASSUME NEW a \in Headless, RunHeadless(a)
      PROVE  Claims'
  <2>1. a \in Agent /\ agent[a] = Idle /\ Becomes(a, Poll)
    BY <1>8 DEF RunHeadless, Becomes, Agent
  <2>2. UNCHANGED <<commands, overdue, performed>> /\ (faults' = 0 => faults = 0)
    BY <1>0, <1>8 DEF RunHeadless, Fault
  <2>. QED
    BY <1>6, <2>1, <2>2
<1>9. ASSUME NEW a \in Agent, FetchPendingCommands(a) \/ FetchFails(a)
      PROVE  Claims'
  <2>1. \A b \in Agent : b # a => agent'[b] = agent[b]
    BY <1>0, <1>9, OneAgent DEF FetchPendingCommands, FetchFails, Proceed, Becomes
  <2>2. agent'[a].at # "reply" /\ agent[a].at # "reply"
    <3>1. PICK rest : Becomes(a, Rest(rest))
      BY <1>9 DEF FetchPendingCommands, FetchFails, Proceed, Becomes, Rest
    <3>2. Rest(rest).at # "reply"
      BY DEF Rest, Idle
    <3>3. agent[a].at = "poll"
      BY <1>9, NoWork DEF FetchPendingCommands, FetchFails
    <3>. QED
      BY <1>0, <3>1, <3>2, <3>3, OneAgent
  <2>3. /\ Len(commands') = Len(commands) /\ DOMAIN commands' = 1 .. Len(commands)
        /\ \A i \in 1 .. Len(commands) :
             /\ commands'[i].status = "executed" => commands[i].status = "executed"
             /\ commands'[i].status \in {"pending", "expired"} =>
                  commands[i].status \in {"pending", "expired"}
    <3>1. commands' = commands \/ commands' = Settled
      BY <1>9 DEF FetchPendingCommands, FetchFails
    <3>2. /\ Len(Settled) = Len(commands) /\ DOMAIN Settled = 1 .. Len(commands)
          /\ \A i \in 1 .. Len(commands) :
               /\ Settled[i].status = "executed" => commands[i].status = "executed"
               /\ Settled[i].status \in {"pending", "expired"} =>
                    commands[i].status \in {"pending", "expired"}
      BY <1>0, SettledFacts
    <3>. QED
      BY <1>0, <3>1, <3>2
  <2>4. UNCHANGED <<overdue, performed>> /\ (faults' = 0 => faults = 0)
    BY <1>0, <1>9 DEF FetchPendingCommands, FetchFails, Fault
  <2>. QED
    BY <2>1, <2>2, <2>3, <2>4, ClaimsKept
<1>10. ASSUME NEW a \in Agent, ExecuteCommand(a)
       PROVE  Claims'
  <2>1. agent[a].at = "run" /\ UNCHANGED <<commands, overdue, faults>>
    BY <1>0, <1>10, Executes
  <2>2. PICK i \in agent[a].todo :
          \/ Leaves(a, i)
          \/ \E verdict \in {"executed", "failed"}, spare \in 0 .. 2 :
               Tells(a, i, verdict, spare)
    BY <1>0, <1>10, Executes
  <2>3. CASE Leaves(a, i)
    <3>1. \A b \in Agent : b # a => agent'[b] = agent[b]
      BY <1>0, <2>3, OneAgent DEF Leaves
    <3>2. agent'[a].at # "reply" /\ performed' = performed
      BY <1>0, <2>3, OneAgent DEF Leaves, Rest, Idle
    <3>. QED
      BY <1>3, <2>1, <3>1, <3>2
  <2>4. CASE \E verdict \in {"executed", "failed"}, spare \in 0 .. 2 :
               Tells(a, i, verdict, spare)
    BY <2>1, <2>4, TellsHonest
  <2>. QED
    BY <2>2, <2>3, <2>4
<1>11. ASSUME NEW a \in Agent, Answer(a)
       PROVE  Claims'
  <2>1. /\ agent[a].at = "reply" /\ agent[a].id \in 1 .. Len(commands)
        /\ agent[a].verdict \in {"executed", "failed"}
        /\ AckCommand(agent[a].id, agent[a].verdict)
        /\ UNCHANGED <<overdue, performed, faults>>
    BY <1>0, <1>11, AtReply DEF Answer
  <2>2. agent[a].verdict = "executed" => performed[agent[a].id] > 0
    BY <2>1 DEF Honest, Claims, RepliesAreTrue
  <2>3. \A b \in Agent : b # a => agent'[b] = agent[b]
    BY <1>0, <1>11, OneAgent DEF Answer, Proceed, Becomes
  <2>4. agent'[a].at # "reply"
    BY <1>0, <1>11, OneAgent DEF Answer, Proceed, Becomes, Idle
  <2>. QED
    BY <2>1, <2>2, <2>3, <2>4, AckHonest
<1>12. ASSUME NEW a \in Agent, AnswerThrows(a)
       PROVE  Claims'
  <2>1. /\ agent[a].at = "reply" /\ faults' # 0
        /\ UNCHANGED <<commands, performed>>
        /\ overdue' = overdue \cup {[id |-> agent[a].id, verdict |-> agent[a].verdict]}
    BY <1>0, <1>12 DEF AnswerThrows, Fault
  <2>2. \A b \in Agent : b # a => agent'[b] = agent[b]
    BY <1>0, <1>12, OneAgent DEF AnswerThrows, Proceed, Turn, Becomes
  <2>3. agent'[a].at = "reply" => agent'[a].verdict = "failed"
    <3>1. CASE agent[a].spare = 0
      <4>1. Becomes(a, Rest(agent[a].todo))
        BY <1>12, <3>1 DEF AnswerThrows, Proceed, Becomes, Rest
      <4>2. Rest(agent[a].todo).at # "reply"
        BY DEF Rest, Idle
      <4>. QED
        BY <1>0, <4>1, <4>2, OneAgent
    <3>2. CASE agent[a].spare # 0
      <4>1. \E rest, i, spare : Becomes(a, Said(rest, i, "failed", spare))
        BY <1>12, <3>2 DEF AnswerThrows, Turn, Becomes, Said
      <4>. QED
        BY <1>0, <4>1, OneAgent DEF Said
    <3>. QED
      BY <3>1, <3>2
  <2>4. RepliesAreTrue'
    BY <2>1, <2>2, <2>3 DEF Honest, Claims, RepliesAreTrue
  <2>5. OverdueIsTrue'
    BY <2>1 DEF Honest, Claims, RepliesAreTrue, OverdueIsTrue
  <2>6. ExecutedIsPerformed' /\ OnlyIssuedIsPerformed'
    BY <2>1 DEF Honest, Claims, ExecutedIsPerformed, OnlyIssuedIsPerformed
  <2>. QED
    BY <2>1, <2>4, <2>5, <2>6 DEF Claims
<1>13. ASSUME NEW m \in overdue, Overdue(m)
       PROVE  Claims'
  <2>1. m.id \in 1 .. Len(commands) /\ m.verdict \in {"executed", "failed"}
    BY <1>0, OverdueType
  <2>2. m.verdict = "executed" => performed[m.id] > 0
    BY DEF Honest, Claims, OverdueIsTrue
  <2>3. /\ AckCommand(m.id, m.verdict) /\ UNCHANGED <<agent, performed, faults>>
        /\ \A x \in overdue' : x \in overdue
    BY <1>13 DEF Overdue
  <2>. QED
    BY <2>1, <2>2, <2>3, AckHonest
<1>14. ASSUME NEW a \in Agent, Killed(a)
       PROVE  Claims'
  <2>1. \A b \in Agent : b # a => agent'[b] = agent[b]
    BY <1>0, <1>14, OneAgent DEF Killed, Becomes
  <2>2. agent'[a].at # "reply"
    <3>1. Becomes(a, Idle)
      BY <1>14 DEF Killed, Becomes
    <3>. QED
      BY <1>0, <3>1, OneAgent, NoWork
  <2>3. UNCHANGED <<commands, overdue, performed>> /\ faults' # 0
    BY <1>0, <1>14 DEF Killed, Fault
  <2>. QED
    BY <1>3, <2>1, <2>2, <2>3
<1>15. ASSUME NEW a \in Agent, Strand(a) \/ Release(a)
       PROVE  Claims'
  <2>1. UNCHANGED <<commands, agent, overdue, performed>> /\ (faults' = 0 => faults = 0)
    BY <1>0, <1>15 DEF Strand, Release, Fault
  <2>. QED
    BY <1>3, <2>1
<1>16. CASE UNCHANGED vars
  BY <1>3, <1>16 DEF vars
<1>. QED
  BY <1>1, <1>2, <1>4, <1>5, <1>7, <1>8, <1>9, <1>10, <1>11, <1>12, <1>13, <1>14,
     <1>15, <1>16 DEF Next

\* Whichever answers are late and whichever agents overlap: what is marked as
\* executed was done.
THEOREM ExecutedIsAlwaysPerformed == Spec => []ExecutedIsPerformed
BY InitHonest, StepHonest, PTL DEF Spec, Honest, Claims

LEMMA HonestAnswers == Honest => PerformedIsAnswered
BY TableFacts DEF Honest, Claims, PerformedIsAnswered, Unanswered

\* Until the first fault, a command that was done is answered, or is about to be.
THEOREM PerformedIsAlwaysAnswered == Spec => []PerformedIsAnswered
BY InitHonest, StepHonest, HonestAnswers, PTL DEF Spec

-----------------------------------------------------------------------------
(***************************************************************************)
(* How often a command is performed.  While it is open, every performance  *)
(* has its agent still answering, or a fault that ended the answer; so at  *)
(* the moment it is settled the agents that hold it can perform it no more *)
(* often than there are agents left.                                       *)
(***************************************************************************)
AnsweringIn(f, i) == {a \in Agent : f[a].at = "reply" /\ f[a].id = i}
Holding(f, i)     == {a \in Agent : f[a].at \in {"run", "reply"} /\ i \in f[a].todo}
OpenIn(c, i)      == c[i].status = "pending" /\ ~c[i].stale
Fresh(c, i)       == i > Len(c) \/ OpenIn(c, i)

EveryRepetition ==
  \A i \in Id : performed[i] + Cardinality(Holding(agent, i)) <= Cardinality(Agent) + faults

OpenRepetition ==
  \A i \in Id : Fresh(commands, i) =>
    performed[i] <= Cardinality(AnsweringIn(agent, i)) + faults

Bounded == TypeOK /\ EveryRepetition /\ OpenRepetition

\* Sizes of sets of agents.
LEMMA AgentSets ==
  ASSUME NEW f, NEW i, NEW S \in {AnsweringIn(f, i), Holding(f, i)}
  PROVE  IsFiniteSet(S) /\ Cardinality(S) \in Nat
<1>1. S \subseteq Agent
  BY DEF AnsweringIn, Holding
<1>. QED
  BY <1>1, Numbers, FS_Subset, FS_CardinalityType

LEMMA Fewer ==
  ASSUME NEW S, NEW T, IsFiniteSet(S), T \subseteq S
  PROVE  Cardinality(T) <= Cardinality(S)
BY FS_Subset

LEMMA OneOff ==
  ASSUME NEW S, NEW T, NEW a, IsFiniteSet(S), IsFiniteSet(T), S \subseteq T \cup {a}
  PROVE  Cardinality(S) <= Cardinality(T) + 1
<1>1. /\ IsFiniteSet(T \cup {a})
      /\ Cardinality(T \cup {a}) = IF a \in T THEN Cardinality(T) ELSE Cardinality(T) + 1
  BY ONLY IsFiniteSet(T), FS_AddElement
<1>2. Cardinality(S) <= Cardinality(T \cup {a})
  BY <1>1, FS_Subset
<1>3. Cardinality(T) \in Nat /\ Cardinality(S) \in Nat
  BY FS_CardinalityType
<1>. QED
  BY <1>1, <1>2, <1>3

LEMMA StrictlyFewer ==
  ASSUME NEW S, NEW T, NEW a \in T, IsFiniteSet(T), S \subseteq T \ {a}
  PROVE  Cardinality(S) + 1 <= Cardinality(T)
<1>1. /\ IsFiniteSet(T \ {a}) /\ Cardinality(T) \in Nat
      /\ Cardinality(T \ {a}) = Cardinality(T) - 1
  BY FS_RemoveElement, FS_CardinalityType
<1>2. Cardinality(S) <= Cardinality(T \ {a}) /\ Cardinality(S) \in Nat
  BY <1>1, FS_Subset, FS_CardinalityType
<1>. QED
  BY <1>1, <1>2

\* No agent answers a command that it still has on its list.
LEMMA AnsweringOrHolding ==
  ASSUME NEW f, NEW n, \A a \in Agent : PlaceOK(f[a], n), NEW i
  PROVE  Cardinality(AnsweringIn(f, i)) + Cardinality(Holding(f, i)) <= Cardinality(Agent)
<1>1. AnsweringIn(f, i) \cap Holding(f, i) = {}
  BY KindOfPlace DEF AnsweringIn, Holding, PlaceOK
<1>2. AnsweringIn(f, i) \cup Holding(f, i) \subseteq Agent
  BY DEF AnsweringIn, Holding
<1>3. /\ Cardinality(AnsweringIn(f, i) \cup Holding(f, i))
           = Cardinality(AnsweringIn(f, i)) + Cardinality(Holding(f, i))
      /\ Cardinality(AnsweringIn(f, i) \cup Holding(f, i)) <= Cardinality(Agent)
  <2>1. IsFiniteSet(AnsweringIn(f, i)) /\ IsFiniteSet(Holding(f, i))
    BY AgentSets
  <2>2. Cardinality(AnsweringIn(f, i) \cap Holding(f, i)) = 0
    BY <1>1, FS_EmptySet
  <2>3. Cardinality(AnsweringIn(f, i) \cup Holding(f, i))
          = Cardinality(AnsweringIn(f, i)) + Cardinality(Holding(f, i))
            - Cardinality(AnsweringIn(f, i) \cap Holding(f, i))
    BY <2>1, FS_Union
  <2>. QED
    BY <1>2, <2>2, <2>3, Numbers, Fewer, AgentSets
<1>. QED
  BY <1>3

LEMMA InitBounded == Init => Bounded
<1>. SUFFICES ASSUME Init, NEW i \in Id
              PROVE  /\ performed[i] + Cardinality(Holding(agent, i))
                          <= Cardinality(Agent) + faults
                     /\ performed[i] <= Cardinality(AnsweringIn(agent, i)) + faults
  BY InitTyped DEF Bounded, EveryRepetition, OpenRepetition
<1>1. performed[i] = 0 /\ faults = 0
  BY DEF Init
<1>2. Holding(agent, i) = {}
  BY DEF Init, Holding, Idle
<1>. QED
  BY <1>1, <1>2, Numbers, AgentSets, FS_EmptySet

\* Nothing is performed; an agent stops answering an open command only with a fault.
LEMMA BoundedKept ==
  ASSUME Bounded, NEW a \in Agent, performed' = performed, faults' \in {faults, faults + 1},
         \A i \in Id : Holding(agent', i) \subseteq Holding(agent, i),
         \A i \in Id : Fresh(commands', i) =>
           /\ Fresh(commands, i)
           /\ \/ AnsweringIn(agent, i) \subseteq AnsweringIn(agent', i)
              \/ /\ faults' = faults + 1
                 /\ AnsweringIn(agent, i) \subseteq AnsweringIn(agent', i) \cup {a}
  PROVE  EveryRepetition' /\ OpenRepetition'
<1>0. faults \in 0 .. MaxFaults /\ performed \in [Id -> Nat]
  BY DEF Bounded, TypeOK
<1>1. ASSUME NEW i \in Id
      PROVE  performed[i] + Cardinality(Holding(agent', i)) <= Cardinality(Agent) + faults'
  <2>1. Cardinality(Holding(agent', i)) <= Cardinality(Holding(agent, i))
    BY AgentSets, Fewer
  <2>2. /\ Cardinality(Holding(agent', i)) \in Nat /\ Cardinality(Holding(agent, i)) \in Nat
    BY AgentSets
  <2>3. performed[i] + Cardinality(Holding(agent, i)) <= Cardinality(Agent) + faults
    BY DEF Bounded, EveryRepetition
  <2>. QED
    BY <1>0, <2>1, <2>2, <2>3, Numbers
<1>2. ASSUME NEW i \in Id, Fresh(commands', i)
      PROVE  performed[i] <= Cardinality(AnsweringIn(agent', i)) + faults'
  <2>1. performed[i] <= Cardinality(AnsweringIn(agent, i)) + faults
    BY <1>2 DEF Bounded, OpenRepetition
  <2>2. /\ IsFiniteSet(AnsweringIn(agent', i)) /\ Cardinality(AnsweringIn(agent', i)) \in Nat
        /\ IsFiniteSet(AnsweringIn(agent, i)) /\ Cardinality(AnsweringIn(agent, i)) \in Nat
    BY AgentSets
  <2>3. CASE AnsweringIn(agent, i) \subseteq AnsweringIn(agent', i)
    <3>1. Cardinality(AnsweringIn(agent, i)) <= Cardinality(AnsweringIn(agent', i))
      BY <2>2, <2>3, Fewer
    <3>. QED
      BY <1>0, <2>1, <2>2, <3>1
  <2>4. CASE /\ faults' = faults + 1
             /\ AnsweringIn(agent, i) \subseteq AnsweringIn(agent', i) \cup {a}
    <3>1. Cardinality(AnsweringIn(agent, i)) <= Cardinality(AnsweringIn(agent', i)) + 1
      BY <2>2, <2>4, OneOff
    <3>. QED
      BY <1>0, <2>1, <2>2, <2>4, <3>1
  <2>. QED
    BY <1>2, <2>3, <2>4
<1>. QED
  BY <1>1, <1>2 DEF EveryRepetition, OpenRepetition

\* The steps that leave the table to itself, and the agents but for a.
LEMMA AgentKept ==
  ASSUME Bounded, NEW a \in Agent, performed' = performed, commands' = commands,
         \A b \in Agent : b # a => agent'[b] = agent[b],
         agent'[a].at \in {"run", "reply"} =>
           agent[a].at \in {"run", "reply"} /\ agent'[a].todo \subseteq agent[a].todo,
         \/ /\ faults' \in {faults, faults + 1}
            /\ agent[a].at = "reply" => agent'[a].at = "reply" /\ agent'[a].id = agent[a].id
         \/ faults' = faults + 1
  PROVE  EveryRepetition' /\ OpenRepetition'
<1>1. \A i \in Id : Holding(agent', i) \subseteq Holding(agent, i)
  BY DEF Holding
<1>2. ASSUME NEW i \in Id
      PROVE  \/ AnsweringIn(agent, i) \subseteq AnsweringIn(agent', i)
             \/ /\ faults' = faults + 1
                /\ AnsweringIn(agent, i) \subseteq AnsweringIn(agent', i) \cup {a}
  BY DEF AnsweringIn
<1>. QED
  BY <1>1, <1>2, BoundedKept

LEMMA PlacesAfter ==
  ASSUME TypeOK'
  PROVE  \A a \in Agent : PlaceOK(agent'[a], Len(commands'))
<1>1. DOMAIN commands' = 1 .. Len(commands')
  BY DEF TypeOK
<1>. QED
  BY <1>1 DEF TypeOK, PlaceOK, Place

\* The commands a fetch brings are open: no settled one is fetched again.
LEMMA FetchBounded ==
  ASSUME Bounded, TypeOK', NEW a \in Agent, FetchPendingCommands(a)
  PROVE  EveryRepetition' /\ OpenRepetition'
<1>0. /\ TypeOK /\ TypeOK' /\ DOMAIN commands = 1 .. Len(commands)
      /\ \A b \in Agent : PlaceOK(agent'[b], Len(commands'))
  BY TableFacts, PlacesAfter DEF Bounded
<1>1. /\ agent[a] = Poll /\ commands' = Settled /\ Becomes(a, Rest(Deliverable))
      /\ UNCHANGED <<performed, faults>>
  BY DEF FetchPendingCommands, Proceed, Becomes, Rest
<1>2. /\ \A b \in Agent : b # a => agent'[b] = agent[b]
      /\ agent'[a] = Rest(Deliverable)
  BY <1>0, <1>1, OneAgent
<1>3. /\ agent[a].at = "poll" /\ agent'[a].at # "reply"
      /\ agent'[a].at = "run" => agent'[a].todo = Deliverable
  BY <1>1, <1>2, NoWork DEF Rest, Idle
<1>4. ASSUME NEW i \in Id
      PROVE  Fresh(commands', i) => Fresh(commands, i)
  BY <1>0, <1>1, SettledFacts DEF Fresh, OpenIn, Id
<1>5. \A i \in Id : AnsweringIn(agent', i) = AnsweringIn(agent, i)
  BY <1>2, <1>3 DEF AnsweringIn
<1>6. OpenRepetition'
  BY <1>1, <1>4, <1>5 DEF Bounded, OpenRepetition
<1>7. ASSUME NEW i \in Id
      PROVE  performed[i] + Cardinality(Holding(agent', i)) <= Cardinality(Agent) + faults
  <2>0. performed[i] \in Nat /\ faults \in Nat
    <3>1. faults \in 0 .. MaxFaults /\ performed \in [Id -> Nat]
      BY <1>0 DEF TypeOK
    <3>. QED
      BY <3>1
  <2>1. CASE i \in Deliverable
    <3>1. performed[i] <= Cardinality(AnsweringIn(agent', i)) + faults
      BY <1>5, <2>1 DEF Bounded, OpenRepetition, Fresh, OpenIn, Deliverable
    <3>2. Cardinality(AnsweringIn(agent', i)) + Cardinality(Holding(agent', i))
            <= Cardinality(Agent)
      BY <1>0, AnsweringOrHolding
    <3>3. /\ Cardinality(AnsweringIn(agent', i)) \in Nat
          /\ Cardinality(Holding(agent', i)) \in Nat
      BY AgentSets
    <3>. QED
      BY <2>0, <3>1, <3>2, <3>3, Numbers
  <2>2. CASE i \notin Deliverable
    <3>1. Holding(agent', i) \subseteq Holding(agent, i)
      BY <1>2, <1>3, <2>2 DEF Holding
    <3>2. Cardinality(Holding(agent', i)) <= Cardinality(Holding(agent, i))
      BY <3>1, AgentSets, Fewer
    <3>3. /\ Cardinality(Holding(agent', i)) \in Nat
          /\ Cardinality(Holding(agent, i)) \in Nat
      BY AgentSets
    <3>4. performed[i] + Cardinality(Holding(agent, i)) <= Cardinality(Agent) + faults
      BY DEF Bounded, EveryRepetition
    <3>. QED
      BY <2>0, <3>2, <3>3, <3>4, Numbers
  <2>. QED
    BY <2>1, <2>2
<1>. QED
  BY <1>1, <1>6, <1>7 DEF EveryRepetition

\* A performance takes the command off the agent's list, and the agent answers.
LEMMA PerformanceBounded ==
  ASSUME Bounded, NEW a \in Agent, agent[a].at = "run", NEW i \in agent[a].todo,
         NEW spare \in 0 .. 2, Tells(a, i, "executed", spare), UNCHANGED <<commands, faults>>
  PROVE  EveryRepetition' /\ OpenRepetition'
<1>0. /\ TypeOK /\ performed \in [Id -> Nat] /\ faults \in 0 .. MaxFaults
  BY DEF Bounded, TypeOK
<1>1. i \in Id
  BY <1>0, TableFacts, Places, KindOfPlace DEF PlaceOK
<1>2. /\ \A b \in Agent : b # a => agent'[b] = agent[b]
      /\ agent'[a].at = "reply" /\ agent'[a].id = i /\ agent'[a].todo = agent[a].todo \ {i}
  BY <1>0, OneAgent DEF Tells, Said
<1>3. /\ performed'[i] = performed[i] + 1
      /\ \A j \in Id : j # i => performed'[j] = performed[j]
  BY <1>0, <1>1 DEF Tells
<1>4. ASSUME NEW j \in Id
      PROVE  /\ Cardinality(Holding(agent', j)) <= Cardinality(Holding(agent, j))
             /\ Cardinality(AnsweringIn(agent, j)) <= Cardinality(AnsweringIn(agent', j))
             /\ Cardinality(Holding(agent, j)) \in Nat
             /\ Cardinality(Holding(agent', j)) \in Nat
             /\ Cardinality(AnsweringIn(agent, j)) \in Nat
             /\ Cardinality(AnsweringIn(agent', j)) \in Nat
  <2>1. Holding(agent', j) \subseteq Holding(agent, j)
    BY <1>2 DEF Holding
  <2>2. AnsweringIn(agent, j) \subseteq AnsweringIn(agent', j)
    BY <1>2 DEF AnsweringIn
  <2>. QED
    BY <2>1, <2>2, AgentSets, Fewer
<1>5. Cardinality(Holding(agent', i)) + 1 <= Cardinality(Holding(agent, i))
  <2>1. a \in Holding(agent, i) /\ Holding(agent', i) \subseteq Holding(agent, i) \ {a}
    BY <1>2 DEF Holding
  <2>. QED
    BY <2>1, AgentSets, StrictlyFewer
<1>6. Cardinality(AnsweringIn(agent, i)) + 1 <= Cardinality(AnsweringIn(agent', i))
  <2>1. /\ a \in AnsweringIn(agent', i)
        /\ AnsweringIn(agent, i) \subseteq AnsweringIn(agent', i) \ {a}
    BY <1>2 DEF AnsweringIn
  <2>. QED
    BY <2>1, AgentSets, StrictlyFewer
<1>7. ASSUME NEW j \in Id
      PROVE  performed'[j] + Cardinality(Holding(agent', j)) <= Cardinality(Agent) + faults
  <2>1. performed[j] + Cardinality(Holding(agent, j)) <= Cardinality(Agent) + faults
    BY DEF Bounded, EveryRepetition
  <2>2. performed[j] \in Nat /\ faults \in Nat
    BY <1>0
  <2>3. CASE j = i
    BY <1>3, <1>4, <1>5, <2>1, <2>2, <2>3, Numbers
  <2>4. CASE j # i
    BY <1>3, <1>4, <2>1, <2>2, <2>4, Numbers
  <2>. QED
    BY <2>3, <2>4
<1>8. ASSUME NEW j \in Id, Fresh(commands, j)
      PROVE  performed'[j] <= Cardinality(AnsweringIn(agent', j)) + faults
  <2>1. performed[j] <= Cardinality(AnsweringIn(agent, j)) + faults
    BY <1>8 DEF Bounded, OpenRepetition
  <2>2. performed[j] \in Nat /\ faults \in Nat
    BY <1>0
  <2>3. CASE j = i
    BY <1>3, <1>4, <1>6, <2>1, <2>2, <2>3
  <2>4. CASE j # i
    BY <1>3, <1>4, <2>1, <2>2, <2>4
  <2>. QED
    BY <2>3, <2>4
<1>. QED
  BY <1>7, <1>8 DEF EveryRepetition, OpenRepetition

LEMMA StepBounded == Bounded /\ [Next]_vars => Bounded'
<1>. SUFFICES ASSUME Bounded, [Next]_vars
              PROVE  EveryRepetition' /\ OpenRepetition'
  BY StepTyped DEF Bounded
<1>0. /\ TypeOK /\ TypeOK' /\ Len(commands) \in Nat /\ DOMAIN commands = 1 .. Len(commands)
      /\ faults \in Nat /\ Foreground \in Agent /\ Headless \subseteq Agent
  <2>1. TypeOK /\ TypeOK'
    BY StepTyped DEF Bounded
  <2>2. faults \in 0 .. MaxFaults
    BY <2>1 DEF TypeOK
  <2>. QED
    BY <2>1, <2>2, TableFacts DEF Agent
<1>1. ASSUME UNCHANGED <<agent, performed>>, faults' \in {faults, faults + 1},
             \A i \in Id : Fresh(commands', i) => Fresh(commands, i)
      PROVE  EveryRepetition' /\ OpenRepetition'
  BY <1>0, <1>1, BoundedKept
<1>2. ASSUME NEW t \in Type, IssueCommand(t)
      PROVE  EveryRepetition' /\ OpenRepetition'
  <2>1. ASSUME NEW i \in Id, Fresh(commands', i)
        PROVE  Fresh(commands, i)
    <3>1. /\ Len(commands') = Len(commands) + 1
          /\ \A j \in 1 .. Len(commands) : commands'[j] = commands[j]
      BY <1>0, <1>2 DEF IssueCommand, TypeOK
    <3>2. i \in 1 .. Len(commands) \/ i > Len(commands)
      BY <1>0 DEF Id
    <3>. QED
      BY <1>0, <2>1, <3>1, <3>2 DEF Fresh, OpenIn, Id
  <2>. QED
    BY <1>1, <1>2, <2>1 DEF IssueCommand
<1>3. ASSUME NEW i \in DOMAIN commands, Expire(i)
      PROVE  EveryRepetition' /\ OpenRepetition'
  <2>1. ASSUME NEW j \in Id, Fresh(commands', j)
        PROVE  Fresh(commands, j)
    <3>1. OpenIn(commands, i)
      BY <1>3 DEF Expire, OpenIn
    <3>2. commands' = [commands EXCEPT ![i] = [commands[i] EXCEPT !.stale = TRUE]]
      BY <1>3 DEF Expire
    <3>3. /\ Len(commands') = Len(commands)
          /\ \A k \in 1 .. Len(commands) : k # i => commands'[k] = commands[k]
      BY <1>0, <3>2 DEF TypeOK
    <3>4. j \in 1 .. Len(commands) \/ j > Len(commands)
      BY <1>0 DEF Id
    <3>. QED
      BY <1>0, <2>1, <3>1, <3>3, <3>4 DEF Fresh, OpenIn
  <2>. QED
    BY <1>1, <1>3, <2>1 DEF Expire
<1>4. ASSUME NEW new \in SUBSET Gated, ChangeOnTheWeb(new) \/ SaveSettings(new)
      PROVE  EveryRepetition' /\ OpenRepetition'
  <2>1. UNCHANGED <<commands, agent, performed, faults>>
    BY <1>4 DEF ChangeOnTheWeb, SaveSettings
  <2>. QED
    BY <1>1, <2>1
<1>5. CASE LoadSettings \/ UpdatePolicy \/ LoseAnswer \/ StartWithDefaults
  <2>1. UNCHANGED <<commands, agent, performed>> /\ faults' \in {faults, faults + 1}
    BY <1>5 DEF LoadSettings, UpdatePolicy, LoseAnswer, StartWithDefaults, Fault
  <2>. QED
    BY <1>1, <2>1
<1>6. ASSUME NEW a \in Agent, agent[a] = Idle, Becomes(a, Poll),
             UNCHANGED <<commands, performed>>, faults' \in {faults, faults + 1}
      PROVE  EveryRepetition' /\ OpenRepetition'
  <2>1. \A b \in Agent : b # a => agent'[b] = agent[b]
    BY <1>0, <1>6, OneAgent
  <2>2. agent'[a].at = "poll" /\ agent[a].at = "idle"
    BY <1>0, <1>6, OneAgent, NoWork
  <2>. QED
    BY <1>6, <2>1, <2>2, AgentKept
<1>7. CASE PollNow
  BY <1>0, <1>6, <1>7 DEF PollNow, Becomes
<1>8. ASSUME NEW a \in Headless, RunHeadless(a)
      PROVE  EveryRepetition' /\ OpenRepetition'
  <2>1. a \in Agent /\ agent[a] = Idle /\ Becomes(a, Poll)
    BY <1>0, <1>8 DEF RunHeadless, Becomes
  <2>2. UNCHANGED <<commands, performed>> /\ faults' \in {faults, faults + 1}
    BY <1>8 DEF RunHeadless, Fault
  <2>. QED
    BY <1>6, <2>1, <2>2
<1>9. ASSUME NEW a \in Agent, FetchFails(a)
      PROVE  EveryRepetition' /\ OpenRepetition'
  <2>1. /\ Becomes(a, Idle) /\ agent[a] = Poll /\ faults' = faults + 1
        /\ performed' = performed /\ (commands' = commands \/ commands' = Settled)
    BY <1>9 DEF FetchFails, Proceed, Becomes, Fault
  <2>2. /\ \A b \in Agent : b # a => agent'[b] = agent[b]
        /\ agent'[a].at = "idle" /\ agent[a].at = "poll"
    BY <1>0, <2>1, OneAgent, NoWork
  <2>3. ASSUME NEW i \in Id, Fresh(commands', i)
        PROVE  Fresh(commands, i)
    BY <1>0, <2>1, <2>3, SettledFacts DEF Fresh, OpenIn, Id
  <2>4. \A i \in Id : /\ Holding(agent', i) \subseteq Holding(agent, i)
                      /\ AnsweringIn(agent, i) \subseteq AnsweringIn(agent', i)
    BY <2>2 DEF Holding, AnsweringIn
  <2>. QED
    BY <2>1, <2>3, <2>4, BoundedKept
<1>10. ASSUME NEW a \in Agent, ExecuteCommand(a)
       PROVE  EveryRepetition' /\ OpenRepetition'
  <2>1. agent[a].at = "run" /\ UNCHANGED <<commands, overdue, faults>>
    BY <1>0, <1>10, Executes
  <2>2. PICK i \in agent[a].todo :
          \/ Leaves(a, i)
          \/ \E verdict \in {"executed", "failed"}, spare \in 0 .. 2 :
               Tells(a, i, verdict, spare)
    BY <1>0, <1>10, Executes
  <2>3. ASSUME Leaves(a, i) \/ \E spare \in 0 .. 2 : Tells(a, i, "failed", spare)
        PROVE  EveryRepetition' /\ OpenRepetition'
    <3>1. /\ performed' = performed
          /\ \A b \in Agent : b # a => agent'[b] = agent[b]
      BY <1>0, <2>3, OneAgent DEF Leaves, Tells
    <3>2. agent'[a].at \in {"run", "reply"} => agent'[a].todo \subseteq agent[a].todo
      BY <1>0, <2>3, OneAgent DEF Leaves, Tells, Rest, Said, Idle
    <3>. QED
      BY <2>1, <3>1, <3>2, AgentKept
  <2>4. ASSUME NEW spare \in 0 .. 2, Tells(a, i, "executed", spare)
        PROVE  EveryRepetition' /\ OpenRepetition'
    BY <2>1, <2>4, PerformanceBounded
  <2>. QED
    BY <2>2, <2>3, <2>4
<1>11. ASSUME NEW a \in Agent, Answer(a)
       PROVE  EveryRepetition' /\ OpenRepetition'
  <2>1. /\ agent[a].at = "reply" /\ agent[a].id \in 1 .. Len(commands)
        /\ agent[a].verdict \in {"executed", "failed"}
        /\ AckCommand(agent[a].id, agent[a].verdict)
        /\ UNCHANGED <<performed, faults>>
    BY <1>0, <1>11, AtReply DEF Answer
  <2>2. Becomes(a, Rest(agent[a].todo))
    BY <1>11 DEF Answer, Proceed, Becomes, Rest
  <2>3. /\ \A b \in Agent : b # a => agent'[b] = agent[b]
        /\ agent'[a] = Rest(agent[a].todo)
    BY <1>0, <2>2, OneAgent
  <2>4. agent'[a].at \in {"run", "reply"} => agent'[a].todo = agent[a].todo
    BY <2>3 DEF Rest, Idle
  <2>5. \A i \in Id : Holding(agent', i) \subseteq Holding(agent, i)
    BY <2>1, <2>3, <2>4 DEF Holding
  <2>6. ASSUME NEW i \in Id, Fresh(commands', i)
        PROVE  Fresh(commands, i) /\ i # agent[a].id
    BY <1>0, <2>1, <2>6, AckFacts DEF Fresh, OpenIn, Id
  <2>7. \A i \in Id : i # agent[a].id => AnsweringIn(agent, i) \subseteq AnsweringIn(agent', i)
    BY <2>3 DEF AnsweringIn
  <2>. QED
    BY <2>1, <2>5, <2>6, <2>7, BoundedKept
<1>12. ASSUME NEW a \in Agent, AnswerThrows(a)
       PROVE  EveryRepetition' /\ OpenRepetition'
  <2>1. /\ agent[a].at = "reply" /\ faults' = faults + 1
        /\ UNCHANGED <<commands, performed>>
    BY <1>12 DEF AnswerThrows, Fault
  <2>2. /\ \A b \in Agent : b # a => agent'[b] = agent[b]
        /\ agent'[a].at \in {"run", "reply"} => agent'[a].todo \subseteq agent[a].todo
    <3>1. CASE agent[a].spare = 0
      <4>1. Becomes(a, Rest(agent[a].todo))
        BY <1>12, <3>1 DEF AnswerThrows, Proceed, Becomes, Rest
      <4>. QED
        BY <1>0, <4>1, OneAgent DEF Rest, Idle
    <3>2. CASE agent[a].spare # 0
      <4>1. \E i, spare : Becomes(a, Said(agent[a].todo \ {i}, i, "failed", spare))
        BY <1>12, <3>2 DEF AnswerThrows, Turn, Becomes, Said
      <4>. QED
        BY <1>0, <4>1, OneAgent DEF Said
    <3>. QED
      BY <3>1, <3>2
  <2>. QED
    BY <2>1, <2>2, AgentKept
<1>13. ASSUME NEW m \in overdue, Overdue(m)
       PROVE  EveryRepetition' /\ OpenRepetition'
  <2>1. /\ m.id \in 1 .. Len(commands) /\ m.verdict \in {"executed", "failed"}
        /\ AckCommand(m.id, m.verdict) /\ UNCHANGED <<agent, performed, faults>>
    BY <1>0, <1>13, OverdueType DEF Overdue
  <2>2. ASSUME NEW i \in Id, Fresh(commands', i)
        PROVE  Fresh(commands, i)
    BY <1>0, <2>1, <2>2, AckFacts DEF Fresh, OpenIn, Id
  <2>. QED
    BY <1>1, <2>1, <2>2
<1>14. ASSUME NEW a \in Agent, Killed(a)
       PROVE  EveryRepetition' /\ OpenRepetition'
  <2>1. /\ Becomes(a, Idle) /\ faults' = faults + 1
        /\ UNCHANGED <<commands, performed>>
    BY <1>14 DEF Killed, Becomes, Fault
  <2>2. /\ \A b \in Agent : b # a => agent'[b] = agent[b]
        /\ agent'[a].at = "idle"
    BY <1>0, <2>1, OneAgent, NoWork
  <2>. QED
    BY <2>1, <2>2, AgentKept
<1>15. ASSUME NEW a \in Agent, Strand(a) \/ Release(a)
       PROVE  EveryRepetition' /\ OpenRepetition'
  <2>1. UNCHANGED <<commands, agent, performed>> /\ faults' \in {faults, faults + 1}
    BY <1>15 DEF Strand, Release, Fault
  <2>. QED
    BY <1>1, <2>1
<1>16. CASE UNCHANGED vars
  BY <1>1, <1>16 DEF vars
<1>. QED
  BY <1>0, <1>2, <1>3, <1>4, <1>5, <1>7, <1>8, <1>9, <1>10, <1>11, <1>12, <1>13,
     <1>14, <1>15, <1>16, FetchBounded DEF Next

LEMMA BoundedBounds == Bounded => RepetitionIsBounded
<1>. SUFFICES ASSUME Bounded, NEW i \in Id
              PROVE  performed[i] <= Cardinality(Agent) + faults
  BY DEF RepetitionIsBounded
<1>1. performed \in [Id -> Nat] /\ faults \in 0 .. MaxFaults
  BY DEF Bounded, TypeOK
<1>2. performed[i] + Cardinality(Holding(agent, i)) <= Cardinality(Agent) + faults
  BY DEF Bounded, EveryRepetition
<1>. QED
  BY <1>1, <1>2, AgentSets, Numbers

\* Each agent performs a command once, and once more for every fault.
THEOREM RepetitionBounded == Spec => []RepetitionIsBounded
BY InitBounded, StepBounded, BoundedBounds, PTL DEF Spec
=============================================================================
