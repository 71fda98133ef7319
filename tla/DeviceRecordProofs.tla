------------------------- MODULE DeviceRecordProofs -------------------------
(***************************************************************************)
(* Proofs about DeviceRecord, for all sets of handlers, accounts and SIMs, *)
(* every bound of the history, every grouping of operations into scenes    *)
(* and all numbers of requests and faults.                                 *)
(***************************************************************************)
EXTENDS DeviceRecord, SequenceTheorems, TLAPS

(***************************************************************************)
(* Where a request can be: what is left of its operation's statements, or  *)
(* an event of a SIM that is still to be written before them.              *)
(***************************************************************************)
Stages ==
  [none     |-> {<<>>},
   register |-> {<<"upsert", "defaults", "invalidate">>,
                 <<"defaults", "invalidate">>, <<"invalidate">>},
   update   |-> {<<"device", "upsert", "invalidate">>,
                 <<"upsert", "invalidate">>, <<"invalidate">>},
   mark     |-> {<<"status", "invalidate">>, <<"invalidate">>},
   command  |-> {<<"device", "settings", "status", "invalidate">>,
                 <<"settings", "status", "invalidate">>,
                 <<"status", "invalidate">>, <<"invalidate">>},
   get      |-> {<<"cached", "device", "fill">>, <<"device", "fill">>, <<"fill">>},
   claim    |-> {<<"claim", "invalidate">>, <<"invalidate">>},
   locate   |-> {<<"device", "insert", "touch", "trim", "commit", "invalidate">>,
                 <<"insert", "touch", "trim", "commit", "invalidate">>,
                 <<"touch", "trim", "commit", "invalidate">>,
                 <<"trim", "commit", "invalidate">>,
                 <<"commit", "invalidate">>, <<"invalidate">>},
   report   |-> {<<"sims", "device", "settings", "upsertSIM", "markAbsent">>,
                 <<"device", "settings", "upsertSIM", "markAbsent">>,
                 <<"settings", "upsertSIM", "markAbsent">>,
                 <<"upsertSIM", "markAbsent">>,
                 <<"simEvent", "upsertSIM", "markAbsent">>,
                 <<"markAbsent">>, <<"removal", "markAbsent">>},
   trust    |-> {<<"settings", "write">>, <<"write">>},
   choose   |-> {<<"settings", "write">>, <<"write">>}]

LEMMA OperationsListed ==
  Operation = {"register", "update", "mark", "command", "get", "claim", "locate",
               "report", "trust", "choose"}
BY DEF Operation, Script

LEMMA ScriptIsAStage ==
  ASSUME NEW op \in Operation
  PROVE  Script[op] \in Stages[op] /\ Script[op] \in Seq(Statement)
<1>1. CASE op = "register"
  BY <1>1 DEF Script, Stages, Statement
<1>2. CASE op = "update"
  BY <1>2 DEF Script, Stages, Statement
<1>3. CASE op = "mark"
  BY <1>3 DEF Script, Stages, Statement
<1>4. CASE op = "command"
  BY <1>4 DEF Script, Stages, Statement
<1>5. CASE op = "get"
  BY <1>5 DEF Script, Stages, Statement
<1>6. CASE op = "claim"
  BY <1>6 DEF Script, Stages, Statement
<1>7. CASE op = "locate"
  BY <1>7 DEF Script, Stages, Statement
<1>8. CASE op = "report"
  BY <1>8 DEF Script, Stages, Statement
<1>9. CASE op = "trust"
  BY <1>9 DEF Script, Stages, Statement
<1>10. CASE op = "choose"
  BY <1>10 DEF Script, Stages, Statement
<1>. QED
  BY <1>1, <1>2, <1>3, <1>4, <1>5, <1>6, <1>7, <1>8, <1>9, <1>10,
     OperationsListed

SIMStatement == {"sims", "upsertSIM", "simEvent", "markAbsent", "removal"}

\* What the order of the statements comes to.
Follows(op, rest) ==
  /\ rest # <<>> /\ rest \in Seq(Statement)
  /\ Head(rest) \in SIMStatement => op = "report"
  /\ Head(rest) = "upsert" => op \in {"register", "update"}
  /\ IF Len(rest) = 1 THEN Head(rest) \in {"invalidate", "fill", "markAbsent", "write"}
     ELSE LET t == Tail(rest) IN
          /\ t \in Stages[op] /\ t # <<>>
          /\ Head(rest) \in {"upsert", "defaults", "status", "claim"} =>
               Head(t) \in {"defaults", "invalidate"}
          /\ Head(t) = "upsert" => op = "update" /\ Head(rest) = "device"
          /\ Head(t) = "trim" => Head(rest) = "touch"
          /\ Head(t) = "commit" => Head(rest) = "trim"
          /\ Head(t) \notin {"sims", "simEvent", "removal"}

LEMMA StageFollows ==
  ASSUME NEW op \in Operation, NEW rest \in Stages[op]
  PROVE  Follows(op, rest)
<1>. USE DEF Follows, Stages, Statement, SIMStatement
<1>1. CASE op = "register"
  <2>1. CASE rest = <<"upsert", "defaults", "invalidate">>
    BY <1>1, <2>1
  <2>2. CASE rest = <<"defaults", "invalidate">>
    BY <1>1, <2>2
  <2>3. CASE rest = <<"invalidate">>
    BY <1>1, <2>3
  <2>. QED
    BY <1>1, <2>1, <2>2, <2>3
<1>2. CASE op = "update"
  <2>1. CASE rest = <<"device", "upsert", "invalidate">>
    BY <1>2, <2>1
  <2>2. CASE rest = <<"upsert", "invalidate">>
    BY <1>2, <2>2
  <2>3. CASE rest = <<"invalidate">>
    BY <1>2, <2>3
  <2>. QED
    BY <1>2, <2>1, <2>2, <2>3
<1>3. CASE op = "mark"
  <2>1. CASE rest = <<"status", "invalidate">>
    BY <1>3, <2>1
  <2>2. CASE rest = <<"invalidate">>
    BY <1>3, <2>2
  <2>. QED
    BY <1>3, <2>1, <2>2
<1>4. CASE op = "command"
  <2>1. CASE rest = <<"device", "settings", "status", "invalidate">>
    BY <1>4, <2>1
  <2>2. CASE rest = <<"settings", "status", "invalidate">>
    BY <1>4, <2>2
  <2>3. CASE rest = <<"status", "invalidate">>
    BY <1>4, <2>3
  <2>4. CASE rest = <<"invalidate">>
    BY <1>4, <2>4
  <2>. QED
    BY <1>4, <2>1, <2>2, <2>3, <2>4
<1>5. CASE op = "get"
  <2>1. CASE rest = <<"cached", "device", "fill">>
    BY <1>5, <2>1
  <2>2. CASE rest = <<"device", "fill">>
    BY <1>5, <2>2
  <2>3. CASE rest = <<"fill">>
    BY <1>5, <2>3
  <2>. QED
    BY <1>5, <2>1, <2>2, <2>3
<1>6. CASE op = "claim"
  <2>1. CASE rest = <<"claim", "invalidate">>
    BY <1>6, <2>1
  <2>2. CASE rest = <<"invalidate">>
    BY <1>6, <2>2
  <2>. QED
    BY <1>6, <2>1, <2>2
<1>7. CASE op = "locate"
  <2>1. CASE rest = <<"device", "insert", "touch", "trim", "commit", "invalidate">>
    BY <1>7, <2>1
  <2>2. CASE rest = <<"insert", "touch", "trim", "commit", "invalidate">>
    BY <1>7, <2>2
  <2>3. CASE rest = <<"touch", "trim", "commit", "invalidate">>
    BY <1>7, <2>3
  <2>4. CASE rest = <<"trim", "commit", "invalidate">>
    BY <1>7, <2>4
  <2>5. CASE rest = <<"commit", "invalidate">>
    BY <1>7, <2>5
  <2>6. CASE rest = <<"invalidate">>
    BY <1>7, <2>6
  <2>. QED
    BY <1>7, <2>1, <2>2, <2>3, <2>4, <2>5, <2>6
<1>8. CASE op = "report"
  <2>1. CASE rest = <<"sims", "device", "settings", "upsertSIM", "markAbsent">>
    BY <1>8, <2>1
  <2>2. CASE rest = <<"device", "settings", "upsertSIM", "markAbsent">>
    BY <1>8, <2>2
  <2>3. CASE rest = <<"settings", "upsertSIM", "markAbsent">>
    BY <1>8, <2>3
  <2>4. CASE rest = <<"upsertSIM", "markAbsent">>
    BY <1>8, <2>4
  <2>5. CASE rest = <<"markAbsent">>
    BY <1>8, <2>5
  <2>6. CASE rest = <<"simEvent", "upsertSIM", "markAbsent">>
    BY <1>8, <2>6
  <2>7. CASE rest = <<"removal", "markAbsent">>
    BY <1>8, <2>7
  <2>. QED
    BY <1>8, <2>1, <2>2, <2>3, <2>4, <2>5, <2>6, <2>7
<1>9. CASE op = "trust"
  <2>1. CASE rest = <<"settings", "write">>
    BY <1>9, <2>1
  <2>2. CASE rest = <<"write">>
    BY <1>9, <2>2
  <2>. QED
    BY <1>9, <2>1, <2>2
<1>10. CASE op = "choose"
  <2>1. CASE rest = <<"settings", "write">>
    BY <1>10, <2>1
  <2>2. CASE rest = <<"write">>
    BY <1>10, <2>2
  <2>. QED
    BY <1>10, <2>1, <2>2
<1>. QED
  BY <1>1, <1>2, <1>3, <1>4, <1>5, <1>6, <1>7, <1>8, <1>9, <1>10,
     OperationsListed

\* An event is put in front of what is left of a report.
LEMMA EventIsAStage ==
  ASSUME NEW rest \in Stages["report"]
  PROVE  /\ Head(rest) = "upsertSIM" => <<"simEvent">> \o rest \in Stages["report"]
         /\ Head(rest) = "markAbsent" => <<"removal">> \o rest \in Stages["report"]
<1>1. Head(rest) = "upsertSIM" => rest = <<"upsertSIM", "markAbsent">>
  BY DEF Stages
<1>2. Head(rest) = "markAbsent" => rest = <<"markAbsent">>
  BY DEF Stages
<1>3. <<"simEvent">> \o <<"upsertSIM", "markAbsent">> = <<"simEvent", "upsertSIM", "markAbsent">>
  <2>. DEFINE s == <<"simEvent">> \o <<"upsertSIM", "markAbsent">>
              t == <<"simEvent", "upsertSIM", "markAbsent">>
  <2>1. s \in Seq(SIMStatement) /\ t \in Seq(SIMStatement)
    BY DEF SIMStatement
  <2>2. Len(s) = Len(t) /\ \A i \in 1 .. Len(s) : s[i] = t[i]
    OBVIOUS
  <2>. HIDE DEF s, t
  <2>3. s = t
    BY <2>1, <2>2, SeqEqual
  <2>. QED
    BY <2>3 DEF s, t
<1>4. <<"removal">> \o <<"markAbsent">> = <<"removal", "markAbsent">>
  <2>. DEFINE s == <<"removal">> \o <<"markAbsent">>
              t == <<"removal", "markAbsent">>
  <2>1. s \in Seq(SIMStatement) /\ t \in Seq(SIMStatement)
    BY DEF SIMStatement
  <2>2. Len(s) = Len(t) /\ \A i \in 1 .. Len(s) : s[i] = t[i]
    OBVIOUS
  <2>. HIDE DEF s, t
  <2>3. s = t
    BY <2>1, <2>2, SeqEqual
  <2>. QED
    BY <2>3 DEF s, t
<1>. QED
  BY <1>1, <1>2, <1>3, <1>4 DEF Stages

-----------------------------------------------------------------------------
(***************************************************************************)
(* Requests.  A valid one is at a stage of its operation, a trust names a  *)
(* SIM, and who is about to update the row has found it.                   *)
(***************************************************************************)
Valid(r) ==
  /\ r \in Request
  /\ r.rest \in Stages[r.op]
  /\ r.op = "trust" => r.sim \in SIM
  /\ r.op = "update" /\ Head(r.rest) = "upsert" => r.row # NoRow

LEMMA IdleIsValid == Valid(Idle)
BY DEF Valid, Idle, Request, Stages, Row, NoRow, Document, NoDocument, Status

\* Only an idle handler has no statement left, and no operation.
LEMMA ValidFollows ==
  ASSUME NEW r, Valid(r)
  PROVE  /\ r.op # "none" => r.op \in Operation /\ Follows(r.op, r.rest)
         /\ r.op = "none" <=> r.rest = <<>>
<1>1. ASSUME r.op # "none"
      PROVE  r.op \in Operation /\ Follows(r.op, r.rest)
  BY <1>1, StageFollows DEF Valid, Request
<1>2. ASSUME r.op = "none"
      PROVE  r.rest = <<>>
  BY <1>2 DEF Valid, Stages
<1>. QED
  BY <1>1, <1>2 DEF Follows

LEMMA NewIsValid ==
  ASSUME TypeOK, NEW op \in Operation, NEW r \in Variants(op)
  PROVE  Valid(r) /\ r.op = op /\ r.rest = Script[op]
<1>1. Script[op] \in Stages[op] /\ Script[op] \in Seq(Statement)
  BY ScriptIsAStage
<1>2. New(op) \in Request /\ New(op).op = op /\ New(op).rest = Script[op]
  BY <1>1, IdleIsValid DEF Valid, New, Idle, Request, TypeOK
<1>3. r \in Request /\ r.op = op /\ r.rest = Script[op] /\ (op = "trust" => r.sim \in SIM)
  <2>. USE <1>2 DEF Request
  <2>1. CASE op = "mark"
    BY <2>1 DEF Variants, Status
  <2>2. CASE op = "command"
    BY <2>2 DEF Variants, Status
  <2>3. CASE op = "claim"
    <3>1. PICK a \in Account : r = [New(op) EXCEPT !.account = a]
      BY <2>3 DEF Variants
    <3>. QED
      BY <2>3, <3>1
  <2>4. CASE op = "report"
    <3>1. PICK S \in SUBSET SIM : r = [New(op) EXCEPT !.sims = S, !.todo = S]
      BY <2>4 DEF Variants
    <3>. QED
      BY <2>4, <3>1
  <2>5. CASE op = "trust"
    <3>1. PICK s \in SIM : r = [New(op) EXCEPT !.sim = s]
      BY <2>5 DEF Variants
    <3>. QED
      BY <2>5, <3>1
  <2>6. CASE op = "choose"
    BY <2>6 DEF Variants
  <2>7. CASE op \notin {"mark", "command", "claim", "report", "trust", "choose"}
    BY <2>7 DEF Variants
  <2>. QED
    BY <2>1, <2>2, <2>3, <2>4, <2>5, <2>6, <2>7
<1>4. op = "update" => Head(Script[op]) = "device"
  BY DEF Script
<1>. QED
  BY <1>1, <1>3, <1>4 DEF Valid

\* What Proceed makes of a request.
Advance(r) == IF Len(r.rest) = 1 THEN Idle ELSE [r EXCEPT !.rest = Tail(@)]

\* The request r is at the statement.
Stands(r, statement) == r.rest # <<>> /\ Head(r.rest) = statement

LEMMA AdvanceIsValid ==
  ASSUME NEW r, Valid(r), r.rest # <<>>,
         r.op = "update" /\ Head(r.rest) = "device" => r.row # NoRow
  PROVE  Valid(Advance(r))
<1>1. CASE Len(r.rest) = 1
  BY <1>1, IdleIsValid DEF Advance
<1>2. CASE Len(r.rest) # 1
  <2>. DEFINE q == [r EXCEPT !.rest = Tail(@)]
  <2>1. r.op \in Operation /\ Follows(r.op, r.rest)
    BY ValidFollows
  <2>2. /\ Tail(r.rest) \in Stages[r.op] /\ Tail(r.rest) \in Seq(Statement)
        /\ Head(Tail(r.rest)) = "upsert" => Head(r.rest) = "device"
    BY <1>2, <2>1 DEF Follows
  <2>3. /\ q \in Request /\ q.op = r.op /\ q.rest = Tail(r.rest)
        /\ q.sim = r.sim /\ q.row = r.row
    BY <2>2 DEF Valid, Request
  <2>4. Valid(q)
    BY <2>2, <2>3 DEF Valid
  <2>. QED
    BY <1>2, <2>4 DEF Advance
<1>. QED
  BY <1>1, <1>2

\* What the order of the statements says of a request that goes on.
LEMMA AdvanceFollows ==
  ASSUME NEW r, Valid(r), r.rest # <<>>
  PROVE  /\ Advance(r) # r
         /\ Advance(r) # Idle =>
              /\ Advance(r) = [r EXCEPT !.rest = Tail(@)]
              /\ Advance(r).op = r.op
         /\ Head(r.rest) \in {"upsert", "defaults", "status", "claim"} =>
              Stands(Advance(r), "defaults") \/ Stands(Advance(r), "invalidate")
         /\ Stands(Advance(r), "trim") => Stands(r, "touch")
         /\ Stands(Advance(r), "commit") => Stands(r, "trim")
         /\ \A s \in {"sims", "simEvent", "removal"} : ~Stands(Advance(r), s)
<1>1. r.op \in Operation /\ Follows(r.op, r.rest) /\ r.op # "none"
  BY ValidFollows DEF Valid
<1>2. CASE Len(r.rest) = 1
  <2>1. Advance(r) = Idle /\ Idle.rest = <<>> /\ Idle.op = "none"
    BY <1>2 DEF Advance, Idle
  <2>2. Head(r.rest) \notin {"upsert", "defaults", "status", "claim"}
    BY <1>1, <1>2 DEF Follows
  <2>. QED
    BY <1>1, <2>1, <2>2 DEF Stands
<1>3. CASE Len(r.rest) # 1
  <2>. DEFINE q == [r EXCEPT !.rest = Tail(@)]
  <2>1. Advance(r) = q
    BY <1>3 DEF Advance
  <2>2. q.op = r.op /\ q.rest = Tail(r.rest) /\ r.rest \in Seq(Statement)
    BY DEF Valid, Request
  <2>3. q # r
    <3>1. Len(r.rest) \in Nat
      BY <2>2
    <3>2. Len(Tail(r.rest)) = Len(r.rest) - 1
      BY <2>2, HeadTailProperties
    <3>3. Len(Tail(r.rest)) # Len(r.rest)
      BY <3>1, <3>2
    <3>4. Tail(r.rest) # r.rest
      BY <3>3, Zenon
    <3>. QED
      BY <2>2, <3>4
  <2>. HIDE DEF q
  <2>. QED
    BY <1>1, <1>3, <2>1, <2>2, <2>3 DEF Follows, Stands, q
<1>. QED
  BY <1>2, <1>3

\* What a handler reads leaves its request valid.
LEMMA LearnedIsValid ==
  ASSUME TypeOK, NEW h \in Handler, Valid(req[h]), req[h].rest # <<>>
  PROVE  /\ Valid([req[h] EXCEPT !.old = present])
         /\ Valid([req[h] EXCEPT !.doc = settings])
         /\ Valid([req[h] EXCEPT !.excess = Excess])
         /\ Head(req[h].rest) # "upsert" => Valid([req[h] EXCEPT !.row = device])
<1>1. present \in SUBSET SIM /\ settings \in Document /\ device \in Row
  BY DEF TypeOK
<1>2. Excess \in Nat
  BY DeviceAssumption DEF DeviceAssumption, TypeOK, Excess
<1>. QED
  BY <1>1, <1>2 DEF Valid, Request

Validity == \A h \in Handler : Valid(req[h])

(***************************************************************************)
(* Every step of a handler replaces its own request, by a valid one.       *)
(***************************************************************************)
LEMMA StepIsValid ==
  ASSUME TypeOK, Validity, NEW h \in Handler, Step(h)
  PROVE  \E q : Valid(q) /\ req' = [req EXCEPT ![h] = q]
<1>. DEFINE r == req[h]
<1>1. Valid(r)
  BY DEF Validity
<1>2. ASSUME NEW q, Valid(q), q.rest # <<>>, Proceed(h, q),
             q.op = "update" /\ Head(q.rest) = "device" => q.row # NoRow
      PROVE  \E p : Valid(p) /\ req' = [req EXCEPT ![h] = p]
  BY <1>2, AdvanceIsValid DEF Proceed, Advance
<1>3. ASSUME Return(h)
      PROVE  \E p : Valid(p) /\ req' = [req EXCEPT ![h] = p]
  BY <1>3, IdleIsValid DEF Return
<1>4. ASSUME Receive(h)
      PROVE  \E p : Valid(p) /\ req' = [req EXCEPT ![h] = p]
  <2>1. \A op \in scene : op \in Operation
    BY DeviceAssumption DEF DeviceAssumption, TypeOK
  <2>. QED
    BY <1>4, <2>1, NewIsValid DEF Receive
<1>5. ASSUME GetDevice(h)
      PROVE  \E p : Valid(p) /\ req' = [req EXCEPT ![h] = p]
  <2>. DEFINE q == [r EXCEPT !.row = device]
  <2>1. CASE ~RowFound(h)
    BY <1>3, <1>5, <2>1 DEF GetDevice
  <2>2. CASE RowFound(h)
    <3>1. Valid(q)
      BY <1>1, <1>5, LearnedIsValid DEF GetDevice, At
    <3>2. q.rest = r.rest /\ q.op = r.op /\ q.row = device /\ r.rest # <<>>
      BY <1>1, <1>5 DEF Valid, Request, GetDevice, At
    <3>3. q.op = "update" => q.row # NoRow
      BY <2>2, <3>2 DEF RowFound, Reporting
    <3>. QED
      BY <1>2, <1>5, <2>2, <3>1, <3>2, <3>3 DEF GetDevice
  <2>. QED
    BY <2>1, <2>2
<1>6. ASSUME GetSettings(h)
      PROVE  \E p : Valid(p) /\ req' = [req EXCEPT ![h] = p]
  <2>. DEFINE q == [r EXCEPT !.doc = settings]
  <2>1. Return(h) \/ Proceed(h, q)
    BY <1>6 DEF GetSettings
  <2>2. Valid(q) /\ q.rest = r.rest /\ Stands(r, "settings")
    BY <1>1, <1>6, LearnedIsValid DEF GetSettings, At, Stands, Valid, Request
  <2>. QED
    BY <1>2, <1>3, <2>1, <2>2 DEF Stands
<1>7. ASSUME GetSIMs(h)
      PROVE  \E p : Valid(p) /\ req' = [req EXCEPT ![h] = p]
  <2>. DEFINE q == [r EXCEPT !.old = present]
  <2>1. Valid(q) /\ q.rest = r.rest /\ Stands(r, "sims")
    BY <1>1, <1>7, LearnedIsValid DEF GetSIMs, At, Stands, Valid, Request
  <2>. QED
    BY <1>2, <1>7, <2>1 DEF GetSIMs, Stands
<1>8. ASSUME TrimHistory(h)
      PROVE  \E p : Valid(p) /\ req' = [req EXCEPT ![h] = p]
  <2>. DEFINE q == [r EXCEPT !.excess = Excess]
  <2>1. Valid(q) /\ q.rest = r.rest /\ Stands(r, "trim")
    BY <1>1, <1>8, LearnedIsValid DEF TrimHistory, At, Stands, Valid, Request
  <2>. QED
    BY <1>2, <1>8, <2>1 DEF TrimHistory, Stands
<1>9. ASSUME NEW x \in Statement, x # "device", At(h, x), Proceed(h, r)
      PROVE  \E p : Valid(p) /\ req' = [req EXCEPT ![h] = p]
  BY <1>1, <1>2, <1>9 DEF At
<1>10. ASSUME UpsertSIM(h)
       PROVE  \E p : Valid(p) /\ req' = [req EXCEPT ![h] = p]
  <2>1. Stands(r, "upsertSIM") /\ r.op = "report" /\ r.rest \in Stages["report"]
    BY <1>1, <1>10, ValidFollows
       DEF UpsertSIM, At, Stands, Follows, SIMStatement, Valid
  <2>2. ASSUME NEW s \in r.todo
        PROVE  /\ Valid([r EXCEPT !.todo = @ \ {s}, !.sim = s])
               /\ Valid([[r EXCEPT !.todo = @ \ {s}, !.sim = s]
                           EXCEPT !.rest = <<"simEvent">> \o @])
    <3>1. /\ <<"simEvent">> \o r.rest \in Stages["report"]
          /\ <<"simEvent">> \o r.rest \in Seq(Statement)
      BY <1>1, <2>1, EventIsAStage DEF Stands, Valid, Request, Statement
    <3>2. s \in SIM /\ r.todo \ {s} \in SUBSET SIM
      BY <1>1, <2>2 DEF Valid, Request
    <3>. QED
      BY <1>1, <2>1, <3>1, <3>2 DEF Valid, Request
  <2>3. CASE r.todo = {} /\ Proceed(h, r)
    BY <1>9, <1>10, <2>3 DEF UpsertSIM, Statement
  <2>4. CASE ~(r.todo = {} /\ Proceed(h, r))
    BY <1>10, <2>2, <2>4 DEF UpsertSIM, Insert
  <2>. QED
    BY <2>3, <2>4
<1>11. ASSUME MarkSIMAbsent(h)
       PROVE  \E p : Valid(p) /\ req' = [req EXCEPT ![h] = p]
  <2>1. Stands(r, "markAbsent") /\ r.op = "report" /\ r.rest \in Stages["report"]
    BY <1>1, <1>11, ValidFollows
       DEF MarkSIMAbsent, At, Stands, Follows, SIMStatement, Valid
  <2>2. ASSUME NEW s \in r.old
        PROVE  Valid([[r EXCEPT !.old = @ \ {s}, !.sim = s]
                           EXCEPT !.rest = <<"removal">> \o @])
    <3>1. /\ <<"removal">> \o r.rest \in Stages["report"]
          /\ <<"removal">> \o r.rest \in Seq(Statement)
      BY <1>1, <2>1, EventIsAStage DEF Stands, Valid, Request, Statement
    <3>2. s \in SIM /\ r.old \ {s} \in SUBSET SIM
      BY <1>1, <2>2 DEF Valid, Request
    <3>. QED
      BY <1>1, <2>1, <3>1, <3>2 DEF Valid, Request
  <2>3. CASE r.old \subseteq r.sims /\ Proceed(h, r)
    BY <1>9, <1>11, <2>3 DEF MarkSIMAbsent, Statement
  <2>4. CASE ~(r.old \subseteq r.sims /\ Proceed(h, r))
    BY <1>11, <2>2, <2>4 DEF MarkSIMAbsent, Insert
  <2>. QED
    BY <2>3, <2>4
<1>12. CASE \/ Upsert(h) \/ Fill(h) \/ InvalidateDeviceCache(h) \/ InsertDefaultSettings(h)
            \/ UpsertSettings(h) \/ InsertSIMEvent(h) \/ InsertRemoval(h)
            \/ InsertLocation(h) \/ TouchDevice(h) \/ Commit(h)
  BY <1>9, <1>12 DEF Statement, Upsert, Fill, InvalidateDeviceCache,
       InsertDefaultSettings, UpsertSettings, InsertSIMEvent, InsertRemoval,
       InsertLocation, TouchDevice, Commit
<1>13. CASE UpdateDeviceStatus(h) \/ ClaimDevice(h) \/ GetCached(h) \/ Abort(h)
  BY <1>3, <1>9, <1>13
     DEF Statement, UpdateDeviceStatus, ClaimDevice, GetCached, Abort
<1>14. CASE Overlook(h)
  BY <1>9, <1>14 DEF Statement, Overlook
<1>. QED
  BY <1>4, <1>5, <1>6, <1>7, <1>8, <1>10, <1>11, <1>12, <1>13, <1>14 DEF Step

\* Which kinds of steps there are, by what becomes of the request.
LEMMA StepControl ==
  ASSUME TypeOK, Validity, NEW h \in Handler, Step(h)
  PROVE  /\ \A g \in Handler \ {h} : req'[g] = req[g]
         /\ \/ req'[h] = Idle
            \/ Receive(h) /\ \E op \in Operation : req'[h].rest = Script[op]
            \/ \E r : /\ Valid(r) /\ r.op = req[h].op
                      /\ r.rest = req[h].rest /\ r.rest # <<>>
                      /\ req'[h] = Advance(r)
            \/ /\ req'[h].rest # <<>> /\ req'[h].op = req[h].op
               /\ Head(req'[h].rest) \in {"upsertSIM", "simEvent", "removal"}
<1>. DEFINE r == req[h]
            Outcome == \/ req'[h] = Idle
                       \/ Receive(h) /\ \E op \in Operation : req'[h].rest = Script[op]
                       \/ \E q : /\ Valid(q) /\ q.op = req[h].op
                                 /\ q.rest = req[h].rest /\ q.rest # <<>>
                                 /\ req'[h] = Advance(q)
                       \/ /\ req'[h].rest # <<>> /\ req'[h].op = req[h].op
                          /\ Head(req'[h].rest) \in {"upsertSIM", "simEvent", "removal"}
<1>1. Valid(r) /\ req \in [Handler -> Request]
  BY DEF Validity, TypeOK
<1>2. PICK became : req' = [req EXCEPT ![h] = became]
  BY StepIsValid
<1>3. ASSUME NEW q, Valid(q), q.op = r.op, q.rest = r.rest, q.rest # <<>>, Proceed(h, q)
      PROVE  Outcome
  BY <1>1, <1>3 DEF Proceed, Advance
<1>4. ASSUME Return(h)
      PROVE  Outcome
  BY <1>1, <1>4 DEF Return
<1>5. ASSUME Receive(h)
      PROVE  Outcome
  <2>1. \A op \in scene : op \in Operation
    BY DeviceAssumption DEF DeviceAssumption, TypeOK
  <2>2. PICK op \in Operation : \E q \in Variants(op) : req' = [req EXCEPT ![h] = q]
    BY <1>5, <2>1 DEF Receive
  <2>3. req'[h].rest = Script[op]
    BY <1>1, <2>2, NewIsValid
  <2>. QED
    BY <1>5, <2>3
<1>6. ASSUME r.rest # <<>>, Proceed(h, r)
      PROVE  Outcome
  BY <1>1, <1>3, <1>6
<1>7. ASSUME GetDevice(h)
      PROVE  Outcome
  <2>1. LET q == [r EXCEPT !.row = device] IN
          Valid(q) /\ q.op = r.op /\ q.rest = r.rest /\ r.rest # <<>>
    BY <1>1, <1>7, LearnedIsValid DEF GetDevice, At, Valid, Request
  <2>. QED
    BY <1>3, <1>4, <1>7, <2>1 DEF GetDevice
<1>8. ASSUME GetSettings(h)
      PROVE  Outcome
  <2>1. LET q == [r EXCEPT !.doc = settings] IN
          Valid(q) /\ q.op = r.op /\ q.rest = r.rest /\ r.rest # <<>>
    BY <1>1, <1>8, LearnedIsValid DEF GetSettings, At, Valid, Request
  <2>. QED
    BY <1>3, <1>4, <1>8, <2>1 DEF GetSettings
<1>9. ASSUME GetSIMs(h)
      PROVE  Outcome
  <2>1. LET q == [r EXCEPT !.old = present] IN
          Valid(q) /\ q.op = r.op /\ q.rest = r.rest /\ r.rest # <<>>
    BY <1>1, <1>9, LearnedIsValid DEF GetSIMs, At, Valid, Request
  <2>. QED
    BY <1>3, <1>9, <2>1 DEF GetSIMs
<1>10. ASSUME TrimHistory(h)
       PROVE  Outcome
  <2>1. LET q == [r EXCEPT !.excess = Excess] IN
          Valid(q) /\ q.op = r.op /\ q.rest = r.rest /\ r.rest # <<>>
    BY <1>1, <1>10, LearnedIsValid DEF TrimHistory, At, Valid, Request
  <2>. QED
    BY <1>3, <1>10, <2>1 DEF TrimHistory
<1>11. ASSUME UpsertSIM(h)
       PROVE  Outcome
  <2>1. CASE r.todo = {} /\ Proceed(h, r)
    BY <1>6, <1>11, <2>1 DEF UpsertSIM, At
  <2>2. CASE ~(r.todo = {} /\ Proceed(h, r))
    <3>1. PICK s \in r.todo :
            \/ Insert(h, [r EXCEPT !.todo = @ \ {s}, !.sim = s], "simEvent")
            \/ req' = [req EXCEPT ![h] = [r EXCEPT !.todo = @ \ {s}, !.sim = s]]
      BY <1>11, <2>2 DEF UpsertSIM
    <3>2. Stands(r, "upsertSIM") /\ r.rest \in Seq(Statement)
      BY <1>1, <1>11 DEF UpsertSIM, At, Stands, Valid, Request
    <3>3. <<"simEvent">> \o r.rest # <<>> /\ Head(<<"simEvent">> \o r.rest) = "simEvent"
      BY <3>2 DEF Statement
    <3>. DEFINE q == [r EXCEPT !.todo = @ \ {s}, !.sim = s]
    <3>4. LET p == [q EXCEPT !.rest = <<"simEvent">> \o @] IN
          /\ q.rest = r.rest /\ p.rest = <<"simEvent">> \o r.rest
          /\ q.op = r.op /\ p.op = r.op
      BY <1>1 DEF Valid, Request
    <3>5. req'[h] = q \/ req'[h] = [q EXCEPT !.rest = <<"simEvent">> \o @]
      BY <1>1, <3>1 DEF Insert
    <3>. QED
      BY <3>2, <3>3, <3>4, <3>5 DEF Stands
  <2>. QED
    BY <2>1, <2>2
<1>12. ASSUME MarkSIMAbsent(h)
       PROVE  Outcome
  <2>1. CASE r.old \subseteq r.sims /\ Proceed(h, r)
    BY <1>6, <1>12, <2>1 DEF MarkSIMAbsent, At
  <2>2. CASE ~(r.old \subseteq r.sims /\ Proceed(h, r))
    <3>1. PICK s \in r.old : Insert(h, [r EXCEPT !.old = @ \ {s}, !.sim = s], "removal")
      BY <1>12, <2>2 DEF MarkSIMAbsent
    <3>2. r.rest \in Seq(Statement)
      BY <1>1 DEF Valid, Request
    <3>3. <<"removal">> \o r.rest # <<>> /\ Head(<<"removal">> \o r.rest) = "removal"
      BY <3>2 DEF Statement
    <3>4. req'[h].rest = <<"removal">> \o r.rest /\ req'[h].op = r.op
      BY <1>1, <3>1 DEF Insert, Valid, Request
    <3>. QED
      BY <3>3, <3>4
  <2>. QED
    BY <2>1, <2>2
<1>13. ASSUME \/ Upsert(h) \/ Fill(h) \/ InvalidateDeviceCache(h)
              \/ InsertDefaultSettings(h) \/ UpsertSettings(h)
              \/ InsertSIMEvent(h) \/ InsertRemoval(h) \/ InsertLocation(h)
              \/ TouchDevice(h) \/ Commit(h) \/ Overlook(h)
       PROVE  Outcome
  <2>1. r.rest # <<>> /\ Proceed(h, r)
    BY <1>13 DEF At, Upsert, Fill, InvalidateDeviceCache,
         InsertDefaultSettings, UpsertSettings, InsertSIMEvent, InsertRemoval,
         InsertLocation, TouchDevice, Commit, Overlook
  <2>. QED
    BY <1>6, <2>1
<1>14. ASSUME UpdateDeviceStatus(h) \/ ClaimDevice(h) \/ GetCached(h) \/ Abort(h)
       PROVE  Outcome
  <2>1. Return(h) \/ (r.rest # <<>> /\ Proceed(h, r))
    BY <1>14 DEF At, UpdateDeviceStatus, ClaimDevice, GetCached, Abort
  <2>. QED
    BY <1>4, <1>6, <2>1
<1>15. Outcome
  BY <1>5, <1>7, <1>8, <1>9, <1>10, <1>11, <1>12, <1>13, <1>14 DEF Step
<1>16. \A g \in Handler \ {h} : req'[g] = req[g]
  BY <1>1, <1>2
<1>. QED
  BY <1>15, <1>16

LEMMA FirstStatements ==
  ASSUME NEW op \in Operation
  PROVE  Head(Script[op]) \notin {"trim", "commit", "simEvent", "removal"}
BY OperationsListed DEF Script

\* A handler at a statement executes it, or overlooks it, or ends.
LEMMA StepAt ==
  ASSUME NEW h \in Handler, Step(h)
  PROVE  /\ At(h, "touch") => TouchDevice(h) \/ Abort(h)
         /\ At(h, "trim") => TrimHistory(h) \/ Abort(h)
         /\ At(h, "commit") => Commit(h) \/ Abort(h)
<1>1. /\ \A x, y : At(h, x) /\ At(h, y) => x = y
      /\ \A x : At(h, x) => req[h] # Idle
  BY DEF At, Idle
<1>2. Receive(h) => req[h] = Idle
  BY DEF Receive
<1>. QED
  BY <1>1, <1>2
     DEF Step, Overlook, GetDevice, Upsert, UpdateDeviceStatus, ClaimDevice,
         GetCached, Fill, InvalidateDeviceCache, InsertDefaultSettings, GetSettings,
         UpsertSettings, GetSIMs, UpsertSIM, InsertSIMEvent, MarkSIMAbsent,
         InsertRemoval, InsertLocation, TouchDevice, TrimHistory, Commit

LEMMA TransactionOrder ==
  ASSUME TypeOK, Validity, NEW h \in Handler, Step(h)
  PROVE  /\ Stands(req'[h], "trim") => TouchDevice(h)
         /\ Stands(req'[h], "commit") => TrimHistory(h)
<1>1. ~Stands(Idle, "trim") /\ ~Stands(Idle, "commit")
  BY DEF Stands, Idle
<1>2. Abort(h) => req'[h] = Idle
  BY DEF Abort, Return, TypeOK
<1>3. CASE \E r : /\ Valid(r) /\ r.rest = req[h].rest /\ r.rest # <<>>
                  /\ req'[h] = Advance(r)
  <2>1. PICK r : /\ Valid(r) /\ r.rest = req[h].rest /\ r.rest # <<>>
                 /\ req'[h] = Advance(r)
    BY <1>3
  <2>2. /\ Stands(req'[h], "trim") => At(h, "touch")
        /\ Stands(req'[h], "commit") => At(h, "trim")
    BY <2>1, AdvanceFollows DEF Stands, At
  <2>. QED
    BY <1>1, <1>2, <2>2, StepAt
<1>. QED
  BY <1>1, <1>3, StepControl, FirstStatements DEF Stands

-----------------------------------------------------------------------------
(***************************************************************************)
(* The history of locations.  From its update of the device row to its     *)
(* commit a transaction holds the row, and what it counted stays true.     *)
(***************************************************************************)
Holds(h) == At(h, "trim") \/ At(h, "commit")

HoldersHaveTheRow == \A h \in Handler : Holds(h) => lock = h
CountIsCurrent    == \A h \in Handler : At(h, "commit") => req[h].excess = Excess

HistoryInv == HoldersHaveTheRow /\ CountIsCurrent /\ HistoryIsBounded

LEMMA InitHistory == Init => HistoryInv
BY DeviceAssumption
   DEF DeviceAssumption, Init, HistoryInv, HoldersHaveTheRow, CountIsCurrent,
       HistoryIsBounded, Holds, At, Idle

\* Nobody but the three statements of the transaction and an abort touches
\* the row lock or the history.
LEMMA StepHistory ==
  ASSUME TypeOK, Validity, HistoryInv, NEW h \in Handler, Step(h)
  PROVE  HistoryInv'
<1>. USE DEF HistoryInv
<1>1. \A g \in Handler \ {h} : req'[g] = req[g]
  BY StepControl
<1>2. /\ Stands(req'[h], "trim") => TouchDevice(h)
      /\ Stands(req'[h], "commit") => TrimHistory(h)
  BY TransactionOrder
<1>3. /\ \A g \in Handler \ {h} : Holds(g)' <=> Holds(g)
      /\ \A g \in Handler \ {h} : At(g, "commit")' <=> At(g, "commit")
      /\ Holds(h)' => TouchDevice(h) \/ TrimHistory(h)
      /\ At(h, "commit")' => TrimHistory(h)
  BY <1>1, <1>2 DEF Holds, At, Stands
<1>4. ASSUME TouchDevice(h)
      PROVE  HistoryInv'
  <2>1. lock = Nobody /\ lock' = h /\ locations' = locations /\ At(h, "touch")
    BY <1>4 DEF TouchDevice, TakeRow
  <2>2. \A g \in Handler : ~Holds(g)
    BY <2>1, DeviceAssumption DEF DeviceAssumption, HoldersHaveTheRow
  <2>3. ~TrimHistory(h)
    BY <2>1 DEF TrimHistory, At
  <2>4. HoldersHaveTheRow'
    BY <1>3, <2>1, <2>2 DEF HoldersHaveTheRow
  <2>5. \A g \in Handler : ~At(g, "commit")'
    BY <1>3, <2>2, <2>3 DEF Holds
  <2>. QED
    BY <2>1, <2>4, <2>5 DEF CountIsCurrent, HistoryIsBounded
<1>5. ASSUME TrimHistory(h)
      PROVE  HistoryInv'
  <2>1. lock' = lock /\ locations' = locations /\ lock = h
    BY <1>5 DEF TrimHistory, placeVars, HoldersHaveTheRow, Holds
  <2>2. \A g \in Handler \ {h} : ~Holds(g)
    BY <2>1 DEF HoldersHaveTheRow
  <2>3. HoldersHaveTheRow'
    BY <1>3, <2>1, <2>2 DEF HoldersHaveTheRow
  <2>4. At(h, "commit")' => req'[h].excess = Excess
    <3>. DEFINE q == [req[h] EXCEPT !.excess = Excess]
    <3>1. req'[h] = Advance(q)
      BY <1>5 DEF TrimHistory, Proceed, Advance, TypeOK
    <3>2. Valid(q) /\ q.rest # <<>> /\ q.excess = Excess
      BY <1>5, LearnedIsValid DEF TrimHistory, At, Validity, Valid, Request
    <3>3. Advance(q) # Idle => Advance(q) = [q EXCEPT !.rest = Tail(@)]
      BY <3>2, AdvanceFollows
    <3>4. Advance(q) # Idle => Advance(q).excess = Excess
      <4>. HIDE DEF q
      <4>. QED
        BY <3>2, <3>3 DEF Valid, Request
    <3>. QED
      BY <3>1, <3>4 DEF At, Idle
  <2>5. Excess' = Excess
    BY <2>1 DEF Excess
  <2>6. CountIsCurrent'
    BY <1>3, <2>2, <2>4, <2>5 DEF CountIsCurrent, Holds
  <2>. QED
    BY <2>1, <2>3, <2>6 DEF HistoryIsBounded
<1>6. ASSUME Commit(h)
      PROVE  HistoryInv'
  <2>1. lock = h /\ req[h].excess = Excess
    BY <1>6 DEF Commit, HoldersHaveTheRow, CountIsCurrent, Holds
  <2>2. \A g \in Handler \ {h} : ~Holds(g)
    BY <2>1 DEF HoldersHaveTheRow
  <2>3. ~TouchDevice(h) /\ ~TrimHistory(h)
    BY <1>6 DEF Commit, TouchDevice, TrimHistory, At
  <2>4. \A g \in Handler : ~Holds(g)'
    BY <1>3, <2>2, <2>3
  <2>5. locations' = locations + 1 - Excess
    BY <1>6, <2>1 DEF Commit
  <2>6. HistoryIsBounded'
    BY <2>5, DeviceAssumption
       DEF DeviceAssumption, TypeOK, HistoryIsBounded, Excess
  <2>. QED
    BY <2>4, <2>6 DEF HoldersHaveTheRow, CountIsCurrent, Holds
<1>7. ASSUME Abort(h)
      PROVE  HistoryInv'
  <2>1. locations' = locations /\ (lock' = lock \/ lock = h)
    BY <1>7 DEF Abort
  <2>2. ~Holds(h)'
    BY <1>7 DEF Abort, Return, TypeOK, Holds, At, Idle
  <2>3. HoldersHaveTheRow'
    BY <1>3, <2>1, <2>2 DEF HoldersHaveTheRow
  <2>4. Excess' = Excess
    BY <2>1 DEF Excess
  <2>5. CountIsCurrent'
    BY <1>1, <1>3, <2>2, <2>4 DEF CountIsCurrent, Holds
  <2>. QED
    BY <2>1, <2>3, <2>5 DEF HistoryIsBounded
<1>8. ASSUME UNCHANGED placeVars, ~TouchDevice(h), ~TrimHistory(h)
      PROVE  HistoryInv'
  <2>1. lock' = lock /\ locations' = locations /\ Excess' = Excess
    BY <1>8 DEF placeVars, Excess
  <2>. QED
    BY <1>1, <1>3, <1>8, <2>1
       DEF HoldersHaveTheRow, CountIsCurrent, HistoryIsBounded
<1>9. \/ TouchDevice(h) \/ TrimHistory(h) \/ Commit(h) \/ Abort(h)
      \/ UNCHANGED placeVars
  BY DEF Step, Receive, Overlook, GetDevice, Upsert, UpdateDeviceStatus,
         ClaimDevice, GetCached, Fill, InvalidateDeviceCache,
         InsertDefaultSettings, GetSettings, UpsertSettings, GetSIMs, UpsertSIM,
         InsertSIMEvent, MarkSIMAbsent, InsertRemoval, InsertLocation
<1>. QED
  BY <1>4, <1>5, <1>6, <1>7, <1>8, <1>9

-----------------------------------------------------------------------------
(***************************************************************************)
(* Types.                                                                  *)
(***************************************************************************)
DeviceInv == TypeOK /\ Validity /\ HistoryInv

\* The parts of the state that one statement or another writes.
RowTyped == device \in Row /\ cache \in Row /\ stale \in BOOLEAN
DocTyped == settings \in Document /\ trusted \subseteq SIM /\ clobbered \in BOOLEAN
SIMTyped ==
  /\ present \subseteq SIM
  /\ inserted \in [SIM -> Nat] /\ removed \in [SIM -> Nat]
  /\ crossed \in BOOLEAN
PlaceTyped == locations \in Nat /\ lock \in Handler \cup {Nobody}
BoundTyped == requests \in 0..MaxRequests /\ faults \in 0..MaxFaults

LEMMA TypedParts ==
  TypeOK <=> /\ scene \in Scene /\ RowTyped /\ DocTyped /\ SIMTyped
             /\ PlaceTyped /\ req \in [Handler -> Request] /\ BoundTyped
BY DEF TypeOK, RowTyped, DocTyped, SIMTyped, PlaceTyped, BoundTyped

LEMMA InitDevice == Init => DeviceInv
<1>. SUFFICES ASSUME Init
              PROVE  DeviceInv
  OBVIOUS
<1>1. Valid(Idle) /\ Idle \in Request
  BY IdleIsValid DEF Valid
<1>2. Validity /\ req \in [Handler -> Request]
  BY <1>1 DEF Init, Validity
<1>3. NoRow \in Row /\ [NoRow EXCEPT !.status = "active"] \in Row
  BY DEF Row, NoRow, Status
<1>4. NoDocument \in Document /\ DefaultDocument \in Document
  BY DEF Document, NoDocument, DefaultDocument
<1>5. RowTyped /\ DocTyped
  BY <1>3, <1>4 DEF Init, RowTyped, DocTyped, Status
<1>6. SIMTyped /\ PlaceTyped /\ BoundTyped
  <2>1. SIMTyped
    BY DEF Init, SIMTyped
  <2>2. PlaceTyped /\ BoundTyped
    BY DeviceAssumption DEF DeviceAssumption, Init, PlaceTyped, BoundTyped
  <2>. QED
    BY <2>1, <2>2
<1>7. TypeOK
  BY <1>2, <1>5, <1>6, TypedParts DEF Init
<1>. QED
  BY <1>2, <1>7, InitHistory DEF DeviceInv

LEMMA UnchangedTyped ==
  ASSUME TypeOK
  PROVE  /\ UNCHANGED rowVars => RowTyped'
         /\ UNCHANGED docVars => DocTyped'
         /\ UNCHANGED simVars => SIMTyped'
         /\ UNCHANGED placeVars => PlaceTyped'
         /\ UNCHANGED bounds => BoundTyped'
BY DEF TypeOK, RowTyped, DocTyped, SIMTyped, PlaceTyped, BoundTyped, rowVars,
       docVars, simVars, placeVars, bounds

\* What a valid request brings with it.
LEMMA ValidFields ==
  ASSUME NEW r, Valid(r)
  PROVE  /\ r.status \in Status /\ r.account \in Account \cup {Nobody}
         /\ r.row \in Row /\ r.doc \in Document
         /\ r.old \subseteq SIM /\ r.todo \subseteq SIM /\ r.sims \subseteq SIM
BY DEF Valid, Request

\* A row that is there, under another status or with another owner.
LEMMA RowWritten ==
  ASSUME device \in Row, NEW s \in Status, NEW a \in Account \cup {Nobody}
  PROVE  /\ [device EXCEPT !.status = s] \in Row
         /\ [device EXCEPT !.status = s].status = s
         /\ [device EXCEPT !.status = s].owner = device.owner
         /\ device # NoRow => /\ [device EXCEPT !.owner = a] \in Row
                              /\ [device EXCEPT !.owner = a].owner = a
                              /\ [device EXCEPT !.owner = a].status = device.status
         /\ device # NoRow => device.status \in Status
BY DEF Row, NoRow

LEMMA StatusIsOne ==
  ASSUME NEW h \in Handler, Valid(req[h]), At(h, "upsert")
  PROVE  StatusWritten(req[h]) \in Status
<1>1. req[h].op \in {"register", "update"}
  BY ValidFollows DEF At, Follows
<1>2. req[h].op = "update" => req[h].row.status \in Status
  BY DEF Valid, At, Request, Row
<1>. QED
  BY <1>1, <1>2 DEF StatusWritten, Status

LEMMA StepRowTyped ==
  ASSUME TypeOK, Validity, NEW h \in Handler, Step(h)
  PROVE  RowTyped'
<1>0. /\ Valid(req[h]) /\ req[h].row \in Row /\ NoRow \in Row
      /\ device \in Row /\ cache \in Row /\ stale \in BOOLEAN
  BY ValidFields DEF Validity, TypeOK, Row
<1>1. CASE UNCHANGED rowVars
  BY <1>1, UnchangedTyped
<1>2. CASE Upsert(h)
  <2>1. PICK s \in Status : device' = [device EXCEPT !.status = s]
    BY <1>0, <1>2, StatusIsOne DEF Upsert, UpsertDevice
  <2>2. device' \in Row
    BY <1>0, <2>1, RowWritten
  <2>. QED
    BY <1>0, <1>2, <2>2 DEF Upsert, RowTyped
<1>3. CASE UpdateDeviceStatus(h)
  <2>1. req[h].status \in Status
    BY <1>0, ValidFields
  <2>2. device' \in Row
    BY <1>0, <1>3, <2>1, RowWritten DEF UpdateDeviceStatus
  <2>. QED
    BY <1>0, <1>3, <2>2 DEF UpdateDeviceStatus, RowTyped
<1>4. CASE ClaimDevice(h)
  BY <1>0, <1>4, ValidFields, RowWritten DEF ClaimDevice, RowTyped
<1>5. CASE Fill(h) \/ InvalidateDeviceCache(h)
  BY <1>0, <1>5 DEF Fill, InvalidateDeviceCache, RowTyped
<1>6. CASE Abort(h) \/ Overlook(h)
  BY <1>0, <1>6 DEF Abort, Overlook, RowTyped
<1>. QED
  BY <1>1, <1>2, <1>3, <1>4, <1>5, <1>6
     DEF Step, Receive, GetDevice, GetCached, InsertDefaultSettings, GetSettings,
         UpsertSettings, GetSIMs, UpsertSIM, InsertSIMEvent, MarkSIMAbsent,
         InsertRemoval, InsertLocation, TouchDevice, TrimHistory, Commit, rowVars

LEMMA DocumentWritten ==
  ASSUME NEW r, Valid(r)
  PROVE  NewDocument(r) \in Document
<1>1. DefaultDocument \in Document /\ r.doc \in Document /\ r.on \in BOOLEAN
  BY DEF Valid, Request, Document, DefaultDocument
<1>2. r.op = "trust" => r.sim \in SIM
  BY DEF Valid
<1>3. ASSUME NEW d \in Document, NEW s \in SIM
      PROVE  [d EXCEPT !.trust = @ \cup {s}] \in Document
  BY DEF Document
<1>4. [r.doc EXCEPT !.stored = TRUE, !.lock = r.on] \in Document
  BY <1>1 DEF Document
<1>. QED
  BY <1>1, <1>2, <1>3, <1>4 DEF NewDocument

LEMMA StepDocTyped ==
  ASSUME TypeOK, Validity, NEW h \in Handler, Step(h)
  PROVE  DocTyped'
<1>0. /\ Valid(req[h]) /\ DefaultDocument \in Document
      /\ settings \in Document /\ trusted \subseteq SIM /\ clobbered \in BOOLEAN
  BY DEF Validity, TypeOK, Document, DefaultDocument
<1>1. CASE UNCHANGED docVars
  BY <1>1, UnchangedTyped
<1>2. CASE InsertDefaultSettings(h)
  BY <1>0, <1>2 DEF InsertDefaultSettings, DocTyped
<1>3. CASE GetSettings(h)
  <2>. DEFINE known == req[h].op = "trust" /\ req[h].sim \in settings.trust
  <2>1. trusted' = IF known THEN trusted \cup {req[h].sim} ELSE trusted
    BY <1>3, SMTT(30) DEF GetSettings
  <2>2. trusted' \subseteq SIM
    BY <1>0, <2>1 DEF Valid
  <2>. QED
    BY <1>0, <1>3, <2>2 DEF GetSettings, DocTyped
<1>4. CASE UpsertSettings(h)
  <2>1. settings' \in Document
    BY <1>0, <1>4, DocumentWritten DEF UpsertSettings
  <2>. QED
    BY <1>0, <1>4, <2>1 DEF UpsertSettings, DocTyped, Valid
<1>. QED
  BY <1>1, <1>2, <1>3, <1>4
     DEF Step, Receive, Abort, Overlook, GetDevice, Upsert, UpdateDeviceStatus,
         ClaimDevice, GetCached, Fill, InvalidateDeviceCache, GetSIMs, UpsertSIM,
         InsertSIMEvent, MarkSIMAbsent, InsertRemoval, InsertLocation,
         TouchDevice, TrimHistory, Commit

LEMMA OneMoreEvent ==
  ASSUME NEW f \in [SIM -> Nat], NEW s
  PROVE  [f EXCEPT ![s] = @ + 1] \in [SIM -> Nat]
<1>1. CASE s \in SIM
  BY <1>1
<1>2. CASE s \notin SIM
  BY <1>2
<1>. QED
  BY <1>1, <1>2

LEMMA StepSIMTyped ==
  ASSUME TypeOK, Validity, NEW h \in Handler, Step(h)
  PROVE  SIMTyped'
<1>0. /\ Valid(req[h]) /\ SIMTyped
      /\ req[h].todo \subseteq SIM
  BY TypedParts, ValidFields DEF Validity
<1>1. CASE UNCHANGED simVars
  BY <1>1, UnchangedTyped
<1>2. CASE Receive(h)
  BY <1>0, <1>2 DEF Receive, SIMTyped
<1>3. CASE UpsertSIM(h)
  <2>1. present' \subseteq SIM
    BY <1>0, <1>3 DEF UpsertSIM, SIMTyped
  <2>. QED
    BY <1>0, <1>3, <2>1 DEF UpsertSIM, SIMTyped
<1>4. CASE MarkSIMAbsent(h)
  <2>1. present' \subseteq SIM
    BY <1>0, <1>4 DEF MarkSIMAbsent, SIMTyped
  <2>. QED
    BY <1>0, <1>4, <2>1 DEF MarkSIMAbsent, SIMTyped
<1>5. CASE InsertSIMEvent(h)
  <2>1. inserted' \in [SIM -> Nat]
    BY <1>0, <1>5, OneMoreEvent DEF InsertSIMEvent, SIMTyped
  <2>. QED
    BY <1>0, <1>5, <2>1 DEF InsertSIMEvent, SIMTyped
<1>6. CASE InsertRemoval(h)
  BY <1>0, <1>6, OneMoreEvent DEF InsertRemoval, SIMTyped
<1>. QED
  BY <1>1, <1>2, <1>3, <1>4, <1>5, <1>6
     DEF Step, Abort, Overlook, GetDevice, Upsert, UpdateDeviceStatus, ClaimDevice,
         GetCached, Fill, InvalidateDeviceCache, InsertDefaultSettings, GetSettings,
         UpsertSettings, GetSIMs, InsertLocation, TouchDevice, TrimHistory, Commit

LEMMA StepPlaceTyped ==
  ASSUME TypeOK, HistoryInv, NEW h \in Handler, Step(h)
  PROVE  PlaceTyped'
<1>0. locations \in Nat /\ lock \in Handler \cup {Nobody}
  BY DEF TypeOK
<1>1. CASE UNCHANGED placeVars
  BY <1>1, UnchangedTyped
<1>2. CASE TouchDevice(h) \/ Abort(h)
  BY <1>0, <1>2 DEF TouchDevice, TakeRow, Abort, PlaceTyped
<1>3. CASE Commit(h)
  <2>1. req[h].excess = Excess
    BY <1>3 DEF Commit, HistoryInv, CountIsCurrent
  <2>2. locations + 1 - Excess \in Nat
    BY <1>0, DeviceAssumption DEF DeviceAssumption, Excess
  <2>. QED
    BY <1>3, <2>1, <2>2 DEF Commit, PlaceTyped
<1>. QED
  BY <1>1, <1>2, <1>3
     DEF Step, Receive, Overlook, GetDevice, Upsert, UpdateDeviceStatus, ClaimDevice,
         GetCached, Fill, InvalidateDeviceCache, InsertDefaultSettings, GetSettings,
         UpsertSettings, GetSIMs, UpsertSIM, InsertSIMEvent, MarkSIMAbsent,
         InsertRemoval, InsertLocation, TrimHistory

LEMMA StepBoundTyped ==
  ASSUME TypeOK, NEW h \in Handler, Step(h)
  PROVE  BoundTyped' /\ scene' = scene
<1>1. CASE Receive(h)
  BY <1>1, DeviceAssumption DEF DeviceAssumption, Receive, TypeOK, BoundTyped
<1>2. CASE Abort(h) \/ Overlook(h)
  BY <1>2, DeviceAssumption
     DEF DeviceAssumption, Abort, Overlook, TypeOK, BoundTyped
<1>3. CASE ~(Receive(h) \/ Abort(h) \/ Overlook(h))
  <2>1. UNCHANGED <<scene, bounds>>
    BY <1>3
       DEF Step, GetDevice, Upsert, UpdateDeviceStatus, ClaimDevice, GetCached,
         Fill, InvalidateDeviceCache, InsertDefaultSettings, GetSettings,
         UpsertSettings, GetSIMs, UpsertSIM, InsertSIMEvent, MarkSIMAbsent,
         InsertRemoval, InsertLocation, TouchDevice, TrimHistory, Commit
  <2>. QED
    BY <2>1, UnchangedTyped
<1>. QED
  BY <1>1, <1>2, <1>3

LEMMA StepDevice == DeviceInv /\ [Next]_vars => DeviceInv'
<1>. SUFFICES ASSUME DeviceInv, [Next]_vars
              PROVE  DeviceInv'
  OBVIOUS
<1>0. TypeOK /\ Validity /\ HistoryInv
  BY DEF DeviceInv
<1>1. ASSUME NEW h \in Handler, Step(h)
      PROVE  DeviceInv'
  <2>1. PICK q : Valid(q) /\ req' = [req EXCEPT ![h] = q]
    BY <1>0, <1>1, StepIsValid
  <2>2. Validity' /\ req' \in [Handler -> Request]
    BY <1>0, <2>1 DEF Validity, Valid, TypeOK
  <2>3. /\ RowTyped' /\ DocTyped' /\ SIMTyped' /\ PlaceTyped'
        /\ BoundTyped' /\ scene' = scene
    BY <1>0, <1>1, StepRowTyped, StepDocTyped, StepSIMTyped, StepPlaceTyped,
       StepBoundTyped
  <2>4. TypeOK'
    BY <1>0, <2>2, <2>3
       DEF TypeOK, RowTyped, DocTyped, SIMTyped, PlaceTyped, BoundTyped
  <2>5. HistoryInv'
    BY <1>0, <1>1, StepHistory
  <2>. QED
    BY <2>2, <2>4, <2>5 DEF DeviceInv
<1>2. CASE Expire
  <2>1. /\ UNCHANGED <<scene, docVars, simVars, placeVars, req, bounds>>
        /\ device' = device /\ cache' = NoRow /\ stale' = FALSE
    BY <1>2 DEF Expire
  <2>2. RowTyped'
    BY <1>0, <2>1 DEF TypeOK, RowTyped, Row
  <2>3. TypeOK'
    BY <1>0, <2>1, <2>2, UnchangedTyped
       DEF TypeOK, RowTyped, DocTyped, SIMTyped, PlaceTyped, BoundTyped
  <2>4. Validity' /\ HistoryInv'
    BY <1>0, <2>1 DEF Validity, HistoryInv, HoldersHaveTheRow, CountIsCurrent,
                     HistoryIsBounded, Holds, At, Excess, placeVars
  <2>. QED
    BY <2>3, <2>4 DEF DeviceInv
<1>3. CASE UNCHANGED vars
  <2>1. UNCHANGED <<scene, rowVars, docVars, simVars, placeVars, req, bounds>>
    BY <1>3 DEF vars
  <2>2. TypeOK'
    BY <1>0, <2>1, UnchangedTyped
       DEF TypeOK, RowTyped, DocTyped, SIMTyped, PlaceTyped, BoundTyped
  <2>3. Validity' /\ HistoryInv'
    BY <1>0, <2>1 DEF Validity, HistoryInv, HoldersHaveTheRow, CountIsCurrent,
                     HistoryIsBounded, Holds, At, Excess, placeVars
  <2>. QED
    BY <2>2, <2>3 DEF DeviceInv
<1>. QED
  BY <1>1, <1>2, <1>3 DEF Next

LEMMA AlwaysDevice == Spec => []DeviceInv
BY InitDevice, StepDevice, PTL DEF Spec

(***************************************************************************)
(* Every request is at a statement of its operation, and the row, the      *)
(* document and the history are well formed: no update writes a row it has *)
(* not found, and no commit removes more locations than there are.         *)
(***************************************************************************)
THEOREM DeviceTypeCorrect == Spec => []TypeOK
<1>1. DeviceInv => TypeOK
  BY DEF DeviceInv
<1>. QED
  BY <1>1, AlwaysDevice, PTL

(***************************************************************************)
(* The history keeps its bound, whatever transactions run side by side and *)
(* wherever they end (repository/device_security.go:268): who counts the   *)
(* rows to trim has updated the row of the device, and nobody else commits *)
(* before it does.                                                         *)
(***************************************************************************)
THEOREM HistoryAlwaysBounded == Spec => []HistoryIsBounded
<1>1. DeviceInv => HistoryIsBounded
  BY DEF DeviceInv, HistoryInv
<1>. QED
  BY <1>1, AlwaysDevice, PTL

-----------------------------------------------------------------------------
(***************************************************************************)
(* The row and the cache.                                                  *)
(***************************************************************************)
Explains(h) == At(h, "defaults") \/ At(h, "invalidate")

\* Who has written the row invalidates the cache before it is done.
LEMMA WriterInvalidates ==
  ASSUME TypeOK, Validity, NEW h \in Handler, Proceed(h, req[h]),
         NEW x \in {"upsert", "defaults", "status", "claim"}, At(h, x)
  PROVE  Explains(h)'
<1>1. Valid(req[h]) /\ req[h].rest # <<>> /\ Head(req[h].rest) = x
  BY DEF Validity, At
<1>2. req'[h] = Advance(req[h])
  BY DEF Proceed, Advance, TypeOK
<1>3. Stands(req'[h], "defaults") \/ Stands(req'[h], "invalidate")
  BY <1>1, <1>2, AdvanceFollows
<1>. QED
  BY <1>3 DEF Explains, At, Stands

LEMMA AtOneStatement ==
  ASSUME NEW h \in Handler
  PROVE  /\ \A x, y : At(h, x) /\ At(h, y) => x = y
         /\ \A x : At(h, x) => req[h] # Idle
BY DEF At, Idle

LEMMA StepCache ==
  ASSUME TypeOK, Validity, StaleCacheIsExplained, NEW h \in Handler, Step(h)
  PROVE  StaleCacheIsExplained'
<1>1. \A g \in Handler \ {h} : Explains(g)' <=> Explains(g)
  BY StepControl DEF Explains, At
<1>2. ASSUME Explains(h)'
      PROVE  StaleCacheIsExplained'
  BY <1>2 DEF StaleCacheIsExplained, Explains
<1>3. ASSUME UNCHANGED <<device, cache, stale>>, ~Explains(h)
      PROVE  StaleCacheIsExplained'
  <2>1. SUFFICES ASSUME cache' \notin {NoRow, device'}, ~stale'
                 PROVE  \E g \in Handler : Explains(g)'
    BY <2>1 DEF StaleCacheIsExplained, Explains
  <2>2. PICK g \in Handler : Explains(g)
    BY <1>3, <2>1 DEF StaleCacheIsExplained, Explains
  <2>. QED
    BY <1>1, <1>3, <2>2
<1>4. CASE Upsert(h)
  BY <1>2, <1>4, WriterInvalidates DEF Upsert
<1>5. CASE UpdateDeviceStatus(h)
  <2>1. CASE device = NoRow
    <3>1. UNCHANGED <<device, cache, stale>> /\ At(h, "status")
      BY <1>5, <2>1 DEF UpdateDeviceStatus
    <3>. QED
      BY <1>3, <3>1, AtOneStatement DEF Explains
  <2>2. CASE device # NoRow
    BY <1>2, <1>5, <2>2, WriterInvalidates DEF UpdateDeviceStatus
  <2>. QED
    BY <2>1, <2>2
<1>6. CASE ClaimDevice(h)
  <2>1. CASE Return(h) /\ UNCHANGED device
    <3>1. UNCHANGED <<device, cache, stale>> /\ At(h, "claim")
      BY <1>6, <2>1 DEF ClaimDevice
    <3>. QED
      BY <1>3, <3>1, AtOneStatement DEF Explains
  <2>2. CASE Proceed(h, req[h])
    BY <1>2, <1>6, <2>2, WriterInvalidates DEF ClaimDevice
  <2>. QED
    BY <1>6, <2>1, <2>2 DEF ClaimDevice
<1>7. CASE InsertDefaultSettings(h)
  BY <1>2, <1>7, WriterInvalidates DEF InsertDefaultSettings
<1>8. CASE Fill(h) \/ InvalidateDeviceCache(h)
  BY <1>8 DEF Fill, InvalidateDeviceCache, StaleCacheIsExplained
<1>9. CASE Abort(h) \/ Overlook(h)
  BY <1>9 DEF Abort, Overlook, StaleCacheIsExplained
<1>10. CASE Receive(h)
  <2>1. UNCHANGED <<device, cache, stale>> /\ req[h] = Idle
    BY <1>10 DEF Receive, rowVars
  <2>. QED
    BY <1>3, <2>1, AtOneStatement DEF Explains
<1>11. ASSUME NEW x, At(h, x), x \notin {"defaults", "invalidate"}, UNCHANGED rowVars
       PROVE  StaleCacheIsExplained'
  BY <1>3, <1>11, AtOneStatement DEF Explains, rowVars
<1>12. CASE \/ GetDevice(h) \/ GetCached(h) \/ GetSettings(h) \/ UpsertSettings(h)
            \/ GetSIMs(h) \/ UpsertSIM(h) \/ InsertSIMEvent(h) \/ MarkSIMAbsent(h)
  BY <1>11, <1>12
     DEF GetDevice, GetCached, GetSettings, UpsertSettings, GetSIMs,
                      UpsertSIM, InsertSIMEvent, MarkSIMAbsent
<1>13. CASE \/ InsertRemoval(h) \/ InsertLocation(h) \/ TouchDevice(h)
            \/ TrimHistory(h) \/ Commit(h)
  BY <1>11, <1>13
     DEF InsertRemoval, InsertLocation, TouchDevice, TrimHistory, Commit
<1>. QED
  BY <1>4, <1>5, <1>6, <1>7, <1>8, <1>9, <1>10, <1>12, <1>13 DEF Step

(***************************************************************************)
(* A cached device that is no longer what the row says is on its way out,  *)
(* unless a read filled it late or a fault kept the invalidation from      *)
(* happening: no operation forgets the cache (device_security.go:122).     *)
(***************************************************************************)
THEOREM StaleCacheAlwaysExplained == Spec => []StaleCacheIsExplained
<1>1. Init => StaleCacheIsExplained
  BY DEF Init, StaleCacheIsExplained
<1>2. DeviceInv /\ StaleCacheIsExplained /\ [Next]_vars => StaleCacheIsExplained'
  <2>1. CASE Expire
    BY <2>1 DEF Expire, StaleCacheIsExplained
  <2>2. CASE UNCHANGED vars
    BY <2>2 DEF vars, rowVars, StaleCacheIsExplained, At
  <2>. QED
    BY <2>1, <2>2, StepCache DEF Next, DeviceInv
<1>. QED
  BY <1>1, <1>2, AlwaysDevice, PTL DEF Spec

LEMMA StepRow ==
  ASSUME TypeOK, Validity, NEW h \in Handler, Step(h)
  PROVE  OwnerStands /\ MarkStands
<1>0. device \in Row /\ Valid(req[h])
  BY DEF TypeOK, Validity
<1>1. CASE UNCHANGED device
  BY <1>1 DEF OwnerStands, MarkStands
<1>2. ASSUME NEW x, At(h, x), Proceed(h, req[h])
      PROVE  Moves(h)
  <2>1. req[h].rest # <<>> /\ req'[h] = Advance(req[h])
    BY <1>2 DEF At, Proceed, Advance, TypeOK
  <2>. QED
    BY <1>0, <2>1, AdvanceFollows DEF Moves
<1>3. CASE Upsert(h)
  <2>1. PICK s \in Status : /\ device' = [device EXCEPT !.status = s]
                            /\ s = StatusWritten(req[h])
    BY <1>0, <1>3, StatusIsOne DEF Upsert, UpsertDevice
  <2>2. device'.owner = device.owner /\ device'.status = StatusWritten(req[h])
    BY <1>0, <2>1, RowWritten
  <2>3. At(h, "upsert") /\ Moves(h)
    BY <1>2, <1>3 DEF Upsert
  <2>. QED
    BY <2>2, <2>3 DEF OwnerStands, MarkStands, StatusWritten
<1>4. CASE UpdateDeviceStatus(h) /\ ~UNCHANGED device
  <2>1. At(h, "status") /\ Moves(h)
    BY <1>2, <1>4 DEF UpdateDeviceStatus
  <2>2. device'.owner = device.owner
    <3>1. PICK s \in Status : device' = [device EXCEPT !.status = s]
      BY <1>0, <1>4, ValidFields DEF UpdateDeviceStatus
    <3>. QED
      BY <1>0, <3>1, RowWritten
  <2>. QED
    BY <2>1, <2>2 DEF OwnerStands, MarkStands
<1>5. CASE ClaimDevice(h) /\ ~UNCHANGED device
  <2>1. /\ device # NoRow /\ device.owner \in {Nobody, req[h].account}
        /\ device' = [device EXCEPT !.owner = req[h].account]
    BY <1>5 DEF ClaimDevice
  <2>2. device'.owner = req[h].account /\ device'.status = device.status
    BY <1>0, <2>1, ValidFields, RowWritten
  <2>. QED
    BY <2>1, <2>2 DEF OwnerStands, MarkStands
<1>. QED
  BY <1>1, <1>3, <1>4, <1>5
     DEF Step, Receive, Abort, Overlook, GetDevice, GetCached, Fill,
         InvalidateDeviceCache, InsertDefaultSettings, GetSettings,
         UpsertSettings, GetSIMs, UpsertSIM, InsertSIMEvent, MarkSIMAbsent,
         InsertRemoval, InsertLocation, TouchDevice, TrimHistory, Commit, rowVars

(***************************************************************************)
(* The owner of a device stands, and a mark gives way only to a statement  *)
(* that says so or to an update that read the row before the mark.         *)
(***************************************************************************)
THEOREM RowAlwaysStands == Spec => RowStands
<1>1. DeviceInv /\ [Next]_vars => [OwnerStands /\ MarkStands]_vars
  <2>1. Expire => OwnerStands /\ MarkStands
    BY DEF Expire, OwnerStands, MarkStands
  <2>. QED
    BY <2>1, StepRow DEF Next, DeviceInv
<1>. QED
  BY <1>1, AlwaysDevice, PTL DEF Spec, RowStands

-----------------------------------------------------------------------------
(***************************************************************************)
(* The settings document.                                                  *)
(***************************************************************************)
NothingIsTrusted == settings.stored \/ settings.trust = {}

LEMMA StepTrust ==
  ASSUME TypeOK, Validity, NothingIsTrusted, TrustIsKept, NEW h \in Handler, Step(h)
  PROVE  NothingIsTrusted' /\ TrustIsKept'
<1>0. settings \in Document /\ Valid(req[h]) /\ req[h].doc \in Document
  BY ValidFields DEF TypeOK, Validity
<1>1. CASE UNCHANGED docVars
  BY <1>1 DEF docVars, NothingIsTrusted, TrustIsKept
<1>2. CASE InsertDefaultSettings(h)
  <2>1. /\ trusted' = trusted /\ clobbered' = clobbered
        /\ settings' = IF settings.stored THEN settings ELSE DefaultDocument
    BY <1>2 DEF InsertDefaultSettings
  <2>2. settings'.stored /\ settings'.trust = settings.trust
    BY <2>1 DEF DefaultDocument, NothingIsTrusted
  <2>. QED
    BY <2>1, <2>2 DEF NothingIsTrusted, TrustIsKept
<1>3. CASE GetSettings(h)
  <2>. DEFINE known == req[h].op = "trust" /\ req[h].sim \in settings.trust
  <2>1. trusted' = IF known THEN trusted \cup {req[h].sim} ELSE trusted
    BY <1>3, SMTT(30) DEF GetSettings
  <2>2. settings' = settings /\ clobbered' = clobbered
    BY <1>3 DEF GetSettings
  <2>. QED
    BY <2>1, <2>2 DEF NothingIsTrusted, TrustIsKept
<1>4. CASE UpsertSettings(h)
  <2>. DEFINE r == req[h]
  <2>1. settings' = NewDocument(r) /\ (~clobbered' => ~clobbered /\ r.doc = settings)
    BY <1>4 DEF UpsertSettings
  <2>2. trusted' = IF r.op = "trust" THEN trusted \cup {r.sim} ELSE trusted
    BY <1>4 DEF UpsertSettings
  <2>3. CASE r.op = "trust"
    <3>1. /\ NewDocument(r).stored
          /\ NewDocument(r).trust =
               (IF r.doc.stored THEN r.doc.trust ELSE {}) \cup {r.sim}
      BY <1>0, <2>3 DEF NewDocument, Document, DefaultDocument
    <3>. QED
      BY <2>1, <2>2, <2>3, <3>1 DEF NothingIsTrusted, TrustIsKept
  <2>4. CASE r.op # "trust"
    <3>1. NewDocument(r).stored /\ NewDocument(r).trust = r.doc.trust
      BY <1>0, <2>4 DEF NewDocument, Document
    <3>. QED
      BY <2>1, <2>2, <2>4, <3>1 DEF NothingIsTrusted, TrustIsKept
  <2>. QED
    BY <2>3, <2>4
<1>. QED
  BY <1>1, <1>2, <1>3, <1>4
     DEF Step, Receive, Abort, Overlook, GetDevice, Upsert, UpdateDeviceStatus,
         ClaimDevice, GetCached, Fill, InvalidateDeviceCache, GetSIMs, UpsertSIM,
         InsertSIMEvent, MarkSIMAbsent, InsertRemoval, InsertLocation,
         TouchDevice, TrimHistory, Commit

(***************************************************************************)
(* Only overlapping writes of the document lose a trusted SIM              *)
(* (device_security.go:652): registrations, locks and failures in between  *)
(* do not.                                                                 *)
(***************************************************************************)
THEOREM TrustAlwaysKept == Spec => []TrustIsKept
<1>1. Init => NothingIsTrusted /\ TrustIsKept
  BY DEF Init, NothingIsTrusted, TrustIsKept, NoDocument, DefaultDocument
<1>2. DeviceInv /\ NothingIsTrusted /\ TrustIsKept /\ [Next]_vars
        => NothingIsTrusted' /\ TrustIsKept'
  <2>1. CASE Expire
    BY <2>1 DEF Expire, docVars, NothingIsTrusted, TrustIsKept
  <2>2. CASE UNCHANGED vars
    BY <2>2 DEF vars, docVars, NothingIsTrusted, TrustIsKept
  <2>. QED
    BY <2>1, <2>2, StepTrust DEF Next, DeviceInv
<1>. QED
  BY <1>1, <1>2, AlwaysDevice, PTL DEF Spec

-----------------------------------------------------------------------------
(***************************************************************************)
(* The SIMs.  Without faults and overlapping reports at most one handler   *)
(* reports; what it has worked off is what is present, and the balance is  *)
(* off by the one event it is about to write.                              *)
(***************************************************************************)
OneReports == \A g, h \in Handler : Reporting(g) /\ Reporting(h) => g = h

KnowsPresent(h) ==
  /\ req[h].todo \subseteq req[h].sims
  /\ IF At(h, "sims") THEN req[h].todo = req[h].sims
     ELSE present = req[h].old \cup (req[h].sims \ req[h].todo)

\* An event of SIM s that is about to be written.
Owed(s, event) == \E h \in Handler : At(h, event) /\ req[h].sim = s

Here(s) == IF s \in present THEN 1 ELSE 0

Accounted(s) ==
  inserted[s] - removed[s] =
    IF Owed(s, "simEvent") THEN Here(s) - 1
    ELSE IF Owed(s, "removal") THEN Here(s) + 1
    ELSE Here(s)

ReportsInOrder ==
  /\ OneReports
  /\ \A h \in Handler : Reporting(h) => KnowsPresent(h)
  /\ \A s \in SIM : Accounted(s)

Undisturbed == faults = 0 /\ ~crossed

Event == {"simEvent", "removal"}

\* Only a report is at a statement on SIMs, and it is at no other but two.
LEMMA ReportStatements ==
  ASSUME NEW r, Valid(r)
  PROVE  /\ \A x \in SIMStatement : Stands(r, x) => r.op = "report"
         /\ r.op = "report" =>
              \E x \in SIMStatement \cup {"device", "settings"} : Stands(r, x)
<1>1. ASSUME NEW x \in SIMStatement, Stands(r, x)
      PROVE  r.op = "report"
  BY <1>1, ValidFollows DEF Stands, Follows
<1>2. ASSUME r.op = "report"
      PROVE  \E x \in SIMStatement \cup {"device", "settings"} : Stands(r, x)
  <2>1. r.rest # <<>>
    BY <1>2, ValidFollows
  <2>2. Head(r.rest) \in SIMStatement \cup {"device", "settings"}
    BY <1>2 DEF Valid, Stages, SIMStatement
  <2>. QED
    BY <2>1, <2>2 DEF Stands
<1>. QED
  BY <1>1, <1>2

\* Who does not report now does so after a step only by starting to.
LEMMA StartsReporting ==
  ASSUME TypeOK, Validity, NEW h \in Handler, Step(h), Reporting(h)', ~Reporting(h)
  PROVE  Receive(h)
<1>1. Idle.op = "none" /\ Valid(req[h])
  BY DEF Idle, Validity
<1>2. ASSUME NEW r, Valid(r), r.op = req[h].op, r.rest # <<>>, req'[h] = Advance(r)
      PROVE  req'[h].op \in {"none", req[h].op}
  BY <1>1, <1>2, AdvanceFollows
<1>. QED
  BY <1>1, <1>2, StepControl DEF Reporting

\* What the steps of other handlers leave alone.
LEMMA OtherSteps ==
  ASSUME TypeOK, Validity, NEW h \in Handler, Step(h), ~Reporting(h), ~Receive(h)
  PROVE  UNCHANGED simVars /\ ~Reporting(h)'
<1>1. ~Reporting(h)'
  BY StartsReporting
<1>2. \A x \in SIMStatement : ~At(h, x)
  BY ReportStatements DEF Validity, At, Stands, Reporting
<1>3. UNCHANGED simVars
  BY <1>2 DEF SIMStatement, Step, Abort, Overlook, GetDevice, Upsert,
       UpdateDeviceStatus, ClaimDevice, GetCached, Fill, InvalidateDeviceCache,
       InsertDefaultSettings, GetSettings, UpsertSettings, GetSIMs, UpsertSIM,
       InsertSIMEvent, MarkSIMAbsent, InsertRemoval, InsertLocation,
       TouchDevice, TrimHistory, Commit
<1>. QED
  BY <1>1, <1>3

\* A handler that does not report owes nothing.
LEMMA OwedByReports ==
  ASSUME Validity, NEW s, NEW x \in Event
  PROVE  Owed(s, x) <=> \E h \in Handler : Reporting(h) /\ At(h, x) /\ req[h].sim = s
BY ReportStatements
   DEF Validity, Owed, At, Stands, Reporting, Event, SIMStatement

LEMMA IdleSteps ==
  ASSUME TypeOK, Validity, Validity', ReportsInOrder, NEW h \in Handler, Step(h),
         ~Reporting(h), ~Reporting(h)', UNCHANGED <<present, inserted, removed>>
  PROVE  ReportsInOrder'
<1>1. \A g \in Handler \ {h} : req'[g] = req[g]
  BY StepControl
<1>2. /\ \A g \in Handler : Reporting(g)' <=> Reporting(g)
      /\ \A g \in Handler : Reporting(g) => req'[g] = req[g]
  BY <1>1 DEF Reporting
<1>3. OneReports' /\ \A g \in Handler : Reporting(g)' => KnowsPresent(g)'
  BY <1>2 DEF ReportsInOrder, OneReports, KnowsPresent, At
<1>4. ASSUME NEW s \in SIM, NEW x \in Event
      PROVE  Owed(s, x)' <=> Owed(s, x)
  <2>1. \A g \in Handler : /\ Reporting(g)' /\ At(g, x)' /\ req'[g].sim = s
                           <=> Reporting(g) /\ At(g, x) /\ req[g].sim = s
    BY <1>2 DEF At
  <2>2. Owed(s, x)' <=> \E g \in Handler : Reporting(g)' /\ At(g, x)' /\ req'[g].sim = s
    BY ReportStatements
       DEF Validity, Owed, At, Stands, Reporting, Event, SIMStatement
  <2>. QED
    BY <2>1, <2>2, OwedByReports
<1>5. \A s \in SIM : Accounted(s)'
  BY <1>4 DEF ReportsInOrder, Accounted, Here, Event
<1>. QED
  BY <1>3, <1>5 DEF ReportsInOrder

\* A report begins, while nobody else reports.
LEMMA ReportStarts ==
  ASSUME TypeOK, Validity, Validity', ReportsInOrder, NEW h \in Handler, Receive(h),
         Step(h), Reporting(h)', ~crossed'
  PROVE  ReportsInOrder'
<1>1. \A g \in Handler \ {h} : req'[g] = req[g]
  BY StepControl
<1>2. PICK op \in Operation : \E r \in Variants(op) :
         /\ req' = [req EXCEPT ![h] = r]
         /\ op = "report" => \A g \in Handler : ~Reporting(g)
  BY DeviceAssumption DEF DeviceAssumption, TypeOK, Receive
<1>3. PICK r \in Variants(op) : req'[h] = r
  BY <1>2 DEF TypeOK
<1>4. op = "report" /\ r.rest = Script["report"]
  BY <1>3, NewIsValid DEF Reporting
<1>5. r.todo = r.sims
  <2>1. PICK S \in SUBSET SIM : r = [New("report") EXCEPT !.sims = S, !.todo = S]
    BY <1>3, <1>4 DEF Variants
  <2>. QED
    BY <2>1 DEF New, Idle
<1>6. \A g \in Handler : Reporting(g)' => g = h
  BY <1>1, <1>2, <1>4 DEF Reporting
<1>7. At(h, "sims")' /\ \A x \in Event : ~At(h, x)'
  BY <1>3, <1>4 DEF At, Script, Event
<1>8. OneReports' /\ \A g \in Handler : Reporting(g)' => KnowsPresent(g)'
  BY <1>3, <1>5, <1>6, <1>7 DEF OneReports, KnowsPresent
<1>9. ASSUME NEW s \in SIM, NEW x \in Event
      PROVE  ~Owed(s, x) /\ ~Owed(s, x)'
  <2>1. ~Owed(s, x)
    BY <1>2, <1>4, OwedByReports
  <2>2. Owed(s, x)' => \E g \in Handler : Reporting(g)' /\ At(g, x)'
    BY ReportStatements
       DEF Validity, Owed, At, Stands, Reporting, Event, SIMStatement
  <2>. QED
    BY <1>6, <1>7, <2>1, <2>2
<1>10. UNCHANGED <<present, inserted, removed>>
  BY DEF Receive
<1>11. \A s \in SIM : Accounted(s)'
  BY <1>9, <1>10 DEF ReportsInOrder, Accounted, Here, Event
<1>. QED
  BY <1>8, <1>11 DEF ReportsInOrder

\* While h reports, it alone owes events.
LEMMA SoleReporter ==
  ASSUME TypeOK, Validity, Validity', OneReports, NEW h \in Handler, Step(h),
         Reporting(h)
  PROVE  /\ OneReports' /\ \A g \in Handler : Reporting(g)' => g = h
         /\ \A s \in SIM, x \in Event :
              /\ Owed(s, x) <=> At(h, x) /\ req[h].sim = s
              /\ Owed(s, x)' <=> Reporting(h)' /\ At(h, x)' /\ req'[h].sim = s
<1>1. /\ \A g \in Handler \ {h} : req'[g] = req[g]
      /\ \A g \in Handler : Reporting(g) => g = h
  BY StepControl DEF OneReports
<1>2. \A g \in Handler : Reporting(g)' => g = h
  BY <1>1 DEF Reporting
<1>3. ASSUME NEW s \in SIM, NEW x \in Event
      PROVE  Owed(s, x) <=> At(h, x) /\ req[h].sim = s
  BY <1>1, OwedByReports DEF Owed
<1>4. ASSUME NEW s \in SIM, NEW x \in Event
      PROVE  Owed(s, x)' <=> Reporting(h)' /\ At(h, x)' /\ req'[h].sim = s
  <2>1. \A g \in Handler : At(g, x)' => Reporting(g)'
    BY ReportStatements
       DEF Validity, At, Stands, Reporting, Event, SIMStatement
  <2>. QED
    BY <1>2, <2>1 DEF Owed
<1>. QED
  BY <1>2, <1>3, <1>4 DEF OneReports

\* What a request knows stays with it.
LEMMA AdvanceKeeps ==
  ASSUME NEW r, Valid(r), r.rest # <<>>, Advance(r) # Idle
  PROVE  /\ Advance(r).op = r.op /\ Advance(r).sim = r.sim
         /\ Advance(r).sims = r.sims /\ Advance(r).todo = r.todo
         /\ Advance(r).old = r.old
<1>1. Advance(r) = [r EXCEPT !.rest = Tail(@)]
  BY AdvanceFollows
<1>. QED
  BY <1>1 DEF Valid, Request

\* A statement that writes no SIM and no event.
LEMMA ReportGoesOn ==
  ASSUME TypeOK, Validity, Validity', ReportsInOrder, NEW h \in Handler, Step(h),
         Reporting(h), NEW r, Valid(r), r.rest # <<>>, Proceed(h, r),
         r.sims = req[h].sims, r.todo = req[h].todo,
         present = r.old \cup (r.sims \ r.todo), r.todo \subseteq r.sims,
         \A x \in Event : ~At(h, x),
         UNCHANGED <<present, inserted, removed>>
  PROVE  ReportsInOrder'
<1>1. req'[h] = Advance(r)
  BY DEF Proceed, Advance, TypeOK
<1>2. \A x \in {"sims", "simEvent", "removal"} : ~At(h, x)'
  BY <1>1, AdvanceFollows DEF At, Stands
<1>3. Reporting(h)' => Advance(r) # Idle
  BY <1>1 DEF Reporting, Idle
<1>4. Reporting(h)' => KnowsPresent(h)'
  BY <1>1, <1>2, <1>3, AdvanceKeeps DEF KnowsPresent
<1>5. /\ OneReports' /\ \A g \in Handler : Reporting(g)' => g = h
      /\ \A s \in SIM, x \in Event : ~Owed(s, x) /\ ~Owed(s, x)'
  BY <1>2, SoleReporter DEF ReportsInOrder, Event
<1>6. \A s \in SIM : Accounted(s)'
  BY <1>5 DEF ReportsInOrder, Accounted, Here, Event
<1>. QED
  BY <1>4, <1>5, <1>6 DEF ReportsInOrder

\* An event is written.
LEMMA EventWritten ==
  ASSUME TypeOK, Validity, Validity', ReportsInOrder, NEW h \in Handler, Step(h),
         Reporting(h), InsertSIMEvent(h) \/ InsertRemoval(h)
  PROVE  ReportsInOrder'
<1>. DEFINE r == req[h]
<1>1. /\ Valid(r) /\ r.rest # <<>> /\ req'[h] = Advance(r) /\ present' = present
      /\ ~At(h, "sims")
  BY DEF InsertSIMEvent, InsertRemoval, Validity, At, Proceed, Advance, TypeOK
<1>2. KnowsPresent(h)
  BY DEF ReportsInOrder
<1>3. \A x \in {"sims", "simEvent", "removal"} : ~At(h, x)'
  BY <1>1, AdvanceFollows DEF At, Stands
<1>4. Reporting(h)' => Advance(r) # Idle
  BY <1>1 DEF Reporting, Idle
<1>5. Reporting(h)' => KnowsPresent(h)'
  BY <1>1, <1>2, <1>3, <1>4, AdvanceKeeps DEF KnowsPresent
<1>6. /\ OneReports' /\ \A g \in Handler : Reporting(g)' => g = h
      /\ \A s \in SIM, x \in Event : /\ Owed(s, x) <=> At(h, x) /\ r.sim = s
                                     /\ ~Owed(s, x)'
  BY <1>3, SoleReporter DEF ReportsInOrder, Event
<1>7. ASSUME NEW s \in SIM
      PROVE  Accounted(s)'
  <2>1. /\ inserted \in [SIM -> Nat] /\ removed \in [SIM -> Nat] /\ Here(s) \in {0, 1}
        /\ Here(s)' = Here(s)
    BY <1>1 DEF TypeOK, Here
  <2>2. Accounted(s) /\ ~Owed(s, "simEvent")' /\ ~Owed(s, "removal")'
    BY <1>6 DEF ReportsInOrder, Event
  <2>3. CASE InsertSIMEvent(h)
    <3>1. /\ At(h, "simEvent") /\ ~At(h, "removal") /\ removed' = removed
          /\ inserted' = [inserted EXCEPT ![r.sim] = @ + 1]
      BY <2>3 DEF InsertSIMEvent, At
    <3>2. (Owed(s, "simEvent") <=> r.sim = s) /\ ~Owed(s, "removal")
      BY <1>6, <3>1 DEF Event
    <3>3. inserted'[s] = IF r.sim = s THEN inserted[s] + 1 ELSE inserted[s]
      BY <2>1, <3>1
    <3>. QED
      BY <2>1, <2>2, <3>1, <3>2, <3>3 DEF Accounted
  <2>4. CASE InsertRemoval(h)
    <3>1. /\ At(h, "removal") /\ ~At(h, "simEvent") /\ inserted' = inserted
          /\ removed' = [removed EXCEPT ![r.sim] = @ + 1]
      BY <2>4 DEF InsertRemoval, At
    <3>2. (Owed(s, "removal") <=> r.sim = s) /\ ~Owed(s, "simEvent")
      BY <1>6, <3>1 DEF Event
    <3>3. removed'[s] = IF r.sim = s THEN removed[s] + 1 ELSE removed[s]
      BY <2>1, <3>1
    <3>. QED
      BY <2>1, <2>2, <3>1, <3>2, <3>3 DEF Accounted
  <2>. QED
    BY <2>3, <2>4
<1>. QED
  BY <1>5, <1>6, <1>7 DEF ReportsInOrder

\* A reported SIM is upserted.
LEMMA SIMUpserted ==
  ASSUME TypeOK, Validity, Validity', ReportsInOrder, NEW h \in Handler, Step(h),
         Reporting(h), UpsertSIM(h)
  PROVE  ReportsInOrder'
<1>. DEFINE r == req[h]
<1>1. /\ Valid(r) /\ r.rest # <<>> /\ r.rest \in Seq(Statement) /\ At(h, "upsertSIM")
      /\ \A x : At(h, x) => x = "upsertSIM"
  BY DEF UpsertSIM, Validity, Valid, Request, At
<1>2. r.todo \subseteq r.sims /\ present = r.old \cup (r.sims \ r.todo)
  BY <1>1 DEF ReportsInOrder, KnowsPresent
<1>3. UNCHANGED <<inserted, removed>>
  BY DEF UpsertSIM
<1>4. CASE r.todo = {} /\ Proceed(h, r) /\ UNCHANGED present
  BY <1>1, <1>2, <1>3, <1>4, ReportGoesOn DEF Event
<1>5. ASSUME NEW s \in r.todo, present' = present \cup {s},
             LET q == [r EXCEPT !.todo = @ \ {s}, !.sim = s] IN
               IF IsNew(r, s) THEN Insert(h, q, "simEvent")
               ELSE req' = [req EXCEPT ![h] = q]
      PROVE  ReportsInOrder'
  <2>. DEFINE q == [r EXCEPT !.todo = @ \ {s}, !.sim = s]
              p == [q EXCEPT !.rest = <<"simEvent">> \o @]
  <2>1. req'[h] = IF IsNew(r, s) THEN p ELSE q
    BY <1>5 DEF Insert, TypeOK
  <2>2. /\ q.todo = r.todo \ {s} /\ q.sims = r.sims /\ q.old = r.old
        /\ q.sim = s /\ q.rest = r.rest
        /\ p.todo = r.todo \ {s} /\ p.sims = r.sims /\ p.old = r.old
        /\ p.sim = s /\ p.rest = <<"simEvent">> \o r.rest
    BY <1>1 DEF Valid, Request
  <2>3. <<"simEvent">> \o r.rest # <<>> /\ Head(<<"simEvent">> \o r.rest) = "simEvent"
    BY <1>1 DEF Statement
  <2>4. /\ IsNew(r, s) => \A x : At(h, x)' <=> x = "simEvent"
        /\ ~IsNew(r, s) => \A x : At(h, x)' <=> x = "upsertSIM"
    <3>. HIDE DEF p, q
    <3>. QED
      BY <1>1, <2>1, <2>2, <2>3 DEF At
  <2>5. KnowsPresent(h)'
    <3>1. /\ req'[h].todo = r.todo \ {s} /\ req'[h].sims = r.sims
          /\ req'[h].old = r.old /\ req'[h].sim = s
      <4>. HIDE DEF p, q
      <4>. QED
        BY <2>1, <2>2
    <3>2. ~At(h, "sims")'
      BY <2>4
    <3>3. present' = r.old \cup (r.sims \ (r.todo \ {s}))
      BY <1>2, <1>5
    <3>. QED
      BY <1>2, <3>1, <3>2, <3>3 DEF KnowsPresent
  <2>6. req'[h].sim = s
    <3>. HIDE DEF p, q
    <3>. QED
      BY <2>1, <2>2
  <2>7. /\ OneReports' /\ \A g \in Handler : Reporting(g)' => g = h
        /\ \A t \in SIM, x \in Event :
             /\ ~Owed(t, x)
             /\ Owed(t, x)' <=> Reporting(h)' /\ At(h, x)' /\ s = t
    BY <1>1, <2>6, SoleReporter DEF ReportsInOrder, Event
  <2>8. Reporting(h)'
    <3>1. \A x : At(h, x)' => x \in SIMStatement
      BY <2>4 DEF SIMStatement
    <3>. QED
      BY <2>4, ReportStatements
         DEF Validity, At, Stands, Reporting, SIMStatement
  <2>9. IsNew(r, s) => s \notin present
    BY <1>2, <1>5 DEF IsNew
  <2>10. ~IsNew(r, s) => s \in present
    BY <1>2 DEF IsNew
  <2>11. ASSUME NEW t \in SIM
         PROVE  Accounted(t)'
    <3>1. /\ inserted[t] \in Nat /\ removed[t] \in Nat
          /\ inserted[t] - removed[t] = Here(t)
      BY <2>7 DEF TypeOK, ReportsInOrder, Accounted, Event
    <3>2. ~Owed(t, "removal")' /\ (Owed(t, "simEvent")' <=> IsNew(r, s) /\ s = t)
      BY <2>4, <2>7, <2>8 DEF Event
    <3>3. Here(t)' = IF IsNew(r, s) /\ s = t THEN Here(t) + 1 ELSE Here(t)
      BY <1>5, <2>9, <2>10 DEF Here
    <3>4. Here(t) \in {0, 1}
      BY DEF Here
    <3>. QED
      BY <1>3, <3>1, <3>2, <3>3, <3>4 DEF Accounted
  <2>. QED
    BY <2>5, <2>7, <2>11 DEF ReportsInOrder
<1>. QED
  BY <1>4, <1>5 DEF UpsertSIM

\* A SIM that was not reported is marked absent.
LEMMA SIMMarkedAbsent ==
  ASSUME TypeOK, Validity, Validity', ReportsInOrder, NEW h \in Handler, Step(h),
         Reporting(h), MarkSIMAbsent(h)
  PROVE  ReportsInOrder'
<1>. DEFINE r == req[h]
<1>1. /\ Valid(r) /\ r.rest # <<>> /\ r.rest \in Seq(Statement) /\ At(h, "markAbsent")
      /\ \A x : At(h, x) => x = "markAbsent"
  BY DEF MarkSIMAbsent, Validity, Valid, Request, At
<1>2. r.todo \subseteq r.sims /\ present = r.old \cup (r.sims \ r.todo)
  BY <1>1 DEF ReportsInOrder, KnowsPresent
<1>3. UNCHANGED <<inserted, removed>>
  BY DEF MarkSIMAbsent
<1>4. CASE r.old \subseteq r.sims /\ Proceed(h, r) /\ UNCHANGED present
  BY <1>1, <1>2, <1>3, <1>4, ReportGoesOn DEF Event
<1>5. ASSUME NEW s \in r.old \ r.sims, present' = present \ {s},
             Insert(h, [r EXCEPT !.old = @ \ {s}, !.sim = s], "removal")
      PROVE  ReportsInOrder'
  <2>. DEFINE q == [r EXCEPT !.old = @ \ {s}, !.sim = s]
              p == [q EXCEPT !.rest = <<"removal">> \o @]
  <2>1. req'[h] = p
    BY <1>5 DEF Insert, TypeOK
  <2>2. /\ p.todo = r.todo /\ p.sims = r.sims /\ p.old = r.old \ {s}
        /\ p.sim = s /\ p.rest = <<"removal">> \o r.rest
    BY <1>1 DEF Valid, Request
  <2>3. <<"removal">> \o r.rest # <<>> /\ Head(<<"removal">> \o r.rest) = "removal"
    BY <1>1 DEF Statement
  <2>4. \A x : At(h, x)' <=> x = "removal"
    <3>. HIDE DEF p, q
    <3>. QED
      BY <2>1, <2>2, <2>3 DEF At
  <2>5. KnowsPresent(h)'
    <3>1. /\ req'[h].todo = r.todo /\ req'[h].sims = r.sims
          /\ req'[h].old = r.old \ {s} /\ ~At(h, "sims")'
      <4>. HIDE DEF p, q
      <4>. QED
        BY <2>1, <2>2, <2>4
    <3>2. present' = (r.old \ {s}) \cup (r.sims \ r.todo)
      BY <1>2, <1>5
    <3>. QED
      BY <1>2, <3>1, <3>2 DEF KnowsPresent
  <2>6. req'[h].sim = s
    <3>. HIDE DEF p, q
    <3>. QED
      BY <2>1, <2>2
  <2>7. /\ OneReports' /\ \A g \in Handler : Reporting(g)' => g = h
        /\ \A t \in SIM, x \in Event :
             /\ ~Owed(t, x)
             /\ Owed(t, x)' <=> Reporting(h)' /\ At(h, x)' /\ s = t
    BY <1>1, <2>6, SoleReporter DEF ReportsInOrder, Event
  <2>8. Reporting(h)'
    BY <2>4, ReportStatements DEF Validity, At, Stands, Reporting, SIMStatement
  <2>9. s \in present
    BY <1>2
  <2>10. ASSUME NEW t \in SIM
         PROVE  Accounted(t)'
    <3>1. /\ inserted[t] \in Nat /\ removed[t] \in Nat
          /\ inserted[t] - removed[t] = Here(t)
      BY <2>7 DEF TypeOK, ReportsInOrder, Accounted, Event
    <3>2. ~Owed(t, "simEvent")' /\ (Owed(t, "removal")' <=> s = t)
      BY <2>4, <2>7, <2>8 DEF Event
    <3>3. Here(t)' = IF s = t THEN Here(t) - 1 ELSE Here(t)
      BY <1>5, <2>9 DEF Here
    <3>4. Here(t) \in {0, 1}
      BY DEF Here
    <3>. QED
      BY <1>3, <3>1, <3>2, <3>3, <3>4 DEF Accounted
  <2>. QED
    BY <2>5, <2>7, <2>10 DEF ReportsInOrder
<1>. QED
  BY <1>4, <1>5 DEF MarkSIMAbsent

\* A report reads: the SIMs, the row, the settings.
LEMMA ReportReads ==
  ASSUME TypeOK, Validity, Validity', ReportsInOrder, NEW h \in Handler, Step(h),
         Reporting(h), GetSIMs(h) \/ GetDevice(h) \/ GetSettings(h)
  PROVE  ReportsInOrder'
<1>1. /\ Valid(req[h]) /\ req[h].rest # <<>>
      /\ \A x \in Event : ~At(h, x)
      /\ UNCHANGED <<present, inserted, removed>> /\ KnowsPresent(h)
  <2>1. Valid(req[h]) /\ KnowsPresent(h)
    BY DEF Validity, ReportsInOrder
  <2>2. At(h, "sims") \/ At(h, "device") \/ At(h, "settings")
    BY DEF GetSIMs, GetDevice, GetSettings
  <2>3. req[h].rest # <<>> /\ \A x \in Event : ~At(h, x)
    BY <2>2 DEF At, Event
  <2>4. UNCHANGED simVars
    BY DEF GetSIMs, GetDevice, GetSettings
  <2>. QED
    BY <2>1, <2>3, <2>4 DEF simVars
<1>2. /\ \A S \in SUBSET SIM :
           LET r == [req[h] EXCEPT !.old = S] IN
             /\ r.sims = req[h].sims /\ r.todo = req[h].todo
             /\ r.old = S /\ r.rest = req[h].rest
      /\ \A d \in Row :
           LET r == [req[h] EXCEPT !.row = d] IN
             /\ r.sims = req[h].sims /\ r.todo = req[h].todo
             /\ r.old = req[h].old /\ r.rest = req[h].rest
      /\ \A d \in Document :
           LET r == [req[h] EXCEPT !.doc = d] IN
             /\ r.sims = req[h].sims /\ r.todo = req[h].todo
             /\ r.old = req[h].old /\ r.rest = req[h].rest
  BY <1>1 DEF Valid, Request
<1>3. CASE GetSIMs(h)
  <2>. DEFINE r == [req[h] EXCEPT !.old = present]
  <2>1. Valid(r) /\ Proceed(h, r) /\ present \in SUBSET SIM
    BY <1>1, <1>3, LearnedIsValid DEF GetSIMs, TypeOK
  <2>2. req[h].todo = req[h].sims
    BY <1>1, <1>3 DEF GetSIMs, KnowsPresent
  <2>3. /\ r.sims = req[h].sims /\ r.todo = req[h].todo
        /\ r.old = present /\ r.rest = req[h].rest
    BY <1>2, <2>1
  <2>. HIDE DEF r
  <2>. QED
    BY <1>1, <2>1, <2>2, <2>3, ReportGoesOn
<1>4. CASE GetDevice(h)
  <2>. DEFINE r == [req[h] EXCEPT !.row = device]
  <2>1. Valid(r) /\ Proceed(h, r) /\ device \in Row
    <3>1. Proceed(h, r) /\ device \in Row
      BY <1>4 DEF GetDevice, RowFound, TypeOK
    <3>2. Head(req[h].rest) # "upsert"
      BY <1>4 DEF GetDevice, At
    <3>. QED
      BY <1>1, <3>1, <3>2, LearnedIsValid
  <2>2. /\ present = req[h].old \cup (req[h].sims \ req[h].todo)
        /\ req[h].todo \subseteq req[h].sims
    BY <1>1, <1>4 DEF GetDevice, KnowsPresent, At
  <2>3. /\ r.sims = req[h].sims /\ r.todo = req[h].todo
        /\ r.old = req[h].old /\ r.rest = req[h].rest
    BY <1>2, <2>1
  <2>. HIDE DEF r
  <2>. QED
    BY <1>1, <2>1, <2>2, <2>3, ReportGoesOn
<1>5. CASE GetSettings(h)
  <2>. DEFINE r == [req[h] EXCEPT !.doc = settings]
  <2>1. Valid(r) /\ Proceed(h, r) /\ settings \in Document
    BY <1>1, <1>5, LearnedIsValid DEF GetSettings, Reporting, TypeOK
  <2>2. /\ present = req[h].old \cup (req[h].sims \ req[h].todo)
        /\ req[h].todo \subseteq req[h].sims
    BY <1>1, <1>5 DEF GetSettings, KnowsPresent, At
  <2>3. /\ r.sims = req[h].sims /\ r.todo = req[h].todo
        /\ r.old = req[h].old /\ r.rest = req[h].rest
    BY <1>2, <2>1
  <2>. HIDE DEF r
  <2>. QED
    BY <1>1, <2>1, <2>2, <2>3, ReportGoesOn
<1>. QED
  BY <1>3, <1>4, <1>5

LEMMA StepReports ==
  ASSUME TypeOK, Validity, Validity', ReportsInOrder, NEW h \in Handler, Step(h),
         Undisturbed'
  PROVE  ReportsInOrder'
<1>1. CASE Reporting(h)
  <2>1. PICK x \in SIMStatement \cup {"device", "settings"} : At(h, x)
    BY <1>1, ReportStatements DEF Validity, Reporting, At, Stands
  <2>2. ~Abort(h) /\ ~Overlook(h)
    BY DEF Undisturbed, Abort, Overlook, TypeOK
  <2>3. ~Receive(h)
    BY <1>1 DEF Receive, Reporting, Idle
  <2>4. \/ GetSIMs(h) \/ GetDevice(h) \/ GetSettings(h)
        \/ UpsertSIM(h) \/ MarkSIMAbsent(h)
        \/ InsertSIMEvent(h) \/ InsertRemoval(h)
    BY <2>1, <2>2, <2>3 DEF SIMStatement, At, Step, Upsert, UpdateDeviceStatus,
       ClaimDevice, GetCached, Fill, InvalidateDeviceCache,
       InsertDefaultSettings, UpsertSettings, InsertLocation, TouchDevice,
       TrimHistory, Commit
  <2>. QED
    BY <1>1, <2>4, ReportReads, SIMUpserted, SIMMarkedAbsent, EventWritten
<1>2. CASE ~Reporting(h) /\ Receive(h)
  <2>1. UNCHANGED <<present, inserted, removed>>
    BY <1>2 DEF Receive
  <2>. QED
    BY <1>2, <2>1, IdleSteps, ReportStarts DEF Undisturbed
<1>3. CASE ~Reporting(h) /\ ~Receive(h)
  <2>1. UNCHANGED <<present, inserted, removed>> /\ ~Reporting(h)'
    BY <1>3, OtherSteps DEF simVars
  <2>. QED
    BY <1>3, <2>1, IdleSteps
<1>. QED
  BY <1>1, <1>2, <1>3

\* Neither a fault nor an overlap is ever forgotten.
LEMMA StaysDisturbed ==
  ASSUME TypeOK, [Next]_vars, Undisturbed'
  PROVE  Undisturbed
<1>1. CASE UNCHANGED vars \/ Expire
  BY <1>1 DEF Undisturbed, vars, Expire, simVars, bounds
<1>2. ASSUME NEW h \in Handler, Step(h)
      PROVE  Undisturbed
  <2>1. CASE Receive(h)
    <3>1. faults' = faults /\ (crossed => crossed')
      BY <2>1, Zenon DEF Receive
    <3>. QED
      BY <3>1 DEF Undisturbed
  <2>2. CASE Abort(h) \/ Overlook(h)
    <3>1. faults' = faults + 1 /\ faults \in Nat
      BY <2>2 DEF Abort, Overlook, TypeOK
    <3>. QED
      BY <3>1 DEF Undisturbed
  <2>3. CASE ~(Receive(h) \/ Abort(h) \/ Overlook(h))
    <3>1. UNCHANGED bounds /\ crossed' = crossed
      BY <1>2, <2>3
         DEF Step, GetDevice, Upsert, UpdateDeviceStatus, ClaimDevice,
         GetCached, Fill, InvalidateDeviceCache, InsertDefaultSettings,
         GetSettings, UpsertSettings, GetSIMs, UpsertSIM, InsertSIMEvent,
         MarkSIMAbsent, InsertRemoval, InsertLocation, TouchDevice, TrimHistory,
         Commit, simVars
    <3>. QED
      BY <3>1 DEF Undisturbed, bounds
  <2>. QED
    BY <2>1, <2>2, <2>3
<1>. QED
  BY <1>1, <1>2 DEF Next

ReportsInv == Undisturbed => ReportsInOrder

\* The invariant says what is asked of it once nobody reports.
LEMMA OrderBalances == DeviceInv /\ ReportsInv => SIMEventsBalance
<1>. SUFFICES ASSUME Validity, ReportsInOrder, \A h \in Handler : ~Reporting(h),
                     NEW s \in SIM
              PROVE  inserted[s] - removed[s] = IF s \in present THEN 1 ELSE 0
  BY DEF DeviceInv, ReportsInv, Undisturbed, SIMEventsBalance
<1>1. ~Owed(s, "simEvent") /\ ~Owed(s, "removal")
  BY OwedByReports DEF Event
<1>. QED
  BY <1>1 DEF ReportsInOrder, Accounted, Here

(***************************************************************************)
(* Every change of the SIMs is announced once (upsertSIM and markSIMAbsent *)
(* and the events behind them in repository/device_security.go): without   *)
(* faults and overlapping reports a SIM is present exactly when one more   *)
(* insertion than removals of it is recorded, for every set of SIMs, and   *)
(* among any other operations.                                             *)
(***************************************************************************)
THEOREM SIMEventsAlwaysBalance == Spec => []SIMEventsBalance
<1>1. Init => ReportsInv
  <2>. SUFFICES ASSUME Init PROVE ReportsInOrder
    BY DEF ReportsInv
  <2>1. \A h \in Handler : req[h] = Idle
    BY DEF Init
  <2>2. /\ \A h \in Handler : ~Reporting(h)
        /\ \A h \in Handler : \A x : ~At(h, x)
    BY <2>1 DEF Reporting, At, Idle
  <2>3. OneReports /\ \A h \in Handler : Reporting(h) => KnowsPresent(h)
    BY <2>2 DEF OneReports
  <2>4. \A s \in SIM : Accounted(s)
    BY <2>2 DEF Init, Accounted, Owed, Here
  <2>. QED
    BY <2>3, <2>4 DEF ReportsInOrder
<1>2. DeviceInv /\ DeviceInv' /\ ReportsInv /\ [Next]_vars => ReportsInv'
  <2>. SUFFICES ASSUME DeviceInv, DeviceInv', ReportsInOrder, [Next]_vars,
                       Undisturbed'
                PROVE  ReportsInOrder'
    BY StaysDisturbed DEF ReportsInv, DeviceInv
  <2>1. CASE UNCHANGED vars \/ Expire
    <3>1. UNCHANGED <<req, present, inserted, removed>>
      BY <2>1 DEF vars, Expire, simVars
    <3>. QED
      BY <3>1
         DEF ReportsInOrder, OneReports, KnowsPresent, Reporting, Accounted,
         Owed, Here, At
  <2>2. ASSUME NEW h \in Handler, Step(h)
        PROVE  ReportsInOrder'
    BY <2>2, StepReports DEF DeviceInv
  <2>. QED
    BY <2>1, <2>2 DEF Next
<1>. QED
  BY <1>1, <1>2, AlwaysDevice, OrderBalances, PTL DEF Spec
=============================================================================
