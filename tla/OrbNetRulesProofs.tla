------------------------- MODULE OrbNetRulesProofs -------------------------
(***************************************************************************)
(* Proofs about OrbNetRules, for all domains, rules and what they cover,   *)
(* any number of requests and VPN servers at work, and any number of       *)
(* restarts.                                                               *)
(***************************************************************************)
EXTENDS OrbNetRules, TLAPS

-----------------------------------------------------------------------------
(***************************************************************************)
(* Types.                                                                  *)
(***************************************************************************)
Asking == [at : {"redis", "cache", "rules", "store", "setRedis"}, domain : Domain,
           response : Response, missed : BOOLEAN]
Syncing == [at : {"found", "collected"}, delta : BOOLEAN, rules : SUBSET Rule,
            missing : SUBSET Rule]

RulesOK ==
  /\ scene \in Scene
  /\ blockRules \subseteq Rule
  /\ updatedAt \in [Rule -> 0 .. now] /\ now \in 1 .. MaxTime
  /\ stored \in [IndicatorRule -> 0 .. now]

AnswersOK ==
  /\ domainCache \in [Domain -> Response \cup {None}]
  /\ redis \in [Domain -> {"allow", "block", "none"}]
  /\ query \in [Query -> {Idle} \cup Asking]
  /\ overtaken \subseteq Domain

ServersOK ==
  /\ registered \subseteq Server
  /\ sync \in [Server -> {NoSync} \cup Syncing]
  /\ copy \in [Server -> SUBSET Rule] /\ slipped \in [Server -> SUBSET Rule]
  /\ lastSync \in [Server -> 0 .. now]

BoundsOK ==
  /\ queries \in 0 .. MaxQueries /\ syncs \in 0 .. MaxSyncs
  /\ restarts \in 0 .. MaxRestarts

LEMMA TypeParts == TypeOK <=> RulesOK /\ AnswersOK /\ ServersOK /\ BoundsOK
BY DEF TypeOK, RulesOK, AnswersOK, ServersOK, BoundsOK, Asking, Syncing

LEMMA Given ==
  /\ DefaultRule \subseteq Rule /\ UrlRule \subseteq Rule /\ IndicatorRule \subseteq Rule
  /\ DefaultRule \cup UrlRule \subseteq Rule \ IndicatorRule
  /\ Scene \subseteq {"askers", "servers"}
  /\ Key \in [Rule -> Domain \cup {None}] /\ None \notin Domain /\ None \notin Rule
  /\ Covers \in [Rule -> SUBSET Domain]
  /\ MaxTime \in Nat /\ MaxTime > 0
  /\ MaxQueries \in Nat /\ MaxSyncs \in Nat /\ MaxRestarts \in Nat
BY OrbNetAssumption DEF OrbNetAssumption

LEMMA IdleFacts ==
  /\ Idle.at = "idle" /\ Idle \notin Asking /\ Allow \in Response
  /\ NoSync.at = "idle" /\ NoSync \notin Syncing
BY DEF Idle, NoSync, Asking, Syncing, Response

\* An exact rule names a domain and covers no other.
LEMMA ExactRules ==
  /\ Exact \subseteq Rule /\ None \notin Exact
  /\ \A r \in Exact : Key[r] \in Domain /\ Key[r] # None /\ Covers[r] = {Key[r]}
BY Given DEF Exact

\* The rules of a start.
LEMMA LoadsTyped ==
  ASSUME NEW loaded \in Loads
  PROVE  loaded \subseteq Rule
BY Given DEF Loads

\* A request that is under way has a domain and an answer.
LEMMA UnderWay ==
  ASSUME AnswersOK, NEW q \in Query, query[q].at # "idle"
  PROVE  query[q] \in Asking /\ query[q].domain \in Domain /\ query[q].response \in Response
<1>1. query[q] \in {Idle} \cup Asking
  BY DEF AnswersOK
<1>2. query[q] \in Asking
  BY <1>1, IdleFacts
<1>. QED
  BY <1>2 DEF Asking

LEMMA SyncUnderWay ==
  ASSUME ServersOK, NEW v \in Server, sync[v].at # "idle"
  PROVE  /\ sync[v] \in Syncing /\ sync[v].rules \subseteq Rule
         /\ sync[v].missing \subseteq Rule /\ sync[v].delta \in BOOLEAN
<1>1. sync[v] \in {NoSync} \cup Syncing
  BY DEF ServersOK
<1>2. sync[v] \in Syncing
  BY <1>1, IdleFacts
<1>. QED
  BY <1>2 DEF Syncing

LEMMA VerdictsTyped ==
  ASSUME RulesOK, NEW d, NEW response \in Verdicts(d)
  PROVE  response \in Response
<1>1. CASE Matching(d) # {}
  <2>1. PICK r \in Matching(d) : response = [blocked |-> TRUE, rule |-> r]
    BY <1>1 DEF Verdicts
  <2>2. r \in Rule
    BY DEF RulesOK, Matching
  <2>. QED
    BY <2>1, <2>2 DEF Response
<1>2. CASE Matching(d) = {}
  <2>1. response = [blocked |-> TRUE, rule |-> None] \/ response = Allow
    BY <1>2 DEF Verdicts
  <2>2. [blocked |-> TRUE, rule |-> None] \in Response
    BY DEF Response
  <2>. QED
    BY <2>1, <2>2, IdleFacts
<1>. QED
  BY <1>1, <1>2

LEMMA InitTyped == Init => TypeOK
<1>. SUFFICES ASSUME Init
              PROVE  RulesOK /\ AnswersOK /\ ServersOK /\ BoundsOK
  BY TypeParts
<1>1. RulesOK
  <2>1. blockRules \subseteq Rule
    BY LoadsTyped DEF Init
  <2>2. now = 1 /\ 1 \in 1 .. MaxTime
    BY Given DEF Init
  <2>3. stored \in [IndicatorRule -> 0 .. now] /\ updatedAt \in [Rule -> 0 .. now]
    BY <2>2 DEF Init
  <2>. QED
    BY <2>1, <2>2, <2>3 DEF Init, RulesOK
<1>2. AnswersOK
  BY DEF Init, AnswersOK
<1>3. ServersOK
  BY DEF Init, ServersOK
<1>4. BoundsOK
  BY Given DEF Init, BoundsOK
<1>. QED
  BY <1>1, <1>2, <1>3, <1>4

LEMMA RulesKept == RulesOK /\ UNCHANGED rules => RulesOK'
BY DEF RulesOK, rules
LEMMA ServersKept == RulesOK /\ ServersOK /\ UNCHANGED <<rules, servers>> => ServersOK'
BY DEF ServersOK, rules, servers
LEMMA BoundsKept == BoundsOK /\ UNCHANGED bounds => BoundsOK'
BY DEF BoundsOK, bounds
LEMMA AnswersKept == AnswersOK /\ UNCHANGED answers => AnswersOK'
BY DEF AnswersOK, answers

\* The request of q becomes new.
Turns(q, new) == query' = [query EXCEPT ![q] = new]

LEMMA TurnsTyped ==
  ASSUME AnswersOK, NEW q \in Query, NEW new \in {Idle} \cup Asking, Turns(q, new)
  PROVE  /\ query' \in [Query -> {Idle} \cup Asking]
         /\ query'[q] = new /\ \A p \in Query : p # q => query'[p] = query[p]
BY DEF AnswersOK, Turns

\* What a request that goes on keeps.
LEMMA GoesOn ==
  ASSUME AnswersOK, NEW q \in Query, query[q].at # "idle",
         NEW at \in {"redis", "cache", "rules", "store", "setRedis"}
  PROVE  LET new == [query[q] EXCEPT !.at = at] IN
         /\ new \in Asking /\ new.at = at /\ new.domain = query[q].domain
         /\ new.response = query[q].response /\ new.missed = query[q].missed
         /\ (Go(q, at) => Turns(q, new))
<1>1. query[q] \in Asking
  BY UnderWay
<1>. QED
  BY <1>1 DEF Asking, Go, Turns, AnswersOK

\* Each step of a request, by what it makes of the request.
LEMMA ProgressTyped ==
  ASSUME RulesOK, AnswersOK, NEW q \in Query, Progress(q)
  PROVE  AnswersOK'
<1>0. query[q].at # "idle" /\ query[q] \in Asking
  BY UnderWay DEF Progress, LookupRedis, LookupCache, CheckDomainAgainstRules, StoreAnswer,
     SetRedis, At
<1>1. ASSUME LookupRedis(q) \/ LookupCache(q)
      PROVE  AnswersOK'
  <2>1. \E new \in {Idle} \cup Asking : Turns(q, new)
    <3>1. Return(q) \/ Go(q, "cache") \/ Go(q, "rules")
      BY <1>1 DEF LookupRedis, LookupCache
    <3>2. \A at \in {"cache", "rules"} : Go(q, at) => \E new \in Asking : Turns(q, new)
      BY <1>0, GoesOn
    <3>3. Return(q) => Turns(q, Idle)
      BY DEF Return, Turns
    <3>. QED
      BY <3>1, <3>2, <3>3
  <2>. QED
    BY <1>0, <1>1, <2>1, TurnsTyped DEF LookupRedis, LookupCache, AnswersOK
<1>2. CASE CheckDomainAgainstRules(q)
  <2>1. PICK response \in Verdicts(query[q].domain) :
          query' = [query EXCEPT ![q].at = "store", ![q].response = response]
    BY <1>2 DEF CheckDomainAgainstRules
  <2>2. Turns(q, [query[q] EXCEPT !.at = "store", !.response = response])
    BY <2>1 DEF Turns, AnswersOK
  <2>3. [query[q] EXCEPT !.at = "store", !.response = response] \in Asking
    BY <1>0, VerdictsTyped DEF Asking
  <2>. QED
    BY <1>0, <1>2, <2>2, <2>3, TurnsTyped DEF CheckDomainAgainstRules, AnswersOK
<1>3. CASE StoreAnswer(q)
  <2>1. \E new \in {Idle} \cup Asking : Turns(q, new)
    BY <1>0, <1>3, GoesOn DEF StoreAnswer
  <2>. QED
    BY <1>0, <1>3, <2>1, TurnsTyped, UnderWay DEF StoreAnswer, AnswersOK
<1>4. CASE SetRedis(q)
  <2>1. Turns(q, Idle)
    BY <1>4 DEF SetRedis, Return, Turns
  <2>. QED
    BY <1>0, <1>4, <2>1, TurnsTyped, UnderWay DEF SetRedis, AnswersOK
<1>. QED
  BY <1>1, <1>2, <1>3, <1>4 DEF Progress

LEMMA UncacheTyped ==
  ASSUME AnswersOK, NEW changed \in SUBSET Rule, NEW gone \in SUBSET Rule,
         Uncache(changed, gone)
  PROVE  AnswersOK'
<1>1. domainCache' \in [Domain -> Response \cup {None}]
  BY DEF Uncache, AnswersOK
<1>2. redis' = redis /\ overtaken' \subseteq Domain
  BY DEF Uncache, AnswersOK
<1>3. \A q \in Query : At(q, "store") => [query[q] EXCEPT !.missed = TRUE] \in Asking
  BY UnderWay DEF At, Asking
<1>4. query' \in [Query -> {Idle} \cup Asking]
  BY <1>3 DEF Uncache, AnswersOK
<1>. QED
  BY <1>1, <1>2, <1>4 DEF AnswersOK

LEMMA StepTyped == TypeOK /\ [Next]_vars => TypeOK'
<1>. SUFFICES ASSUME TypeOK, [Next]_vars
              PROVE  RulesOK' /\ AnswersOK' /\ ServersOK' /\ BoundsOK'
  <2>1. (RulesOK /\ AnswersOK /\ ServersOK /\ BoundsOK)' => TypeOK'
    BY DEF TypeOK, RulesOK, AnswersOK, ServersOK, BoundsOK, Asking, Syncing
  <2>. QED
    BY <2>1
<1>0. RulesOK /\ AnswersOK /\ ServersOK /\ BoundsOK
  BY TypeParts
<1>1. ASSUME NEW q \in Query, Progress(q)
      PROVE  RulesOK' /\ AnswersOK' /\ ServersOK' /\ BoundsOK'
  <2>1. UNCHANGED <<rules, servers, bounds>>
    BY <1>1 DEF Progress, LookupRedis, LookupCache, CheckDomainAgainstRules, StoreAnswer,
       SetRedis
  <2>. QED
    BY <1>0, <1>1, <2>1, ProgressTyped, RulesKept, ServersKept, BoundsKept
<1>2. ASSUME NEW q \in Query, NEW d \in Domain, Ask(q, d)
      PROVE  RulesOK' /\ AnswersOK' /\ ServersOK' /\ BoundsOK'
  <2>1. UNCHANGED <<rules, servers>>
    BY <1>2 DEF Ask
  <2>2. [Idle EXCEPT !.at = "redis", !.domain = d] \in Asking
    BY IdleFacts DEF Idle, Asking
  <2>3. query' \in [Query -> {Idle} \cup Asking]
    BY <1>0, <1>2, <2>2, TurnsTyped DEF Ask, Turns
  <2>4. AnswersOK'
    BY <1>0, <1>2, <2>3 DEF Ask, AnswersOK
  <2>5. BoundsOK'
    BY <1>0, <1>2, Given DEF Ask, BoundsOK
  <2>. QED
    BY <1>0, <2>1, <2>4, <2>5, RulesKept, ServersKept
<1>3. ASSUME NEW d \in Domain, RedisExpires(d)
      PROVE  RulesOK' /\ AnswersOK' /\ ServersOK' /\ BoundsOK'
  <2>1. UNCHANGED <<rules, servers, bounds>>
    BY <1>3 DEF RedisExpires
  <2>2. AnswersOK'
    BY <1>0, <1>3 DEF RedisExpires, AnswersOK
  <2>. QED
    BY <1>0, <2>1, <2>2, RulesKept, ServersKept, BoundsKept
<1>4. ASSUME NEW r \in IndicatorRule, StoreIndicator(r)
      PROVE  RulesOK' /\ AnswersOK' /\ ServersOK' /\ BoundsOK'
  <2>1. /\ now < MaxTime /\ now' = now + 1 /\ stored' = [stored EXCEPT ![r] = now + 1]
        /\ UNCHANGED <<scene, blockRules, updatedAt, answers, servers, bounds>>
    BY <1>4 DEF StoreIndicator
  <2>2. now' \in 1 .. MaxTime /\ now + 1 \in 0 .. now' /\ 0 .. now \subseteq 0 .. now'
    BY <1>0, <2>1, Given DEF RulesOK
  <2>3. RulesOK'
    BY <1>0, <2>1, <2>2 DEF RulesOK
  <2>4. ServersOK'
    BY <1>0, <2>1, <2>2 DEF ServersOK, servers
  <2>. QED
    BY <1>0, <2>1, <2>3, <2>4, AnswersKept, BoundsKept
<1>5. ASSUME NEW new \in SUBSET Rule, NEW gone \in SUBSET Rule, Put(new, gone)
      PROVE  RulesOK' /\ AnswersOK' /\ ServersOK' /\ BoundsOK'
  <2>1. /\ now < MaxTime /\ now' = now + 1 /\ Uncache(new, gone) /\ NoteNew(new)
        /\ UNCHANGED <<scene, stored, registered, copy, lastSync, slipped, bounds>>
    BY <1>5 DEF Put
  <2>2. now' \in 1 .. MaxTime /\ now + 1 \in 0 .. now' /\ 0 .. now \subseteq 0 .. now'
        /\ 0 \in 0 .. now'
    BY <1>0, <2>1, Given DEF RulesOK
  <2>3. updatedAt' \in [Rule -> 0 .. now'] /\ blockRules' \subseteq Rule
    BY <1>0, <1>5, <2>2 DEF Put, RulesOK
  <2>4. RulesOK'
    BY <1>0, <2>1, <2>2, <2>3 DEF RulesOK
  <2>5. AnswersOK'
    BY <1>0, <2>1, UncacheTyped
  <2>6. ServersOK'
    <3>1. \A v \in Server : sync[v].at = "collected" =>
            [sync[v] EXCEPT !.missing = @ \cup new] \in Syncing
      BY <1>0, SyncUnderWay DEF Syncing
    <3>2. sync' \in [Server -> {NoSync} \cup Syncing]
      BY <1>0, <2>1, <3>1 DEF NoteNew, ServersOK
    <3>. QED
      BY <1>0, <2>1, <2>2, <3>2 DEF ServersOK
  <2>. QED
    BY <1>0, <2>1, <2>4, <2>5, <2>6, BoundsKept
<1>6. ASSUME NEW r \in Rule, AddBlockRule(r)
      PROVE  RulesOK' /\ AnswersOK' /\ ServersOK' /\ BoundsOK'
  <2>1. PICK gone \in SUBSET Rule : Put({r}, gone)
    BY <1>0, <1>6 DEF AddBlockRule, RulesOK
  <2>. QED
    BY <1>5, <2>1
<1>7. ASSUME NEW new \in SUBSET Rule, EmergencyBlock(new)
      PROVE  RulesOK' /\ AnswersOK' /\ ServersOK' /\ BoundsOK'
  BY <1>5, <1>7 DEF EmergencyBlock
<1>8. ASSUME NEW r \in Rule, RemoveBlockRule(r)
      PROVE  RulesOK' /\ AnswersOK' /\ ServersOK' /\ BoundsOK'
  <2>1. /\ blockRules' = blockRules \ {r} /\ Uncache({r}, {})
        /\ updatedAt' = [updatedAt EXCEPT ![r] = 0]
        /\ UNCHANGED <<scene, now, stored, servers, bounds>>
    BY <1>8 DEF RemoveBlockRule
  <2>2. RulesOK'
    BY <1>0, <2>1 DEF RulesOK
  <2>3. AnswersOK'
    BY <1>0, <2>1, UncacheTyped
  <2>4. ServersOK'
    BY <1>0, <2>1 DEF ServersOK, servers
  <2>. QED
    BY <1>0, <2>1, <2>2, <2>3, <2>4, BoundsKept
<1>9. ASSUME NEW v \in Server, RegisterServer(v)
      PROVE  RulesOK' /\ AnswersOK' /\ ServersOK' /\ BoundsOK'
  <2>1. UNCHANGED <<rules, answers, bounds>>
    BY <1>9 DEF RegisterServer
  <2>2. ServersOK'
    BY <1>0, <1>9 DEF RegisterServer, ServersOK, rules
  <2>. QED
    BY <1>0, <2>1, <2>2, RulesKept, AnswersKept, BoundsKept
<1>10. ASSUME NEW v \in Server, NEW delta \in BOOLEAN, SyncThreatData(v, delta)
       PROVE  RulesOK' /\ AnswersOK' /\ ServersOK' /\ BoundsOK'
  <2>1. UNCHANGED <<rules, answers>>
    BY <1>10 DEF SyncThreatData
  <2>2. [NoSync EXCEPT !.at = "found", !.delta = delta] \in Syncing
    BY DEF NoSync, Syncing
  <2>3. ServersOK'
    BY <1>0, <1>10, <2>2 DEF SyncThreatData, ServersOK, rules
  <2>4. BoundsOK'
    BY <1>0, <1>10, Given DEF SyncThreatData, BoundsOK
  <2>. QED
    BY <1>0, <2>1, <2>3, <2>4, RulesKept, AnswersKept
<1>11. ASSUME NEW v \in Server, Collect(v)
       PROVE  RulesOK' /\ AnswersOK' /\ ServersOK' /\ BoundsOK'
  <2>1. UNCHANGED <<rules, answers, bounds, registered, copy, lastSync, slipped>>
    BY <1>11 DEF Collect
  <2>. DEFINE due == IF sync[v].delta THEN Updated(v) ELSE blockRules
  <2>2. PICK S \in SUBSET due :
          sync' = [sync EXCEPT ![v] = [@ EXCEPT !.at = "collected", !.rules = S,
                                                !.missing = due \ S]]
    BY <1>11 DEF Collect
  <2>3. due \subseteq Rule /\ S \subseteq Rule
    BY <1>0 DEF Updated, RulesOK
  <2>4. sync[v] \in Syncing
    BY <1>0, <1>11, SyncUnderWay DEF Collect
  <2>. HIDE DEF due
  <2>5. sync' \in [Server -> {NoSync} \cup Syncing]
    <3>1. [sync[v] EXCEPT !.at = "collected", !.rules = S, !.missing = due \ S] \in Syncing
      BY <2>3, <2>4 DEF Syncing
    <3>. QED
      BY <1>0, <2>2, <3>1 DEF ServersOK
  <2>6. ServersOK'
    BY <1>0, <2>1, <2>5 DEF ServersOK, rules
  <2>. QED
    BY <1>0, <2>1, <2>6, RulesKept, AnswersKept, BoundsKept
<1>12. ASSUME NEW v \in Server, Stamp(v)
       PROVE  RulesOK' /\ AnswersOK' /\ ServersOK' /\ BoundsOK'
  <2>1. UNCHANGED <<rules, answers, bounds>>
    BY <1>12 DEF Stamp
  <2>2. sync[v].rules \subseteq Rule /\ sync[v].missing \subseteq Rule
    BY <1>0, <1>12, SyncUnderWay DEF Stamp
  <2>3. copy' \in [Server -> SUBSET Rule] /\ slipped' \in [Server -> SUBSET Rule]
    BY <1>0, <1>12, <2>2 DEF Stamp, ServersOK
  <2>4. lastSync' \in [Server -> 0 .. now] /\ sync' \in [Server -> {NoSync} \cup Syncing]
    BY <1>0, <1>12 DEF Stamp, ServersOK, Timestamp, RulesOK
  <2>5. ServersOK'
    BY <1>0, <1>12, <2>1, <2>3, <2>4 DEF Stamp, ServersOK, rules
  <2>. QED
    BY <1>0, <2>1, <2>5, RulesKept, AnswersKept, BoundsKept
<1>13. CASE Restart
  <2>1. /\ now < MaxTime /\ now' = now + 1 /\ blockRules' \in Loads
        /\ UNCHANGED <<scene, stored>>
    BY <1>13 DEF Restart
  <2>2. now' \in 1 .. MaxTime /\ now + 1 \in 0 .. now' /\ 0 .. now \subseteq 0 .. now'
        /\ 0 \in 0 .. now'
    BY <1>0, <2>1, Given DEF RulesOK
  <2>3. blockRules' \subseteq Rule
    BY <2>1, LoadsTyped
  <2>4. updatedAt' \in [Rule -> 0 .. now']
    BY <1>0, <1>13, <2>2 DEF Restart, RulesOK
  <2>5. RulesOK'
    BY <1>0, <2>1, <2>2, <2>3, <2>4 DEF RulesOK
  <2>6. AnswersOK'
    BY <1>0, <1>13 DEF Restart, AnswersOK
  <2>7. slipped' \in [Server -> SUBSET Rule]
    BY <1>0, <1>13, <2>3, Given DEF Restart, ServersOK
  <2>8. ServersOK'
    BY <1>0, <1>13, <2>2, <2>7 DEF Restart, ServersOK
  <2>9. BoundsOK'
    BY <1>0, <1>13, Given DEF Restart, BoundsOK
  <2>. QED
    BY <2>5, <2>6, <2>8, <2>9
<1>14. CASE UNCHANGED vars
  BY <1>0, <1>14, RulesKept, AnswersKept, ServersKept, BoundsKept DEF vars
<1>. QED
  BY <1>1, <1>2, <1>3, <1>4, <1>6, <1>7, <1>8, <1>9, <1>10, <1>11, <1>12, <1>13, <1>14
     DEF Next

\* Rules, answers, requests and syncs keep their types, and no rule is newer
\* than the service's clock.
THEOREM TypeCorrect == Spec => []TypeOK
BY InitTyped, StepTyped, PTL DEF Spec

-----------------------------------------------------------------------------
(***************************************************************************)
(* Cached answers.  An answer agrees with the exact rules when the rules   *)
(* in force make it; a change of the domain's exact rule on its way into   *)
(* the cache is noted, and a change afterwards takes it out.               *)
(***************************************************************************)
Agrees(d, response, inForce) ==
  /\ (\E r \in inForce \cap Exact : Key[r] = d) => response.blocked
  /\ response.rule \in Exact => response.rule \in inForce /\ Key[response.rule] = d

CacheAgrees ==
  \A d \in Domain : d \notin overtaken /\ domainCache[d] # None =>
    Agrees(d, domainCache[d], blockRules)

StoresAgree ==
  \A q \in Query : At(q, "store") /\ ~query[q].missed =>
    Agrees(query[q].domain, query[q].response, blockRules)

Agreeing == TypeOK /\ CacheAgrees /\ StoresAgree

LEMMA NewAnswerAgrees ==
  ASSUME RulesOK, NEW d \in Domain, NEW response \in Verdicts(d)
  PROVE  Agrees(d, response, blockRules)
<1>0. \A r \in blockRules : r \in Rule
  BY DEF RulesOK
<1>1. CASE Matching(d) # {}
  <2>1. PICK r \in Matching(d) : response = [blocked |-> TRUE, rule |-> r]
    BY <1>1 DEF Verdicts
  <2>2. r \in blockRules /\ d \in Covers[r] /\ r \in Rule
    BY <1>0 DEF Matching
  <2>3. r \in Exact => Key[r] = d
    BY <2>2, ExactRules
  <2>. QED
    BY <2>1, <2>2, <2>3 DEF Agrees
<1>2. CASE Matching(d) = {}
  <2>1. \A r \in blockRules \cap Exact : Key[r] # d
    <3>1. ASSUME NEW r \in blockRules \cap Exact, Key[r] = d
          PROVE  FALSE
      <4>1. d \in Covers[r]
        BY <3>1, ExactRules
      <4>. QED
        BY <1>2, <4>1 DEF Matching
    <3>. QED
      BY <3>1
  <2>2. response.rule = None
    BY <1>2 DEF Verdicts, Allow
  <2>. QED
    BY <2>1, <2>2, ExactRules DEF Agrees
<1>. QED
  BY <1>1, <1>2

\* An answer survives a change of rules that are not its domain's own.
LEMMA AgreesOn ==
  ASSUME NEW d \in Domain, NEW response, NEW old, NEW new,
         Agrees(d, response, old),
         \A r \in Exact : r \in new /\ r \notin old => Key[r] # d,
         \A r \in Exact : r \in old /\ r \notin new => Key[r] # d \/ response.rule # r
  PROVE  Agrees(d, response, new)
BY DEF Agrees

\* The rules of changed come or go, and those of gone, if any, are replaced.
LEMMA UncacheAgrees ==
  ASSUME Agreeing, NEW changed \in SUBSET Rule, NEW gone \in SUBSET Rule,
         Uncache(changed, gone),
         \A r \in blockRules' \ blockRules : r \in changed,
         \A r \in blockRules \ blockRules' : r \in changed \cup gone
  PROVE  CacheAgrees' /\ StoresAgree'
<1>0. AnswersOK
  BY TypeParts DEF Agreeing
<1>1. ASSUME NEW d \in Domain, d \notin overtaken', domainCache'[d] # None
      PROVE  Agrees(d, domainCache'[d], blockRules')
  <2>. DEFINE forgotten == UNION {Forget(r) : r \in changed}
              left == {e \in Domain : /\ domainCache[e] # None
                                      /\ domainCache[e].rule \in gone \cap Exact}
  <2>1. /\ domainCache' = [e \in Domain |-> IF e \in forgotten THEN None ELSE domainCache[e]]
        /\ overtaken' = (overtaken \cup left) \ forgotten
    BY DEF Uncache
  <2>2. d \notin forgotten
    BY <1>1, <2>1
  <2>3. domainCache'[d] = domainCache[d] /\ d \notin overtaken /\ d \notin left
    BY <1>1, <2>1, <2>2
  <2>4. \A r \in changed \cap Exact : Key[r] # d
    <3>1. \A r \in changed \cap Exact : Key[r] \in forgotten
      BY ExactRules DEF Forget
    <3>. QED
      BY <2>2, <3>1
  <2>5. domainCache[d].rule \notin gone \cap Exact
    BY <1>1, <2>3
  <2>. HIDE DEF forgotten, left
  <2>6. Agrees(d, domainCache[d], blockRules)
    BY <1>1, <2>3 DEF Agreeing, CacheAgrees
  <2>. QED
    BY <2>3, <2>4, <2>5, <2>6, AgreesOn
<1>2. ASSUME NEW q \in Query, At(q, "store")', ~query'[q].missed
      PROVE  Agrees(query'[q].domain, query'[q].response, blockRules')
  <2>. DEFINE hit == {Key[r] : r \in (changed \cup gone) \cap Exact}
  <2>1. query'[q] = IF At(q, "store") /\ query[q].domain \in hit
                    THEN [query[q] EXCEPT !.missed = TRUE] ELSE query[q]
    BY DEF Uncache
  <2>. HIDE DEF hit
  <2>2. At(q, "store")
    BY <1>2, <2>1 DEF At
  <2>3. query[q] \in Asking
    BY <1>0, <2>2, UnderWay DEF At
  <2>4. query'[q] = query[q] /\ query[q].domain \notin hit
    <3>1. [query[q] EXCEPT !.missed = TRUE].missed = TRUE
      BY <2>3 DEF Asking
    <3>. QED
      BY <1>2, <2>1, <2>2, <3>1
  <2>5. /\ query[q].domain \in Domain
        /\ \A r \in (changed \cup gone) \cap Exact : Key[r] # query[q].domain
    BY <2>3, <2>4 DEF Asking, hit
  <2>6. Agrees(query[q].domain, query[q].response, blockRules)
    BY <1>2, <2>2, <2>4 DEF Agreeing, StoresAgree
  <2>. QED
    BY <2>4, <2>5, <2>6, AgreesOn
<1>. QED
  BY <1>1, <1>2 DEF CacheAgrees, StoresAgree

\* What Put makes of the answers.
LEMMA PutAgrees ==
  ASSUME Agreeing, NEW new \in SUBSET Rule, NEW gone \in SUBSET Rule, Put(new, gone)
  PROVE  CacheAgrees' /\ StoresAgree'
BY UncacheAgrees DEF Put

LEMMA InitAgreeing == Init => Agreeing
BY InitTyped, IdleFacts DEF Init, Agreeing, CacheAgrees, StoresAgree, At

\* The cache and the rules stay, and no request comes to where it stores.
LEMMA AgreeingKept ==
  ASSUME Agreeing, UNCHANGED <<blockRules, domainCache, overtaken>>,
         \A q \in Query : query'[q].at = "store" => query'[q] = query[q]
  PROVE  CacheAgrees' /\ StoresAgree'
BY DEF Agreeing, CacheAgrees, StoresAgree, At

LEMMA ProgressAgrees ==
  ASSUME Agreeing, NEW q \in Query, Progress(q)
  PROVE  CacheAgrees' /\ StoresAgree'
<1>0. /\ RulesOK /\ AnswersOK /\ blockRules' = blockRules
      /\ query[q].at # "idle" /\ query[q] \in Asking /\ query[q].domain \in Domain
  <2>1. RulesOK /\ AnswersOK
    BY TypeParts DEF Agreeing
  <2>. QED
    BY <2>1, UnderWay DEF Progress, LookupRedis, LookupCache, CheckDomainAgainstRules,
       StoreAnswer, SetRedis, At, rules
<1>1. CASE LookupRedis(q) \/ LookupCache(q)
  <2>1. Return(q) \/ Go(q, "cache") \/ Go(q, "rules")
    BY <1>1 DEF LookupRedis, LookupCache
  <2>2. \A p \in Query : query'[p].at = "store" => query'[p] = query[p]
    <3>1. CASE Return(q)
      <4>1. Turns(q, Idle)
        BY <3>1 DEF Return, Turns
      <4>. QED
        BY <1>0, <4>1, TurnsTyped, IdleFacts
    <3>2. ASSUME NEW at \in {"cache", "rules"}, Go(q, at)
          PROVE  \A p \in Query : query'[p].at = "store" => query'[p] = query[p]
      <4>1. PICK new \in Asking : Turns(q, new) /\ new.at = at
        BY <1>0, <3>2, GoesOn
      <4>. QED
        BY <1>0, <4>1, TurnsTyped
    <3>. QED
      BY <2>1, <3>1, <3>2
  <2>3. UNCHANGED <<domainCache, overtaken>>
    BY <1>1 DEF LookupRedis, LookupCache
  <2>. QED
    BY <1>0, <2>2, <2>3, AgreeingKept
<1>2. CASE CheckDomainAgainstRules(q)
  <2>1. PICK response \in Verdicts(query[q].domain) :
          query' = [query EXCEPT ![q].at = "store", ![q].response = response]
    BY <1>2 DEF CheckDomainAgainstRules
  <2>. DEFINE new == [query[q] EXCEPT !.at = "store", !.response = response]
  <2>2. Turns(q, new)
    BY <2>1 DEF Turns, AnswersOK
  <2>3. new \in Asking /\ new.domain = query[q].domain /\ new.response = response
    BY <1>0, VerdictsTyped DEF Asking
  <2>. HIDE DEF new
  <2>4. query'[q] = new /\ \A p \in Query : p # q => query'[p] = query[p]
    BY <1>0, <2>2, <2>3, TurnsTyped
  <2>5. Agrees(query[q].domain, response, blockRules)
    BY <1>0, NewAnswerAgrees
  <2>6. UNCHANGED <<domainCache, overtaken>>
    BY <1>2 DEF CheckDomainAgainstRules
  <2>7. StoresAgree'
    BY <1>0, <2>3, <2>4, <2>5 DEF Agreeing, StoresAgree, At
  <2>8. CacheAgrees'
    BY <1>0, <2>6 DEF Agreeing, CacheAgrees
  <2>. QED
    BY <2>7, <2>8
<1>3. CASE StoreAnswer(q)
  <2>. DEFINE d == query[q].domain
  <2>1. /\ At(q, "store") /\ Go(q, "setRedis")
        /\ domainCache' = [domainCache EXCEPT ![d] = query[q].response]
        /\ overtaken' = IF query[q].missed THEN overtaken \cup {d} ELSE overtaken \ {d}
    BY <1>3 DEF StoreAnswer
  <2>2. PICK new \in Asking : Turns(q, new) /\ new.at = "setRedis"
    BY <1>0, <2>1, GoesOn
  <2>3. query'[q] = new /\ \A p \in Query : p # q => query'[p] = query[p]
    BY <1>0, <2>2, TurnsTyped
  <2>4. StoresAgree'
    BY <1>0, <2>2, <2>3 DEF Agreeing, StoresAgree, At
  <2>5. ASSUME NEW e \in Domain, e \notin overtaken', domainCache'[e] # None
        PROVE  Agrees(e, domainCache'[e], blockRules)
    <3>1. CASE e = d
      <4>1. ~query[q].missed /\ domainCache'[e] = query[q].response
        BY <1>0, <2>1, <2>5, <3>1 DEF AnswersOK
      <4>. QED
        BY <2>1, <3>1, <4>1 DEF Agreeing, StoresAgree
    <3>2. CASE e # d
      <4>1. e \notin overtaken /\ domainCache'[e] = domainCache[e]
        BY <1>0, <2>1, <2>5, <3>2 DEF AnswersOK
      <4>. QED
        BY <2>5, <4>1 DEF Agreeing, CacheAgrees
    <3>. QED
      BY <3>1, <3>2
  <2>. QED
    BY <1>0, <2>4, <2>5 DEF CacheAgrees
<1>4. CASE SetRedis(q)
  <2>1. Turns(q, Idle) /\ UNCHANGED <<domainCache, overtaken>>
    BY <1>4 DEF SetRedis, Return, Turns
  <2>. QED
    BY <1>0, <2>1, TurnsTyped, IdleFacts, AgreeingKept
<1>. QED
  BY <1>1, <1>2, <1>3, <1>4 DEF Progress

LEMMA StepAgreeing == Agreeing /\ [Next]_vars => Agreeing'
<1>. SUFFICES ASSUME Agreeing, [Next]_vars
              PROVE  CacheAgrees' /\ StoresAgree'
  BY StepTyped DEF Agreeing
<1>0. RulesOK /\ AnswersOK
  BY TypeParts DEF Agreeing
<1>1. ASSUME NEW q \in Query, NEW d \in Domain, Ask(q, d)
      PROVE  CacheAgrees' /\ StoresAgree'
  <2>1. [Idle EXCEPT !.at = "redis", !.domain = d] \in Asking
    BY IdleFacts DEF Idle, Asking
  <2>2. [Idle EXCEPT !.at = "redis", !.domain = d].at = "redis"
    BY DEF Idle
  <2>3. /\ \A p \in Query : p # q => query'[p] = query[p]
        /\ query'[q].at = "redis"
    BY <1>0, <1>1, <2>1, <2>2, TurnsTyped DEF Ask, Turns
  <2>4. UNCHANGED <<blockRules, domainCache, overtaken>>
    BY <1>1 DEF Ask, rules
  <2>. QED
    BY <2>3, <2>4, AgreeingKept
<1>2. ASSUME NEW new \in SUBSET Rule, EmergencyBlock(new)
      PROVE  CacheAgrees' /\ StoresAgree'
  BY <1>2, PutAgrees DEF EmergencyBlock
<1>3. ASSUME NEW r \in Rule, AddBlockRule(r)
      PROVE  CacheAgrees' /\ StoresAgree'
  <2>1. PICK gone \in SUBSET Rule : Put({r}, gone)
    BY <1>0, <1>3 DEF AddBlockRule, RulesOK
  <2>. QED
    BY <2>1, PutAgrees
<1>4. ASSUME NEW r \in IndicatorRule, StoreIndicator(r)
      PROVE  CacheAgrees' /\ StoresAgree'
  BY <1>4, AgreeingKept DEF StoreIndicator, answers
<1>5. ASSUME NEW r \in Rule, RemoveBlockRule(r)
      PROVE  CacheAgrees' /\ StoresAgree'
  BY <1>5, UncacheAgrees DEF RemoveBlockRule
<1>6. CASE Restart
  BY <1>6, IdleFacts DEF Restart, CacheAgrees, StoresAgree, At
<1>7. CASE UNCHANGED <<blockRules, domainCache, overtaken, query>>
  BY <1>7, AgreeingKept
<1>. QED
  BY <1>1, <1>2, <1>3, <1>4, <1>5, <1>6, <1>7, ProgressAgrees
     DEF Next, RedisExpires, RegisterServer, SyncThreatData, Collect, Stamp, rules,
         answers, vars

LEMMA AgreeingHolds == Agreeing => CachedAnswersHold
<1>. SUFFICES ASSUME Agreeing, NEW d \in Domain, d \notin overtaken, domainCache[d] # None
              PROVE  /\ (\E r \in blockRules \cap Exact : Key[r] = d) => domainCache[d].blocked
                     /\ domainCache[d].rule \in blockRules \cup (Rule \ Exact) \cup {None}
  BY DEF CachedAnswersHold
<1>1. Agrees(d, domainCache[d], blockRules)
  BY DEF Agreeing, CacheAgrees
<1>2. domainCache[d].rule \in Rule \cup {None}
  <2>1. domainCache[d] \in Response
    BY TypeParts DEF Agreeing, AnswersOK
  <2>2. Allow.rule = None
    BY DEF Allow
  <2>3. \A x \in [blocked : {TRUE}, rule : Rule \cup {None}] : x.rule \in Rule \cup {None}
    OBVIOUS
  <2>. QED
    BY <2>1, <2>2, <2>3 DEF Response
<1>. QED
  BY <1>1, <1>2 DEF Agrees

\* An answer that no change overtook agrees with the exact rules as long as it
\* stays in the cache.
THEOREM CachedAnswersAlwaysHold == Spec => []CachedAnswersHold
BY InitAgreeing, StepAgreeing, AgreeingHolds, PTL DEF Spec

-----------------------------------------------------------------------------
(***************************************************************************)
(* Deltas.  A sync that has collected the rules has with it, or on the     *)
(* list of those it misses, every rule that its server lacks, whatever     *)
(* the rule's age: the stamp makes them all old.                           *)
(***************************************************************************)
CollectionsAreComplete ==
  \A v \in Server : sync[v].at = "collected" =>
    \A r \in blockRules \ sync[v].rules :
      \/ r \in sync[v].missing
      \/ sync[v].delta /\ r \in copy[v] \cup slipped[v]

Complete == TypeOK /\ DeltasAreComplete /\ CollectionsAreComplete

LEMMA InitComplete == Init => Complete
<1>. SUFFICES ASSUME Init
              PROVE  DeltasAreComplete /\ CollectionsAreComplete
  BY InitTyped DEF Complete
<1>1. /\ \A v \in Server : lastSync[v] = 0 /\ sync[v].at = "idle"
      /\ blockRules \subseteq Rule /\ \A r \in blockRules : updatedAt[r] = 1
  BY LoadsTyped, IdleFacts DEF Init
<1>. QED
  BY <1>1 DEF DeltasAreComplete, CollectionsAreComplete

LEMMA CompleteKept ==
  ASSUME Complete, \A r \in blockRules' : r \in blockRules /\ updatedAt'[r] = updatedAt[r],
         UNCHANGED <<copy, lastSync, slipped>>,
         \A v \in Server : sync'[v].at = "collected" => sync'[v] = sync[v]
  PROVE  DeltasAreComplete' /\ CollectionsAreComplete'
BY DEF Complete, DeltasAreComplete, CollectionsAreComplete

LEMMA PutComplete ==
  ASSUME Complete, NEW new \in SUBSET Rule, NEW gone \in SUBSET Rule, Put(new, gone)
  PROVE  DeltasAreComplete' /\ CollectionsAreComplete'
<1>0. RulesOK /\ ServersOK
  BY TypeParts DEF Complete
<1>1. /\ blockRules' = (blockRules \ gone) \cup new /\ now' = now + 1
      /\ \A r \in new : updatedAt'[r] = now + 1
      /\ \A r \in (blockRules \ gone) \ new : updatedAt'[r] = updatedAt[r]
      /\ UNCHANGED <<copy, lastSync, slipped>>
  BY <1>0 DEF Put, RulesOK
<1>2. \A v \in Server : lastSync[v] < now + 1
  BY <1>0 DEF RulesOK, ServersOK
<1>3. DeltasAreComplete'
  <2>. SUFFICES ASSUME NEW v \in Server, NEW r \in (blockRules \ gone) \cup new, r \notin copy[v],
                       updatedAt'[r] <= lastSync[v]
                PROVE  r \in slipped[v]
    BY <1>1 DEF DeltasAreComplete
  <2>1. r \in (blockRules \ gone) \ new
    <3>1. now \in Nat /\ lastSync[v] \in 0 .. now
      BY <1>0 DEF RulesOK, ServersOK
    <3>. QED
      BY <1>1, <1>2, <3>1
  <2>. QED
    BY <1>1, <2>1 DEF Complete, DeltasAreComplete
<1>4. CollectionsAreComplete'
  <2>. SUFFICES ASSUME NEW v \in Server, sync'[v].at = "collected",
                       NEW r \in blockRules \cup new, r \notin sync'[v].rules
                PROVE  \/ r \in sync'[v].missing
                       \/ sync'[v].delta /\ r \in copy[v] \cup slipped[v]
    BY <1>1 DEF CollectionsAreComplete
  <2>1. sync'[v] = IF sync[v].at = "collected"
                   THEN [sync[v] EXCEPT !.missing = @ \cup new] ELSE sync[v]
    BY DEF Put, NoteNew
  <2>2. sync[v].at = "collected"
    BY <2>1
  <2>3. sync[v] \in Syncing
    BY <1>0, <2>2, SyncUnderWay
  <2>4. /\ sync'[v].rules = sync[v].rules /\ sync'[v].delta = sync[v].delta
        /\ sync'[v].missing = sync[v].missing \cup new
    BY <2>1, <2>2, <2>3 DEF Syncing
  <2>. QED
    BY <2>2, <2>4 DEF Complete, CollectionsAreComplete
<1>. QED
  BY <1>3, <1>4

LEMMA CollectComplete ==
  ASSUME Complete, NEW v \in Server, Collect(v)
  PROVE  DeltasAreComplete' /\ CollectionsAreComplete'
<1>0. RulesOK /\ ServersOK
  BY TypeParts DEF Complete
<1>1. UNCHANGED <<blockRules, updatedAt, copy, lastSync, slipped>>
  BY DEF Collect, rules
<1>. DEFINE due == IF sync[v].delta THEN Updated(v) ELSE blockRules
<1>2. PICK S \in SUBSET due :
        sync' = [sync EXCEPT ![v] = [@ EXCEPT !.at = "collected", !.rules = S,
                                              !.missing = due \ S]]
  BY DEF Collect
<1>3. sync[v] \in Syncing
  BY <1>0, SyncUnderWay DEF Collect
<1>4. \A r \in blockRules : r \in due \/ (sync[v].delta /\ updatedAt[r] <= lastSync[v])
  <2>1. \A r \in Rule : updatedAt[r] \in Nat /\ lastSync[v] \in Nat
    BY <1>0 DEF RulesOK, ServersOK
  <2>. QED
    BY <1>0, <2>1 DEF Updated, RulesOK
<1>. HIDE DEF due
<1>5. /\ sync'[v].rules = S /\ sync'[v].missing = due \ S /\ sync'[v].delta = sync[v].delta
      /\ \A w \in Server : w # v => sync'[w] = sync[w]
  <2>1. sync' = [sync EXCEPT ![v] = [sync[v] EXCEPT !.at = "collected", !.rules = S,
                                                    !.missing = due \ S]]
    BY <1>2
  <2>2. LET new == [sync[v] EXCEPT !.at = "collected", !.rules = S, !.missing = due \ S] IN
        new.rules = S /\ new.missing = due \ S /\ new.delta = sync[v].delta
    BY <1>3 DEF Syncing
  <2>. QED
    BY <1>0, <2>1, <2>2 DEF ServersOK
<1>6. DeltasAreComplete'
  BY <1>1 DEF Complete, DeltasAreComplete
<1>7. ASSUME NEW r \in blockRules, r \notin S, r \notin due \ S
      PROVE  sync[v].delta /\ r \in copy[v] \cup slipped[v]
  BY <1>4, <1>7 DEF Complete, DeltasAreComplete
<1>8. CollectionsAreComplete'
  BY <1>1, <1>5, <1>7 DEF Complete, CollectionsAreComplete
<1>. QED
  BY <1>6, <1>8

LEMMA StampComplete ==
  ASSUME Complete, NEW v \in Server, Stamp(v)
  PROVE  DeltasAreComplete' /\ CollectionsAreComplete'
<1>0. RulesOK /\ ServersOK
  BY TypeParts DEF Complete
<1>1. /\ UNCHANGED <<blockRules, updatedAt>>
      /\ sync[v].at = "collected"
      /\ copy'[v] = sync[v].rules \cup IF sync[v].delta THEN copy[v] ELSE {}
      /\ slipped'[v] = sync[v].missing \cup IF sync[v].delta THEN slipped[v] \ sync[v].rules
                                           ELSE {}
      /\ sync'[v].at = "idle"
  BY <1>0, IdleFacts DEF Stamp, ServersOK, rules
<1>2. \A w \in Server : w # v =>
        /\ copy'[w] = copy[w] /\ slipped'[w] = slipped[w] /\ lastSync'[w] = lastSync[w]
        /\ sync'[w] = sync[w]
  BY <1>0 DEF Stamp, ServersOK
<1>3. ASSUME NEW r \in blockRules, r \notin copy'[v]
      PROVE  r \in slipped'[v]
  BY <1>1, <1>3 DEF Complete, CollectionsAreComplete
<1>4. DeltasAreComplete'
  BY <1>1, <1>2, <1>3 DEF Complete, DeltasAreComplete
<1>5. CollectionsAreComplete'
  BY <1>1, <1>2 DEF Complete, CollectionsAreComplete
<1>. QED
  BY <1>4, <1>5

LEMMA RestartComplete ==
  ASSUME Complete, Restart
  PROVE  DeltasAreComplete' /\ CollectionsAreComplete'
<1>0. RulesOK /\ ServersOK
  BY TypeParts DEF Complete
<1>1. /\ \A v \in Server : sync'[v].at = "idle"
      /\ UNCHANGED <<copy, lastSync>> /\ blockRules' \subseteq Rule
  BY IdleFacts, LoadsTyped DEF Restart
<1>2. ASSUME NEW v \in Server, NEW r \in blockRules', r \notin copy[v],
             updatedAt'[r] <= lastSync[v]
      PROVE  r \in slipped'[v]
  <2>1. lastSync[v] \in 0 .. now /\ now \in Nat
    BY <1>0, Given DEF RulesOK, ServersOK
  <2>2. r \in IndicatorRule /\ updatedAt'[r] = stored[r]
    <3>1. updatedAt'[r] = IF r \in IndicatorRule THEN stored[r] ELSE now + 1
      BY <1>1, <1>2 DEF Restart
    <3>2. r \notin IndicatorRule => ~(updatedAt'[r] <= lastSync[v])
      BY <2>1, <3>1
    <3>. QED
      BY <1>2, <3>1, <3>2
  <2>3. slipped'[v] = slipped[v] \cup
          {x \in IndicatorRule \cap blockRules' :
             /\ stored[x] <= lastSync[v]
             /\ ~(x \in blockRules /\ updatedAt[x] = stored[x])}
    BY DEF Restart
  <2>4. CASE r \in blockRules /\ updatedAt[r] = stored[r]
    <3>1. r \in slipped[v]
      BY <1>2, <2>2, <2>4 DEF Complete, DeltasAreComplete
    <3>. QED
      BY <2>3, <3>1
  <2>5. CASE ~(r \in blockRules /\ updatedAt[r] = stored[r])
    BY <1>2, <2>2, <2>3, <2>5
  <2>. QED
    BY <2>4, <2>5
<1>. QED
  BY <1>1, <1>2 DEF DeltasAreComplete, CollectionsAreComplete

LEMMA StepComplete == Complete /\ [Next]_vars => Complete'
<1>. SUFFICES ASSUME Complete, [Next]_vars
              PROVE  DeltasAreComplete' /\ CollectionsAreComplete'
  BY StepTyped DEF Complete
<1>0. RulesOK /\ ServersOK
  BY TypeParts DEF Complete
<1>1. CASE UNCHANGED <<rules, servers>>
  BY <1>1, CompleteKept DEF rules, servers
<1>2. ASSUME NEW q \in Query, Progress(q) \/ \E d \in Domain : Ask(q, d)
      PROVE  DeltasAreComplete' /\ CollectionsAreComplete'
  BY <1>1, <1>2 DEF Progress, LookupRedis, LookupCache, CheckDomainAgainstRules,
     StoreAnswer, SetRedis, Ask
<1>3. ASSUME NEW d \in Domain, RedisExpires(d)
      PROVE  DeltasAreComplete' /\ CollectionsAreComplete'
  BY <1>1, <1>3 DEF RedisExpires
<1>4. ASSUME NEW r \in IndicatorRule, StoreIndicator(r)
      PROVE  DeltasAreComplete' /\ CollectionsAreComplete'
  BY <1>4, CompleteKept DEF StoreIndicator, servers
<1>5. ASSUME NEW r \in Rule, AddBlockRule(r)
      PROVE  DeltasAreComplete' /\ CollectionsAreComplete'
  <2>1. PICK gone \in SUBSET Rule : Put({r}, gone)
    BY <1>0, <1>5 DEF AddBlockRule, RulesOK
  <2>. QED
    BY <2>1, PutComplete
<1>6. ASSUME NEW new \in SUBSET Rule, EmergencyBlock(new)
      PROVE  DeltasAreComplete' /\ CollectionsAreComplete'
  BY <1>6, PutComplete DEF EmergencyBlock
<1>7. ASSUME NEW r \in Rule, RemoveBlockRule(r)
      PROVE  DeltasAreComplete' /\ CollectionsAreComplete'
  <2>1. /\ blockRules' = blockRules \ {r} /\ UNCHANGED servers
        /\ \A x \in blockRules' : updatedAt'[x] = updatedAt[x]
    BY <1>0, <1>7 DEF RemoveBlockRule, RulesOK
  <2>. QED
    BY <2>1, CompleteKept DEF servers
<1>8. ASSUME NEW v \in Server, RegisterServer(v)
      PROVE  DeltasAreComplete' /\ CollectionsAreComplete'
  BY <1>8, CompleteKept DEF RegisterServer, rules
<1>9. ASSUME NEW v \in Server, NEW delta \in BOOLEAN, SyncThreatData(v, delta)
      PROVE  DeltasAreComplete' /\ CollectionsAreComplete'
  <2>1. \A w \in Server : sync'[w].at = "collected" => sync'[w] = sync[w]
    <3>1. [NoSync EXCEPT !.at = "found", !.delta = delta].at = "found"
      BY DEF NoSync
    <3>. QED
      BY <1>0, <1>9, <3>1 DEF SyncThreatData, ServersOK
  <2>. QED
    BY <1>9, <2>1, CompleteKept DEF SyncThreatData, rules
<1>10. CASE UNCHANGED vars
  BY <1>1, <1>10 DEF vars
<1>. QED
  BY <1>2, <1>3, <1>4, <1>5, <1>6, <1>7, <1>8, <1>9, <1>10, CollectComplete,
     StampComplete, RestartComplete DEF Next

\* A server that goes by deltas lacks no rule that was there when it was last
\* stamped, but for those that slipped through.
THEOREM DeltasAlwaysComplete == Spec => []DeltasAreComplete
BY InitComplete, StepComplete, PTL DEF Spec, Complete
=============================================================================
