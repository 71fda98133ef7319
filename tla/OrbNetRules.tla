----------------------------- MODULE OrbNetRules -----------------------------
(***************************************************************************)
(* The DNS block rules of OrbNetService (orbnet.go): the rules in memory,  *)
(* the two caches of answers in front of them, domainCache, which keeps an *)
(* answer until its domain's rule changes, and Redis, which keeps it for   *)
(* five minutes; and the VPN servers that fetch the rules.                 *)
(*                                                                         *)
(* Every section of the service's mutex is a step.  Requests choose what a *)
(* rule says, how it is spelt and, if they like, the id of a rule it shall *)
(* replace.  One process of the api is modelled: another replica has rules *)
(* and a domainCache of its own, and nothing carries a rule to it, for the *)
(* events of pushChan, which are left out, are taken by nobody.            *)
(***************************************************************************)
EXTENDS Naturals, FiniteSets

CONSTANTS
  Domain,
  Rule,         \* rules; two may say the same, and one that is made anew at
                \* every start, with a new id, is the same rule
  Key,          \* Key[r]: the domain that r's text is, as queries are normalised;
                \* None for a pattern, and for a name with capitals or spaces
  Covers,       \* Covers[r]: the domains that r matches
  DefaultRule,  \* those of loadDefaultRules
  UrlRule,      \* those of the domains in URL indicators
  IndicatorRule,    \* those of domain indicators
  Query,        \* requests to ShouldBlockDomain at work at a time
  Server,       \* VPN servers
  Scene,        \* who meets in one behaviour: "askers" or "servers", neither
                \* of which writes what the other reads
  MaxTime,      \* bound: changes of the rules and indicators, and restarts
  MaxQueries, MaxSyncs, MaxRestarts,
  None

ASSUME OrbNetAssumption ==
  /\ DefaultRule \cup UrlRule \cup IndicatorRule \subseteq Rule
  /\ DefaultRule \cup UrlRule \subseteq Rule \ IndicatorRule
  /\ Scene \subseteq {"askers", "servers"}
  /\ Key \in [Rule -> Domain \cup {None}] /\ None \notin Domain \cup Rule
  /\ Covers \in [Rule -> SUBSET Domain]
  /\ MaxTime \in Nat \ {0} /\ MaxQueries \in Nat /\ MaxSyncs \in Nat /\ MaxRestarts \in Nat

VARIABLES
  scene,        \* never changes
  blockRules,   \* rules in force
  updatedAt,    \* UpdatedAt of every rule in force, 0 of the others
  now,          \* the time of the last change of the rules or the indicators
  stored,       \* UpdatedAt of the domain indicators in the database, or 0
  domainCache, redis,
  query,
  registered,   \* VPN servers the service knows
  sync,         \* sync[v]: SyncThreatData at work for v
  copy, lastSync,   \* the rules of VPN server v, and its last timestamp
  overtaken,    \* domains whose cached answer was stored after a change of its
                \* exact rule that it missed, or rests on an exact rule that a
                \* rule of another domain has replaced since (history)
  slipped,      \* rules that v's next delta will not bring (history)
  queries, syncs, restarts

answers == <<domainCache, redis, query, overtaken>>
servers == <<registered, sync, copy, lastSync, slipped>>
rules == <<scene, blockRules, updatedAt, now, stored>>
bounds == <<queries, syncs, restarts>>
vars == <<rules, answers, servers, bounds>>

\* A response: allowed, or blocked by a rule, or by an indicator.
Allow == [blocked |-> FALSE, rule |-> None]
Response == {Allow} \cup [blocked : {TRUE}, rule : Rule \cup {None}]

Idle == [at |-> "idle", domain |-> None, response |-> Allow, missed |-> FALSE]
NoSync == [at |-> "idle", delta |-> FALSE, rules |-> {}, missing |-> {}]

TypeOK ==
  /\ scene \in Scene
  /\ blockRules \subseteq Rule
  /\ updatedAt \in [Rule -> 0..now] /\ now \in 1..MaxTime
  /\ stored \in [IndicatorRule -> 0..now]
  /\ domainCache \in [Domain -> Response \cup {None}]
  /\ redis \in [Domain -> {"allow", "block", "none"}]
  /\ query \in [Query -> {Idle} \cup
       [at : {"redis", "cache", "rules", "store", "setRedis"}, domain : Domain,
        response : Response, missed : BOOLEAN]]
  /\ registered \subseteq Server
  /\ sync \in [Server -> {NoSync} \cup
       [at : {"found", "collected"}, delta : BOOLEAN, rules : SUBSET Rule,
        missing : SUBSET Rule]]
  /\ copy \in [Server -> SUBSET Rule] /\ slipped \in [Server -> SUBSET Rule]
  /\ lastSync \in [Server -> 0..now]
  /\ overtaken \subseteq Domain
  /\ queries \in 0..MaxQueries /\ syncs \in 0..MaxSyncs
  /\ restarts \in 0..MaxRestarts

\* The rules of a start: the default ones, those of URL indicators, and those
\* of domain indicators, as far as the queries succeed and their limit goes.
Loads == {DefaultRule \cup urls \cup listed :
            urls \in SUBSET UrlRule, listed \in SUBSET {r \in IndicatorRule : stored[r] > 0}}

\* Time 1 is that of the first start, 0 stands for no time.
Init ==
  /\ scene \in Scene
  /\ now = 1
  /\ stored \in [IndicatorRule -> {0, 1}]
  /\ blockRules \in Loads
  /\ updatedAt = [r \in Rule |-> IF r \in blockRules THEN 1 ELSE 0]
  /\ domainCache = [d \in Domain |-> None] /\ redis = [d \in Domain |-> "none"]
  /\ query = [q \in Query |-> Idle]
  /\ registered = {} /\ sync = [v \in Server |-> NoSync]
  /\ copy = [v \in Server |-> {}] /\ lastSync = [v \in Server |-> 0]
  /\ slipped = [v \in Server |-> {}]
  /\ overtaken = {}
  /\ queries = 0 /\ syncs = 0 /\ restarts = 0

Matching(d) == {r \in blockRules : d \in Covers[r]}

\* checkDomainAgainstRules: any rule that matches, in the order of the map,
\* else the database.
Verdicts(d) ==
  IF Matching(d) # {} THEN {[blocked |-> TRUE, rule |-> r] : r \in Matching(d)}
  ELSE IF \E r \in IndicatorRule : Key[r] = d /\ stored[r] > 0
  THEN {[blocked |-> TRUE, rule |-> None]} ELSE {Allow}

\* Exact rules, those that are spelt as queries are.  One that is not matches
\* nothing.
Exact == {r \in Rule : Key[r] # None /\ Covers[r] = {Key[r]}}

-----------------------------------------------------------------------------
(***************************************************************************)
(* Plausible slips, each an alternative form of the definition its comment *)
(* describes.                                                              *)
(***************************************************************************)
\* The cached answers stay when a rule changes.
ForgetNothing(r) == {}

\* A rule as new as the last sync but one tick is taken for known.
NewlyUpdated(v) == {r \in blockRules : updatedAt[r] > lastSync[v] + 1}

-----------------------------------------------------------------------------
(***************************************************************************)
(* ShouldBlockDomain.                                                      *)
(***************************************************************************)
At(q, at) == query[q].at = at
Go(q, at) == query' = [query EXCEPT ![q].at = at]
Return(q) == query' = [query EXCEPT ![q] = Idle]

Ask(q, d) ==
  /\ scene = "askers" /\ At(q, "idle")
  /\ queries < MaxQueries /\ queries' = queries + 1
  /\ query' = [query EXCEPT ![q] = [Idle EXCEPT !.at = "redis", !.domain = d]]
  /\ UNCHANGED <<rules, domainCache, redis, overtaken, servers,
                 syncs, restarts>>

\* Only "allow" is answered from Redis.
LookupRedis(q) ==
  /\ At(q, "redis")
  /\ IF redis[query[q].domain] = "allow" THEN Return(q) ELSE Go(q, "cache")
  /\ UNCHANGED <<rules, domainCache, redis, overtaken, servers, bounds>>

LookupCache(q) ==
  /\ At(q, "cache")
  /\ IF domainCache[query[q].domain] # None THEN Return(q) ELSE Go(q, "rules")
  /\ UNCHANGED <<rules, domainCache, redis, overtaken, servers, bounds>>

CheckDomainAgainstRules(q) ==
  /\ At(q, "rules")
  /\ \E response \in Verdicts(query[q].domain) :
       query' = [query EXCEPT ![q].at = "store", ![q].response = response]
  /\ UNCHANGED <<rules, domainCache, redis, overtaken, servers, bounds>>

StoreAnswer(q) ==
  LET d == query[q].domain IN
  /\ At(q, "store")
  /\ domainCache' = [domainCache EXCEPT ![d] = query[q].response]
  /\ overtaken' = IF query[q].missed THEN overtaken \cup {d} ELSE overtaken \ {d}
  /\ Go(q, "setRedis")
  /\ UNCHANGED <<rules, redis, servers, bounds>>

\* The result of Set is ignored.
SetRedis(q) ==
  LET d == query[q].domain IN
  /\ At(q, "setRedis")
  /\ \/ redis' = [redis EXCEPT ![d] = IF query[q].response.blocked THEN "block" ELSE "allow"]
     \/ UNCHANGED redis
  /\ Return(q)
  /\ UNCHANGED <<rules, domainCache, overtaken, servers, bounds>>

RedisExpires(d) ==
  /\ redis[d] # "none"
  /\ redis' = [redis EXCEPT ![d] = "none"]
  /\ UNCHANGED <<rules, domainCache, query, overtaken, servers, bounds>>

-----------------------------------------------------------------------------
(***************************************************************************)
(* Changes of the rules and the indicators.                                *)
(***************************************************************************)
\* The pipeline stores or renews the indicator of a domain.
StoreIndicator(r) ==
  /\ now < MaxTime /\ now' = now + 1
  /\ stored' = [stored EXCEPT ![r] = now + 1]
  /\ UNCHANGED <<scene, blockRules, updatedAt, answers, servers, bounds>>

\* delete(s.domainCache, rule.Domain), with the domain as it was sent.
Forget(r) == {Key[r]} \ {None}

\* What a change does to the cached answers, and to those on their way, when
\* the rules of `gone` are replaced by some of `changed`.
Uncache(changed, gone) ==
  LET forgotten == UNION {Forget(r) : r \in changed}
      hit == {Key[r] : r \in (changed \cup gone) \cap Exact}
      left == {d \in Domain : domainCache[d] # None /\ domainCache[d].rule \in gone \cap Exact}
  IN  /\ domainCache' = [d \in Domain |-> IF d \in forgotten THEN None ELSE domainCache[d]]
      /\ overtaken' = (overtaken \cup left) \ forgotten
      /\ query' = [q \in Query |->
                    IF At(q, "store") /\ query[q].domain \in hit
                    THEN [query[q] EXCEPT !.missed = TRUE] ELSE query[q]]
      /\ UNCHANGED redis

\* Rules that appear while a server's rules have been collected and not yet
\* stamped are older than the stamp.
NoteNew(new) ==
  sync' = [v \in Server |-> IF sync[v].at = "collected"
                            THEN [sync[v] EXCEPT !.missing = @ \cup new] ELSE sync[v]]

\* The new rules come, each under its id, and the rules that had these go.
Put(new, gone) ==
  /\ now < MaxTime /\ now' = now + 1
  /\ blockRules' = (blockRules \ gone) \cup new
  /\ updatedAt' = [r \in Rule |-> IF r \in new THEN now + 1
                                  ELSE IF r \in gone THEN 0 ELSE updatedAt[r]]
  /\ Uncache(new, gone) /\ NoteNew(new)
  /\ UNCHANGED <<scene, stored, registered, copy, lastSync, slipped, bounds>>

\* The request may name the id of a rule in force.
AddBlockRule(r) == \E gone \in {{}} \cup {{old} : old \in blockRules} : Put({r}, gone)

\* One rule for each of the domains, which are taken as they were sent, all
\* with ids of their own.
EmergencyBlock(new) ==
  /\ new # {} /\ new \cap blockRules = {}
  /\ \A r \in new : Covers[r] \subseteq {Key[r]}
  /\ Put(new, {})

RemoveBlockRule(r) ==
  /\ r \in blockRules /\ blockRules' = blockRules \ {r}
  /\ updatedAt' = [updatedAt EXCEPT ![r] = 0]
  /\ Uncache({r}, {})
  /\ UNCHANGED <<scene, now, stored, servers, bounds>>

-----------------------------------------------------------------------------
(***************************************************************************)
(* VPN servers.                                                            *)
(***************************************************************************)
RegisterServer(v) ==
  /\ scene = "servers"
  /\ v \notin registered /\ registered' = registered \cup {v}
  /\ UNCHANGED <<rules, answers, sync, copy, lastSync, slipped, bounds>>

\* A server asks for everything, or for what is newer than its last sync.
SyncThreatData(v, delta) ==
  /\ v \in registered /\ sync[v].at = "idle"
  /\ syncs < MaxSyncs /\ syncs' = syncs + 1
  /\ delta => lastSync[v] > 0
  /\ sync' = [sync EXCEPT ![v] = [NoSync EXCEPT !.at = "found", !.delta = delta]]
  /\ UNCHANGED <<rules, answers, registered, copy, lastSync,
                 slipped, queries, restarts>>

Updated(v) == {r \in blockRules : updatedAt[r] > lastSync[v]}

\* The request's categories leave some rules out, and its max_rules cuts them
\* off anywhere.
Collect(v) ==
  /\ sync[v].at = "found"
  /\ LET due == IF sync[v].delta THEN Updated(v) ELSE blockRules IN
     \E S \in SUBSET due :
       sync' = [sync EXCEPT ![v] = [@ EXCEPT !.at = "collected", !.rules = S,
                                             !.missing = due \ S]]
  /\ UNCHANGED <<rules, answers, registered, copy, lastSync,
                 slipped, bounds>>

\* The timestamp is taken in the section after.  The server, which is no part
\* of this code, adds a delta to what it has.
Timestamp == now

Stamp(v) ==
  /\ sync[v].at = "collected"
  /\ lastSync' = [lastSync EXCEPT ![v] = Timestamp]
  /\ copy' = [copy EXCEPT ![v] = sync[v].rules \cup IF sync[v].delta THEN @ ELSE {}]
  /\ slipped' = [slipped EXCEPT ![v] =
       sync[v].missing \cup IF sync[v].delta THEN @ \ sync[v].rules ELSE {}]
  /\ sync' = [sync EXCEPT ![v] = NoSync]
  /\ UNCHANGED <<rules, answers, registered, bounds>>

-----------------------------------------------------------------------------
\* The service keeps nothing but what Redis keeps.  The rule of an indicator
\* gets the indicator's time, even if it was no rule before; the other rules
\* are new.
Restart ==
  /\ restarts < MaxRestarts /\ restarts' = restarts + 1
  /\ now < MaxTime /\ now' = now + 1
  /\ blockRules' \in Loads
  /\ updatedAt' = [r \in Rule |-> IF r \notin blockRules' THEN 0
                                  ELSE IF r \in IndicatorRule THEN stored[r] ELSE now + 1]
  /\ slipped' = [v \in Server |-> slipped[v] \cup
       {r \in IndicatorRule \cap blockRules' :
          /\ stored[r] <= lastSync[v]
          /\ ~(r \in blockRules /\ updatedAt[r] = stored[r])}]
  /\ domainCache' = [d \in Domain |-> None] /\ overtaken' = {}
  /\ query' = [q \in Query |-> Idle]
  /\ registered' = {} /\ sync' = [v \in Server |-> NoSync]
  /\ UNCHANGED <<scene, stored, redis, copy, lastSync, queries, syncs>>

Progress(q) ==
  \/ LookupRedis(q) \/ LookupCache(q) \/ CheckDomainAgainstRules(q)
  \/ StoreAnswer(q) \/ SetRedis(q)

Next ==
  \/ \E q \in Query : Progress(q) \/ \E d \in Domain : Ask(q, d)
  \/ \E d \in Domain : RedisExpires(d)
  \/ \E r \in IndicatorRule : StoreIndicator(r)
  \/ \E new \in SUBSET Rule : EmergencyBlock(new)
  \/ \E r \in Rule : AddBlockRule(r) \/ RemoveBlockRule(r)
  \/ \E v \in Server :
       \/ RegisterServer(v) \/ Collect(v) \/ Stamp(v)
       \/ \E delta \in BOOLEAN : SyncThreatData(v, delta)
  \/ Restart

Spec == Init /\ [][Next]_vars

\* Goroutines that have a step to take get to take it, and Redis drops its
\* keys in time.
FairSpec ==
  /\ Spec
  /\ \A q \in Query : WF_vars(Progress(q))
  /\ \A d \in Domain : WF_vars(RedisExpires(d))

-----------------------------------------------------------------------------
(***************************************************************************)
(* domainCache has no expiry ("Clear domain cache for this domain",        *)
(* orbnet.go:491), so an answer that stays behind stays for good.  An      *)
(* answer that was not overtaken on its way into the cache, and whose rule *)
(* was not replaced under its id, agrees with the exact rules: it blocks a *)
(* domain that has one, and rests on no exact rule that is gone.           *)
(***************************************************************************)
CachedAnswersHold ==
  \A d \in {e \in Domain \ overtaken : domainCache[e] # None} :
    /\ (\E r \in blockRules \cap Exact : Key[r] = d) => domainCache[d].blocked
    /\ domainCache[d].rule \in blockRules \cup (Rule \ Exact) \cup {None}

(***************************************************************************)
(* "Check if rule was created/updated after last sync" (orbnet.go:408): a  *)
(* server that goes by deltas lacks no rule older than its last sync, but  *)
(* for those that its own categories or max_rules left out of a delta,     *)
(* those that came between the collection of the rules and their           *)
(* timestamp, and those that a restart made of indicators stored before    *)
(* its last sync.                                                          *)
(***************************************************************************)
DeltasAreComplete ==
  \A v \in Server : \A r \in blockRules \ copy[v] :
    updatedAt[r] <= lastSync[v] => r \in slipped[v]

\* What the next request for r's domain is answered.
Effective(r) ==
  redis[Key[r]] # "allow" /\ domainCache[Key[r]] # Allow

(***************************************************************************)
(* "EmergencyBlock blocks domains immediately across all servers"          *)
(* (orbnet.go:554): the block of a domain that is spelt as queries are     *)
(* becomes effective, or is lifted.                                        *)
(***************************************************************************)
BlockTakesEffect ==
  \A r \in Exact :
    r \in blockRules /\ ~Effective(r) ~> r \notin blockRules \/ Effective(r)

(***************************************************************************)
(* The same, of domains whose cached answer was not overtaken: what Redis  *)
(* holds delays such a block, and nothing else does.                       *)
(***************************************************************************)
BlockTakesEffectUnlessOvertaken ==
  \A r \in Exact :
    r \in blockRules /\ ~Effective(r) ~>
      r \notin blockRules \/ Effective(r) \/ Key[r] \in overtaken
=============================================================================
