------------------------- MODULE ProxyManagerProofs -------------------------
(***************************************************************************)
(* Theorems about ProxyManager, for every set of tasks, URIs and rules and *)
(* every cache size: what lookups and cache hold, the structure of cache   *)
(* and lock, and the refinement of RouteTable.                             *)
(***************************************************************************)
EXTENDS ProxyManager, TLAPS

-----------------------------------------------------------------------------
(* The operations                                                          *)

\* The lookups carry a URI and are &self operations.
LEMMA LookupOps ==
  ASSUME NEW o \in Ops \cup {NoOp},
         o.kind \in {"find_target", "find_target_with_match_info"}
  PROVE  o.uri \in Uris /\ o \notin ExclusiveOps
BY DEF Ops, SharedOps, ExclusiveOps, NoOp

\* add_rule carries a rule and is a &mut self operation, as clear is.
LEMMA RuleOps ==
  ASSUME NEW o \in Ops \cup {NoOp}, o.kind \in {"add_rule", "clear"}
  PROVE  o \in ExclusiveOps /\ (o.kind = "add_rule" => o.rule \in Rules)
BY DEF Ops, SharedOps, ExclusiveOps, NoOp

-----------------------------------------------------------------------------
(* The lookup                                                              *)

\* What the loop over the patterns finds is the target of one of them.
LEMMA FindUncachedType ==
  ASSUME RulesOK, NEW address
  PROVE  FindUncached(address) \in Routes
<1>1. CASE KeyOf(address) \in DOMAIN exact_rules
  BY <1>1 DEF FindUncached, RulesOK, Routes
<1>2. CASE KeyOf(address) \notin DOMAIN exact_rules /\ MatchingPatterns(address) = {}
  BY <1>2 DEF FindUncached, Routes
<1>3. CASE KeyOf(address) \notin DOMAIN exact_rules /\ MatchingPatterns(address) # {}
  <2> DEFINE i == CHOOSE k \in MatchingPatterns(address) : TRUE
  <2>1. i \in DOMAIN pattern_rules
    BY <1>3 DEF MatchingPatterns
  <2>2. pattern_rules[i] \in Rules
    BY <2>1 DEF RulesOK
  <2>3. FindUncached(address) = pattern_rules[i].target
    BY <1>3 DEF FindUncached
  <2> QED BY <2>2, <2>3 DEF Routes, Targets
<1> QED BY <1>1, <1>2, <1>3

LEMMA RouteType ==
  ASSUME RulesOK, NEW uri
  PROVE  Route(uri) \in Routes
BY FindUncachedType DEF Route, Routes

LEMMA MatchInfoType ==
  ASSUME RulesOK, NEW uri
  PROVE  FindWithMatchInfo(uri) \in Routes \cup MatchResults
<1> DEFINE address == FromUri(uri)
           i == CHOOSE k \in MatchingPatterns(address) : TRUE
<1>1. CASE address = NONE
  BY <1>1 DEF FindWithMatchInfo, Routes
<1>2. CASE address # NONE /\ KeyOf(address) \in DOMAIN exact_rules
  <2>1. KeyOf(address).path \in {k.path : k \in ExactKeys}
    BY <1>2 DEF RulesOK
  <2>2. exact_rules[KeyOf(address)] \in Targets
    BY <1>2 DEF RulesOK
  <2>3. FindWithMatchInfo(uri) = [target |-> exact_rules[KeyOf(address)],
                                  matched_path_prefix |-> KeyOf(address).path]
    BY <1>2 DEF FindWithMatchInfo
  <2> QED BY <2>1, <2>2, <2>3 DEF MatchResults
<1>3. CASE /\ address # NONE /\ KeyOf(address) \notin DOMAIN exact_rules
           /\ MatchingPatterns(address) # {}
  <2>1. i \in DOMAIN pattern_rules
    BY <1>3 DEF MatchingPatterns
  <2>2. pattern_rules[i] \in Rules
    BY <2>1 DEF RulesOK
  <2>3. FindWithMatchInfo(uri) = [target |-> pattern_rules[i].target,
                                  matched_path_prefix |-> PrefixOf(pattern_rules[i].pattern)]
    BY <1>3 DEF FindWithMatchInfo
  <2>4. /\ pattern_rules[i].target \in Targets
        /\ PrefixOf(pattern_rules[i].pattern) \in {PrefixOf(r.pattern) : r \in Rules}
    BY <2>2 DEF Targets
  <2> HIDE DEF i
  <2> QED BY <2>3, <2>4 DEF MatchResults
<1>4. CASE /\ address # NONE /\ KeyOf(address) \notin DOMAIN exact_rules
           /\ MatchingPatterns(address) = {}
  BY <1>4 DEF FindWithMatchInfo, Routes
<1> QED BY <1>1, <1>2, <1>3, <1>4

\* The same in the form that holds of a next state, too.
LEMMA RoutesType == RulesOK => \A uri \in Uris : Route(uri) \in Routes
BY RouteType

\* A route only depends on the rules.
LEMMA RouteStable ==
  ASSUME UNCHANGED rules, NEW uri
  PROVE  Route(uri)' = Route(uri)
BY DEF rules, Route, FindUncached, MatchingPatterns, FirstMatch

-----------------------------------------------------------------------------
(* The cache                                                               *)

LEMMA FunctionIsSeq ==
  ASSUME NEW S, NEW n \in Nat, NEW f \in [1 .. n -> S]
  PROVE  f \in Seq(S) /\ Len(f) = n
OBVIOUS

\* Promoting e yields a cache of entries that are e or were there before.
LEMMA PromoteEntries ==
  ASSUME cache \in Seq(Entries), NEW e \in Entries, NEW p \in 1 .. Len(cache) + 1
  PROVE  /\ Promote(e, p) \in Seq(Entries)
         /\ \A i \in DOMAIN Promote(e, p) :
              Promote(e, p)[i] = e \/ \E j \in DOMAIN cache : Promote(e, p)[i] = cache[j]
<1> DEFINE n == IF p > Len(cache) THEN p ELSE Len(cache)
<1>1. Len(cache) \in Nat /\ n \in Nat /\ n <= Len(cache) + 1
  OBVIOUS
<1>2. \A i \in 1 .. n : Promote(e, p)[i] = e \/ \E j \in DOMAIN cache : Promote(e, p)[i] = cache[j]
  BY <1>1 DEF Promote
<1>3. \A i \in 1 .. n : Promote(e, p)[i] \in Entries
  BY <1>2
<1>4. Promote(e, p) = [i \in 1 .. n |-> Promote(e, p)[i]] /\ DOMAIN Promote(e, p) = 1 .. n
  BY DEF Promote
<1>5. Promote(e, p) \in [1 .. n -> Entries]
  BY <1>3, <1>4
<1>6. Promote(e, p) \in Seq(Entries)
  BY <1>1, <1>5, FunctionIsSeq
<1> QED BY <1>2, <1>4, <1>6

\* A hit leaves the entries as they are.
LEMMA TouchEntries ==
  ASSUME cache \in Seq(Entries), NEW uri, CachedAt(uri) # {}
  PROVE  /\ Position(uri) \in DOMAIN cache
         /\ CacheTouch(uri) \in Seq(Entries)
         /\ \A i \in DOMAIN CacheTouch(uri) : \E j \in DOMAIN cache : CacheTouch(uri)[i] = cache[j]
<1>1. Position(uri) \in DOMAIN cache
  BY DEF Position, CachedAt
<1>2. cache[Position(uri)] \in Entries /\ Position(uri) \in 1 .. Len(cache) + 1
  BY <1>1
<1> QED BY <1>1, <1>2, PromoteEntries DEF CacheTouch

\* A put adds one entry and invents no other.
LEMMA PutEntries ==
  ASSUME cache \in Seq(Entries), NEW uri \in Uris, NEW r \in Routes
  PROVE  /\ CachePut(uri, r) \in Seq(Entries)
         /\ \A i \in DOMAIN CachePut(uri, r) :
              \/ CachePut(uri, r)[i] = [uri |-> uri, route |-> r]
              \/ \E j \in DOMAIN cache : CachePut(uri, r)[i] = cache[j]
<1> DEFINE p == IF CachedAt(uri) # {} THEN Position(uri)
                ELSE IF Len(cache) < CacheSize THEN Len(cache) + 1 ELSE CacheSize
<1>1. p \in 1 .. Len(cache) + 1
  <2>1. CASE CachedAt(uri) # {}
    BY <2>1 DEF Position, CachedAt
  <2>2. CASE CachedAt(uri) = {}
    BY <2>2, CacheSizeAssumption
  <2> QED BY <2>1, <2>2
<1>2. [uri |-> uri, route |-> r] \in Entries
  BY DEF Entries
<1> QED BY <1>1, <1>2, PromoteEntries DEF CachePut

-----------------------------------------------------------------------------
(* Type correctness                                                        *)

LEMMA WithoutType ==
  ASSUME NEW q \in Seq(Tasks), NEW t \in Tasks
  PROVE  Without(q, t) \in Seq(Tasks)
<1>1. CASE \A i \in DOMAIN q : q[i] # t
  BY <1>1 DEF Without
<1>2. CASE \E i \in DOMAIN q : q[i] = t
  <2> DEFINE p == CHOOSE i \in DOMAIN q : q[i] = t
  <2>1. Without(q, t) = [i \in 1 .. Len(q) - 1 |-> IF i < p THEN q[i] ELSE q[i + 1]]
    BY <1>2 DEF Without
  <2>2. Len(q) - 1 \in Nat
    BY <1>2
  <2>3. Without(q, t) \in [1 .. Len(q) - 1 -> Tasks]
    BY <2>1, <2>2
  <2> QED BY <2>2, <2>3, FunctionIsSeq
<1> QED BY <1>1, <1>2

\* A step of an operation keeps the types of the tasks.
LEMMA StepType ==
  ASSUME TasksOK, NEW t \in Tasks, NEW place \in Places, NEW r \in Routes \cup MatchResults,
         r \in Routes \/ (place = "done" /\ op[t].kind = "find_target_with_match_info"),
         Step(t, place, r)
  PROVE  TasksOK'
<1>1. /\ UNCHANGED <<readers, writer, queue, op>>
      /\ pc' = [pc EXCEPT ![t] = place] /\ result' = [result EXCEPT ![t] = r]
  BY DEF Step, lock
<1>2. pc' \in [Tasks -> Places] /\ result' \in [Tasks -> Routes \cup MatchResults]
  BY <1>1 DEF TasksOK
<1>3. ASSUME NEW s \in Tasks, ~ At(s, "find_target_with_match_info", "done")'
      PROVE  result'[s] \in Routes
  <2>1. CASE s = t
    BY <1>1, <1>3, <2>1 DEF TasksOK, At
  <2>2. CASE s # t
    BY <1>1, <1>3, <2>2 DEF TasksOK, At
  <2> QED BY <2>1, <2>2
<1> QED BY <1>1, <1>2, <1>3 DEF TasksOK

\* So does going back to idle.
LEMMA IdleType ==
  ASSUME TasksOK, NEW t \in Tasks, DropGuard(t), queue' \in Seq(Tasks),
         pc' = [pc EXCEPT ![t] = "idle"], op' = [op EXCEPT ![t] = NoOp],
         result' = [result EXCEPT ![t] = NONE]
  PROVE  TasksOK'
<1>1. /\ readers' \subseteq Tasks /\ writer' \in Tasks \cup {NONE}
      /\ pc' \in [Tasks -> Places]
      /\ op' \in [Tasks -> Ops \cup {NoOp}]
      /\ result' \in [Tasks -> Routes \cup MatchResults]
  BY DEF TasksOK, DropGuard, Places, Routes
<1>2. ASSUME NEW s \in Tasks, ~ At(s, "find_target_with_match_info", "done")'
      PROVE  result'[s] \in Routes
  BY <1>2 DEF TasksOK, At, Routes
<1> QED BY <1>1, <1>2 DEF TasksOK

\* The history only ever receives routes.
LEMMA OfferedType ==
  ASSUME TypeOK, \A uri \in Uris : Route(uri)' \in Routes, OfferMore \/ OfferAfresh
  PROVE  offered' \in [Uris -> SUBSET Routes]
BY DEF TypeOK, OfferMore, OfferAfresh

\* An index with one more rule of the kind add_rule puts there.
LEMMA InsertType ==
  ASSUME TypeOK, NEW r \in Rules, IsExact(r.pattern),
         exact_rules' = Insert(exact_rules, PatternKey(r.pattern), r.target)
  PROVE  /\ DOMAIN exact_rules' \subseteq ExactKeys
         /\ \A k \in DOMAIN exact_rules' : exact_rules'[k] \in Targets
<1>1. PatternKey(r.pattern) \in ExactKeys
  BY DEF ExactKeys, PatternKey, ExactKey
<1>2. r.target \in Targets
  BY DEF Targets
<1> QED BY <1>1, <1>2 DEF TypeOK, RulesOK, Insert

LEMMA TypeInit == Init => TypeOK
<1> SUFFICES ASSUME Init PROVE TypeOK
  OBVIOUS
<1>1. RulesOK
  BY RulesAssumption DEF Init, RulesOK
<1>2. cache \in Seq(Entries) /\ queue \in Seq(Tasks)
  BY DEF Init
<1>3. TasksOK
  BY <1>2 DEF Init, Places, Routes, TasksOK
<1>4. offered \in [Uris -> SUBSET Routes]
  BY <1>1, RouteType DEF Init
<1> QED BY <1>1, <1>2, <1>3, <1>4 DEF TypeOK

LEMMA TypeNext == TypeOK /\ [Next]_vars => TypeOK'
<1> SUFFICES ASSUME TypeOK, [Next]_vars PROVE TypeOK'
  OBVIOUS
<1>a. RulesOK /\ TasksOK /\ cache \in Seq(Entries) /\ offered \in [Uris -> SUBSET Routes]
  BY DEF TypeOK
<1>b. ASSUME UNCHANGED rules PROVE RulesOK'
  BY <1>a, <1>b DEF RulesOK, rules
<1>c. NONE \in Routes
  BY DEF Routes
<1>1. ASSUME NEW t \in Tasks, NEW o \in Ops, Request(t, o) PROVE TypeOK'
  <2>1. /\ pc' = [pc EXCEPT ![t] = "queued"] /\ op' = [op EXCEPT ![t] = o]
        /\ queue' = Append(queue, t)
        /\ UNCHANGED <<rules, cache, readers, writer, result, offered>>
        /\ pc[t] = "idle"
    BY <1>1 DEF Request
  <2>2. pc' \in [Tasks -> Places] /\ op' \in [Tasks -> Ops \cup {NoOp}] /\ queue' \in Seq(Tasks)
    BY <1>a, <2>1 DEF TasksOK, Places
  <2>3. ASSUME NEW s \in Tasks, ~ At(s, "find_target_with_match_info", "done")'
        PROVE  result'[s] \in Routes
    BY <1>a, <2>1, <2>3 DEF TasksOK, At
  <2>4. TasksOK'
    BY <1>a, <2>1, <2>2, <2>3 DEF TasksOK
  <2> QED BY <1>a, <1>b, <2>1, <2>4 DEF TypeOK
<1>2. ASSUME NEW t \in Tasks, Acquire(t) PROVE TypeOK'
  <2>1. /\ pc' = [pc EXCEPT ![t] = "start"] /\ pc[t] = "queued"
        /\ UNCHANGED <<rules, cache, op, result, offered>>
    BY <1>2 DEF Acquire
  <2>2. queue' \in Seq(Tasks)
    BY <1>a, <1>2 DEF Acquire, TasksOK
  <2>3. readers' \subseteq Tasks /\ writer' \in Tasks \cup {NONE}
    BY <1>a, <1>2 DEF Acquire, TasksOK
  <2>4. pc' \in [Tasks -> Places]
    BY <1>a, <2>1 DEF TasksOK, Places
  <2>5. ASSUME NEW s \in Tasks, ~ At(s, "find_target_with_match_info", "done")'
        PROVE  result'[s] \in Routes
    BY <1>a, <2>1, <2>5 DEF TasksOK, At
  <2>6. TasksOK'
    BY <1>a, <2>1, <2>2, <2>3, <2>4, <2>5 DEF TasksOK
  <2> QED BY <1>a, <1>b, <2>1, <2>6 DEF TypeOK
<1>3. ASSUME NEW t \in Tasks, Release(t) PROVE TypeOK'
  <2>1. TasksOK'
    BY <1>a, <1>3, IdleType DEF Release, TasksOK
  <2> QED BY <1>a, <1>b, <1>3, <2>1 DEF Release, TypeOK
<1>4. ASSUME NEW t \in Tasks, Abandon(t) PROVE TypeOK'
  <2>1. queue' \in Seq(Tasks)
    BY <1>a, <1>4, WithoutType DEF Abandon, TasksOK
  <2>2. TasksOK'
    BY <1>a, <1>4, <2>1, IdleType DEF Abandon
  <2> QED BY <1>a, <1>b, <1>4, <2>2 DEF Abandon, TypeOK
<1>5. ASSUME NEW t \in Tasks, LookInCache(t) PROVE TypeOK'
  <2> DEFINE uri == op[t].uri
  <2>1. UNCHANGED <<rules, offered>>
    BY <1>5 DEF LookInCache
  <2>2. CASE CachedAt(uri) # {}
    <3>1. cache' = CacheTouch(uri) /\ Step(t, "done", cache[Position(uri)].route)
      BY <1>5, <2>2 DEF LookInCache
    <3>2. cache' \in Seq(Entries) /\ cache[Position(uri)] \in Entries
      <4>1. Position(uri) \in DOMAIN cache /\ CacheTouch(uri) \in Seq(Entries)
        BY <1>a, <2>2, TouchEntries
      <4> QED BY <1>a, <3>1, <4>1
    <3>3. cache[Position(uri)].route \in Routes
      BY <3>2 DEF Entries
    <3>4. TasksOK'
      BY <1>a, <3>1, <3>3, StepType DEF Places
    <3> QED BY <1>a, <1>b, <2>1, <3>2, <3>4 DEF TypeOK
  <2>3. CASE CachedAt(uri) = {}
    <3>1. UNCHANGED cache /\ Step(t, "missed", NONE)
      BY <1>5, <2>3 DEF LookInCache
    <3>2. TasksOK'
      BY <1>a, <1>c, <3>1, StepType DEF Places
    <3> QED BY <1>a, <1>b, <2>1, <3>1, <3>2 DEF TypeOK
  <2> QED BY <2>2, <2>3
<1>6. ASSUME NEW t \in Tasks, LookInRules(t) PROVE TypeOK'
  <2>1. FindUncached(FromUri(op[t].uri)) \in Routes
    BY <1>a, FindUncachedType
  <2>2. Step(t, "done", NONE) \/ Step(t, "looked", FindUncached(FromUri(op[t].uri)))
    BY <1>6 DEF LookInRules
  <2>3. TasksOK'
    BY <1>a, <1>c, <2>1, <2>2, StepType DEF Places
  <2> QED BY <1>a, <1>b, <1>6, <2>3 DEF LookInRules, TypeOK
<1>7. ASSUME NEW t \in Tasks, StoreInCache(t) PROVE TypeOK'
  <2>1. op[t].uri \in Uris
    BY <1>a, <1>7, LookupOps DEF StoreInCache, At, TasksOK
  <2>2. result[t] \in Routes
    BY <1>a, <1>7 DEF StoreInCache, At, TasksOK
  <2>3. cache' \in Seq(Entries)
    BY <1>a, <1>7, <2>1, <2>2, PutEntries DEF StoreInCache
  <2>4. TasksOK'
    BY <1>a, <1>7, <2>2, StepType DEF StoreInCache, Places
  <2> QED BY <1>a, <1>b, <1>7, <2>3, <2>4 DEF StoreInCache, TypeOK
<1>8. ASSUME NEW t \in Tasks, MatchInfo(t) PROVE TypeOK'
  <2>1. FindWithMatchInfo(op[t].uri) \in Routes \cup MatchResults
    BY <1>a, MatchInfoType
  <2>2. TasksOK'
    BY <1>a, <1>8, <2>1, StepType DEF MatchInfo, At, Places
  <2> QED BY <1>a, <1>b, <1>8, <2>2 DEF MatchInfo, TypeOK
<1>9. ASSUME NEW t \in Tasks,
             AddExactRule(t) \/ AddPatternRule(t) \/ Clear(t) \/ ClearCache(t)
      PROVE  TypeOK'
  <2>1. Step(t, "done", NONE) /\ (OfferMore \/ OfferAfresh)
    BY <1>9 DEF AddExactRule, AddPatternRule, Clear, ClearCache
  <2>2. TasksOK'
    BY <1>a, <1>c, <2>1, StepType DEF Places
  <2>3. RulesOK'
    <3>1. CASE AddExactRule(t)
      <4>1. op[t].rule \in Rules
        BY <1>a, <3>1, RuleOps DEF AddExactRule, At, TasksOK
      <4>2. pattern_rules' = pattern_rules
        BY <3>1 DEF AddExactRule
      <4> QED BY <1>a, <3>1, <4>1, <4>2, InsertType DEF AddExactRule, RulesOK, TypeOK
    <3>2. CASE AddPatternRule(t)
      <4>1. op[t].rule \in Rules
        BY <1>a, <3>2, RuleOps DEF AddPatternRule, At, TasksOK
      <4> QED BY <1>a, <3>2, <4>1 DEF AddPatternRule, RulesOK
    <3>3. CASE Clear(t)
      BY <3>3 DEF Clear, RulesOK
    <3>4. CASE ClearCache(t)
      BY <1>b, <3>4 DEF ClearCache
    <3> QED BY <1>9, <3>1, <3>2, <3>3, <3>4
  <2>4. cache' \in Seq(Entries)
    <3>1. cache' = cache \/ cache' = <<>>
      BY <1>9 DEF AddExactRule, AddPatternRule, Clear, ClearCache
    <3>2. <<>> \in Seq(Entries)
      OBVIOUS
    <3> QED BY <1>a, <3>1, <3>2
  <2>5. (\A uri \in Uris : Route(uri) \in Routes)'
    <3>1. RulesOK' => (\A uri \in Uris : Route(uri) \in Routes)'
      BY RoutesType, PTL
    <3> QED BY <2>3, <3>1
  <2>6. offered' \in [Uris -> SUBSET Routes]
    BY <1>a, <2>1, <2>5, OfferedType DEF TypeOK
  <2> QED BY <2>2, <2>3, <2>4, <2>6 DEF TypeOK
<1>10. CASE UNCHANGED vars
  <2>1. TasksOK'
    BY <1>10, <1>a DEF vars, lock, TasksOK, At
  <2> QED BY <1>10, <1>a, <1>b, <2>1 DEF vars, TypeOK
<1> QED BY <1>1, <1>2, <1>3, <1>4, <1>5, <1>6, <1>7, <1>8, <1>9, <1>10 DEF Next, Operate

\* Every variable keeps its type; the keys of the index are normalised.
THEOREM TypeCorrect == Spec => []TypeOK
BY TypeInit, TypeNext, PTL DEF Spec

-----------------------------------------------------------------------------
(* The lock                                                                *)

LEMMA GuardsInit == Init => GuardsMatchTasks
BY NoneAssumption DEF Init, GuardsMatchTasks, Inside

\* Giving a guard back keeps guards and tasks in step.
LEMMA GuardsIdle ==
  ASSUME TasksOK, GuardsMatchTasks, NEW t \in Tasks, DropGuard(t),
         pc' = [pc EXCEPT ![t] = "idle"], op' = [op EXCEPT ![t] = NoOp]
  PROVE  GuardsMatchTasks'
<1>1. writer' = NONE \/ (writer' = writer /\ writer # t)
  BY DEF DropGuard
<1>2. writer' # NONE => readers' = {}
  BY <1>1 DEF DropGuard, GuardsMatchTasks
<1>3. ASSUME NEW s \in Tasks
      PROVE  /\ (s \in readers <=> Inside(s) /\ op[s] \notin ExclusiveOps)'
             /\ (s = writer <=> Inside(s) /\ op[s] \in ExclusiveOps)'
             /\ (pc[s] \in {"missed", "looked"} => op[s].kind = "find_target")'
  <2>1. CASE s = t
    <3>1. pc'[s] = "idle" /\ s \notin readers' /\ s # writer'
      BY <2>1, NoneAssumption DEF TasksOK, DropGuard
    <3> QED BY <3>1 DEF Inside
  <2>2. CASE s # t
    <3>1. pc'[s] = pc[s] /\ op'[s] = op[s] /\ (s \in readers' <=> s \in readers)
      BY <2>2 DEF TasksOK, DropGuard
    <3>2. s = writer' <=> s = writer
      BY <2>2, NoneAssumption DEF DropGuard
    <3> QED BY <3>1, <3>2 DEF GuardsMatchTasks, Inside
  <2> QED BY <2>1, <2>2
<1> QED BY <1>2, <1>3 DEF GuardsMatchTasks

\* A step of an operation takes its task to a later place and moves no guard.
LEMMA OperateSteps ==
  ASSUME NEW t \in Tasks, Operate(t)
  PROVE  /\ Inside(t) /\ UNCHANGED <<readers, writer, queue, op>>
         /\ \E place \in {"missed", "looked", "done"} :
              /\ place \in {"missed", "looked"} => op[t].kind = "find_target"
              /\ pc' = [pc EXCEPT ![t] = place]
<1> USE DEF At, Step, lock, Inside
<1>1. CASE LookInCache(t)
  BY <1>1 DEF LookInCache
<1>2. CASE LookInRules(t)
  BY <1>2 DEF LookInRules
<1>3. CASE StoreInCache(t)
  BY <1>3 DEF StoreInCache
<1>4. CASE MatchInfo(t)
  BY <1>4 DEF MatchInfo
<1>5. CASE AddExactRule(t)
  BY <1>5 DEF AddExactRule
<1>6. CASE AddPatternRule(t)
  BY <1>6 DEF AddPatternRule
<1>7. CASE Clear(t)
  BY <1>7 DEF Clear
<1>8. CASE ClearCache(t)
  BY <1>8 DEF ClearCache
<1> QED BY <1>1, <1>2, <1>3, <1>4, <1>5, <1>6, <1>7, <1>8 DEF Operate

LEMMA GuardsOperate ==
  ASSUME TasksOK, GuardsMatchTasks, NEW t \in Tasks, Operate(t)
  PROVE  GuardsMatchTasks'
<1>1. PICK place \in {"missed", "looked", "done"} :
        /\ place \in {"missed", "looked"} => op[t].kind = "find_target"
        /\ pc' = [pc EXCEPT ![t] = place]
  BY OperateSteps
<1>2. Inside(t) /\ UNCHANGED <<readers, writer, op>>
  BY OperateSteps
<1>3. ASSUME NEW s \in Tasks
      PROVE  /\ (s \in readers <=> Inside(s) /\ op[s] \notin ExclusiveOps)'
             /\ (s = writer <=> Inside(s) /\ op[s] \in ExclusiveOps)'
             /\ (pc[s] \in {"missed", "looked"} => op[s].kind = "find_target")'
  <2>1. CASE s = t
    BY <1>1, <1>2, <2>1 DEF TasksOK, GuardsMatchTasks, Inside
  <2>2. CASE s # t
    BY <1>1, <1>2, <2>2 DEF TasksOK, GuardsMatchTasks, Inside
  <2> QED BY <2>1, <2>2
<1> QED BY <1>2, <1>3 DEF GuardsMatchTasks

LEMMA GuardsNext == TasksOK /\ GuardsMatchTasks /\ [Next]_vars => GuardsMatchTasks'
<1> SUFFICES ASSUME TasksOK, GuardsMatchTasks, [Next]_vars PROVE GuardsMatchTasks'
  OBVIOUS
<1>1. ASSUME NEW t \in Tasks, NEW o \in Ops, Request(t, o) PROVE GuardsMatchTasks'
  <2>1. /\ UNCHANGED <<readers, writer>> /\ pc[t] = "idle"
        /\ pc' = [pc EXCEPT ![t] = "queued"] /\ op' = [op EXCEPT ![t] = o]
    BY <1>1 DEF Request
  <2>2. ASSUME NEW s \in Tasks
        PROVE  /\ (s \in readers <=> Inside(s) /\ op[s] \notin ExclusiveOps)'
               /\ (s = writer <=> Inside(s) /\ op[s] \in ExclusiveOps)'
               /\ (pc[s] \in {"missed", "looked"} => op[s].kind = "find_target")'
    <3>1. CASE s = t
      BY <2>1, <3>1 DEF TasksOK, GuardsMatchTasks, Inside
    <3>2. CASE s # t
      BY <2>1, <3>2 DEF TasksOK, GuardsMatchTasks, Inside
    <3> QED BY <3>1, <3>2
  <2> QED BY <2>1, <2>2 DEF GuardsMatchTasks
<1>2. ASSUME NEW t \in Tasks, Acquire(t) PROVE GuardsMatchTasks'
  <2>1. /\ op' = op /\ pc[t] = "queued" /\ pc' = [pc EXCEPT ![t] = "start"]
        /\ writer = NONE
    BY <1>2 DEF Acquire, Admits
  <2>2. \/ op[t] \in ExclusiveOps /\ readers = {} /\ writer' = t /\ readers' = {}
        \/ op[t] \notin ExclusiveOps /\ readers' = readers \cup {t} /\ writer' = NONE
    BY <1>2 DEF Acquire, Admits
  <2>3. ASSUME NEW s \in Tasks
        PROVE  /\ (s \in readers <=> Inside(s) /\ op[s] \notin ExclusiveOps)'
               /\ (s = writer <=> Inside(s) /\ op[s] \in ExclusiveOps)'
               /\ (pc[s] \in {"missed", "looked"} => op[s].kind = "find_target")'
    <3>1. CASE s = t
      BY <2>1, <2>2, <3>1, NoneAssumption DEF TasksOK, GuardsMatchTasks, Inside
    <3>2. CASE s # t
      BY <2>1, <2>2, <3>2, NoneAssumption DEF TasksOK, GuardsMatchTasks, Inside
    <3> QED BY <3>1, <3>2
  <2> QED BY <2>2, <2>3 DEF GuardsMatchTasks
<1>3. ASSUME NEW t \in Tasks, Release(t) PROVE GuardsMatchTasks'
  BY <1>3, GuardsIdle DEF Release
<1>4. ASSUME NEW t \in Tasks, Abandon(t) PROVE GuardsMatchTasks'
  BY <1>4, GuardsIdle DEF Abandon
<1>5. ASSUME NEW t \in Tasks, Operate(t) PROVE GuardsMatchTasks'
  BY <1>5, GuardsOperate
<1>6. CASE UNCHANGED vars
  BY <1>6 DEF vars, lock, GuardsMatchTasks, Inside
<1> QED BY <1>1, <1>2, <1>3, <1>4, <1>5, <1>6 DEF Next

\* A task that may change the rules is alone: no other is inside.
LEMMA WriterIsAlone ==
  ASSUME TasksOK, GuardsMatchTasks, NEW t \in Tasks, Inside(t), op[t] \in ExclusiveOps,
         NEW s \in Tasks, s # t
  PROVE  ~ Inside(s)
BY NoneAssumption DEF GuardsMatchTasks

-----------------------------------------------------------------------------
(* What lookups hold                                                       *)

\* The other lookup, too, only depends on the rules.
LEMMA MatchInfoStable ==
  ASSUME UNCHANGED rules, NEW uri
  PROVE  FindWithMatchInfo(uri)' = FindWithMatchInfo(uri)
BY DEF rules, FindWithMatchInfo, MatchingPatterns, FirstMatch

\* A task that does not move keeps a current result while the rules stay, and
\* holds none while it is not inside.
LEMMA OthersCurrent ==
  ASSUME NEW s \in Tasks, Current(s),
         pc'[s] = pc[s], op'[s] = op[s], result'[s] = result[s],
         UNCHANGED rules \/ ~ Inside(s)
  PROVE  Current(s)'
<1>1. CASE UNCHANGED rules
  <2>1. Route(op[s].uri)' = Route(op[s].uri)
    BY <1>1, RouteStable
  <2>2. FindWithMatchInfo(op[s].uri)' = FindWithMatchInfo(op[s].uri)
    BY <1>1, MatchInfoStable
  <2> QED BY <2>1, <2>2 DEF Current, At
<1>2. CASE ~ Inside(s)
  BY <1>2 DEF Current, At, Inside
<1> QED BY <1>1, <1>2

LEMMA HeldInit == Init => HeldResultsAreCurrent
BY DEF Init, HeldResultsAreCurrent, Current, At

\* No operation moves another task, and one that changes the rules is alone.
LEMMA OperateMovesOne ==
  ASSUME TypeOK, GuardsMatchTasks, NEW t \in Tasks, Operate(t), NEW s \in Tasks, s # t
  PROVE  /\ pc'[s] = pc[s] /\ op'[s] = op[s] /\ result'[s] = result[s]
         /\ UNCHANGED rules \/ ~ Inside(s)
<1>1. ASSUME NEW place, NEW r, Step(t, place, r)
      PROVE  pc'[s] = pc[s] /\ op'[s] = op[s] /\ result'[s] = result[s]
  BY <1>1 DEF Step, TypeOK, TasksOK
<1>2. CASE LookInCache(t)
  BY <1>1, <1>2 DEF LookInCache
<1>3. CASE LookInRules(t)
  BY <1>1, <1>3 DEF LookInRules
<1>4. CASE StoreInCache(t)
  BY <1>1, <1>4 DEF StoreInCache
<1>5. CASE MatchInfo(t)
  BY <1>1, <1>5 DEF MatchInfo
<1>6. CASE ClearCache(t)
  BY <1>1, <1>6 DEF ClearCache
<1>7. CASE AddExactRule(t) \/ AddPatternRule(t) \/ Clear(t)
  <2>1. Step(t, "done", NONE) /\ pc[t] = "start" /\ op[t].kind \in {"add_rule", "clear"}
    BY <1>7 DEF AddExactRule, AddPatternRule, Clear, At
  <2>2. Inside(t) /\ op[t] \in ExclusiveOps
    BY <2>1, RuleOps DEF Inside, TypeOK, TasksOK
  <2>3. ~ Inside(s)
    BY <2>2, WriterIsAlone DEF TypeOK
  <2> QED BY <1>1, <2>1, <2>3
<1> QED BY <1>2, <1>3, <1>4, <1>5, <1>6, <1>7 DEF Operate

LEMMA HeldNext ==
  TypeOK /\ GuardsMatchTasks /\ HeldResultsAreCurrent /\ [Next]_vars => HeldResultsAreCurrent'
<1> SUFFICES ASSUME TypeOK, GuardsMatchTasks, HeldResultsAreCurrent, [Next]_vars,
                    NEW s \in Tasks
             PROVE  Current(s)'
  BY DEF HeldResultsAreCurrent
<1>a. Current(s) /\ TasksOK
  BY DEF HeldResultsAreCurrent, TypeOK
<1>1. ASSUME NEW t \in Tasks, NEW o \in Ops, Request(t, o) PROVE Current(s)'
  <2>1. CASE s = t
    BY <1>a, <1>1, <2>1 DEF Request, Current, At, TasksOK
  <2>2. CASE s # t
    BY <1>a, <1>1, <2>2, OthersCurrent DEF Request, TasksOK
  <2> QED BY <2>1, <2>2
<1>2. ASSUME NEW t \in Tasks, Acquire(t) PROVE Current(s)'
  <2>1. CASE s = t
    BY <1>a, <1>2, <2>1 DEF Acquire, Current, At, TasksOK
  <2>2. CASE s # t
    BY <1>a, <1>2, <2>2, OthersCurrent DEF Acquire, TasksOK
  <2> QED BY <2>1, <2>2
<1>3. ASSUME NEW t \in Tasks, Release(t) \/ Abandon(t) PROVE Current(s)'
  <2>0. /\ pc' = [pc EXCEPT ![t] = "idle"] /\ op' = [op EXCEPT ![t] = NoOp]
        /\ result' = [result EXCEPT ![t] = NONE] /\ UNCHANGED rules
    BY <1>3 DEF Release, Abandon
  <2>1. CASE s = t
    BY <1>a, <2>0, <2>1 DEF Current, At, TasksOK
  <2>2. CASE s # t
    BY <1>a, <2>0, <2>2, OthersCurrent DEF TasksOK
  <2> QED BY <2>1, <2>2
<1>4. ASSUME NEW t \in Tasks, Operate(t) PROVE Current(s)'
  <2>1. CASE s # t
    BY <1>a, <1>4, <2>1, OperateMovesOne, OthersCurrent
  <2>2. CASE s = t /\ LookInRules(t)
    <3>1. UNCHANGED <<rules, op>>
      BY <2>2 DEF LookInRules, Step
    <3>2. /\ op[t].kind = "find_target" /\ op'[t] = op[t]
          /\ \/ pc'[t] = "done"
             \/ /\ FromUri(op[t].uri) # NONE
                /\ result'[t] = FindUncached(FromUri(op[t].uri))
      BY <2>2 DEF LookInRules, Step, At, TypeOK, TasksOK
    <3>3. pc'[t] = "done" \/ result'[t] = Route(op[t].uri)
      BY <3>2 DEF Route
    <3>4. Route(op[t].uri)' = Route(op[t].uri)
      BY <3>1, RouteStable
    <3> QED BY <2>2, <3>2, <3>3, <3>4 DEF Current, At
  <2>3. CASE s = t /\ MatchInfo(t)
    <3>1. UNCHANGED <<rules, op>>
      BY <2>3 DEF MatchInfo, Step
    <3>2. /\ op[t].kind = "find_target_with_match_info" /\ op'[t] = op[t]
          /\ result'[t] = FindWithMatchInfo(op[t].uri)
      BY <2>3 DEF MatchInfo, Step, At, TypeOK, TasksOK
    <3>3. FindWithMatchInfo(op[t].uri)' = FindWithMatchInfo(op[t].uri)
      BY <3>1, MatchInfoStable
    <3> QED BY <2>3, <3>2, <3>3 DEF Current, At
  <2>4. CASE s = t /\ ~ LookInRules(t) /\ ~ MatchInfo(t)
    <3>1. /\ pc'[t] # "looked" /\ op'[t] = op[t]
          /\ op[t].kind # "find_target_with_match_info"
      <4> USE DEF At, Step, TypeOK, TasksOK
      <4>1. CASE LookInCache(t)
        BY <4>1 DEF LookInCache
      <4>2. CASE StoreInCache(t)
        BY <4>2 DEF StoreInCache
      <4>3. CASE AddExactRule(t) \/ AddPatternRule(t)
        BY <4>3 DEF AddExactRule, AddPatternRule
      <4>4. CASE Clear(t) \/ ClearCache(t)
        BY <4>4 DEF Clear, ClearCache
      <4> QED BY <1>4, <2>4, <4>1, <4>2, <4>3, <4>4 DEF Operate
    <3> QED BY <2>4, <3>1 DEF Current, At
  <2> QED BY <2>1, <2>2, <2>3, <2>4
<1>5. CASE UNCHANGED vars
  BY <1>a, <1>5, OthersCurrent DEF vars
<1> QED BY <1>1, <1>2, <1>3, <1>4, <1>5 DEF Next

\* What a lookup holds, about to be stored or in use by a request handler, is
\* what the rules in force say, however many tasks there are.
THEOREM HeldCorrect == Spec => []HeldResultsAreCurrent
<1> DEFINE IInv == TypeOK /\ GuardsMatchTasks /\ HeldResultsAreCurrent
<1>1. Init => IInv
  BY TypeInit, GuardsInit, HeldInit
<1>2. IInv /\ [Next]_vars => IInv'
  BY TypeNext, GuardsNext, HeldNext DEF TypeOK
<1> QED BY <1>1, <1>2, PTL DEF Spec

-----------------------------------------------------------------------------
(* What the cache holds                                                    *)

\* The entries of the cache, and those find_target may serve: current or hidden
\* behind the index, and in any case the URI's route at some time since the last
\* clearing.
Cached(e) == \E i \in DOMAIN cache : cache[i] = e

Servable(e) ==
  /\ e.route = Route(e.uri) \/ KeyOf(FromUri(e.uri)) \in DOMAIN exact_rules
  /\ e.route \in offered[e.uri]

CacheInv ==
  /\ \A e : Cached(e) => Servable(e)
  /\ \A uri \in Uris : Route(uri) \in offered[uri]

LEMMA CacheInit == Init => CacheInv
BY DEF Init, CacheInv, Cached

\* A rule added to the index changes the route of no URI whose key is not in
\* the index afterwards.
LEMMA InsertRoutes ==
  ASSUME NEW key, NEW target, exact_rules' = Insert(exact_rules, key, target),
         UNCHANGED pattern_rules, NEW uri
  PROVE  /\ Route(uri)' = Route(uri) \/ KeyOf(FromUri(uri)) \in DOMAIN exact_rules'
         /\ DOMAIN exact_rules \subseteq DOMAIN exact_rules'
<1>1. DOMAIN exact_rules' = DOMAIN exact_rules \cup {key}
  BY DEF Insert
<1>2. ASSUME KeyOf(FromUri(uri)) \notin DOMAIN exact_rules' PROVE Route(uri)' = Route(uri)
  BY <1>1, <1>2 DEF Route, FindUncached, MatchingPatterns, FirstMatch
<1> QED BY <1>1, <1>2

\* Steps that neither change the rules nor forget older routes keep an entry
\* servable; what they store need only be servable before.
LEMMA CacheStable ==
  ASSUME CacheInv, UNCHANGED <<rules, offered>>,
         \A e : Cached(e)' => Cached(e) \/ Servable(e)
  PROVE  CacheInv'
<1>1. ASSUME NEW e, Cached(e)' PROVE Servable(e)'
  <2>1. Servable(e)
    BY <1>1 DEF CacheInv
  <2>2. Route(e.uri)' = Route(e.uri)
    BY RouteStable
  <2> QED BY <2>1, <2>2 DEF Servable, rules
<1>2. ASSUME NEW uri \in Uris PROVE (Route(uri) \in offered[uri])'
  <2>1. Route(uri)' = Route(uri)
    BY RouteStable
  <2> QED BY <2>1 DEF CacheInv
<1> QED BY <1>1, <1>2 DEF CacheInv

\* An emptied cache and a history that starts again.
LEMMA CacheEmptied ==
  ASSUME cache' = <<>>, OfferAfresh
  PROVE  CacheInv'
BY DEF CacheInv, Cached, OfferAfresh

LEMMA CacheNext ==
  TypeOK /\ GuardsMatchTasks /\ HeldResultsAreCurrent /\ CacheInv /\ [Next]_vars => CacheInv'
<1> SUFFICES ASSUME TypeOK, GuardsMatchTasks, HeldResultsAreCurrent, CacheInv, [Next]_vars
             PROVE  CacheInv'
  OBVIOUS
<1>a. cache \in Seq(Entries) /\ TasksOK /\ offered \in [Uris -> SUBSET Routes]
  BY DEF TypeOK
<1>1. ASSUME UNCHANGED <<rules, cache, offered>> PROVE CacheInv'
  BY <1>1, CacheStable DEF Cached
<1>2. ASSUME NEW t \in Tasks,
             \/ \E o \in Ops : Request(t, o)
             \/ Acquire(t) \/ Release(t) \/ Abandon(t)
      PROVE  CacheInv'
  BY <1>1, <1>2 DEF Request, Acquire, Release, Abandon
<1>3. ASSUME NEW t \in Tasks, LookInCache(t) PROVE CacheInv'
  <2>1. CASE UNCHANGED cache
    BY <1>1, <1>3, <2>1 DEF LookInCache
  <2>2. CASE CachedAt(op[t].uri) # {} /\ cache' = CacheTouch(op[t].uri)
    <3>1. \A e : Cached(e)' => Cached(e)
      BY <1>a, <2>2, TouchEntries DEF Cached
    <3> QED BY <1>3, <3>1, CacheStable DEF LookInCache
  <2> QED BY <1>3, <2>1, <2>2 DEF LookInCache
<1>4. ASSUME NEW t \in Tasks, LookInRules(t) \/ MatchInfo(t) PROVE CacheInv'
  BY <1>1, <1>4 DEF LookInRules, MatchInfo
<1>5. ASSUME NEW t \in Tasks, StoreInCache(t) PROVE CacheInv'
  <2> DEFINE uri == op[t].uri
  <2>1. op[t].uri \in Uris
    BY <1>a, <1>5, LookupOps DEF StoreInCache, At, TasksOK
  <2>2. result[t] \in Routes
    BY <1>a, <1>5 DEF StoreInCache, At, TasksOK
  <2>3. result[t] = Route(op[t].uri)
    BY <1>5 DEF StoreInCache, HeldResultsAreCurrent, Current, At
  <2>4. Servable([uri |-> uri, route |-> result[t]])
    BY <2>1, <2>3 DEF Servable, CacheInv
  <2>5. cache' = CachePut(op[t].uri, result[t]) /\ UNCHANGED <<rules, offered>>
    BY <1>5 DEF StoreInCache
  <2>6. \A e : Cached(e)' => Cached(e) \/ e = [uri |-> uri, route |-> result[t]]
    BY <1>a, <2>1, <2>2, <2>5, PutEntries DEF Cached
  <2> QED BY <2>4, <2>5, <2>6, CacheStable
<1>6. ASSUME NEW t \in Tasks, AddExactRule(t) PROVE CacheInv'
  <2>1. /\ exact_rules' = Insert(exact_rules, PatternKey(op[t].rule.pattern), op[t].rule.target)
        /\ UNCHANGED <<pattern_rules, cache>> /\ OfferMore
    BY <1>6 DEF AddExactRule
  <2>2. ASSUME NEW e, Cached(e)' PROVE Servable(e)'
    <3>1. e \in Entries /\ Servable(e)
      BY <1>a, <2>1, <2>2 DEF Cached, CacheInv
    <3>2. e.route \in offered'[e.uri]
      BY <2>1, <3>1 DEF OfferMore, Servable, Entries
    <3>3. e.route = Route(e.uri)' \/ KeyOf(FromUri(e.uri)) \in DOMAIN exact_rules'
      BY <2>1, <3>1, InsertRoutes DEF Servable
    <3> QED BY <3>2, <3>3 DEF Servable
  <2> QED BY <2>1, <2>2 DEF CacheInv, OfferMore
<1>7. ASSUME NEW t \in Tasks, AddPatternRule(t) \/ Clear(t) \/ ClearCache(t) PROVE CacheInv'
  BY <1>7, CacheEmptied DEF AddPatternRule, Clear, ClearCache
<1>8. CASE UNCHANGED vars
  BY <1>1, <1>8 DEF vars
<1> QED BY <1>2, <1>3, <1>4, <1>5, <1>6, <1>7, <1>8 DEF Next, Operate

LEMMA CacheInvHolds == Spec => []CacheInv
<1> DEFINE IInv == TypeOK /\ GuardsMatchTasks /\ HeldResultsAreCurrent /\ CacheInv
<1>1. Init => IInv
  BY TypeInit, GuardsInit, HeldInit, CacheInit
<1>2. IInv /\ [Next]_vars => IInv'
  BY TypeNext, GuardsNext, HeldNext, CacheNext DEF TypeOK
<1> QED BY <1>1, <1>2, PTL DEF Spec

\* A route cached for a URI differs from the rules in force only behind the
\* index.
THEOREM StalenessBounded == Spec => []StaleOnlyBehindExactRule
<1>1. CacheInv => StaleOnlyBehindExactRule
  BY DEF CacheInv, Servable, Cached, StaleOnlyBehindExactRule
<1> QED BY <1>1, CacheInvHolds, PTL

\* No lookup leaves in the cache what it found before the cache was cleared.
THEOREM ClearsAreFinal == Spec => []NothingFromBeforeTheClear
<1>1. CacheInv => NothingFromBeforeTheClear
  BY DEF CacheInv, Servable, Cached, NothingFromBeforeTheClear
<1> QED BY <1>1, CacheInvHolds, PTL

-----------------------------------------------------------------------------
(* What the rules answer                                                   *)

\* The listed form of an index key accepts every address with that key.
LEMMA KeyPatternMatches ==
  ASSUME NEW address
  PROVE  Matches(KeyPattern(KeyOf(address)), address)
<1> DEFINE key == KeyOf(address)
<1>1. /\ key.protocol = address.protocol /\ key.host = address.host /\ key.path = address.path
      /\ key.port # NONE => key.port = address.port
  BY DEF KeyOf, ExactKey, NormalizePort
<1>2. \A v : Accepts([kind |-> "exact", text |-> v], v)
  BY DEF Accepts
<1> QED BY <1>1, <1>2 DEF KeyPattern, Matches

LEMMA RouteHasRule ==
  ASSUME NEW uri, Route(uri) # NONE
  PROVE  \E r \in AllRules : r.target = Route(uri) /\ Matches(r.pattern, FromUri(uri))
<1> DEFINE address == FromUri(uri)
           key == KeyOf(address)
           i == CHOOSE k \in MatchingPatterns(address) : TRUE
<1>1. Route(uri) = FindUncached(address)
  BY DEF Route
<1>2. CASE key \in DOMAIN exact_rules
  <2> DEFINE r == [pattern |-> KeyPattern(key), target |-> exact_rules[key]]
  <2>1. r \in AllRules
    BY <1>2 DEF AllRules
  <2>2. r.target = Route(uri)
    BY <1>1, <1>2 DEF FindUncached
  <2>3. Matches(r.pattern, address)
    BY KeyPatternMatches
  <2> QED BY <2>1, <2>2, <2>3
<1>3. CASE key \notin DOMAIN exact_rules
  <2>1. MatchingPatterns(address) # {} /\ Route(uri) = pattern_rules[i].target
    BY <1>1, <1>3 DEF FindUncached
  <2>2. i \in DOMAIN pattern_rules /\ Matches(pattern_rules[i].pattern, address)
    BY <2>1 DEF MatchingPatterns, FirstMatch
  <2>3. pattern_rules[i] \in AllRules
    BY <2>2 DEF AllRules
  <2> QED BY <2>1, <2>2, <2>3
<1> QED BY <1>2, <1>3

\* Every route is the target of a listed rule that accepts the address, for
\* all rules and all URIs.
THEOREM RoutesComeFromRules == Spec => []EveryRouteHasARule
<1>1. EveryRouteHasARule
  BY RouteHasRule DEF EveryRouteHasARule
<1> QED BY <1>1, PTL

-----------------------------------------------------------------------------
(* The queue of the lock                                                   *)

\* Who waits in q, and that nobody does twice.
InQueue(q, s)  == \E i \in DOMAIN q : q[i] = s
Distinct(q)    == \A i, j \in DOMAIN q : q[i] = q[j] => i = j

LEMMA AppendQueue ==
  ASSUME NEW q \in Seq(Tasks), NEW t \in Tasks, Distinct(q), ~ InQueue(q, t)
  PROVE  /\ Distinct(Append(q, t))
         /\ \A s \in Tasks : InQueue(Append(q, t), s) <=> InQueue(q, s) \/ s = t
<1>1. /\ Len(q) \in Nat /\ DOMAIN q = 1 .. Len(q)
      /\ DOMAIN Append(q, t) = 1 .. Len(q) + 1
      /\ \A i \in 1 .. Len(q) : Append(q, t)[i] = q[i]
      /\ Append(q, t)[Len(q) + 1] = t
  OBVIOUS
<1>2. Distinct(Append(q, t))
  BY <1>1 DEF Distinct, InQueue
<1>3. ASSUME NEW s \in Tasks PROVE InQueue(Append(q, t), s) <=> InQueue(q, s) \/ s = t
  <2>1. ASSUME InQueue(q, s) PROVE InQueue(Append(q, t), s)
    BY <1>1, <2>1 DEF InQueue
  <2>2. InQueue(Append(q, t), t)
    BY <1>1 DEF InQueue
  <2>3. ASSUME InQueue(Append(q, t), s) PROVE InQueue(q, s) \/ s = t
    BY <1>1, <2>3 DEF InQueue
  <2> QED BY <2>1, <2>2, <2>3
<1> QED BY <1>2, <1>3

LEMMA TailQueue ==
  ASSUME NEW q \in Seq(Tasks), q # <<>>, Distinct(q)
  PROVE  /\ Distinct(Tail(q))
         /\ \A s \in Tasks : InQueue(Tail(q), s) <=> InQueue(q, s) /\ s # Head(q)
<1>1. /\ Len(q) \in Nat \ {0} /\ DOMAIN q = 1 .. Len(q) /\ Head(q) = q[1]
      /\ DOMAIN Tail(q) = 1 .. Len(q) - 1
      /\ \A i \in 1 .. Len(q) - 1 : Tail(q)[i] = q[i + 1]
  OBVIOUS
<1>2. Distinct(Tail(q))
  BY <1>1 DEF Distinct
<1>3. ASSUME NEW s \in Tasks PROVE InQueue(Tail(q), s) <=> InQueue(q, s) /\ s # Head(q)
  <2>1. ASSUME NEW i \in DOMAIN Tail(q), Tail(q)[i] = s PROVE InQueue(q, s) /\ s # Head(q)
    BY <1>1, <2>1 DEF InQueue, Distinct
  <2>2. ASSUME NEW i \in DOMAIN q, q[i] = s, s # Head(q) PROVE InQueue(Tail(q), s)
    <3>1. i - 1 \in DOMAIN Tail(q) /\ Tail(q)[i - 1] = s
      BY <1>1, <2>2
    <3> QED BY <3>1 DEF InQueue
  <2> QED BY <2>1, <2>2 DEF InQueue
<1> QED BY <1>2, <1>3

LEMMA WithoutQueue ==
  ASSUME NEW q \in Seq(Tasks), NEW t \in Tasks, Distinct(q)
  PROVE  /\ Distinct(Without(q, t))
         /\ \A s \in Tasks : InQueue(Without(q, t), s) <=> InQueue(q, s) /\ s # t
<1>1. CASE ~ InQueue(q, t)
  BY <1>1 DEF Without, InQueue
<1>2. CASE InQueue(q, t)
  <2> DEFINE p == CHOOSE i \in DOMAIN q : q[i] = t
  <2>1. p \in DOMAIN q /\ q[p] = t
    BY <1>2 DEF InQueue
  <2>2. Without(q, t) = [i \in 1 .. Len(q) - 1 |-> IF i < p THEN q[i] ELSE q[i + 1]]
    BY <1>2 DEF Without, InQueue
  <2>3. Len(q) \in Nat /\ DOMAIN q = 1 .. Len(q) /\ DOMAIN Without(q, t) = 1 .. Len(q) - 1
    BY <2>2
  <2> HIDE DEF p
  <2>4. Distinct(Without(q, t))
    BY <2>1, <2>2, <2>3 DEF Distinct
  <2>5. ASSUME NEW s \in Tasks, NEW i \in DOMAIN Without(q, t), Without(q, t)[i] = s
        PROVE  InQueue(q, s) /\ s # t
    BY <2>1, <2>2, <2>3, <2>5 DEF Distinct, InQueue
  <2>6. ASSUME NEW s \in Tasks, s # t, NEW i \in DOMAIN q, q[i] = s
        PROVE  InQueue(Without(q, t), s)
    <3>1. CASE i < p
      <4>1. i \in DOMAIN Without(q, t) /\ Without(q, t)[i] = s
        BY <2>1, <2>2, <2>3, <2>6, <3>1
      <4> QED BY <4>1 DEF InQueue
    <3>2. CASE i > p
      <4>1. i - 1 \in DOMAIN Without(q, t) /\ Without(q, t)[i - 1] = s
        BY <2>1, <2>2, <2>3, <2>6, <3>2
      <4> QED BY <4>1 DEF InQueue
    <3> QED BY <2>1, <2>3, <2>6, <3>1, <3>2
  <2> QED BY <2>4, <2>5, <2>6 DEF InQueue
<1> QED BY <1>1, <1>2

LEMMA QueueNext == TasksOK /\ QueueMatchesTasks /\ [Next]_vars => QueueMatchesTasks'
<1> SUFFICES ASSUME TasksOK, QueueMatchesTasks, [Next]_vars PROVE QueueMatchesTasks'
  OBVIOUS
<1>a. queue \in Seq(Tasks) /\ pc \in [Tasks -> Places] /\ Distinct(queue)
  BY DEF TasksOK, QueueMatchesTasks, Distinct
<1>b. \A s \in Tasks : InQueue(queue, s) <=> pc[s] = "queued"
  BY DEF QueueMatchesTasks, InQueue
<1>c. ASSUME Distinct(queue'), \A s \in Tasks : InQueue(queue', s) <=> pc'[s] = "queued"
      PROVE  QueueMatchesTasks'
  BY <1>c DEF QueueMatchesTasks, InQueue, Distinct
<1>1. ASSUME NEW t \in Tasks, NEW o \in Ops, Request(t, o) PROVE QueueMatchesTasks'
  <2>1. pc[t] = "idle" /\ pc' = [pc EXCEPT ![t] = "queued"] /\ queue' = Append(queue, t)
    BY <1>1 DEF Request
  <2>2. ~ InQueue(queue, t)
    BY <1>b, <2>1
  <2>3. \A s \in Tasks : pc'[s] = "queued" <=> pc[s] = "queued" \/ s = t
    BY <1>a, <2>1
  <2>4. Distinct(queue') /\ \A s \in Tasks : InQueue(queue', s) <=> InQueue(queue, s) \/ s = t
    BY <1>a, <2>1, <2>2, AppendQueue
  <2> QED BY <1>b, <1>c, <2>3, <2>4
<1>2. ASSUME NEW t \in Tasks, Acquire(t) PROVE QueueMatchesTasks'
  <2>1. /\ queue # <<>> /\ t = Head(queue) /\ queue' = Tail(queue)
        /\ pc' = [pc EXCEPT ![t] = "start"]
    BY <1>2 DEF Acquire
  <2>2. \A s \in Tasks : pc'[s] = "queued" <=> pc[s] = "queued" /\ s # t
    BY <1>a, <2>1
  <2>3. Distinct(queue') /\ \A s \in Tasks : InQueue(queue', s) <=> InQueue(queue, s) /\ s # t
    BY <1>a, <2>1, TailQueue
  <2> QED BY <1>b, <1>c, <2>2, <2>3
<1>3. ASSUME NEW t \in Tasks, Abandon(t) PROVE QueueMatchesTasks'
  <2>1. queue' = Without(queue, t) /\ pc' = [pc EXCEPT ![t] = "idle"]
    BY <1>3 DEF Abandon
  <2>2. \A s \in Tasks : pc'[s] = "queued" <=> pc[s] = "queued" /\ s # t
    BY <1>a, <2>1
  <2>3. Distinct(queue') /\ \A s \in Tasks : InQueue(queue', s) <=> InQueue(queue, s) /\ s # t
    BY <1>a, <2>1, WithoutQueue
  <2> QED BY <1>b, <1>c, <2>2, <2>3
<1>4. ASSUME NEW t \in Tasks, Release(t) \/ Operate(t) PROVE QueueMatchesTasks'
  <2>1. /\ UNCHANGED queue /\ pc[t] # "queued"
        /\ \E place \in {"idle", "missed", "looked", "done"} : pc' = [pc EXCEPT ![t] = place]
    BY <1>4, OperateSteps DEF Release, Inside
  <2>2. \A s \in Tasks : pc'[s] = "queued" <=> pc[s] = "queued"
    BY <1>a, <2>1
  <2> QED BY <1>a, <1>b, <1>c, <2>1, <2>2
<1>5. CASE UNCHANGED vars
  BY <1>5 DEF vars, lock, QueueMatchesTasks
<1> QED BY <1>1, <1>2, <1>3, <1>4, <1>5 DEF Next

\* Guards and queue agree with the tasks, with any number of tasks and whatever
\* futures are dropped: no guard leaks and nobody waits for a place it lost.
THEOREM LockIsDisciplined == Spec => []LockDiscipline
<1> DEFINE IInv == TypeOK /\ GuardsMatchTasks /\ QueueMatchesTasks
<1>1. Init => IInv
  BY TypeInit, GuardsInit DEF Init, QueueMatchesTasks
<1>2. IInv /\ [Next]_vars => IInv'
  BY TypeNext, GuardsNext, QueueNext DEF TypeOK
<1>3. IInv => LockDiscipline
  BY DEF LockDiscipline
<1> QED BY <1>1, <1>2, <1>3, PTL DEF Spec

-----------------------------------------------------------------------------
(* The two lookups                                                         *)

\* In every state of the rules the two copies of the lookup find the same.
LEMMA SameLookup ==
  ASSUME RulesOK, NEW uri
  PROVE  Route(uri) = IF FindWithMatchInfo(uri) = NONE THEN NONE
                      ELSE FindWithMatchInfo(uri).target
<1> DEFINE address == FromUri(uri)
           i == CHOOSE k \in MatchingPatterns(address) : TRUE
<1>1. CASE address = NONE
  BY <1>1 DEF FindWithMatchInfo, Route
<1>2. CASE address # NONE /\ KeyOf(address) \in DOMAIN exact_rules
  <2> DEFINE info == [target |-> exact_rules[KeyOf(address)],
                      matched_path_prefix |-> KeyOf(address).path]
  <2>1. info \in MatchResults
    BY <1>2 DEF MatchResults, RulesOK
  <2>2. FindWithMatchInfo(uri) = info /\ Route(uri) = info.target
    BY <1>2 DEF FindWithMatchInfo, Route, FindUncached
  <2> QED BY <2>1, <2>2, MatchResultsAssumption
<1>3. CASE /\ address # NONE /\ KeyOf(address) \notin DOMAIN exact_rules
           /\ MatchingPatterns(address) # {}
  <2> DEFINE info == [target |-> pattern_rules[i].target,
                      matched_path_prefix |-> PrefixOf(pattern_rules[i].pattern)]
  <2>1. i \in DOMAIN pattern_rules
    BY <1>3 DEF MatchingPatterns
  <2>2. pattern_rules[i] \in Rules
    BY <2>1 DEF RulesOK
  <2>3. FindWithMatchInfo(uri) = info /\ Route(uri) = info.target
    BY <1>3 DEF FindWithMatchInfo, Route, FindUncached
  <2> HIDE DEF i
  <2>4. info \in MatchResults
    BY <2>2 DEF MatchResults, Targets
  <2> QED BY <2>3, <2>4, MatchResultsAssumption
<1>4. CASE /\ address # NONE /\ KeyOf(address) \notin DOMAIN exact_rules
           /\ MatchingPatterns(address) = {}
  BY <1>4 DEF FindWithMatchInfo, Route, FindUncached
<1> QED BY <1>1, <1>2, <1>3, <1>4

\* find_target and find_target_with_match_info agree in every reachable state
\* of the rules, whatever rules were added.
THEOREM LookupsStayEqual == Spec => []LookupsAgree
<1>1. TypeOK => LookupsAgree
  BY SameLookup DEF TypeOK, LookupsAgree
<1> QED BY <1>1, TypeCorrect, PTL

-----------------------------------------------------------------------------
(* The refinement: every initial state is one of RouteTable, every step    *)
(* one of its steps or a stutter.                                          *)

Lookups == {"find_target", "find_target_with_match_info"}

TableOf  == [uri \in Uris |-> Route(uri)]
AnswerIn == [t \in Tasks |-> AnswerOf(t)]

\* Only a finished lookup has an answer.
OnlyLookupsAnswer ==
  \A t \in Tasks : pc[t] # "done" \/ op[t].kind \notin Lookups => AnswerOf(t) = NONE

LEMMA NoAnswerYet == OnlyLookupsAnswer
BY DEF OnlyLookupsAnswer, AnswerOf, At, Lookups

LEMMA NoAnswerThen == OnlyLookupsAnswer'
BY NoAnswerYet, PTL

LEMMA TableType == RulesOK => TableOf \in [Uris -> Routes]
BY RoutesType DEF TableOf

LEMMA TableStable ==
  ASSUME UNCHANGED rules
  PROVE  TableOf' = TableOf
BY RouteStable DEF TableOf

LEMMA InitRefines == Init => Table!Init
<1> SUFFICES ASSUME Init PROVE Table!Init
  OBVIOUS
<1>1. TableOf \in [Uris -> Routes]
  BY TypeInit, TableType DEF TypeOK
<1>2. \A t \in Tasks : AnswerOf(t) = NONE
  BY NoAnswerYet DEF Init, OnlyLookupsAnswer
<1>3. offered = [u \in Uris |-> {TableOf[u]}]
  BY DEF Init, TableOf
<1> QED BY <1>1, <1>2, <1>3 DEF Table!Init, TableOf

-----------------------------------------------------------------------------
(* Answers                                                                 *)

\* What the finished lookups found.
LEMMA AnswerFound ==
  ASSUME NEW t \in Tasks
  PROVE  /\ At(t, "find_target", "done") =>
              AnswerOf(t) = [uri |-> op[t].uri, route |-> result[t], fresh |-> FALSE]
         /\ At(t, "find_target_with_match_info", "done") =>
              AnswerOf(t) = [uri |-> op[t].uri,
                             route |-> IF result[t] = NONE THEN NONE ELSE result[t].target,
                             fresh |-> TRUE]
<1>1. CASE At(t, "find_target", "done")
  BY <1>1, Zenon DEF AnswerOf, At
<1>2. CASE At(t, "find_target_with_match_info", "done")
  BY <1>2, Zenon DEF AnswerOf, At
<1> QED BY <1>1, <1>2 DEF At

\* The same as one formula, to be used of a next state.
LookupsAnswer ==
  \A t \in Tasks :
    /\ At(t, "find_target", "done") =>
         AnswerOf(t) = [uri |-> op[t].uri, route |-> result[t], fresh |-> FALSE]
    /\ At(t, "find_target_with_match_info", "done") =>
         AnswerOf(t) = [uri |-> op[t].uri,
                        route |-> IF result[t] = NONE THEN NONE ELSE result[t].target,
                        fresh |-> TRUE]

LEMMA AnswersFound == LookupsAnswer'
<1>1. LookupsAnswer
  BY AnswerFound DEF LookupsAnswer
<1> QED BY <1>1, PTL

\* A task that does not move keeps its answer.
LEMMA AnswerStable ==
  ASSUME NEW s \in Tasks, pc'[s] = pc[s], op'[s] = op[s], result'[s] = result[s]
  PROVE  AnswerOf(s)' = AnswerOf(s)
BY Zenon DEF AnswerOf, At

\* A step of one task changes one answer at most.
LEMMA OneAnswer ==
  ASSUME NEW t \in Tasks,
         \A s \in Tasks : s # t => pc'[s] = pc[s] /\ op'[s] = op[s] /\ result'[s] = result[s]
  PROVE  AnswerIn' = [AnswerIn EXCEPT ![t] = AnswerOf(t)']
<1>1. ASSUME NEW s \in Tasks, s # t PROVE AnswerOf(s)' = AnswerOf(s)
  BY <1>1, AnswerStable
<1> QED BY <1>1, Zenon DEF AnswerIn

\* A lookup that ends is an answer of the table.
LEMMA AnswerStep ==
  ASSUME NEW t \in Tasks, NEW u \in Uris, NEW r, NEW fresh, AnswerOf(t) = NONE,
         AnswerIn' = [AnswerIn EXCEPT ![t] = [uri |-> u, route |-> r, fresh |-> fresh]],
         UNCHANGED <<TableOf, offered>>
  PROVE  Table!Answer(t, u, r, fresh)
BY DEF Table!Answer, TableOf, AnswerIn

\* A step that changes no answer, rule or offer is none of the table's.
LEMMA QuietStep ==
  ASSUME UNCHANGED <<TableOf, offered, AnswerIn>>
  PROVE  UNCHANGED Table!vars
BY DEF Table!vars, TableOf, AnswerIn

-----------------------------------------------------------------------------
(* Steps                                                                   *)

\* What the steps of the table rest on, inductive by ProxyManagerProofs.
RInv == TypeOK /\ GuardsMatchTasks /\ HeldResultsAreCurrent /\ CacheInv

\* The steps of a task change its own place, operation and result only.
LEMMA Moves ==
  ASSUME TypeOK, GuardsMatchTasks, NEW t \in Tasks,
         \/ \E o \in Ops : Request(t, o)
         \/ Acquire(t) \/ Operate(t) \/ Release(t) \/ Abandon(t)
  PROVE  \A s \in Tasks : s # t => pc'[s] = pc[s] /\ op'[s] = op[s] /\ result'[s] = result[s]
<1>1. CASE \E o \in Ops : Request(t, o)
  BY <1>1 DEF Request, TypeOK, TasksOK
<1>2. CASE Acquire(t)
  BY <1>2 DEF Acquire, TypeOK, TasksOK
<1>3. CASE Release(t) \/ Abandon(t)
  BY <1>3 DEF Release, Abandon, TypeOK, TasksOK
<1>4. CASE Operate(t)
  BY <1>4, OperateMovesOne
<1> QED BY <1>1, <1>2, <1>3, <1>4

\* A step that ends no lookup, begins with none ended, and leaves the rules is
\* a stutter of the table.
LEMMA NoAnswerStep ==
  ASSUME NEW t \in Tasks, AnswerIn' = [AnswerIn EXCEPT ![t] = AnswerOf(t)'],
         AnswerOf(t) = NONE, AnswerOf(t)' = NONE
  PROVE  AnswerIn' = AnswerIn
BY DEF AnswerIn

\* While a task changes the rules nobody uses an answer.
LEMMA NobodyAnswers ==
  ASSUME TasksOK, GuardsMatchTasks, NEW t \in Tasks, pc[t] = "start", op[t] \in ExclusiveOps
  PROVE  \A s \in Tasks : AnswerOf(s) = NONE
<1>1. ASSUME NEW s \in Tasks PROVE pc[s] # "done"
  <2>1. CASE s = t
    BY <2>1
  <2>2. CASE s # t
    BY <2>2, WriterIsAlone DEF Inside
  <2> QED BY <2>1, <2>2
<1> QED BY <1>1, NoAnswerYet DEF OnlyLookupsAnswer

\* The end of a lookup is an answer of the table of the lookup's kind.
LEMMA LookupEnds ==
  ASSUME TypeOK, NEW t \in Tasks, NEW u \in Uris, NEW r, NEW fresh, pc[t] # "done",
         AnswerIn' = [AnswerIn EXCEPT ![t] = AnswerOf(t)'],
         AnswerOf(t)' = [uri |-> u, route |-> r, fresh |-> fresh],
         UNCHANGED <<rules, offered>>
  PROVE  Table!Answer(t, u, r, fresh)
<1>1. AnswerOf(t) = NONE
  BY NoAnswerYet DEF OnlyLookupsAnswer
<1> QED BY <1>1, AnswerStep, TableStable DEF rules

\* The steps of find_target.
LEMMA FindTargetRefines ==
  ASSUME RInv, NEW t \in Tasks, LookInCache(t) \/ LookInRules(t) \/ StoreInCache(t),
         AnswerIn' = [AnswerIn EXCEPT ![t] = AnswerOf(t)']
  PROVE  Table!CachedLookup(t) \/ UNCHANGED Table!vars
<1> DEFINE u == op[t].uri
<1>1. /\ op[t].kind = "find_target" /\ pc[t] # "done" /\ UNCHANGED <<rules, offered, op>>
  BY DEF LookInCache, LookInRules, StoreInCache, At, Step
<1>2. op[t] \in Ops \cup {NoOp} /\ pc \in [Tasks -> Places]
      /\ result \in [Tasks -> Routes \cup MatchResults]
  BY DEF RInv, TypeOK, TasksOK
<1>3. op[t].uri \in Uris
  BY <1>1, <1>2, LookupOps
<1>4. ASSUME pc'[t] # "done" PROVE UNCHANGED Table!vars
  <2>1. AnswerOf(t) = NONE /\ AnswerOf(t)' = NONE
    BY <1>1, <1>4, NoAnswerYet, NoAnswerThen DEF OnlyLookupsAnswer
  <2> QED BY <1>1, <2>1, NoAnswerStep, QuietStep, TableStable
<1>5. ASSUME pc'[t] = "done" PROVE Table!CachedLookup(t)
  <2>1. AnswerOf(t)' = [uri |-> op[t].uri, route |-> result'[t], fresh |-> FALSE]
    <3>1. At(t, "find_target", "done")'
      BY <1>1, <1>5 DEF At
    <3>2. AnswerOf(t)' = [uri |-> op'[t].uri, route |-> result'[t], fresh |-> FALSE]
      BY <3>1, AnswersFound DEF LookupsAnswer
    <3> QED BY <1>1, <3>2
  <2>2. result'[t] = Route(op[t].uri) \/ result'[t] \in offered[op[t].uri]
    <3>1. CASE LookInCache(t)
      <4>1. CachedAt(op[t].uri) # {} /\ result'[t] = cache[Position(op[t].uri)].route
        BY <1>2, <1>5, <3>1 DEF LookInCache, Step
      <4>2. Position(op[t].uri) \in DOMAIN cache /\ cache[Position(op[t].uri)].uri = op[t].uri
        BY <4>1 DEF Position, CachedAt
      <4>3. Servable(cache[Position(op[t].uri)])
        BY <4>2 DEF RInv, CacheInv, Cached
      <4> QED BY <4>1, <4>2, <4>3 DEF Servable
    <3>2. CASE LookInRules(t)
      BY <1>2, <1>5, <3>2 DEF LookInRules, Step, Route
    <3>3. CASE StoreInCache(t)
      BY <1>2, <3>3 DEF StoreInCache, Step, At, RInv, HeldResultsAreCurrent, Current
    <3> QED BY <3>1, <3>2, <3>3
  <2>3. result'[t] \in offered[op[t].uri]
    BY <1>3, <2>2 DEF RInv, CacheInv
  <2>4. Table!Answer(t, op[t].uri, result'[t], FALSE)
    BY <1>1, <1>3, <2>1, LookupEnds DEF RInv
  <2> QED BY <1>3, <2>3, <2>4 DEF Table!CachedLookup
<1> QED BY <1>4, <1>5

\* find_target_with_match_info is one fresh answer, by the rules in force.
LEMMA MatchInfoRefines ==
  ASSUME RInv, NEW t \in Tasks, MatchInfo(t),
         AnswerIn' = [AnswerIn EXCEPT ![t] = AnswerOf(t)']
  PROVE  Table!FreshLookup(t)
<1>1. /\ op[t].kind = "find_target_with_match_info" /\ pc[t] = "start"
      /\ UNCHANGED <<rules, offered, op>>
      /\ pc'[t] = "done" /\ result'[t] = FindWithMatchInfo(op[t].uri)
  BY DEF MatchInfo, At, Step, RInv, TypeOK, TasksOK
<1>2. op[t].uri \in Uris
  BY <1>1, LookupOps DEF RInv, TypeOK, TasksOK
<1>3. At(t, "find_target_with_match_info", "done")'
  BY <1>1 DEF At
<1>4. AnswerOf(t)' = [uri |-> op'[t].uri,
                      route |-> IF result'[t] = NONE THEN NONE ELSE result'[t].target,
                      fresh |-> TRUE]
  BY <1>3, AnswersFound DEF LookupsAnswer
<1>5. Route(op[t].uri) = IF result'[t] = NONE THEN NONE ELSE result'[t].target
  BY <1>1, SameLookup DEF RInv, TypeOK
<1>6. AnswerOf(t)' = [uri |-> op[t].uri, route |-> Route(op[t].uri), fresh |-> TRUE]
  BY <1>1, <1>4, <1>5
<1>7. Table!Answer(t, op[t].uri, Route(op[t].uri), TRUE)
  BY <1>1, <1>2, <1>6, LookupEnds DEF RInv
<1>8. TableOf[op[t].uri] = Route(op[t].uri)
  BY <1>2 DEF TableOf
<1> QED BY <1>2, <1>7, <1>8 DEF Table!FreshLookup, TableOf

\* The end of a task's use of an answer is Done, of anything else a stutter.
LEMMA IdleRefines ==
  ASSUME RInv, NEW t \in Tasks, Release(t) \/ Abandon(t),
         AnswerIn' = [AnswerIn EXCEPT ![t] = AnswerOf(t)']
  PROVE  Table!Done(t) \/ UNCHANGED Table!vars
<1>1. UNCHANGED <<rules, offered>> /\ pc'[t] # "done"
  BY DEF Release, Abandon, RInv, TypeOK, TasksOK
<1>2. AnswerOf(t)' = NONE
  BY <1>1, NoAnswerThen DEF OnlyLookupsAnswer
<1>3. UNCHANGED TableOf
  BY <1>1, TableStable
<1>4. CASE AnswerOf(t) = NONE
  BY <1>1, <1>2, <1>3, <1>4, NoAnswerStep, QuietStep
<1>5. CASE AnswerOf(t) # NONE
  BY <1>1, <1>2, <1>3, <1>5 DEF Table!Done, TableOf, AnswerIn
<1> QED BY <1>4, <1>5

\* Asking for the lock and getting it change no answer, rule or offer.
LEMMA LockRefines ==
  ASSUME RInv, NEW t \in Tasks, (\E o \in Ops : Request(t, o)) \/ Acquire(t),
         AnswerIn' = [AnswerIn EXCEPT ![t] = AnswerOf(t)']
  PROVE  UNCHANGED Table!vars
<1>1. UNCHANGED <<rules, offered>> /\ pc[t] # "done" /\ pc'[t] # "done"
  BY DEF Request, Acquire, RInv, TypeOK, TasksOK
<1>2. AnswerOf(t) = NONE /\ AnswerOf(t)' = NONE
  BY <1>1, NoAnswerYet, NoAnswerThen DEF OnlyLookupsAnswer
<1> QED BY <1>1, <1>2, TableStable, NoAnswerStep, QuietStep

\* The steps that change rules or offers, under the read or the write guard.
LEMMA RulesRefine ==
  ASSUME RInv, TypeOK', NEW t \in Tasks,
         AddExactRule(t) \/ AddPatternRule(t) \/ Clear(t) \/ ClearCache(t),
         AnswerIn' = [AnswerIn EXCEPT ![t] = AnswerOf(t)']
  PROVE  Table!Next
<1>1. /\ pc[t] = "start" /\ op'[t] = op[t]
      /\ op[t].kind \in {"add_rule", "clear", "clear_cache"}
  BY DEF AddExactRule, AddPatternRule, Clear, ClearCache, At, Step
<1>2. AnswerOf(t) = NONE /\ AnswerOf(t)' = NONE
  BY <1>1, NoAnswerYet, NoAnswerThen DEF OnlyLookupsAnswer, Lookups
<1>3. AnswerIn' = AnswerIn
  BY <1>2, NoAnswerStep
<1>4. TableOf' \in [Uris -> Routes]
  <2>1. RulesOK' => (TableOf \in [Uris -> Routes])'
    BY TableType, PTL
  <2> QED BY <2>1 DEF TypeOK
<1>5. ASSUME op[t].kind \in {"add_rule", "clear"} PROVE Table!Unused
  <2>1. op[t] \in ExclusiveOps
    BY <1>5, RuleOps DEF RInv, TypeOK, TasksOK
  <2>2. \A s \in Tasks : AnswerOf(s) = NONE
    BY <1>1, <2>1, NobodyAnswers DEF RInv, TypeOK
  <2> QED BY <2>2 DEF Table!Unused
<1>6. CASE AddExactRule(t)
  <2>1. Table!Unused
    BY <1>5, <1>6 DEF AddExactRule, At
  <2>2. offered' = [u \in Uris |-> offered[u] \cup {TableOf'[u]}]
    BY <1>6 DEF AddExactRule, OfferMore, TableOf
  <2>3. Table!Extend
    BY <1>3, <1>4, <2>1, <2>2 DEF Table!Extend, TableOf, AnswerIn
  <2> QED BY <2>3 DEF Table!Next
<1>7. CASE AddPatternRule(t) \/ Clear(t)
  <2>1. Table!Unused
    BY <1>5, <1>7 DEF AddPatternRule, Clear, At
  <2>2. offered' = [u \in Uris |-> {TableOf'[u]}]
    BY <1>7 DEF AddPatternRule, Clear, OfferAfresh, TableOf
  <2>3. Table!Replace
    BY <1>3, <1>4, <2>1, <2>2 DEF Table!Replace, TableOf, AnswerIn
  <2> QED BY <2>3 DEF Table!Next
<1>8. CASE ClearCache(t)
  <2>1. UNCHANGED TableOf
    BY <1>8, TableStable DEF ClearCache
  <2>2. offered' = [u \in Uris |-> {TableOf'[u]}]
    BY <1>8 DEF ClearCache, OfferAfresh, TableOf
  <2>3. Table!Reset
    BY <1>3, <2>1, <2>2 DEF Table!Reset, TableOf, AnswerIn
  <2> QED BY <2>3 DEF Table!Next
<1> QED BY <1>6, <1>7, <1>8

-----------------------------------------------------------------------------
LEMMA NextRefines == RInv /\ TypeOK' /\ [Next]_vars => [Table!Next]_(Table!vars)
<1> SUFFICES ASSUME RInv, TypeOK', [Next]_vars
             PROVE  Table!Next \/ UNCHANGED Table!vars
  OBVIOUS
<1>1. CASE UNCHANGED vars
  <2>1. UNCHANGED <<rules, offered>> /\ pc' = pc /\ op' = op /\ result' = result
    BY <1>1 DEF vars
  <2>2. \A t \in Tasks : AnswerOf(t)' = AnswerOf(t)
    BY <2>1, AnswerStable
  <2>3. AnswerIn' = AnswerIn
    BY <2>2 DEF AnswerIn
  <2> QED BY <2>1, <2>3, TableStable, QuietStep
<1>2. ASSUME NEW t \in Tasks,
             \/ \E o \in Ops : Request(t, o)
             \/ Acquire(t) \/ Operate(t) \/ Release(t) \/ Abandon(t)
      PROVE  Table!Next \/ UNCHANGED Table!vars
  <2>1. AnswerIn' = [AnswerIn EXCEPT ![t] = AnswerOf(t)']
    BY <1>2, Moves, OneAnswer DEF RInv
  <2>2. CASE (\E o \in Ops : Request(t, o)) \/ Acquire(t)
    BY <2>1, <2>2, LockRefines
  <2>3. CASE Release(t) \/ Abandon(t)
    BY <2>1, <2>3, IdleRefines DEF Table!Next
  <2>4. CASE LookInCache(t) \/ LookInRules(t) \/ StoreInCache(t)
    BY <2>1, <2>4, FindTargetRefines DEF Table!Next
  <2>5. CASE MatchInfo(t)
    BY <2>1, <2>5, MatchInfoRefines DEF Table!Next
  <2>6. CASE AddExactRule(t) \/ AddPatternRule(t) \/ Clear(t) \/ ClearCache(t)
    BY <2>1, <2>6, RulesRefine
  <2> QED BY <1>2, <2>2, <2>3, <2>4, <2>5, <2>6 DEF Operate
<1> QED BY <1>1, <1>2 DEF Next

\* With its index, cache and lock, and any number of tasks, URIs and rules, the
\* manager does what a plain table of routes that is replaced under its users
\* would do: add_rule, clear and clear_cache are each one step of the table,
\* however the steps of concurrent lookups fall around them.
THEOREM Implements == Spec => ImplementsRouteTable
<1>1. Init => RInv
  BY TypeInit, GuardsInit, HeldInit, CacheInit DEF RInv
<1>2. RInv /\ [Next]_vars => RInv'
  BY TypeNext, GuardsNext, HeldNext, CacheNext DEF RInv, TypeOK
<1>3. Spec => []RInv
  BY <1>1, <1>2, PTL DEF Spec
<1>4. RInv => TypeOK
  BY DEF RInv
<1> QED BY InitRefines, NextRefines, <1>3, <1>4, PTL
     DEF Spec, ImplementsRouteTable, Table!Spec
=============================================================================
