---------------------------- MODULE ProxyManager ----------------------------
(***************************************************************************)
(* ProxyManager (proxy_manage.rs) behind the tokio RwLock through which    *)
(* its users share it (proxy_handler.rs, examples/dynamic_rules_simple.rs).*)
(*                                                                         *)
(* A task asks for the lock, runs one operation under its guard and drops  *)
(* the guard.  &self operations hold a read guard, so several of them      *)
(* interleave; &mut self operations hold the write guard and are alone.    *)
(* find_target takes the cache mutex twice, once to look and once to       *)
(* store, with the rule lookup in between: three steps.  Every critical    *)
(* section of the cache mutex is free of awaits, hence one step.           *)
(* The default build is modelled: its statistics are no-ops.               *)
(*                                                                         *)
(* Definitions named X_... are slips one could make in X; no specification *)
(* uses them, and the runs of the project tell each from X.                *)
(***************************************************************************)
EXTENDS AddressRules, FiniteSets

CONSTANTS
  Tasks,            \* tokio tasks that use the manager
  Uris,             \* the request URIs they look up
  Rules,            \* rules [pattern, target] that may be added
  InitialPatterns,  \* pattern_rules given to from_config
  CacheSize,        \* cache_size given to from_config
  MaxPatterns       \* bound of the model on the length of pattern_rules

ASSUME CacheSizeAssumption == CacheSize \in Nat \ {0}   \* NonZeroUsize
ASSUME RulesAssumption == InitialPatterns \in Seq(Rules)
ASSUME NoneAssumption == NONE \notin Tasks /\ NONE \notin {rule.target : rule \in Rules}

VARIABLES
  exact_rules,    \* HashMap<ExactKey, Address>: a function on its keys
  pattern_rules,  \* Vec<ProxyRule>
  cache,          \* LruCache: its entries, the most recently used first
  readers,        \* tasks holding a read guard
  writer,         \* the task holding the write guard, or NONE
  queue,          \* tasks waiting for the lock, in the order they asked
  pc,             \* where each task is
  op,             \* the operation each task performs
  result,         \* what its operation has found so far
  offered         \* history: the routes each URI had since the last clearing
                  \* of the cache

rules == <<exact_rules, pattern_rules>>
lock  == <<readers, writer, queue>>
vars  == <<rules, cache, lock, pc, op, result, offered>>

Targets == {rule.target : rule \in Rules}
Routes  == Targets \cup {NONE}              \* Option<Address>

SharedOps ==                                \* the &self operations
  [kind : {"find_target", "find_target_with_match_info"}, uri : Uris]
    \cup [kind : {"clear_cache"}]
ExclusiveOps ==                             \* the &mut self operations
  [kind : {"add_rule"}, rule : Rules] \cup [kind : {"clear"}]
Ops == SharedOps \cup ExclusiveOps

NoOp == [kind |-> "none"]

-----------------------------------------------------------------------------
(* Looking a URI up in the rules                                           *)

\* The iteration of the loop over pattern_rules that returns.
FirstMatch(i, address) ==
  /\ Matches(pattern_rules[i].pattern, address)
  /\ \A j \in 1 .. i - 1 : ~ Matches(pattern_rules[j].pattern, address)

MatchingPatterns(address) ==
  {i \in DOMAIN pattern_rules : FirstMatch(i, address)}

\* The patterns of the loop written last win.
FindUncached_LastWins(address) ==
  LET hits == {i \in DOMAIN pattern_rules : Matches(pattern_rules[i].pattern, address)}
  IN  IF KeyOf(address) \in DOMAIN exact_rules THEN exact_rules[KeyOf(address)]
      ELSE IF hits = {} THEN NONE
      ELSE pattern_rules[CHOOSE i \in hits : \A j \in hits : j <= i].target

\* find_target_for_address_uncached
FindUncached(address) ==
  IF KeyOf(address) \in DOMAIN exact_rules
  THEN exact_rules[KeyOf(address)]
  ELSE IF MatchingPatterns(address) # {}
  THEN pattern_rules[CHOOSE i \in MatchingPatterns(address) : TRUE].target
  ELSE NONE

\* What the rules in force say of a URI.
Route(uri) == IF FromUri(uri) = NONE THEN NONE ELSE FindUncached(FromUri(uri))

\* The body of find_target_with_match_info: its own copy of the lookup.
FindWithMatchInfo(uri) ==
  LET address == FromUri(uri)
      hit     == pattern_rules[CHOOSE i \in MatchingPatterns(address) : TRUE]
  IN  CASE address = NONE -> NONE
        [] address # NONE /\ KeyOf(address) \in DOMAIN exact_rules ->
             [target |-> exact_rules[KeyOf(address)],
              matched_path_prefix |-> KeyOf(address).path]
        [] /\ address # NONE /\ KeyOf(address) \notin DOMAIN exact_rules
           /\ MatchingPatterns(address) # {} ->
             [target |-> hit.target, matched_path_prefix |-> PrefixOf(hit.pattern)]
        [] OTHER -> NONE

-----------------------------------------------------------------------------
(* The LRU cache (crate lru, external)                                     *)

CachedAt(uri) == {i \in DOMAIN cache : cache[i].uri = uri}
Position(uri) == CHOOSE i \in CachedAt(uri) : TRUE

\* The entries with e in front, those before position p moved back by one and
\* the one at p dropped.
Promote(e, p) ==
  [i \in 1 .. (IF p > Len(cache) THEN p ELSE Len(cache)) |->
     IF i = 1 THEN e ELSE IF i <= p THEN cache[i - 1] ELSE cache[i]]

\* LruCache::get on a hit: the entry becomes the most recently used one.
CacheTouch(uri) == Promote(cache[Position(uri)], Position(uri))

\* LruCache::put: replaces the entry of uri or, in a full cache, the least
\* recently used one.
CachePut(uri, route) ==
  Promote([uri |-> uri, route |-> route],
          IF CachedAt(uri) # {} THEN Position(uri)
          ELSE IF Len(cache) < CacheSize THEN Len(cache) + 1
          ELSE CacheSize)

-----------------------------------------------------------------------------
(* The RwLock (tokio::sync, external): guards are granted in FIFO order.   *)

\* read().await or write().await is polled for the first time.
Request(t, o) ==
  /\ pc[t] = "idle"
  /\ pc' = [pc EXCEPT ![t] = "queued"]
  /\ op' = [op EXCEPT ![t] = o]
  /\ queue' = Append(queue, t)
  /\ UNCHANGED <<rules, cache, readers, writer, result, offered>>

Admits_AmongReaders(o) == writer = NONE

\* Whether a guard of the kind that o needs goes with the ones held.
Admits(o) ==
  /\ writer = NONE
  /\ o \in ExclusiveOps => readers = {}

\* A queue that t has left.
Without(q, t) ==
  IF \A i \in DOMAIN q : q[i] # t THEN q
  ELSE LET p == CHOOSE i \in DOMAIN q : q[i] = t
       IN  [i \in 1 .. Len(q) - 1 |-> IF i < p THEN q[i] ELSE q[i + 1]]

\* Readers need not queue behind a writer.
Acquire_ReadersFirst(t) ==
  /\ pc[t] = "queued"
  /\ op[t] \in SharedOps \/ t = Head(queue)
  /\ Admits(op[t])
  /\ queue' = Without(queue, t)
  /\ IF op[t] \in ExclusiveOps
     THEN writer' = t /\ UNCHANGED readers
     ELSE readers' = readers \cup {t} /\ UNCHANGED writer
  /\ pc' = [pc EXCEPT ![t] = "start"]
  /\ UNCHANGED <<rules, cache, op, result, offered>>

\* The head of the queue is admitted.
Acquire(t) ==
  /\ pc[t] = "queued" /\ queue # <<>> /\ t = Head(queue)
  /\ Admits(op[t])
  /\ queue' = Tail(queue)
  /\ IF op[t] \in ExclusiveOps
     THEN writer' = t /\ UNCHANGED readers
     ELSE readers' = readers \cup {t} /\ UNCHANGED writer
  /\ pc' = [pc EXCEPT ![t] = "start"]
  /\ UNCHANGED <<rules, cache, op, result, offered>>

DropGuard_Readers(t) ==
  /\ readers' = readers \ {t}
  /\ UNCHANGED writer

\* Dropping whatever guard t holds.
DropGuard(t) ==
  /\ readers' = readers \ {t}
  /\ writer' = IF writer = t THEN NONE ELSE writer

\* The guard goes out of scope at the end of the operation's caller.
Release(t) ==
  /\ pc[t] = "done"
  /\ DropGuard(t)
  /\ pc' = [pc EXCEPT ![t] = "idle"]
  /\ op' = [op EXCEPT ![t] = NoOp]
  /\ result' = [result EXCEPT ![t] = NONE]
  /\ UNCHANGED <<rules, cache, queue, offered>>

\* The future is dropped at an await: hyper drops a request's future when its
\* connection dies.  The awaits are the lock itself and, under a read guard,
\* the cache mutex; under the write guard nobody else can hold that mutex (the
\* yield tokio may force there is left out: no caller drops such a future).
Abandon(t) ==
  /\ \/ pc[t] \in {"queued", "looked"}
     \/ pc[t] = "start" /\ op[t].kind \in {"find_target", "clear_cache"}
  /\ queue' = Without(queue, t)
  /\ DropGuard(t)
  /\ pc' = [pc EXCEPT ![t] = "idle"]
  /\ op' = [op EXCEPT ![t] = NoOp]
  /\ result' = [result EXCEPT ![t] = NONE]
  /\ UNCHANGED <<rules, cache, offered>>

-----------------------------------------------------------------------------
(* Operations: what a task does under its guard                            *)

At(t, kind, place) == pc[t] = place /\ op[t].kind = kind

\* One step of t's operation, on to place with r found so far.
Step(t, place, r) ==
  /\ pc' = [pc EXCEPT ![t] = place]
  /\ result' = [result EXCEPT ![t] = r]
  /\ UNCHANGED <<lock, op>>

\* find_target, first critical section.
LookInCache(t) ==
  /\ At(t, "find_target", "start")
  /\ LET uri == op[t].uri IN
       \/ /\ CachedAt(uri) # {}
          /\ cache' = CacheTouch(uri)
          /\ Step(t, "done", cache[Position(uri)].route)
       \/ /\ CachedAt(uri) = {}
          /\ Step(t, "missed", NONE)
          /\ UNCHANGED cache
  /\ UNCHANGED <<rules, offered>>

\* The guard ends with the lookup instead of with the function.
LookInRules_ThenUnlock(t) ==
  /\ At(t, "find_target", "missed")
  /\ FromUri(op[t].uri) # NONE
  /\ pc' = [pc EXCEPT ![t] = "looked"]
  /\ result' = [result EXCEPT ![t] = FindUncached(FromUri(op[t].uri))]
  /\ DropGuard(t)
  /\ UNCHANGED <<rules, cache, queue, op, offered>>

\* find_target, parsing and lookup: the early return for a URI that is not an
\* address stores nothing.
LookInRules(t) ==
  /\ At(t, "find_target", "missed")
  /\ LET address == FromUri(op[t].uri) IN
       \/ address = NONE /\ Step(t, "done", NONE)
       \/ address # NONE /\ Step(t, "looked", FindUncached(address))
  /\ UNCHANGED <<rules, cache, offered>>

\* find_target, second critical section.
StoreInCache(t) ==
  /\ At(t, "find_target", "looked")
  /\ cache' = CachePut(op[t].uri, result[t])
  /\ Step(t, "done", result[t])
  /\ UNCHANGED <<rules, offered>>

\* It asks the cache first, like find_target.
MatchInfo_FromCache(t) ==
  /\ At(t, "find_target_with_match_info", "start")
  /\ LET uri   == op[t].uri
         found == cache[Position(uri)].route
     IN  Step(t, "done",
              IF CachedAt(uri) = {} THEN FindWithMatchInfo(uri)
              ELSE IF found = NONE THEN NONE
              ELSE [target |-> found, matched_path_prefix |-> uri.path])
  /\ UNCHANGED <<rules, cache, offered>>

\* find_target_with_match_info: no await, no cache.
MatchInfo(t) ==
  /\ At(t, "find_target_with_match_info", "start")
  /\ Step(t, "done", FindWithMatchInfo(op[t].uri))
  /\ UNCHANGED <<rules, cache, offered>>

\* The cache has just been cleared: only the rules now in force count.
OfferAfresh == offered' = [uri \in Uris |-> {Route(uri)'}]
OfferMore   == offered' = [uri \in Uris |-> offered[uri] \cup {Route(uri)'}]

\* HashMap::insert
Insert(map, key, value) ==
  [k \in DOMAIN map \cup {key} |-> IF k = key THEN value ELSE map[k]]

\* add_rule, a rule for the index: returns before the cache is cleared.
AddExactRule(t) ==
  /\ At(t, "add_rule", "start") /\ IsExact(op[t].rule.pattern)
  /\ exact_rules' =
       Insert(exact_rules, PatternKey(op[t].rule.pattern), op[t].rule.target)
  /\ UNCHANGED <<pattern_rules, cache>>
  /\ OfferMore
  /\ Step(t, "done", NONE)

AddPatternRule_KeepsCache(t) ==
  /\ At(t, "add_rule", "start") /\ ~ IsExact(op[t].rule.pattern)
  /\ pattern_rules' = Append(pattern_rules, op[t].rule)
  /\ UNCHANGED <<exact_rules, cache>>
  /\ OfferAfresh
  /\ Step(t, "done", NONE)

\* add_rule, any other rule.
AddPatternRule(t) ==
  /\ At(t, "add_rule", "start") /\ ~ IsExact(op[t].rule.pattern)
  /\ pattern_rules' = Append(pattern_rules, op[t].rule)
  /\ cache' = <<>>
  /\ UNCHANGED exact_rules
  /\ OfferAfresh
  /\ Step(t, "done", NONE)

\* clear
Clear(t) ==
  /\ At(t, "clear", "start")
  /\ exact_rules' = <<>> /\ pattern_rules' = <<>> /\ cache' = <<>>
  /\ OfferAfresh
  /\ Step(t, "done", NONE)

\* clear_cache
ClearCache(t) ==
  /\ At(t, "clear_cache", "start")
  /\ cache' = <<>>
  /\ UNCHANGED rules
  /\ OfferAfresh
  /\ Step(t, "done", NONE)

-----------------------------------------------------------------------------
Init ==
  /\ exact_rules = <<>> /\ pattern_rules = InitialPatterns /\ cache = <<>>
  /\ readers = {} /\ writer = NONE /\ queue = <<>>
  /\ pc = [t \in Tasks |-> "idle"]
  /\ op = [t \in Tasks |-> NoOp]
  /\ result = [t \in Tasks |-> NONE]
  /\ offered = [uri \in Uris |-> {Route(uri)}]

\* Bound of the model: add_rule is called only while its rule would fit.
Fits(o) ==
  o.kind = "add_rule" =>
    Len(pattern_rules) + Cardinality({t \in Tasks : op[t].kind = "add_rule"})
      < MaxPatterns

Operate(t) ==
  \/ LookInCache(t) \/ LookInRules(t) \/ StoreInCache(t) \/ MatchInfo(t)
  \/ AddExactRule(t) \/ AddPatternRule(t) \/ Clear(t) \/ ClearCache(t)

Next ==
  \E t \in Tasks :
    \/ \E o \in Ops : Fits(o) /\ Request(t, o)
    \/ Acquire(t) \/ Operate(t) \/ Release(t) \/ Abandon(t)

Spec == Init /\ [][Next]_vars

\* The runtime polls woken tasks and the lock wakes the head of its queue: a
\* task that can go on does.  Nobody is obliged to ask for anything, nor to
\* give up.
Fairness == \A t \in Tasks : WF_vars(Acquire(t)) /\ WF_vars(Operate(t)) /\ WF_vars(Release(t))

FairSpec == Spec /\ Fairness

-----------------------------------------------------------------------------
(* Properties                                                              *)

\* A listed rule carries the default port instead of none.
KeyPattern_DefaultPort(key) ==
  [protocol |-> key.protocol,
   port |-> IF key.port # NONE THEN key.port ELSE IF key.protocol = "http" THEN 80 ELSE 443,
   host |-> [kind |-> "exact", text |-> key.host],
   path |-> IF key.path = NONE THEN NONE ELSE [kind |-> "exact", text |-> key.path]]

\* What all_rules returns, as a set: the order of a HashMap is arbitrary.
KeyPattern(key) ==
  [protocol |-> key.protocol, port |-> key.port,
   host |-> [kind |-> "exact", text |-> key.host],
   path |-> IF key.path = NONE THEN NONE ELSE [kind |-> "exact", text |-> key.path]]

AllRules ==
  {[pattern |-> KeyPattern(k), target |-> exact_rules[k]] : k \in DOMAIN exact_rules}
    \cup {pattern_rules[i] : i \in DOMAIN pattern_rules}

ExactKeys ==
  {[protocol |-> r.pattern.protocol, host |-> r.pattern.host.text,
    port |-> NormalizePort(r.pattern.protocol, r.pattern.port),
    path |-> IF r.pattern.path = NONE THEN NONE ELSE r.pattern.path.text] :
     r \in {x \in Rules : IsExact(x.pattern)}}
Entries   == [uri : Uris, route : Routes]
MatchResults == [target : Targets, matched_path_prefix :
                   {PrefixOf(r.pattern) : r \in Rules}
                     \cup {k.path : k \in ExactKeys}]
\* An Option<MatchResult> is None or one of these, not both.
ASSUME MatchResultsAssumption == NONE \notin MatchResults

Places == {"idle", "queued", "start", "missed", "looked", "done"}

\* The keys of the index are those of exact rules, default ports removed.
RulesOK ==
  /\ DOMAIN exact_rules \subseteq ExactKeys
  /\ \A k \in DOMAIN exact_rules : exact_rules[k] \in Targets
  /\ pattern_rules \in Seq(Rules)

\* A task carries what its operation found: a route or, at the end of
\* find_target_with_match_info, a MatchResult.
TasksOK ==
  /\ readers \subseteq Tasks
  /\ writer \in Tasks \cup {NONE}
  /\ queue \in Seq(Tasks)
  /\ pc \in [Tasks -> Places]
  /\ op \in [Tasks -> Ops \cup {NoOp}]
  /\ result \in [Tasks -> Routes \cup MatchResults]
  /\ \A t \in Tasks :
       ~ At(t, "find_target_with_match_info", "done") => result[t] \in Routes

\* The types of all variables: in particular, add_rule never stores a key with
\* an explicit default port, which no lookup would ever ask for.
TypeOK ==
  /\ RulesOK
  /\ TasksOK
  /\ cache \in Seq(Entries)
  /\ offered \in [Uris -> SUBSET Routes]

\* The lock is held by readers or by one writer, and by exactly the tasks that
\* are inside an operation of the kind; in the queue are exactly the tasks that
\* wait, once each.  An operation that ends or is abandoned leaves no guard and
\* no place in the queue behind.
Inside(t) == pc[t] \notin {"idle", "queued"}

GuardsMatchTasks ==
  /\ writer # NONE => readers = {}
  /\ \A t \in Tasks :
       /\ t \in readers <=> Inside(t) /\ op[t] \notin ExclusiveOps
       /\ t = writer <=> Inside(t) /\ op[t] \in ExclusiveOps
       /\ pc[t] \in {"missed", "looked"} => op[t].kind = "find_target"

QueueMatchesTasks ==
  /\ \A t \in Tasks : (\E i \in DOMAIN queue : queue[i] = t) <=> pc[t] = "queued"
  /\ \A i, j \in DOMAIN queue : queue[i] = queue[j] => i = j

LockDiscipline == GuardsMatchTasks /\ QueueMatchesTasks

\* The routes find_target may serve from its cache differ from the rules in
\* force only for a URI whose key is in the index, because add_rule clears the
\* cache for every other rule (and clear() for all).
StaleOnlyBehindExactRule ==
  \A i \in DOMAIN cache :
    \/ cache[i].route = Route(cache[i].uri)
    \/ KeyOf(FromUri(cache[i].uri)) \in DOMAIN exact_rules

\* What is in the cache was the URI's route at some moment after the cache was
\* last cleared: a lookup that began before clear(), clear_cache() or
\* add_rule() of a pattern never stores what it found under the old rules.
NothingFromBeforeTheClear ==
  \A i \in DOMAIN cache : cache[i].route \in offered[cache[i].uri]

\* What a lookup found stays what the rules in force say for as long as it is
\* held: until find_target stores it, and while a request handler uses the
\* target find_target_with_match_info gave it (rewrite_request_uri holds the
\* guard to its end).
Current(t) ==
  /\ At(t, "find_target", "looked") => result[t] = Route(op[t].uri)
  /\ At(t, "find_target_with_match_info", "done") =>
       result[t] = FindWithMatchInfo(op[t].uri)

HeldResultsAreCurrent == \A t \in Tasks : Current(t)

\* The two lookups, which the code writes out twice, agree.
LookupsAgree ==
  \A uri \in Uris :
    LET info == FindWithMatchInfo(uri)
    IN  Route(uri) = IF info = NONE THEN NONE ELSE info.target

\* Whatever a lookup answers is the target of a rule that all_rules lists and
\* whose pattern accepts the address: the index, with its ports normalised,
\* never answers for an address its rule is not about.
EveryRouteHasARule ==
  \A uri \in Uris :
    Route(uri) # NONE =>
      \E r \in AllRules : r.target = Route(uri) /\ Matches(r.pattern, FromUri(uri))

\* Whoever asks for the lock gets it, runs its operation and drops its guard
\* (or gives up), readers and writers alike: no stream of lookups starves
\* add_rule, and no abandoned task keeps the others out.
RequestsEnd == \A t \in Tasks : pc[t] = "queued" ~> pc[t] = "idle"

\* The promise of RouteTable.  Only find_target may answer from the cache.
AnswerOf(t) ==
  CASE At(t, "find_target", "done") ->
         [uri |-> op[t].uri, route |-> result[t], fresh |-> FALSE]
    [] At(t, "find_target_with_match_info", "done") ->
         [uri |-> op[t].uri,
          route |-> IF result[t] = NONE THEN NONE ELSE result[t].target,
          fresh |-> TRUE]
    [] OTHER -> NONE

Table == INSTANCE RouteTable
           WITH NoAnswer <- NONE,
                route    <- [uri \in Uris |-> Route(uri)],
                answer   <- [t \in Tasks |-> AnswerOf(t)]

\* The manager with its index, cache and lock implements the table of routes:
\* find_target_with_match_info is answered by the rules in force although the
\* cache is behind them, find_target by a route of since the last clearing, and
\* no rule changes while an answer is in use.
ImplementsRouteTable == Table!Spec

-----------------------------------------------------------------------------
(* Claims of the repository that the code does not keep                    *)

\* proxy_manage_test.rs:354 and the comment at proxy_manage.rs:239: adding a
\* rule invalidates the cache, so that what is cached agrees with the rules.
CacheFollowsRules ==
  \A i \in DOMAIN cache : cache[i].route = Route(cache[i].uri)

\* http_address.rs:331 and http_address_test.rs:138: a rule without a path
\* does not constrain the path and one without a port accepts any port, so an
\* address that some rule in force matches has a route.
MatchedMeansRouted ==
  \A uri \in Uris :
    (FromUri(uri) # NONE /\ \E r \in AllRules : Matches(r.pattern, FromUri(uri)))
      => Route(uri) # NONE
=============================================================================
