----------------------------- MODULE RouteTable -----------------------------
(***************************************************************************)
(* What ProxyManager promises its users, without index, cache or lock: a   *)
(* table of routes that is replaced from time to time, and tasks that ask  *)
(* it and use the answer for a while.                                      *)
(*   - A fresh lookup (one with match info) is answered by the table in    *)
(*     force.                                                              *)
(*   - A cached lookup is answered by a route the URI had since the last   *)
(*     reset, not necessarily the current one.                             *)
(*   - The table does not change while anybody uses an answer.             *)
(***************************************************************************)
CONSTANTS Tasks, Uris, Routes,
          NoAnswer   \* a task that uses no answer

VARIABLES
  route,     \* the table in force
  offered,   \* per URI, the routes it had since the last reset
  answer     \* per task, the answer it uses, and of which kind of lookup

vars == <<route, offered, answer>>

Answers == [uri : Uris, route : Routes, fresh : BOOLEAN]

TypeOK ==
  /\ route \in [Uris -> Routes]
  /\ offered \in [Uris -> SUBSET Routes]
  /\ answer \in [Tasks -> Answers \cup {NoAnswer}]

Init ==
  /\ route \in [Uris -> Routes]
  /\ offered = [u \in Uris |-> {route[u]}]
  /\ answer = [t \in Tasks |-> NoAnswer]

Answer(t, u, r, fresh) ==
  /\ answer[t] = NoAnswer
  /\ answer' = [answer EXCEPT ![t] = [uri |-> u, route |-> r, fresh |-> fresh]]
  /\ UNCHANGED <<route, offered>>

CachedLookup(t) == \E u \in Uris : \E r \in offered[u] : Answer(t, u, r, FALSE)

FreshLookup(t) == \E u \in Uris : Answer(t, u, route[u], TRUE)

Done(t) ==
  /\ answer[t] # NoAnswer
  /\ answer' = [answer EXCEPT ![t] = NoAnswer]
  /\ UNCHANGED <<route, offered>>

Unused == \A t \in Tasks : answer[t] = NoAnswer

\* The table is replaced and older routes may still be given.
Extend ==
  /\ Unused
  /\ route' \in [Uris -> Routes]
  /\ offered' = [u \in Uris |-> offered[u] \cup {route'[u]}]
  /\ UNCHANGED answer

\* The table is replaced and older routes are forgotten.
Replace ==
  /\ Unused
  /\ route' \in [Uris -> Routes]
  /\ offered' = [u \in Uris |-> {route'[u]}]
  /\ UNCHANGED answer

\* Older routes are forgotten; answers already in use stay in use.
Reset ==
  /\ offered' = [u \in Uris |-> {route[u]}]
  /\ UNCHANGED <<route, answer>>

Next ==
  \/ \E t \in Tasks : CachedLookup(t) \/ FreshLookup(t) \/ Done(t)
  \/ Extend \/ Replace \/ Reset

Spec == Init /\ [][Next]_vars
=============================================================================
