------------------------------ MODULE CertCache ------------------------------
(***************************************************************************)
(* gen_server_config of the certificate authorities (hudsucker,            *)
(* certificate_authority): handshakes with clients ask for the server      *)
(* configuration of an authority and get the cached one or a certificate   *)
(* made for them.  Nothing is locked between the miss and the insert.      *)
(*                                                                         *)
(* Two clocks.  Certificates are dated by the time of day; moka, the cache *)
(* (external), counts the age of an entry from its insertion by a          *)
(* monotonic clock, which stands while the machine sleeps.                 *)
(*                                                                         *)
(* Definitions named X_... are slips one could make in X; no specification *)
(* uses them.                                                              *)
(***************************************************************************)
EXTENDS Naturals

CONSTANTS
  Handshakes,         \* TLS handshakes with the clients of tunnels
  Authorities,        \* host:port of the tunnels
  NONE,               \* no certificate, no entry, no time
  TTL_SECS, NOT_BEFORE_OFFSET,
  MaxAwake,           \* bound of the model: how long the proxy runs
  MaxSlept,           \* environment: how long the machine sleeps in all
  MaxStep             \* environment: how long a handshake may stand still

CACHE_TTL == TTL_SECS \div 2

ASSUME TimesAssumption ==
  /\ TTL_SECS \in Nat \ {0, 1} /\ NOT_BEFORE_OFFSET \in Nat
  /\ MaxAwake \in Nat /\ MaxSlept \in Nat /\ MaxStep \in Nat

\* The constants of the code leave this much room: what is left of a certificate
\* when its entry expires outlasts sleep and slow handshakes.
ASSUME MarginAssumption ==
  CACHE_TTL + MaxSlept + MaxStep + NOT_BEFORE_OFFSET <= TTL_SECS

VARIABLES
  now,     \* the time of day
  awake,   \* the monotonic clock
  cache,   \* per authority an entry or NONE
  pc,      \* where a handshake is
  asked,   \* the authority it is for
  cert,    \* the certificate it holds
  at,      \* history: the time of day of its last step
  stored,  \* history: the monotonic time at which it stored its certificate
  excess,  \* history: it made one although a fresh one had been stored before
  evicted  \* history: authorities moka has dropped an entry of

clocks == <<now, awake>>
vars   == <<clocks, cache, pc, asked, cert, at, stored, excess, evicted>>

\* A certificate is known by the handshake it was made for: serials are random.
Certificate == [serial : Handshakes, not_before : Nat, not_after : Nat]
Entry       == [cert : Certificate, inserted : Nat]

ASSUME NoneAssumption ==
  /\ NONE \notin Nat /\ NONE \notin Authorities
  /\ NONE \notin Certificate /\ NONE \notin Entry

-----------------------------------------------------------------------------
(* The cache                                                               *)

\* Slip: the time to live is left to the capacity.
IsCached_ForEver(a) == cache[a] # NONE

\* Cache::get answers no entry whose time to live is over.
IsCached(a) == cache[a] # NONE /\ awake < cache[a].inserted + CACHE_TTL

\* Slip: who finds an entry leaves it, as if it had only been stored meanwhile.
CacheInsert_IfAbsent(a, c) ==
  IF cache[a] # NONE THEN cache
  ELSE [cache EXCEPT ![a] = [cert |-> c, inserted |-> awake]]

CacheInsert(a, c) == [cache EXCEPT ![a] = [cert |-> c, inserted |-> awake]]

-----------------------------------------------------------------------------
(* gen_server_config                                                       *)

\* Slip: the offset is taken off the clock first, and of the date again.
NewCertificate_OffsetTwice(h) ==
  [serial     |-> h,
   not_before |-> now - NOT_BEFORE_OFFSET - NOT_BEFORE_OFFSET,
   not_after  |-> now - NOT_BEFORE_OFFSET + TTL_SECS]

\* The dates of gen_cert: backdated, for clients whose clocks are slow.
NewCertificate(h) ==
  [serial     |-> h,
   not_before |-> now - NOT_BEFORE_OFFSET,
   not_after  |-> now - NOT_BEFORE_OFFSET + TTL_SECS]

\* The certificates of an authority stored within the last time to live.
Fresh(a) ==
  {g \in Handshakes : asked[g] = a /\ stored[g] # NONE /\ awake < stored[g] + CACHE_TTL}

GetCached(h, a) ==
  /\ pc[h] = "idle"
  /\ IsCached(a)
  /\ pc' = [pc EXCEPT ![h] = "done"]
  /\ asked' = [asked EXCEPT ![h] = a]
  /\ cert' = [cert EXCEPT ![h] = cache[a].cert]
  /\ at' = [at EXCEPT ![h] = now]
  /\ UNCHANGED <<clocks, cache, stored, excess, evicted>>

Miss(h, a) ==
  /\ pc[h] = "idle"
  /\ ~ IsCached(a)
  /\ pc' = [pc EXCEPT ![h] = "generate"]
  /\ asked' = [asked EXCEPT ![h] = a]
  /\ at' = [at EXCEPT ![h] = now]
  /\ excess' = IF Fresh(a) # {} THEN excess \cup {h} ELSE excess
  /\ UNCHANGED <<clocks, cache, cert, stored, evicted>>

GenCert(h) ==
  /\ pc[h] = "generate"
  /\ pc' = [pc EXCEPT ![h] = "insert"]
  /\ cert' = [cert EXCEPT ![h] = NewCertificate(h)]
  /\ at' = [at EXCEPT ![h] = now]
  /\ UNCHANGED <<clocks, cache, asked, stored, excess, evicted>>

\* The entry replaces what a handshake that missed at the same time has stored;
\* each is answered with its own.
Insert(h) ==
  /\ pc[h] = "insert"
  /\ pc' = [pc EXCEPT ![h] = "done"]
  /\ cache' = CacheInsert(asked[h], cert[h])
  /\ at' = [at EXCEPT ![h] = now]
  /\ stored' = [stored EXCEPT ![h] = awake]
  /\ UNCHANGED <<clocks, asked, cert, excess, evicted>>

GenServerConfig(h) ==
  \/ \E a \in Authorities : GetCached(h, a) \/ Miss(h, a)
  \/ GenCert(h)
  \/ Insert(h)

-----------------------------------------------------------------------------
(* Time, and moka's own doing                                              *)

\* Nobody stands between dating a certificate and storing it for long.
Patient == \A h \in Handshakes : pc[h] = "insert" => now < at[h] + MaxStep

Tick ==
  /\ awake < MaxAwake
  /\ Patient
  /\ now' = now + 1
  /\ awake' = awake + 1
  /\ UNCHANGED <<cache, pc, asked, cert, at, stored, excess, evicted>>

Sleep ==
  /\ now < awake + NOT_BEFORE_OFFSET + MaxSlept
  /\ Patient
  /\ now' = now + 1
  /\ UNCHANGED <<awake, cache, pc, asked, cert, at, stored, excess, evicted>>

\* The policy of a cache that is full; which entry goes is moka's affair.
Evict(a) ==
  /\ cache[a] # NONE
  /\ cache' = [cache EXCEPT ![a] = NONE]
  /\ evicted' = evicted \cup {a}
  /\ UNCHANGED <<clocks, pc, asked, cert, at, stored, excess>>

-----------------------------------------------------------------------------
\* The time of day is counted from NOT_BEFORE_OFFSET before the start.
Init ==
  /\ now = NOT_BEFORE_OFFSET
  /\ awake = 0
  /\ cache = [a \in Authorities |-> NONE]
  /\ pc = [h \in Handshakes |-> "idle"]
  /\ asked = [h \in Handshakes |-> NONE]
  /\ cert = [h \in Handshakes |-> NONE]
  /\ at = [h \in Handshakes |-> 0]
  /\ stored = [h \in Handshakes |-> NONE]
  /\ excess = {}
  /\ evicted = {}

Next ==
  \/ \E h \in Handshakes : GenServerConfig(h)
  \/ Tick
  \/ Sleep
  \/ \E a \in Authorities : Evict(a)

Spec == Init /\ [][Next]_vars

-----------------------------------------------------------------------------
(* Properties                                                              *)

TypeOK ==
  /\ now \in Nat /\ awake \in Nat
  /\ cache \in [Authorities -> Entry \cup {NONE}]
  /\ pc \in [Handshakes -> {"idle", "generate", "insert", "done"}]
  /\ asked \in [Handshakes -> Authorities \cup {NONE}]
  /\ cert \in [Handshakes -> Certificate \cup {NONE}]
  /\ at \in [Handshakes -> Nat]
  /\ stored \in [Handshakes -> Nat \cup {NONE}]
  /\ excess \subseteq Handshakes
  /\ evicted \subseteq Authorities

\* Whatever certificate a handshake is answered with, made for it or out of the
\* cache, is valid at that moment, also for a client whose clock is slow by the
\* offset, although age in the cache and validity are told by different clocks.
ValidWhenAnswered ==
  \A h \in Handshakes : pc[h] = "done" =>
    /\ cert[h].not_before <= at[h] - NOT_BEFORE_OFFSET
    /\ at[h] < cert[h].not_after

\* A second certificate for an authority is made only if its maker asked before
\* the first was stored, if that has expired, or if moka has dropped an entry:
\* handshakes one after the other show a client one certificate.
SecondHasAReason ==
  \A h \in excess : asked[h] \in evicted
=============================================================================
