--------------------------- MODULE CertCacheProofs ---------------------------
(***************************************************************************)
(* Theorems about CertCache, for every set of handshakes and authorities   *)
(* and all constants within the margin.                                    *)
(***************************************************************************)
EXTENDS CertCache, TLAPS

-----------------------------------------------------------------------------
(* The inductive invariant                                                 *)

\* The machine sleeps as long as the environment lets it, and no longer.
ClocksAgree ==
  /\ awake + NOT_BEFORE_OFFSET <= now
  /\ now <= awake + NOT_BEFORE_OFFSET + MaxSlept

\* A certificate in the making was dated at the last step, which is not long ago.
JustDated ==
  \A h \in Handshakes : pc[h] = "insert" =>
    /\ cert[h] \in Certificate /\ asked[h] \in Authorities
    /\ at[h] <= now /\ now <= at[h] + MaxStep
    /\ NOT_BEFORE_OFFSET <= at[h]
    /\ cert[h].not_before = at[h] - NOT_BEFORE_OFFSET
    /\ cert[h].not_after = at[h] - NOT_BEFORE_OFFSET + TTL_SECS

\* By the monotonic clock, which an entry's age is told by: it was dated no later
\* than now, and is good for its time to live and the sleep meanwhile.
EntriesAreGood ==
  \A a \in Authorities : cache[a] # NONE =>
    /\ cache[a].inserted <= awake
    /\ cache[a].cert.not_before + NOT_BEFORE_OFFSET <= now
    /\ cache[a].inserted + TTL_SECS <= cache[a].cert.not_after + MaxStep

\* Unless one was dropped, an authority's entry is as young as any stored for it.
EntriesAreYoungest ==
  \A g \in Handshakes : stored[g] # NONE =>
    /\ asked[g] \in Authorities
    /\ pc[g] = "done"
    /\ asked[g] \notin evicted =>
         /\ cache[asked[g]] # NONE
         /\ stored[g] <= cache[asked[g]].inserted

AskedWhileBusy ==
  \A h \in Handshakes : pc[h] # "idle" => asked[h] \in Authorities

Reasons ==
  \A h \in excess : asked[h] \in evicted /\ pc[h] # "idle"

IInv == /\ TypeOK /\ ClocksAgree /\ JustDated /\ EntriesAreGood
        /\ EntriesAreYoungest /\ AskedWhileBusy /\ Reasons /\ ValidWhenAnswered

LEMMA HalfTime == CACHE_TTL \in Nat \ {0} /\ TTL_SECS \in Nat /\ NOT_BEFORE_OFFSET \in Nat
BY TimesAssumption, SMT DEF CACHE_TTL

LEMMA Beginning == Init => IInv
<1> SUFFICES ASSUME Init PROVE IInv
  OBVIOUS
<1>1. TypeOK
  BY TimesAssumption DEF Init, TypeOK
<1>2. ClocksAgree
  BY TimesAssumption DEF Init, ClocksAgree
<1>3. JustDated /\ EntriesAreGood /\ EntriesAreYoungest
  BY DEF Init, JustDated, EntriesAreGood, EntriesAreYoungest
<1>4. AskedWhileBusy /\ Reasons /\ ValidWhenAnswered
  BY DEF Init, AskedWhileBusy, Reasons, ValidWhenAnswered
<1> QED BY <1>1, <1>2, <1>3, <1>4 DEF IInv

-----------------------------------------------------------------------------
(* One lemma per action                                                    *)

\* An entry that is handed out is young enough for its certificate.
LEMMA CachedIsValid ==
  ASSUME IInv, NEW a \in Authorities, IsCached(a)
  PROVE  /\ cache[a].cert \in Certificate
         /\ cache[a].cert.not_before <= now - NOT_BEFORE_OFFSET
         /\ now < cache[a].cert.not_after
<1>1. cache[a] \in Entry /\ now \in Nat /\ awake \in Nat
  BY DEF IInv, TypeOK, IsCached
<1>2. /\ cache[a].cert \in Certificate /\ cache[a].inserted \in Nat
      /\ cache[a].cert.not_before \in Nat /\ cache[a].cert.not_after \in Nat
  BY <1>1 DEF Entry, Certificate
<1>3. /\ cache[a].cert.not_before + NOT_BEFORE_OFFSET <= now
      /\ cache[a].inserted + TTL_SECS <= cache[a].cert.not_after + MaxStep
      /\ awake < cache[a].inserted + CACHE_TTL
      /\ awake + NOT_BEFORE_OFFSET <= now
      /\ now <= awake + NOT_BEFORE_OFFSET + MaxSlept
  BY DEF IInv, EntriesAreGood, IsCached, ClocksAgree
<1> QED BY <1>1, <1>2, <1>3, HalfTime, TimesAssumption, MarginAssumption

LEMMA GetCachedKeeps ==
  ASSUME IInv, NEW h \in Handshakes, NEW a \in Authorities, GetCached(h, a)
  PROVE  IInv'
<1> USE DEF IInv, GetCached, clocks
<1>1. /\ cache[a].cert \in Certificate
      /\ cache[a].cert.not_before <= now - NOT_BEFORE_OFFSET
      /\ now < cache[a].cert.not_after
  BY CachedIsValid
<1>2. stored[h] = NONE
  BY DEF EntriesAreYoungest
<1>3. TypeOK'
  BY <1>1 DEF TypeOK
<1>4. ClocksAgree' /\ EntriesAreGood'
  BY DEF ClocksAgree, EntriesAreGood
<1>5. JustDated'
  BY DEF JustDated, TypeOK
<1>6. EntriesAreYoungest'
  BY <1>2 DEF EntriesAreYoungest, TypeOK
<1>7. AskedWhileBusy' /\ Reasons'
  BY DEF AskedWhileBusy, Reasons, TypeOK
<1>8. ValidWhenAnswered'
  BY <1>1 DEF ValidWhenAnswered, TypeOK
<1> QED BY <1>3, <1>4, <1>5, <1>6, <1>7, <1>8

LEMMA MissKeeps ==
  ASSUME IInv, NEW h \in Handshakes, NEW a \in Authorities, Miss(h, a)
  PROVE  IInv'
<1> USE DEF IInv, Miss, clocks
<1>1. stored[h] = NONE /\ h \notin excess
  BY DEF EntriesAreYoungest, Reasons
<1>2. Fresh(a) # {} => a \in evicted
  <2> SUFFICES ASSUME NEW g \in Fresh(a), a \notin evicted PROVE FALSE
    OBVIOUS
  <2>1. /\ g \in Handshakes /\ asked[g] = a /\ stored[g] # NONE
        /\ awake < stored[g] + CACHE_TTL
    BY DEF Fresh
  <2>2. cache[a] # NONE /\ stored[g] <= cache[a].inserted
    BY <2>1 DEF EntriesAreYoungest
  <2>3. /\ awake \in Nat /\ stored[g] \in Nat /\ cache[a].inserted \in Nat
        /\ cache[a] \in Entry
    BY <2>1, <2>2 DEF TypeOK, Entry
  <2> QED BY <2>1, <2>2, <2>3, HalfTime DEF IsCached
<1>3. TypeOK'
  BY DEF TypeOK
<1>4. ClocksAgree' /\ EntriesAreGood'
  BY DEF ClocksAgree, EntriesAreGood
<1>5. JustDated'
  BY DEF JustDated, TypeOK
<1>6. EntriesAreYoungest'
  BY <1>1 DEF EntriesAreYoungest, TypeOK
<1>7. AskedWhileBusy' /\ Reasons'
  BY <1>1, <1>2 DEF AskedWhileBusy, Reasons, TypeOK
<1>8. ValidWhenAnswered'
  BY DEF ValidWhenAnswered, TypeOK
<1> QED BY <1>3, <1>4, <1>5, <1>6, <1>7, <1>8

LEMMA GenCertKeeps ==
  ASSUME IInv, NEW h \in Handshakes, GenCert(h)
  PROVE  IInv'
<1> USE DEF IInv, GenCert, clocks
<1>1. now \in Nat /\ NOT_BEFORE_OFFSET <= now
  BY HalfTime DEF TypeOK, ClocksAgree
<1>2. NewCertificate(h) \in Certificate
  BY <1>1, HalfTime DEF NewCertificate, Certificate
<1>3. stored[h] = NONE /\ asked[h] \in Authorities
  BY DEF EntriesAreYoungest, AskedWhileBusy
<1>4. TypeOK'
  BY <1>2 DEF TypeOK
<1>5. ClocksAgree' /\ EntriesAreGood'
  BY DEF ClocksAgree, EntriesAreGood
<1>6. JustDated'
  BY <1>1, <1>2, <1>3, TimesAssumption DEF JustDated, NewCertificate, TypeOK
<1>7. EntriesAreYoungest'
  BY <1>3 DEF EntriesAreYoungest, TypeOK
<1>8. AskedWhileBusy' /\ Reasons'
  BY DEF AskedWhileBusy, Reasons, TypeOK
<1>9. ValidWhenAnswered'
  BY DEF ValidWhenAnswered, TypeOK
<1> QED BY <1>4, <1>5, <1>6, <1>7, <1>8, <1>9

LEMMA InsertKeeps ==
  ASSUME IInv, NEW h \in Handshakes, Insert(h)
  PROVE  IInv'
<1> USE DEF IInv, Insert, clocks
<1> DEFINE a == asked[h]
           e == [cert |-> cert[h], inserted |-> awake]
<1>1. /\ cert[h] \in Certificate /\ a \in Authorities
      /\ at[h] <= now /\ now <= at[h] + MaxStep /\ NOT_BEFORE_OFFSET <= at[h]
      /\ cert[h].not_before = at[h] - NOT_BEFORE_OFFSET
      /\ cert[h].not_after = at[h] - NOT_BEFORE_OFFSET + TTL_SECS
  BY DEF JustDated
<1>2. now \in Nat /\ awake \in Nat /\ at[h] \in Nat
  BY DEF TypeOK
<1>3. e \in Entry /\ e # NONE
  BY <1>1, <1>2, NoneAssumption DEF Entry
<1>4. cache' = [cache EXCEPT ![a] = e]
  BY DEF CacheInsert
<1>5. cache'[a] = e
  BY <1>1, <1>4 DEF TypeOK
<1>6. TypeOK'
  BY <1>2, <1>3, <1>4 DEF TypeOK
<1>7. ClocksAgree'
  BY DEF ClocksAgree
<1>8. JustDated'
  BY DEF JustDated, TypeOK
<1>9. EntriesAreGood'
  <2> SUFFICES ASSUME NEW b \in Authorities, cache'[b] # NONE
               PROVE  /\ cache'[b].inserted <= awake
                      /\ cache'[b].cert.not_before + NOT_BEFORE_OFFSET <= now
                      /\ cache'[b].inserted + TTL_SECS <= cache'[b].cert.not_after + MaxStep
    BY DEF EntriesAreGood
  <2>1. CASE b = a
    <3>1. cache'[b].inserted = awake /\ cache'[b].cert = cert[h]
      BY <1>5, <2>1
    <3>2. awake + NOT_BEFORE_OFFSET <= now
      BY DEF ClocksAgree
    <3> QED BY <1>1, <1>2, <3>1, <3>2, HalfTime, TimesAssumption
  <2>2. CASE b # a
    BY <1>4, <2>2 DEF EntriesAreGood, TypeOK
  <2> QED BY <2>1, <2>2
<1>10. EntriesAreYoungest'
  <2> SUFFICES ASSUME NEW g \in Handshakes, stored'[g] # NONE
               PROVE  /\ asked[g] \in Authorities
                      /\ pc'[g] = "done"
                      /\ asked[g] \notin evicted =>
                           /\ cache'[asked[g]] # NONE
                           /\ stored'[g] <= cache'[asked[g]].inserted
    BY DEF EntriesAreYoungest
  <2>1. CASE g = h
    BY <1>1, <1>2, <1>3, <1>5, <2>1 DEF TypeOK
  <2>2. CASE g # h
    <3>1. stored'[g] = stored[g] /\ pc'[g] = pc[g] /\ stored[g] # NONE
      BY <2>2 DEF TypeOK
    <3>2. /\ asked[g] \in Authorities /\ pc[g] = "done"
          /\ asked[g] \notin evicted =>
               /\ cache[asked[g]] # NONE
               /\ stored[g] <= cache[asked[g]].inserted
      BY <3>1 DEF EntriesAreYoungest
    <3>3. CASE asked[g] = a
      <4>1. asked[g] \notin evicted => stored[g] <= awake
        <5>1. cache[a] # NONE => cache[a].inserted <= awake /\ cache[a] \in Entry
          BY <1>1 DEF EntriesAreGood, TypeOK
        <5> QED BY <1>2, <3>1, <3>2, <3>3, <5>1 DEF TypeOK, Entry
      <4> QED BY <1>3, <1>5, <3>1, <3>2, <3>3, <4>1
    <3>4. CASE asked[g] # a
      BY <1>4, <3>1, <3>2, <3>4 DEF TypeOK
    <3> QED BY <3>3, <3>4
  <2> QED BY <2>1, <2>2
<1>11. AskedWhileBusy' /\ Reasons'
  BY <1>1 DEF AskedWhileBusy, Reasons, TypeOK
<1>12. ValidWhenAnswered'
  <2>1. /\ cert[h].not_before <= now - NOT_BEFORE_OFFSET
        /\ now < cert[h].not_after
    BY <1>1, <1>2, HalfTime, TimesAssumption, MarginAssumption
  <2> QED BY <2>1 DEF ValidWhenAnswered, TypeOK
<1> QED BY <1>6, <1>7, <1>8, <1>9, <1>10, <1>11, <1>12

\* What both kinds of passing time have in common.
LEMMA TimeKeeps ==
  ASSUME IInv, Tick \/ Sleep
  PROVE  IInv'
<1> USE DEF IInv
<1>1. now \in Nat /\ awake \in Nat /\ now' = now + 1 /\ (awake' = awake \/ awake' = awake + 1)
  BY DEF TypeOK, Tick, Sleep
<1>2. UNCHANGED <<cache, pc, asked, cert, at, stored, excess, evicted>> /\ Patient
  BY DEF Tick, Sleep
<1>3. TypeOK'
  BY <1>1, <1>2 DEF TypeOK
<1>4. ClocksAgree'
  BY HalfTime, TimesAssumption DEF ClocksAgree, TypeOK, Tick, Sleep
<1>5. JustDated'
  <2> SUFFICES ASSUME NEW h \in Handshakes, pc[h] = "insert"
               PROVE  at[h] <= now + 1 /\ now + 1 <= at[h] + MaxStep
    BY <1>1, <1>2 DEF JustDated
  <2>1. at[h] <= now /\ now < at[h] + MaxStep /\ at[h] \in Nat
    BY <1>2 DEF JustDated, Patient, TypeOK
  <2> QED BY <1>1, <2>1, TimesAssumption
<1>6. EntriesAreGood'
  <2> SUFFICES ASSUME NEW a \in Authorities, cache[a] # NONE
               PROVE  /\ cache[a].inserted <= awake'
                      /\ cache[a].cert.not_before + NOT_BEFORE_OFFSET <= now + 1
                      /\ cache[a].inserted + TTL_SECS <= cache[a].cert.not_after + MaxStep
    BY <1>1, <1>2 DEF EntriesAreGood
  <2>1. cache[a].inserted \in Nat /\ cache[a].cert.not_before \in Nat
    BY DEF TypeOK, Entry, Certificate
  <2>2. /\ cache[a].inserted <= awake
        /\ cache[a].cert.not_before + NOT_BEFORE_OFFSET <= now
        /\ cache[a].inserted + TTL_SECS <= cache[a].cert.not_after + MaxStep
    BY DEF EntriesAreGood
  <2> QED BY <1>1, <2>1, <2>2, HalfTime
<1>7. EntriesAreYoungest' /\ AskedWhileBusy'
  BY <1>2 DEF EntriesAreYoungest, AskedWhileBusy
<1>8. Reasons' /\ ValidWhenAnswered'
  BY <1>2 DEF Reasons, ValidWhenAnswered
<1> QED BY <1>3, <1>4, <1>5, <1>6, <1>7, <1>8

LEMMA EvictKeeps ==
  ASSUME IInv, NEW a \in Authorities, Evict(a)
  PROVE  IInv'
<1> USE DEF IInv, Evict, clocks
<1>1. TypeOK'
  BY DEF TypeOK
<1>2. ClocksAgree' /\ JustDated'
  BY DEF ClocksAgree, JustDated
<1>3. EntriesAreGood'
  BY DEF EntriesAreGood, TypeOK
<1>4. EntriesAreYoungest'
  BY DEF EntriesAreYoungest, TypeOK
<1>5. AskedWhileBusy' /\ Reasons' /\ ValidWhenAnswered'
  BY DEF AskedWhileBusy, Reasons, ValidWhenAnswered
<1> QED BY <1>1, <1>2, <1>3, <1>4, <1>5

-----------------------------------------------------------------------------
(* The theorems                                                            *)

\* Nothing gen_server_config, time or moka does disturbs the invariant.
LEMMA Always == Spec => []IInv
<1>1. IInv /\ [Next]_vars => IInv'
  <2> SUFFICES ASSUME IInv, [Next]_vars PROVE IInv'
    OBVIOUS
  <2>1. CASE \E h \in Handshakes : GenServerConfig(h)
    BY <2>1, GetCachedKeeps, MissKeeps, GenCertKeeps, InsertKeeps DEF GenServerConfig
  <2>2. CASE Tick \/ Sleep
    BY <2>2, TimeKeeps
  <2>3. CASE \E a \in Authorities : Evict(a)
    BY <2>3, EvictKeeps
  <2>4. CASE UNCHANGED vars
    BY <2>4 DEF vars, clocks, IInv, TypeOK, ClocksAgree, JustDated, EntriesAreGood,
                EntriesAreYoungest, AskedWhileBusy, Reasons, ValidWhenAnswered
  <2> QED BY <2>1, <2>2, <2>3, <2>4 DEF Next
<1> QED BY <1>1, Beginning, PTL DEF Spec

\* gen_server_config keeps the types of its variables for every number of
\* handshakes and authorities.
THEOREM TypeCorrect == Spec => []TypeOK
BY Always, PTL DEF IInv

\* Whatever gen_server_config answers with is valid at that moment, as long as the
\* sleep of the machine and slow handshakes stay within what the constants leave.
THEOREM AnswersAreValid == Spec => []ValidWhenAnswered
BY Always, PTL DEF IInv

\* Handshakes one after the other get one certificate for an authority until it
\* expires in the cache or moka drops it.
THEOREM SecondsHaveReasons == Spec => []SecondHasAReason
<1>1. IInv => SecondHasAReason
  BY DEF IInv, Reasons, SecondHasAReason
<1> QED BY <1>1, Always, PTL
=============================================================================
