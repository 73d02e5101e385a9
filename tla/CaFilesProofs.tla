---------------------------- MODULE CaFilesProofs ----------------------------
(***************************************************************************)
(* Proofs about CaFiles, for any number of runs of gen-ca and whatever the *)
(* files and the command lines of start-proxy say.                         *)
(***************************************************************************)
EXTENDS CaFiles, ListProofs

-----------------------------------------------------------------------------
(* The inductive invariant                                                 *)

Writing == {"cert_torn", "key", "key_torn"}

\* Of two runs at work at a time both know.
Alone ==
  \A g, h \in Gens : Working(g) /\ Working(h) /\ g # h => g \in together

DefaultsUnlessNamed ==
  \A g \in Gens \ named : certAt[g] = "default" /\ keyAt[g] = "default"

\* A run that asks, and is alone, has consent for what it is going to overwrite.
Consent ==
  \A g \in Gens \ (named \cup together) :
    /\ gpc[g] \in {"confirm_key", "cert"} /\ files[CertFile("default")] # NONE =>
         CertFile("default") \in agreed[g]
    /\ gpc[g] \in {"cert", "cert_torn", "key"} /\ files[KeyFile("default")] # NONE =>
         KeyFile("default") \in agreed[g]

\* What a run has touched is apart until it ends; if it is alone, its certificate is there.
Touched ==
  \A g \in Gens :
    /\ gpc[g] \in Writing => certAt[g] \in apart
    /\ gpc[g] = "key_torn" => keyAt[g] \in apart
    /\ gpc[g] \in {"key", "key_torn"} /\ g \notin together =>
         files[CertFile(certAt[g])] = Cert(g)

FilesBelong ==
  \A p \in Pairs \ apart : \A g, h \in Gens \cup {OLD} :
    files[CertFile(p)] = Cert(g) /\ files[KeyFile(p)] = Key(h) => g = h

\* A certificate that is loaded is still the one of its file, while nobody writes.
LoadedCert ==
  server = "load_key" /\ sound =>
    /\ CertSource(cfg) \in Pairs \ apart
    /\ loaded.cert \in Gens \cup {OLD}
    /\ files[CertFile(CertSource(cfg))] = Cert(loaded.cert)

NotYetSound == server \in {"off", "configured", "load_cert"} => ~ sound

CfgIsRead ==
  server = "configured" /\ sources # NONE =>
    sources \in ConfigSources /\ cfg = LoadStartProxyConfig(sources) /\ cfg # ERROR

IInv ==
  /\ TypeOK /\ Alone /\ DefaultsUnlessNamed /\ Consent /\ UnaskedHasAReason
  /\ Touched /\ FilesBelong /\ ApartHasAReason
  /\ NotYetSound /\ LoadedCert /\ ServedPairBelongs /\ CfgIsRead

-----------------------------------------------------------------------------
(* What start-proxy reads                                                  *)

LEMMA PathOptionsMerge ==
  ASSUME NEW s \in ConfigSources, NEW file \in {s.user, s.proxy_fork, s.config, s.cli},
         NEW base, base.cert \in PathOptions, base.key \in PathOptions,
         DOMAIN base = DOMAIN NoFileConfig
  PROVE  LET merged == MergeIfReadable(base, file)
         IN /\ merged.cert \in PathOptions /\ merged.key \in PathOptions
            /\ DOMAIN merged = DOMAIN NoFileConfig
BY SourcesAssumption DEF MergeIfReadable, MergeFileCfg, OrElse, NoFileConfig

LEMMA PortsFit ==
  ASSUME NEW l
  PROVE  SplitHostPort(l).port \in Ports
<1>1. 7898 \in Ports
  BY DEF Ports
<1>2. QED
  BY <1>1 DEF SplitHostPort, IsPort, DefaultListen

LEMMA LoadedTypes ==
  ASSUME NEW s \in ConfigSources, LoadStartProxyConfig(s) # ERROR
  PROVE  /\ LoadStartProxyConfig(s).ca_cert \in PathOptions
         /\ LoadStartProxyConfig(s).ca_key \in PathOptions
         /\ LoadStartProxyConfig(s).listen.port \in Ports
<1> DEFINE cwd    == FindFirstExisting(s.proxy_fork, s.config)
           one    == MergeIfReadable(NoFileConfig, s.user)
           silent == MergeIfReadable(one, cwd)
           file   == MergeIfReadable(silent, s.cli)
           listen == OrElse(OrElse(s.args.listen, file.listen), DefaultListen)
<1>1. NoFileConfig.cert \in PathOptions /\ NoFileConfig.key \in PathOptions
  BY DEF NoFileConfig, PathOptions
<1>2. one.cert \in PathOptions /\ one.key \in PathOptions /\ DOMAIN one = DOMAIN NoFileConfig
  BY <1>1, PathOptionsMerge
<1>3. cwd \in {s.proxy_fork, s.config}
  BY DEF FindFirstExisting
<1>4. silent.cert \in PathOptions /\ silent.key \in PathOptions
      /\ DOMAIN silent = DOMAIN NoFileConfig
  BY <1>2, <1>3, PathOptionsMerge
<1>5. file.cert \in PathOptions /\ file.key \in PathOptions
  BY <1>4, PathOptionsMerge
<1>7. /\ LoadStartProxyConfig(s).ca_cert = OrElse(s.args.ca_cert, file.cert)
      /\ LoadStartProxyConfig(s).ca_key = OrElse(s.args.ca_key, file.key)
      /\ LoadStartProxyConfig(s).listen = SplitHostPort(listen)
  BY DEF LoadStartProxyConfig
<1>8. LoadStartProxyConfig(s).listen.port \in Ports
  BY <1>7, PortsFit
<1>9. s.args.ca_cert \in PathOptions /\ s.args.ca_key \in PathOptions
  BY SourcesAssumption
<1> HIDE DEF cwd, one, silent, file, listen
<1>10. QED
  BY <1>5, <1>7, <1>8, <1>9 DEF OrElse

-----------------------------------------------------------------------------
(* start-proxy's steps leave the files and the runs of gen-ca alone        *)

LEMMA StartKeeps ==
  ASSUME IInv, ReadConfiguration \/ StartProxy \/ LoadCert \/ LoadKey \/ StartAgain
  PROVE  IInv'
<1> USE DEF IInv
<1>1. UNCHANGED <<files, gen, apart>>
  BY DEF ReadConfiguration, StartProxy, LoadCert, LoadKey, StartAgain
<1>2. /\ Alone' /\ DefaultsUnlessNamed' /\ Consent' /\ UnaskedHasAReason'
      /\ Touched' /\ FilesBelong' /\ ApartHasAReason'
  BY <1>1 DEF gen, Alone, Working, DefaultsUnlessNamed, Consent, UnaskedHasAReason,
              Touched, FilesBelong, ApartHasAReason
<1>3. CASE ReadConfiguration
  <2>1. server' = "configured" =>
          sources' \in ConfigSources /\ cfg' = LoadStartProxyConfig(sources') /\ cfg' # ERROR
    BY <1>3 DEF ReadConfiguration, TypeOK
  <2>2. server' = "configured" =>
          cfg'.listen.port \in Ports /\ cfg'.ca_cert \in PathOptions /\ cfg'.ca_key \in PathOptions
    BY <2>1, LoadedTypes
  <2>3. TypeOK'
    BY <1>1, <1>3, <2>2 DEF TypeOK, gen, ReadConfiguration, Stages
  <2>4. NotYetSound' /\ LoadedCert' /\ ServedPairBelongs' /\ CfgIsRead'
    BY <1>3, <2>1 DEF NotYetSound, LoadedCert, ServedPairBelongs, CfgIsRead, ReadConfiguration
  <2>5. QED
    BY <1>2, <2>3, <2>4
<1>4. CASE StartProxy
  <2>1. TypeOK'
    BY <1>1, <1>4 DEF TypeOK, gen, StartProxy, OfCa, Stages
  <2>2. CfgIsRead' /\ LoadedCert'
    BY <1>4 DEF CfgIsRead, LoadedCert, StartProxy
  <2>3. NotYetSound' /\ ServedPairBelongs'
    BY <1>4 DEF NotYetSound, ServedPairBelongs, StartProxy
  <2>4. QED
    BY <1>2, <2>1, <2>2, <2>3
<1>5. CASE LoadCert
  <2>1. CertSource(cfg) \in Pairs \cup {"system"}
    BY <1>5 DEF CertSource, LoadCert, TypeOK, Pairs, PathOptions
  <2>2. CASE server' = "failed"
    <3>1. TypeOK'
      BY <1>1, <1>5, <2>2 DEF TypeOK, gen, LoadCert, Stages
    <3>2. NotYetSound' /\ LoadedCert' /\ ServedPairBelongs' /\ CfgIsRead'
      BY <1>5, <2>2 DEF NotYetSound, LoadedCert, ServedPairBelongs, CfgIsRead, LoadCert
    <3>3. QED
      BY <1>2, <3>1, <3>2
  <2>3. CASE server' = "load_key"
    <3>1. PICK g \in CertsAt(CertSource(cfg)) :
            /\ loaded' = [loaded EXCEPT !.cert = g]
            /\ sound' = (CertSource(cfg) \notin apart \cup {"system"})
      BY <1>5, <2>3 DEF LoadCert
    <3>2. g \in Gens \cup {OLD} /\ (CertSource(cfg) # "system" =>
                                      files[CertFile(CertSource(cfg))] = Cert(g))
      BY SystemAssumption DEF CertsAt
    <3>3. loaded' \in [{"cert", "key"} -> Gens \cup {OLD, NONE}]
      BY <3>1, <3>2 DEF TypeOK
    <3>4. TypeOK'
      BY <1>1, <1>5, <2>3, <3>1, <3>3 DEF TypeOK, gen, LoadCert, Stages
    <3>5. LoadedCert'
      <4>1. loaded'.cert = g
        BY <3>1 DEF TypeOK
      <4>2. CertSource(cfg') = CertSource(cfg) /\ UNCHANGED <<files, apart>>
        BY <1>5 DEF LoadCert
      <4>3. QED
        BY <2>1, <3>1, <3>2, <4>1, <4>2 DEF LoadedCert, Pairs
    <3>6. NotYetSound' /\ ServedPairBelongs' /\ CfgIsRead'
      BY <2>3 DEF NotYetSound, ServedPairBelongs, CfgIsRead
    <3>7. QED
      BY <1>2, <3>4, <3>5, <3>6
  <2>4. QED
    BY <1>5, <2>2, <2>3 DEF LoadCert
<1>6. CASE LoadKey
  <2>1. CASE server' = "failed"
    <3>1. TypeOK'
      BY <1>1, <1>6, <2>1 DEF TypeOK, gen, LoadKey, Stages
    <3>2. NotYetSound' /\ LoadedCert' /\ ServedPairBelongs' /\ CfgIsRead'
      BY <1>6, <2>1 DEF NotYetSound, LoadedCert, ServedPairBelongs, CfgIsRead, LoadKey
    <3>3. QED
      BY <1>2, <3>1, <3>2
  <2>2. CASE server' = "up"
    <3>1. PICK g \in Gens \cup {OLD} :
            /\ files[KeyFile(KeySource(cfg))] = Key(g)
            /\ loaded' = [loaded EXCEPT !.key = g]
      BY <1>6, <2>2 DEF LoadKey
    <3>2. loaded' \in [{"cert", "key"} -> Gens \cup {OLD, NONE}]
      BY <3>1 DEF TypeOK
    <3>3. TypeOK'
      BY <1>1, <1>6, <2>2, <3>1, <3>2 DEF TypeOK, gen, LoadKey, Stages
    <3>4. ServedPairBelongs'
      <4>1. SUFFICES ASSUME sound, ~ NamesNoPair(cfg)
                     PROVE  loaded'.cert = loaded'.key
        BY <1>6 DEF ServedPairBelongs, LoadKey
      <4>2. loaded'.cert = loaded.cert /\ loaded'.key = g
        BY <3>1 DEF TypeOK
      <4>3. /\ CertSource(cfg) \in Pairs \ apart
            /\ loaded.cert \in Gens \cup {OLD}
            /\ files[CertFile(CertSource(cfg))] = Cert(loaded.cert)
        BY <1>6, <4>1 DEF LoadedCert, LoadKey
      <4>4. KeySource(cfg) = CertSource(cfg)
        BY <4>1, <4>3 DEF NamesNoPair, KeySource, CertSource, Pairs
      <4>5. QED
        BY <3>1, <4>2, <4>3, <4>4 DEF FilesBelong
    <3>5. NotYetSound' /\ LoadedCert' /\ CfgIsRead'
      BY <2>2 DEF NotYetSound, LoadedCert, CfgIsRead
    <3>6. QED
      BY <1>2, <3>3, <3>4, <3>5
  <2>3. QED
    BY <1>6, <2>1, <2>2 DEF LoadKey
<1>7. CASE StartAgain
  <2>1. loaded' \in [{"cert", "key"} -> Gens \cup {OLD, NONE}]
    BY <1>7 DEF StartAgain
  <2>2. TypeOK'
    BY <1>1, <1>7, <2>1 DEF TypeOK, gen, StartAgain, Stages
  <2>3. NotYetSound' /\ LoadedCert' /\ ServedPairBelongs' /\ CfgIsRead'
    BY <1>7 DEF NotYetSound, LoadedCert, ServedPairBelongs, CfgIsRead, StartAgain
  <2>4. QED
    BY <1>2, <2>2, <2>3
<1>8. QED
  BY <1>3, <1>4, <1>5, <1>6, <1>7

-----------------------------------------------------------------------------
(* gen-ca's steps that write nothing                                       *)

AboutStart == NotYetSound /\ LoadedCert /\ ServedPairBelongs /\ CfgIsRead

LEMMA QuietKeepsTheRest ==
  ASSUME AboutStart, FilesBelong, UNCHANGED <<files, apart, start, sound>>
  PROVE  AboutStart' /\ FilesBelong'
BY DEF AboutStart, NotYetSound, LoadedCert, ServedPairBelongs, CfgIsRead, FilesBelong, start

LEMMA GenCaKeeps ==
  ASSUME IInv, NEW g \in Gens, NEW c \in PathOptions, NEW k \in PathOptions, GenCa(g, c, k)
  PROVE  IInv'
<1> USE DEF IInv
<1> DEFINE others == {o \in Gens : Working(o)}
<1>0. together' = (IF others = {} THEN together ELSE together \cup others \cup {g})
  BY DEF GenCa
<1>1. TypeOK'
  <2>1. OrElse(c, "default") \in Pairs /\ OrElse(k, "default") \in Pairs
    BY DEF OrElse, PathOptions, Pairs
  <2>2. together' \subseteq Gens
    BY <1>0 DEF TypeOK
  <2>3. QED
    BY <2>1, <2>2 DEF TypeOK, GenCa, start, Steps
<1>2. Alone'
  <2>1. SUFFICES ASSUME NEW f \in Gens, NEW h \in Gens, Working(f)', Working(h)', f # h
                 PROVE  f \in together'
    BY DEF Alone
  <2>2. f # g => Working(f)
    BY <2>1 DEF Working, GenCa, TypeOK
  <2>3. h # g => Working(h)
    BY <2>1 DEF Working, GenCa, TypeOK
  <2>4. QED
    BY <1>0, <2>1, <2>2, <2>3 DEF Alone
<1>3. DefaultsUnlessNamed'
  BY DEF DefaultsUnlessNamed, GenCa, UsingDefaults, OrElse, TypeOK
<1>4. together \subseteq together' /\ named \subseteq named'
  BY <1>0 DEF GenCa
<1>5. Consent'
  <2>1. SUFFICES ASSUME NEW h \in Gens \ (named' \cup together')
                 PROVE  /\ gpc'[h] \in {"confirm_key", "cert"} /\ files'[CertFile("default")] # NONE =>
                             CertFile("default") \in agreed'[h]
                        /\ gpc'[h] \in {"cert", "cert_torn", "key"} /\ files'[KeyFile("default")] # NONE =>
                             KeyFile("default") \in agreed'[h]
    BY DEF Consent
  <2>2. CASE h = g
    BY <2>1, <2>2 DEF GenCa, TypeOK
  <2>3. CASE h # g
    BY <1>4, <2>1, <2>3 DEF Consent, GenCa, TypeOK
  <2>4. QED
    BY <2>2, <2>3
<1>6. UnaskedHasAReason'
  BY <1>4 DEF UnaskedHasAReason, GenCa
<1>7. Touched'
  BY <1>4 DEF Touched, GenCa, TypeOK, Writing
<1>8. ApartHasAReason'
  BY <1>4 DEF ApartHasAReason, GenCa, TypeOK
<1>9. UNCHANGED <<files, apart, start, sound>>
  BY DEF GenCa
<1>10. AboutStart' /\ FilesBelong'
  BY <1>9, QuietKeepsTheRest DEF AboutStart
<1>11. QED
  BY <1>1, <1>2, <1>3, <1>5, <1>6, <1>7, <1>8, <1>10 DEF AboutStart

LEMMA ConfirmKeeps ==
  ASSUME IInv, NEW g \in Gens, ConfirmCert(g) \/ ConfirmKey(g)
  PROVE  IInv'
<1> USE DEF IInv, ConfirmCert, ConfirmKey, ConfirmOverwrite
<1>1. /\ UNCHANGED <<files, certAt, keyAt, named, together, unasked, apart, start, sound>>
      /\ gpc[g] \in {"confirm_cert", "confirm_key"}
      /\ gpc' \in [Gens -> Steps]
      /\ gpc'[g] \in {"confirm_key", "cert", "cancelled"}
      /\ \A h \in Gens \ {g} : gpc'[h] = gpc[h] /\ agreed'[h] = agreed[h]
      /\ agreed' \in [Gens -> SUBSET Paths]
  BY DEF TypeOK, Steps, Paths, Pairs, CertFile, KeyFile
<1>2. TypeOK'
  BY <1>1 DEF TypeOK, start
<1>3. Alone'
  BY <1>1 DEF Alone, Working
<1>4. DefaultsUnlessNamed' /\ UnaskedHasAReason'
  BY <1>1 DEF DefaultsUnlessNamed, UnaskedHasAReason
<1>5. Consent'
  <2>1. SUFFICES ASSUME NEW h \in Gens \ (named \cup together)
                 PROVE  /\ gpc'[h] \in {"confirm_key", "cert"} /\ files[CertFile("default")] # NONE =>
                             CertFile("default") \in agreed'[h]
                        /\ gpc'[h] \in {"cert", "cert_torn", "key"} /\ files[KeyFile("default")] # NONE =>
                             KeyFile("default") \in agreed'[h]
    BY <1>1 DEF Consent
  <2>2. CASE h # g
    BY <1>1, <2>1, <2>2 DEF Consent
  <2>3. CASE h = g /\ ConfirmCert(g)
    BY <2>1, <2>3 DEF Consent, TypeOK
  <2>4. CASE h = g /\ ConfirmKey(g)
    BY <2>1, <2>4 DEF Consent, TypeOK
  <2>5. QED
    BY <2>2, <2>3, <2>4
<1>6. Touched'
  BY <1>1 DEF Touched, Writing
<1>7. ApartHasAReason'
  BY <1>1 DEF ApartHasAReason
<1>8. AboutStart' /\ FilesBelong'
  BY <1>1, QuietKeepsTheRest DEF AboutStart
<1>9. QED
  BY <1>2, <1>3, <1>4, <1>5, <1>6, <1>7, <1>8 DEF AboutStart

LEMMA FailureKeeps ==
  ASSUME IInv, NEW g \in Gens, GenCaFails(g)
  PROVE  IInv'
<1> USE DEF IInv, GenCaFails
<1>1. TypeOK'
  BY DEF TypeOK, start, Steps
<1>2. Alone' /\ DefaultsUnlessNamed' /\ UnaskedHasAReason'
  BY DEF TypeOK, Alone, Working, DefaultsUnlessNamed, UnaskedHasAReason
<1>3. Consent' /\ Touched'
  BY DEF TypeOK, Consent, Touched, Writing
<1>4. ApartHasAReason'
  BY DEF TypeOK, ApartHasAReason
<1>5. AboutStart' /\ FilesBelong'
  BY QuietKeepsTheRest DEF AboutStart
<1>6. QED
  BY <1>1, <1>2, <1>3, <1>4, <1>5 DEF AboutStart

-----------------------------------------------------------------------------
(* gen-ca's steps that write                                               *)

LEMMA WritingKeepsTheRest ==
  ASSUME AboutStart, UNCHANGED start, sound' = FALSE
  PROVE  AboutStart'
BY DEF AboutStart, NotYetSound, LoadedCert, ServedPairBelongs, CfgIsRead, start

\* The paths and the contents of two pairs, and of two runs, differ.
LEMMA Distinct ==
  /\ \A p, q \in Pairs : CertFile(p) # KeyFile(q) /\ CertFile(p) \in Paths /\ KeyFile(p) \in Paths
  /\ \A p, q \in Pairs : (CertFile(p) = CertFile(q) \/ KeyFile(p) = KeyFile(q)) => p = q
  /\ \A g, h \in Gens \cup {OLD} : (Cert(g) = Cert(h) \/ Key(g) = Key(h)) => g = h
  /\ \A g \in Gens \cup {OLD} : Cert(g) \in Contents /\ Key(g) \in Contents
BY DEF CertFile, KeyFile, Paths, Cert, Key, Contents, Pairs

LEMMA AloneKeeps ==
  ASSUME Alone, TypeOK, NEW g \in Gens, Working(g), UNCHANGED together,
         \A h \in Gens \ {g} : gpc'[h] = gpc[h]
  PROVE  Alone'
BY DEF Alone, Working

LEMMA TruncateKeeps ==
  ASSUME IInv, NEW g \in Gens, TruncateCert(g) \/ TruncateKey(g)
  PROVE  IInv'
<1> USE DEF IInv
<1> DEFINE path == IF gpc[g] = "cert" THEN CertFile(certAt[g]) ELSE KeyFile(keyAt[g])
           next == IF gpc[g] = "cert" THEN "cert_torn" ELSE "key_torn"
           pair == IF gpc[g] = "cert" THEN certAt[g] ELSE keyAt[g]
<1>1. gpc[g] \in {"cert", "key"} /\ Truncate(g, path, next)
  BY DEF TruncateCert, TruncateKey
<1>2. pair \in Pairs /\ path \in Paths /\ path[1] = pair
  BY Distinct DEF TypeOK, CertFile, KeyFile
<1>3. /\ gpc' = [gpc EXCEPT ![g] = next]
      /\ files' = [files EXCEPT ![path] = TORN]
      /\ unasked' = IF files[path] # NONE /\ path \notin agreed[g] THEN unasked \cup {g} ELSE unasked
      /\ apart' = apart \cup {pair}
      /\ sound' = FALSE
      /\ UNCHANGED <<certAt, keyAt, agreed, named, together, start>>
  BY <1>1, <1>2 DEF Truncate
<1>4. gpc'[g] = next /\ \A h \in Gens \ {g} : gpc'[h] = gpc[h]
  BY <1>3 DEF TypeOK
<1>5. Working(g)
  BY <1>1 DEF Working
<1>6. TypeOK'
  BY <1>2, <1>3 DEF TypeOK, start, Steps
<1>7. Alone'
  BY <1>3, <1>4, <1>5, AloneKeeps
<1>8. DefaultsUnlessNamed'
  BY <1>3 DEF DefaultsUnlessNamed
<1>9. Consent'
  <2>1. SUFFICES ASSUME NEW h \in Gens \ (named \cup together)
                 PROVE  /\ gpc'[h] \in {"confirm_key", "cert"} /\ files'[CertFile("default")] # NONE =>
                             CertFile("default") \in agreed[h]
                        /\ gpc'[h] \in {"cert", "cert_torn", "key"} /\ files'[KeyFile("default")] # NONE =>
                             KeyFile("default") \in agreed[h]
    BY <1>3 DEF Consent
  <2>2. CASE h # g
    <3>1. ~ Working(h)
      BY <1>5, <2>1, <2>2 DEF Alone
    <3>2. QED
      BY <1>4, <2>2, <3>1 DEF Working
  <2>3. CASE h = g /\ gpc[g] = "cert"
    <3>1. files'[KeyFile("default")] = files[KeyFile("default")]
      BY <1>3, <2>3, Distinct DEF TypeOK, Pairs
    <3>2. QED
      BY <1>4, <2>1, <2>3, <3>1 DEF Consent
  <2>4. CASE h = g /\ gpc[g] = "key"
    BY <1>4, <2>4
  <2>5. QED
    BY <1>1, <2>2, <2>3, <2>4
<1>10. UnaskedHasAReason'
  <2>1. SUFFICES ASSUME g \notin named \cup together
                 PROVE  files[path] = NONE \/ path \in agreed[g]
    BY <1>3 DEF UnaskedHasAReason
  <2>2. certAt[g] = "default" /\ keyAt[g] = "default"
    BY <2>1 DEF DefaultsUnlessNamed
  <2>3. QED
    BY <1>1, <2>1, <2>2 DEF Consent
<1>11. Touched'
  <2>1. SUFFICES ASSUME NEW h \in Gens
                 PROVE  /\ gpc'[h] \in Writing => certAt[h] \in apart'
                        /\ gpc'[h] = "key_torn" => keyAt[h] \in apart'
                        /\ gpc'[h] \in {"key", "key_torn"} /\ h \notin together =>
                             files'[CertFile(certAt[h])] = Cert(h)
    BY <1>3 DEF Touched
  <2>2. CASE h # g
    <3>1. gpc'[h] \in {"key", "key_torn"} => h \in together
      BY <1>4, <1>5, <2>2 DEF Alone, Working
    <3>2. QED
      BY <1>3, <1>4, <2>2, <3>1 DEF Touched
  <2>3. CASE h = g /\ gpc[g] = "cert"
    BY <1>3, <1>4, <2>3 DEF Touched
  <2>4. CASE h = g /\ gpc[g] = "key"
    <3>1. files'[CertFile(certAt[g])] = files[CertFile(certAt[g])]
      BY <1>3, <2>4, Distinct DEF TypeOK
    <3>2. certAt[g] \in apart /\ (g \notin together => files[CertFile(certAt[g])] = Cert(g))
      BY <2>4 DEF Touched, Writing
    <3>3. QED
      BY <1>3, <1>4, <2>4, <3>1, <3>2
  <2>5. QED
    BY <1>1, <2>2, <2>3, <2>4
<1>12. FilesBelong'
  <2>1. SUFFICES ASSUME NEW p \in Pairs \ apart', NEW a \in Gens \cup {OLD}, NEW b \in Gens \cup {OLD},
                        files'[CertFile(p)] = Cert(a), files'[KeyFile(p)] = Key(b)
                 PROVE  a = b
    BY DEF FilesBelong
  <2>2. p # pair /\ p \notin apart
    BY <1>3
  <2>3. path # CertFile(p) /\ path # KeyFile(p)
    BY <1>2, <2>2, Distinct DEF TypeOK, CertFile, KeyFile
  <2>4. files'[CertFile(p)] = files[CertFile(p)] /\ files'[KeyFile(p)] = files[KeyFile(p)]
    BY <1>3, <2>3, Distinct DEF TypeOK
  <2>5. QED
    BY <2>1, <2>2, <2>4 DEF FilesBelong
<1>13. ApartHasAReason'
  <2>1. SUFFICES ASSUME NEW p \in apart'
                 PROVE  \E h \in Gens :
                          /\ p \in {certAt[h], keyAt[h]}
                          /\ \/ gpc'[h] \in {"cert_torn", "key", "key_torn", "failed"}
                             \/ gpc'[h] = "done" /\ (certAt[h] # keyAt[h] \/ h \in together)
    BY <1>3 DEF ApartHasAReason
  <2>2. CASE p = pair
    BY <1>4, <2>2
  <2>3. CASE p \in apart
    <3>1. PICK h \in Gens :
            /\ p \in {certAt[h], keyAt[h]}
            /\ \/ gpc[h] \in {"cert_torn", "key", "key_torn", "failed"}
               \/ gpc[h] = "done" /\ (certAt[h] # keyAt[h] \/ h \in together)
      BY <2>3 DEF ApartHasAReason
    <3>2. QED
      BY <1>1, <1>4, <3>1
  <2>4. QED
    BY <1>3, <2>2, <2>3
<1>14. AboutStart'
  BY <1>3, WritingKeepsTheRest DEF AboutStart
<1>15. QED
  BY <1>6, <1>7, <1>8, <1>9, <1>10, <1>11, <1>12, <1>13, <1>14 DEF AboutStart

LEMMA WriteCertKeeps ==
  ASSUME IInv, NEW g \in Gens, WriteCert(g)
  PROVE  IInv'
<1> USE DEF IInv
<1>1. /\ gpc[g] = "cert_torn" /\ sound' = FALSE
      /\ gpc' = [gpc EXCEPT ![g] = "key"]
      /\ files' = [files EXCEPT ![CertFile(certAt[g])] = Cert(g)]
      /\ UNCHANGED <<certAt, keyAt, agreed, named, together, unasked, apart, start>>
  BY DEF WriteCert
<1>2. gpc'[g] = "key" /\ Working(g) /\ \A h \in Gens \ {g} : gpc'[h] = gpc[h]
  BY <1>1 DEF TypeOK, Working
<1>3. certAt[g] \in Pairs /\ certAt[g] \in apart
  BY <1>1 DEF TypeOK, Touched, Writing
<1>4. \A p \in Pairs : /\ files'[KeyFile(p)] = files[KeyFile(p)]
                       /\ p # certAt[g] => files'[CertFile(p)] = files[CertFile(p)]
  BY <1>1, <1>3, Distinct DEF TypeOK
<1>5. TypeOK'
  BY <1>1, <1>3, Distinct DEF TypeOK, start, Steps
<1>6. Alone'
  BY <1>1, <1>2, AloneKeeps
<1>7. DefaultsUnlessNamed' /\ UnaskedHasAReason'
  BY <1>1 DEF DefaultsUnlessNamed, UnaskedHasAReason
<1>8. \A h \in Gens \ {g} : Working(h) => h \in together
  BY <1>2 DEF Alone
<1>9. Consent'
  BY <1>1, <1>2, <1>4, <1>8 DEF Consent, Working, Pairs
<1>10. Touched'
  <2>1. files'[CertFile(certAt[g])] = Cert(g)
    BY <1>1, <1>3, Distinct DEF TypeOK
  <2>2. QED
    BY <1>1, <1>2, <1>3, <1>8, <2>1 DEF Touched, Writing, Working
<1>11. FilesBelong'
  BY <1>1, <1>3, <1>4 DEF FilesBelong
<1>12. ApartHasAReason'
  BY <1>1, <1>2 DEF ApartHasAReason
<1>13. AboutStart'
  BY <1>1, WritingKeepsTheRest DEF AboutStart
<1>14. QED
  BY <1>5, <1>6, <1>7, <1>9, <1>10, <1>11, <1>12, <1>13 DEF AboutStart

LEMMA WriteKeyKeeps ==
  ASSUME IInv, NEW g \in Gens, WriteKey(g)
  PROVE  IInv'
<1> USE DEF IInv
<1> DEFINE whole == certAt[g] = keyAt[g] /\ g \notin together
<1>1. /\ gpc[g] = "key_torn" /\ sound' = FALSE
      /\ gpc' = [gpc EXCEPT ![g] = "done"]
      /\ files' = [files EXCEPT ![KeyFile(keyAt[g])] = Key(g)]
      /\ apart' = IF whole THEN apart \ {keyAt[g]} ELSE apart
      /\ UNCHANGED <<certAt, keyAt, agreed, named, together, unasked, start>>
  BY DEF WriteKey
<1>2. gpc'[g] = "done" /\ Working(g) /\ \A h \in Gens \ {g} : gpc'[h] = gpc[h]
  BY <1>1 DEF TypeOK, Working
<1>3. keyAt[g] \in Pairs /\ keyAt[g] \in apart
  BY <1>1 DEF TypeOK, Touched, Writing
<1>4. /\ \A p \in Pairs : /\ files'[CertFile(p)] = files[CertFile(p)]
                          /\ p # keyAt[g] => files'[KeyFile(p)] = files[KeyFile(p)]
      /\ files'[KeyFile(keyAt[g])] = Key(g)
  BY <1>1, <1>3, Distinct DEF TypeOK
<1>5. TypeOK'
  BY <1>1, <1>3, Distinct DEF TypeOK, start, Steps
<1>6. Alone'
  BY <1>1, <1>2, AloneKeeps
<1>7. DefaultsUnlessNamed' /\ UnaskedHasAReason'
  BY <1>1 DEF DefaultsUnlessNamed, UnaskedHasAReason
<1>8. \A h \in Gens \ {g} : Working(h) => h \in together /\ g \in together
  BY <1>2 DEF Alone
<1>9. Consent'
  BY <1>1, <1>2, <1>4, <1>8 DEF Consent, Working, Pairs
<1>10. Touched'
  BY <1>1, <1>2, <1>8 DEF Touched, Writing, Working
<1>11. FilesBelong'
  <2>1. SUFFICES ASSUME NEW p \in Pairs \ apart', NEW a \in Gens \cup {OLD}, NEW b \in Gens \cup {OLD},
                        files'[CertFile(p)] = Cert(a), files'[KeyFile(p)] = Key(b)
                 PROVE  a = b
    BY DEF FilesBelong
  <2>2. CASE p \in apart
    <3>1. whole /\ p = keyAt[g]
      BY <1>1, <2>1, <2>2
    <3>2. files[CertFile(certAt[g])] = Cert(g)
      BY <1>1, <3>1 DEF Touched
    <3>3. Cert(a) = Cert(g) /\ Key(b) = Key(g)
      BY <1>4, <2>1, <3>1, <3>2
    <3>4. QED
      BY <3>3, Distinct
  <2>3. CASE p \notin apart
    BY <1>3, <1>4, <2>1, <2>3 DEF FilesBelong
  <2>4. QED
    BY <2>2, <2>3
<1>12. ApartHasAReason'
  <2>1. SUFFICES ASSUME NEW p \in apart'
                 PROVE  \E h \in Gens :
                          /\ p \in {certAt[h], keyAt[h]}
                          /\ \/ gpc'[h] \in {"cert_torn", "key", "key_torn", "failed"}
                             \/ gpc'[h] = "done" /\ (certAt[h] # keyAt[h] \/ h \in together)
    BY <1>1 DEF ApartHasAReason
  <2>2. p \in apart
    BY <1>1, <2>1
  <2>3. PICK h \in Gens :
          /\ p \in {certAt[h], keyAt[h]}
          /\ \/ gpc[h] \in {"cert_torn", "key", "key_torn", "failed"}
             \/ gpc[h] = "done" /\ (certAt[h] # keyAt[h] \/ h \in together)
    BY <2>2 DEF ApartHasAReason
  <2>4. CASE h = g
    BY <1>1, <1>2, <2>1, <2>3, <2>4
  <2>5. CASE h # g
    BY <1>2, <2>3, <2>5
  <2>6. QED
    BY <2>4, <2>5
<1>13. AboutStart'
  BY <1>1, WritingKeepsTheRest DEF AboutStart
<1>14. QED
  BY <1>5, <1>6, <1>7, <1>9, <1>10, <1>11, <1>12, <1>13 DEF AboutStart

-----------------------------------------------------------------------------
(* The precedence of the files                                             *)

PlainKeys   == {"cert", "key", "listen", "noca"}
SectionKeys == {"cache_size", "rules"}

\* What a configuration merged so far says of k.
Setting(file, k) ==
  IF k \in PlainKeys THEN file[k]
  ELSE IF file.proxy_manager = NONE THEN NONE ELSE file.proxy_manager[k]

Merged(file) ==
  /\ DOMAIN file = DOMAIN NoFileConfig
  /\ file.proxy_manager \in Sections \cup {NONE}

LEMMA Fields == DOMAIN NoFileConfig = PlainKeys \cup {"proxy_manager"}
BY DEF NoFileConfig, PlainKeys

LEMMA SectionsMerge ==
  ASSUME NEW a \in Sections \cup {NONE}, NEW b \in Sections \cup {NONE}
  PROVE  /\ MergeSection(a, b) \in Sections \cup {NONE}
         /\ a # NONE /\ b # NONE =>
              /\ MergeSection(a, b) \in Sections
              /\ \A k \in SectionKeys : MergeSection(a, b)[k] = OrElse(b[k], a[k])
<1>1. CASE a = NONE \/ b = NONE
  BY <1>1 DEF MergeSection, OrElse
<1>2. CASE a # NONE /\ b # NONE
  <2>1. a \in Sections /\ b \in Sections /\ DOMAIN a = SectionKeys
    BY <1>2 DEF Sections, SectionKeys
  <2>2. MergeSection(a, b) = [k \in SectionKeys |-> OrElse(b[k], a[k])]
    BY <1>2, <2>1 DEF MergeSection
  <2>3. /\ OrElse(b.cache_size, a.cache_size) \in CacheSizes \cup {NONE}
        /\ OrElse(b.rules, a.rules) \in RuleLists \cup {NONE}
    BY <2>1 DEF Sections, OrElse
  <2>4. MergeSection(a, b) \in Sections
    BY <2>2, <2>3 DEF Sections, SectionKeys
  <2>5. QED
    BY <2>2, <2>4
<1>3. QED
  BY <1>1, <1>2

LEMMA MergeSays ==
  ASSUME NEW s \in ConfigSources, NEW file \in {s.user, s.proxy_fork, s.config, s.cli},
         NEW base, Merged(base), NEW k \in PlainKeys \cup SectionKeys
  PROVE  /\ Merged(MergeIfReadable(base, file))
         /\ Setting(MergeIfReadable(base, file), k) = OrElse(Says(file, k), Setting(base, k))
<1>1. CASE file \in {MISSING, UNREADABLE}
  BY <1>1 DEF MergeIfReadable, Says, OrElse
<1>2. CASE file \notin {MISSING, UNREADABLE}
  <2> DEFINE merged == MergeIfReadable(base, file)
  <2>1. /\ DOMAIN file = DOMAIN NoFileConfig
        /\ file.proxy_manager \in Sections \cup {NONE}
    BY <1>2, SourcesAssumption
  <2>2. merged = MergeFileCfg(base, file)
    BY <1>2 DEF MergeIfReadable
  <2>3. /\ DOMAIN merged = DOMAIN NoFileConfig
        /\ merged.proxy_manager = MergeSection(base.proxy_manager, file.proxy_manager)
        /\ \A key \in PlainKeys : merged[key] = OrElse(file[key], base[key])
    BY <2>2, Fields DEF MergeFileCfg, Merged, PlainKeys
  <2>4. merged.proxy_manager \in Sections \cup {NONE}
    BY <2>1, <2>3, SectionsMerge DEF Merged
  <2>5. CASE k \in PlainKeys
    <3>1. Says(file, k) = file[k]
      BY <1>2, <2>1, <2>5, Fields DEF Says
    <3>2. QED
      BY <2>3, <2>4, <2>5, <3>1 DEF Setting, Merged
  <2>6. CASE k \in SectionKeys
    <3>1. k \notin DOMAIN file /\ k \notin PlainKeys
      BY <2>1, <2>6, Fields DEF PlainKeys, SectionKeys
    <3>2. Says(file, k) = IF file.proxy_manager = NONE THEN NONE ELSE file.proxy_manager[k]
      BY <1>2, <3>1 DEF Says
    <3>3. Setting(base, k) = IF base.proxy_manager = NONE THEN NONE ELSE base.proxy_manager[k]
      BY <3>1 DEF Setting
    <3>4. Setting(merged, k) = IF merged.proxy_manager = NONE THEN NONE ELSE merged.proxy_manager[k]
      BY <3>1 DEF Setting
    <3>5. CASE base.proxy_manager = NONE
      BY <2>3, <2>4, <3>2, <3>3, <3>4, <3>5 DEF MergeSection, OrElse, Merged
    <3>6. CASE base.proxy_manager # NONE /\ file.proxy_manager = NONE
      BY <2>3, <2>4, <3>2, <3>3, <3>4, <3>6 DEF MergeSection, OrElse, Merged
    <3>7. CASE base.proxy_manager # NONE /\ file.proxy_manager # NONE
      <4>1. /\ merged.proxy_manager \in Sections
            /\ merged.proxy_manager[k] = OrElse(file.proxy_manager[k], base.proxy_manager[k])
        BY <2>1, <2>3, <2>6, <3>7, SectionsMerge DEF Merged
      <4>2. merged.proxy_manager # NONE
        BY <4>1, SectionsAssumption
      <4>3. QED
        BY <2>3, <2>4, <3>2, <3>3, <3>4, <3>7, <4>1, <4>2 DEF Merged
    <3>8. QED
      BY <3>5, <3>6, <3>7
  <2>7. QED
    BY <2>5, <2>6
<1>3. QED
  BY <1>1, <1>2

\* The greatest of three that gives something.
LEMMA LastGiven ==
  ASSUME NEW v1, NEW v2, NEW v3,
         NEW givers, givers = {i \in 1 .. 3 : <<v1, v2, v3>>[i] # NONE}
  PROVE  IF givers = {} THEN OrElse(v3, OrElse(v2, v1)) = NONE
         ELSE /\ (CHOOSE i \in givers : \A j \in givers : j <= i) \in 1 .. 3
              /\ <<v1, v2, v3>>[CHOOSE i \in givers : \A j \in givers : j <= i] = OrElse(v3, OrElse(v2, v1))
<1> DEFINE v == <<v1, v2, v3>>
           best == IF v3 # NONE THEN 3 ELSE IF v2 # NONE THEN 2 ELSE 1
<1>1. v[1] = v1 /\ v[2] = v2 /\ v[3] = v3 /\ 1 .. 3 = {1, 2, 3}
  OBVIOUS
<1>2. v[best] = OrElse(v3, OrElse(v2, v1))
  BY <1>1 DEF OrElse
<1>3. CASE givers = {}
  BY <1>1, <1>3 DEF OrElse
<1>4. CASE givers # {}
  <2>1. best \in givers /\ \A j \in givers : j <= best
    BY <1>1, <1>4
  <2>2. \A i \in givers : (\A j \in givers : j <= i) => i = best
    BY <1>1, <2>1
  <2>3. (CHOOSE i \in givers : \A j \in givers : j <= i) = best
    BY <2>1, <2>2
  <2>4. QED
    BY <1>2, <1>4, <2>3
<1>5. QED
  BY <1>3, <1>4

LEMMA SaidIs ==
  ASSUME NEW s, NEW k
  PROVE  Said(s, k) = OrElse(Says(s.cli, k),
                             OrElse(Says(FindFirstExisting(s.proxy_fork, s.config), k), Says(s.user, k)))
<1> DEFINE F == FilesOf(s)
           v1 == Says(F[1], k)
           v2 == Says(F[2], k)
           v3 == Says(F[3], k)
           givers == {i \in 1 .. 3 : Says(F[i], k) # NONE}
<1>1. F[1] = s.user /\ F[2] = FindFirstExisting(s.proxy_fork, s.config) /\ F[3] = s.cli
  BY DEF FilesOf, FindFirstExisting
<1>2. \A i \in 1 .. 3 : Says(F[i], k) = <<v1, v2, v3>>[i]
  OBVIOUS
<1>3. givers = {i \in 1 .. 3 : <<v1, v2, v3>>[i] # NONE}
  BY <1>2
<1>4. Said(s, k) = IF givers = {} THEN NONE
                   ELSE Says(F[CHOOSE i \in givers : \A j \in givers : j <= i], k)
  BY DEF Said
<1>5. givers # {} => (CHOOSE i \in givers : \A j \in givers : j <= i) \in 1 .. 3
  BY <1>3, LastGiven
<1> HIDE DEF givers, v1, v2, v3, F
<1>6. Said(s, k) = OrElse(v3, OrElse(v2, v1))
  <2>1. CASE givers = {}
    BY <1>3, <1>4, <2>1, LastGiven
  <2>2. CASE givers # {}
    <3> DEFINE c == CHOOSE i \in givers : \A j \in givers : j <= i
    <3>1. c \in 1 .. 3
      BY <1>5, <2>2
    <3>2. <<v1, v2, v3>>[c] = OrElse(v3, OrElse(v2, v1))
      BY <1>3, <2>2, LastGiven
    <3>3. Said(s, k) = Says(F[c], k)
      BY <1>4, <2>2
    <3> HIDE DEF c
    <3>4. QED
      BY <1>2, <3>1, <3>2, <3>3
  <2>3. QED
    BY <2>1, <2>2
<1>7. QED
  BY <1>1, <1>6 DEF v1, v2, v3

\* What start-proxy merges says of every setting what the most important file says.
LEMMA FilesFollowPrecedence ==
  ASSUME NEW s \in ConfigSources, NEW k \in PlainKeys \cup SectionKeys
  PROVE  LET cwd  == FindFirstExisting(s.proxy_fork, s.config)
             file == MergeIfReadable(MergeIfReadable(MergeIfReadable(NoFileConfig, s.user), cwd), s.cli)
         IN  Merged(file) /\ Setting(file, k) = Said(s, k)
<1> DEFINE cwd  == FindFirstExisting(s.proxy_fork, s.config)
           one  == MergeIfReadable(NoFileConfig, s.user)
           two  == MergeIfReadable(one, cwd)
           file == MergeIfReadable(two, s.cli)
<1>1. Merged(NoFileConfig) /\ Setting(NoFileConfig, k) = NONE
  BY DEF Merged, Setting, NoFileConfig, PlainKeys
<1>2. cwd \in {s.user, s.proxy_fork, s.config, s.cli}
  BY DEF FindFirstExisting
<1>3. Merged(one) /\ Setting(one, k) = OrElse(Says(s.user, k), NONE)
  BY <1>1, MergeSays
<1> HIDE DEF cwd, one
<1>4. Merged(two) /\ Setting(two, k) = OrElse(Says(cwd, k), Setting(one, k))
  BY <1>2, <1>3, MergeSays
<1> HIDE DEF two
<1>5. Merged(file) /\ Setting(file, k) = OrElse(Says(s.cli, k), Setting(two, k))
  BY <1>4, MergeSays
<1> HIDE DEF file
<1>6. OrElse(Says(s.user, k), NONE) = Says(s.user, k)
  BY DEF OrElse
<1>7. Setting(file, k) = Said(s, k)
  BY <1>3, <1>4, <1>5, <1>6, SaidIs DEF cwd
<1>8. QED
  BY <1>5, <1>7 DEF file, two, one, cwd

LEMMA ListsAppend ==
  ASSUME NEW a, IsList(a), NEW b, IsList(b)
  PROVE  /\ IsList(a \o b) /\ DOMAIN (a \o b) = 1 .. Len(a) + Len(b)
         /\ Len(a) \in Nat /\ Len(b) \in Nat /\ Len(a \o b) = Len(a) + Len(b)
         /\ \A i \in 1 .. Len(a) : (a \o b)[i] = a[i]
         /\ \A i \in 1 .. Len(b) : (a \o b)[Len(a) + i] = b[i]
<1> DEFINE S == {a[i] : i \in DOMAIN a} \cup {b[i] : i \in DOMAIN b}
<1>1. a \in Seq(S) /\ b \in Seq(S)
  BY DEF IsList
<1> HIDE DEF S
<1>2. /\ a \o b \in Seq(S) /\ Len(a \o b) = Len(a) + Len(b)
      /\ DOMAIN (a \o b) = 1 .. Len(a) + Len(b)
      /\ Len(a) \in Nat /\ Len(b) \in Nat
      /\ \A i \in 1 .. Len(a) : (a \o b)[i] = a[i]
  BY <1>1
<1>3. ASSUME NEW i \in 1 .. Len(b) PROVE (a \o b)[Len(a) + i] = b[i]
  BY <1>1
<1>4. IsList(a \o b)
  <2> DEFINE c == a \o b
  <2>1. c \in Seq(S)
    BY <1>2
  <2> HIDE DEF c
  <2>2. IsList(c)
    BY <2>1 DEF IsList
  <2>3. QED
    BY <2>2 DEF c
<1>5. QED
  BY <1>2, <1>3, <1>4

\* A configuration c is what the sources s say.
AsSaid(c, s) ==
  LET own == OrElse(Said(s, "rules"), <<>>)
      l   == OrElse(s.args.listen, Said(s, "listen"))
  IN /\ c.ca_cert = OrElse(s.args.ca_cert, Said(s, "cert"))
     /\ c.ca_key = OrElse(s.args.ca_key, Said(s, "key"))
     /\ c.enable_ca = (~ s.args.noca /\ Said(s, "noca") # TRUE)
     /\ c.listen = IF l # NONE /\ IsPort(l.port) THEN l ELSE DefaultListen
     /\ c.cache_size = OrElse(Said(s, "cache_size"), 1000)
     /\ Len(c.rules) = Len(own) + Len(s.args.rules)
     /\ \A i \in 1 .. Len(own) : c.rules[i] = own[i]

\* Its rules are a list that ends with those of the command line.
EndsWithArgs(c, s) ==
  /\ IsList(c.rules)
  /\ \A i \in DOMAIN s.args.rules :
       \E j \in DOMAIN c.rules : c.rules[j] = ParseRuleArg(s.args.rules[i])

LEMMA ReadAsSaid ==
  ASSUME NEW s \in ConfigSources, LoadStartProxyConfig(s) # ERROR
  PROVE  AsSaid(LoadStartProxyConfig(s), s) /\ EndsWithArgs(LoadStartProxyConfig(s), s)
<1> DEFINE cwd  == FindFirstExisting(s.proxy_fork, s.config)
           file == MergeIfReadable(MergeIfReadable(MergeIfReadable(NoFileConfig, s.user), cwd), s.cli)
           section == OrElse(file.proxy_manager, [rules |-> NONE, cache_size |-> NONE])
           cli == [i \in DOMAIN s.args.rules |-> ParseRuleArg(s.args.rules[i])]
           c   == LoadStartProxyConfig(s)
           own == OrElse(Said(s, "rules"), <<>>)
<1>1. Merged(file) /\ \A k \in PlainKeys \cup SectionKeys : Setting(file, k) = Said(s, k)
  <2>1. Merged(file)
    <3>1. "cert" \in PlainKeys \cup SectionKeys
      BY DEF PlainKeys
    <3>2. QED
      BY <3>1, FilesFollowPrecedence
  <2>2. QED
    BY <2>1, FilesFollowPrecedence
<1>2. c = [ca_cert    |-> OrElse(s.args.ca_cert, file.cert),
           ca_key     |-> OrElse(s.args.ca_key, file.key),
           enable_ca  |-> ~ s.args.noca /\ file.noca # TRUE,
           listen     |-> SplitHostPort(OrElse(OrElse(s.args.listen, file.listen), DefaultListen)),
           cache_size |-> OrElse(section.cache_size, 1000),
           rules      |-> OrElse(section.rules, <<>>) \o cli]
  BY ZenonT(60) DEF LoadStartProxyConfig
<1> HIDE DEF file, c
<1>3. /\ file.cert = Said(s, "cert") /\ file.key = Said(s, "key")
      /\ file.noca = Said(s, "noca") /\ file.listen = Said(s, "listen")
  BY <1>1 DEF Setting, PlainKeys
<1>4. section.rules = Said(s, "rules") /\ section.cache_size = Said(s, "cache_size")
  <2>1. \A k \in SectionKeys : section[k] = Setting(file, k)
    BY DEF Setting, SectionKeys, PlainKeys, OrElse
  <2>2. QED
    BY <1>1, <2>1 DEF SectionKeys
<1>5. IsList(own)
  <2>1. Said(s, "rules") \in RuleLists \cup {NONE}
    <3>1. file.proxy_manager = NONE \/ file.proxy_manager \in Sections
      BY <1>1 DEF Merged
    <3>2. section.rules \in RuleLists \cup {NONE}
      BY <3>1 DEF Sections, OrElse
    <3>3. QED
      BY <1>4, <3>2
  <2>2. IsList(<<>>)
    BY DEF IsList
  <2>3. QED
    BY <2>1, <2>2, SectionsAssumption DEF OrElse
<1>6. IsList(cli) /\ Len(cli) = Len(s.args.rules)
  <2>1. IsList(s.args.rules)
    BY SourcesAssumption
  <2>2. Len(s.args.rules) \in Nat /\ DOMAIN s.args.rules = 1 .. Len(s.args.rules)
    BY <2>1 DEF IsList
  <2>3. DOMAIN cli = 1 .. Len(s.args.rules)
    BY <2>2
  <2>4. cli \in [1 .. Len(s.args.rules) -> {cli[i] : i \in DOMAIN cli}]
    BY <2>3
  <2>5. cli \in Seq({cli[i] : i \in DOMAIN cli})
    BY <2>2, <2>4
  <2>6. QED
    BY <2>2, <2>3, <2>5 DEF IsList
<1> DEFINE text == s.args.rules
<1>7. DOMAIN text = 1 .. Len(cli) /\ \A i \in DOMAIN text : cli[i] = ParseRuleArg(text[i])
  <2>1. DOMAIN text = 1 .. Len(text)
    BY SourcesAssumption DEF IsList
  <2>2. QED
    BY <1>6, <2>1
<1> HIDE DEF section, cli, text
<1>8. c.rules = own \o cli
  BY <1>2, <1>4
<1> HIDE DEF own
<1>9. Len(c.rules) = Len(own) + Len(s.args.rules) /\ \A i \in 1 .. Len(own) : c.rules[i] = own[i]
  <2>1. Len(own \o cli) = Len(own) + Len(cli) /\ \A i \in 1 .. Len(own) : (own \o cli)[i] = own[i]
    BY <1>5, <1>6, ListsAppend, Zenon
  <2>2. QED
    BY <1>6, <1>8, <2>1
<1> DEFINE l == OrElse(s.args.listen, Said(s, "listen"))
<1>10. c.listen = IF l # NONE /\ IsPort(l.port) THEN l ELSE DefaultListen
  BY <1>2, <1>3 DEF SplitHostPort, OrElse
<1>11. /\ c.ca_cert = OrElse(s.args.ca_cert, Said(s, "cert"))
       /\ c.ca_key = OrElse(s.args.ca_key, Said(s, "key"))
       /\ c.cache_size = OrElse(Said(s, "cache_size"), 1000)
  BY <1>2, <1>3, <1>4
<1>12. c.enable_ca = (~ s.args.noca /\ Said(s, "noca") # TRUE)
  BY <1>2, <1>3
<1> HIDE DEF l
<1>13. /\ c.ca_cert = OrElse(s.args.ca_cert, Said(s, "cert"))
       /\ c.ca_key = OrElse(s.args.ca_key, Said(s, "key"))
       /\ c.enable_ca = (~ s.args.noca /\ Said(s, "noca") # TRUE)
       /\ c.listen = (IF l # NONE /\ IsPort(l.port) THEN l ELSE DefaultListen)
       /\ c.cache_size = OrElse(Said(s, "cache_size"), 1000)
       /\ Len(c.rules) = Len(own) + Len(s.args.rules)
       /\ \A i \in 1 .. Len(own) : c.rules[i] = own[i]
  BY <1>9, <1>10, <1>11, <1>12, ZenonT(60)
<1>14. AsSaid(c, s)
  BY <1>13, ZenonT(60) DEF AsSaid, own, l
<1>15. EndsWithArgs(c, s)
  <2>1. IsList(own) /\ IsList(cli)
    BY <1>5, <1>6
  <2>2. /\ IsList(own \o cli) /\ DOMAIN (own \o cli) = 1 .. Len(own) + Len(cli)
        /\ Len(own) \in Nat /\ Len(cli) \in Nat
        /\ \A i \in 1 .. Len(cli) : (own \o cli)[Len(own) + i] = cli[i]
    BY <2>1, ListsAppend
  <2>3. IsList(c.rules) /\ DOMAIN c.rules = 1 .. Len(own) + Len(cli)
    BY <1>8, <2>2, Zenon
  <2>4. ASSUME NEW i \in DOMAIN text
        PROVE  \E j \in DOMAIN c.rules : c.rules[j] = ParseRuleArg(text[i])
    <3>1. i \in 1 .. Len(cli) /\ cli[i] = ParseRuleArg(text[i])
      BY <1>7
    <3>2. Len(own) + i \in DOMAIN c.rules /\ c.rules[Len(own) + i] = cli[i]
      BY <1>8, <2>2, <2>3, <3>1
    <3>3. QED
      BY <3>1, <3>2
  <2>5. QED
    BY <2>3, <2>4 DEF EndsWithArgs, text
<1>16. QED
  BY <1>14, <1>15 DEF c

-----------------------------------------------------------------------------
(* The theorems                                                            *)

LEMMA InitIInv == Init => IInv
<1> SUFFICES ASSUME Init PROVE IInv
  OBVIOUS
<1>1. \A p \in Pairs : \A g, h \in Gens \cup {OLD} :
        files[CertFile(p)] = Cert(g) /\ files[KeyFile(p)] = Key(h) => g = OLD /\ h = OLD
  <2>1. CertFile("default") \in Paths /\ KeyFile("default") \in Paths
    BY Distinct DEF Pairs
  <2>2. \A p \in Pairs : files[CertFile(p)] \in {NONE, Cert(OLD)} /\ files[KeyFile(p)] \in {NONE, Key(OLD)}
    BY Distinct DEF Init, Pairs
  <2>3. QED
    BY <2>2, Distinct, ContentsAssumption
<1>2. files \in [Paths -> Contents \cup {NONE, TORN}]
  BY Distinct DEF Init, Pairs
<1>3. TypeOK
  <2>1. gpc \in [Gens -> Steps] /\ certAt \in [Gens -> Pairs] /\ keyAt \in [Gens -> Pairs]
    BY DEF Init, Steps, Pairs
  <2>2. agreed \in [Gens -> SUBSET Paths]
    BY DEF Init
  <2>3. named \subseteq Gens /\ together \subseteq Gens /\ unasked \subseteq Gens /\ apart \subseteq Pairs
    BY DEF Init
  <2>4. server = "off" /\ sources \in ConfigSources /\ sources # NONE /\ sound \in BOOLEAN
    BY SourcesAssumption DEF Init
  <2>5. loaded \in [{"cert", "key"} -> Gens \cup {OLD, NONE}]
    BY DEF Init
  <2>6. QED
    BY <1>2, <2>1, <2>2, <2>3, <2>4, <2>5 DEF TypeOK, Stages
<1>4. Alone /\ DefaultsUnlessNamed /\ Consent /\ UnaskedHasAReason /\ Touched
  BY DEF Init, Alone, Working, DefaultsUnlessNamed, Consent, UnaskedHasAReason, Touched, Writing
<1>5. FilesBelong /\ ApartHasAReason
  BY <1>1 DEF Init, FilesBelong, ApartHasAReason
<1>6. NotYetSound /\ LoadedCert /\ ServedPairBelongs /\ CfgIsRead
  BY DEF Init, NotYetSound, LoadedCert, ServedPairBelongs, CfgIsRead
<1>7. QED
  BY <1>3, <1>4, <1>5, <1>6 DEF IInv

LEMMA NextKeeps == IInv /\ [Next]_vars => IInv'
<1> SUFFICES ASSUME IInv, [Next]_vars PROVE IInv'
  OBVIOUS
<1>1. ASSUME NEW g \in Gens, NEW c \in PathOptions, NEW k \in PathOptions, GenCa(g, c, k)
      PROVE  IInv'
  BY <1>1, GenCaKeeps
<1>2. ASSUME NEW g \in Gens, ConfirmCert(g) \/ ConfirmKey(g) PROVE IInv'
  BY <1>2, ConfirmKeeps
<1>3. ASSUME NEW g \in Gens, TruncateCert(g) \/ TruncateKey(g) PROVE IInv'
  BY <1>3, TruncateKeeps
<1>4. ASSUME NEW g \in Gens, WriteCert(g) PROVE IInv'
  BY <1>4, WriteCertKeeps
<1>5. ASSUME NEW g \in Gens, WriteKey(g) PROVE IInv'
  BY <1>5, WriteKeyKeeps
<1>6. ASSUME NEW g \in Gens, GenCaFails(g) PROVE IInv'
  BY <1>6, FailureKeeps
<1>7. CASE ReadConfiguration \/ StartProxy \/ LoadCert \/ LoadKey \/ StartAgain
  BY <1>7, StartKeeps
<1>8. CASE UNCHANGED vars
  BY <1>8 DEF vars, gen, start, IInv, TypeOK, Alone, Working, DefaultsUnlessNamed, Consent,
              UnaskedHasAReason, Touched, FilesBelong, ApartHasAReason, NotYetSound,
              LoadedCert, ServedPairBelongs, CfgIsRead
<1>9. QED
  BY <1>1, <1>2, <1>3, <1>4, <1>5, <1>6, <1>7, <1>8 DEF Next

LEMMA Always == Spec => []IInv
BY InitIInv, NextKeeps, PTL DEF Spec

\* Every variable has its type; the port that is listened on has 16 bits.
THEOREM TypeCorrect == Spec => []TypeOK
<1>1. IInv => TypeOK
  BY DEF IInv
<1>2. QED
  BY <1>1, Always, PTL

\* The proxy's certificate and key are from one run of gen-ca, if their pair was written
\* as one and nobody wrote while they were loaded (start_proxy.rs:132, gen_ca.rs:72).
THEOREM PairsBelong == Spec => []ServedPairBelongs
<1>1. IInv => ServedPairBelongs
  BY DEF IInv
<1>2. QED
  BY <1>1, Always, PTL

\* Only a run that is writing or failed, that had two pairs of paths or company, tears a
\* pair of files apart (gen_ca.rs:53-73).
THEOREM TornByRuns == Spec => []ApartHasAReason
<1>1. IInv => ApartHasAReason
  BY DEF IInv
<1>2. QED
  BY <1>1, Always, PTL

\* Only runs that were given a path, or were not alone, overwrite without having asked
\* (gen_ca.rs:51).
THEOREM AskedFirst == Spec => []UnaskedHasAReason
<1>1. IInv => UnaskedHasAReason
  BY DEF IInv
<1>2. QED
  BY <1>1, Always, PTL

\* Every setting start-proxy runs with is the one of the most important source that gives it,
\* each on its own, whatever the files and the command line say (config.rs:82-190).
THEOREM PrecedenceHolds == Spec => []ConfigFollowsPrecedence
<1>1. IInv => ConfigFollowsPrecedence
  <2>1. SUFFICES ASSUME IInv, server = "configured", sources # NONE
                 PROVE  ConfigFollowsPrecedence
    BY DEF ConfigFollowsPrecedence
  <2>2. sources \in ConfigSources /\ cfg = LoadStartProxyConfig(sources) /\ cfg # ERROR
    BY <2>1 DEF IInv, CfgIsRead
  <2>3. AsSaid(cfg, sources)
    BY <2>2, ReadAsSaid
  <2>4. QED
    BY <2>1, <2>3, ZenonT(60) DEF AsSaid, ConfigFollowsPrecedence
<1>2. QED
  BY <1>1, Always, PTL

\* A rule of the command line that is not accepted ends the start.
LEMMA AcceptedOnly ==
  ASSUME NEW s, LoadStartProxyConfig(s) # ERROR
  PROVE  \A i \in DOMAIN s.args.rules : ParseRuleArg(s.args.rules[i]) # ERROR
<1> DEFINE cli == [i \in DOMAIN s.args.rules |-> ParseRuleArg(s.args.rules[i])]
<1>1. (\E i \in DOMAIN cli : cli[i] = ERROR) => LoadStartProxyConfig(s) = ERROR
  BY ZenonT(60) DEF LoadStartProxyConfig
<1>2. QED
  BY <1>1

\* What is made of a rule of the command line that was taken.
LEMMA ParsedIs ==
  ASSUME NEW text, ParseRuleArg(text) # ERROR
  PROVE  LET r == ParseRuleArg(text)
             Given(k) == IF k \in DOMAIN text THEN text[k] ELSE NONE
         IN /\ r.protocol = text["protocol"] /\ r.protocol \in {"http", "https"}
            /\ r.host = text["host"] /\ r.host = Given("host")
            /\ r.path = Given("path")
            /\ r.target_host = text["target_host"] /\ r.target_path = Given("target_path")
            /\ r.target_protocol = Given("target_protocol")
            /\ r.target_protocol \in {"http", "https", NONE}
BY DEF ParseRuleArg, Required, RuleKeys

\* Each rule that is not left out is run with.
LEMMA RulesRun ==
  ASSUME NEW items, IsList(items), NEW i \in DOMAIN items, ~ IsInvalid(items[i])
  PROVE  \E j \in DOMAIN RuntimeRules(items) : RuntimeRules(items)[j] = RuleItemToRuntime(items[i])
<1> DEFINE made == [k \in DOMAIN items |-> RuleItemToRuntime(items[k])]
           S == {made[k] : k \in DOMAIN items}
           valid == {k \in DOMAIN items : ~ IsInvalid(items[k])}
<1>1. Len(items) \in Nat /\ DOMAIN items = 1 .. Len(items)
  BY DEF IsList
<1>2. made \in [1 .. Len(items) -> S]
  BY <1>1
<1>3. made \in Seq(S)
  BY <1>1, <1>2
<1>4. i \in valid \cap DOMAIN made /\ made[i] = RuleItemToRuntime(items[i])
  OBVIOUS
<1>5. RuntimeRules(items) = Kept(made, valid)
  BY DEF RuntimeRules
<1> HIDE DEF made, S, valid
<1>6. QED
  BY <1>3, <1>4, <1>5, KeptElements

\* No rule the command line accepts is left out without an error, nor is another than the one
\* that was asked for run with (args.rs:100-145, start_proxy.rs:66-101 and 176-182).
THEOREM AcceptedRun == Spec => []AcceptedRulesRun
<1>1. IInv => AcceptedRulesRun
  <2>1. SUFFICES ASSUME IInv, server = "configured", sources # NONE
                 PROVE  AcceptedRulesRun
    BY DEF AcceptedRulesRun
  <2>2. sources \in ConfigSources /\ cfg = LoadStartProxyConfig(sources) /\ cfg # ERROR
    BY <2>1 DEF IInv, CfgIsRead
  <2>3. EndsWithArgs(cfg, sources)
    BY <2>2, ReadAsSaid
  <2>4. \A i \in DOMAIN sources.args.rules : ParseRuleArg(sources.args.rules[i]) # ERROR
    BY <2>2, AcceptedOnly
  <2>5. ASSUME NEW i \in DOMAIN sources.args.rules
        PROVE  LET text == sources.args.rules[i]
                   Given(k) == IF k \in DOMAIN text THEN text[k] ELSE NONE
               IN (Given("host") \notin BadPatterns /\ Given("path") \notin BadPatterns) =>
                    \E j \in DOMAIN RuntimeRules(cfg.rules) :
                      LET r == RuntimeRules(cfg.rules)[j]
                      IN /\ r.pattern.protocol = text["protocol"] /\ r.pattern.host = text["host"]
                         /\ r.pattern.path = Given("path")
                         /\ r.target.host = text["target_host"] /\ r.target.path = Given("target_path")
                         /\ r.target.protocol = OrElse(Given("target_protocol"), "http")
    <3> DEFINE text == sources.args.rules[i]
               Given(k) == IF k \in DOMAIN text THEN text[k] ELSE NONE
               item == ParseRuleArg(text)
    <3>1. SUFFICES ASSUME Given("host") \notin BadPatterns, Given("path") \notin BadPatterns
                   PROVE  \E j \in DOMAIN RuntimeRules(cfg.rules) :
                      LET r == RuntimeRules(cfg.rules)[j]
                      IN /\ r.pattern.protocol = text["protocol"] /\ r.pattern.host = text["host"]
                         /\ r.pattern.path = Given("path")
                         /\ r.target.host = text["target_host"] /\ r.target.path = Given("target_path")
                         /\ r.target.protocol = OrElse(Given("target_protocol"), "http")
      OBVIOUS
    <3>2. /\ item.protocol = text["protocol"] /\ item.protocol \in {"http", "https"}
          /\ item.host = text["host"] /\ item.host = Given("host")
          /\ item.path = Given("path")
          /\ item.target_host = text["target_host"] /\ item.target_path = Given("target_path")
          /\ item.target_protocol = Given("target_protocol")
          /\ item.target_protocol \in {"http", "https", NONE}
      BY <2>4, ParsedIs
    <3>3. ~ IsInvalid(item)
      BY <3>1, <3>2 DEF IsInvalid
    <3>4. IsList(cfg.rules) /\ \E j \in DOMAIN cfg.rules : cfg.rules[j] = item
      BY <2>3 DEF EndsWithArgs
    <3>5. \E j \in DOMAIN RuntimeRules(cfg.rules) :
            RuntimeRules(cfg.rules)[j] = RuleItemToRuntime(item)
      BY <3>3, <3>4, RulesRun
    <3> DEFINE r == RuleItemToRuntime(item)
    <3>6. /\ r.pattern.protocol = text["protocol"] /\ r.pattern.host = text["host"]
          /\ r.pattern.path = Given("path")
          /\ r.target.host = text["target_host"] /\ r.target.path = Given("target_path")
          /\ r.target.protocol = OrElse(Given("target_protocol"), "http")
      <4> HIDE DEF item
      <4>1. QED
        BY <3>2 DEF RuleItemToRuntime
    <3>7. QED
      <4>1. PICK j \in DOMAIN RuntimeRules(cfg.rules) : RuntimeRules(cfg.rules)[j] = r
        BY <3>5
      <4> HIDE DEF r
      <4>2. QED
        BY <3>6, <4>1
  <2>6. QED
    BY <2>5 DEF AcceptedRulesRun
<1>2. QED
  BY <1>1, Always, PTL
=============================================================================
