------------------------------- MODULE CaFiles -------------------------------
(***************************************************************************)
(* The files of the CA: gen-ca writes a certificate and its key, one after *)
(* the other (proxy-fork-cli, gen_ca.rs); start-proxy reads its            *)
(* configuration and loads one certificate and one key                     *)
(* (start_proxy.rs, certification.rs).  Any number of gen-ca run beside    *)
(* each other and beside a start, and may end at any step.                 *)
(*                                                                         *)
(* Two pairs of paths: the defaults, and the ones users name.  Nothing but *)
(* gen-ca writes the files, and writing is two steps, as in fs::write: the *)
(* file is cut to nothing, then filled.                                    *)
(*                                                                         *)
(* Definitions named X_... are slips one could make in X; no specification *)
(* uses them.                                                              *)
(***************************************************************************)
EXTENDS Configuration

CONSTANTS
  Gens,          \* runs of gen-ca; a certificate and a key are known by their run
  OLD,           \* the run that made the files there are at the beginning
  TORN,          \* what a file contains while it is being written
  CacheSizes, RuleLists, \* what a file's section on the proxy manager can say
  ConfigSources, \* what start-proxy may find: files and command lines
  SystemStore    \* certificates installed in the system: common name and run

Pairs == {"default", "custom"}
CertFile(p) == <<p, "cert">>
KeyFile(p)  == <<p, "key">>
PathOptions == Pairs \cup {NONE}
Paths == Pairs \X {"cert", "key"}

Cert(g) == <<"cert", g>>
Key(g)  == <<"key", g>>
Contents == {Cert(g) : g \in Gens \cup {OLD}} \cup {Key(g) : g \in Gens \cup {OLD}}

ASSUME ContentsAssumption ==
  /\ OLD \notin Gens
  /\ NONE \notin Contents \cup Gens \cup {OLD, TORN} /\ TORN \notin Contents

ASSUME SystemAssumption == \A s \in SystemStore : s.made_by \in Gens \cup {OLD}

IsList(l) == l \in Seq({l[i] : i \in DOMAIN l})
Sections == [cache_size : CacheSizes \cup {NONE}, rules : RuleLists \cup {NONE}]

ASSUME SectionsAssumption == NONE \notin Sections /\ \A l \in RuleLists : IsList(l)

\* What a file can say (FileConfig), and that of a command line which names paths.
ASSUME SourcesAssumption ==
  /\ NONE \notin ConfigSources
  /\ \A s \in ConfigSources :
       /\ s.args.ca_cert \in PathOptions /\ s.args.ca_key \in PathOptions
       /\ IsList(s.args.rules)
       /\ \A file \in {s.user, s.proxy_fork, s.config, s.cli} \ {MISSING, UNREADABLE} :
            /\ DOMAIN file = DOMAIN NoFileConfig
            /\ file.cert \in PathOptions /\ file.key \in PathOptions
            /\ file.proxy_manager \in Sections \cup {NONE}

VARIABLES
  files,     \* per path NONE, TORN or its contents
  gpc,       \* where a run of gen-ca is
  certAt,    \* the pair of paths its certificate goes to,
  keyAt,     \* and its key
  agreed,    \* the paths its user has agreed to overwrite
  named,     \* history: runs that were given a path
  together,  \* history: runs that were not alone
  unasked,   \* history: runs that overwrote a file without having asked
  apart,     \* history: pairs of paths not written as a pair since they were touched
  sources,   \* what start-proxy reads its configuration from
  cfg,       \* what it has read
  server,    \* where start-proxy is
  loaded,    \* the runs its certificate and its key are from
  sound      \* history: while they were loaded their pair was written and nobody wrote

gen   == <<gpc, certAt, keyAt, agreed, named, together, unasked>>
start == <<sources, cfg, server, loaded>>
vars  == <<files, gen, apart, start, sound>>

-----------------------------------------------------------------------------
(* gen-ca                                                                  *)

Working(g) == gpc[g] \notin {"idle", "done", "cancelled", "failed"}

UsingDefaults(c, k) == c = NONE /\ k = NONE

\* The pair itself is made at once, and only then it is asked where to put it.
\* Bound: not before start-proxy has read its configuration, which is in other files.
GenCa(g, c, k) ==
  /\ gpc[g] = "idle" /\ sources = NONE
  /\ gpc' = [gpc EXCEPT ![g] = IF UsingDefaults(c, k) THEN "confirm_cert" ELSE "cert"]
  /\ certAt' = [certAt EXCEPT ![g] = OrElse(c, "default")]
  /\ keyAt' = [keyAt EXCEPT ![g] = OrElse(k, "default")]
  /\ named' = IF UsingDefaults(c, k) THEN named ELSE named \cup {g}
  /\ LET others == {o \in Gens : Working(o)}
     IN together' = IF others = {} THEN together ELSE together \cup others \cup {g}
  /\ UNCHANGED <<files, agreed, unasked, apart, start, sound>>

\* confirm_overwrite: no question if there is no file, and no is the default.
ConfirmOverwrite(g, at, path, next) ==
  /\ gpc[g] = at
  /\ \/ /\ files[path] = NONE
        /\ gpc' = [gpc EXCEPT ![g] = next]
        /\ UNCHANGED agreed
     \/ /\ files[path] # NONE
        /\ gpc' = [gpc EXCEPT ![g] = next]
        /\ agreed' = [agreed EXCEPT ![g] = @ \cup {path}]
     \/ /\ files[path] # NONE
        /\ gpc' = [gpc EXCEPT ![g] = "cancelled"]
        /\ UNCHANGED agreed
  /\ UNCHANGED <<files, certAt, keyAt, named, together, unasked, apart, start, sound>>

\* Slip: one question for both files.
ConfirmCert_ForBoth(g) == ConfirmOverwrite(g, "confirm_cert", CertFile("default"), "cert")

\* Slip: the certificate's file is opened before the key's is asked for.
ConfirmCert_ThenOpen(g) ==
  /\ gpc[g] = "confirm_cert"
  /\ gpc' = [gpc EXCEPT ![g] = "confirm_key"]
  /\ files' = [files EXCEPT ![CertFile("default")] = TORN]
  /\ apart' = apart \cup {"default"}
  /\ sound' = FALSE
  /\ UNCHANGED <<certAt, keyAt, agreed, named, together, unasked, start>>

ConfirmCert(g) == ConfirmOverwrite(g, "confirm_cert", CertFile("default"), "confirm_key")
ConfirmKey(g)  == ConfirmOverwrite(g, "confirm_key", KeyFile("default"), "cert")

\* Opening a file for writing empties it.
Truncate(g, path, next) ==
  /\ gpc' = [gpc EXCEPT ![g] = next]
  /\ files' = [files EXCEPT ![path] = TORN]
  /\ unasked' = IF files[path] # NONE /\ path \notin agreed[g] THEN unasked \cup {g} ELSE unasked
  /\ apart' = apart \cup {path[1]}
  /\ sound' = FALSE
  /\ UNCHANGED <<certAt, keyAt, agreed, named, together, start>>

TruncateCert(g) == gpc[g] = "cert" /\ Truncate(g, CertFile(certAt[g]), "cert_torn")
TruncateKey(g)  == gpc[g] = "key"  /\ Truncate(g, KeyFile(keyAt[g]), "key_torn")

WriteCert(g) ==
  /\ gpc[g] = "cert_torn"
  /\ files' = [files EXCEPT ![CertFile(certAt[g])] = Cert(g)]
  /\ gpc' = [gpc EXCEPT ![g] = "key"]
  /\ sound' = FALSE
  /\ UNCHANGED <<certAt, keyAt, agreed, named, together, unasked, apart, start>>

WriteKey(g) ==
  /\ gpc[g] = "key_torn"
  /\ files' = [files EXCEPT ![KeyFile(keyAt[g])] = Key(g)]
  /\ gpc' = [gpc EXCEPT ![g] = "done"]
  /\ apart' = IF certAt[g] = keyAt[g] /\ g \notin together THEN apart \ {keyAt[g]} ELSE apart
  /\ sound' = FALSE
  /\ UNCHANGED <<certAt, keyAt, agreed, named, together, unasked, start>>

\* No directory can be made, a write fails, the terminal or the machine is gone.
GenCaFails(g) ==
  /\ Working(g)
  /\ gpc' = [gpc EXCEPT ![g] = "failed"]
  /\ UNCHANGED <<files, certAt, keyAt, agreed, named, together, unasked, apart, start, sound>>

-----------------------------------------------------------------------------
(* start-proxy                                                             *)

\* load_start_proxy_config, and what is made of its rules.
ReadConfiguration ==
  /\ server = "off" /\ sources # NONE
  /\ cfg' = LoadStartProxyConfig(sources)
  /\ server' = IF cfg' = ERROR THEN "failed" ELSE "configured"
  /\ UNCHANGED <<files, gen, apart, sources, loaded, sound>>

\* Slip: each path on its own falls back to its default.
CertSource_OnItsOwn(c) == IF c.ca_cert = NONE THEN "default" ELSE c.ca_cert

\* The three ways to a certificate: both paths are given, only the key's is, or not
\* the key's; then both files are the default ones, whatever is said of the certificate.
CertSource(c) ==
  IF c.ca_key = NONE THEN "default" ELSE IF c.ca_cert = NONE THEN "system" ELSE c.ca_cert
KeySource(c) == IF c.ca_key = NONE THEN "default" ELSE c.ca_key

\* Of the configuration nothing but the CA matters from here on.
OfCa(c) == [ca_cert |-> c.ca_cert, ca_key |-> c.ca_key, enable_ca |-> c.enable_ca]

StartProxy ==
  /\ server = "configured"
  /\ server' = IF cfg.enable_ca THEN "load_cert" ELSE "up"
  /\ cfg' = OfCa(cfg)
  /\ sources' = NONE
  /\ UNCHANGED <<files, gen, apart, loaded, sound>>

\* get_system_cert_by_name(APP_NAME), or the file; neither is checked against the key.
CertsAt(source) ==
  IF source = "system" THEN {s.made_by : s \in {t \in SystemStore : t.cn = "proxy-fork"}}
  ELSE {g \in Gens \cup {OLD} : files[CertFile(source)] = Cert(g)}

\* load_ca_from_sources: no certificate, or a file that is none, and the start panics.
LoadCert ==
  /\ server = "load_cert"
  /\ LET found == CertsAt(CertSource(cfg))
     IN \/ /\ found = {}
           /\ server' = "failed"
           /\ UNCHANGED <<loaded, sound>>
        \/ \E g \in found :
             /\ server' = "load_key"
             /\ loaded' = [loaded EXCEPT !.cert = g]
             /\ sound' = (CertSource(cfg) \notin apart \cup {"system"})
  /\ UNCHANGED <<files, gen, apart, sources, cfg>>

LoadKey ==
  /\ server = "load_key"
  /\ \/ \E g \in Gens \cup {OLD} :
          /\ files[KeyFile(KeySource(cfg))] = Key(g)
          /\ server' = "up"
          /\ loaded' = [loaded EXCEPT !.key = g]
     \/ /\ \A g \in Gens \cup {OLD} : files[KeyFile(KeySource(cfg))] # Key(g)
        /\ server' = "failed"
        /\ UNCHANGED loaded
  /\ UNCHANGED <<files, gen, apart, sources, cfg, sound>>

\* The proxy has ended, or failed to start, and is started again in the same way.
StartAgain ==
  /\ server \in {"up", "failed"} /\ sources = NONE
  /\ server' = "configured"
  /\ loaded' = [cert |-> NONE, key |-> NONE]
  /\ sound' = FALSE
  /\ UNCHANGED <<files, gen, apart, sources, cfg>>

-----------------------------------------------------------------------------
Init ==
  /\ files \in {[p \in Paths |-> NONE],
                [p \in Paths |-> IF p = CertFile("default") THEN Cert(OLD)
                                 ELSE IF p = KeyFile("default") THEN Key(OLD) ELSE NONE]}
  /\ gpc = [g \in Gens |-> "idle"]
  /\ certAt = [g \in Gens |-> "default"]
  /\ keyAt = [g \in Gens |-> "default"]
  /\ agreed = [g \in Gens |-> {}]
  /\ named = {} /\ together = {} /\ unasked = {} /\ apart = {}
  /\ sources \in ConfigSources /\ cfg = NONE
  /\ server = "off"
  /\ loaded = [cert |-> NONE, key |-> NONE]
  /\ sound = FALSE

Next ==
  \/ \E g \in Gens :
       \/ \E c, k \in PathOptions : GenCa(g, c, k)
       \/ ConfirmCert(g)  \/ ConfirmKey(g)
       \/ TruncateCert(g) \/ WriteCert(g)
       \/ TruncateKey(g)  \/ WriteKey(g)
       \/ GenCaFails(g)
  \/ ReadConfiguration \/ StartProxy \/ LoadCert \/ LoadKey \/ StartAgain

Spec == Init /\ [][Next]_vars

-----------------------------------------------------------------------------
(* Properties                                                              *)

Steps == {"idle", "confirm_cert", "confirm_key", "cert", "cert_torn", "key", "key_torn",
          "done", "cancelled", "failed"}
Stages == {"off", "configured", "load_cert", "load_key", "up", "failed"}

\* Every variable has its type; what is listened on is a port of 16 bits.
TypeOK ==
  /\ files \in [Paths -> Contents \cup {NONE, TORN}]
  /\ gpc \in [Gens -> Steps]
  /\ certAt \in [Gens -> Pairs] /\ keyAt \in [Gens -> Pairs]
  /\ agreed \in [Gens -> SUBSET Paths]
  /\ named \subseteq Gens /\ together \subseteq Gens /\ unasked \subseteq Gens /\ apart \subseteq Pairs
  /\ server \in Stages
  /\ server = "off" => sources \in ConfigSources
  /\ server = "configured" /\ sources # NONE => cfg.listen.port \in Ports
  /\ server \in {"load_cert", "load_key", "up"} => sources = NONE
  /\ server = "configured" \/ sources = NONE =>
       cfg.ca_cert \in PathOptions /\ cfg.ca_key \in PathOptions
  /\ loaded \in [{"cert", "key"} -> Gens \cup {OLD, NONE}]
  /\ sound \in BOOLEAN

\* The user names a certificate and a key that are no pair.
NamesNoPair(c) == c.ca_cert # NONE /\ c.ca_key # NONE /\ c.ca_cert # c.ca_key

\* The certificate and the key a proxy runs with are from one run of gen-ca, if the files
\* they come from were written as a pair and nobody wrote while they were loaded: whatever
\* combination of paths is given, whichever runs failed or were cancelled before.
ServedPairBelongs ==
  server = "up" /\ sound /\ ~ NamesNoPair(cfg) => loaded.cert = loaded.key

\* Files that were a pair are torn apart only by a run that writes them now or failed at it,
\* that puts certificate and key to different pairs of paths, or that was not alone; a
\* user who declines, at whichever question, leaves a pair as it was.
ApartHasAReason ==
  \A p \in apart : \E g \in Gens :
    /\ p \in {certAt[g], keyAt[g]}
    /\ \/ gpc[g] \in {"cert_torn", "key", "key_torn", "failed"}
       \/ gpc[g] = "done" /\ (certAt[g] # keyAt[g] \/ g \in together)

\* A run overwrites a file nobody agreed to lose only if it was given a path, which is
\* taken for consent to both, or another run made the file after the question.
UnaskedHasAReason ==
  \A g \in unasked : g \in named \cup together

\* The files start-proxy looks into, the most important last.
FilesOf(s) == <<s.user, IF s.proxy_fork # MISSING THEN s.proxy_fork ELSE s.config, s.cli>>

Says(file, k) ==
  IF file \in {MISSING, UNREADABLE} THEN NONE
  ELSE IF k \in DOMAIN file THEN file[k]
  ELSE IF file.proxy_manager = NONE THEN NONE
  ELSE file.proxy_manager[k]

\* What the most important of the files that say anything of k says.
Said(s, k) ==
  LET givers == {i \in 1 .. 3 : Says(FilesOf(s)[i], k) # NONE}
  IN IF givers = {} THEN NONE
     ELSE Says(FilesOf(s)[CHOOSE i \in givers : \A j \in givers : j <= i], k)

\* Every setting is the one of the most important source that gives it (the command line,
\* --config's file, the directory's, the user's), each on its own: a file that
\* gives one setting of a section leaves the others to the files below it.
ConfigFollowsPrecedence ==
  server = "configured" /\ sources # NONE =>
    LET args == sources.args
        n    == Len(args.rules)
        own  == OrElse(Said(sources, "rules"), <<>>)
    IN /\ cfg.ca_cert = OrElse(args.ca_cert, Said(sources, "cert"))
       /\ cfg.ca_key = OrElse(args.ca_key, Said(sources, "key"))
       /\ cfg.enable_ca = (~ args.noca /\ Said(sources, "noca") # TRUE)
       /\ LET l == OrElse(args.listen, Said(sources, "listen"))
          IN cfg.listen = IF l # NONE /\ IsPort(l.port) THEN l
                          ELSE DefaultListen
       /\ cfg.cache_size = OrElse(Said(sources, "cache_size"), 1000)
       /\ Len(cfg.rules) = Len(own) + n
       /\ \A i \in 1 .. Len(own) : cfg.rules[i] = own[i]

\* A rule the command line accepts and whose patterns compile is run with, and with what it
\* asks for: a rule that is left out without an error is one of a file.
AcceptedRulesRun ==
  server = "configured" /\ sources # NONE =>
    \A i \in DOMAIN sources.args.rules :
      LET text == sources.args.rules[i]
          Given(k) == IF k \in DOMAIN text THEN text[k] ELSE NONE
      IN (Given("host") \notin BadPatterns /\ Given("path") \notin BadPatterns) =>
           \E j \in DOMAIN RuntimeRules(cfg.rules) :
             LET r == RuntimeRules(cfg.rules)[j]
             IN /\ r.pattern.protocol = text["protocol"] /\ r.pattern.host = text["host"]
                /\ r.pattern.path = Given("path")
                /\ r.target.host = text["target_host"] /\ r.target.path = Given("target_path")
                /\ r.target.protocol = OrElse(Given("target_protocol"), "http")
=============================================================================
