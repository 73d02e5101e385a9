---------------------------- MODULE Configuration ----------------------------
(***************************************************************************)
(* What start-proxy runs with (proxy-fork-cli, config.rs and args.rs): up  *)
(* to three files merged one after the other and the command line on top,  *)
(* and the rules made of what they list.  Pure.                            *)
(*                                                                         *)
(* A file is MISSING, UNREADABLE (it cannot be read or parsed) or what it  *)
(* says.  Texts are known by what they are parsed into: an address to      *)
(* listen on is a host and a port, a number is a number, though perhaps    *)
(* none that is a port.                                                    *)
(***************************************************************************)
EXTENDS Lists

CONSTANTS
  NONE,                  \* an option that is not given
  MISSING, UNREADABLE,   \* files
  ERROR,                 \* the program ends with an error
  BadPatterns            \* texts that are no pattern: regular expressions that do not compile

OrElse(option, other) == IF option # NONE THEN option ELSE other

Ports == 0 .. 65535
IsPort(n) == n \in Ports

-----------------------------------------------------------------------------
(* The files                                                               *)

\* FileConfig::default
NoFileConfig ==
  [cert |-> NONE, key |-> NONE, listen |-> NONE, noca |-> NONE, proxy_manager |-> NONE]

\* Slip: a section replaces the whole of the one before.
MergeSection_Whole(base, other) == OrElse(other, base)

MergeSection(base, other) ==
  IF base = NONE \/ other = NONE THEN OrElse(other, base)
  ELSE [k \in DOMAIN base |-> OrElse(other[k], base[k])]

MergeFileCfg(base, other) ==
  [k \in DOMAIN base |-> IF k = "proxy_manager" THEN MergeSection(base[k], other[k])
                         ELSE OrElse(other[k], base[k])]

\* The user's file and that of the directory: what cannot be read is passed over.
MergeIfReadable(base, file) ==
  IF file \in {MISSING, UNREADABLE} THEN base ELSE MergeFileCfg(base, file)

\* A proxy-fork.toml hides a config.toml even if it cannot be read.
FindFirstExisting(proxy_fork, config) ==
  IF proxy_fork # MISSING THEN proxy_fork ELSE config

-----------------------------------------------------------------------------
(* Rules                                                                   *)

RuleKeys == {"protocol", "host", "path", "port", "target_protocol", "target_host",
             "target_port", "path_transform", "target_path"}
Required == {"protocol", "host", "target_host"}

\* A rule of the command line: what it says of some keys.  A port that is none
\* counts as not given.
ParseRuleArg(text) ==
  IF \/ ~ Required \subseteq DOMAIN text
     \/ text["protocol"] \notin {"http", "https"}
     \/ "target_protocol" \in DOMAIN text /\ text["target_protocol"] \notin {"http", "https"}
  THEN ERROR
  ELSE [k \in RuleKeys |->
          IF k \notin DOMAIN text THEN NONE
          ELSE IF k \in {"port", "target_port"} /\ ~ IsPort(text[k]) THEN NONE
          ELSE text[k]]

\* Slip: the target's protocol is needed.
IsInvalid_NoDefault(r) ==
  \/ r.protocol \notin {"http", "https"}
  \/ r.target_protocol \notin {"http", "https"}
  \/ r.host \in BadPatterns \/ r.path \in BadPatterns

\* What rule_item_to_runtime makes nothing of; the rule is left out.
IsInvalid(r) ==
  \/ r.protocol \notin {"http", "https"}
  \/ r.target_protocol \notin {"http", "https", NONE}
  \/ r.host \in BadPatterns \/ r.path \in BadPatterns

\* The rule to add to the manager.
RuleItemToRuntime(r) ==
  [pattern |-> [protocol |-> r.protocol, host |-> r.host, port |-> r.port, path |-> r.path],
   target  |-> [protocol |-> OrElse(r.target_protocol, "http"), host |-> r.target_host,
                port |-> r.target_port, path |-> r.target_path,
                mode |-> IF r.path_transform \in {"prepend", "replace"}
                         THEN r.path_transform ELSE "preserve"]]

RuntimeRules(items) ==
  Kept([i \in DOMAIN items |-> RuleItemToRuntime(items[i])],
       {i \in DOMAIN items : ~ IsInvalid(items[i])})

-----------------------------------------------------------------------------
(* start-proxy's configuration                                             *)

DefaultHost   == "127.0.0.1"
DefaultListen == [host |-> DefaultHost, port |-> 7898]

\* Slip: what cannot be split is listened on as it is.
SplitHostPort_Any(listen) == listen

\* What is not host:port leaves the default of both.
SplitHostPort(listen) ==
  IF IsPort(listen.port) THEN listen ELSE DefaultListen

\* The sources: user, proxy_fork and config are files, the latter two in the current
\* directory; cli is the file of --config, MISSING if there is no such option;
\* args are the other options, args.rules the texts of --rule.
LoadStartProxyConfig(s) ==
  LET cwd     == FindFirstExisting(s.proxy_fork, s.config)
      silent  == MergeIfReadable(MergeIfReadable(NoFileConfig, s.user), cwd)
      file    == MergeIfReadable(silent, s.cli)
      section == OrElse(file.proxy_manager, [rules |-> NONE, cache_size |-> NONE])
      cli     == [i \in DOMAIN s.args.rules |-> ParseRuleArg(s.args.rules[i])]
      listen  == OrElse(s.args.listen, file.listen)
  IN IF (\E i \in DOMAIN cli : cli[i] = ERROR) \/ s.cli = UNREADABLE THEN ERROR
     ELSE [ca_cert    |-> OrElse(s.args.ca_cert, file.cert),
           ca_key     |-> OrElse(s.args.ca_key, file.key),
           enable_ca  |-> ~ s.args.noca /\ file.noca # TRUE,
           listen     |-> SplitHostPort(OrElse(listen, DefaultListen)),
           cache_size |-> OrElse(section.cache_size, 1000),
           rules      |-> OrElse(section.rules, <<>>) \o cli]
=============================================================================
