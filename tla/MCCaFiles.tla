----------------------------- MODULE MCCaFiles ------------------------------
(* CaFiles for TLC: two runs of gen-ca; every shape of every file of the    *)
(* configuration with a few command lines.                                  *)
EXTENDS CaFiles, TLC

CONSTANTS g1, g2

GenSymmetry == Permutations({g1, g2})

\* What gen-ca makes, installed by its user, and one whose common name is the one asked for.
MCSystemStore == {[cn |-> "Proxy-Fork CA", made_by |-> OLD], [cn |-> "proxy-fork", made_by |-> OLD]}

Number == [user |-> 1, proxy_fork |-> 2, config |-> 3, cli |-> 4, args |-> 5]

FileRule(of, target) ==
  [k \in RuleKeys |-> IF k = "protocol" THEN "http" ELSE IF k = "host" THEN of
                      ELSE IF k = "target_protocol" THEN target
                      ELSE IF k = "target_host" THEN "localhost" ELSE NONE]

\* What a file says: nothing, one half of the settings, or the other half and a rule
\* that cannot be run.
Shapes(of) ==
  {MISSING, UNREADABLE, NoFileConfig,
   [cert |-> "custom", key |-> NONE, listen |-> [host |-> of, port |-> Number[of]], noca |-> NONE,
    proxy_manager |-> [cache_size |-> NONE, rules |-> <<FileRule(of, "https")>>]],
   [cert |-> NONE, key |-> "custom", listen |-> NONE, noca |-> of # "user",
    proxy_manager |-> [cache_size |-> Number[of], rules |-> NONE]],
   [cert |-> "default", key |-> "default", listen |-> [host |-> of, port |-> 65536], noca |-> FALSE,
    proxy_manager |-> [cache_size |-> Number[of], rules |-> <<FileRule(of, "ftp")>>]]}

MCCacheSizes == 1 .. 5
MCRuleLists == {<<FileRule(of, target)>> : of \in DOMAIN Number, target \in {"https", "ftp"}}

RuleText(keys) == [k \in keys |->
  IF k \in {"protocol", "target_protocol"} THEN "https"
  ELSE IF k = "port" THEN 65536 ELSE IF k = "target_path" THEN "/v1" ELSE "example.com"]

NoArgs == [ca_cert |-> NONE, ca_key |-> NONE, noca |-> FALSE, listen |-> NONE, rules |-> <<>>]
CommandLines ==
  {NoArgs,
   [NoArgs EXCEPT !.noca = TRUE, !.listen = [host |-> "args", port |-> Number["args"]],
                  !.rules = <<RuleText(Required), RuleText(Required \cup {"port", "target_path"})>>],
   [NoArgs EXCEPT !.ca_cert = "default", !.ca_key = "custom",
                  !.rules = <<[RuleText(Required \cup {"path"}) EXCEPT !["path"] = "["],
                              RuleText(Required \cup {"target_protocol"})>>],
   [NoArgs EXCEPT !.rules = <<RuleText({"protocol", "host"})>>]}

MCConfigSources ==
  {[user |-> u, proxy_fork |-> p, config |-> c, cli |-> f, args |-> a] :
     u \in Shapes("user"), p \in Shapes("proxy_fork"), c \in Shapes("config"),
     f \in Shapes("cli"), a \in CommandLines}
=============================================================================
