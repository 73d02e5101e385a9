---------------------------- MODULE AddressRules ----------------------------
(***************************************************************************)
(* The pure part of the rule engine: how a request URI becomes an Address, *)
(* when a pattern accepts an Address, which rules go to the hash index and *)
(* under which key (http_address.rs, match_strategy.rs and the key half of *)
(* proxy_manage.rs).                                                       *)
(*                                                                         *)
(* A text (a host or a path) is a sequence of tokens.  The only tokens the *)
(* code looks at are "*" and "/"; every other token is an opaque word.     *)
(* A compiled regular expression is the set of texts it is a match for.    *)
(***************************************************************************)
EXTENDS Naturals, SequencesExt

CONSTANT NONE    \* Rust's Option::None

Texts     == Seq(STRING)
Protocols == {"http", "https"}

\* <Protocol as TryFrom<&Uri>>: a missing scheme counts as http, WebSocket
\* schemes are folded into the HTTP ones, anything else is an error (NONE).
ProtocolOf(uri) ==
  CASE uri.scheme \in {NONE, "http", "ws"} -> "http"
    [] uri.scheme \in {"https", "wss"}     -> "https"
    [] OTHER                               -> NONE

\* Address::from_uri; NONE is its Err.
FromUri(uri) ==
  IF ProtocolOf(uri) = NONE \/ uri.host = NONE
  THEN NONE
  ELSE [protocol |-> ProtocolOf(uri), host |-> uri.host,
        port |-> uri.port, path |-> uri.path]

-----------------------------------------------------------------------------
(* Matchers                                                                *)

\* PatternMatcher::from_str for a text without the "re:" prefix.
Matcher(text) ==
  [kind |-> IF Contains(text, "*") THEN "wildcard" ELSE "exact", text |-> text]

\* PatternMatcher::from_str for "re:...": language is what the regex accepts.
RegexMatcher(language) == [kind |-> "regex", language |-> language]

\* What from_str can make of a text.
IsMatcher(matcher) ==
  \/ matcher.kind = "regex"
  \/ matcher.text \in Texts /\ matcher = Matcher(matcher.text)

\* The wildcard branch of PatternMatcher::matches: one leading star is a
\* suffix match, otherwise one trailing star is a prefix match, otherwise the
\* stars are literal.
WildcardAccepts(text, value) ==
  CASE Head(text) = "*" -> IsSuffix(Tail(text), value)
    [] Head(text) # "*" /\ Last(text) = "*" -> IsPrefix(Front(text), value)
    [] OTHER -> value = text

\* PatternMatcher::matches
Accepts(matcher, value) ==
  CASE matcher.kind = "exact"    -> value = matcher.text
    [] matcher.kind = "wildcard" -> WildcardAccepts(matcher.text, value)
    [] matcher.kind = "regex"    -> value \in matcher.language

\* AddressPattern::matches
Matches(pattern, address) ==
  /\ pattern.protocol = address.protocol
  /\ pattern.port # NONE => address.port = pattern.port
  /\ Accepts(pattern.host, address.host)
  /\ pattern.path # NONE =>
       address.path # NONE /\ Accepts(pattern.path, address.path)

\* str::trim_end_matches for a single character.
TrimEnd(text, token) ==
  SubSeq(text, 1, CHOOSE n \in 0 .. Len(text) :
                     /\ \A i \in n + 1 .. Len(text) : text[i] = token
                     /\ n > 0 => text[n] # token)

\* The matched_path_prefix that find_target_with_match_info reports for a
\* pattern rule.
PrefixOf(pattern) ==
  IF pattern.path = NONE THEN NONE
  ELSE CASE pattern.path.kind = "exact"    -> pattern.path.text
         [] pattern.path.kind = "wildcard" -> TrimEnd(pattern.path.text, "*")
         [] pattern.path.kind = "regex"    -> NONE

-----------------------------------------------------------------------------
(* The hash index                                                          *)

\* ExactKey::normalize_port
NormalizePort(protocol, port) ==
  IF <<protocol, port>> \in {<<"http", 80>>, <<"https", 443>>} THEN NONE ELSE port

ExactKey_RawPort(protocol, host, port, path) ==
  [protocol |-> protocol, host |-> host, port |-> port, path |-> path]

\* ExactKey::new
ExactKey(protocol, host, port, path) ==
  [protocol |-> protocol, host |-> host,
   port |-> NormalizePort(protocol, port), path |-> path]

\* ExactKey::from_address
KeyOf(address) ==
  ExactKey(address.protocol, address.host, address.port, address.path)

\* The is_exact test of add_rule.
IsExact(pattern) ==
  /\ pattern.host.kind = "exact"
  /\ pattern.path # NONE => pattern.path.kind = "exact"

\* The key add_rule stores an exact pattern under.
PatternKey(pattern) ==
  ExactKey(pattern.protocol, pattern.host.text, pattern.port,
           IF pattern.path = NONE THEN NONE ELSE pattern.path.text)
=============================================================================
