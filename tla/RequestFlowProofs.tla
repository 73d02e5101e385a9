-------------------------- MODULE RequestFlowProofs --------------------------
(***************************************************************************)
(* Theorems about RequestFlow, for every list of rules and all requests:   *)
(* where a request goes, the Host it carries and the path it asks for.     *)
(***************************************************************************)
EXTENDS RequestFlow, ListProofs, SequenceTheorems

-----------------------------------------------------------------------------
(* Texts                                                                   *)

\* What TrimEnd leaves: the text up to its last token that is another one.
LEMMA Trimmed ==
  ASSUME NEW S, NEW text \in Seq(S), NEW token
  PROVE  \E n \in 0 .. Len(text) :
           /\ TrimEnd(text, token) = SubSeq(text, 1, n)
           /\ \A i \in n + 1 .. Len(text) : text[i] = token
           /\ n > 0 => text[n] # token
<1> DEFINE Rest(n) == \A i \in n + 1 .. Len(text) : text[i] = token
           T == {n \in 0 .. Len(text) : Rest(n)}
           Fits(n) == Rest(n) /\ (n > 0 => text[n] # token)
<1>1. Len(text) \in Nat
  OBVIOUS
<1>2. T \in SUBSET Nat /\ Len(text) \in T
  BY <1>1
<1>3. PICK n \in T : \A m \in T : n <= m
  <2> HIDE DEF T
  <2>1. QED
    BY <1>2, Least
<1>4. Fits(n)
  <2>1. SUFFICES ASSUME n > 0, text[n] = token PROVE FALSE
    BY <1>3
  <2>2. n - 1 \in 0 .. Len(text) /\ Rest(n - 1)
    BY <1>1, <1>3, <2>1
  <2>3. QED
    BY <1>3, <2>2
<1> DEFINE k == CHOOSE m \in 0 .. Len(text) : Fits(m)
<1>5. k \in 0 .. Len(text) /\ Fits(k)
  <2> HIDE DEF Fits
  <2>1. QED
    BY <1>3, <1>4
<1>6. TrimEnd(text, token) = SubSeq(text, 1, k)
  BY DEF TrimEnd
<1> HIDE DEF k
<1>7. QED
  BY <1>5, <1>6

\* A text that does not end with the token is left as it is.
LEMMA TrimKeeps ==
  ASSUME NEW S, NEW text \in Seq(S), NEW token,
         Len(text) > 0 => text[Len(text)] # token
  PROVE  TrimEnd(text, token) = text
<1>1. PICK n \in 0 .. Len(text) :
        /\ TrimEnd(text, token) = SubSeq(text, 1, n)
        /\ \A i \in n + 1 .. Len(text) : text[i] = token
  BY Trimmed
<1>2. Len(text) \in Nat
  OBVIOUS
<1>3. n = Len(text)
  <2>1. SUFFICES ASSUME n < Len(text) PROVE FALSE
    BY <1>2
  <2>2. Len(text) \in n + 1 .. Len(text) /\ Len(text) > 0
    BY <1>2, <2>1
  <2>3. QED
    BY <1>1, <2>2
<1>4. SubSeq(text, 1, Len(text)) = text
  OBVIOUS
<1>5. QED
  BY <1>1, <1>3, <1>4

\* What is left is a text that does not end with the token, and its tokens are
\* the first ones of the text.
LEMMA TrimLeaves ==
  ASSUME NEW S, NEW text \in Seq(S), NEW token
  PROVE  /\ TrimEnd(text, token) \in Seq(S)
         /\ Len(TrimEnd(text, token)) <= Len(text)
         /\ \A i \in 1 .. Len(TrimEnd(text, token)) : TrimEnd(text, token)[i] = text[i]
         /\ \A i \in Len(TrimEnd(text, token)) + 1 .. Len(text) : text[i] = token
         /\ TrimEnd(TrimEnd(text, token), token) = TrimEnd(text, token)
<1>1. PICK n \in 0 .. Len(text) :
        /\ TrimEnd(text, token) = SubSeq(text, 1, n)
        /\ \A i \in n + 1 .. Len(text) : text[i] = token
        /\ n > 0 => text[n] # token
  BY Trimmed
<1> DEFINE left == SubSeq(text, 1, n)
<1>2. Len(text) \in Nat /\ n \in Nat /\ n <= Len(text)
  OBVIOUS
<1>3. left \in Seq(S) /\ Len(left) = n /\ \A i \in 1 .. n : left[i] = text[i]
  BY <1>2
<1> HIDE DEF left
<1>4. Len(left) > 0 => left[Len(left)] # token
  BY <1>1, <1>2, <1>3
<1>5. TrimEnd(left, token) = left
  BY <1>3, <1>4, TrimKeeps
<1>6. TrimEnd(text, token) = left
  BY <1>1 DEF left
<1>7. QED
  BY <1>1, <1>2, <1>3, <1>5, <1>6

LEMMA PrefixByTokens ==
  ASSUME NEW S, NEW s \in Seq(S), NEW t \in Seq(S)
  PROVE  IsPrefix(s, t) <=> Len(s) <= Len(t) /\ \A i \in 1 .. Len(s) : s[i] = t[i]
<1>1. Len(s) \in Nat /\ Len(t) \in Nat /\ SubSeq(s, 1, Len(s)) = s
  OBVIOUS
<1>2. CASE Len(s) <= Len(t)
  <2> DEFINE u == SubSeq(t, 1, Len(s))
  <2>1. u \in Seq(S) /\ Len(u) = Len(s) /\ \A i \in 1 .. Len(s) : u[i] = t[i]
    BY <1>1, <1>2
  <2> HIDE DEF u
  <2>2. s = u <=> \A i \in 1 .. Len(s) : s[i] = u[i]
    BY <2>1, SeqEqual
  <2>3. QED
    BY <1>1, <1>2, <2>1, <2>2 DEF IsPrefix, u
<1>3. QED
  BY <1>2 DEF IsPrefix

LEMMA Associative ==
  ASSUME NEW s \in Seq(STRING), NEW t \in Seq(STRING), NEW u \in Seq(STRING)
  PROVE  (s \o t) \o u = s \o (t \o u)
BY ConcatAssociative

LEMMA StripType ==
  ASSUME NEW S, NEW text \in Seq(S), NEW n \in Nat
  PROVE  Strip(text, n) \in Seq(S)
<1>1. Len(text) \in Nat
  OBVIOUS
<1>2. n + 1 \in Nat /\ n + 1 >= 1
  OBVIOUS
<1>3. SubSeq(text, n + 1, Len(text)) \in Seq(S)
  BY <1>1, <1>2
<1>4. QED
  BY <1>3 DEF Strip

\* With the end of the prefix, what comes behind it is cut off the path, too: that
\* end and the rest of the path are what is left.
LEMMA Seam ==
  ASSUME NEW S, NEW prefix \in Seq(S), NEW path \in Seq(S), IsPrefix(prefix, path),
         NEW n \in 0 .. Len(prefix)
  PROVE  Strip(path, n) = Strip(prefix, n) \o Strip(path, Len(prefix))
<1>1. /\ Len(prefix) \in Nat /\ Len(path) \in Nat /\ Len(prefix) <= Len(path)
      /\ \A i \in 1 .. Len(prefix) : prefix[i] = path[i]
  BY PrefixByTokens
<1> DEFINE whole == Strip(path, n)  end == Strip(prefix, n)  rest == Strip(path, Len(prefix))
<1>2. /\ whole \in Seq(S) /\ Len(whole) = Len(path) - n
      /\ \A i \in 1 .. Len(whole) : whole[i] = path[n + i]
  BY <1>1 DEF Strip
<1>3. /\ end \in Seq(S) /\ Len(end) = Len(prefix) - n
      /\ \A i \in 1 .. Len(end) : end[i] = prefix[n + i]
  BY <1>1 DEF Strip
<1>4. /\ rest \in Seq(S) /\ Len(rest) = Len(path) - Len(prefix)
      /\ \A i \in 1 .. Len(rest) : rest[i] = path[Len(prefix) + i]
  BY <1>1 DEF Strip
<1> HIDE DEF whole, end, rest
<1>5. Len(whole) \in Nat /\ Len(end) \in Nat /\ Len(rest) \in Nat
  BY <1>2, <1>3, <1>4
<1>6. /\ end \o rest \in Seq(S) /\ Len(end \o rest) = Len(whole)
      /\ \A i \in 1 .. Len(whole) :
           (end \o rest)[i] = IF i <= Len(end) THEN end[i] ELSE rest[i - Len(end)]
  <2>1. end \in Seq(S) /\ rest \in Seq(S)
    BY <1>3, <1>4
  <2>2. Len(end) + Len(rest) = Len(whole)
    BY <1>1, <1>2, <1>3, <1>4
  <2>3. /\ end \o rest \in Seq(S) /\ Len(end \o rest) = Len(end) + Len(rest)
        /\ \A i \in 1 .. Len(end) + Len(rest) :
             (end \o rest)[i] = IF i <= Len(end) THEN end[i] ELSE rest[i - Len(end)]
    BY <2>1, ConcatProperties
  <2>4. QED
    BY <2>2, <2>3
<1>7. ASSUME NEW i \in 1 .. Len(whole) PROVE (end \o rest)[i] = whole[i]
  <2>1. CASE i <= Len(end)
    <3>1. i \in 1 .. Len(end) /\ n + i \in 1 .. Len(prefix)
      BY <1>1, <1>3, <1>5, <2>1
    <3>2. (end \o rest)[i] = end[i]
      BY <1>6, <2>1
    <3>3. end[i] = prefix[n + i] /\ prefix[n + i] = path[n + i]
      BY <1>1, <1>3, <3>1
    <3>4. QED
      BY <1>2, <3>2, <3>3
  <2>2. CASE ~ (i <= Len(end))
    <3>1. i - Len(end) \in 1 .. Len(rest) /\ Len(prefix) + (i - Len(end)) = n + i
      <4>1. Len(end) = Len(prefix) - n /\ Len(rest) = Len(path) - Len(prefix)
        BY <1>3, <1>4
      <4>2. i \in 1 .. Len(path) - n /\ i > Len(prefix) - n
        BY <1>2, <1>5, <2>2, <4>1
      <4>3. QED
        BY <1>1, <4>1, <4>2
    <3>2. (end \o rest)[i] = rest[i - Len(end)]
      BY <1>5, <1>6, <2>2
    <3>3. rest[i - Len(end)] = path[n + i]
      BY <1>4, <3>1
    <3>4. QED
      BY <1>2, <3>2, <3>3
  <2>3. QED
    BY <2>1, <2>2
<1>8. end \o rest = whole
  BY <1>2, <1>6, <1>7, SeqEqual
<1>9. QED
  BY <1>8 DEF whole, end, rest

-----------------------------------------------------------------------------
(* What the rules find                                                     *)

IsRule(rule) ==
  /\ IsMatcher(rule.pattern.host)
  /\ rule.pattern.path # NONE => IsMatcher(rule.pattern.path)
  /\ rule.target \in Addresses

LEMMA RulesAre ==
  /\ Len(RuleList) \in Nat /\ DOMAIN RuleList = 1 .. Len(RuleList)
  /\ RuleList \in Seq(ToSet(RuleList))
  /\ \A i \in DOMAIN RuleList : RuleList[i] \in ToSet(RuleList) /\ IsRule(RuleList[i])
<1>1. RuleList \in Seq(ToSet(RuleList))
  BY RuleListAssumption
<1>2. Len(RuleList) \in Nat /\ DOMAIN RuleList = 1 .. Len(RuleList)
  BY <1>1
<1>3. \A i \in DOMAIN RuleList : RuleList[i] \in ToSet(RuleList)
  BY DEF ToSet
<1>4. QED
  BY <1>1, <1>2, <1>3, RuleListAssumption DEF IsRule

\* The index has a rule of the list under each of its keys.
LEMMA IndexHasRules ==
  ASSUME NEW key \in DOMAIN Index
  PROVE  \E i \in ExactPositions :
           PatternKey(RuleList[i].pattern) = key /\ Index[key] = RuleList[i].target
<1> DEFINE same == {i \in ExactPositions : PatternKey(RuleList[i].pattern) = key}
           best == CHOOSE i \in same : \A j \in same : j <= i
<1>1. same # {}
  BY DEF Index
<1>2. same \in SUBSET (0 .. Len(RuleList)) /\ Len(RuleList) \in Nat
  BY RulesAre DEF ExactPositions
<1>3. Index[key] = RuleList[best].target
  BY DEF Index
<1>4. best \in same
  <2> HIDE DEF same
  <2>1. \E i \in same : \A j \in same : j <= i
    BY <1>1, <1>2, Greatest
  <2>2. QED
    BY <2>1
<1> HIDE DEF best
<1>5. QED
  BY <1>3, <1>4

PatternRules == Kept(RuleList, DOMAIN RuleList \ ExactPositions)

\* The pattern rules are rules of the list.
LEMMA PatternsAreRules ==
  \A j \in DOMAIN PatternRules : \E i \in DOMAIN RuleList : PatternRules[j] = RuleList[i]
BY RulesAre, KeptElements DEF PatternRules

\* What find_target_with_match_info finds is in the index or the first of the pattern
\* rules.
LEMMA LookupIs ==
  ASSUME NEW uri
  PROVE  \/ /\ FromUri(uri) = NONE
            /\ Manager!FindWithMatchInfo(uri) = NONE
         \/ /\ FromUri(uri) # NONE /\ KeyOf(FromUri(uri)) \in DOMAIN Index
            /\ Manager!FindWithMatchInfo(uri) =
                 [target |-> Index[KeyOf(FromUri(uri))],
                  matched_path_prefix |-> KeyOf(FromUri(uri)).path]
         \/ /\ FromUri(uri) # NONE
            /\ \E j \in DOMAIN PatternRules :
                 /\ Matches(PatternRules[j].pattern, FromUri(uri))
                 /\ Manager!FindWithMatchInfo(uri) =
                      [target |-> PatternRules[j].target,
                       matched_path_prefix |-> PrefixOf(PatternRules[j].pattern)]
         \/ Manager!FindWithMatchInfo(uri) = NONE
<1>1. Manager!FromUri(uri) = FromUri(uri)
  BY DEF Manager!FromUri, Manager!ProtocolOf, FromUri, ProtocolOf
<1>2. \A address : Manager!KeyOf(address) = KeyOf(address)
  BY DEF Manager!KeyOf, Manager!ExactKey, Manager!NormalizePort, KeyOf, ExactKey, NormalizePort
<1>3. \A pattern, address : Manager!Matches(pattern, address) <=> Matches(pattern, address)
  BY DEF Manager!Matches, Manager!Accepts, Manager!WildcardAccepts, Matches, Accepts, WildcardAccepts
<1>4. \A pattern : Manager!PrefixOf(pattern) = PrefixOf(pattern)
  BY DEF Manager!PrefixOf, Manager!TrimEnd, PrefixOf, TrimEnd
<1>5. QED
  BY <1>1, <1>2, <1>3, <1>4 DEF Manager!FindWithMatchInfo, Manager!MatchingPatterns, Manager!FirstMatch, PatternRules

\* The prefix that is found with a target and the path it was found for: it does not
\* end with a star, and either the path begins with it or not even with what is in
\* front of its slashes.
IsSeen(prefix, path) ==
  \/ prefix = NONE
  \/ /\ prefix \in Texts
     /\ TrimEnd(prefix, "*") = prefix
     /\ IsPrefix(prefix, path) \/ ~ IsPrefix(TrimEnd(prefix, "/"), path)

LEMMA WholeIsPrefix ==
  ASSUME NEW S, NEW s \in Seq(S)
  PROVE  IsPrefix(s, s)
BY PrefixByTokens

LEMMA FrontIs ==
  ASSUME NEW S, NEW s \in Seq(S), Len(s) > 0
  PROVE  /\ Front(s) \in Seq(S) /\ Len(Front(s)) = Len(s) - 1
         /\ \A i \in 1 .. Len(Front(s)) : Front(s)[i] = s[i]
<1> DEFINE n == Len(s) - 1  front == SubSeq(s, 1, n)
<1>1. Len(s) \in Nat /\ n \in Nat /\ n <= Len(s)
  OBVIOUS
<1> HIDE DEF n
<1>2. front \in Seq(S) /\ Len(front) = n /\ \A i \in 1 .. n : front[i] = s[i]
  BY <1>1
<1>3. QED
  BY <1>2 DEF Front, n

LEMMA NoStar ==
  ASSUME NEW text \in Texts, ~ Contains(text, "*")
  PROVE  TrimEnd(text, "*") = text
<1>1. Len(text) \in Nat /\ \A i \in 1 .. Len(text) : text[i] # "*"
  BY DEF Contains, Texts
<1>2. QED
  BY <1>1, TrimKeeps DEF Texts

\* What a wildcard that accepts a path has before its last stars.
LEMMA WildcardSeen ==
  ASSUME NEW text \in Texts, Contains(text, "*"),
         NEW path \in Paths, Head(path) = "/", WildcardAccepts(text, path)
  PROVE  IsSeen(TrimEnd(text, "*"), path)
<1> DEFINE prefix == TrimEnd(text, "*")
<1>1. /\ Len(text) \in Nat /\ Len(text) > 0 /\ Head(text) = text[1]
      /\ path \in Seq(STRING) /\ path # <<>> /\ Len(path) \in Nat /\ Len(path) > 0
      /\ text \in Seq(STRING) /\ path[1] = "/"
  BY DEF Texts, Paths, Contains
<1>2. /\ prefix \in Seq(STRING) /\ Len(prefix) \in Nat /\ Len(prefix) <= Len(text)
      /\ \A i \in 1 .. Len(prefix) : prefix[i] = text[i]
      /\ \A i \in Len(prefix) + 1 .. Len(text) : text[i] = "*"
      /\ TrimEnd(prefix, "*") = prefix
  BY <1>1, TrimLeaves
<1> HIDE DEF prefix
<1>3. CASE Head(text) = "*"
  <2> DEFINE front == TrimEnd(prefix, "/")
  <2>1. /\ front \in Seq(STRING) /\ Len(front) \in Nat /\ Len(front) <= Len(prefix)
        /\ \A i \in 1 .. Len(front) : front[i] = prefix[i]
        /\ \A i \in Len(front) + 1 .. Len(prefix) : prefix[i] = "/"
    BY <1>2, TrimLeaves
  <2> HIDE DEF front
  <2>2. CASE Len(prefix) = 0
    <3>1. Len(prefix) <= Len(path) /\ \A i \in 1 .. Len(prefix) : prefix[i] = path[i]
      BY <1>1, <2>2
    <3>2. IsPrefix(prefix, path)
      BY <1>1, <1>2, <3>1, PrefixByTokens
    <3>3. QED
      BY <1>2, <3>2 DEF IsSeen, prefix, Texts
  <2>3. CASE Len(prefix) > 0
    <3>1. prefix[1] = "*" /\ Len(front) > 0 /\ front[1] = "*"
      <4>1. 1 \in 1 .. Len(prefix) /\ prefix[1] = text[1] /\ text[1] = "*"
        BY <1>2, <1>3, <2>3
      <4>2. Len(front) > 0
        BY <1>2, <2>1, <4>1
      <4>3. QED
        BY <2>1, <4>1, <4>2
    <3>2. ~ IsPrefix(front, path)
      <4>1. 1 \in 1 .. Len(front) /\ front[1] # path[1]
        BY <1>1, <2>1, <3>1
      <4>2. QED
        BY <1>1, <2>1, <4>1, PrefixByTokens
    <3>3. QED
      BY <1>2, <3>2 DEF IsSeen, prefix, front, Texts
  <2>4. QED
    BY <1>2, <2>2, <2>3
<1>4. CASE Head(text) # "*" /\ Last(text) = "*"
  <2> DEFINE front == Front(text)
  <2>1. /\ front \in Seq(STRING) /\ Len(front) = Len(text) - 1
        /\ \A i \in 1 .. Len(front) : front[i] = text[i]
    BY <1>1, FrontIs
  <2>2. IsPrefix(front, path)
    BY <1>4 DEF WildcardAccepts
  <2> HIDE DEF front
  <2>3. Len(prefix) <= Len(front)
    <3>1. SUFFICES ASSUME Len(prefix) = Len(text) PROVE FALSE
      BY <1>1, <1>2, <2>1
    <3>2. prefix[Len(prefix)] = "*"
      BY <1>1, <1>2, <1>4, <3>1 DEF Last
    <3>3. PICK n \in 0 .. Len(text) :
            TrimEnd(text, "*") = SubSeq(text, 1, n) /\ (n > 0 => text[n] # "*")
      BY <1>1, Trimmed
    <3>4. n = Len(text)
      BY <1>1, <3>1, <3>3 DEF prefix
    <3>5. QED
      BY <1>1, <1>4, <3>3, <3>4 DEF Last
  <2>4. IsPrefix(prefix, path)
    <3>1. Len(front) <= Len(path) /\ \A i \in 1 .. Len(front) : front[i] = path[i]
      BY <1>1, <2>1, <2>2, PrefixByTokens
    <3>2. Len(prefix) <= Len(path) /\ \A i \in 1 .. Len(prefix) : prefix[i] = path[i]
      BY <1>1, <1>2, <2>1, <2>3, <3>1
    <3>3. QED
      BY <1>1, <1>2, <3>2, PrefixByTokens
  <2>5. QED
    BY <1>2, <2>4 DEF IsSeen, prefix, Texts
<1>5. CASE Head(text) # "*" /\ Last(text) # "*"
  <2>1. path = text
    BY <1>5 DEF WildcardAccepts
  <2>2. prefix = text
    BY <1>1, <1>5, TrimKeeps DEF Last, prefix
  <2>3. IsPrefix(prefix, path)
    BY <1>1, <2>1, <2>2, WholeIsPrefix
  <2>4. QED
    BY <1>2, <2>3 DEF IsSeen, prefix, Texts
<1>6. QED
  BY <1>3, <1>4, <1>5

LEMMA NoneIsNoText == NONE \notin Texts /\ NONE \notin Nat /\ NONE \notin STRING
BY NoneAssumption

LEMMA ExactTexts ==
  ASSUME NEW matcher, IsMatcher(matcher), matcher.kind = "exact"
  PROVE  matcher.text \in Texts /\ ~ Contains(matcher.text, "*")
BY DEF IsMatcher, Matcher

LEMMA WildcardTexts ==
  ASSUME NEW matcher, IsMatcher(matcher), matcher.kind = "wildcard"
  PROVE  matcher.text \in Texts /\ Contains(matcher.text, "*")
BY DEF IsMatcher, Matcher

LEMMA MatcherKinds ==
  ASSUME NEW matcher, IsMatcher(matcher)
  PROVE  matcher.kind \in {"exact", "wildcard", "regex"}
BY DEF IsMatcher, Matcher

\* A target that is found is one of the list.
LEMMA FoundIsRule ==
  ASSUME NEW uri, Manager!FindWithMatchInfo(uri) # NONE
  PROVE  Manager!FindWithMatchInfo(uri).target \in Addresses
<1> DEFINE found == Manager!FindWithMatchInfo(uri)
<1>1. CASE KeyOf(FromUri(uri)) \in DOMAIN Index /\ found.target = Index[KeyOf(FromUri(uri))]
  <2>1. PICK i \in ExactPositions : Index[KeyOf(FromUri(uri))] = RuleList[i].target
    BY <1>1, IndexHasRules
  <2>2. QED
    BY <1>1, <2>1, RulesAre DEF ExactPositions, IsRule
<1>2. CASE \E j \in DOMAIN PatternRules : found.target = PatternRules[j].target
  BY <1>2, PatternsAreRules, RulesAre DEF IsRule
<1>3. QED
  BY <1>1, <1>2, LookupIs

\* The prefix it is found with, of a path that begins with a slash.
LEMMA FoundIsSeen ==
  ASSUME NEW uri \in UriRecord, Manager!FindWithMatchInfo(uri) # NONE,
         Head(OriginalPath(uri)) = "/"
  PROVE  IsSeen(Manager!FindWithMatchInfo(uri).matched_path_prefix, OriginalPath(uri))
<1> DEFINE found == Manager!FindWithMatchInfo(uri)  address == FromUri(uri)
<1>1. address # NONE => address.path = uri.path
  BY DEF FromUri
<1>2. uri.path # NONE => OriginalPath(uri) = uri.path /\ uri.path \in Paths
  BY DEF OriginalPath, UriRecord
<1>3. CASE /\ address # NONE /\ KeyOf(address) \in DOMAIN Index
           /\ found.matched_path_prefix = KeyOf(address).path
  <2>1. found.matched_path_prefix = uri.path
    BY <1>1, <1>3 DEF KeyOf, ExactKey
  <2>2. CASE uri.path = NONE
    BY <2>1, <2>2 DEF IsSeen
  <2>3. CASE uri.path # NONE
    <3>1. PICK i \in ExactPositions : PatternKey(RuleList[i].pattern) = KeyOf(address)
      BY <1>3, IndexHasRules
    <3> DEFINE matcher == RuleList[i].pattern.path
    <3>2. matcher # NONE /\ matcher.text = uri.path
      BY <1>1, <1>3, <2>3, <3>1 DEF PatternKey, KeyOf, ExactKey
    <3>3. IsMatcher(matcher) /\ matcher.kind = "exact"
      BY <3>2, RulesAre DEF ExactPositions, IsExact, IsRule
    <3>4. uri.path \in Texts /\ TrimEnd(uri.path, "*") = uri.path
      BY <3>2, <3>3, ExactTexts, NoStar
    <3>5. IsPrefix(uri.path, uri.path)
      BY <3>4, WholeIsPrefix DEF Texts
    <3>6. QED
      BY <1>2, <2>1, <2>3, <3>4, <3>5 DEF IsSeen
  <2>4. QED
    BY <2>2, <2>3
<1>4. CASE /\ address # NONE
           /\ \E j \in DOMAIN PatternRules :
                /\ Matches(PatternRules[j].pattern, address)
                /\ found.matched_path_prefix = PrefixOf(PatternRules[j].pattern)
  <2>1. PICK j \in DOMAIN PatternRules :
          /\ Matches(PatternRules[j].pattern, address)
          /\ found.matched_path_prefix = PrefixOf(PatternRules[j].pattern)
    BY <1>4
  <2> DEFINE matcher == PatternRules[j].pattern.path
  <2>2. CASE matcher = NONE
    BY <2>1, <2>2 DEF PrefixOf, IsSeen
  <2>3. CASE matcher # NONE
    <3>1. IsMatcher(matcher)
      BY <2>3, PatternsAreRules, RulesAre DEF IsRule
    <3>2. uri.path # NONE /\ Accepts(matcher, uri.path)
      BY <1>1, <1>4, <2>1, <2>3 DEF Matches
    <3>3. CASE matcher.kind = "exact"
      <4>1. matcher.text = uri.path /\ PrefixOf(PatternRules[j].pattern) = uri.path
        BY <2>3, <3>2, <3>3 DEF PrefixOf, Accepts
      <4>2. uri.path \in Texts /\ TrimEnd(uri.path, "*") = uri.path
        BY <3>1, <3>3, <4>1, ExactTexts, NoStar
      <4>3. IsPrefix(uri.path, uri.path)
        BY <4>2, WholeIsPrefix DEF Texts
      <4>4. QED
        BY <1>2, <2>1, <3>2, <4>1, <4>2, <4>3 DEF IsSeen
    <3>4. CASE matcher.kind = "wildcard"
      <4>1. WildcardAccepts(matcher.text, uri.path)
        BY <3>2, <3>4 DEF Accepts
      <4>2. PrefixOf(PatternRules[j].pattern) = TrimEnd(matcher.text, "*")
        BY <2>3, <3>4 DEF PrefixOf
      <4>3. matcher.text \in Texts /\ Contains(matcher.text, "*")
        BY <3>1, <3>4, WildcardTexts
      <4>4. IsSeen(TrimEnd(matcher.text, "*"), uri.path)
        BY <1>2, <3>2, <4>1, <4>3, WildcardSeen
      <4>5. QED
        BY <1>2, <2>1, <3>2, <4>2, <4>4
    <3>5. CASE matcher.kind = "regex"
      BY <2>1, <2>3, <3>5 DEF PrefixOf, IsSeen
    <3>6. QED
      BY <3>1, <3>3, <3>4, <3>5, MatcherKinds
  <2>4. QED
    BY <2>2, <2>3
<1>5. QED
  BY <1>3, <1>4, LookupIs

-----------------------------------------------------------------------------
(* The URI that is made of it                                              *)

\* The three modes do to a path what the documentation says.
LEMMA NewPathDocumented ==
  ASSUME NEW target \in Addresses, NEW path \in Paths, Head(path) = "/",
         NEW prefix, IsSeen(prefix, path)
  PROVE  NewPath(target, path, prefix) = Documented(target, path, prefix)
<1>1. path \in Seq(STRING) /\ path # <<>>
  BY DEF Paths, Texts
<1>2. CASE target.path = NONE \/ target.path_transform_mode = "preserve"
  BY <1>2 DEF NewPath, Documented
<1>3. CASE target.path # NONE /\ target.path_transform_mode = "prepend"
  BY <1>3 DEF NewPath, Documented, Prepended
<1>4. CASE target.path # NONE /\ target.path_transform_mode = "replace"
  <2>1. CASE prefix = NONE
    BY <1>4, <2>1 DEF NewPath, Documented
  <2>2. CASE prefix # NONE
    <3> DEFINE clean == TrimEnd(prefix, "/")  base == TrimEnd(target.path, "/")
    <3>1. /\ prefix \in Seq(STRING) /\ TrimEnd(prefix, "*") = prefix
          /\ IsPrefix(prefix, path) \/ ~ IsPrefix(clean, path)
      BY <2>2 DEF IsSeen, Texts
    <3>2. NewPath(target, path, prefix) =
            IF IsPrefix(clean, path) THEN base \o Strip(path, Len(clean)) ELSE path
      BY <1>4, <2>2, <3>1 DEF NewPath, Replaced
    <3>3. Documented(target, path, prefix) =
            IF ~ IsPrefix(prefix, path) THEN path
            ELSE base \o Strip(prefix, Len(clean)) \o Strip(path, Len(prefix))
      BY <1>4, <2>2 DEF Documented, Strip
    <3>4. CASE ~ IsPrefix(prefix, path)
      BY <3>1, <3>2, <3>3, <3>4
    <3>5. CASE IsPrefix(prefix, path)
      <4>1. /\ clean \in Seq(STRING) /\ Len(clean) \in 0 .. Len(prefix)
            /\ \A i \in 1 .. Len(clean) : clean[i] = prefix[i]
        BY <3>1, TrimLeaves
      <4>2. base \in Seq(STRING)
        <5>1. target.path \in Seq(STRING)
          BY <1>4 DEF Addresses, Texts
        <5>2. QED
          BY <5>1, TrimLeaves
      <4> HIDE DEF clean, base
      <4>3. Len(prefix) <= Len(path) /\ \A i \in 1 .. Len(prefix) : prefix[i] = path[i]
        BY <1>1, <3>1, <3>5, PrefixByTokens
      <4>4. Len(prefix) \in Nat /\ Len(path) \in Nat
        BY <1>1, <3>1
      <4>5. Len(clean) <= Len(path) /\ \A i \in 1 .. Len(clean) : clean[i] = path[i]
        BY <4>1, <4>3, <4>4
      <4>6. IsPrefix(clean, path)
        BY <1>1, <4>1, <4>5, PrefixByTokens
      <4>7. Strip(path, Len(clean)) = Strip(prefix, Len(clean)) \o Strip(path, Len(prefix))
        BY <1>1, <3>1, <3>5, <4>1, Seam
      <4>8. Strip(prefix, Len(clean)) \in Seq(STRING) /\ Strip(path, Len(prefix)) \in Seq(STRING)
        <5>1. Len(clean) \in Nat
          BY <4>1, <4>4
        <5>2. QED
          BY <1>1, <3>1, <4>4, <5>1, StripType
      <4>9. base \o (Strip(prefix, Len(clean)) \o Strip(path, Len(prefix)))
              = (base \o Strip(prefix, Len(clean))) \o Strip(path, Len(prefix))
        <5> DEFINE end == Strip(prefix, Len(clean))  rest == Strip(path, Len(prefix))
        <5>1. end \in Seq(STRING) /\ rest \in Seq(STRING)
          BY <4>8
        <5> HIDE DEF end, rest
        <5>2. (base \o end) \o rest = base \o (end \o rest)
          BY <4>2, <5>1, Associative
        <5>3. QED
          BY <5>2 DEF end, rest
      <4>10. QED
        BY <3>2, <3>3, <3>5, <4>6, <4>7, <4>9
    <3>6. QED
      BY <3>4, <3>5
  <2>3. QED
    BY <2>1, <2>2
<1>5. QED
  BY <1>2, <1>3, <1>4 DEF Addresses

\* Whatever a prefix is, it is a text.
LEMMA FoundPrefixType ==
  ASSUME NEW uri \in UriRecord, Manager!FindWithMatchInfo(uri) # NONE
  PROVE  Manager!FindWithMatchInfo(uri).matched_path_prefix \in Texts \cup {NONE}
<1> DEFINE found == Manager!FindWithMatchInfo(uri)  address == FromUri(uri)
<1>1. CASE /\ address # NONE /\ KeyOf(address) \in DOMAIN Index
           /\ found.matched_path_prefix = KeyOf(address).path
  <2>1. found.matched_path_prefix = uri.path
    BY <1>1 DEF KeyOf, ExactKey, FromUri
  <2>2. QED
    BY <2>1 DEF UriRecord, Paths
<1>2. CASE \E j \in DOMAIN PatternRules :
             found.matched_path_prefix = PrefixOf(PatternRules[j].pattern)
  <2>1. PICK j \in DOMAIN PatternRules :
          found.matched_path_prefix = PrefixOf(PatternRules[j].pattern)
    BY <1>2
  <2> DEFINE matcher == PatternRules[j].pattern.path
  <2>2. CASE matcher = NONE
    BY <2>1, <2>2 DEF PrefixOf
  <2>3. CASE matcher # NONE
    <3>1. IsMatcher(matcher)
      BY <2>3, PatternsAreRules, RulesAre DEF IsRule
    <3>2. CASE matcher.kind = "exact"
      BY <2>1, <2>3, <3>1, <3>2, ExactTexts DEF PrefixOf
    <3>3. CASE matcher.kind = "wildcard"
      <4>1. matcher.text \in Texts /\ found.matched_path_prefix = TrimEnd(matcher.text, "*")
        BY <2>1, <2>3, <3>1, <3>3, WildcardTexts DEF PrefixOf
      <4>2. QED
        BY <4>1, TrimLeaves DEF Texts
    <3>4. CASE matcher.kind = "regex"
      BY <2>1, <2>3, <3>4 DEF PrefixOf
    <3>5. QED
      BY <3>1, <3>2, <3>3, <3>4, MatcherKinds
  <2>4. QED
    BY <2>2, <2>3
<1>3. QED
  BY <1>1, <1>2, LookupIs

LEMMA RootIsPath == <<"/">> \in Seq(STRING) /\ <<"/">> \in Paths
<1>1. "/" \in STRING
  BY LiteralsAssumption
<1>2. <<"/">> \in Seq(STRING) /\ <<"/">> # <<>>
  BY <1>1
<1>3. QED
  BY <1>2 DEF Paths, Texts

\* A path stays a text.
LEMMA NewPathType ==
  ASSUME NEW target \in Addresses, NEW path \in Paths, NEW prefix \in Texts \cup {NONE}
  PROVE  NewPath(target, path, prefix) \in Texts
<1>1. path \in Seq(STRING)
  BY DEF Paths, Texts
<1>2. ASSUME target.path # NONE PROVE TrimEnd(target.path, "/") \in Seq(STRING)
  <2>1. target.path \in Seq(STRING)
    BY <1>2 DEF Addresses, Texts
  <2>2. QED
    BY <2>1, TrimLeaves
<1>3. CASE target.path # NONE /\ target.path_transform_mode = "prepend"
  <2> DEFINE base == TrimEnd(target.path, "/")  root == <<"/">>
             end == IF Head(path) = "/" THEN path ELSE root
  <2>1. NewPath(target, path, prefix) = base \o end
    BY <1>3 DEF NewPath, Prepended
  <2>2. base \in Seq(STRING)
    BY <1>2, <1>3
  <2>3. root \in Seq(STRING)
    BY RootIsPath
  <2> HIDE DEF base, root
  <2>4. end \in Seq(STRING)
    BY <1>1, <2>3
  <2> HIDE DEF end
  <2>5. base \o end \in Seq(STRING)
    BY <2>2, <2>4
  <2>6. QED
    BY <2>1, <2>5 DEF Texts
<1>4. CASE target.path # NONE /\ target.path_transform_mode = "replace" /\ prefix # NONE
  <2> DEFINE clean == TrimEnd(TrimEnd(prefix, "*"), "/")
  <2>1. NewPath(target, path, prefix) = IF IsPrefix(clean, path)
          THEN TrimEnd(target.path, "/") \o Strip(path, Len(clean)) ELSE path
    BY <1>4 DEF NewPath, Replaced
  <2>2. clean \in Seq(STRING)
    <3>1. prefix \in Seq(STRING)
      BY <1>4 DEF Texts
    <3>2. TrimEnd(prefix, "*") \in Seq(STRING)
      BY <3>1, TrimLeaves
    <3>3. QED
      BY <3>2, TrimLeaves
  <2> HIDE DEF clean
  <2>3. Strip(path, Len(clean)) \in Seq(STRING)
    <3>1. Len(clean) \in Nat /\ Len(path) \in Nat
      BY <1>1, <2>2
    <3>2. QED
      BY <1>1, <3>1, StripType
  <2> DEFINE base == TrimEnd(target.path, "/")  rest == Strip(path, Len(clean))
  <2>4. base \in Seq(STRING)
    BY <1>2, <1>4
  <2> HIDE DEF base, rest
  <2>5. base \o rest \in Seq(STRING)
    BY <2>3, <2>4 DEF rest
  <2>6. QED
    BY <1>1, <2>1, <2>5 DEF Texts, base, rest
<1>5. QED
  BY <1>1, <1>3, <1>4 DEF NewPath, Texts

\* A rewritten URI is one, with the target's authority and the new path.
LEMMA RewrittenIs ==
  ASSUME NEW uri \in UriRecord, Rewritten(uri) # NONE
  PROVE  /\ Rewritten(uri) \in UriRecord
         /\ Manager!FindWithMatchInfo(uri) # NONE
         /\ Rewritten(uri).path =
              Rooted(NewPath(Manager!FindWithMatchInfo(uri).target, OriginalPath(uri),
                             Manager!FindWithMatchInfo(uri).matched_path_prefix))
<1> DEFINE found == Manager!FindWithMatchInfo(uri)
           target == found.target  prefix == found.matched_path_prefix
           path == NewPath(target, OriginalPath(uri), prefix)
<1>1. found # NONE /\ Rewritten(uri) = ToUri(target, uri, prefix)
  BY DEF Rewritten
<1>2. target \in Addresses /\ prefix \in Texts \cup {NONE}
  BY <1>1, FoundIsRule, FoundPrefixType
<1>3. OriginalPath(uri) \in Paths
  BY RootIsPath DEF OriginalPath, UriRecord
<1> HIDE DEF found, target, prefix
<1>4. path \in Texts
  BY <1>2, <1>3, NewPathType
<1> HIDE DEF path
<1>5. Rooted(path) \in Paths
  BY <1>4, RootIsPath DEF Rooted, Paths
<1>6. Rewritten(uri) = [scheme |-> target.protocol, host |-> target.host,
                        port |-> target.port, path |-> Rooted(path)]
  BY <1>1 DEF ToUri, Rooted, path
<1>7. target.protocol \in STRING /\ target.host \in Texts /\ target.port \in Ports
  <2>1. target \in Addresses
    BY <1>2
  <2>2. target.protocol \in {"http", "https"} /\ target.host \in Texts /\ target.port \in Ports
    BY <2>1 DEF Addresses, Protocols
  <2>3. QED
    BY <2>2, LiteralsAssumption
<1>8. Rewritten(uri) \in UriRecord
  BY <1>5, <1>6, <1>7 DEF UriRecord
<1>9. QED
  BY <1>1, <1>6, <1>8 DEF found, target, prefix, path

LEMMA DestinationType ==
  ASSUME NEW uri \in UriRecord
  PROVE  Destination(uri) \in UriRecord
BY RewrittenIs DEF Destination

\* No rule is about a URI without an authority.
LEMMA NoAuthorityNoRule ==
  ASSUME NEW uri \in UriRecord, uri.host = NONE
  PROVE  Destination(uri) = uri
<1>1. FromUri(uri) = NONE
  BY DEF FromUri
<1>2. Manager!FindWithMatchInfo(uri) = NONE
  BY <1>1, LookupIs
<1>3. QED
  BY <1>2 DEF Destination, Rewritten

LEMMA AuthorityType ==
  ASSUME NEW uri \in UriRecord
  PROVE  /\ Authority(uri) \in Authorities \cup {NONE}
         /\ Authority(uri) # NONE => uri.host # NONE /\ Authority(uri) \in Authorities
         /\ uri.host # NONE => Authority(uri) \in Authorities
BY DEF Authority, Authorities, UriRecord

\* A WebSocket goes to the same place.
LEMMA WebsocketReaches ==
  ASSUME NEW uri \in UriRecord
  PROVE  /\ WebsocketUri(uri) \in UriRecord
         /\ Authority(WebsocketUri(uri)) = Authority(uri)
         /\ WebsocketUri(uri).path = uri.path
         /\ Keeps(uri.scheme) => Reaches(WebsocketUri(uri), uri)
<1>1. /\ WebsocketUri(uri) \in UriRecord
      /\ WebsocketUri(uri).host = uri.host /\ WebsocketUri(uri).port = uri.port
      /\ WebsocketUri(uri).path = uri.path
      /\ WebsocketUri(uri).scheme = IF uri.scheme \in {NONE, "http"} THEN "ws" ELSE "wss"
  <2> DEFINE scheme == IF uri.scheme \in {NONE, "http"} THEN "ws" ELSE "wss"
  <2>1. /\ uri = [scheme |-> uri.scheme, host |-> uri.host, port |-> uri.port, path |-> uri.path]
        /\ uri.host \in Texts \cup {NONE} /\ uri.port \in Ports /\ uri.path \in Paths \cup {NONE}
    BY DEF UriRecord
  <2>2. scheme \in STRING
    BY LiteralsAssumption
  <2>3. WebsocketUri(uri) = [uri EXCEPT !.scheme = scheme]
    BY DEF WebsocketUri
  <2> HIDE DEF scheme
  <2>4. WebsocketUri(uri) = [scheme |-> scheme, host |-> uri.host, port |-> uri.port,
                             path |-> uri.path]
    BY <2>1, <2>3
  <2>5. WebsocketUri(uri) \in UriRecord
    BY <2>1, <2>2, <2>4 DEF UriRecord
  <2>6. QED
    BY <2>4, <2>5 DEF scheme
<1>2. Authority(WebsocketUri(uri)) = Authority(uri)
  BY <1>1 DEF Authority
<1>3. ASSUME Keeps(uri.scheme) PROVE ProtocolOf(WebsocketUri(uri)) = ProtocolOf(uri)
  <2> DEFINE it == WebsocketUri(uri)
  <2>1. NONE # "https" /\ NONE # "wss"
    BY NoneIsNoText, LiteralsAssumption
  <2>2. CASE uri.scheme \in {NONE, "http"}
    <3>1. it.scheme = "ws"
      BY <1>1, <2>2
    <3> HIDE DEF it
    <3>2. ProtocolOf(it) = "http" /\ ProtocolOf(uri) = "http"
      BY <2>1, <2>2, <3>1 DEF ProtocolOf
    <3>3. QED
      BY <3>2 DEF it
  <2>3. CASE uri.scheme \in {"https", "wss"}
    <3>1. it.scheme = "wss"
      <4>1. uri.scheme \notin {NONE, "http"}
        BY <2>1, <2>3
      <4>2. QED
        BY <1>1, <4>1
    <3> HIDE DEF it
    <3>2. ProtocolOf(it) = "https" /\ ProtocolOf(uri) = "https"
      BY <2>1, <2>3, <3>1 DEF ProtocolOf
    <3>3. QED
      BY <3>2 DEF it
  <2>4. QED
    BY <1>3, <2>2, <2>3 DEF Keeps
<1>4. QED
  BY <1>1, <1>2, <1>3 DEF Reaches

-----------------------------------------------------------------------------
(* The inductive invariant                                                 *)

\* The request being handled is the one its client meant, as long as the tunnel
\* around it is: under the URI that was asked for until handle_request is done with
\* it, under the one the rules send it to from then on, and an upgrade that both
\* definitions see then has the Host of that one.
RequestAsMeant ==
  req # NONE =>
    /\ req.method = "CONNECT" => tunnel = NONE
    /\ step = "handle" => req.host = Authority(req.asked)
    /\ TunnelAsAsked =>
         /\ step = "handle" => req.uri = req.asked
         /\ step = "dispatch" =>
              /\ req.uri = Destination(req.asked)
              /\ IsWebsocketUpgrade(req) => req.host = Authority(req.uri)

\* So is what went upstream last.
SentAsMeant ==
  upstream # NONE /\ TunnelAsAsked =>
    /\ upstream.uri \in {Destination(upstream.asked), WebsocketUri(Destination(upstream.asked))}
    /\ upstream.upgrade # "listed" => upstream.host = Authority(upstream.uri)

IInv ==
  /\ TypeOK
  /\ mode = "connecting" => tunnel # NONE /\ upstream = NONE
  /\ RequestAsMeant
  /\ SentAsMeant

USE DEF TypeOK

LEMMA InitIInv == Init => IInv
BY DEF Init, IInv, RequestAsMeant, SentAsMeant

\* A request comes in.
LEMMA ArrivesKeeps ==
  ASSUME IInv,
         NEW method \in {"GET", "CONNECT"}, NEW uri \in UriRecord, NEW asked \in UriRecord,
         Arrives(method, uri, asked),
         method = "CONNECT" => tunnel = NONE,
         TunnelAsAsked => uri = asked
  PROVE  IInv'
<1>1. /\ mode = "http" /\ step' = "handle"
      /\ UNCHANGED <<with_ca, mode, tunnel, upstream, response>>
  BY DEF Arrives
<1>2. PICK upgrade \in Upgrades, extensions \in BOOLEAN :
        req' = [method |-> method, uri |-> uri, asked |-> asked, upgrade |-> upgrade,
                extensions |-> extensions, host |-> Authority(asked)]
  BY DEF Arrives, Upgrades
<1>3. Authority(asked) \in Authorities \cup {NONE}
  BY AuthorityType
<1>4. req' \in Requests
  BY <1>2, <1>3 DEF Requests
<1>5. req' # NONE
  BY <1>4, NoneAssumption
<1>6. TypeOK'
  BY <1>1, <1>4, <1>5 DEF IInv
<1>7. RequestAsMeant'
  BY <1>1, <1>2 DEF RequestAsMeant, TunnelAsAsked
<1>8. SentAsMeant'
  BY <1>1 DEF IInv, SentAsMeant, TunnelAsAsked
<1>9. QED
  BY <1>1, <1>6, <1>7, <1>8 DEF IInv

LEMMA ReceiveKeeps == IInv /\ Receive => IInv'
<1>1. SUFFICES ASSUME IInv, Receive PROVE IInv'
  OBVIOUS
<1>2. tunnel = NONE
  BY <1>1 DEF Receive
<1>3. ASSUME NEW uri \in RequestUris, Arrives("GET", uri, uri) PROVE IInv'
  BY <1>1, <1>3, ArrivesKeeps, UrisAssumption
<1>4. ASSUME NEW uri \in ConnectUris, Arrives("CONNECT", uri, uri) PROVE IInv'
  BY <1>1, <1>2, <1>4, ArrivesKeeps, UrisAssumption
<1>5. QED
  BY <1>1, <1>3, <1>4 DEF Receive

LEMMA ReceiveInTunnelKeeps == IInv /\ ReceiveInTunnel => IInv'
<1>1. SUFFICES ASSUME IInv, ReceiveInTunnel PROVE IInv'
  OBVIOUS
<1>2. tunnel # NONE
  BY <1>1 DEF ReceiveInTunnel
<1>3. PICK path \in TunnelPaths :
        Arrives("GET", TunnelUri(path), UriOf(tunnel.scheme, tunnel.asked, path))
  BY <1>1 DEF ReceiveInTunnel
<1>4. tunnel \in Tunnels /\ tunnel.scheme \in {"http", "https"} /\ path \in Paths
  BY <1>1, <1>2, <1>3, UrisAssumption DEF IInv, Arrives, Tunnels
<1>5. ASSUME NEW authority \in Authorities
      PROVE  UriOf(tunnel.scheme, authority, path) \in UriRecord
  BY <1>4, LiteralsAssumption DEF UriOf, Authorities, UriRecord
<1>6. TunnelUri(path) \in UriRecord /\ UriOf(tunnel.scheme, tunnel.asked, path) \in UriRecord
  BY <1>4, <1>5 DEF TunnelUri, Tunnels
<1>7. TunnelAsAsked => TunnelUri(path) = UriOf(tunnel.scheme, tunnel.asked, path)
  BY <1>2 DEF TunnelAsAsked, TunnelUri
<1>8. QED
  BY <1>1, <1>3, <1>6, <1>7, ArrivesKeeps

\* handle_request rewrites the URI, and with it the Host of an upgrade.
LEMMA HandleRequestKeeps == IInv /\ HandleRequest => IInv'
<1>1. SUFFICES ASSUME IInv, HandleRequest PROVE IInv'
  OBVIOUS
<1>2. /\ step = "handle" /\ step' = "dispatch"
      /\ UNCHANGED <<with_ca, mode, tunnel, upstream, response>>
  BY <1>1 DEF HandleRequest
<1>3. req # NONE /\ req \in Requests
  BY <1>1, <1>2 DEF IInv
<1> DEFINE goes == Destination(req.uri)
           host == IF IsWebsocketUpgrade(req) /\ Rewritten(req.uri) # NONE
                   THEN Authority(Rewritten(req.uri)) ELSE req.host
           extensions == req.extensions /\ ~ IsWebsocketUpgrade(req)
<1>4. goes \in UriRecord
  BY <1>3, DestinationType DEF Requests
<1>5. host \in Authorities \cup {NONE}
  <2>1. ASSUME Rewritten(req.uri) # NONE PROVE Rewritten(req.uri) \in UriRecord
    BY <1>3, <2>1, RewrittenIs DEF Requests
  <2>2. req.host \in Authorities \cup {NONE}
    BY <1>3 DEF Requests
  <2>3. QED
    BY <2>1, <2>2, AuthorityType
<1>6. extensions \in BOOLEAN
  BY <1>3 DEF Requests
<1>7. req' = [req EXCEPT !.uri = goes, !.extensions = extensions, !.host = host]
  BY <1>1 DEF HandleRequest
<1>8. ASSUME IsWebsocketUpgrade(req), req.host = Authority(req.uri)
      PROVE  host = Authority(goes)
  BY <1>8 DEF Destination
<1> HIDE DEF goes, host, extensions
<1>9. /\ req' = [method |-> req.method, uri |-> goes, asked |-> req.asked,
                 upgrade |-> req.upgrade, extensions |-> extensions, host |-> host]
      /\ req' \in Requests
  BY <1>3, <1>4, <1>5, <1>6, <1>7 DEF Requests
<1>10. TypeOK'
  BY <1>1, <1>2, <1>9, NoneAssumption DEF IInv
<1>11. RequestAsMeant'
  <2>1. (req.method = "CONNECT" => tunnel = NONE) /\ req.host = Authority(req.asked)
    BY <1>1, <1>2, <1>3 DEF IInv, RequestAsMeant
  <2>2. ASSUME TunnelAsAsked PROVE goes = Destination(req.asked) /\ req.uri = req.asked
    BY <1>1, <1>2, <1>3, <2>2 DEF IInv, RequestAsMeant, goes
  <2>3. IsWebsocketUpgrade(req') <=> IsWebsocketUpgrade(req)
    BY <1>9 DEF IsWebsocketUpgrade
  <2>4. QED
    BY <1>2, <1>8, <1>9, <2>1, <2>2, <2>3 DEF RequestAsMeant, TunnelAsAsked
<1>12. SentAsMeant'
  BY <1>1, <1>2 DEF IInv, SentAsMeant, TunnelAsAsked
<1>13. QED
  BY <1>1, <1>2, <1>10, <1>11, <1>12 DEF IInv

\* An answer leaves no request.
LEMMA Answered ==
  ASSUME NEW status, Respond(status)
  PROVE  step' = "idle" /\ req' = NONE /\ response' = status /\ RequestAsMeant'
BY DEF Respond, RequestAsMeant

\* A CONNECT that is accepted knows which authority its client asked for: no rule
\* gives one to a URI without.
LEMMA ProcessConnectKeeps == IInv /\ ProcessConnect => IInv'
<1>1. SUFFICES ASSUME IInv, ProcessConnect PROVE IInv'
  OBVIOUS
<1>2. step = "dispatch" /\ req.method = "CONNECT" /\ UNCHANGED with_ca
  BY <1>1 DEF ProcessConnect
<1>3. req # NONE /\ req \in Requests
  BY <1>1, <1>2 DEF IInv
<1>4. tunnel = NONE /\ TunnelAsAsked /\ req.uri = Destination(req.asked) /\ mode = "http"
  BY <1>1, <1>2, <1>3 DEF IInv, RequestAsMeant, TunnelAsAsked
<1>5. CASE Respond(400) /\ UNCHANGED <<mode, tunnel, upstream>>
  <2>1. TypeOK'
    BY <1>1, <1>2, <1>5, Answered DEF IInv
  <2>2. SentAsMeant'
    BY <1>1, <1>2, <1>5 DEF IInv, SentAsMeant, TunnelAsAsked
  <2>3. QED
    BY <1>4, <1>5, <2>1, <2>2, Answered DEF IInv
<1>6. CASE /\ Authority(req.uri) # NONE
           /\ Respond(200) /\ mode' = "connecting" /\ upstream' = NONE
           /\ tunnel' = [scheme |-> NONE, authority |-> Authority(req.uri),
                         asked |-> Authority(req.asked), h2 |-> FALSE]
  <2>1. Authority(req.uri) \in Authorities
    BY <1>3, <1>6, AuthorityType DEF Requests
  <2>2. req.asked.host # NONE
    BY <1>3, <1>4, <1>6, NoAuthorityNoRule DEF Authority, Requests
  <2>3. Authority(req.asked) \in Authorities
    BY <1>3, <2>2, AuthorityType DEF Requests
  <2>4. tunnel' \in Tunnels
    BY <1>6, <2>1, <2>3 DEF Tunnels
  <2>5. tunnel' # NONE
    BY <2>4, NoneAssumption
  <2>6. TypeOK'
    BY <1>1, <1>2, <1>6, <2>4, Answered DEF IInv
  <2>7. SentAsMeant'
    BY <1>6 DEF SentAsMeant
  <2>8. QED
    BY <1>6, <2>5, <2>6, <2>7, Answered DEF IInv
<1>7. QED
  BY <1>1, <1>5, <1>6 DEF ProcessConnect

LEMMA ConnectKeeps == IInv /\ Connect => IInv'
<1>1. SUFFICES ASSUME IInv, Connect PROVE IInv'
  OBVIOUS
<1>2. /\ mode = "connecting" /\ tunnel # NONE /\ tunnel \in Tunnels /\ req = NONE
      /\ step = "idle" /\ upstream' = NONE /\ UNCHANGED <<with_ca, req, step, response>>
  BY <1>1 DEF IInv, Connect
<1>3. RequestAsMeant' /\ SentAsMeant'
  BY <1>2 DEF RequestAsMeant, SentAsMeant
<1>4. ASSUME with_ca, mode' = "http", NEW scheme \in {"http", "https"}, NEW h2 \in BOOLEAN,
             tunnel' = [tunnel EXCEPT !.scheme = scheme, !.h2 = h2]
      PROVE  TypeOK'
  <2>1. tunnel' = [scheme |-> scheme, authority |-> tunnel.authority,
                   asked |-> tunnel.asked, h2 |-> h2]
    BY <1>2, <1>4 DEF Tunnels
  <2>2. tunnel' \in Tunnels
    BY <1>2, <2>1 DEF Tunnels
  <2>3. tunnel'.scheme # NONE
    BY <2>1, NoneIsNoText, LiteralsAssumption
  <2>4. QED
    BY <1>1, <1>2, <1>4, <2>2, <2>3 DEF IInv
<1>5. ASSUME mode' \in {"tunnel", "closed"}, UNCHANGED tunnel
      PROVE  TypeOK'
  BY <1>1, <1>2, <1>5 DEF IInv
<1>6. TypeOK' /\ mode' # "connecting"
  BY <1>1, <1>4, <1>5 DEF Connect
<1>7. QED
  BY <1>3, <1>6 DEF IInv

\* What is sent, by either way.
LEMMA SentKeeps ==
  ASSUME IInv, step = "dispatch", NEW uri \in UriRecord, NEW host \in Authorities \cup {NONE},
         Sends(uri, host), UNCHANGED tunnel,
         req.method # "CONNECT",
         uri \in {req.uri, WebsocketUri(req.uri)},
         TunnelAsAsked /\ req.upgrade # "listed" => host = Authority(uri)
  PROVE  upstream' \in Sent /\ SentAsMeant'
<1>1. req # NONE /\ req \in Requests
  BY DEF IInv
<1>2. upstream' = [uri |-> uri, asked |-> req.asked, host |-> host,
                   upgrade |-> req.upgrade, extensions |-> req.extensions]
  BY DEF Sends
<1>3. upstream' \in Sent
  BY <1>1, <1>2 DEF Requests, Sent
<1>4. TunnelAsAsked => req.uri = Destination(req.asked)
  BY <1>1 DEF IInv, RequestAsMeant
<1>5. SentAsMeant'
  BY <1>2, <1>4 DEF SentAsMeant, TunnelAsAsked
<1>6. QED
  BY <1>3, <1>5

LEMMA UpgradeWebsocketKeeps == IInv /\ UpgradeWebsocket => IInv'
<1>1. SUFFICES ASSUME IInv, UpgradeWebsocket PROVE IInv'
  OBVIOUS
<1>2. /\ step = "dispatch" /\ req.method # "CONNECT" /\ req.upgrade # "no"
      /\ UNCHANGED <<with_ca, tunnel>>
  BY <1>1 DEF UpgradeWebsocket, IsUpgradeRequest
<1>3. req # NONE /\ req \in Requests /\ mode = "http"
  BY <1>1, <1>2 DEF IInv
<1>4. mode' \in {mode, "websocket"}
  BY <1>1 DEF UpgradeWebsocket
<1>5. /\ step' = "idle" /\ req' = NONE /\ response' \in {101, 400, 502}
      /\ RequestAsMeant'
  BY <1>1, Answered DEF UpgradeWebsocket
<1>6. upstream' \in Sent \cup {NONE} /\ SentAsMeant'
  <2>1. CASE UNCHANGED upstream
    BY <1>1, <1>2, <2>1 DEF IInv, SentAsMeant, TunnelAsAsked
  <2>2. CASE Sends(WebsocketUri(req.uri), req.host)
    <3>1. req.uri \in UriRecord /\ req.host \in Authorities \cup {NONE}
      BY <1>3 DEF Requests
    <3>2. /\ WebsocketUri(req.uri) \in UriRecord
          /\ Authority(WebsocketUri(req.uri)) = Authority(req.uri)
      BY <3>1, WebsocketReaches
    <3>3. TunnelAsAsked /\ req.upgrade # "listed" => req.host = Authority(req.uri)
      BY <1>1, <1>2, <1>3 DEF IInv, RequestAsMeant, IsWebsocketUpgrade, Requests, Upgrades
    <3>4. QED
      BY <1>1, <1>2, <2>2, <3>1, <3>2, <3>3, SentKeeps
  <2>3. QED
    BY <1>1, <2>1, <2>2 DEF UpgradeWebsocket
<1>7. TypeOK'
  BY <1>1, <1>2, <1>3, <1>4, <1>5, <1>6 DEF IInv
<1>8. QED
  BY <1>3, <1>4, <1>5, <1>6, <1>7 DEF IInv

LEMMA ForwardRequestKeeps == IInv /\ ForwardRequest => IInv'
<1>1. SUFFICES ASSUME IInv, ForwardRequest PROVE IInv'
  OBVIOUS
<1>2. /\ step = "dispatch" /\ req.method # "CONNECT"
      /\ UNCHANGED <<with_ca, mode, tunnel>>
  BY <1>1 DEF ForwardRequest
<1>3. req # NONE /\ req \in Requests /\ mode = "http"
  BY <1>1, <1>2 DEF IInv
<1>4. /\ step' = "idle" /\ req' = NONE /\ response' \in {200, 502}
      /\ RequestAsMeant'
  BY <1>1, Answered DEF ForwardRequest
<1>5. upstream' \in Sent \cup {NONE} /\ SentAsMeant'
  <2>1. CASE UNCHANGED upstream
    BY <1>1, <1>2, <2>1 DEF IInv, SentAsMeant, TunnelAsAsked
  <2>2. CASE Sends(req.uri, Authority(req.uri))
    <3>1. req.uri \in UriRecord
      BY <1>3 DEF Requests
    <3>2. Authority(req.uri) \in Authorities \cup {NONE}
      BY <3>1, AuthorityType
    <3>3. QED
      BY <1>1, <1>2, <2>2, <3>1, <3>2, SentKeeps
  <2>3. QED
    BY <1>1, <2>1, <2>2 DEF ForwardRequest
<1>6. TypeOK'
  BY <1>1, <1>2, <1>3, <1>4, <1>5 DEF IInv
<1>7. QED
  BY <1>2, <1>3, <1>4, <1>5, <1>6 DEF IInv

LEMMA ConnectInTunnelKeeps == IInv /\ ConnectInTunnel => IInv'
<1>1. SUFFICES ASSUME IInv, ConnectInTunnel PROVE IInv'
  OBVIOUS
<1>2. /\ mode' = "closed" /\ step = "idle"
      /\ UNCHANGED <<with_ca, tunnel, req, step, upstream, response>>
  BY <1>1 DEF ConnectInTunnel
<1>3. TypeOK' /\ RequestAsMeant' /\ SentAsMeant'
  BY <1>1, <1>2 DEF IInv, RequestAsMeant, SentAsMeant, TunnelAsAsked
<1>4. QED
  BY <1>2, <1>3 DEF IInv

LEMMA NextKeeps == IInv /\ [Next]_vars => IInv'
<1>1. ASSUME IInv, UNCHANGED vars PROVE IInv'
  BY <1>1 DEF vars, IInv, RequestAsMeant, SentAsMeant, TunnelAsAsked
<1>2. QED
  BY <1>1, ReceiveKeeps, ReceiveInTunnelKeeps, ConnectInTunnelKeeps, HandleRequestKeeps,
     ProcessConnectKeeps, ConnectKeeps, UpgradeWebsocketKeeps, ForwardRequestKeeps
     DEF Next

LEMMA Always == Spec => []IInv
BY InitIInv, NextKeeps, PTL DEF Spec

-----------------------------------------------------------------------------
(* The theorems                                                            *)

\* Every variable has its type, and whatever the rules make of a URI is one.
THEOREM TypeCorrect == Spec => []TypeOK
<1>1. IInv => TypeOK
  BY DEF IInv
<1>2. QED
  BY <1>1, Always, PTL

\* What was sent last, in the terms of the properties.
LEMMA SentTypes ==
  ASSUME IInv, upstream # NONE, TunnelAsAsked
  PROVE  /\ upstream.asked \in UriRecord
         /\ Destination(upstream.asked) \in UriRecord
         /\ \/ upstream.uri = Destination(upstream.asked)
            \/ upstream.uri = WebsocketUri(Destination(upstream.asked))
<1>1. upstream.asked \in UriRecord
  BY DEF IInv, Sent
<1>2. QED
  BY <1>1, DestinationType DEF IInv, SentAsMeant

\* A request that comes by itself, or through a tunnel no rule has turned elsewhere, goes
\* where the rules send the URI its client meant, as HTTP or as WebSocket, whatever the
\* rules are (proxy_handler.rs:57-133, internal.rs:100-140 and 362-393).
THEOREM RoutedAsAsked == Spec => []AskedIsRouted
<1>1. IInv => AskedIsRouted
  <2> DEFINE goes == Destination(upstream.asked)
  <2>1. SUFFICES ASSUME IInv, upstream # NONE, TunnelAsAsked, Keeps(goes.scheme)
                 PROVE  Reaches(upstream.uri, goes)
    BY DEF AskedIsRouted
  <2>2. /\ goes \in UriRecord
        /\ upstream.uri = goes \/ upstream.uri = WebsocketUri(goes)
    BY <2>1, SentTypes
  <2> HIDE DEF goes
  <2>3. Reaches(goes, goes)
    BY DEF Reaches
  <2>4. Reaches(WebsocketUri(goes), goes)
    BY <2>1, <2>2, WebsocketReaches
  <2>5. QED
    BY <2>2, <2>3, <2>4
<1>2. QED
  BY <1>1, Always, PTL

\* The Host header of a request names the host it is sent to: hyper's client writes it anew,
\* and handle_request that of an upgrade; only for an upgrade it did not see as one is there
\* no saying (README.md:76, proxy_handler.rs:117-127).
THEOREM HostsNamed == Spec => []HostNamesUpstream
<1>1. IInv => HostNamesUpstream
  BY DEF IInv, SentAsMeant, HostNamesUpstream
<1>2. QED
  BY <1>1, Always, PTL

\* A rewritten path is the one the documentation of PathTransformMode tells, for each of the
\* three modes and whatever kind of pattern the rule has: trimming star and slashes off the
\* rule's path never cuts into what it did not match (http_address.rs:182-250).
THEOREM PathsDocumented == Spec => []PathAsDocumented
<1>1. IInv => PathAsDocumented
  <2> DEFINE asked  == upstream.asked
             found  == Manager!FindWithMatchInfo(asked)
             path   == OriginalPath(asked)
             goes   == Destination(asked)
             target == found.target
             prefix == found.matched_path_prefix
  <2>1. SUFFICES ASSUME IInv, upstream # NONE, TunnelAsAsked,
                        found # NONE, Rewritten(asked) # NONE, Head(path) = "/"
                 PROVE  upstream.uri.path = Rooted(Documented(target, path, prefix))
    BY DEF PathAsDocumented
  <2>2. asked \in UriRecord /\ goes \in UriRecord
        /\ (upstream.uri = goes \/ upstream.uri = WebsocketUri(goes))
    BY <2>1, SentTypes
  <2>3. upstream.uri.path = goes.path
    BY <2>2, WebsocketReaches
  <2>4. goes.path = Rooted(NewPath(target, path, prefix))
    BY <2>1, <2>2, RewrittenIs DEF Destination
  <2>5. target \in Addresses /\ IsSeen(prefix, path)
    BY <2>1, <2>2, FoundIsRule, FoundIsSeen
  <2>6. path \in Paths
    BY <2>2, RootIsPath DEF OriginalPath, UriRecord
  <2>7. NewPath(target, path, prefix) = Documented(target, path, prefix)
    <3> HIDE DEF target, path, prefix
    <3>1. Head(path) = "/"
      BY <2>1 DEF path
    <3>2. QED
      BY <2>5, <2>6, <3>1, NewPathDocumented
  <2>8. QED
    BY <2>3, <2>4, <2>7
<1>2. QED
  BY <1>1, Always, PTL
=============================================================================
