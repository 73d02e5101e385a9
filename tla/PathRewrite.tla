---------------------------- MODULE PathRewrite ----------------------------
(***************************************************************************)
(* Address::to_uri_with_rewrite (http_address.rs): the URI a request is    *)
(* sent to once a rule has given it a target.  A target is an Address: a   *)
(* record [protocol, host, port, path, path_transform_mode].  Texts are    *)
(* sequences of pieces, as in AddressRules; a space in one makes it no     *)
(* part of a URI.                                                          *)
(***************************************************************************)
EXTENDS AddressRules

\* The path and query of a URI; a CONNECT has none.
OriginalPath(uri) == IF uri.path = NONE THEN <<"/">> ELSE uri.path

Strip(text, n) == SubSeq(text, n + 1, Len(text))

\* What does not begin with a slash is taken for the root.
Prepended(target, path) ==
  TrimEnd(target.path, "/") \o (IF Head(path) = "/" THEN path ELSE <<"/">>)

\* The trailing slash of the matched prefix is replaced, too.
Replaced_KeepsSlash(target, path, prefix) ==
  LET clean == TrimEnd(prefix, "*")
  IN  IF IsPrefix(clean, path)
      THEN TrimEnd(target.path, "/") \o Strip(path, Len(clean))
      ELSE path

\* A path that does not begin with the prefix is kept.
Replaced(target, path, prefix) ==
  LET clean == TrimEnd(TrimEnd(prefix, "*"), "/")
  IN  IF IsPrefix(clean, path)
      THEN TrimEnd(target.path, "/") \o Strip(path, Len(clean))
      ELSE path

\* The three modes; without what a mode needs the path is kept.
NewPath(target, path, prefix) ==
  CASE target.path_transform_mode = "prepend" /\ target.path # NONE ->
         Prepended(target, path)
    [] target.path_transform_mode = "replace" /\ target.path # NONE /\ prefix # NONE ->
         Replaced(target, path, prefix)
    [] OTHER -> path

\* The URI built from scheme, authority and path, an empty one being the root;
\* NONE is the builder's Err.
ToUri(target, uri, prefix) ==
  LET path == NewPath(target, OriginalPath(uri), prefix)
  IN  IF Contains(target.host \o path, " ") THEN NONE
      ELSE [scheme |-> target.protocol, host |-> target.host, port |-> target.port,
            path |-> IF path = <<>> THEN <<"/">> ELSE path]
=============================================================================
