----------------------------- MODULE MCCertCache -----------------------------
(***************************************************************************)
(* A small instance of CertCache for TLC.                                  *)
(***************************************************************************)
EXTENDS CertCache, TLC

CONSTANTS h1, h2, h3   \* handshakes
CONSTANTS web, other   \* authorities

MCHandshakes  == {h1, h2, h3}
MCAuthorities == {web, other}

CertSymmetry == Permutations(Handshakes) \cup Permutations(Authorities)
=============================================================================
