------------------------------ MODULE MCLogin -------------------------------
(* Finite instances of Login for TLC.                                      *)
EXTENDS Login, TLC

\* The example configuration, TLS without a mode, a proxy in front of each
\* mode, and settings that do not fit plain HTTP.
TypicalSettings ==
  {[mode |-> "insecure", cookies |-> "auto", hsts |-> FALSE, tls |-> FALSE, proxy |-> FALSE],
   [mode |-> "self_signed", cookies |-> "auto", hsts |-> FALSE, tls |-> FALSE, proxy |-> FALSE],
   [mode |-> "", cookies |-> "auto", hsts |-> FALSE, tls |-> TRUE, proxy |-> FALSE],
   [mode |-> "strict", cookies |-> "auto", hsts |-> TRUE, tls |-> FALSE, proxy |-> TRUE],
   [mode |-> "strict", cookies |-> "auto", hsts |-> FALSE, tls |-> FALSE, proxy |-> FALSE]}

Symmetry == Permutations(Requests) \cup Permutations(CsrfTokens)
=============================================================================
