--------------------------- MODULE MCAuthManager ---------------------------
(* Instances of AuthManager for TLC. *)
EXTENDS AuthManager, TLC

\* Cookie values are interchangeable: only their equality matters.
CookieSymmetry == Permutations(Tokens)

\* Concurrent requests too; safety properties only.
FullSymmetry == Permutations(Tokens) \cup Permutations(Calls)
============================================================================
