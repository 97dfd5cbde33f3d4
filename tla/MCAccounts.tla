----------------------------- MODULE MCAccounts -----------------------------
(* Accounts with two request threads and two browsers.                      *)
EXTENDS Accounts, TLC

CONSTANTS h1, h2, b1, b2, x, g1

Symmetry == Permutations({b1, b2}) \cup Permutations({h1, h2})
=============================================================================
