----------------------------- MODULE MCAccounts -----------------------------
(***************************************************************************)
(* Small instances of Accounts for TLC.                                    *)
(***************************************************************************)
EXTENDS Accounts, TLC

CONSTANTS i1, i2, i3, e1, e2, e3, c1, c2

Symmetry == Permutations({i1, i2, i3}) \cup Permutations({e1, e2, e3}) \cup Permutations({c1, c2})
=============================================================================
