------------------------- MODULE MCCredentialRefresh -------------------------
(***************************************************************************)
(* The instance of CredentialRefresh for TLC: the host's goroutines are    *)
(* interchangeable.                                                        *)
(***************************************************************************)
EXTENDS CredentialRefresh, TLC

CONSTANTS w1, w2

Symmetry == Permutations(Workers)
=============================================================================
