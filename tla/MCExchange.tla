----------------------------- MODULE MCExchange -----------------------------
(***************************************************************************)
(* Instances of Exchange for TLC.                                          *)
(***************************************************************************)
EXTENDS ExchangeProperties, TLC

\* The handlers treat all accounts alike.
MCSymmetry == Permutations(Accounts)
=============================================================================
