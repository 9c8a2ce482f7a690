------------------------------- MODULE MCOtp -------------------------------
(* Otp with interchangeable codes and requests: no property names one.      *)
EXTENDS Otp, TLC

Symmetry ==
  Permutations(Codes) \union Permutations(Sends) \union Permutations(Verifies)
=============================================================================
