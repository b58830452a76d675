--------------------------- MODULE MCAuthSession ---------------------------
(***************************************************************************)
(* Instances of AuthSession.  Three pairs let two tabs rotate the same     *)
(* refresh token, two requests overlap in every way, and the clock passes  *)
(* the expiry of both tokens of the first pair while they still decode.    *)
(***************************************************************************)
EXTENDS AuthSession, TLC

MCSymmetry == Permutations(Pairs) \cup Permutations(Requests)
===========================================================================
