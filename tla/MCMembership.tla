--------------------------- MODULE MCMembership ---------------------------
(***************************************************************************)
(* Instances of Membership.  Two users are enough for every hand-over of   *)
(* the ownership; two requests overlap in every way the handlers allow.    *)
(***************************************************************************)
EXTENDS Membership, TLC

MCSymmetry == Permutations(User) \cup Permutations(Request) \cup Permutations(Invite)
===========================================================================
