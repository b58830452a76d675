----------------------------- MODULE MCAccess -----------------------------
(***************************************************************************)
(* Who may act: the sessions of one browser and the members of one         *)
(* household.  They share the users table, of which neither changes a row, *)
(* so a behaviour follows one of them.                                     *)
(*                                                                         *)
(* Three pairs of tokens let two tabs rotate the same refresh token again  *)
(* and again until an access token expires (tabs); two pairs live on until *)
(* the refresh tokens expire (ageing).  Two users, two requests and two    *)
(* invitations meet every guard of the member routes; AccessProofs         *)
(* covers any number of them.                                              *)
(***************************************************************************)
EXTENDS AuthSession, Membership, FiniteSets, TLC

VARIABLE part

accessVars == <<sessionVars, vars, part>>

AccessInit == part \in {"tabs", "ageing", "members"} /\ SessionInit /\ Init

AccessNext ==
    /\ UNCHANGED part
    /\ \/ part = "tabs" /\ SessionNext /\ now' <= AccessTtl /\ UNCHANGED vars
       \/ part = "ageing" /\ SessionNext /\ Cardinality(DOMAIN born') <= 2 /\ UNCHANGED vars
       \/ part = "members" /\ Next /\ UNCHANGED sessionVars

AccessSpec == AccessInit /\ [][AccessNext]_accessVars

\* Users, requests and calls are the same model values: the group keeps
\* twelve permutations.
MCSymmetry == Permutations(Pairs) \cup Permutations(Request)
===========================================================================
