---------------------------- MODULE MCAccounts ----------------------------
(***************************************************************************)
(* The way into an account: two browsers and two requests register,        *)
(* resend and verify one address; three requests meet a throttle.  The     *)
(* two share no row, so a behaviour follows one of them.                   *)
(***************************************************************************)
EXTENDS Registration, AuthThrottle, TLC

VARIABLE part

accountVars == <<registrationVars, throttleVars, part>>

AccountsInit ==
    /\ part \in {"registration", "throttle"}
    /\ RegistrationInit /\ ThrottleInit
    /\ part = "throttle" => user = NoUser
    /\ part = "registration" => counter = "attempts"

AccountsNext ==
    /\ UNCHANGED part
    /\ \/ part = "registration" /\ RegistrationNext /\ UNCHANGED throttleVars
       \/ part = "throttle" /\ ThrottleNext /\ UNCHANGED registrationVars

AccountsSpec == AccountsInit /\ [][AccountsNext]_accountVars

MCSymmetry == Permutations(Form) \cup Permutations(Browser)
===========================================================================
