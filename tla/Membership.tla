---------------------------- MODULE Membership ----------------------------
(***************************************************************************)
(* Members, roles and invitations of ONE household:                        *)
(* backend/app/api/routes/household.py with the dependencies of            *)
(* backend/app/api/deps.py.                                                *)
(*                                                                         *)
(* A request loads the acting member's row while it is authorised          *)
(* (get_current_household), before any lock.  The handlers then lock all   *)
(* member rows (SELECT ... FOR UPDATE), but the ORM session keeps the copy *)
(* it already has: the actor's role is the one of the first load, every    *)
(* other row is read as committed.  A member who is removed and invited    *)
(* again gets a new row, so a copy also remembers which row it is of.      *)
(*                                                                         *)
(* Left out: the sockets a removal closes (WsAccess), active_household_id  *)
(* (a default that get_current_household checks against the memberships    *)
(* whenever it is used), display names and the invitation rate limit (the  *)
(* action Abandon covers the errors they raise).                           *)
(***************************************************************************)
EXTENDS Integers, FiniteSets

CONSTANTS User,       \* accounts; one of them founds the household
          Request,    \* requests being served
          Invite,     \* invitation rows
          MaxRow      \* bound on the membership rows a user ever gets

ASSUME MaxRowAssumption == MaxRow \in Nat \ {0}

Role == {"viewer", "editor", "co_owner", "owner"}
Manager == {"co_owner", "owner"}
InvitedRole == Role \ {"owner"}

VARIABLES
    role,     \* role[u]: role of u's member row, "none" without a row
    row,      \* row[u]: number of u's latest member row
    invite,   \* invite[i]: [status, email, role]
    lapsed,   \* invitations whose expires_at has passed
    req,      \* req[r]: what request r is doing and has loaded
    stale     \* history: a request wrote on the strength of a stale copy

vars == <<role, row, invite, lapsed, req, stale>>

Idle == [kind |-> "idle"]
Blank == [status |-> "unused"]

Init ==
    /\ \E founder \in User :
         role = [u \in User |-> IF u = founder THEN "owner" ELSE "none"]
    /\ row = [u \in User |-> 1]
    /\ invite = [i \in Invite |-> Blank]
    /\ lapsed = {}
    /\ req = [r \in Request |-> Idle]
    /\ stale = FALSE

End(r) == req' = [req EXCEPT ![r] = Idle]

\* Locks held across the steps of a request: the household row and the
\* actor's member row by an invitation being created, an invitation row by its
\* acceptance.
\* (The mutant drops the lock on the household row.)
MutantNoHouseholdLock == FALSE
HouseholdLocked == \E r \in Request : req[r].kind = "create"
InviteLocked(i) == \E r \in Request : req[r].kind = "accept" /\ req[r].invite = i

---------------------------------------------------------------------------
(* Managing members                                                        *)

\* get_current_household and require_co_owner_household.
Authorize(r, u) ==
    /\ req[r] = Idle
    /\ role[u] \in Manager
    /\ req' = [req EXCEPT ![r] = [kind |-> "manage", user |-> u, row |-> row[u], role |-> role[u]]]
    /\ UNCHANGED <<role, row, invite, lapsed, stale>>

\* Any early return or error, and any read-only handler.
Abandon(r) ==
    /\ req[r] # Idle
    /\ End(r)
    /\ UNCHANGED <<role, row, invite, lapsed, stale>>

\* The member rows as the handler sees them after _lock_household_members.
Seen(r, u) == IF u = req[r].user THEN req[r].role ELSE role[u]

\* The actor's row is still among the locked rows.
ActorPresent(r) ==
    LET a == req[r].user IN role[a] # "none" /\ row[a] = req[r].row

\* Another owner than t: owner_count > 1 when t is an owner.
OtherOwner(r, t) == \E u \in User \ {t} : Seen(r, u) = "owner"

\* The request's copy of the actor's row differs from the row.
ActorStale(r) == role[req[r].user] # req[r].role

\* Mutant: promoting a member leaves the actor an owner.
MutantNoHandover(r, t, next) ==
    /\ req[r].kind = "manage"
    /\ ~ HouseholdLocked
    /\ role[t] # "none" /\ ActorPresent(r)
    /\ (Seen(r, t) = "owner" \/ next = "owner") => req[r].role = "owner"
    /\ (Seen(r, t) = "owner" /\ next # "owner") => OtherOwner(r, t)
    /\ role' = [role EXCEPT ![t] = next]
    /\ stale' = (stale \/ ActorStale(r))
    /\ End(r)
    /\ UNCHANGED <<row, invite, lapsed>>

\* patch_member_role.  A column is written only if it differs from the copy.
PatchMemberRole(r, t, next) ==
    LET a == req[r].user
        promotes == next = "owner" /\ Seen(r, t) # "owner" /\ a # t
    IN  /\ req[r].kind = "manage"
        /\ ~ HouseholdLocked
        /\ role[t] # "none" /\ ActorPresent(r)
        /\ (Seen(r, t) = "owner" \/ next = "owner") => req[r].role = "owner"
        /\ (Seen(r, t) = "owner" /\ next # "owner") => OtherOwner(r, t)
        /\ role' = [u \in User |->
                      IF u = t /\ Seen(r, t) # next THEN next
                      ELSE IF u = a /\ promotes THEN "co_owner"
                      ELSE role[u]]
        /\ stale' = (stale \/ ActorStale(r))
        /\ End(r)
        /\ UNCHANGED <<row, invite, lapsed>>

\* remove_member.
RemoveMember(r, t) ==
    /\ req[r].kind = "manage"
    /\ ~ HouseholdLocked
    /\ ActorPresent(r) /\ role[t] # "none"
    /\ Seen(r, t) = "owner" => req[r].role = "owner" /\ OtherOwner(r, t)
    /\ role' = [role EXCEPT ![t] = "none"]
    /\ stale' = (stale \/ ActorStale(r))
    /\ End(r)
    /\ UNCHANGED <<row, invite, lapsed>>

---------------------------------------------------------------------------
(* Invitations                                                             *)

\* create_invitation, first part: the household row is locked, the actor's
\* row is found, and the invited address belongs to no member.
CheckInvite(r, v) ==
    /\ req[r].kind = "manage"
    /\ ~ HouseholdLocked
    /\ ActorPresent(r)
    /\ role[v] = "none"
    /\ req' = [req EXCEPT ![r] = [kind |-> "create", email |-> v]]
    /\ UNCHANGED <<role, row, invite, lapsed, stale>>

\* create_invitation, second part: the pending invitations of the address are
\* locked and revoked and a new one is committed.
CreateInvite(r, i, rl) ==
    LET pending == {j \in Invite : /\ invite[j].status = "pending"
                                   /\ invite[j].email = req[r].email}
    IN  /\ req[r].kind = "create"
        /\ invite[i] = Blank
        /\ \A j \in pending : ~ InviteLocked(j)
        /\ invite' = [j \in Invite |->
                        IF j = i THEN [status |-> "pending", email |-> req[r].email, role |-> rl]
                        ELSE IF j \in pending THEN [invite[j] EXCEPT !.status = "revoked"]
                        ELSE invite[j]]
        /\ req' = [req EXCEPT ![r] = [kind |-> "mail", invite |-> i]]
        /\ UNCHANGED <<role, row, lapsed, stale>>

\* The mail could not be sent: _revoke_pending_invitation_after_delivery_failure.
MailFails(r) ==
    /\ req[r].kind = "mail"
    /\ LET i == req[r].invite
       IN  /\ ~ InviteLocked(i)
           /\ invite' = [invite EXCEPT ![i].status = IF @ = "pending" THEN "revoked" ELSE @]
    /\ End(r)
    /\ UNCHANGED <<role, row, lapsed, stale>>

\* revoke_invitation: a conditional UPDATE, 409 when it matches no row.
RevokeInvite(r, i) ==
    /\ req[r].kind = "manage"
    /\ invite[i].status = "pending" /\ ~ InviteLocked(i)
    /\ invite' = [invite EXCEPT ![i].status = "revoked"]
    /\ End(r)
    /\ UNCHANGED <<role, row, lapsed, stale>>

\* Time passes an invitation's expires_at.
Lapse(i) ==
    /\ invite[i] # Blank
    /\ lapsed' = lapsed \cup {i}
    /\ UNCHANGED <<role, row, invite, req, stale>>

\* Accepting a lapsed invitation records that it has expired.
AcceptExpired(r, i) ==
    /\ req[r] = Idle
    /\ invite[i].status = "pending" /\ ~ InviteLocked(i) /\ i \in lapsed
    /\ invite' = [invite EXCEPT ![i].status = "expired"]
    /\ UNCHANGED <<role, row, lapsed, req, stale>>

\* accept_invitation(_by_id): the invitation is locked and checked and the
\* accepting user has no member row.  (PendingOnlyForOutsiders says that the
\* other branch, household.py:279-283, which raises the role of a member, is
\* never taken.)
AcceptLoad(r, i) ==
    /\ req[r] = Idle
    /\ invite[i].status = "pending" /\ ~ InviteLocked(i) /\ i \notin lapsed
    /\ role[invite[i].email] = "none"
    /\ req' = [req EXCEPT ![r] = [kind |-> "accept", user |-> invite[i].email, invite |-> i]]
    /\ UNCHANGED <<role, row, invite, lapsed, stale>>

\* Mutant: the new row gets the column's default role.
MutantJoinAsEditor(r) ==
    LET u == req[r].user
    IN  /\ req[r].kind = "accept"
        /\ ~ HouseholdLocked
        /\ invite[req[r].invite].status = "pending"
        /\ role[u] = "none" /\ row[u] < MaxRow
        /\ role' = [role EXCEPT ![u] = "editor"]
        /\ row' = [row EXCEPT ![u] = @ + 1]
        /\ invite' = [invite EXCEPT ![req[r].invite].status = "accepted"]
        /\ End(r)
        /\ UNCHANGED <<lapsed, stale>>

\* The commit inserts the member row and settles the invitation.  The insert's
\* foreign key takes a share lock on the household row, so it waits for an
\* invitation being created; if that one waits for this invitation the
\* database breaks the deadlock by aborting either (Abandon).
AcceptJoin(r) ==
    LET u == req[r].user
    IN  /\ req[r].kind = "accept"
        /\ ~ HouseholdLocked
        /\ invite[req[r].invite].status = "pending"
        /\ role[u] = "none" /\ row[u] < MaxRow
        /\ role' = [role EXCEPT ![u] = invite[req[r].invite].role]
        /\ row' = [row EXCEPT ![u] = @ + 1]
        /\ invite' = [invite EXCEPT ![req[r].invite].status = "accepted"]
        /\ End(r)
        /\ UNCHANGED <<lapsed, stale>>

---------------------------------------------------------------------------
Next ==
    \/ \E r \in Request, u \in User : Authorize(r, u) \/ RemoveMember(r, u) \/ CheckInvite(r, u)
    \/ \E r \in Request, u \in User, next \in Role : PatchMemberRole(r, u, next)
    \/ \E r \in Request, i \in Invite, rl \in InvitedRole : CreateInvite(r, i, rl)
    \/ \E r \in Request, i \in Invite : RevokeInvite(r, i) \/ AcceptExpired(r, i) \/ AcceptLoad(r, i)
    \/ \E r \in Request : Abandon(r) \/ MailFails(r) \/ AcceptJoin(r)
    \/ \E i \in Invite : Lapse(i)

Spec == Init /\ [][Next]_vars

---------------------------------------------------------------------------
(* Properties                                                              *)

\* Every variable has its type.
TypeOK ==
    /\ role \in [User -> Role \cup {"none"}]
    /\ row \in [User -> 1 .. MaxRow]
    /\ invite \in [Invite -> {Blank} \cup
                     [status : {"pending", "accepted", "revoked", "expired"},
                      email : User, role : InvitedRole]]
    /\ lapsed \subseteq Invite
    /\ req \in [Request ->
                  {Idle}
                  \cup [kind : {"manage"}, user : User, row : 1 .. MaxRow, role : Manager]
                  \cup [kind : {"create"}, email : User]
                  \cup [kind : {"mail"}, invite : Invite]
                  \cup [kind : {"accept"}, user : User, invite : Invite]]
    /\ stale \in BOOLEAN

Owners == {u \in User : role[u] = "owner"}

\* "최소 1명의 owner는 유지되어야 합니다" (household.py:933): a household never
\* loses its last owner.
OwnerRemains == Owners # {}

\* As long as no request wrote on the strength of a stale copy of a member
\* row, the household has exactly one owner: promoting a member hands the
\* ownership over, and the last owner can be neither demoted nor removed.
SoleOwner == ~ stale => \E u \in User : Owners = {u}

Pending == {i \in Invite : invite[i].status = "pending"}

\* Invitations are pending only for addresses that belong to no member, and
\* only one per address, although the membership is checked and the earlier
\* invitation revoked in different steps than the acceptance of it: the partial
\* unique index never has to refuse a row and accepting never meets a member.
PendingOnlyForOutsiders ==
    /\ \A i \in Pending : role[invite[i].email] = "none"
    /\ \A i, j \in Pending : invite[i].email = invite[j].email => i = j

\* A settled invitation stays as it is: what was revoked, expired or accepted
\* is never accepted (again), whatever request was in flight.
SettledIsFinal ==
    [][\A i \in Invite :
          invite[i].status \in {"accepted", "revoked", "expired"} => invite'[i] = invite[i]]_vars

\* Nobody becomes a member except by an invitation to their address that was
\* pending until this very step, with the role the invitation offered.
JoinsOnlyByInvite ==
    [][\A u \in User :
          (role[u] = "none" /\ role'[u] # "none") =>
             \E i \in Invite :
                /\ invite[i].status = "pending" /\ invite[i].email = u
                /\ invite'[i].status = "accepted" /\ role'[u] = invite[i].role]_vars
===========================================================================
