--------------------------- MODULE Registration ---------------------------
(***************************************************************************)
(* Registration and e-mail verification of one address                     *)
(* (backend/app/api/routes/auth.py: register, resend_verification,         *)
(* verify_email), with e-mail verification required.                       *)
(*                                                                         *)
(* Several browsers register the address, ask for another mail and verify, *)
(* each request in the steps that its commits separate.  A password is     *)
(* named by the browser that chose it.  A continuation secret is named by  *)
(* the token it was minted with; the browser keeps it in a cookie.         *)
(* Tokens are numbered in the order in which they are issued.              *)
(***************************************************************************)
EXTENDS Integers, Sequences

CONSTANTS Browser,   \* browsers that know the address
          Form,      \* requests in flight
          None,      \* no password, no secret, no browser
          MaxUser,   \* bound: user rows created for the address
          MaxToken   \* bound: verification tokens issued

ASSUME RegistrationAssumption == None \notin Browser /\ MaxUser \in Nat /\ MaxToken \in Nat

VARIABLES user,     \* the row of the address, NoUser if there is none
          users,    \* number of user rows created so far
          tokens,   \* the EmailVerificationToken rows, in the order of issue
          mail,     \* tokens whose mail reached the mailbox
          homes,    \* households created for this address, by their owner's id
          cookie,   \* the continuation cookie of each browser
          lock,     \* the request that holds the user row FOR UPDATE
          form,     \* the requests being served
          crashed   \* history: a worker died between commit and mail

registrationVars == <<user, users, tokens, mail, homes, cookie, lock, form, crashed>>

Token == 1 .. MaxToken
UserId == 1 .. MaxUser
NoUser == [id |-> 0, verified |-> FALSE, password |-> None, by |-> None, old |-> FALSE, home |-> FALSE]
NoCreds == [pending |-> None, cont |-> 0]
NoToken == [user |-> 0, creds |-> NoCreds, state |-> "consumed"]
NoForm == [op |-> "none", step |-> "idle", b |-> None, id |-> 0, creds |-> NoCreds, fresh |-> FALSE, drop |-> {}, tok |-> 0, created |-> FALSE]

Issued == DOMAIN tokens
PendingToken(t) == t \in Issued /\ tokens[t].state # "consumed"
OfUser(id) == {t \in Issued : tokens[t].user = id}
Latest(S) == CHOOSE t \in S : \A u \in S : u <= t
LatestPending(id) ==
    LET S == {t \in OfUser(id) : PendingToken(t)} IN IF S = {} THEN 0 ELSE Latest(S)

Consume(S) == [t \in Issued |-> IF t \in S THEN [tokens[t] EXCEPT !.state = "consumed"] ELSE tokens[t]]

\* The legacy rows: an unverified user without a household, and one whose last
\* token has a password but no continuation (both columns came later).
LegacyToken(b) == [user |-> 1, creds |-> [pending |-> b, cont |-> 0], state |-> "consumed"]

RegistrationInit ==
    /\ \/ user = NoUser /\ users = 0 /\ tokens = <<>>
       \/ /\ user = [NoUser EXCEPT !.id = 1] /\ users = 1
          /\ tokens \in {<<>>} \cup {<<LegacyToken(b)>> : b \in Browser}
    /\ homes = {} /\ mail = {} /\ lock = None /\ crashed = FALSE
    /\ cookie = [b \in Browser |-> 0]
    /\ form = [r \in Form |-> NoForm]

---------------------------------------------------------------------------
(* Shared parts of the handlers                                            *)

EndForm(r) == form' = [form EXCEPT ![r] = NoForm]
Goto(r, step) == form' = [form EXCEPT ![r].step = step]

\* _issue_verification_token and the commit after it: the tokens that were
\* pending when the transaction looked are consumed, a new one is inserted.
\* A fresh continuation is minted with the token itself.
IssueRow(r, id) ==
    LET n == Len(tokens) + 1
        cont == IF form[r].fresh THEN n ELSE form[r].creds.cont
        row == [user |-> id, creds |-> [pending |-> form[r].creds.pending, cont |-> cont], state |-> "new"]
    IN  /\ n <= MaxToken
        /\ tokens' = Append(Consume(form[r].drop), row)
        /\ form' = [form EXCEPT ![r].step = "send", ![r].tok = n, ![r].id = id]

\* Deleting a user cascades to its tokens; its households have no other member.
DeleteUser(id) ==
    /\ user' = IF user.id = id THEN NoUser ELSE user
    /\ tokens' = [t \in Issued |-> IF tokens[t].user = id THEN NoToken ELSE tokens[t]]
    /\ homes' = homes \ {id}

---------------------------------------------------------------------------
(* POST /register                                                          *)

RegisterRead(r, b) ==
    /\ form[r] = NoForm
    /\ ~ user.verified
    /\ form' = [form EXCEPT ![r] = [NoForm EXCEPT !.op = "register", !.b = b, !.id = user.id, !.creds.pending = b, !.fresh = TRUE,
                  !.step = IF user = NoUser THEN "create" ELSE IF user.old THEN "purge" ELSE "reuse"]]
    /\ UNCHANGED <<user, users, tokens, mail, homes, cookie, lock, crashed>>

\* An unverified user past its time to live makes room for a new one.
RegisterPurge(r) ==
    /\ form[r].step = "purge"
    /\ lock = None
    /\ DeleteUser(form[r].id)
    /\ Goto(r, "create")
    /\ UNCHANGED <<users, mail, cookie, lock, crashed>>

\* A new user with a household and its first token, one transaction.
RegisterCreate(r) ==
    /\ form[r].step = "create"
    /\ user = NoUser
    /\ users < MaxUser
    /\ users' = users + 1
    /\ user' = [NoUser EXCEPT !.id = users', !.home = TRUE]
    /\ homes' = homes \cup {users'}
    /\ LET n == Len(tokens) + 1 IN
           /\ n <= MaxToken
           /\ tokens' = Append(tokens, [user |-> users', creds |-> [pending |-> form[r].b, cont |-> n], state |-> "new"])
           /\ form' = [form EXCEPT ![r].step = "send", ![r].tok = n, ![r].id = users', ![r].created = TRUE]
    /\ UNCHANGED <<mail, cookie, lock, crashed>>

\* The unique index on the address refuses the second of two new users.
RegisterTaken(r) ==
    /\ form[r].step = "create"
    /\ user # NoUser
    /\ EndForm(r)
    /\ UNCHANGED <<user, users, tokens, mail, homes, cookie, lock, crashed>>

\* An existing unverified user gets another token.  Only a user without a
\* household is locked (and read again) before one is created for it.
RegisterReuse(r) ==
    /\ form[r].step = "reuse"
    /\ user.id = form[r].id
    /\ IF user.home THEN UNCHANGED lock ELSE lock = None /\ lock' = r
    /\ form' = [form EXCEPT ![r].step = "issue", ![r].drop = {t \in OfUser(user.id) : PendingToken(t)}]
    /\ UNCHANGED <<user, users, tokens, mail, homes, cookie, crashed>>

---------------------------------------------------------------------------
(* POST /resend-verification                                               *)

MutantAnyCookie(b, creds) == creds.cont # 0 /\ cookie[b] # 0

\* The cookie of browser b proves the continuation of the token's credentials.
ContinuationMatches(b, creds) == creds.cont # 0 /\ cookie[b] = creds.cont

ResendRead(r, b) ==
    /\ form[r] = NoForm
    /\ user # NoUser /\ ~ user.verified
    /\ form' = [form EXCEPT ![r] = [NoForm EXCEPT !.b = b, !.id = user.id, !.step = "resend"]]
    /\ UNCHANGED <<user, users, tokens, mail, homes, cookie, lock, crashed>>

\* Under the lock of the user row: the cool-down of the pending token, then
\* the credentials of the newest token are carried over to the next one.
ResendPrepare(r) ==
    LET id == form[r].id
        latest == LatestPending(id)
        source == IF latest # 0 THEN latest ELSE IF OfUser(id) = {} THEN 0 ELSE Latest(OfUser(id))
        creds == IF source = 0 THEN NoCreds ELSE tokens[source].creds
    IN  /\ form[r].step = "resend"
        /\ lock = None
        /\ user.id = id
        /\ \/ /\ \/ latest # 0 /\ tokens[latest].state = "new"
                 \/ creds.pending # None /\ creds.cont = 0
              /\ EndForm(r)
              /\ UNCHANGED lock
           \/ /\ latest # 0 => tokens[latest].state # "new"
              /\ creds.pending # None => creds.cont # 0
              /\ lock' = r
              /\ form' = [form EXCEPT ![r].step = "issue", ![r].creds = creds,
                            ![r].fresh = creds.pending # None /\ ContinuationMatches(form[r].b, creds),
                            ![r].drop = {t \in OfUser(id) : PendingToken(t)}]
        /\ UNCHANGED <<user, users, tokens, mail, homes, cookie, crashed>>

---------------------------------------------------------------------------
(* Issuing, mail and its failure                                           *)

\* The commit of a reused user's or a resent token, with the household that a
\* user without one gets.
Issue(r) ==
    /\ form[r].step = "issue"
    /\ user.id = form[r].id
    /\ lock \in {r, None}
    /\ IssueRow(r, user.id)
    /\ lock' = None
    /\ IF form[r].op = "register" /\ ~ user.home
       THEN user' = [user EXCEPT !.home = TRUE] /\ homes' = homes \cup {user.id}
       ELSE UNCHANGED <<user, homes>>
    /\ UNCHANGED <<users, mail, cookie, crashed>>

\* The user was deleted meanwhile: the foreign key refuses the token.
IssueFails(r) ==
    /\ form[r].step \in {"reuse", "resend", "issue"}
    /\ user.id # form[r].id
    /\ EndForm(r)
    /\ lock' = IF lock = r THEN None ELSE lock
    /\ UNCHANGED <<user, users, tokens, mail, homes, cookie, crashed>>

\* The mail is sent; the browser gets the continuation if one was minted.
MailSent(r) ==
    /\ form[r].step = "send"
    /\ mail' = mail \cup {form[r].tok}
    /\ cookie' = IF form[r].fresh THEN [cookie EXCEPT ![form[r].b] = form[r].tok] ELSE cookie
    /\ EndForm(r)
    /\ UNCHANGED <<user, users, tokens, homes, lock, crashed>>

MutantKeepToken(r) ==
    /\ form[r].step = "send"
    /\ \E left \in BOOLEAN : mail' = IF left THEN mail \cup {form[r].tok} ELSE mail
    /\ IF form[r].created /\ user.id = form[r].id /\ ~ user.verified THEN Goto(r, "discard") ELSE EndForm(r)
    /\ UNCHANGED <<user, users, tokens, homes, cookie, lock, crashed>>

\* Sending fails (the mail may have left all the same): the token is consumed
\* and the user that this request created is looked at again.
VerificationMailFails(r) ==
    LET t == form[r].tok
    IN  /\ form[r].step = "send"
        /\ \E left \in BOOLEAN : mail' = IF left THEN mail \cup {t} ELSE mail
        /\ tokens' = Consume({t})
        /\ IF form[r].created /\ user.id = form[r].id /\ ~ user.verified THEN Goto(r, "discard") ELSE EndForm(r)
        /\ UNCHANGED <<user, users, homes, cookie, lock, crashed>>

Discard(r) ==
    /\ form[r].step = "discard"
    /\ lock = None
    /\ DeleteUser(form[r].id)
    /\ EndForm(r)
    /\ UNCHANGED <<users, mail, cookie, lock, crashed>>

---------------------------------------------------------------------------
(* POST /verify-email                                                      *)

\* By link any pending token, by code the newest one of the address only.
PendingByToken(t) == t \in mail /\ PendingToken(t)
PendingByCode(t) == PendingByToken(t) /\ t = LatestPending(user.id)

\* The pending password if the browser proves its continuation, else one that
\* is typed now.
VerifiedPassword(b, creds) ==
    IF creds.pending # None /\ ContinuationMatches(b, creds) THEN creds.pending ELSE b

\* An expired token is consumed; the password is decided before the commit.
VerifyRead(r, b, t, by) ==
    /\ form[r] = NoForm
    /\ IF by = "link" THEN PendingByToken(t) ELSE PendingByCode(t)
    /\ ~ user.verified
    /\ \/ /\ tokens[t].state = "expired"
          /\ tokens' = Consume({t})
          /\ UNCHANGED form
       \/ /\ tokens[t].state # "expired"
          /\ form' = [form EXCEPT ![r] = [NoForm EXCEPT !.step = "verify", !.b = b, !.tok = t,
                        !.creds.pending = VerifiedPassword(b, tokens[t].creds)]]
          /\ UNCHANGED tokens
    /\ UNCHANGED <<user, users, mail, homes, cookie, lock, crashed>>

\* The conditional update of the token decides, then the user is written.
VerifyCommit(r) ==
    LET t == form[r].tok
    IN  /\ form[r].step = "verify"
        /\ PendingToken(t) /\ tokens[t].user = user.id
        /\ lock = None
        /\ tokens' = Consume({t})
        /\ user' = [user EXCEPT !.verified = TRUE, !.password = form[r].creds.pending, !.by = form[r].b]
        /\ cookie' = [cookie EXCEPT ![form[r].b] = 0]
        /\ EndForm(r)
        /\ UNCHANGED <<users, mail, homes, lock, crashed>>

VerifyRefused(r) ==
    /\ form[r].step = "verify"
    /\ ~ PendingToken(form[r].tok)
    /\ EndForm(r)
    /\ UNCHANGED <<user, users, tokens, mail, homes, cookie, lock, crashed>>

---------------------------------------------------------------------------
(* Time and crashes                                                        *)

\* A token outlives the cool-down, then its validity.
TokenAges(t) ==
    /\ PendingToken(t) /\ tokens[t].state # "expired"
    /\ tokens' = [tokens EXCEPT ![t].state = IF @ = "new" THEN "cool" ELSE "expired"]
    /\ UNCHANGED <<user, users, mail, homes, cookie, lock, form, crashed>>

\* An unverified user outlives register_unverified_ttl_hours.
UserAges ==
    /\ user # NoUser /\ ~ user.verified /\ ~ user.old
    /\ user' = [user EXCEPT !.old = TRUE]
    /\ UNCHANGED <<users, tokens, mail, homes, cookie, lock, form, crashed>>

\* A worker dies, or the database picks its transaction as a deadlock victim.
Crash(r) ==
    /\ form[r].step \in {"issue", "send", "discard"}
    /\ crashed' = (crashed \/ form[r].step \in {"send", "discard"})
    /\ EndForm(r)
    /\ lock' = IF lock = r THEN None ELSE lock
    /\ UNCHANGED <<user, users, tokens, mail, homes, cookie>>

RegistrationNext ==
    \/ \E r \in Form :
          \/ RegisterPurge(r) \/ RegisterCreate(r) \/ RegisterTaken(r) \/ RegisterReuse(r)
          \/ ResendPrepare(r) \/ Issue(r) \/ IssueFails(r) \/ MailSent(r) \/ VerificationMailFails(r) \/ Discard(r)
          \/ VerifyCommit(r) \/ VerifyRefused(r) \/ Crash(r)
          \/ \E b \in Browser : RegisterRead(r, b) \/ ResendRead(r, b)
          \/ \E b \in Browser, t \in mail, by \in {"link", "code"} : VerifyRead(r, b, t, by)
    \/ \E t \in Issued : TokenAges(t)
    \/ UserAges

RegistrationSpec == RegistrationInit /\ [][RegistrationNext]_registrationVars

---------------------------------------------------------------------------
(* Properties                                                              *)

\* The password of a verified account was chosen by the browser that verified
\* it, however registrations and resends of several browsers were mixed: a
\* pending password is activated only by the browser that proves it started
\* that registration (verify_email, resend_verification).
ChosenByVerifier == user.verified => user.password = user.by

\* A token that is pending was mailed or is about to be, so the cool-down never
\* makes anybody wait for a mail that was not sent - unless a worker died.
PendingWasMailed ==
    crashed \/ \A t \in Issued : PendingToken(t) => t \in mail \/ \E r \in Form : form[r].tok = t /\ form[r].step = "send"
===========================================================================
