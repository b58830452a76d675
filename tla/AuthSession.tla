---------------------------- MODULE AuthSession ----------------------------
(***************************************************************************)
(* Cookie sessions: login, rotating refresh, logout and the rows of        *)
(* revoked tokens (backend/app/api/routes/auth.py, api/deps.py).           *)
(*                                                                         *)
(* One browser holds at most one pair of tokens in its cookie jar; several *)
(* of its tabs have requests in flight.  The server commits revocations as *)
(* rows keyed by the token's jti: an INSERT of a key another transaction   *)
(* has inserted but not committed waits for it, and fails once it has      *)
(* committed.  Rows are deleted when their token's expiry has passed,      *)
(* while decoding still accepts the token for Leeway more.                 *)
(*                                                                         *)
(* Requests carry the jar's two cookies together.  A bearer header is only *)
(* modelled for reads (Authenticate).  Accounts are not deleted.           *)
(***************************************************************************)
EXTENDS Naturals, Sequences

CONSTANTS
    Pairs,        \* pairs of tokens that can be minted (bound)
    Requests,     \* requests in flight at a time (bound)
    NoPair,       \* no cookies
    AccessTtl,    \* settings.access_token_minutes
    RefreshTtl,   \* settings.refresh_token_days
    Leeway,       \* JWT_CLOCK_SKEW_LEEWAY_SECONDS
    MaxTime       \* last instant (bound)

ASSUME SessionAssumption ==
    /\ NoPair \notin Pairs
    /\ AccessTtl \in Nat \ {0}
    /\ RefreshTtl \in Nat \ {0}
    /\ Leeway \in Nat
    /\ MaxTime \in Nat

VARIABLES
    now,      \* the clock
    born,     \* minted pairs, each with the instant of its creation
    parent,   \* the pair whose refresh token a pair was minted for
    rows,     \* committed RevokedToken rows
    jar,      \* the pair in the browser's cookies
    call,     \* the requests in flight
    ended,    \* history: tokens a logout or a refresh said it had ended
    lost      \* history: pairs whose answer never reached the browser

sessionVars == <<now, born, parent, rows, jar, call, ended, lost>>

A(p) == <<"access", p>>
R(p) == <<"refresh", p>>
Jwt == {"access", "refresh"} \X Pairs

Minted == DOMAIN born
Exp(t) == born[t[2]] + (IF t[1] = "access" THEN AccessTtl ELSE RefreshTtl)
Expired(t) == Exp(t) <= now

\* jwt.decode accepts a token for Leeway after its expiry.
Decodes(t) == t[2] \in Minted /\ now < Exp(t) + Leeway

NoCall == [op |-> "none", pair |-> NoPair, pc |-> "idle", todo |-> <<>>,
         held |-> {}, answer |-> "none", next |-> NoPair]

SessionInit ==
    /\ now = 0
    /\ born = <<>>
    /\ parent = <<>>
    /\ rows = {}
    /\ jar = NoPair
    /\ call = [q \in Requests |-> NoCall]
    /\ ended = {}
    /\ lost = {}

HeldByOther(q, t) == \E o \in Requests \ {q} : t \in call[o].held

Answer(q, a) == [call[q] EXCEPT !.pc = "answer", !.answer = a,
                               !.todo = <<>>, !.held = {}]

\* uuid4 jti, iat and exp of a new access and refresh token.
Mint(p, from) ==
    /\ p \notin Minted
    /\ born' = [x \in Minted \cup {p} |-> IF x = p THEN now ELSE born[x]]
    /\ parent' = [x \in Minted \cup {p} |-> IF x = p THEN from ELSE parent[x]]

-----------------------------------------------------------------------------
(* The browser.                                                            *)

Send(q) ==
    /\ call[q] = NoCall
    /\ jar # NoPair
    /\ \E op \in {"refresh", "logout"} :
          call' = [call EXCEPT ![q] = [NoCall EXCEPT !.op = op, !.pair = jar, !.pc = "start"]]
    /\ UNCHANGED <<now, born, parent, rows, jar, ended, lost>>

Deliver(q) ==
    /\ call[q].pc = "answer"
    /\ jar' = CASE call[q].answer = "set"   -> call[q].next
                [] call[q].answer = "clear" -> NoPair
                [] OTHER                   -> jar
    /\ call' = [call EXCEPT ![q] = NoCall]
    /\ UNCHANGED <<now, born, parent, rows, ended, lost>>

Lose(q) ==
    /\ call[q].pc = "answer"
    /\ call' = [call EXCEPT ![q] = NoCall]
    /\ lost' = lost \cup {call[q].pair}
    /\ UNCHANGED <<now, born, parent, rows, jar, ended>>

-----------------------------------------------------------------------------
(* Login, refresh and logout.                                              *)

Login(q) ==
    /\ call[q] = NoCall
    /\ \E p \in Pairs :
          /\ Mint(p, NoPair)
          /\ call' = [call EXCEPT ![q] = [NoCall EXCEPT !.op = "login", !.pc = "answer",
                                                    !.answer = "set", !.next = p]]
    /\ UNCHANGED <<now, rows, jar, ended, lost>>

\* What _upsert_revoked_token adds for a token: a row, if it finds none.
Missing(t) == IF Decodes(t) /\ t \notin rows THEN <<t>> ELSE <<>>

\* Mutant: the refresh token is revoked as the access token is, by an upsert.
MutantUpsert(q) ==
    /\ call[q].op = "refresh" /\ call[q].pc = "start"
    /\ call' = [call EXCEPT ![q] =
                 IF Decodes(R(call[q].pair))
                 THEN [call[q] EXCEPT !.pc = "once", !.todo = Missing(R(call[q].pair))]
                 ELSE Answer(q, "clear")]
    /\ UNCHANGED <<now, born, parent, rows, jar, ended, lost>>

\* refresh_session: an undecodable refresh token ends the session, any other
\* one is to be revoked first.
RefreshDecode(q) ==
    /\ call[q].op = "refresh" /\ call[q].pc = "start"
    /\ call' = [call EXCEPT ![q] =
                 IF Decodes(R(call[q].pair))
                 THEN [call[q] EXCEPT !.pc = "once", !.todo = <<R(call[q].pair)>>]
                 ELSE Answer(q, "clear")]
    /\ UNCHANGED <<now, born, parent, rows, jar, ended, lost>>

\* Mutant: a refresh leaves the access token alone.
MutantRefreshOnly(q) ==
    /\ call[q].op = "refresh" /\ call[q].pc = "once" /\ call[q].todo = <<>>
    /\ call' = [call EXCEPT ![q].pc = "commit"]
    /\ UNCHANGED <<now, born, parent, rows, jar, ended, lost>>

\* The refresh token's row is flushed; the access cookie is revoked with it.
RefreshAccess(q) ==
    /\ call[q].op = "refresh" /\ call[q].pc = "once" /\ call[q].todo = <<>>
    /\ call' = [call EXCEPT ![q].pc = "commit", ![q].todo = Missing(A(call[q].pair))]
    /\ UNCHANGED <<now, born, parent, rows, jar, ended, lost>>

RefreshCommit(q) ==
    /\ call[q].op = "refresh" /\ call[q].pc = "commit" /\ call[q].todo = <<>>
    /\ rows' = rows \cup call[q].held
    /\ \E p \in Pairs :
          /\ Mint(p, call[q].pair)
          /\ call' = [call EXCEPT ![q] = [Answer(q, "set") EXCEPT !.next = p]]
    /\ ended' = ended \cup {A(call[q].pair), R(call[q].pair)}
    /\ UNCHANGED <<now, jar, lost>>

\* After a lost race: keep the cookies if the token's row shows that another
\* request has rotated it, clear them otherwise.
RefreshReplayed(q) ==
    /\ call[q].pc = "check"
    /\ call' = [call EXCEPT ![q] =
                 Answer(q, IF R(call[q].pair) \in rows THEN "keep" ELSE "clear")]
    /\ UNCHANGED <<now, born, parent, rows, jar, ended, lost>>

LogoutAccess(q) ==
    /\ call[q].op = "logout" /\ call[q].pc = "start"
    /\ call' = [call EXCEPT ![q].pc = "read", ![q].todo = Missing(A(call[q].pair))]
    /\ UNCHANGED <<now, born, parent, rows, jar, ended, lost>>

LogoutRefresh(q) ==
    /\ call[q].op = "logout" /\ call[q].pc = "read"
    /\ call' = [call EXCEPT ![q].pc = "commit",
                          ![q].todo = call[q].todo \o Missing(R(call[q].pair))]
    /\ UNCHANGED <<now, born, parent, rows, jar, ended, lost>>

LogoutCommit(q) ==
    /\ call[q].op = "logout" /\ call[q].pc = "commit" /\ call[q].todo = <<>>
    /\ rows' = rows \cup call[q].held
    /\ call' = [call EXCEPT ![q] = Answer(q, "clear")]
    /\ ended' = ended \cup {A(call[q].pair), R(call[q].pair)}
    /\ UNCHANGED <<now, born, parent, jar, lost>>

-----------------------------------------------------------------------------
(* Flushing the INSERTs of a request, one row at a time.                   *)

Flushing(q) == call[q].pc \in {"once", "commit"} /\ call[q].todo # <<>>
Blocked(q) == Flushing(q) /\ HeldByOther(q, Head(call[q].todo))

\* Mutant: each revocation is committed as soon as it is written.
MutantCommitEarly(q) ==
    /\ Flushing(q) /\ ~ Blocked(q)
    /\ Head(call[q].todo) \notin rows
    /\ rows' = rows \cup {Head(call[q].todo)}
    /\ call' = [call EXCEPT ![q].todo = Tail(@)]
    /\ UNCHANGED <<now, born, parent, jar, ended, lost>>

Insert(q) ==
    /\ Flushing(q) /\ ~ Blocked(q)
    /\ Head(call[q].todo) \notin rows
    /\ call' = [call EXCEPT ![q].held = @ \cup {Head(call[q].todo)},
                          ![q].todo = Tail(@)]
    /\ UNCHANGED <<now, born, parent, rows, jar, ended, lost>>

\* IntegrityError: everything the request inserted is rolled back.  Logout
\* swallows it and answers ok.
Duplicate(q) ==
    /\ Flushing(q) /\ ~ Blocked(q)
    /\ Head(call[q].todo) \in rows
    /\ IF call[q].op = "refresh"
       THEN /\ call' = [call EXCEPT ![q].pc = "check", ![q].todo = <<>>, ![q].held = {}]
            /\ UNCHANGED ended
       ELSE /\ call' = [call EXCEPT ![q] = Answer(q, "clear")]
            /\ ended' = ended \cup {A(call[q].pair), R(call[q].pair)}
    /\ UNCHANGED <<now, born, parent, rows, jar, lost>>

\* A refresh holds the refresh row and waits for the access row, a logout
\* holds the access row and waits for the refresh row: the database aborts
\* one of them, which answers an error that touches no cookie.
Victim(q) ==
    /\ Blocked(q)
    /\ \E o \in Requests \ {q} :
          /\ Head(call[q].todo) \in call[o].held
          /\ Blocked(o) /\ Head(call[o].todo) \in call[q].held
    /\ call' = [call EXCEPT ![q] = Answer(q, "error")]
    /\ UNCHANGED <<now, born, parent, rows, jar, ended, lost>>

-----------------------------------------------------------------------------
(* Use of an access token, clean-up and time.                              *)

\* get_current_user: a revoked token is refused; its row is dropped once the
\* token's expiry has passed.
Authenticate(t) ==
    /\ t[1] = "access" /\ Decodes(t)
    /\ rows' = IF t \in rows /\ Expired(t) THEN rows \ {t} ELSE rows
    /\ UNCHANGED <<now, born, parent, jar, call, ended, lost>>

\* _maybe_cleanup_auth_artifacts, on the throttle paths.
CleanUp ==
    /\ rows' = {t \in rows : ~ Expired(t)}
    /\ UNCHANGED <<now, born, parent, jar, call, ended, lost>>

Tick ==
    /\ now < MaxTime
    /\ now' = now + 1
    /\ UNCHANGED <<born, parent, rows, jar, call, ended, lost>>

SessionNext ==
    \/ \E q \in Requests :
          \/ Send(q) \/ Deliver(q) \/ Lose(q) \/ Login(q)
          \/ RefreshDecode(q) \/ RefreshAccess(q) \/ RefreshCommit(q) \/ RefreshReplayed(q)
          \/ LogoutAccess(q) \/ LogoutRefresh(q) \/ LogoutCommit(q)
          \/ Insert(q) \/ Duplicate(q) \/ Victim(q)
    \/ \E t \in Jwt : Authenticate(t)
    \/ CleanUp
    \/ Tick

SessionSpec == SessionInit /\ [][SessionNext]_sessionVars

-----------------------------------------------------------------------------
(* Properties.                                                             *)

\* Once a logout has answered ok, or a refresh has handed out a new pair, the
\* tokens it was called with stay revoked until they expire - also when the
\* logout lost a race and rolled all its own revocations back.
EndedStaysEnded ==
    \A t \in ended : t \in rows \/ Expired(t)

\* A refresh token is exchanged for at most one new pair before it expires,
\* however many tabs present it.
RefreshedOnce ==
    \A p, c \in Minted :
        (p # c /\ parent[p] = parent[c] /\ parent[p] # NoPair)
            => \E x \in {p, c} : Exp(R(parent[p])) <= born[x]

\* The browser's unexpired refresh token is revoked only while an answer that
\* replaces or clears it is under way, or if such an answer was lost.
JarIsLive ==
    (jar # NoPair /\ R(jar) \in rows /\ ~ Expired(R(jar))) =>
        \/ jar \in lost
        \/ \E q \in Requests : call[q].pair = jar /\ call[q].answer \in {"set", "clear"}

\* "Revoked token is always invalid regardless of expiry metadata"
\* (api/deps.py): no token that was ended is ever accepted again.  The code
\* drops the row at expiry while the token still decodes for Leeway.
RevokedIsInvalid ==
    \A t \in ended : ~ (Decodes(t) /\ t \notin rows)
=============================================================================
