---------------------------- MODULE RefreshTokens ----------------------------
(***************************************************************************)
(* Refresh tokens: issued at login, exchanged for a new one (rotation),    *)
(* revoked at logout.  Presenting a revoked token is taken for reuse and   *)
(* revokes every token of the user.                                        *)
(*                                                                         *)
(* Every await of AuthService is a step of its own: other requests run     *)
(* between a handler's look at a token and its write.  A request may die   *)
(* at any of them (database error, restart), keeping what it wrote.        *)
(***************************************************************************)
EXTENDS Naturals, FiniteSets

CONSTANTS
    Worker,     \* the requests in flight at once
    User,
    Token,      \* every token string the generator will ever return
    NoToken     \* the absence of one

ASSUME RefreshTokensAssumption == NoToken \notin Token /\ User # {}

VARIABLES
    row,    \* refresh_token.isRevoked: "absent", "live" or "revoked"
    owner,  \* refresh_token.userId
    parent, \* history: the token a token was exchanged for; NoToken at login
    session,    \* history: the token of the login a token descends from
    late,   \* the tokens past their expiresAt
    shared, \* history: the tokens that two requests have presented at once
    alone,  \* history: the requests answering reuse of a token of whose session no
            \* other request has been exchanging one since they came
    ended,  \* history: the sessions such a request has ended
    req     \* what each request is doing

vars == <<row, owner, parent, session, late, shared, alone, ended, req>>

Issued      == {t \in Token : row[t] # "absent"}
TokensOf(u) == {t \in Issued : owner[t] = u}
LiveOf(u)   == {t \in TokensOf(u) : row[t] = "live"}

\* Between requests.  step: the write or read it comes to; exchange: it will
\* issue a token for the one presented; seen: what revokeAllUserTokens read;
\* known: history, the user's tokens when the request came.
Idle == [step |-> "idle", user |-> CHOOSE u \in User : TRUE, token |-> NoToken,
         exchange |-> FALSE, seen |-> {}, known |-> {}]

\* A request is exchanging a token of the session
ExchangeIn(s) == \E v \in Worker : req[v].exchange /\ session[req[v].token] = s

Begin(w, step, u, t, exchange) ==
    /\ req' = [req EXCEPT ![w] = [step |-> step, user |-> u, token |-> t, exchange |-> exchange,
                                  seen |-> {}, known |-> TokensOf(u)]]
    /\ shared' = shared \cup (({t} \cap {req[v].token : v \in Worker}) \ {NoToken})
    /\ alone' = IF t = NoToken THEN alone
                ELSE {v \in alone : ~(exchange /\ session[req[v].token] = session[t])} \cup
                     {v \in {w} : step = "findAll" /\ ~ExchangeIn(session[t])}

GoTo(w, step, seen) ==
    /\ req' = [req EXCEPT ![w] = [step |-> step, user |-> req[w].user, token |-> req[w].token,
                                  exchange |-> req[w].exchange, seen |-> seen, known |-> req[w].known]]
    /\ UNCHANGED alone

Answer(w) ==
    /\ req' = [req EXCEPT ![w] = Idle]
    /\ alone' = alone \ {w}

\* LocalAuthGuard let the user in; login or oauthLogin will issue a token
Login(w, u) ==
    /\ req[w].step = "idle"
    /\ Begin(w, "issue", u, NoToken, FALSE)
    /\ UNCHANGED <<row, owner, parent, session, late, ended>>

BugRefresh(w, t) ==
    /\ req[w].step = "idle"
    /\ t \in Issued \ late
    /\ Begin(w, "find", owner[t], t, TRUE)
    /\ UNCHANGED <<row, owner, parent, session, late, ended>>

\* refreshToken: the token is looked up with its user
Refresh(w, t) ==
    /\ req[w].step = "idle"
    /\ \/ row[t] = "revoked" /\ Begin(w, "findAll", owner[t], t, FALSE)
       \/ row[t] = "live" /\ t \notin late /\ Begin(w, "find", owner[t], t, TRUE)
    /\ UNCHANGED <<row, owner, parent, session, late, ended>>

BugLogoutOne(w, t) ==
    /\ req[w].step = "idle"
    /\ Begin(w, "find", owner[t], t, FALSE)
    /\ UNCHANGED <<row, owner, parent, session, late, ended>>

\* POST logout with a refresh token: only that one, when it is the user's own
LogoutOne(w, t) ==
    /\ req[w].step = "idle"
    /\ t \in Issued
    /\ Begin(w, "find", owner[t], t, FALSE)
    /\ UNCHANGED <<row, owner, parent, session, late, ended>>

\* POST logout without one
LogoutAll(w, u) ==
    /\ req[w].step = "idle"
    /\ Begin(w, "findAll", u, NoToken, FALSE)
    /\ UNCHANGED <<row, owner, parent, session, late, ended>>

\* revokeRefreshToken reads the row again, without asking whether it is revoked
Find(w) ==
    /\ req[w].step = "find"
    /\ GoTo(w, "revoke", {})
    /\ UNCHANGED <<row, owner, parent, session, late, shared, ended>>

BugRevoke(w) ==
    /\ req[w].step = "revoke"
    /\ row' = IF req[w].exchange THEN row ELSE [row EXCEPT ![req[w].token] = "revoked"]
    /\ IF req[w].exchange THEN GoTo(w, "issue", {}) ELSE Answer(w)
    /\ UNCHANGED <<owner, parent, session, late, shared, ended>>

\* ... and saves it revoked
Revoke(w) ==
    /\ req[w].step = "revoke"
    /\ row' = [row EXCEPT ![req[w].token] = "revoked"]
    /\ IF req[w].exchange THEN GoTo(w, "issue", {}) ELSE Answer(w)
    /\ UNCHANGED <<owner, parent, session, late, shared, ended>>

\* generateRefreshToken saves a random, hence new, token; the request is answered
Issue(w, t) ==
    /\ req[w].step = "issue"
    /\ row[t] = "absent"
    /\ row' = [row EXCEPT ![t] = "live"]
    /\ owner' = [owner EXCEPT ![t] = req[w].user]
    /\ parent' = [parent EXCEPT ![t] = req[w].token]
    /\ session' = [session EXCEPT ![t] = IF req[w].exchange THEN session[req[w].token] ELSE t]
    /\ Answer(w)
    /\ UNCHANGED <<late, shared, ended>>

BugFindAll(w) ==
    /\ req[w].step = "findAll"
    /\ GoTo(w, "revokeAll", {t \in LiveOf(req[w].user) : req[w].token \in {NoToken, parent[t]}})
    /\ UNCHANGED <<row, owner, parent, session, late, shared, ended>>

\* revokeAllUserTokens reads the user's live tokens
FindAll(w) ==
    /\ req[w].step = "findAll"
    /\ GoTo(w, "revokeAll", LiveOf(req[w].user))
    /\ UNCHANGED <<row, owner, parent, session, late, shared, ended>>

\* ... and saves them revoked, all in one transaction
RevokeAll(w) ==
    /\ req[w].step = "revokeAll"
    /\ row' = [t \in Token |-> IF t \in req[w].seen THEN "revoked" ELSE row[t]]
    /\ ended' = ended \cup {session[req[v].token] : v \in alone \cap {w}}
    /\ Answer(w)
    /\ UNCHANGED <<owner, parent, session, late, shared>>

\* The request dies where it is
Fail(w) ==
    /\ req[w].step # "idle"
    /\ Answer(w)
    /\ UNCHANGED <<row, owner, parent, session, late, shared, ended>>

\* expiresAt passes
Expire(t) ==
    /\ t \in Issued \ late
    /\ late' = late \cup {t}
    /\ UNCHANGED <<row, owner, parent, session, shared, alone, ended, req>>

Init ==
    /\ row    = [t \in Token |-> "absent"]
    /\ owner  = [t \in Token |-> CHOOSE u \in User : TRUE]
    /\ parent = [t \in Token |-> NoToken]
    /\ session = [t \in Token |-> t]
    /\ late   = {}
    /\ shared = {}
    /\ alone  = {}
    /\ ended  = {}
    /\ req    = [w \in Worker |-> Idle]

Next ==
    \/ \E w \in Worker :
        \/ Find(w) \/ Revoke(w) \/ FindAll(w) \/ RevokeAll(w) \/ Fail(w)
        \/ \E u \in User : Login(w, u) \/ LogoutAll(w, u)
        \/ \E t \in Token : Refresh(w, t) \/ LogoutOne(w, t) \/ Issue(w, t)
    \/ \E t \in Token : Expire(t)

Spec == Init /\ [][Next]_vars

(***************************************************************************)
(* Properties                                                              *)
(***************************************************************************)

Request == [step : {"idle", "find", "revoke", "issue", "findAll", "revokeAll"},
            user : User, token : Token \cup {NoToken}, exchange : BOOLEAN,
            seen : SUBSET Token, known : SUBSET Token]

\* A request has a token of the table, or none and no use for one
Presents(w) ==
    \/ req[w].token \in Issued /\ req[w].step # "idle"
    \/ /\ req[w].token = NoToken /\ ~req[w].exchange /\ w \notin alone
       /\ req[w].step \notin {"find", "revoke"}

\* Type invariant: a request that reads, writes or exchanges a token has one.
TypeOK ==
    /\ row \in [Token -> {"absent", "live", "revoked"}]
    /\ owner \in [Token -> User]
    /\ parent \in [Token -> Token \cup {NoToken}]
    /\ late \in SUBSET Issued
    /\ session \in [Token -> Token]
    /\ shared \subseteq Token /\ ended \subseteq Token /\ alone \subseteq Worker
    /\ req \in [Worker -> Request]
    /\ \A w \in Worker : Presents(w)

\* A token exchanged for another is revoked, whatever ran or died meanwhile, and
\* its successor is its user's (refreshToken revokes before it issues).
ExchangedIsRevoked ==
    \A t \in Issued : parent[t] \in Token =>
        row[parent[t]] = "revoked" /\ owner[parent[t]] = owner[t]

\* When logout or the answer to reuse has revoked "all" tokens, every token the
\* user had when the request came is revoked
\* (revokeAllUserTokens reads the tokens and saves them later, while others
\* revoke and issue).
OldSessionsEnd ==
    [][\A w \in Worker :
        req[w].step = "revokeAll" /\ RevokeAll(w) =>
            \A t \in req[w].known : row'[t] = "revoked"]_vars

\* "Revoke the current refresh token (one-time use)" (auth.service.ts:686): a
\* token is exchanged for at most one, unless two requests present it at once.
OneTimeUse ==
    \A s, t \in Issued : parent[s] = parent[t] /\ parent[t] \in Token \ shared => s = t

\* "Revoke all tokens for this user as this might be a token reuse attack"
\* (auth.service.ts:671): once a reused token has been answered, no token that
\* descends from the same login is live again, unless a request was exchanging
\* one of them meanwhile: what that request issues is not among the tokens read.
ReuseEndsSession == \A t \in Issued : session[t] \in ended => row[t] # "live"
=============================================================================
