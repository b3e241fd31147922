------------------------ MODULE RefreshTokens_proofs ------------------------
(***************************************************************************)
(* What rotation and "revoke all" guarantee for any number of requests,    *)
(* users and tokens.  Neither is inductive alone: what a request will      *)
(* write depends on what it read, and the invariant says what is still     *)
(* true of it then.                                                        *)
(***************************************************************************)
EXTENDS RefreshTokens, TLAPS

\* What a request between two awaits still knows of the table: its token is its
\* user's; it issues only for a token that is revoked; and each token it knew of
\* that it has not read as live is revoked.
Knows(w) ==
    /\ req[w].seen \subseteq TokensOf(req[w].user)
    /\ req[w].step # "idle" => req[w].known \subseteq TokensOf(req[w].user)
    /\ req[w].step \in {"find", "revoke"} => req[w].token \in TokensOf(req[w].user)
    /\ req[w].step = "issue" /\ req[w].token \in Token =>
        row[req[w].token] = "revoked" /\ owner[req[w].token] = req[w].user
    /\ req[w].step = "revokeAll" =>
        \A t \in req[w].known : t \in req[w].seen \/ row[t] = "revoked"

TokenInv == TypeOK /\ ExchangedIsRevoked /\ \A w \in Worker : Knows(w)

\* The fields of a request are of their types.
LEMMA RequestFields ==
  ASSUME NEW r \in Request
  PROVE  /\ r.step \in {"idle", "find", "revoke", "issue", "findAll", "revokeAll"}
         /\ r.user \in User /\ r.token \in Token \cup {NoToken} /\ r.exchange \in BOOLEAN
         /\ r.seen \in SUBSET Token /\ r.known \in SUBSET Token
  BY DEF Request

\* A record of well-typed fields is a request.
LEMMA RequestBuilt ==
  ASSUME NEW s \in {"idle", "find", "revoke", "issue", "findAll", "revokeAll"},
         NEW u \in User, NEW t \in Token \cup {NoToken}, NEW x \in BOOLEAN,
         NEW S \in SUBSET Token, NEW K \in SUBSET Token
  PROVE  [step |-> s, user |-> u, token |-> t, exchange |-> x, seen |-> S, known |-> K] \in Request
  BY DEF Request

\* Tokens are issued once and revoked for good.
LEMMA Monotone ==
  ASSUME TokenInv, [Next]_vars
  PROVE  /\ \A t \in Issued : t \in Issued' /\ owner'[t] = owner[t] /\ parent'[t] = parent[t]
         /\ \A t \in Token : row[t] = "revoked" => row'[t] = "revoked"
<1> USE DEF TokenInv
<1>1. ASSUME NEW w \in Worker, Revoke(w)
      PROVE  /\ \A t \in Issued : t \in Issued' /\ owner'[t] = owner[t] /\ parent'[t] = parent[t]
             /\ \A t \in Token : row[t] = "revoked" => row'[t] = "revoked"
  <2>1. row' = [row EXCEPT ![req[w].token] = "revoked"] /\ UNCHANGED <<owner, parent>>
    BY <1>1 DEF Revoke
  <2> QED
    BY <2>1 DEF Issued, TypeOK
<1>2. ASSUME NEW w \in Worker, NEW t \in Token, Issue(w, t)
      PROVE  /\ \A s \in Issued : s \in Issued' /\ owner'[s] = owner[s] /\ parent'[s] = parent[s]
             /\ \A s \in Token : row[s] = "revoked" => row'[s] = "revoked"
  <2>1. /\ row[t] = "absent" /\ row' = [row EXCEPT ![t] = "live"]
        /\ owner' = [owner EXCEPT ![t] = req[w].user]
        /\ parent' = [parent EXCEPT ![t] = req[w].token]
    BY <1>2 DEF Issue
  <2> QED
    BY <2>1 DEF Issued, TypeOK
<1>3. ASSUME NEW w \in Worker, RevokeAll(w)
      PROVE  /\ \A t \in Issued : t \in Issued' /\ owner'[t] = owner[t] /\ parent'[t] = parent[t]
             /\ \A t \in Token : row[t] = "revoked" => row'[t] = "revoked"
  <2>1. /\ row' = [t \in Token |-> IF t \in req[w].seen THEN "revoked" ELSE row[t]]
        /\ UNCHANGED <<owner, parent>>
    BY <1>3 DEF RevokeAll
  <2> QED
    BY <2>1 DEF Issued, TypeOK
<1>4. CASE UNCHANGED <<row, owner, parent>>
  BY <1>4 DEF Issued
<1>5. \/ \E w \in Worker : Revoke(w) \/ RevokeAll(w) \/ \E t \in Token : Issue(w, t)
      \/ UNCHANGED <<row, owner, parent>>
  BY DEF Next, vars, Find, FindAll, Fail, Login, LogoutAll, Refresh, LogoutOne, Expire
<1> QED
  BY <1>1, <1>2, <1>3, <1>4, <1>5

\* What a request knows survives the steps of others.
LEMMA StillKnows ==
  ASSUME TokenInv, [Next]_vars, NEW v \in Worker, req'[v] = req[v]
  PROVE  Knows(v)'
<1>1. Knows(v) /\ req[v] \in Request
  BY DEF TokenInv, TypeOK
<1>2. /\ \A t \in Issued : t \in Issued' /\ owner'[t] = owner[t] /\ parent'[t] = parent[t]
      /\ \A t \in Token : row[t] = "revoked" => row'[t] = "revoked"
  BY Monotone
<1>3. \A u : TokensOf(u) \subseteq TokensOf(u)'
  BY <1>2 DEF TokensOf
<1>4. \A t \in Token : row[t] = "revoked" => owner'[t] = owner[t]
  BY <1>2 DEF Issued
<1>5. req[v].known \subseteq Token
  BY <1>1, RequestFields
<1> QED
  BY <1>1, <1>2, <1>3, <1>4, <1>5 DEF Knows

\* The idle request is well typed and knows nothing.
LEMMA IdleKnows ==
  /\ Idle \in Request
  /\ Idle.step = "idle" /\ Idle.seen = {} /\ Idle.token = NoToken /\ Idle.exchange = FALSE
<1>1. (CHOOSE u \in User : TRUE) \in User
  BY RefreshTokensAssumption
<1> QED
  BY <1>1, RequestBuilt DEF Idle

\* The empty table satisfies the invariant.
LEMMA InitToken == Init => TokenInv
<1> SUFFICES ASSUME Init PROVE TokenInv
  OBVIOUS
<1>1. (CHOOSE u \in User : TRUE) \in User
  BY RefreshTokensAssumption
<1>2. Issued = {}
  BY DEF Init, Issued
<1>3. \A w \in Worker : req[w] = Idle
  BY DEF Init
<1>4. TypeOK
  BY <1>1, <1>2, <1>3, IdleKnows DEF Init, TypeOK, Presents
<1>5. ExchangedIsRevoked
  BY <1>2 DEF ExchangedIsRevoked
<1>6. \A w \in Worker : Knows(w)
  BY <1>3, IdleKnows DEF Knows
<1> QED
  BY <1>4, <1>5, <1>6 DEF TokenInv

\* A step that issues nothing keeps the chain of exchanges.
LEMMA ChainKept ==
  ASSUME TokenInv, [Next]_vars, UNCHANGED <<owner, parent>>,
         Issued' \subseteq Issued
  PROVE  ExchangedIsRevoked'
<1>1. \A t \in Token : row[t] = "revoked" => row'[t] = "revoked"
  BY Monotone
<1> QED
  BY <1>1 DEF TokenInv, ExchangedIsRevoked

\* A request that begins knows the tokens its user has.
LEMMA Begins ==
  ASSUME TokenInv, [Next]_vars, UNCHANGED <<row, owner, parent, session, late, ended>>,
         NEW w \in Worker, NEW step \in {"find", "issue", "findAll"}, NEW u \in User,
         NEW t \in Token \cup {NoToken}, NEW x \in BOOLEAN, Begin(w, step, u, t, x),
         t \in Issued \cup {NoToken}, x => t # NoToken, req[w].step = "idle",
         step = "find" => t \in TokensOf(u),
         step = "issue" => t = NoToken
  PROVE  TokenInv'
<1> DEFINE r == [step |-> step, user |-> u, token |-> t, exchange |-> x,
                 seen |-> {}, known |-> TokensOf(u)]
<1>1. TokensOf(u) \subseteq Issued /\ Issued \subseteq Token
  BY DEF TokensOf, Issued
<1>2. r \in Request
  BY <1>1, RequestBuilt
<1>3. req' = [req EXCEPT ![w] = r]
  BY DEF Begin
<1>4. /\ r.step = step /\ r.user = u /\ r.token = t /\ r.exchange = x
      /\ r.seen = {} /\ r.known = TokensOf(u)
  OBVIOUS
<1> HIDE DEF r
<1>5. req' \in [Worker -> Request] /\ req'[w] = r /\ \A v \in Worker \ {w} : req'[v] = req[v]
  BY <1>2, <1>3 DEF TokenInv, TypeOK
<1>6. Issued' = Issued /\ TokensOf(u)' = TokensOf(u)
  BY DEF Issued, TokensOf
<1>7. TypeOK'
  <2>1. \A v \in Worker : Presents(v)'
    <3>1. alone' \subseteq alone \cup {w} /\ (t = NoToken => alone' = alone)
      BY DEF Begin
    <3>2. \A v \in Worker \ {w} : Presents(v)'
      BY <1>5, <1>6, <3>1 DEF TokenInv, TypeOK, Presents
    <3>3. Presents(w)'
      <4>1. CASE t \in Issued
        BY <1>4, <1>5, <1>6, <4>1 DEF Presents
      <4>2. CASE t = NoToken
        <5>1. w \notin alone
          BY DEF TokenInv, TypeOK, Presents
        <5> QED
          BY <5>1, <1>1, <1>4, <1>5, <3>1, <4>2, RefreshTokensAssumption DEF Presents
      <4> QED
        BY <4>1, <4>2
    <3> QED
      BY <3>2, <3>3
  <2>2. shared' \subseteq Token /\ alone' \subseteq Worker
    BY DEF Begin, TokenInv, TypeOK
  <2> QED
    BY <1>5, <1>6, <2>1, <2>2 DEF TokenInv, TypeOK
<1>8. Knows(w)'
  <2>1. req'[w].user = u
    BY <1>4, <1>5
  <2> QED
    BY <1>4, <1>5, <1>6, <2>1, RefreshTokensAssumption DEF Knows, TokensOf
<1> QED
  BY <1>5, <1>6, <1>7, <1>8, StillKnows, ChainKept DEF TokenInv

\* A request that is answered knows nothing any more.
LEMMA Answers ==
  ASSUME TokenInv, [Next]_vars, NEW w \in Worker, Answer(w), late' \subseteq Issued', UNCHANGED shared,
         session' \in [Token -> Token], ended' \subseteq Token,
         row' \in [Token -> {"absent", "live", "revoked"}],
         owner' \in [Token -> User], parent' \in [Token -> Token \cup {NoToken}]
  PROVE  TypeOK' /\ \A v \in Worker : Knows(v)'
<1>1. /\ req' \in [Worker -> Request] /\ req'[w] = Idle
      /\ \A v \in Worker \ {w} : req'[v] = req[v]
  BY IdleKnows DEF Answer, TokenInv, TypeOK
<1>2. \A t \in Issued : t \in Issued'
  BY Monotone
<1>3. \A v \in Worker : Presents(v)'
  BY <1>1, <1>2, IdleKnows DEF TokenInv, TypeOK, Presents, Answer
<1>4. Issued' \subseteq Token
  BY DEF Issued
<1>4a. alone' \subseteq Worker
  BY DEF Answer, TypeOK, TokenInv
<1>5. TypeOK'
  BY <1>1, <1>3, <1>4, <1>4a DEF TypeOK, TokenInv
<1>6. Knows(w)'
  BY <1>1, IdleKnows DEF Knows
<1> QED
  BY <1>1, <1>5, <1>6, StillKnows

\* A request that goes on to a write or a read.
LEMMA GoesTo ==
  ASSUME TokenInv, [Next]_vars, NEW w \in Worker, req[w].step # "idle",
         NEW step \in {"revoke", "issue", "revokeAll"}, NEW S \in SUBSET Token,
         GoTo(w, step, S), UNCHANGED <<owner, parent, session, late, shared, ended>>,
         row' \in [Token -> {"absent", "live", "revoked"}],
         S \subseteq TokensOf(req[w].user),
         step = "revoke" => req[w].step = "find",
         step = "issue" => req[w].token \in TokensOf(req[w].user) /\ row'[req[w].token] = "revoked",
         step = "revokeAll" => \A t \in req[w].known : t \in S \/ row'[t] = "revoked"
  PROVE  TypeOK' /\ \A v \in Worker : Knows(v)'
<1> DEFINE r == [step |-> step, user |-> req[w].user, token |-> req[w].token,
                 exchange |-> req[w].exchange, seen |-> S, known |-> req[w].known]
<1>0. req[w] \in Request /\ Knows(w) /\ w \in Worker
  BY DEF TokenInv, TypeOK
<1>1. r \in Request
  BY <1>0, RequestFields, RequestBuilt
<1>2. req' = [req EXCEPT ![w] = r]
  BY DEF GoTo
<1>3. /\ r.step = step /\ r.user = req[w].user /\ r.token = req[w].token
      /\ r.exchange = req[w].exchange /\ r.seen = S /\ r.known = req[w].known
  OBVIOUS
<1> HIDE DEF r
<1>4. req' \in [Worker -> Request] /\ req'[w] = r /\ \A v \in Worker \ {w} : req'[v] = req[v]
  BY <1>1, <1>2 DEF TokenInv, TypeOK
<1>5. /\ \A t \in Issued : t \in Issued' /\ owner'[t] = owner[t] /\ parent'[t] = parent[t]
      /\ \A t \in Token : row[t] = "revoked" => row'[t] = "revoked"
  BY Monotone
<1>6. \A u : TokensOf(u) \subseteq TokensOf(u)'
  BY <1>5 DEF TokensOf
<1>7. TypeOK'
  <2>1. /\ Presents(w) /\ alone' = alone
        /\ step \in {"revoke", "find"} => req[w].token \in Issued
    BY DEF TokenInv, TypeOK, Presents, GoTo
  <2>2. \A v \in Worker : Presents(v)'
    <3>1. Presents(w)'
      BY <1>3, <1>4, <1>5, <2>1 DEF Presents
    <3>2. \A v \in Worker \ {w} : Presents(v)'
      BY <1>4, <1>5, <2>1 DEF Presents, TokenInv, TypeOK
    <3> QED
      BY <3>1, <3>2
  <2>3. late' \in SUBSET Issued'
    BY <1>5 DEF TokenInv, TypeOK
  <2> QED
    BY <1>4, <2>2, <2>3 DEF TokenInv, TypeOK, GoTo
<1>8. Knows(w)'
  <2> DEFINE Now == {t \in Issued' : owner'[t] = req[w].user}
  <2>1. TokensOf(req[w].user) \subseteq Now
    BY <1>5 DEF TokensOf
  <2>2. S \subseteq Now /\ req[w].known \subseteq Now
    BY <1>0, <2>1 DEF Knows
  <2>3. step = "revoke" => req[w].token \in Now
    BY <1>0, <2>1 DEF Knows
  <2>4. step = "issue" => owner'[req[w].token] = req[w].user
    BY DEF TokensOf
  <2> QED
    BY <1>3, <1>4, <2>2, <2>3, <2>4 DEF Knows, TokensOf
<1> QED
  BY <1>4, <1>7, <1>8, StillKnows

\* Every action keeps the invariant.
LEMMA NextToken == TokenInv /\ [Next]_vars => TokenInv'
<1> SUFFICES ASSUME TokenInv, [Next]_vars PROVE TokenInv'
  OBVIOUS
<1>t. /\ row \in [Token -> {"absent", "live", "revoked"}] /\ owner \in [Token -> User]
      /\ parent \in [Token -> Token \cup {NoToken}] /\ late \subseteq Issued
      /\ session \in [Token -> Token] /\ ended \subseteq Token
      /\ Issued \subseteq Token
  BY DEF TokenInv, TypeOK, Issued
<1>w. ASSUME NEW w \in Worker
      PROVE  req[w] \in Request /\ Knows(w)
  BY <1>w DEF TokenInv, TypeOK
<1>o. \A t \in Issued : t \in TokensOf(owner[t]) /\ owner[t] \in User
  BY <1>t DEF TokensOf
<1>1. ASSUME NEW w \in Worker, NEW u \in User, Login(w, u)
      PROVE  TokenInv'
  BY <1>1, Begins DEF Login
<1>2. ASSUME NEW w \in Worker, NEW u \in User, LogoutAll(w, u)
      PROVE  TokenInv'
  BY <1>2, Begins DEF LogoutAll
<1>3. ASSUME NEW w \in Worker, NEW t \in Token, Refresh(w, t)
      PROVE  TokenInv'
  <2>1. t \in Issued
    BY <1>3 DEF Refresh, Issued
  <2>2. CASE Begin(w, "findAll", owner[t], t, FALSE)
    BY <1>3, <1>o, <2>1, <2>2, Begins DEF Refresh
  <2>3. CASE Begin(w, "find", owner[t], t, TRUE)
    BY <1>3, <1>o, <2>1, <2>3, Begins, RefreshTokensAssumption DEF Refresh
  <2> QED
    BY <1>3, <2>2, <2>3 DEF Refresh
<1>4. ASSUME NEW w \in Worker, NEW t \in Token, LogoutOne(w, t)
      PROVE  TokenInv'
  BY <1>4, <1>o, Begins DEF LogoutOne
<1>5. ASSUME NEW w \in Worker, Find(w)
      PROVE  TokenInv'
  <2>1. TypeOK' /\ \A v \in Worker : Knows(v)'
    BY <1>5, <1>t, <1>w, GoesTo DEF Find
  <2> QED
    BY <1>5, <2>1, ChainKept DEF Find, Issued, TokenInv
<1>6. ASSUME NEW w \in Worker, Revoke(w)
      PROVE  TokenInv'
  <2>1. /\ req[w].step = "revoke" /\ row' = [row EXCEPT ![req[w].token] = "revoked"]
        /\ UNCHANGED <<owner, parent, session, late, shared, ended>>
    BY <1>6 DEF Revoke
  <2>2. req[w].token \in TokensOf(req[w].user) /\ req[w].token \in Issued
    BY <1>w, <2>1 DEF Knows, TokensOf
  <2>3. /\ row' \in [Token -> {"absent", "live", "revoked"}] /\ row'[req[w].token] = "revoked"
        /\ Issued' = Issued
    BY <1>t, <2>1, <2>2 DEF Issued
  <2>4. TypeOK' /\ \A v \in Worker : Knows(v)'
    <3>1. CASE req[w].exchange
      BY <1>6, <1>t, <2>1, <2>2, <2>3, <3>1, GoesTo DEF Revoke
    <3>2. CASE ~req[w].exchange
      BY <1>6, <1>t, <2>1, <2>3, <3>2, Answers DEF Revoke
    <3> QED
      BY <3>1, <3>2
  <2> QED
    BY <2>1, <2>3, <2>4, ChainKept DEF TokenInv
<1>7. ASSUME NEW w \in Worker, NEW t \in Token, Issue(w, t)
      PROVE  TokenInv'
  <2>1. /\ req[w].step = "issue" /\ row[t] = "absent"
        /\ row' = [row EXCEPT ![t] = "live"]
        /\ owner' = [owner EXCEPT ![t] = req[w].user]
        /\ parent' = [parent EXCEPT ![t] = req[w].token]
        /\ session' = [session EXCEPT ![t] = IF req[w].exchange THEN session[req[w].token] ELSE t]
        /\ Answer(w) /\ UNCHANGED <<late, shared, ended>>
    BY <1>7 DEF Issue
  <2>2. /\ req[w].user \in User /\ req[w].token \in Token \cup {NoToken}
        /\ req[w].exchange => req[w].token \in Token
    BY <1>w, RequestFields, RefreshTokensAssumption DEF TokenInv, TypeOK, Presents, Issued
  <2>3. /\ row' \in [Token -> {"absent", "live", "revoked"}]
        /\ owner' \in [Token -> User] /\ parent' \in [Token -> Token \cup {NoToken}]
        /\ row'[t] = "live" /\ owner'[t] = req[w].user /\ parent'[t] = req[w].token
        /\ session' \in [Token -> Token]
    BY <1>t, <2>1, <2>2
  <2>4. Issued' = Issued \cup {t} /\ t \notin Issued
    BY <1>t, <2>1 DEF Issued
  <2>5. /\ \A s \in Issued : owner'[s] = owner[s] /\ parent'[s] = parent[s]
        /\ \A s \in Token : row[s] = "revoked" => row'[s] = "revoked" /\ owner'[s] = owner[s]
    BY <1>t, <2>1, <2>4
  <2>6. ExchangedIsRevoked'
    <3> SUFFICES ASSUME NEW s \in Issued', parent'[s] \in Token
                 PROVE  row'[parent'[s]] = "revoked" /\ owner'[parent'[s]] = owner'[s]
      BY DEF ExchangedIsRevoked
    <3>1. CASE s = t
      BY <1>w, <2>1, <2>3, <2>5, <3>1 DEF Knows
    <3>2. CASE s \in Issued
      <4>1. parent'[s] = parent[s] /\ owner'[s] = owner[s]
        BY <2>5, <3>2
      <4>2. row[parent[s]] = "revoked" /\ owner[parent[s]] = owner[s]
        BY <3>2, <4>1 DEF TokenInv, ExchangedIsRevoked
      <4> QED
        BY <2>5, <4>1, <4>2
    <3> QED
      BY <2>4, <3>1, <3>2
  <2>7. TypeOK' /\ \A v \in Worker : Knows(v)'
    BY <1>t, <2>1, <2>3, <2>4, Answers
  <2> QED
    BY <2>6, <2>7 DEF TokenInv
<1>8. ASSUME NEW w \in Worker, FindAll(w)
      PROVE  TokenInv'
  <2>1. /\ req[w].step = "findAll" /\ GoTo(w, "revokeAll", LiveOf(req[w].user))
        /\ UNCHANGED <<row, owner, parent, session, late, shared, ended>>
    BY <1>8 DEF FindAll
  <2>2. LiveOf(req[w].user) \subseteq TokensOf(req[w].user) /\ LiveOf(req[w].user) \subseteq Token
    BY <1>t DEF LiveOf, TokensOf
  <2>3. \A t \in req[w].known : t \in LiveOf(req[w].user) \/ row'[t] = "revoked"
    <3>1. req[w].known \subseteq TokensOf(req[w].user)
      BY <1>w, <2>1 DEF Knows
    <3>2. \A t \in TokensOf(req[w].user) : row[t] \in {"live", "revoked"}
      BY <1>t DEF TokensOf, Issued
    <3> QED
      BY <2>1, <3>1, <3>2 DEF LiveOf
  <2>4. TypeOK' /\ \A v \in Worker : Knows(v)'
    BY <1>t, <2>1, <2>2, <2>3, GoesTo
  <2> QED
    BY <2>1, <2>4, ChainKept DEF Issued, TokenInv
<1>9. ASSUME NEW w \in Worker, RevokeAll(w)
      PROVE  TokenInv'
  <2>1. /\ row' = [t \in Token |-> IF t \in req[w].seen THEN "revoked" ELSE row[t]]
        /\ Answer(w) /\ UNCHANGED <<owner, parent, session, late, shared>>
        /\ ended' = ended \cup {session[req[v].token] : v \in alone \cap {w}}
    BY <1>9 DEF RevokeAll
  <2>2. req[w].seen \subseteq Issued
    BY <1>w DEF Knows, TokensOf
  <2>3. row' \in [Token -> {"absent", "live", "revoked"}] /\ Issued' = Issued
    BY <1>t, <2>1, <2>2 DEF Issued
  <2>3a. ended' \subseteq Token
    <3>1. w \in alone => req[w].token \in Token
      BY <1>t DEF TokenInv, TypeOK, Presents
    <3> QED
      BY <1>t, <2>1, <3>1
  <2>4. TypeOK' /\ \A v \in Worker : Knows(v)'
    BY <1>t, <2>1, <2>3, <2>3a, Answers
  <2> QED
    BY <2>1, <2>3, <2>4, ChainKept DEF TokenInv
<1>10. ASSUME NEW w \in Worker, Fail(w)
       PROVE  TokenInv'
  <2>1. TypeOK' /\ \A v \in Worker : Knows(v)'
    BY <1>10, <1>t, Answers DEF Fail, Issued
  <2> QED
    BY <1>10, <2>1, ChainKept DEF Fail, Issued, TokenInv
<1>11. ASSUME NEW t \in Token, Expire(t)
       PROVE  TokenInv'
  <2>1. TypeOK'
    BY <1>11 DEF Expire, TypeOK, TokenInv, Issued, Presents
  <2>2. \A v \in Worker : Knows(v)'
    BY <1>11, StillKnows DEF Expire
  <2> QED
    BY <1>11, <2>1, <2>2, ChainKept DEF Expire, Issued, TokenInv
<1>12. CASE UNCHANGED vars
  <2>1. TypeOK'
    BY <1>12 DEF vars, TypeOK, TokenInv, Issued, Presents
  <2>2. \A v \in Worker : Knows(v)'
    BY <1>12, StillKnows DEF vars
  <2> QED
    BY <1>12, <2>1, <2>2, ChainKept DEF vars, Issued, TokenInv
<1> QED
  BY <1>1, <1>2, <1>3, <1>4, <1>5, <1>6, <1>7, <1>8, <1>9, <1>10, <1>11, <1>12 DEF Next

\* The table, the exchanges and what the requests in flight know of them stay
\* consistent.
THEOREM TokenInvCorrect == Spec => []TokenInv
  BY InitToken, NextToken, PTL DEF Spec

\* A token exchanged for another is revoked and its successor is the same
\* user's, under any interleaving and any failures.
THEOREM ExchangedIsRevokedCorrect == Spec => []ExchangedIsRevoked
<1>1. TokenInv => ExchangedIsRevoked
  BY DEF TokenInv
<1> QED
  BY <1>1, TokenInvCorrect, PTL

\* When all tokens of a user have been revoked, those the user had when the
\* request came are, under any interleaving.
THEOREM OldSessionsEndCorrect == Spec => OldSessionsEnd
<1>1. ASSUME TokenInv, NEW w \in Worker, req[w].step = "revokeAll", RevokeAll(w)
      PROVE  \A t \in req[w].known : row'[t] = "revoked"
  <2>1. \A t \in req[w].known : t \in req[w].seen \/ row[t] = "revoked"
    BY <1>1 DEF TokenInv, Knows
  <2>2. req[w].known \subseteq Token
    BY <1>1, RequestFields DEF TokenInv, TypeOK
  <2> QED
    BY <1>1, <2>1, <2>2 DEF RevokeAll
<1>2. TokenInv => [\A w \in Worker : req[w].step = "revokeAll" /\ RevokeAll(w) =>
                      \A t \in req[w].known : row'[t] = "revoked"]_vars
  BY <1>1
<1> QED
  BY <1>2, TokenInvCorrect, PTL DEF OldSessionsEnd
\* Rows, exchanges and requests in flight stay well-formed.
THEOREM TypeCorrect == Spec => []TypeOK
<1>1. TokenInv => TypeOK
  BY DEF TokenInv
<1> QED
  BY <1>1, TokenInvCorrect, PTL

-----------------------------------------------------------------------------
(***************************************************************************)
(* One use: what holds of a token that no two requests have presented at   *)
(* once.                                                                   *)
(***************************************************************************)

Exchanges(w) == req[w].step = "issue" \/ (req[w].step \in {"find", "revoke"} /\ req[w].exchange)

\* The request is alone with its token; one that exchanges it is the first.
SoleUse(w, p) ==
    /\ \A v \in Worker \ {w} : req[v].token # p
    /\ Exchanges(w) => \A t \in Issued : parent[t] # p

AllSole == \A w \in Worker : req[w].token \in Token \ shared => SoleUse(w, req[w].token)

RotationInv == OneTimeUse /\ AllSole

\* A request that goes on with its token, or is answered, leaves the others alone
\* with theirs.
LEMMA StillSole ==
  ASSUME TokenInv, [Next]_vars, AllSole, UNCHANGED <<owner, parent, shared>>, Issued' = Issued,
         NEW w \in Worker, \A v \in Worker \ {w} : req'[v] = req[v],
         req'[w].token \in {req[w].token, NoToken},
         NEW v \in Worker \ {w}, req[v].token \in Token \ shared
  PROVE  SoleUse(v, req[v].token)'
<1>1. SoleUse(v, req[v].token)
  BY DEF AllSole
<1>2. /\ \A t \in Issued : t \in Token
      /\ \A t \in Token : row[t] = "revoked" => row'[t] = "revoked"
  BY Monotone DEF Issued
<1>3. req'[v] = req[v] /\ req'[v].token = req[v].token
  OBVIOUS
<1>4. \A u \in Worker \ {v} : req'[u].token # req[v].token
  BY <1>1, RefreshTokensAssumption DEF SoleUse
<1>5. Exchanges(v)' = Exchanges(v)
  BY <1>3 DEF Exchanges
<1> QED
  BY <1>1, <1>2, <1>3, <1>4, <1>5 DEF SoleUse

\* The empty table satisfies it.
LEMMA InitRotation == Init => RotationInv
<1> SUFFICES ASSUME Init PROVE RotationInv
  OBVIOUS
<1>1. Issued = {} /\ \A w \in Worker : req[w] = Idle
  BY DEF Init, Issued
<1> QED
  BY <1>1, IdleKnows, RefreshTokensAssumption DEF RotationInv, OneTimeUse, AllSole

\* A request that begins is alone with its token, or the token is shared from now on.
LEMMA BeginsSole ==
  ASSUME TokenInv, RotationInv, [Next]_vars, UNCHANGED <<row, owner, parent, session, late, ended>>,
         NEW w \in Worker, NEW step \in {"find", "issue", "findAll"}, NEW u,
         NEW t \in Token \cup {NoToken}, NEW x \in BOOLEAN, Begin(w, step, u, t, x),
         step = "issue" => t = NoToken,
         step = "find" /\ x => row[t] = "live"
  PROVE  RotationInv'
<1> DEFINE r == [step |-> step, user |-> u, token |-> t, exchange |-> x,
                 seen |-> {}, known |-> TokensOf(u)]
<1>1. req' = [req EXCEPT ![w] = r] /\ shared' = shared \cup (({t} \cap {req[v].token : v \in Worker}) \ {NoToken})
  BY DEF Begin
<1>2. r.step = step /\ r.user = u /\ r.token = t /\ r.exchange = x
  OBVIOUS
<1> HIDE DEF r
<1>3. req'[w] = r /\ \A v \in Worker \ {w} : req'[v] = req[v]
  BY <1>1 DEF TokenInv, TypeOK
<1>4. Issued' = Issued /\ shared \subseteq shared'
  BY <1>1 DEF Issued
<1>5. OneTimeUse'
  BY <1>4 DEF RotationInv, OneTimeUse
<1>6. \A v \in Worker : req[v].token = t /\ t \in Token => t \in shared'
  BY <1>1, RefreshTokensAssumption
<1>7. ASSUME t \in Token \ shared'
      PROVE  SoleUse(w, t)'
  <2>1. \A v \in Worker \ {w} : req'[v].token # t
    BY <1>3, <1>6, <1>7
  <2>2. req'[w].step = step /\ req'[w].user = u /\ req'[w].exchange = x
    BY <1>2, <1>3
  <2>3. Exchanges(w)' => \A s \in Issued' : parent'[s] # t
    <3>1. Exchanges(w)' => step = "find" /\ x
      BY <1>7, <2>2, RefreshTokensAssumption DEF Exchanges
    <3> QED
      BY <1>4, <1>7, <3>1 DEF TokenInv, ExchangedIsRevoked
  <2> QED
    BY <2>1, <2>2, <2>3 DEF SoleUse
<1>8. ASSUME NEW v \in Worker \ {w}, req[v].token \in Token \ shared'
      PROVE  SoleUse(v, req[v].token)'
  <2>1. SoleUse(v, req[v].token) /\ req[v].token # t
    BY <1>4, <1>6, <1>8 DEF RotationInv, AllSole
  <2>2. req'[v] = req[v] /\ \A y \in Worker \ {v} : req'[y].token # req[v].token
    BY <1>2, <1>3, <2>1 DEF SoleUse
  <2>3. Exchanges(v)' = Exchanges(v)
    BY <2>2 DEF Exchanges
  <2> QED
    BY <1>4, <2>1, <2>2, <2>3 DEF SoleUse
<1>9. AllSole'
  BY <1>2, <1>3, <1>7, <1>8 DEF AllSole
<1> QED
  BY <1>5, <1>9 DEF RotationInv

\* A request that goes on or is answered, issuing nothing.
LEMMA GoesSole ==
  ASSUME TokenInv, RotationInv, [Next]_vars, UNCHANGED <<owner, parent, shared>>, Issued' = Issued,
         NEW w \in Worker, \A v \in Worker \ {w} : req'[v] = req[v],
         \/ req'[w].token = NoToken
         \/ req'[w].token = req[w].token /\
            (req[w].token \in Token \ shared => SoleUse(w, req[w].token)')
  PROVE  RotationInv'
<1>1. OneTimeUse'
  BY DEF RotationInv, OneTimeUse
<1>2. AllSole'
  <2> SUFFICES ASSUME NEW v \in Worker, req'[v].token \in Token \ shared
               PROVE  SoleUse(v, req[v].token)'
    BY DEF AllSole
  <2>1. CASE v = w
    BY <2>1, RefreshTokensAssumption
  <2>2. CASE v # w
    <3>1. req'[v].token = req[v].token
      BY <2>2
    <3>2. SoleUse(v, req[v].token)'
      BY <2>2, <3>1, StillSole DEF RotationInv
    <3> QED
      BY <3>1, <3>2
  <2> QED
    BY <2>1, <2>2
<1> QED
  BY <1>1, <1>2 DEF RotationInv

\* Every action keeps it.
LEMMA NextRotation == TokenInv /\ RotationInv /\ [Next]_vars => RotationInv'
<1> SUFFICES ASSUME TokenInv, RotationInv, [Next]_vars PROVE RotationInv'
  OBVIOUS
<1>t. /\ row \in [Token -> {"absent", "live", "revoked"}] /\ owner \in [Token -> User]
      /\ parent \in [Token -> Token \cup {NoToken}]
      /\ Issued \subseteq Token /\ \A t \in Token \ Issued : row[t] = "absent"
  BY DEF TokenInv, TypeOK, Issued
<1>w. ASSUME NEW w \in Worker
      PROVE  req[w] \in Request /\ Knows(w)
  BY <1>w DEF TokenInv, TypeOK
<1>a. \A w \in Worker : req[w].token \in Token \ shared => SoleUse(w, req[w].token)
  BY DEF RotationInv, AllSole
<1>m. \A t \in Token : row[t] = "revoked" => row'[t] = "revoked"
  BY Monotone
<1>answer. ASSUME NEW w \in Worker, Answer(w)
           PROVE  req'[w].token = NoToken /\ \A v \in Worker \ {w} : req'[v] = req[v]
  BY <1>answer, IdleKnows DEF Answer, TokenInv, TypeOK
<1>goto. ASSUME NEW w \in Worker, NEW step, NEW S, GoTo(w, step, S)
         PROVE  /\ req'[w].step = step /\ req'[w].user = req[w].user /\ req'[w].token = req[w].token
                /\ req'[w].exchange = req[w].exchange /\ req'[w].seen = S
                /\ \A v \in Worker \ {w} : req'[v] = req[v]
  BY <1>goto DEF GoTo, TokenInv, TypeOK
<1>1. ASSUME NEW w \in Worker, NEW u \in User, Login(w, u) \/ LogoutAll(w, u)
      PROVE  RotationInv'
  BY <1>1, BeginsSole, RefreshTokensAssumption DEF Login, LogoutAll
<1>2. ASSUME NEW w \in Worker, NEW t \in Token, Refresh(w, t)
      PROVE  RotationInv'
  <2>1. CASE row[t] = "revoked" /\ Begin(w, "findAll", owner[t], t, FALSE)
    BY <1>2, <2>1, BeginsSole DEF Refresh
  <2>2. CASE row[t] = "live" /\ Begin(w, "find", owner[t], t, TRUE)
    BY <1>2, <2>2, BeginsSole, RefreshTokensAssumption DEF Refresh
  <2> QED
    BY <1>2, <2>1, <2>2 DEF Refresh
<1>3. ASSUME NEW w \in Worker, NEW t \in Token, LogoutOne(w, t)
      PROVE  RotationInv'
  BY <1>3, BeginsSole, RefreshTokensAssumption DEF LogoutOne
<1>4. ASSUME NEW w \in Worker, Find(w)
      PROVE  RotationInv'
  <2>1. /\ req[w].step = "find" /\ GoTo(w, "revoke", {})
        /\ UNCHANGED <<row, owner, parent, shared>> /\ Issued' = Issued
    BY <1>4 DEF Find, Issued
  <2>2. Exchanges(w)' = Exchanges(w) /\ req'[w].step = "revoke"
    BY <1>goto, <2>1 DEF Exchanges
  <2>3. req[w].token \in Token \ shared => SoleUse(w, req[w].token)'
    BY <1>a, <1>goto, <2>1, <2>2 DEF SoleUse
  <2> QED
    BY <1>goto, <2>1, <2>3, GoesSole
<1>5. ASSUME NEW w \in Worker, Revoke(w)
      PROVE  RotationInv'
  <2>1. /\ req[w].step = "revoke" /\ UNCHANGED <<owner, parent, shared>>
        /\ row' = [row EXCEPT ![req[w].token] = "revoked"]
        /\ IF req[w].exchange THEN GoTo(w, "issue", {}) ELSE Answer(w)
    BY <1>5 DEF Revoke
  <2>2. Issued' = Issued
    BY <1>t, <1>w, <2>1 DEF Knows, TokensOf, Issued
  <2>3. CASE req[w].exchange
    <3>1. GoTo(w, "issue", {}) /\ Exchanges(w)
      BY <2>1, <2>3 DEF Exchanges
    <3>2. req'[w].step = "issue"
      BY <1>goto, <3>1
    <3>3. req[w].token \in Token \ shared => SoleUse(w, req[w].token)'
      BY <1>a, <1>goto, <2>1, <2>2, <3>1, <3>2 DEF SoleUse
    <3> QED
      BY <1>goto, <2>1, <2>2, <3>1, <3>3, GoesSole
  <2>4. CASE ~req[w].exchange
    BY <1>answer, <2>1, <2>2, <2>4, GoesSole
  <2> QED
    BY <2>3, <2>4
<1>6. ASSUME NEW w \in Worker, NEW t \in Token, Issue(w, t)
      PROVE  RotationInv'
  <2>1. /\ req[w].step = "issue" /\ row[t] = "absent" /\ UNCHANGED shared /\ Answer(w)
        /\ row' = [row EXCEPT ![t] = "live"]
        /\ owner' = [owner EXCEPT ![t] = req[w].user]
        /\ parent' = [parent EXCEPT ![t] = req[w].token]
    BY <1>6 DEF Issue
  <2>2. Issued' = Issued \cup {t} /\ t \notin Issued /\ parent'[t] = req[w].token
    BY <1>t, <2>1 DEF Issued
  <2>3. \A s \in Token \ {t} : owner'[s] = owner[s] /\ parent'[s] = parent[s] /\ row'[s] = row[s]
    BY <1>t, <2>1
  <2>4. req[w].token \in Token \ shared => \A s \in Issued : parent[s] # req[w].token
    BY <1>a, <2>1 DEF SoleUse, Exchanges
  <2>5. OneTimeUse'
    <3> SUFFICES ASSUME NEW r \in Issued', NEW s \in Issued', parent'[r] = parent'[s],
                        parent'[s] \in Token \ shared
                 PROVE  r = s
      BY <2>1 DEF OneTimeUse
    <3>1. CASE r = t \/ s = t
      BY <1>t, <2>2, <2>3, <2>4, <3>1
    <3>2. CASE r # t /\ s # t
      BY <1>t, <2>2, <2>3, <3>2 DEF RotationInv, OneTimeUse
    <3> QED
      BY <3>1, <3>2
  <2>6. AllSole'
    <3> SUFFICES ASSUME NEW v \in Worker, req'[v].token \in Token \ shared
                 PROVE  SoleUse(v, req[v].token)'
      BY <2>1 DEF AllSole
    <3>1. v # w /\ req'[v] = req[v] /\ req'[w].token = NoToken
      BY <1>answer, <2>1, RefreshTokensAssumption
    <3>2. SoleUse(v, req[v].token) /\ req[w].token # req[v].token
      BY <1>a, <3>1 DEF SoleUse
    <3>3. \A y \in Worker \ {v} : req'[y].token # req'[v].token
      BY <1>answer, <2>1, <3>1, <3>2, RefreshTokensAssumption DEF SoleUse
    <3>4. Exchanges(v)' = Exchanges(v)
      BY <3>1 DEF Exchanges
    <3>5. \A s \in Issued' : parent'[s] = req[v].token => s \in Issued /\ parent[s] = req[v].token
      BY <1>t, <2>2, <2>3, <3>2
    <3>6. \A s \in Issued : s # t /\ row'[s] = row[s]
      BY <1>t, <2>2, <2>3
    <3>7. row[req[v].token] = "revoked" => req[v].token # t
      BY <2>1
    <3> QED
      BY <2>3, <3>1, <3>2, <3>3, <3>4, <3>5, <3>6, <3>7 DEF SoleUse
  <2> QED
    BY <2>5, <2>6 DEF RotationInv
<1>7. ASSUME NEW w \in Worker, FindAll(w)
      PROVE  RotationInv'
  <2>1. /\ req[w].step = "findAll" /\ GoTo(w, "revokeAll", LiveOf(req[w].user))
        /\ UNCHANGED <<row, owner, parent, shared>> /\ Issued' = Issued
    BY <1>7 DEF FindAll, Issued
  <2>2. ~Exchanges(w)'
    BY <1>goto, <2>1 DEF Exchanges
  <2>3. req[w].token \in Token \ shared => SoleUse(w, req[w].token)'
    BY <1>a, <1>goto, <2>1, <2>2 DEF SoleUse
  <2> QED
    BY <1>goto, <2>1, <2>3, GoesSole
<1>8. ASSUME NEW w \in Worker, RevokeAll(w)
      PROVE  RotationInv'
  <2>1. /\ row' = [t \in Token |-> IF t \in req[w].seen THEN "revoked" ELSE row[t]]
        /\ Answer(w) /\ UNCHANGED <<owner, parent, shared>>
    BY <1>8 DEF RevokeAll
  <2>2. req[w].seen \subseteq Issued
    BY <1>w DEF Knows, TokensOf
  <2>3. Issued' = Issued
    BY <1>t, <2>1, <2>2 DEF Issued
  <2> QED
    BY <1>answer, <2>1, <2>3, GoesSole
<1>9. ASSUME NEW w \in Worker, Fail(w)
      PROVE  RotationInv'
  <2>1. Answer(w) /\ UNCHANGED <<row, owner, parent, shared>> /\ Issued' = Issued
    BY <1>9 DEF Fail, Issued
  <2> QED
    BY <1>answer, <2>1, GoesSole
<1>10. CASE UNCHANGED <<row, owner, parent, shared, req>>
  <2>1. Issued' = Issued
    BY <1>10 DEF Issued
  <2>2. OneTimeUse'
    BY <1>10, <2>1 DEF RotationInv, OneTimeUse
  <2>3. AllSole'
    BY <1>10, <2>1 DEF RotationInv, AllSole, SoleUse, Exchanges
  <2> QED
    BY <2>2, <2>3 DEF RotationInv
<1> QED
  BY <1>1, <1>2, <1>3, <1>4, <1>5, <1>6, <1>7, <1>8, <1>9, <1>10 DEF Next, Expire, vars

\* Together with what requests know of the table, it is an invariant.
LEMMA RotationCorrect == Spec => [](TokenInv /\ RotationInv)
<1>1. Init => TokenInv /\ RotationInv
  BY InitToken, InitRotation
<1>2. (TokenInv /\ RotationInv) /\ [Next]_vars => (TokenInv /\ RotationInv)'
  BY NextToken, NextRotation
<1> QED
  BY <1>1, <1>2, PTL DEF Spec

\* A token that no two requests present at once is exchanged for at most one,
\* whatever else overlaps, fails or expires.
THEOREM OneTimeUseCorrect == Spec => []OneTimeUse
<1>1. TokenInv /\ RotationInv => OneTimeUse
  BY DEF RotationInv
<1> QED
  BY <1>1, RotationCorrect, PTL

-----------------------------------------------------------------------------
(***************************************************************************)
(* The answer to a second use: what holds of a session no token of which   *)
(* is being exchanged while it is given.                                   *)
(***************************************************************************)

\* A session is its user's, named after a token issued at a login.
SessionsOwned ==
    \A t \in Issued : session[t] \in Issued /\ owner[session[t]] = owner[t]

\* A request alone with the session of a reused token: nobody exchanges a token
\* of it, and it has read or knows revoked all there are.
Covers(w) ==
    /\ req[w].step \in {"findAll", "revokeAll"}
    /\ req[w].token \in Issued /\ owner[req[w].token] = req[w].user
    /\ ~ExchangeIn(session[req[w].token])
    /\ req[w].step = "revokeAll" =>
        \A t \in Issued : session[t] = session[req[w].token] =>
            t \in req[w].seen \/ row[t] = "revoked"

\* A session that has ended stays so: none of its tokens is live or exchanged.
StayEnded == ReuseEndsSession /\ \A s \in ended : s \in Issued /\ ~ExchangeIn(s)

SessionInv == SessionsOwned /\ (\A w \in alone : Covers(w)) /\ StayEnded

\* Where no request starts to exchange a token, no session starts to be exchanged.
LEMMA NoNewExchange ==
  ASSUME TokenInv, \A v \in Worker : req'[v].exchange => req[v].exchange /\ req'[v].token = req[v].token,
         \A t \in Issued : session'[t] = session[t],
         NEW s, ExchangeIn(s)'
  PROVE  ExchangeIn(s)
<1>1. PICK v \in Worker : req'[v].exchange /\ session'[req'[v].token] = s
  BY DEF ExchangeIn
<1>2. req[v].exchange /\ req'[v].token = req[v].token
  BY <1>1
<1>3. req[v].token \in Issued
  BY <1>2 DEF TokenInv, TypeOK, Presents
<1> QED
  BY <1>1, <1>2, <1>3 DEF ExchangeIn

\* A request keeps what it covers when others go on without exchanging more.
LEMMA StillCovers ==
  ASSUME TokenInv, [Next]_vars, NEW v \in Worker, Covers(v), req'[v] = req[v],
         \A t \in Issued : session'[t] = session[t],
         \A t \in Issued' : session'[t] = session[req[v].token] => t \in Issued,
         ~ExchangeIn(session[req[v].token])'
  PROVE  Covers(v)'
<1>1. /\ \A t \in Issued : t \in Issued' /\ owner'[t] = owner[t] /\ t \in Token
      /\ \A t \in Token : row[t] = "revoked" => row'[t] = "revoked"
  BY Monotone DEF Issued
<1>2. session'[req[v].token] = session[req[v].token]
  BY DEF Covers
<1> QED
  BY <1>1, <1>2 DEF Covers

\* A step that issues nothing and starts no exchange, by which w alone goes on.
LEMMA SessionsKept ==
  ASSUME TokenInv, SessionInv, [Next]_vars, UNCHANGED <<owner, session>>, Issued' = Issued,
         NEW w \in Worker, \A v \in Worker \ {w} : req'[v] = req[v],
         req'[w].exchange => req[w].exchange /\ req'[w].token = req[w].token,
         alone' \subseteq alone, w \in alone' => Covers(w)',
         \A s \in ended' \ ended : s \in Issued /\ ~ExchangeIn(s) /\
            \A t \in Issued : session[t] = s => row'[t] = "revoked"
  PROVE  SessionInv'
<1>1. \A s : ExchangeIn(s)' => ExchangeIn(s)
  BY NoNewExchange
<1>2. /\ \A t \in Issued : t \in Token /\ row[t] \in {"live", "revoked"}
      /\ \A t \in Token : row[t] = "revoked" => row'[t] = "revoked"
  BY Monotone DEF Issued, TokenInv, TypeOK
<1>3. SessionsOwned'
  BY DEF SessionInv, SessionsOwned
<1>4. ASSUME NEW v \in alone' PROVE Covers(v)'
  <2>1. v \in Worker /\ Covers(v)
    BY <1>4 DEF SessionInv, TokenInv, TypeOK
  <2>2. CASE v = w
    BY <1>4, <2>2
  <2>3. CASE v # w
    <3>1. ~ExchangeIn(session[req[v].token])'
      BY <1>1, <2>1 DEF Covers
    <3> QED
      BY <2>1, <2>3, <3>1, StillCovers
  <2> QED
    BY <2>2, <2>3
<1>5. StayEnded'
  <2>1. ReuseEndsSession'
    <3> SUFFICES ASSUME NEW t \in Issued, session[t] \in ended' PROVE row'[t] # "live"
      BY DEF ReuseEndsSession
    <3>1. CASE session[t] \in ended
      <4>1. row[t] # "live"
        BY <3>1 DEF SessionInv, StayEnded, ReuseEndsSession
      <4>2. row'[t] = "revoked"
        BY <1>2, <4>1
      <4> QED
        BY <4>2
    <3>2. CASE session[t] \notin ended
      <4>1. row'[t] = "revoked"
        BY <3>2
      <4> QED
        BY <4>1
    <3> QED
      BY <3>1, <3>2
  <2>2. \A s \in ended' : s \in Issued' /\ ~ExchangeIn(s)'
    BY <1>1 DEF SessionInv, StayEnded
  <2> QED
    BY <2>1, <2>2 DEF StayEnded
<1> QED
  BY <1>3, <1>4, <1>5 DEF SessionInv

\* The empty table satisfies it.
LEMMA InitSession == Init => SessionInv
<1> SUFFICES ASSUME Init PROVE SessionInv
  OBVIOUS
<1>1. Issued = {} /\ alone = {} /\ ended = {}
  BY DEF Init, Issued
<1> QED
  BY <1>1 DEF SessionInv, SessionsOwned, StayEnded, ReuseEndsSession

\* A request that begins: when it will exchange its token, nobody is alone with
\* the session any more, and the session has not ended.
LEMMA SessionsBegin ==
  ASSUME TokenInv, SessionInv, [Next]_vars, UNCHANGED <<row, owner, parent, session, late, ended>>,
         NEW w \in Worker, req[w].step = "idle",
         NEW step \in {"find", "issue", "findAll"}, NEW u,
         NEW t \in Issued \cup {NoToken}, NEW x \in BOOLEAN, Begin(w, step, u, t, x),
         x => t # NoToken /\ row[t] = "live" /\ step = "find",
         t \in Issued => owner[t] = u
  PROVE  SessionInv'
<1> DEFINE r == [step |-> step, user |-> u, token |-> t, exchange |-> x,
                 seen |-> {}, known |-> TokensOf(u)]
<1>1. req' = [req EXCEPT ![w] = r]
  BY DEF Begin
<1>2. r.step = step /\ r.user = u /\ r.token = t /\ r.exchange = x
  OBVIOUS
<1> HIDE DEF r
<1>3. req'[w] = r /\ \A v \in Worker \ {w} : req'[v] = req[v]
  BY <1>1 DEF TokenInv, TypeOK
<1>4. Issued' = Issued /\ NoToken \notin Issued
  BY RefreshTokensAssumption DEF Issued
<1>5. \A s : ExchangeIn(s)' => ExchangeIn(s) \/ (x /\ s = session[t])
  <2> SUFFICES ASSUME NEW s, ExchangeIn(s)' PROVE ExchangeIn(s) \/ (x /\ s = session[t])
    OBVIOUS
  <2>1. PICK v \in Worker : req'[v].exchange /\ session[req'[v].token] = s
    BY DEF ExchangeIn
  <2>2. CASE v = w
    BY <1>2, <1>3, <2>1, <2>2
  <2>3. CASE v # w
    BY <1>3, <2>1, <2>3 DEF ExchangeIn
  <2> QED
    BY <2>2, <2>3
<1>6. SessionsOwned'
  BY <1>4 DEF SessionInv, SessionsOwned
<1>7. w \notin alone
  BY DEF TokenInv, TypeOK, Presents
<1>8. ASSUME NEW v \in alone' PROVE Covers(v)'
  <2>1. CASE v = w
    <3>1. t \in Issued /\ step = "findAll" /\ ~ExchangeIn(session[t])
      BY <1>7, <1>8, <2>1 DEF Begin
    <3>2. ~x
      BY <3>1
    <3> QED
      BY <1>2, <1>3, <1>4, <1>5, <2>1, <3>1, <3>2 DEF Covers
  <2>2. CASE v # w
    <3>1. v \in alone /\ v \in Worker /\ Covers(v)
      BY <1>8, <2>2 DEF Begin, SessionInv, TokenInv, TypeOK
    <3>2. ~(x /\ session[req[v].token] = session[t])
      BY <1>8, <2>2 DEF Begin
    <3>3. ~ExchangeIn(session[req[v].token])'
      BY <1>3, <1>5, <2>2, <3>1, <3>2 DEF Covers
    <3> QED
      BY <1>3, <1>4, <2>2, <3>1, <3>3, StillCovers
  <2> QED
    BY <2>1, <2>2
<1>9. StayEnded'
  <2>1. x => session[t] \notin ended
    BY DEF SessionInv, StayEnded, ReuseEndsSession
  <2> QED
    BY <1>4, <1>5, <2>1 DEF SessionInv, StayEnded, ReuseEndsSession
<1> QED
  BY <1>6, <1>8, <1>9 DEF SessionInv

\* Every action keeps it.
LEMMA NextSession == TokenInv /\ SessionInv /\ [Next]_vars => SessionInv'
<1> SUFFICES ASSUME TokenInv, SessionInv, [Next]_vars PROVE SessionInv'
  OBVIOUS
<1>t. /\ row \in [Token -> {"absent", "live", "revoked"}] /\ owner \in [Token -> User]
      /\ parent \in [Token -> Token \cup {NoToken}] /\ session \in [Token -> Token]
      /\ Issued \subseteq Token /\ \A t \in Token \ Issued : row[t] = "absent"
      /\ alone \subseteq Worker
  BY DEF TokenInv, TypeOK, Issued
<1>w. ASSUME NEW w \in Worker
      PROVE  req[w] \in Request /\ Knows(w) /\ Presents(w)
  BY <1>w DEF TokenInv, TypeOK
<1>m. \A t \in Token : row[t] = "revoked" => row'[t] = "revoked"
  BY Monotone
<1>answer. ASSUME NEW w \in Worker, Answer(w)
           PROVE  /\ req'[w].exchange = FALSE /\ w \notin alone' /\ alone' \subseteq alone
                  /\ \A v \in Worker \ {w} : req'[v] = req[v]
  BY <1>answer, IdleKnows DEF Answer, TokenInv, TypeOK
<1>goto. ASSUME NEW w \in Worker, NEW step, NEW S, GoTo(w, step, S)
         PROVE  /\ req'[w].step = step /\ req'[w].user = req[w].user /\ req'[w].token = req[w].token
                /\ req'[w].exchange = req[w].exchange /\ req'[w].seen = S /\ alone' = alone
                /\ \A v \in Worker \ {w} : req'[v] = req[v]
  BY <1>goto DEF GoTo, TokenInv, TypeOK
<1>1. ASSUME NEW w \in Worker, NEW u \in User, Login(w, u) \/ LogoutAll(w, u)
      PROVE  SessionInv'
  BY <1>1, SessionsBegin, RefreshTokensAssumption DEF Login, LogoutAll, Issued
<1>2. ASSUME NEW w \in Worker, NEW t \in Token, Refresh(w, t)
      PROVE  SessionInv'
  <2>1. CASE row[t] = "revoked" /\ Begin(w, "findAll", owner[t], t, FALSE)
    BY <1>2, <2>1, SessionsBegin DEF Refresh, Issued
  <2>2. CASE row[t] = "live" /\ Begin(w, "find", owner[t], t, TRUE)
    BY <1>2, <2>2, SessionsBegin, RefreshTokensAssumption DEF Refresh, Issued
  <2> QED
    BY <1>2, <2>1, <2>2 DEF Refresh
<1>3. ASSUME NEW w \in Worker, NEW t \in Token, LogoutOne(w, t)
      PROVE  SessionInv'
  BY <1>3, SessionsBegin DEF LogoutOne
<1>4. ASSUME NEW w \in Worker, Find(w)
      PROVE  SessionInv'
  <2>1. /\ req[w].step = "find" /\ GoTo(w, "revoke", {})
        /\ UNCHANGED <<row, owner, session, ended>> /\ Issued' = Issued
    BY <1>4 DEF Find, Issued
  <2>2. w \notin alone
    BY <2>1 DEF SessionInv, Covers
  <2> QED
    BY <1>goto, <2>1, <2>2, SessionsKept
<1>5. ASSUME NEW w \in Worker, Revoke(w)
      PROVE  SessionInv'
  <2>1. /\ req[w].step = "revoke" /\ UNCHANGED <<owner, session, ended>>
        /\ row' = [row EXCEPT ![req[w].token] = "revoked"]
        /\ IF req[w].exchange THEN GoTo(w, "issue", {}) ELSE Answer(w)
    BY <1>5 DEF Revoke
  <2>2. Issued' = Issued
    BY <1>t, <1>w, <2>1 DEF Knows, TokensOf, Issued
  <2>3. w \notin alone
    BY <2>1 DEF SessionInv, Covers
  <2>4. CASE req[w].exchange
    BY <1>goto, <2>1, <2>2, <2>3, <2>4, SessionsKept
  <2>5. CASE ~req[w].exchange
    BY <1>answer, <2>1, <2>2, <2>5, SessionsKept
  <2> QED
    BY <2>4, <2>5
<1>6. ASSUME NEW w \in Worker, NEW t \in Token, Issue(w, t)
      PROVE  SessionInv'
  <2>1. /\ req[w].step = "issue" /\ row[t] = "absent" /\ Answer(w) /\ ended' = ended
        /\ row' = [row EXCEPT ![t] = "live"]
        /\ owner' = [owner EXCEPT ![t] = req[w].user]
        /\ session' = [session EXCEPT ![t] = IF req[w].exchange THEN session[req[w].token] ELSE t]
    BY <1>6 DEF Issue
  <2>2. Issued' = Issued \cup {t} /\ t \notin Issued
    BY <1>t, <2>1 DEF Issued
  <2>3. /\ \A s \in Token \ {t} : owner'[s] = owner[s] /\ session'[s] = session[s] /\ row'[s] = row[s]
        /\ owner'[t] = req[w].user
        /\ session'[t] = IF req[w].exchange THEN session[req[w].token] ELSE t
    BY <1>t, <2>1
  <2>4. req[w].exchange =>
            /\ req[w].token \in Issued /\ owner[req[w].token] = req[w].user
            /\ session[req[w].token] \in Issued
            /\ owner[session[req[w].token]] = req[w].user
            /\ ExchangeIn(session[req[w].token])
    BY <1>t, <1>w, <2>1 DEF Presents, Knows, SessionInv, SessionsOwned, ExchangeIn
  <2>5. \A s \in Issued : s \in Token /\ s # t /\ session[s] \in Issued /\ session[s] # t
    BY <1>t, <2>2 DEF SessionInv, SessionsOwned
  <2>6. SessionsOwned'
    <3> SUFFICES ASSUME NEW s \in Issued'
                 PROVE  session'[s] \in Issued' /\ owner'[session'[s]] = owner'[s]
      BY DEF SessionsOwned
    <3>1. CASE s = t
      BY <1>t, <2>2, <2>3, <2>4, <3>1
    <3>2. CASE s \in Issued
      BY <1>t, <2>2, <2>3, <2>5, <3>2 DEF SessionInv, SessionsOwned
    <3> QED
      BY <2>2, <3>1, <3>2
  <2>7. \A s : ExchangeIn(s)' => ExchangeIn(s)
    <3>1. \A v \in Worker : req'[v].exchange => req[v].exchange /\ req'[v].token = req[v].token
      BY <1>answer, <2>1
    <3>2. \A s \in Issued : session'[s] = session[s]
      BY <2>3, <2>5
    <3> QED
      BY <3>1, <3>2, NoNewExchange
  <2>8. ASSUME NEW v \in alone' PROVE Covers(v)'
    <3>1. v \in Worker /\ v # w /\ req'[v] = req[v] /\ Covers(v)
      BY <1>answer, <1>t, <2>1, <2>8 DEF SessionInv
    <3>2. session[req[v].token] \in Issued /\ ~ExchangeIn(session[req[v].token])
      BY <2>5, <3>1 DEF Covers
    <3>3. session'[t] # session[req[v].token]
      BY <2>2, <2>3, <2>4, <3>2
    <3>4. session'[req'[v].token] = session[req[v].token]
      BY <2>3, <2>5, <3>1 DEF Covers
    <3>5. /\ \A s \in Issued : session'[s] = session[s]
          /\ \A s \in Issued' : session'[s] = session[req[v].token] => s \in Issued
      BY <2>2, <2>3, <2>5, <3>3
    <3>6. ~ExchangeIn(session[req[v].token])'
      BY <2>7, <3>2, <3>4
    <3> QED
      BY <3>1, <3>5, <3>6, StillCovers
  <2>9. StayEnded'
    <3>1. \A s \in ended : s \in Issued /\ ~ExchangeIn(s)
      BY DEF SessionInv, StayEnded
    <3>2. session'[t] \notin ended
      BY <2>2, <2>3, <2>4, <3>1
    <3>3. ReuseEndsSession'
      <4> SUFFICES ASSUME NEW s \in Issued', session'[s] \in ended PROVE row'[s] # "live"
        BY <2>1 DEF ReuseEndsSession
      <4>1. s \in Issued /\ session[s] \in ended /\ row'[s] = row[s]
        BY <2>2, <2>3, <2>5, <3>2
      <4> QED
        BY <4>1 DEF SessionInv, StayEnded, ReuseEndsSession
    <3> QED
      BY <2>1, <2>2, <2>7, <3>1, <3>3 DEF StayEnded
  <2> QED
    BY <2>6, <2>8, <2>9 DEF SessionInv
<1>7. ASSUME NEW w \in Worker, FindAll(w)
      PROVE  SessionInv'
  <2>1. /\ req[w].step = "findAll" /\ GoTo(w, "revokeAll", LiveOf(req[w].user))
        /\ UNCHANGED <<row, owner, session, ended>> /\ Issued' = Issued
    BY <1>7 DEF FindAll, Issued
  <2>2. \A s : ExchangeIn(s)' => ExchangeIn(s)
    BY <1>goto, <2>1, NoNewExchange
  <2>3. ASSUME w \in alone' PROVE Covers(w)'
    <3>1. Covers(w)
      BY <1>goto, <2>1, <2>3 DEF SessionInv
    <3>2. \A t \in Issued : session[t] = session[req[w].token] =>
              t \in LiveOf(req[w].user) \/ row[t] = "revoked"
      <4>1. \A t \in Issued : session[t] = session[req[w].token] => owner[t] = req[w].user
        BY <3>1 DEF Covers, SessionInv, SessionsOwned
      <4>2. \A t \in Issued : row[t] \in {"live", "revoked"}
        BY <1>t DEF Issued
      <4> QED
        BY <4>1, <4>2 DEF LiveOf, TokensOf
    <3> QED
      BY <1>goto, <2>1, <2>2, <3>1, <3>2 DEF Covers
  <2> QED
    BY <1>goto, <2>1, <2>3, SessionsKept
<1>8. ASSUME NEW w \in Worker, RevokeAll(w)
      PROVE  SessionInv'
  <2>1. /\ req[w].step = "revokeAll"
        /\ row' = [t \in Token |-> IF t \in req[w].seen THEN "revoked" ELSE row[t]]
        /\ Answer(w) /\ UNCHANGED <<owner, session>>
        /\ ended' = ended \cup {session[req[v].token] : v \in alone \cap {w}}
    BY <1>8 DEF RevokeAll
  <2>2. req[w].seen \subseteq Issued
    BY <1>w DEF Knows, TokensOf
  <2>3. Issued' = Issued
    BY <1>t, <2>1, <2>2 DEF Issued
  <2>4. ASSUME NEW s \in ended' \ ended
        PROVE  s \in Issued /\ ~ExchangeIn(s) /\
               \A t \in Issued : session[t] = s => row'[t] = "revoked"
    <3>1. s = session[req[w].token] /\ Covers(w)
      BY <2>1, <2>4 DEF SessionInv
    <3> QED
      BY <1>t, <2>1, <3>1 DEF Covers, SessionInv, SessionsOwned
  <2> QED
    BY <1>answer, <2>1, <2>3, <2>4, SessionsKept
<1>9. ASSUME NEW w \in Worker, Fail(w)
      PROVE  SessionInv'
  <2>1. Answer(w) /\ UNCHANGED <<row, owner, session, ended>> /\ Issued' = Issued
    BY <1>9 DEF Fail, Issued
  <2> QED
    BY <1>answer, <2>1, SessionsKept
<1>10. CASE UNCHANGED <<row, owner, parent, session, shared, alone, ended, req>>
  BY <1>10 DEF SessionInv, SessionsOwned, Covers, StayEnded, ReuseEndsSession, ExchangeIn, Issued
<1> QED
  BY <1>1, <1>2, <1>3, <1>4, <1>5, <1>6, <1>7, <1>8, <1>9, <1>10 DEF Next, Expire, vars

\* Once a reused token has been answered by a request alone with its session, no
\* token of the session is live again: for any number of requests, users and
\* tokens, whatever else overlaps, fails or expires.
THEOREM ReuseEndsSessionCorrect == Spec => []ReuseEndsSession
<1>1. Init => TokenInv /\ SessionInv
  BY InitToken, InitSession
<1>2. (TokenInv /\ SessionInv) /\ [Next]_vars => (TokenInv /\ SessionInv)'
  BY NextToken, NextSession
<1>3. TokenInv /\ SessionInv => ReuseEndsSession
  BY DEF SessionInv, StayEnded
<1> QED
  BY <1>1, <1>2, <1>3, PTL DEF Spec
=============================================================================
