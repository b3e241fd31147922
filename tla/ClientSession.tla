---------------------------- MODULE ClientSession ----------------------------
(***************************************************************************)
(* The session of one browser tab: the auth store, the interceptors around *)
(* every API call, and the server's answers.                               *)
(*                                                                         *)
(* A flow is one chain of promises: an API call with the refresh, the      *)
(* retry and the logout its interceptors add.  JavaScript runs to          *)
(* completion between two answers, so a step of a flow goes from one       *)
(* answer to the next request.  Any answer may be lost, and the page may   *)
(* be reloaded at any time, which ends the flows and keeps the store.      *)
(***************************************************************************)
EXTENDS Naturals, FiniteSets

CONSTANTS
    Flow,   \* the calls a page has under way at once
    Pair,   \* every pair of access and refresh token the server will issue
    NoPair  \* a store without tokens

ASSUME ClientSessionAssumption == NoPair \notin Pair

VARIABLES
    tokens,     \* the store's tokens, with their expiry
    on,         \* isAuthenticated
    refreshing, \* isRefreshing, the one field that is not persisted
    flow,       \* what each flow waits for
    age,        \* access token: "unissued", "fresh", "soon" (to expire) or "expired"
    rt,         \* refresh token: "unissued", "live", "revoked" or "late" (expired)
    banned,     \* blacklisted access tokens
    login,      \* history: the pair issued at the login a pair descends from
    presented,  \* history: the refresh tokens this page has presented
    calm        \* history: so far flows did not overlap, no answer was lost,
                \* no flow was cut off and no refresh token got too old

vars == <<tokens, on, refreshing, flow, age, rt, banned, login, presented, calm>>
server == <<age, rt, banned, login>>
store == <<tokens, on>>

\* The store after a logout
Clear == tokens' = NoPair /\ on' = FALSE

\* A request: its access token, and the refresh token in its body
Req(bearer, body) == [bearer |-> bearer, body |-> body]
NoCall == Req(NoPair, NoPair)

\* at: the request the flow waits for.  then: what the refresh under way was
\* started for; a flow at "leave" with a `then` logs out because its refresh
\* failed.  outer: what is sent when that refresh returns.  asked: the user
\* pressed "log out".
Promise(at, then, call, outer, ans, got, asked) ==
    [at |-> at, then |-> then, call |-> call, outer |-> outer,
     ans |-> ans, got |-> got, asked |-> asked]

Idle == Promise("idle", "none", NoCall, NoCall, "none", NoPair, FALSE)

Waits(at, then, call, outer, asked) == Promise(at, then, call, outer, "none", NoPair, asked)

Exchanging(f) == flow[f].at = "refresh" \/ flow[f].then # "none"

Set(f, waits) == flow' = [flow EXCEPT ![f] = waits]

BugMayRefresh == tokens # NoPair

\* refreshAccessToken goes on to POST /auth/refresh; otherwise it returns null
MayRefresh == ~refreshing /\ tokens # NoPair

Exchange(f, then, outer) ==
    /\ Set(f, Waits("refresh", then, Req(NoPair, tokens), outer, flow[f].asked))
    /\ refreshing' = TRUE
    /\ presented' = presented \cup {tokens}

\* The request interceptor: a token about to expire is exchanged first, if it can be
Send(f, at, then, body, asked) ==
    IF tokens # NoPair /\ age[tokens] # "fresh" /\ MayRefresh
    THEN /\ Set(f, Waits("refresh", at, Req(NoPair, tokens), Req(tokens, body), asked))
         /\ refreshing' = TRUE
         /\ presented' = presented \cup {tokens}
    ELSE /\ Set(f, Waits(at, then, Req(tokens, body), NoCall, asked))
         /\ UNCHANGED <<refreshing, presented>>

(***************************************************************************)
(* What users start                                                        *)
(***************************************************************************)

Starts(f) ==
    /\ flow[f].at = "idle"
    /\ calm' = (calm /\ \A g \in Flow : flow[g].at = "idle")
    /\ UNCHANGED <<store, server>>

\* A page calls the API
Call(f) ==
    /\ on
    /\ Starts(f)
    /\ Send(f, "call", "none", NoPair, FALSE)

\* The log-out button: logout() posts the refresh token of the store
LogOut(f) ==
    /\ on
    /\ Starts(f)
    /\ Send(f, "leave", "none", tokens, TRUE)

\* The login page
LogIn(f) ==
    /\ ~on
    /\ Starts(f)
    /\ Send(f, "login", "none", NoPair, FALSE)

(***************************************************************************)
(* The server answers                                                      *)
(***************************************************************************)

Valid(p) == p # NoPair /\ age[p] \in {"fresh", "soon"}

\* The flow with its answer
Told(m, ans, got) == Promise(m.at, m.then, m.call, m.outer, ans, got, m.asked)

NewPair(f, q, root) ==
    /\ rt[q] = "unissued"
    /\ age' = [age EXCEPT ![q] = "fresh"]
    /\ login' = [login EXCEPT ![q] = root]
    /\ Set(f, Told(flow[f], "ok", q))

\* A call is over with any answer but 401, its retry, sent with plain axios, with any
Over(f, ans) == flow[f].at = "retry" \/ (flow[f].at = "call" /\ ans # "refused")

Answers(f, ans) == Set(f, IF Over(f, ans) THEN Idle ELSE Told(flow[f], ans, NoPair))

\* JwtAuthGuard lets a call through; a blacklisted token only when Redis fails
Accept(f) ==
    /\ flow[f].at \in {"call", "retry"}
    /\ Valid(flow[f].call.bearer)
    /\ Answers(f, "ok")
    /\ UNCHANGED server

\* ... or answers 401
Refuse(f) ==
    /\ flow[f].at \in {"call", "retry", "leave", "releave"}
    /\ Valid(flow[f].call.bearer) => flow[f].call.bearer \in banned
    /\ Answers(f, "refused")
    /\ UNCHANGED server

BugAcceptLogout(f) ==
    /\ flow[f].at \in {"leave", "releave"}
    /\ Valid(flow[f].call.bearer)
    /\ Answers(f, "ok")
    /\ banned' = banned \cup {flow[f].call.bearer}
    /\ UNCHANGED <<age, login, rt>>

\* POST /auth/logout blacklists the access token, unless Redis fails, and revokes
\* the refresh token of the body
AcceptLogout(f) ==
    /\ flow[f].at \in {"leave", "releave"}
    /\ Valid(flow[f].call.bearer)
    /\ Answers(f, "ok")
    /\ banned' \in {banned, banned \cup {flow[f].call.bearer}}
    /\ rt' = [rt EXCEPT ![flow[f].call.body] = "revoked"]
    /\ UNCHANGED <<age, login>>

\* POST /auth/refresh exchanges a live token
Rotate(f, q) ==
    /\ flow[f].at = "refresh"
    /\ rt[flow[f].call.body] = "live"
    /\ NewPair(f, q, login[flow[f].call.body])
    /\ rt' = [rt EXCEPT ![flow[f].call.body] = "revoked", ![q] = "live"]
    /\ UNCHANGED banned

\* ... takes a revoked one for reuse and revokes all, refuses one too old
RefuseRotation(f) ==
    /\ flow[f].at = "refresh"
    /\ rt[flow[f].call.body] # "live"
    /\ Answers(f, "refused")
    /\ rt' = IF rt[flow[f].call.body] = "revoked"
             THEN [p \in Pair |-> IF rt[p] = "live" THEN "revoked" ELSE rt[p]]
             ELSE rt
    /\ UNCHANGED <<age, banned, login>>

\* POST /auth/login
Admit(f, q) ==
    /\ flow[f].at = "login"
    /\ NewPair(f, q, q)
    /\ rt' = [rt EXCEPT ![q] = "live"]
    /\ UNCHANGED banned

\* ... 401 for a wrong password
TurnAway(f) ==
    /\ flow[f].at = "login"
    /\ Answers(f, "refused")
    /\ UNCHANGED server

Handle(f) ==
    /\ flow[f].ans = "none"
    /\ \/ Accept(f) \/ Refuse(f) \/ AcceptLogout(f) \/ RefuseRotation(f) \/ TurnAway(f)
       \/ \E q \in Pair : Rotate(f, q) \/ Admit(f, q)
    /\ UNCHANGED <<store, refreshing, presented, calm>>

\* The request or its answer is lost, the time is out, or the server has failed
Lose(f) ==
    /\ flow[f].at # "idle"
    /\ flow[f].ans \in {"none", "ok"}
    /\ Answers(f, "failed")
    /\ calm' = FALSE
    /\ UNCHANGED <<store, refreshing, presented, server>>

(***************************************************************************)
(* The interceptors and the store take the answers                         *)
(***************************************************************************)

Ends(f) == Set(f, Idle)

\* logout(): asks the server first when the tab is authenticated, then clears.
Leave(f) ==
    IF on
    THEN Send(f, "leave", "none", tokens, flow[f].asked) /\ UNCHANGED store
    ELSE Ends(f) /\ Clear /\ UNCHANGED <<refreshing, presented>>

\* The response interceptor on 401: refresh and send again, or log out
Unauthorized(f, then) ==
    IF MayRefresh
    THEN Exchange(f, then, Req(NoPair, flow[f].call.body)) /\ UNCHANGED store
    ELSE Leave(f)

Answered(f, at, ans) ==
    /\ flow[f].at = at
    /\ flow[f].ans \in ans
    /\ UNCHANGED <<server, calm>>

BugCallRefused(f) ==
    /\ Answered(f, "call", {"refused"})
    /\ Leave(f)

CallRefused(f) ==
    /\ Answered(f, "call", {"refused"})
    /\ Unauthorized(f, "retry")

LoginAnswered(f) ==
    /\ Answered(f, "login", {"ok", "failed", "refused"})
    /\ IF flow[f].ans = "refused" THEN Unauthorized(f, "retry")
       ELSE /\ IF flow[f].ans = "ok" THEN tokens' = flow[f].got /\ on' = TRUE ELSE UNCHANGED store
            /\ Ends(f)
            /\ UNCHANGED <<refreshing, presented>>

BugRefreshed(f) ==
    /\ Answered(f, "refresh", {"ok"})
    /\ tokens' = flow[f].got /\ UNCHANGED on
    /\ Set(f, Waits(flow[f].then, "none", Req(flow[f].got, flow[f].outer.body),
                    NoCall, flow[f].asked))
    /\ UNCHANGED <<refreshing, presented>>

\* setTokens, whoever is logged in by now; the call that waited goes out with
\* the new token
Refreshed(f) ==
    /\ Answered(f, "refresh", {"ok"})
    /\ tokens' = flow[f].got /\ UNCHANGED on
    /\ refreshing' = FALSE
    /\ Set(f, Waits(flow[f].then, "none", Req(flow[f].got, flow[f].outer.body),
                    NoCall, flow[f].asked))
    /\ UNCHANGED presented

BugReturnNull(f) ==
    /\ tokens' = NoPair /\ UNCHANGED on
    /\ refreshing' = FALSE
    /\ Ends(f)
    /\ UNCHANGED presented

\* refreshAccessToken returns null after its logout: what waited in the request
\* interceptor goes out with the old token, what waited in the response
\* interceptor logs out, with nothing left to log out of
ReturnNull(f) ==
    /\ Clear
    /\ refreshing' = FALSE
    /\ IF flow[f].then \in {"call", "leave", "login"}
       THEN Set(f, Waits(flow[f].then, "none", flow[f].outer, NoCall, flow[f].asked))
       ELSE Ends(f)
    /\ UNCHANGED presented

\* The catch of refreshAccessToken: log out, isRefreshing still being set
LeaveExchanging(f) ==
    IF on
    THEN /\ Set(f, Waits("leave", flow[f].then, Req(tokens, tokens),
                         flow[f].outer, flow[f].asked))
         /\ UNCHANGED <<store, refreshing, presented>>
    ELSE ReturnNull(f)

RefreshFailed(f) ==
    /\ Answered(f, "refresh", {"failed", "refused"})
    /\ LeaveExchanging(f)

BugLeft(f) ==
    /\ Answered(f, "leave", {"ok", "failed"})
    /\ CASE flow[f].ans = "failed" -> flow' = [flow EXCEPT ![f].ans = "none"]
                                      /\ UNCHANGED <<store, refreshing, presented>>
         [] flow[f].then = "none" -> Ends(f) /\ Clear
                                     /\ UNCHANGED <<refreshing, presented>>
         [] OTHER -> ReturnNull(f)

\* authAPI.logout swallows errors; the store is cleared
Left(f) ==
    /\ Answered(f, "leave", {"ok", "failed"})
    /\ IF flow[f].then = "none"
       THEN Ends(f) /\ Clear /\ UNCHANGED <<refreshing, presented>>
       ELSE ReturnNull(f)

\* The logout itself is answered 401: refresh and send it again, or log out again
LeaveRefused(f) ==
    /\ Answered(f, "leave", {"refused"})
    /\ IF flow[f].then = "none" THEN Unauthorized(f, "releave") ELSE LeaveExchanging(f)

\* A logout sent again with plain axios ends whatever the answer
LeftAgain(f) ==
    /\ Answered(f, "releave", {"ok", "failed", "refused"})
    /\ Ends(f)
    /\ Clear
    /\ UNCHANGED <<refreshing, presented>>

Continue(f) ==
    \/ CallRefused(f) \/ LoginAnswered(f) \/ Refreshed(f)
    \/ RefreshFailed(f) \/ Left(f) \/ LeaveRefused(f) \/ LeftAgain(f)

(***************************************************************************)
(* Time and the page                                                       *)
(***************************************************************************)

\* A token someone may still send; time changes nothing about the others
InUse(p) ==
    \/ tokens = p
    \/ \E f \in Flow : p \in {flow[f].call.bearer, flow[f].call.body, flow[f].outer.bearer,
                              flow[f].outer.body, flow[f].got}

\* The access token ages; on the blacklist it is kept as long as it would live
Age(p) ==
    /\ InUse(p)
    /\ \/ age[p] = "fresh" /\ age' = [age EXCEPT ![p] = "soon"] /\ UNCHANGED banned
       \/ age[p] = "soon" /\ age' = [age EXCEPT ![p] = "expired"] /\ banned' = banned \ {p}
    /\ UNCHANGED <<store, refreshing, flow, rt, login, presented, calm>>

\* The refresh token's thirty days are over
Outlive(p) ==
    /\ InUse(p)
    /\ rt[p] = "live"
    /\ rt' = [rt EXCEPT ![p] = "late"]
    /\ calm' = FALSE
    /\ UNCHANGED <<store, refreshing, flow, age, banned, login, presented>>

\* window.location.href, or the user reloads: memory is gone, the store persists
Reload ==
    /\ flow' = [f \in Flow |-> Idle]
    /\ refreshing' = FALSE
    /\ presented' = {}
    /\ calm' = (calm /\ \A f \in Flow : flow[f].at = "idle")
    /\ UNCHANGED <<store, server>>

Init ==
    /\ tokens = NoPair /\ on = FALSE
    /\ refreshing = FALSE
    /\ flow = [f \in Flow |-> Idle]
    /\ age = [p \in Pair |-> "unissued"]
    /\ rt = [p \in Pair |-> "unissued"]
    /\ banned = {}
    /\ login = [p \in Pair |-> p]
    /\ presented = {}
    /\ calm = TRUE

Next ==
    \/ \E f \in Flow : Call(f) \/ LogOut(f) \/ LogIn(f) \/ Handle(f) \/ Lose(f) \/ Continue(f)
    \/ \E p \in Pair : Age(p) \/ Outlive(p)
    \/ Reload

\* The server answers or the time runs out; the event loop runs what was answered
Spec ==
    /\ Init /\ [][Next]_vars
    /\ \A f \in Flow : WF_vars(Handle(f) \/ Lose(f)) /\ WF_vars(Continue(f))

(***************************************************************************)
(* Properties                                                              *)
(***************************************************************************)

Request == [bearer : Pair \cup {NoPair}, body : Pair \cup {NoPair}]
Waiting ==
    [at : {"idle", "call", "retry", "refresh", "leave", "releave", "login"},
     then : {"none", "call", "retry", "leave", "releave", "login"},
     call : Request, outer : Request, ans : {"none", "ok", "refused", "failed"},
     got : Pair \cup {NoPair}, asked : BOOLEAN]

\* Type invariant: an authenticated tab has tokens, and a flow that posts a
\* refresh token has one.
TypeOK ==
    /\ tokens \in Pair \cup {NoPair} /\ on \in BOOLEAN
    /\ on => tokens \in Pair
    /\ refreshing \in BOOLEAN
    /\ flow \in [Flow -> Waiting]
    /\ \A f \in Flow :
        /\ flow[f].at \in {"refresh", "leave", "releave"} => flow[f].call.body \in Pair
        /\ flow[f].then \in {"leave", "releave"} => flow[f].outer.body \in Pair
    /\ age \in [Pair -> {"unissued", "fresh", "soon", "expired"}]
    /\ rt \in [Pair -> {"unissued", "live", "revoked", "late"}]
    /\ banned \subseteq Pair
    /\ login \in [Pair -> Pair]
    /\ presented \subseteq Pair
    /\ calm \in BOOLEAN

\* isRefreshing is set exactly while one flow, and only one, is in
\* refreshAccessToken, on every way through success, failure, the logout that
\* follows it and the reload: it never stays set, which would end all refreshing
\* until the page is loaded again.
OneRefresh ==
    /\ refreshing <=> \E f \in Flow : Exchanging(f)
    /\ \A f, g \in Flow : Exchanging(f) /\ Exchanging(g) => f = g

\* A page never presents a refresh token twice, which the server would take for
\* reuse and answer by revoking every session of the user (auth.service.ts:670),
\* however its calls overlap and whatever answers are lost.
PresentedOnce ==
    [][\A f \in Flow :
        flow[f].at # "refresh" /\ flow'[f].at = "refresh" => flow'[f].call.body \notin presented]_vars

\* As long as calls do not overlap and nothing is lost, a tab is logged out only
\* when its user asks: refreshing at sixty seconds before the end, on 401 and in
\* the logout itself keeps the session (api.ts:29, api.ts:125).
SessionKept ==
    [][calm /\ on /\ ~on' => \E f \in Flow : flow[f].asked]_vars

\* Under the same conditions a logout that did not have to refresh leaves no
\* refresh token of its session live on the server (authStore.ts:107 "Call the API
\* to revoke the refresh token").
LogoutEndsSession ==
    [][\A f \in Flow :
        calm /\ on /\ ~on' /\ flow[f].at = "leave" /\ flow[f].call.body = tokens =>
            \A p \in Pair : login[p] = login[tokens] => rt'[p] # "live"]_vars

\* Every call comes to its end, the page staying or not, unless the server goes on
\* refusing a logout for ever: each refusal starts another (api.ts:141).
FlowEnds ==
    \A f \in Flow : []<>(flow[f].at = "idle") \/ []<><<LeaveRefused(f)>>_vars
=============================================================================
