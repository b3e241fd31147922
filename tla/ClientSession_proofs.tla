------------------------ MODULE ClientSession_proofs ------------------------
(***************************************************************************)
(* Proofs about ClientSession, for any number of calls and token pairs.    *)
(*                                                                         *)
(* Typed is inductive.  Steps sorts what a step does to flows, store and   *)
(* flag into a handful of kinds, by which OneRefresh and FreshInv are      *)
(* preserved: the first is inductive, the second implies that no token is  *)
(* presented twice.  Family says what the server knows of the tokens of    *)
(* one login; with it CalmInv, what an undisturbed session looks like at   *)
(* each await, is preserved as long as the session is undisturbed.         *)
(***************************************************************************)
EXTENDS ClientSession, TLAPS

(***************************************************************************)
(* Records                                                                 *)
(***************************************************************************)

Tokens == Pair \cup {NoPair}
Ats == {"idle", "call", "retry", "refresh", "leave", "releave", "login"}
Thens == {"none", "call", "retry", "leave", "releave", "login"}
Outcomes == {"none", "ok", "refused", "failed"}

LEMMA ReqFields ==
  ASSUME NEW bearer \in Tokens, NEW body \in Tokens
  PROVE  Req(bearer, body) \in Request /\ Req(bearer, body).body = body
                                       /\ Req(bearer, body).bearer = bearer
BY DEF Req, Request, Tokens

LEMMA RequestFields ==
  ASSUME NEW r \in Request
  PROVE  r.bearer \in Tokens /\ r.body \in Tokens
BY DEF Request, Tokens

LEMMA WaitingFields ==
  ASSUME NEW m \in Waiting
  PROVE  /\ m.at \in Ats /\ m.then \in Thens /\ m.call \in Request /\ m.outer \in Request
         /\ m.ans \in Outcomes /\ m.got \in Tokens /\ m.asked \in BOOLEAN
BY DEF Waiting, Ats, Thens, Outcomes, Tokens

LEMMA PromiseFields ==
  ASSUME NEW at \in Ats, NEW then \in Thens, NEW call \in Request, NEW outer \in Request,
         NEW ans \in Outcomes, NEW got \in Tokens, NEW asked \in BOOLEAN
  PROVE  LET m == Promise(at, then, call, outer, ans, got, asked)
         IN  /\ m \in Waiting /\ m.at = at /\ m.then = then /\ m.call = call /\ m.outer = outer
             /\ m.ans = ans /\ m.got = got /\ m.asked = asked
BY DEF Promise, Waiting, Ats, Thens, Outcomes, Tokens

LEMMA NoCallFields == NoCall \in Request /\ NoCall.body = NoPair
BY ReqFields DEF NoCall, Tokens

LEMMA IdleFields ==
  /\ Idle \in Waiting /\ Idle.at = "idle" /\ Idle.then = "none" /\ Idle.ans = "none"
  /\ Idle.got = NoPair /\ Idle.asked = FALSE
BY NoCallFields DEF Idle, Promise, Waiting

LEMMA WaitsFields ==
  ASSUME NEW at \in Ats, NEW then \in Thens, NEW call \in Request, NEW outer \in Request,
         NEW asked \in BOOLEAN
  PROVE  LET m == Waits(at, then, call, outer, asked)
         IN  /\ m \in Waiting /\ m.at = at /\ m.then = then /\ m.call = call /\ m.outer = outer
             /\ m.ans = "none" /\ m.got = NoPair /\ m.asked = asked
<1>1. "none" \in Outcomes /\ NoPair \in Tokens
  BY DEF Outcomes, Tokens
<1> QED BY <1>1, PromiseFields DEF Waits

LEMMA ToldFields ==
  ASSUME NEW m \in Waiting, NEW ans \in Outcomes, NEW got \in Tokens
  PROVE  LET n == Told(m, ans, got)
         IN  /\ n \in Waiting /\ n.at = m.at /\ n.then = m.then /\ n.call = m.call /\ n.outer = m.outer
             /\ n.ans = ans /\ n.got = got /\ n.asked = m.asked
BY WaitingFields, PromiseFields DEF Told

(***************************************************************************)
(* Types                                                                   *)
(***************************************************************************)

\* What a flow may look like.  Only a refresh, or the logout after one that failed,
\* has something that waits for it, and only a refresh and a login bring tokens.
Well(m) ==
    /\ m \in Waiting
    /\ m.at \in {"refresh", "leave", "releave"} => m.call.body \in Pair
    /\ m.then \in {"leave", "releave"} => m.outer.body \in Pair
    /\ m.at = "refresh" => m.then # "none"
    /\ m.at \notin {"refresh", "leave"} => m.then = "none"
    /\ m.at \in {"refresh", "login"} /\ m.ans = "ok" => m.got \in Pair

StoreTyped == tokens \in Tokens /\ on \in BOOLEAN /\ (on => tokens \in Pair)
PageTyped == refreshing \in BOOLEAN /\ presented \subseteq Pair /\ calm \in BOOLEAN
ServerTyped ==
    /\ age \in [Pair -> {"unissued", "fresh", "soon", "expired"}]
    /\ rt \in [Pair -> {"unissued", "live", "revoked", "late"}]
    /\ banned \subseteq Pair
    /\ login \in [Pair -> Pair]
FlowsWell == flow \in [Flow -> Waiting] /\ \A f \in Flow : Well(flow[f])

Typed == StoreTyped /\ PageTyped /\ ServerTyped /\ FlowsWell

LEMMA TypedType == Typed => TypeOK
BY DEF Typed, StoreTyped, PageTyped, ServerTyped, FlowsWell, Well, TypeOK, Tokens

LEMMA IdleWell == Well(Idle)
BY IdleFields DEF Well

\* What a step makes of flow f, the others as they were
To(f, m) == m \in Waiting /\ flow'[f] = m /\ flow' \in [Flow -> Waiting] /\ \A g \in Flow \ {f} : flow'[g] = flow[g]

LEMMA SetTo ==
  ASSUME FlowsWell, NEW f \in Flow, NEW m \in Waiting, Set(f, m)
  PROVE  To(f, m)
BY DEF FlowsWell, Set, To

LEMMA ToWell ==
  ASSUME FlowsWell, NEW f \in Flow, NEW m, To(f, m), Well(m)
  PROVE  FlowsWell'
BY DEF FlowsWell, To

(***************************************************************************)
(* What the steps do                                                       *)
(***************************************************************************)

\* A flow sends a request, a flow begins to refresh, and a flow is over
Asks(f, at, then, body, outer, asked) ==
    \E m \in Waiting :
        /\ To(f, m) /\ m.at = at /\ m.then = then /\ m.call.body = body /\ m.outer.body = outer
        /\ m.ans = "none" /\ m.got = NoPair /\ m.asked = asked

Refreshes(f, then, outer, asked) ==
    /\ ~refreshing /\ tokens \in Pair
    /\ Asks(f, "refresh", then, tokens, outer, asked)
    /\ refreshing' = TRUE
    /\ presented' = presented \cup {tokens}
    /\ UNCHANGED store

Still == UNCHANGED <<refreshing, presented>>

LEMMA AskWaits ==
  ASSUME Typed, NEW f \in Flow, NEW at \in Ats, NEW then \in Thens, NEW bearer \in Tokens,
         NEW body \in Tokens, NEW outer \in Request, NEW asked \in BOOLEAN,
         Set(f, Waits(at, then, Req(bearer, body), outer, asked))
  PROVE  Asks(f, at, then, body, outer.body, asked)
<1> DEFINE call == Req(bearer, body)
           m == Waits(at, then, call, outer, asked)
<1>1. call \in Request /\ call.body = body
  BY ReqFields
<1> HIDE DEF call
<1>2. /\ m \in Waiting /\ m.at = at /\ m.then = then /\ m.call = call /\ m.outer = outer
      /\ m.ans = "none" /\ m.got = NoPair /\ m.asked = asked
  BY <1>1, WaitsFields
<1>3. Set(f, m)
  BY DEF call
<1> HIDE DEF m
<1>4. To(f, m)
  BY <1>2, <1>3, SetTo DEF Typed
<1> QED BY <1>1, <1>2, <1>4 DEF Asks

LEMMA SendDoes ==
  ASSUME Typed, NEW f \in Flow, NEW at \in Ats \cap Thens, NEW body \in Tokens, NEW asked \in BOOLEAN,
         Send(f, at, "none", body, asked), UNCHANGED store
  PROVE  \/ Refreshes(f, at, body, asked)
         \/ /\ Asks(f, at, "none", body, NoPair, asked) /\ Still
            /\ tokens = NoPair \/ age[tokens] = "fresh" \/ refreshing
<1>1. tokens \in Tokens /\ "none" \in Thens /\ "refresh" \in Ats /\ NoPair \in Tokens
  BY DEF Typed, StoreTyped, Tokens, Ats, Thens
<1>2. CASE tokens # NoPair /\ age[tokens] # "fresh" /\ MayRefresh
  <2>1. /\ Set(f, Waits("refresh", at, Req(NoPair, tokens), Req(tokens, body), asked))
        /\ refreshing' = TRUE /\ presented' = presented \cup {tokens}
    BY <1>2 DEF Send
  <2>2. Req(tokens, body) \in Request /\ Req(tokens, body).body = body
    BY <1>1, ReqFields
  <2>3. Asks(f, "refresh", at, tokens, body, asked)
    BY <1>1, <2>1, <2>2, AskWaits
  <2> QED BY <1>1, <1>2, <2>1, <2>3 DEF Refreshes, MayRefresh, Tokens
<1>3. CASE ~(tokens # NoPair /\ age[tokens] # "fresh" /\ MayRefresh)
  <2>1. Set(f, Waits(at, "none", Req(tokens, body), NoCall, asked)) /\ Still
    BY <1>3 DEF Send, Still
  <2>2. Asks(f, at, "none", body, NoPair, asked)
    BY <1>1, <2>1, NoCallFields, AskWaits
  <2> QED BY <1>3, <2>1, <2>2 DEF MayRefresh
<1> QED BY <1>2, <1>3

LEMMA ExchangeDoes ==
  ASSUME Typed, NEW f \in Flow, NEW then \in Thens, NEW body \in Tokens, MayRefresh,
         Exchange(f, then, Req(NoPair, body)), UNCHANGED store
  PROVE  Refreshes(f, then, body, flow[f].asked)
<1>1. tokens \in Pair /\ "refresh" \in Ats /\ NoPair \in Tokens /\ tokens \in Tokens
  BY DEF Typed, StoreTyped, Tokens, Ats, MayRefresh
<1>2. flow[f].asked \in BOOLEAN
  BY WaitingFields DEF Typed, FlowsWell
<1>3. Req(NoPair, body) \in Request /\ Req(NoPair, body).body = body
  BY <1>1, ReqFields
<1>4. Asks(f, "refresh", then, tokens, body, flow[f].asked)
  BY <1>1, <1>2, <1>3, AskWaits DEF Exchange
<1> QED BY <1>1, <1>4 DEF Exchange, Refreshes, MayRefresh

\* The ways a flow may leave refreshAccessToken and logout, and start over
Stops(f) == To(f, Idle)

Goes(f) ==
    \/ Stops(f) /\ Clear /\ Still /\ ~on /\ (refreshing \/ tokens = NoPair)
    \/ /\ Asks(f, "leave", "none", tokens, NoPair, flow[f].asked) /\ Still /\ UNCHANGED store
       /\ on /\ refreshing

Returns(f) ==
    /\ Clear /\ refreshing' = FALSE /\ UNCHANGED presented
    /\ \/ /\ flow[f].then \in {"call", "leave", "login"}
          /\ Asks(f, flow[f].then, "none", flow[f].outer.body, NoPair, flow[f].asked)
       \/ Stops(f)

LEMMA FlowFields ==
  ASSUME Typed, NEW f \in Flow
  PROVE  LET m == flow[f]
         IN  /\ Well(m) /\ m.at \in Ats /\ m.then \in Thens /\ m.call \in Request /\ m.outer \in Request
             /\ m.call.body \in Tokens /\ m.outer.body \in Tokens
             /\ m.ans \in Outcomes /\ m.got \in Tokens /\ m.asked \in BOOLEAN
BY WaitingFields, RequestFields DEF Typed, FlowsWell

LEMMA StopsDoes ==
  ASSUME Typed, NEW f \in Flow, Ends(f)
  PROVE  Stops(f)
BY IdleFields, SetTo DEF Ends, Stops, Typed

LEMMA UnauthorizedDoes ==
  ASSUME Typed, NEW f \in Flow, NEW then \in Thens, Unauthorized(f, then)
  PROVE  Refreshes(f, then, flow[f].call.body, flow[f].asked) \/ Goes(f)
<1>1. flow[f].call.body \in Tokens /\ flow[f].asked \in BOOLEAN
  BY FlowFields
<1>2. tokens \in Tokens /\ (on => tokens \in Pair) /\ on \in BOOLEAN
  BY DEF Typed, StoreTyped
<1>3. CASE MayRefresh
  BY <1>1, <1>3, ExchangeDoes DEF Unauthorized
<1>4. CASE ~MayRefresh
  <2>1. CASE on
    <3>1. Send(f, "leave", "none", tokens, flow[f].asked) /\ UNCHANGED store
      BY <1>4, <2>1 DEF Unauthorized, Leave
    <3>2. refreshing
      BY <1>2, <1>4, <2>1, ClientSessionAssumption DEF MayRefresh, ClientSessionAssumption
    <3>3. "leave" \in Ats \cap Thens
      BY DEF Ats, Thens
    <3>4. Asks(f, "leave", "none", tokens, NoPair, flow[f].asked) /\ Still
      BY <1>1, <1>2, <3>1, <3>2, <3>3, SendDoes DEF Refreshes
    <3> QED BY <2>1, <3>1, <3>2, <3>4 DEF Goes
  <2>2. CASE ~on
    <3>1. Ends(f) /\ Clear /\ Still
      BY <1>4, <2>2 DEF Unauthorized, Leave, Still
    <3> QED BY <1>4, <2>2, <3>1, StopsDoes DEF Goes, MayRefresh
  <2> QED BY <2>1, <2>2
<1> QED BY <1>3, <1>4

LEMMA ReturnNullDoes ==
  ASSUME Typed, NEW f \in Flow, ReturnNull(f)
  PROVE  Returns(f)
<1>1. Clear /\ refreshing' = FALSE /\ UNCHANGED presented
  BY DEF ReturnNull
<1>2. CASE flow[f].then \in {"call", "leave", "login"}
  <2>1. PICK at \in Ats, none \in Thens, bearer \in Tokens, body \in Tokens :
          at = flow[f].then /\ none = "none" /\ flow[f].outer = Req(bearer, body)
          /\ body = flow[f].outer.body
    <3>1. flow[f].then \in Ats /\ "none" \in Thens
      BY <1>2 DEF Ats, Thens
    <3>2. PICK r \in Request : r = flow[f].outer
      BY FlowFields
    <3>3. r = Req(r.bearer, r.body) /\ r.bearer \in Tokens /\ r.body \in Tokens
      BY DEF Req, Request, Tokens
    <3> QED BY <3>1, <3>2, <3>3
  <2>2. Set(f, Waits(at, none, Req(bearer, body), NoCall, flow[f].asked))
    BY <1>2, <2>1 DEF ReturnNull
  <2>3. Asks(f, at, none, body, NoPair, flow[f].asked)
    BY <2>2, FlowFields, NoCallFields, AskWaits
  <2> QED BY <1>1, <1>2, <2>1, <2>3 DEF Returns
<1>3. CASE flow[f].then \notin {"call", "leave", "login"}
  BY <1>1, <1>3, StopsDoes DEF ReturnNull, Returns
<1> QED BY <1>2, <1>3

LEMMA LeaveExchangingDoes ==
  ASSUME Typed, NEW f \in Flow, LeaveExchanging(f)
  PROVE  \/ /\ on /\ Still /\ UNCHANGED store
            /\ Asks(f, "leave", flow[f].then, tokens, flow[f].outer.body, flow[f].asked)
         \/ ~on /\ Returns(f)
<1>1. tokens \in Tokens /\ "leave" \in Ats
  BY DEF Typed, StoreTyped, Ats
<1>2. CASE on
  <2>1. /\ Set(f, Waits("leave", flow[f].then, Req(tokens, tokens), flow[f].outer, flow[f].asked))
        /\ Still /\ UNCHANGED store
    BY <1>2 DEF LeaveExchanging, Still
  <2>2. Asks(f, "leave", flow[f].then, tokens, flow[f].outer.body, flow[f].asked)
    BY <1>1, <2>1, FlowFields, AskWaits
  <2> QED BY <1>2, <2>1, <2>2
<1>3. CASE ~on
  BY <1>3, ReturnNullDoes DEF LeaveExchanging
<1> QED BY <1>2, <1>3

LEMMA RefreshedDoes ==
  ASSUME Typed, NEW f \in Flow, Refreshed(f)
  PROVE  /\ flow[f].at = "refresh" /\ flow[f].ans = "ok" /\ flow[f].got \in Pair
         /\ tokens' = flow[f].got /\ on' = on /\ refreshing' = FALSE
         /\ UNCHANGED <<server, calm, presented>>
         /\ Asks(f, flow[f].then, "none", flow[f].outer.body, NoPair, flow[f].asked)
<1>1. /\ flow[f].at = "refresh" /\ flow[f].ans = "ok"
      /\ tokens' = flow[f].got /\ on' = on /\ refreshing' = FALSE
      /\ UNCHANGED <<server, calm, presented>>
      /\ Set(f, Waits(flow[f].then, "none", Req(flow[f].got, flow[f].outer.body), NoCall, flow[f].asked))
  BY DEF Refreshed, Answered
<1>2. flow[f].got \in Pair /\ flow[f].then # "none" /\ flow[f].then \in Thens
  BY <1>1, FlowFields DEF Well
<1>3. flow[f].then \in Ats /\ "none" \in Thens
  BY <1>2 DEF Ats, Thens
<1>4. Asks(f, flow[f].then, "none", flow[f].outer.body, NoPair, flow[f].asked)
  BY <1>1, <1>3, FlowFields, NoCallFields, AskWaits
<1> QED BY <1>1, <1>2, <1>4

(***************************************************************************)
(* Type correctness                                                        *)
(***************************************************************************)

LEMMA AsksWell ==
  ASSUME Typed, NEW f \in Flow, NEW at, NEW then, NEW body, NEW outer, NEW asked,
         Asks(f, at, then, body, outer, asked),
         at \in {"refresh", "leave", "releave"} => body \in Pair,
         then \in {"leave", "releave"} => outer \in Pair,
         at = "refresh" => then # "none",
         at \notin {"refresh", "leave"} => then = "none"
  PROVE  FlowsWell'
<1>1. PICK m \in Waiting :
        /\ To(f, m) /\ m.at = at /\ m.then = then /\ m.call.body = body /\ m.outer.body = outer
        /\ m.ans = "none"
  BY DEF Asks
<1>2. Well(m)
  BY <1>1 DEF Well
<1> QED BY <1>1, <1>2, ToWell DEF Typed

LEMMA StopsWell ==
  ASSUME Typed, NEW f \in Flow, Stops(f)
  PROVE  FlowsWell'
BY IdleFields, IdleWell, ToWell DEF Stops, Typed

LEMMA RefreshesTyped ==
  ASSUME Typed, NEW f \in Flow, NEW then, NEW outer, NEW asked, Refreshes(f, then, outer, asked),
         then # "none", then \in {"leave", "releave"} => outer \in Pair
  PROVE  FlowsWell' /\ StoreTyped' /\ refreshing' \in BOOLEAN /\ presented' \subseteq Pair
<1>1. FlowsWell'
  BY AsksWell DEF Refreshes
<1> QED BY <1>1 DEF Refreshes, store, StoreTyped, Typed, PageTyped

LEMMA SendTyped ==
  ASSUME Typed, NEW f \in Flow, NEW at \in Ats \cap Thens, NEW body \in Tokens, NEW asked \in BOOLEAN,
         Send(f, at, "none", body, asked), UNCHANGED store,
         at \in {"leave", "releave"} => body \in Pair
  PROVE  FlowsWell' /\ StoreTyped' /\ refreshing' \in BOOLEAN /\ presented' \subseteq Pair
<1>1. at # "none" /\ at # "refresh"
  BY DEF Ats, Thens
<1>2. CASE Refreshes(f, at, body, asked)
  BY <1>1, <1>2, RefreshesTyped
<1>3. CASE Asks(f, at, "none", body, NoPair, asked) /\ Still
  <2>1. FlowsWell'
    BY <1>1, <1>3, AsksWell
  <2> QED BY <1>3, <2>1 DEF Still, store, StoreTyped, Typed, PageTyped
<1> QED BY <1>2, <1>3, SendDoes

LEMMA GoesTyped ==
  ASSUME Typed, NEW f \in Flow, Goes(f)
  PROVE  FlowsWell' /\ StoreTyped' /\ refreshing' \in BOOLEAN /\ presented' \subseteq Pair
<1>1. CASE Stops(f) /\ Clear /\ Still
  BY <1>1, StopsWell DEF Clear, Still, StoreTyped, Typed, PageTyped, Tokens
<1>2. CASE /\ Asks(f, "leave", "none", tokens, NoPair, flow[f].asked) /\ Still /\ UNCHANGED store
           /\ on
  <2>1. FlowsWell'
    BY <1>2, AsksWell DEF Typed, StoreTyped
  <2> QED BY <1>2, <2>1 DEF Still, store, StoreTyped, Typed, PageTyped
<1> QED BY <1>1, <1>2 DEF Goes

LEMMA ReturnsTyped ==
  ASSUME Typed, NEW f \in Flow, Returns(f)
  PROVE  FlowsWell' /\ StoreTyped' /\ refreshing' \in BOOLEAN /\ presented' \subseteq Pair
<1>1. FlowsWell'
  <2>1. CASE Stops(f)
    BY <2>1, StopsWell
  <2>2. CASE /\ flow[f].then \in {"call", "leave", "login"}
             /\ Asks(f, flow[f].then, "none", flow[f].outer.body, NoPair, flow[f].asked)
    <3>1. flow[f].then = "leave" => flow[f].outer.body \in Pair
      BY FlowFields DEF Well
    <3> QED BY <2>2, <3>1, AsksWell
  <2> QED BY <2>1, <2>2 DEF Returns
<1> QED BY <1>1 DEF Returns, Clear, StoreTyped, Typed, PageTyped, Tokens

LEMMA LeaveExchangingTyped ==
  ASSUME Typed, NEW f \in Flow, LeaveExchanging(f)
  PROVE  FlowsWell' /\ StoreTyped' /\ refreshing' \in BOOLEAN /\ presented' \subseteq Pair
<1>1. CASE /\ on /\ Still /\ UNCHANGED store
           /\ Asks(f, "leave", flow[f].then, tokens, flow[f].outer.body, flow[f].asked)
  <2>1. flow[f].then \in {"leave", "releave"} => flow[f].outer.body \in Pair
    BY FlowFields DEF Well
  <2>2. FlowsWell'
    BY <1>1, <2>1, AsksWell DEF Typed, StoreTyped
  <2> QED BY <1>1, <2>2 DEF Still, store, StoreTyped, Typed, PageTyped
<1> QED BY <1>1, LeaveExchangingDoes, ReturnsTyped

LEMMA ContinueTyped ==
  ASSUME Typed, NEW f \in Flow, Continue(f)
  PROVE  Typed'
<1> DEFINE Good == FlowsWell' /\ StoreTyped' /\ refreshing' \in BOOLEAN /\ presented' \subseteq Pair
<1>1. ASSUME NEW then \in Thens \ {"none", "leave"}, Unauthorized(f, then),
             then = "releave" => flow[f].call.body \in Pair
      PROVE  Good
  BY <1>1, UnauthorizedDoes, RefreshesTyped, GoesTyped
<1>2. ASSUME CallRefused(f) PROVE Good
  <2>1. "retry" \in Thens \ {"none", "leave"}
    BY DEF Thens
  <2> QED BY <1>1, <1>2, <2>1 DEF CallRefused
<1>3. ASSUME LoginAnswered(f) PROVE Good
  <2>1. CASE flow[f].ans = "refused"
    <3>1. "retry" \in Thens \ {"none", "leave"}
      BY DEF Thens
    <3> QED BY <1>1, <1>3, <2>1, <3>1 DEF LoginAnswered
  <2>2. CASE flow[f].ans # "refused"
    <3>1. Ends(f) /\ Still /\ (flow[f].ans = "ok" => flow[f].got \in Pair)
      BY <1>3, <2>2, FlowFields DEF LoginAnswered, Still, Well, Answered
    <3>2. StoreTyped'
      BY <1>3, <2>2, <3>1 DEF LoginAnswered, store, StoreTyped, Typed, Tokens
    <3> QED BY <3>1, <3>2, StopsDoes, StopsWell DEF Still, Typed, PageTyped
  <2> QED BY <2>1, <2>2
<1>4. ASSUME Refreshed(f) PROVE Good
  <2>1. FlowsWell'
    <3>1. /\ flow[f].then # "none" /\ flow[f].then \in Thens
          /\ flow[f].then \in {"leave", "releave"} => flow[f].outer.body \in Pair
      BY <1>4, FlowFields, RefreshedDoes DEF Well
    <3>2. flow[f].then # "refresh"
      BY <3>1 DEF Thens
    <3>3. PICK at, body : at = flow[f].then /\ body = flow[f].outer.body
      OBVIOUS
    <3>4. Asks(f, at, "none", body, NoPair, flow[f].asked)
      BY <1>4, <3>3, RefreshedDoes
    <3>5. /\ at \in {"refresh", "leave", "releave"} => body \in Pair
          /\ "none" \notin {"leave", "releave"} /\ at # "refresh"
      BY <3>1, <3>2, <3>3
    <3> QED BY <3>4, <3>5, AsksWell
  <2> QED BY <1>4, <2>1, RefreshedDoes DEF StoreTyped, Typed, PageTyped, Tokens
<1>5. ASSUME RefreshFailed(f) PROVE Good
  BY <1>5, LeaveExchangingTyped DEF RefreshFailed
<1>6. ASSUME Ends(f), Clear, Still PROVE Good
  BY <1>6, StopsDoes, StopsWell DEF Clear, Still, StoreTyped, Typed, PageTyped, Tokens
<1>7. ASSUME Left(f) PROVE Good
  BY <1>6, <1>7, ReturnNullDoes, ReturnsTyped DEF Left, Still
<1>8. ASSUME LeaveRefused(f) PROVE Good
  <2>1. "releave" \in Thens \ {"none", "leave"}
    BY DEF Thens
  <2>2. flow[f].call.body \in Pair
    BY <1>8, FlowFields DEF Well, LeaveRefused, Answered
  <2> QED BY <1>1, <1>8, <2>1, <2>2, LeaveExchangingTyped DEF LeaveRefused
<1>9. ASSUME LeftAgain(f) PROVE Good
  BY <1>6, <1>9 DEF LeftAgain, Still
<1>10. UNCHANGED <<server, calm>>
  BY DEF Continue, CallRefused, LoginAnswered, Refreshed, RefreshFailed, Left, LeaveRefused, LeftAgain, Answered
<1>11. Good
  BY <1>2, <1>3, <1>4, <1>5, <1>7, <1>8, <1>9 DEF Continue
<1> QED BY <1>10, <1>11 DEF Typed, PageTyped, ServerTyped, server

\* The answer to a flow
Gets(f, ans, got) ==
    \E m \in Waiting :
        /\ To(f, m) /\ m.ans = ans /\ m.got = got
        /\ m.at = flow[f].at /\ m.then = flow[f].then /\ m.asked = flow[f].asked
        /\ m.call = flow[f].call /\ m.outer = flow[f].outer

LEMMA AnswersDoes ==
  ASSUME Typed, NEW f \in Flow, NEW ans \in Outcomes, Answers(f, ans)
  PROVE  IF Over(f, ans) THEN Stops(f) ELSE Gets(f, ans, NoPair)
<1>1. CASE Over(f, ans)
  BY <1>1, StopsDoes DEF Answers, Ends
<1>2. CASE ~Over(f, ans)
  <2>1. PICK m \in Waiting : m = Told(flow[f], ans, NoPair)
    BY ToldFields DEF Typed, FlowsWell, Tokens
  <2>2. Set(f, m)
    BY <1>2, <2>1 DEF Answers
  <2> QED BY <1>2, <2>1, <2>2, ToldFields, SetTo DEF Gets, Typed, FlowsWell, Tokens
<1> QED BY <1>1, <1>2

LEMMA GetsWell ==
  ASSUME Typed, NEW f \in Flow, NEW ans, NEW got, Gets(f, ans, got),
         flow[f].at \in {"refresh", "login"} /\ ans = "ok" => got \in Pair
  PROVE  FlowsWell'
<1>1. Well(flow[f])
  BY FlowFields
<1>2. PICK m \in Waiting :
        /\ To(f, m) /\ m.ans = ans /\ m.got = got
        /\ m.at = flow[f].at /\ m.then = flow[f].then /\ m.asked = flow[f].asked
        /\ m.call = flow[f].call /\ m.outer = flow[f].outer
  BY DEF Gets
<1>3. Well(m)
  BY <1>1, <1>2 DEF Well
<1> QED BY <1>2, <1>3, ToWell DEF Typed

LEMMA NewPairDoes ==
  ASSUME Typed, NEW f \in Flow, NEW q \in Pair, NEW root \in Pair, NewPair(f, q, root)
  PROVE  /\ Gets(f, "ok", q) /\ rt[q] = "unissued"
         /\ age' = [age EXCEPT ![q] = "fresh"] /\ login' = [login EXCEPT ![q] = root]
<1>1. "ok" \in Outcomes /\ q \in Tokens /\ flow[f] \in Waiting
  BY DEF Outcomes, Tokens, Typed, FlowsWell
<1>2. PICK m \in Waiting : m = Told(flow[f], "ok", q)
  BY <1>1, ToldFields
<1>3. Set(f, m)
  BY <1>2 DEF NewPair
<1>4. Gets(f, "ok", q)
  BY <1>1, <1>2, <1>3, ToldFields, SetTo DEF Gets, Typed
<1> QED BY <1>4 DEF NewPair

LEMMA AnswersWell ==
  ASSUME Typed, NEW f \in Flow, NEW ans \in Outcomes, Answers(f, ans),
         ans = "ok" => flow[f].at \notin {"refresh", "login"}
  PROVE  FlowsWell'
BY AnswersDoes, StopsWell, GetsWell

LEMMA HandleTyped ==
  ASSUME Typed, NEW f \in Flow, Handle(f)
  PROVE  Typed'
<1>1. StoreTyped' /\ PageTyped'
  BY DEF Handle, Typed, StoreTyped, PageTyped, store
<1>2. {"ok", "refused"} \subseteq Outcomes
  BY DEF Outcomes
<1>3. CASE Accept(f)
  BY <1>1, <1>2, <1>3, AnswersWell DEF Accept, Typed, ServerTyped, server
<1>4. CASE Refuse(f)
  BY <1>1, <1>2, <1>4, AnswersWell DEF Refuse, Typed, ServerTyped, server
<1>5. CASE AcceptLogout(f)
  <2>1. FlowsWell'
    BY <1>2, <1>5, AnswersWell DEF AcceptLogout
  <2>2. flow[f].call.bearer \in Pair
    BY <1>5, FlowFields, RequestFields DEF AcceptLogout, Valid, Tokens
  <2>3. ServerTyped'
    BY <1>5, <2>2 DEF AcceptLogout, Typed, ServerTyped
  <2> QED BY <1>1, <2>1, <2>3 DEF Typed
<1>6. CASE RefuseRotation(f)
  <2>1. FlowsWell'
    BY <1>2, <1>6, AnswersWell DEF RefuseRotation
  <2>2. ServerTyped'
    BY <1>6 DEF RefuseRotation, Typed, ServerTyped
  <2> QED BY <1>1, <2>1, <2>2 DEF Typed
<1>7. CASE TurnAway(f)
  BY <1>1, <1>2, <1>7, AnswersWell DEF TurnAway, Typed, ServerTyped, server
<1>8. ASSUME NEW q \in Pair, Rotate(f, q) PROVE Typed'
  <2>1. PICK root \in Pair : root = login[flow[f].call.body]
    BY <1>8, FlowFields DEF Rotate, Well, Typed, ServerTyped
  <2>2. NewPair(f, q, root)
    BY <1>8, <2>1 DEF Rotate
  <2>3. FlowsWell'
    BY <2>2, NewPairDoes, GetsWell
  <2>4. ServerTyped'
    BY <1>8, <2>2, NewPairDoes DEF Rotate, Typed, ServerTyped
  <2> QED BY <1>1, <2>3, <2>4 DEF Typed
<1>9. ASSUME NEW q \in Pair, Admit(f, q) PROVE Typed'
  <2>1. NewPair(f, q, q)
    BY <1>9 DEF Admit
  <2>2. FlowsWell'
    BY <2>1, NewPairDoes, GetsWell
  <2>3. ServerTyped'
    BY <1>9, <2>1, NewPairDoes DEF Admit, Typed, ServerTyped
  <2> QED BY <1>1, <2>2, <2>3 DEF Typed
<1> QED BY <1>3, <1>4, <1>5, <1>6, <1>7, <1>8, <1>9 DEF Handle

LEMMA StartTyped ==
  ASSUME Typed, NEW f \in Flow, Call(f) \/ LogOut(f) \/ LogIn(f)
  PROVE  Typed'
<1>1. {"call", "leave", "login"} \subseteq Ats \cap Thens /\ NoPair \in Tokens
      /\ TRUE \in BOOLEAN /\ FALSE \in BOOLEAN
  BY DEF Ats, Thens, Tokens
<1>2. Starts(f)
  BY DEF Call, LogOut, LogIn
<1>3. UNCHANGED <<store, server>> /\ calm' \in BOOLEAN
  BY <1>2 DEF Starts
<1>4. tokens \in Tokens /\ (on => tokens \in Pair)
  BY DEF Typed, StoreTyped
<1>5. FlowsWell' /\ StoreTyped' /\ refreshing' \in BOOLEAN /\ presented' \subseteq Pair
  BY <1>1, <1>3, <1>4, SendTyped DEF Call, LogOut, LogIn
<1> QED BY <1>3, <1>5 DEF Typed, PageTyped, ServerTyped, server

LEMMA NextTyped == Typed /\ [Next]_vars => Typed'
<1> SUFFICES ASSUME Typed, [Next]_vars PROVE Typed'
  OBVIOUS
<1>1. ASSUME NEW f \in Flow, Lose(f) PROVE Typed'
  <2>1. FlowsWell'
    BY <1>1, AnswersWell DEF Lose, Outcomes
  <2> QED BY <1>1, <2>1 DEF Lose, Typed, StoreTyped, PageTyped, ServerTyped, store, server
<1>2. ASSUME NEW p \in Pair, Age(p) PROVE Typed'
  BY <1>2 DEF Age, Typed, StoreTyped, PageTyped, ServerTyped, FlowsWell, store
<1>3. ASSUME NEW p \in Pair, Outlive(p) PROVE Typed'
  BY <1>3 DEF Outlive, Typed, StoreTyped, PageTyped, ServerTyped, FlowsWell, store
<1>4. CASE Reload
  <2>1. FlowsWell'
    BY <1>4, IdleFields, IdleWell DEF Reload, FlowsWell
  <2> QED BY <1>4, <2>1 DEF Reload, Typed, StoreTyped, PageTyped, ServerTyped, store, server
<1>5. CASE UNCHANGED vars
  BY <1>5 DEF vars, Typed, StoreTyped, PageTyped, ServerTyped, FlowsWell
<1> QED BY <1>1, <1>2, <1>3, <1>4, <1>5, StartTyped, HandleTyped, ContinueTyped DEF Next

LEMMA InitTyped == Init => Typed
<1> SUFFICES ASSUME Init PROVE Typed
  OBVIOUS
<1>1. FlowsWell
  BY IdleFields, IdleWell DEF Init, FlowsWell
<1> QED BY <1>1 DEF Init, Typed, StoreTyped, PageTyped, ServerTyped, Tokens

\* An authenticated tab has tokens and a flow that posts a refresh token has one,
\* for any number of calls and pairs of tokens (authStore.ts, api.ts).
THEOREM TypeCorrect == Spec => []TypeOK
BY InitTyped, NextTyped, TypedType, PTL DEF Spec

(***************************************************************************)
(* One refresh at a time, and no token presented twice                     *)
(***************************************************************************)

Issued(p) == rt[p] # "unissued"

Mono == \A p \in Pair : Issued(p) => rt'[p] # "unissued"

\* A flow begins to refresh, ...
Begins(f) ==
    /\ ~refreshing /\ tokens \in Pair /\ tokens' = tokens
    /\ refreshing' = TRUE /\ presented' = presented \cup {tokens}
    /\ LET m == flow'[f] IN m.at = "refresh" /\ m.call.body = tokens /\ m.got = NoPair

\* ... goes on, or has done with it, ...
Proceeds(f) ==
    /\ presented' = presented
    /\ \/ (Exchanging(f)' <=> Exchanging(f)) /\ refreshing' = refreshing
       \/ Exchanging(f) /\ ~Exchanging(f)' /\ refreshing' = FALSE
    /\ flow'[f].at = "refresh" => flow[f].at = "refresh"

\* ... with the tokens of the store, or none, ...
Keeps(f) ==
    /\ Proceeds(f)
    /\ tokens' \in {tokens, NoPair} /\ flow'[f].got \in {NoPair, flow[f].got}
    /\ refreshing /\ ~refreshing' => tokens' = NoPair

\* ... with those it was given, which it stores, ...
Takes(f) == Proceeds(f) /\ tokens' = flow[f].got /\ flow'[f].got = NoPair

\* ... or with new ones, which it is given
Brings(f) ==
    /\ Proceeds(f)
    /\ tokens' = tokens /\ refreshing' = refreshing
    /\ \E q \in Pair : flow'[f].got = q /\ ~Issued(q) /\ rt'[q] # "unissued"

FlowStep(f) ==
    /\ \A g \in Flow \ {f} : flow'[g] = flow[g]
    /\ Mono
    /\ Begins(f) \/ Keeps(f) \/ Takes(f) \/ Brings(f)

LEMMA RefreshesStep ==
  ASSUME NEW f \in Flow, NEW then, NEW outer, NEW asked, Refreshes(f, then, outer, asked), UNCHANGED rt
  PROVE  FlowStep(f)
BY DEF Refreshes, Asks, To, store, FlowStep, Begins, Mono, Issued

LEMMA AsksStep ==
  ASSUME NEW f \in Flow, NEW at, NEW body, NEW outer, NEW asked, at # "refresh",
         Asks(f, at, "none", body, outer, asked)
  PROVE  /\ \A g \in Flow \ {f} : flow'[g] = flow[g]
         /\ flow'[f].at = at /\ flow'[f].got = NoPair /\ ~Exchanging(f)'
BY DEF Asks, To, Exchanging

LEMMA StopsStep ==
  ASSUME NEW f \in Flow, Stops(f)
  PROVE  /\ \A g \in Flow \ {f} : flow'[g] = flow[g]
         /\ flow'[f].at = "idle" /\ flow'[f].got = NoPair /\ ~Exchanging(f)'
BY IdleFields DEF Stops, To, Exchanging

LEMMA SendStep ==
  ASSUME Typed, NEW f \in Flow, NEW at \in Ats \cap Thens, NEW body \in Tokens, NEW asked \in BOOLEAN,
         Send(f, at, "none", body, asked), UNCHANGED <<store, rt>>, ~Exchanging(f)
  PROVE  FlowStep(f)
<1>1. at # "refresh"
  BY DEF Thens
<1>2. CASE Refreshes(f, at, body, asked)
  BY <1>2, RefreshesStep
<1>3. CASE Asks(f, at, "none", body, NoPair, asked) /\ Still
  BY <1>1, <1>3, AsksStep DEF Still, store, FlowStep, Keeps, Proceeds, Mono, Issued
<1> QED BY <1>2, <1>3, SendDoes

LEMMA GoesStep ==
  ASSUME NEW f \in Flow, Goes(f), ~Exchanging(f), UNCHANGED rt
  PROVE  FlowStep(f)
<1>1. CASE Stops(f) /\ Clear /\ Still
  BY <1>1, StopsStep DEF Clear, Still, FlowStep, Keeps, Proceeds, Mono, Issued
<1>2. CASE Asks(f, "leave", "none", tokens, NoPair, flow[f].asked) /\ Still /\ UNCHANGED store
  BY <1>2, AsksStep DEF store, Still, FlowStep, Keeps, Proceeds, Mono, Issued
<1> QED BY <1>1, <1>2 DEF Goes

LEMMA ReturnsStep ==
  ASSUME NEW f \in Flow, Returns(f), Exchanging(f), UNCHANGED rt
  PROVE  FlowStep(f)
<1>1. /\ \A g \in Flow \ {f} : flow'[g] = flow[g]
      /\ flow'[f].at # "refresh" /\ flow'[f].got = NoPair /\ ~Exchanging(f)'
  <2>1. CASE Stops(f)
    BY <2>1, StopsStep
  <2>2. CASE /\ flow[f].then \in {"call", "leave", "login"}
             /\ Asks(f, flow[f].then, "none", flow[f].outer.body, NoPair, flow[f].asked)
    <3>1. PICK at, body, asked : at = flow[f].then /\ body = flow[f].outer.body /\ asked = flow[f].asked
      OBVIOUS
    <3>2. Asks(f, at, "none", body, NoPair, asked) /\ at # "refresh"
      BY <2>2, <3>1
    <3> QED BY <3>2, AsksStep
  <2> QED BY <2>1, <2>2 DEF Returns
<1> QED BY <1>1 DEF Returns, Clear, FlowStep, Keeps, Proceeds, Mono, Issued

LEMMA LeaveExchangingStep ==
  ASSUME Typed, NEW f \in Flow, LeaveExchanging(f), Exchanging(f), UNCHANGED rt
  PROVE  FlowStep(f)
<1>1. CASE /\ on /\ Still /\ UNCHANGED store
           /\ Asks(f, "leave", flow[f].then, tokens, flow[f].outer.body, flow[f].asked)
  <2>1. flow[f].then # "none"
    BY FlowFields DEF Well, Exchanging
  <2>2. /\ \A g \in Flow \ {f} : flow'[g] = flow[g]
        /\ flow'[f].at = "leave" /\ flow'[f].got = NoPair /\ Exchanging(f)'
    BY <1>1, <2>1 DEF Asks, To, Exchanging
  <2> QED BY <1>1, <2>2 DEF store, Still, FlowStep, Keeps, Proceeds, Mono, Issued
<1> QED BY <1>1, LeaveExchangingDoes, ReturnsStep

LEMMA ContinueStep ==
  ASSUME Typed, NEW f \in Flow, Continue(f)
  PROVE  FlowStep(f)
<1>1. UNCHANGED rt
  BY DEF Continue, CallRefused, LoginAnswered, Refreshed, RefreshFailed, Left, LeaveRefused, LeftAgain,
         Answered, server
<1>2. Well(flow[f])
  BY FlowFields
<1>3. ASSUME NEW then \in Thens, Unauthorized(f, then), ~Exchanging(f) PROVE FlowStep(f)
  BY <1>1, <1>3, UnauthorizedDoes, RefreshesStep, GoesStep
<1>4. "retry" \in Thens /\ "releave" \in Thens
  BY DEF Thens
<1>5. CASE CallRefused(f)
  BY <1>2, <1>3, <1>4, <1>5 DEF CallRefused, Answered, Well, Exchanging
<1>6. CASE LoginAnswered(f)
  <2>1. flow[f].at = "login" /\ ~Exchanging(f)
    BY <1>2, <1>6 DEF LoginAnswered, Answered, Well, Exchanging
  <2>2. CASE flow[f].ans = "refused"
    BY <1>3, <1>4, <1>6, <2>1, <2>2 DEF LoginAnswered
  <2>3. CASE flow[f].ans # "refused"
    <3>1. Ends(f) /\ Still /\ (tokens' = flow[f].got \/ tokens' = tokens)
      BY <1>6, <2>3 DEF LoginAnswered, Still, store
    <3>2. Stops(f)
      BY <3>1, StopsDoes
    <3> QED BY <1>1, <2>1, <3>1, <3>2, StopsStep DEF Still, FlowStep, Keeps, Takes, Proceeds, Mono, Issued
  <2> QED BY <2>2, <2>3
<1>7. CASE Refreshed(f)
  <2>1. PICK at, body, asked : at = flow[f].then /\ body = flow[f].outer.body /\ asked = flow[f].asked
    OBVIOUS
  <2>2. Asks(f, at, "none", body, NoPair, asked) /\ at # "refresh" /\ Exchanging(f)
    BY <1>7, <2>1, FlowFields, RefreshedDoes DEF Thens, Exchanging
  <2> QED BY <1>1, <1>7, <2>2, AsksStep, RefreshedDoes DEF FlowStep, Takes, Proceeds, Mono, Issued
<1>8. CASE RefreshFailed(f)
  BY <1>1, <1>8, LeaveExchangingStep DEF RefreshFailed, Answered, Exchanging
<1>9. ASSUME Ends(f), Clear, Still, ~Exchanging(f) PROVE FlowStep(f)
  BY <1>1, <1>9, StopsDoes, StopsStep DEF Clear, Still, FlowStep, Keeps, Proceeds, Mono, Issued
<1>10. CASE Left(f)
  BY <1>1, <1>9, <1>10, ReturnNullDoes, ReturnsStep DEF Left, Answered, Still, Exchanging
<1>11. CASE LeaveRefused(f)
  BY <1>1, <1>3, <1>4, <1>11, LeaveExchangingStep DEF LeaveRefused, Answered, Exchanging
<1>12. CASE LeftAgain(f)
  BY <1>2, <1>9, <1>12 DEF LeftAgain, Answered, Well, Still, Exchanging
<1> QED BY <1>5, <1>6, <1>7, <1>8, <1>10, <1>11, <1>12 DEF Continue

LEMMA AnswersStep ==
  ASSUME Typed, NEW f \in Flow, NEW ans \in Outcomes, Answers(f, ans), Mono,
         UNCHANGED <<store, refreshing, presented>>
  PROVE  FlowStep(f)
<1>1. Well(flow[f])
  BY FlowFields
<1>2. CASE Stops(f) /\ Over(f, ans)
  <2>1. ~Exchanging(f)
    BY <1>1, <1>2 DEF Over, Well, Exchanging
  <2> QED BY <1>2, <2>1, StopsStep DEF store, FlowStep, Keeps, Proceeds
<1>3. CASE Gets(f, ans, NoPair)
  BY <1>3 DEF Gets, To, Exchanging, store, FlowStep, Keeps, Proceeds
<1> QED BY <1>2, <1>3, AnswersDoes

LEMMA HandleStep ==
  ASSUME Typed, NEW f \in Flow, Handle(f)
  PROVE  FlowStep(f)
<1>1. UNCHANGED <<store, refreshing, presented>>
  BY DEF Handle
<1>2. {"ok", "refused"} \subseteq Outcomes
  BY DEF Outcomes
<1>3. ServerTyped
  BY DEF Typed
<1>4. CASE Accept(f) \/ Refuse(f) \/ TurnAway(f)
  <2>1. Mono
    BY <1>4 DEF Accept, Refuse, TurnAway, server, Mono, Issued
  <2> QED BY <1>1, <1>2, <1>4, <2>1, AnswersStep DEF Accept, Refuse, TurnAway
<1>5. CASE AcceptLogout(f)
  <2>1. Mono
    BY <1>3, <1>5 DEF AcceptLogout, ServerTyped, Mono, Issued
  <2> QED BY <1>1, <1>2, <1>5, <2>1, AnswersStep DEF AcceptLogout
<1>6. CASE RefuseRotation(f)
  <2>1. Mono
    BY <1>3, <1>6 DEF RefuseRotation, ServerTyped, Mono, Issued
  <2> QED BY <1>1, <1>2, <1>6, <2>1, AnswersStep DEF RefuseRotation
<1>7. ASSUME NEW q \in Pair, Gets(f, "ok", q), ~Issued(q), Mono, rt'[q] # "unissued"
      PROVE  FlowStep(f)
  BY <1>1, <1>7 DEF Gets, To, Exchanging, store, FlowStep, Brings, Proceeds
<1>8. ASSUME NEW q \in Pair, Rotate(f, q) PROVE FlowStep(f)
  <2>1. PICK b \in Pair : b = flow[f].call.body /\ rt[b] = "live"
    BY <1>8, FlowFields DEF Rotate, Well
  <2>2. PICK root \in Pair : NewPair(f, q, root)
    BY <1>3, <1>8, <2>1 DEF Rotate, ServerTyped
  <2>3. rt' = [rt EXCEPT ![b] = "revoked", ![q] = "live"]
    BY <1>8, <2>1 DEF Rotate
  <2> QED BY <1>3, <1>7, <2>2, <2>3, NewPairDoes DEF ServerTyped, Mono, Issued
<1>9. ASSUME NEW q \in Pair, Admit(f, q) PROVE FlowStep(f)
  <2>1. NewPair(f, q, q) /\ rt' = [rt EXCEPT ![q] = "live"]
    BY <1>9 DEF Admit
  <2> QED BY <1>3, <1>7, <2>1, NewPairDoes DEF ServerTyped, Mono, Issued
<1> QED BY <1>4, <1>5, <1>6, <1>8, <1>9 DEF Handle

LEMMA StartStep ==
  ASSUME Typed, NEW f \in Flow, Call(f) \/ LogOut(f) \/ LogIn(f)
  PROVE  FlowStep(f)
<1>1. {"call", "leave", "login"} \subseteq Ats \cap Thens /\ NoPair \in Tokens
      /\ TRUE \in BOOLEAN /\ FALSE \in BOOLEAN
  BY DEF Ats, Thens, Tokens
<1>2. Starts(f)
  BY DEF Call, LogOut, LogIn
<1>3. UNCHANGED <<store, rt>> /\ ~Exchanging(f)
  BY <1>2, FlowFields DEF Starts, server, Well, Exchanging
<1>4. tokens \in Tokens
  BY DEF Typed, StoreTyped
<1> QED BY <1>1, <1>3, <1>4, SendStep DEF Call, LogOut, LogIn

\* Every step is one of a flow, or leaves flows, store and flag alone, or loads the
\* page anew
Passes == Mono /\ UNCHANGED <<tokens, refreshing, flow, presented>>

LEMMA Steps ==
  ASSUME Typed, [Next]_vars
  PROVE  (\E f \in Flow : FlowStep(f)) \/ Passes \/ Reload
<1>1. ASSUME NEW f \in Flow, Lose(f) PROVE FlowStep(f)
  BY <1>1, AnswersStep DEF Lose, Outcomes, server, Mono, Issued
<1>2. ASSUME NEW p \in Pair, Age(p) PROVE Passes
  BY <1>2 DEF Age, store, Passes, Mono, Issued
<1>3. ASSUME NEW p \in Pair, Outlive(p) PROVE Passes
  BY <1>3 DEF Outlive, store, Passes, Mono, Issued, Typed, ServerTyped
<1>4. CASE UNCHANGED vars
  BY <1>4 DEF vars, Passes, Mono, Issued
<1> QED BY <1>1, <1>2, <1>3, <1>4, StartStep, HandleStep, ContinueStep DEF Next

LEMMA OneRefreshStep ==
  ASSUME Typed, OneRefresh, [Next]_vars
  PROVE  OneRefresh'
<1>1. ASSUME NEW f \in Flow, FlowStep(f) PROVE OneRefresh'
  <2>1. \A g \in Flow \ {f} : Exchanging(g)' <=> Exchanging(g)
    BY <1>1 DEF FlowStep, Exchanging
  <2>2. CASE Begins(f)
    <3>1. Exchanging(f)' /\ \A g \in Flow : ~Exchanging(g)
      BY <2>2 DEF Begins, Exchanging, OneRefresh
    <3> QED BY <2>1, <2>2, <3>1 DEF Begins, OneRefresh
  <2>3. CASE Proceeds(f)
    <3>1. CASE (Exchanging(f)' <=> Exchanging(f)) /\ refreshing' = refreshing
      <4>1. \A g \in Flow : Exchanging(g)' <=> Exchanging(g)
        BY <2>1, <3>1
      <4> QED BY <3>1, <4>1 DEF OneRefresh
    <3>2. CASE Exchanging(f) /\ ~Exchanging(f)' /\ refreshing' = FALSE
      <4>1. \A g \in Flow : ~Exchanging(g)'
        BY <2>1, <3>2 DEF OneRefresh
      <4> QED BY <3>2, <4>1 DEF OneRefresh
    <3> QED BY <2>3, <3>1, <3>2 DEF Proceeds
  <2> QED BY <1>1, <2>2, <2>3 DEF FlowStep, Keeps, Takes, Brings
<1>2. CASE Passes
  BY <1>2 DEF Passes, OneRefresh, Exchanging
<1>3. CASE Reload
  BY <1>3, IdleFields DEF Reload, OneRefresh, Exchanging
<1> QED BY <1>1, <1>2, <1>3, Steps

\* isRefreshing is set exactly while one call is in refreshAccessToken, for any
\* number of calls: no way through it leaves the flag set (authStore.ts).
THEOREM OneRefreshCorrect == Spec => []OneRefresh
<1>1. Init => OneRefresh
  BY IdleFields DEF Init, OneRefresh, Exchanging
<1> QED BY <1>1, InitTyped, NextTyped, OneRefreshStep, PTL DEF Spec

\* The tokens of the store have not been presented but by the refresh under way; those
\* on the way to the store are new, and each on the way once.
FreshInv ==
    /\ refreshing \/ tokens \notin presented
    /\ \A p \in presented : Issued(p)
    /\ tokens # NoPair => Issued(tokens)
    /\ \A f \in Flow : flow[f].got # NoPair =>
        Issued(flow[f].got) /\ flow[f].got \notin presented /\ flow[f].got # tokens
    /\ \A f, g \in Flow : flow[f].got = flow[g].got /\ flow[f].got # NoPair => f = g

LEMMA FreshStep ==
  ASSUME Typed, FreshInv, [Next]_vars
  PROVE  FreshInv'
<1>1. /\ \A f \in Flow : flow[f].got \in Pair \cup {NoPair}
      /\ tokens \in Pair \cup {NoPair} /\ presented \subseteq Pair /\ NoPair \notin Pair
  BY FlowFields, ClientSessionAssumption
  DEF Typed, StoreTyped, PageTyped, ClientSessionAssumption, Tokens
<1>2. ASSUME NEW f \in Flow, FlowStep(f) PROVE FreshInv'
  <2>1. Mono /\ \A g \in Flow \ {f} : flow'[g] = flow[g]
    BY <1>2 DEF FlowStep
  <2>2. CASE Begins(f)
    BY <1>1, <2>1, <2>2 DEF Begins, FreshInv, Mono, Issued
  <2>3. CASE Keeps(f)
    <3>1. /\ presented' = presented /\ tokens' \in {tokens, NoPair}
          /\ flow'[f].got \in {NoPair, flow[f].got} /\ (refreshing /\ ~refreshing' => tokens' = NoPair)
      BY <2>3 DEF Keeps, Proceeds
    <3>2. refreshing' \/ tokens' \notin presented'
      BY <1>1, <3>1 DEF FreshInv
    <3>3. /\ \A p \in presented' : rt'[p] # "unissued"
          /\ tokens' # NoPair => rt'[tokens'] # "unissued"
      BY <1>1, <2>1, <3>1 DEF FreshInv, Mono
    <3>4. \A g \in Flow : flow'[g].got \in {NoPair, flow[g].got}
      BY <2>1, <3>1
    <3>5. ASSUME NEW g \in Flow, flow'[g].got # NoPair
          PROVE  rt'[flow'[g].got] # "unissued" /\ flow'[g].got \notin presented' /\ flow'[g].got # tokens'
      BY <1>1, <2>1, <3>1, <3>4, <3>5 DEF FreshInv, Mono
    <3>6. \A g, h \in Flow : flow'[g].got = flow'[h].got /\ flow'[g].got # NoPair => g = h
      BY <3>4 DEF FreshInv
    <3> QED BY <3>2, <3>3, <3>5, <3>6 DEF FreshInv, Issued
  <2>4. CASE Takes(f)
    <3>1. presented' = presented /\ tokens' = flow[f].got /\ flow'[f].got = NoPair
      BY <2>4 DEF Takes, Proceeds
    <3>2. tokens' \notin presented' /\ (tokens' # NoPair => rt'[tokens'] # "unissued")
      BY <1>1, <2>1, <3>1 DEF FreshInv, Mono
    <3>3. \A p \in presented' : rt'[p] # "unissued"
      BY <1>1, <2>1, <3>1 DEF FreshInv, Mono
    <3>4. ASSUME NEW g \in Flow, flow'[g].got # NoPair
          PROVE  rt'[flow'[g].got] # "unissued" /\ flow'[g].got \notin presented' /\ flow'[g].got # tokens'
      <4>1. g # f /\ flow'[g] = flow[g]
        BY <2>1, <3>1, <3>4
      <4> QED BY <1>1, <2>1, <3>1, <3>4, <4>1 DEF FreshInv, Mono
    <3>5. \A g, h \in Flow : flow'[g].got = flow'[h].got /\ flow'[g].got # NoPair => g = h
      BY <2>1, <3>1 DEF FreshInv
    <3> QED BY <3>2, <3>3, <3>4, <3>5 DEF FreshInv, Issued
  <2>5. CASE Brings(f)
    <3>1. PICK q \in Pair : /\ flow'[f].got = q /\ ~Issued(q) /\ rt'[q] # "unissued"
                            /\ presented' = presented /\ tokens' = tokens /\ refreshing' = refreshing
      BY <2>5 DEF Brings, Proceeds
    <3>2. q \notin presented /\ q # tokens /\ \A g \in Flow : flow[g].got # q
      BY <1>1, <3>1 DEF FreshInv
    <3>3. /\ refreshing' \/ tokens' \notin presented'
          /\ \A p \in presented' : rt'[p] # "unissued"
          /\ tokens' # NoPair => rt'[tokens'] # "unissued"
      BY <1>1, <2>1, <3>1 DEF FreshInv, Mono
    <3>4. ASSUME NEW g \in Flow, flow'[g].got # NoPair
          PROVE  rt'[flow'[g].got] # "unissued" /\ flow'[g].got \notin presented' /\ flow'[g].got # tokens'
      <4>1. CASE g = f
        BY <3>1, <3>2, <4>1
      <4>2. CASE g # f
        BY <1>1, <2>1, <3>1, <3>4, <4>2 DEF FreshInv, Mono
      <4> QED BY <4>1, <4>2
    <3>5. \A g, h \in Flow : flow'[g].got = flow'[h].got /\ flow'[g].got # NoPair => g = h
      BY <2>1, <3>1, <3>2 DEF FreshInv
    <3> QED BY <3>3, <3>4, <3>5 DEF FreshInv, Issued
  <2> QED BY <1>2, <2>2, <2>3, <2>4, <2>5 DEF FlowStep
<1>3. CASE Passes
  BY <1>1, <1>3 DEF Passes, FreshInv, Mono, Issued
<1>4. CASE Reload
  BY <1>4, IdleFields DEF Reload, store, server, FreshInv, Issued
<1> QED BY <1>2, <1>3, <1>4, Steps

\* A page never presents a refresh token twice, for any number of calls and pairs
\* of tokens and whatever answers are lost (refreshAccessToken).
THEOREM PresentedOnceCorrect == Spec => PresentedOnce
<1>1. Init => FreshInv
  BY IdleFields DEF Init, FreshInv
<1>2. Typed /\ FreshInv /\ [Next]_vars =>
        [\A f \in Flow :
            flow[f].at # "refresh" /\ flow'[f].at = "refresh" => flow'[f].call.body \notin presented]_vars
  <2> SUFFICES ASSUME Typed, FreshInv, [Next]_vars, NEW f \in Flow,
                      flow[f].at # "refresh", flow'[f].at = "refresh"
               PROVE  flow'[f].call.body \notin presented
    OBVIOUS
  <2>1. ASSUME NEW g \in Flow, FlowStep(g) PROVE flow'[f].call.body \notin presented
    <3>1. g = f
      BY <2>1 DEF FlowStep
    <3>2. Begins(f)
      BY <2>1, <3>1 DEF FlowStep, Keeps, Takes, Brings, Proceeds
    <3> QED BY <3>2 DEF Begins, FreshInv
  <2>2. ~Passes
    BY DEF Passes
  <2>3. ~Reload
    BY IdleFields DEF Reload
  <2> QED BY <2>1, <2>2, <2>3, Steps
<1> QED BY <1>1, <1>2, InitTyped, NextTyped, FreshStep, PTL DEF Spec, PresentedOnce

(***************************************************************************)
(* A session undisturbed                                                   *)
(***************************************************************************)

Live(p) == p \in Pair /\ rt[p] = "live"

\* Of the refresh tokens that descend from one login at most one is live
Family ==
    /\ \A p \in Pair : login[p] # p => Issued(login[p])
    /\ \A p, q \in Pair : Live(p) /\ Live(q) /\ login[p] = login[q] => p = q

\* None of those is live from which p descends, or that descend with it
Ended(p) == \A q \in Pair : login[q] = login[p] => ~Live(q)

AtRest == (on /\ Live(tokens)) \/ (~on /\ tokens = NoPair)

\* The flow of a page that does one thing at a time, where nothing is lost: the
\* store's token is live, or it is about to be replaced by one that is
Session(m) ==
    /\ m.ans # "failed"
    /\ m.at \in {"call", "retry"} => m.asked = FALSE /\ on /\ Live(tokens)
    /\ m.at = "login" => /\ m.asked = FALSE /\ ~on /\ tokens = NoPair
                         /\ m.ans = "ok" => Live(m.got)
    /\ m.at = "refresh" => /\ on
                           /\ \/ m.then \in {"call", "retry"} /\ m.asked = FALSE
                              \/ m.then \in {"leave", "releave"} /\ m.asked = TRUE
                           /\ \/ m.ans = "none" /\ m.call.body = tokens /\ Live(tokens)
                              \/ m.ans = "ok" /\ Live(m.got)
    /\ m.at = "leave" => /\ m.asked = TRUE /\ on /\ m.then = "none"
                         /\ m.ans # "ok" => Live(tokens)
                         /\ m.ans = "ok" /\ m.call.body = tokens => Ended(tokens)
    /\ m.at = "releave" => m.asked = TRUE

CalmInv ==
    /\ \A f, g \in Flow : flow[f].at # "idle" /\ flow[g].at # "idle" => f = g
    /\ \A f \in Flow : Session(flow[f])
    /\ (\A f \in Flow : flow[f].at = "idle") => AtRest

LEMMA FamilyStep ==
  ASSUME Typed, Family, [Next]_vars
  PROVE  Family'
<1>1. /\ rt \in [Pair -> {"unissued", "live", "revoked", "late"}] /\ login \in [Pair -> Pair]
  BY DEF Typed, ServerTyped
<1>2. ASSUME UNCHANGED login, Mono, \A p \in Pair : rt'[p] = "live" => rt[p] = "live" PROVE Family'
  <2>1. \A p \in Pair : login[p] # p => rt'[login[p]] # "unissued"
    BY <1>1, <1>2 DEF Family, Mono, Issued
  <2>2. \A p, q \in Pair : rt'[p] = "live" /\ rt'[q] = "live" /\ login[p] = login[q] => p = q
    BY <1>2 DEF Family, Live
  <2> QED BY <1>2, <2>1, <2>2 DEF Family, Issued, Live
<1>3. ASSUME NEW f \in Flow, Handle(f) PROVE Family'
  <2>1. CASE Accept(f) \/ Refuse(f) \/ TurnAway(f)
    BY <1>2, <2>1 DEF Accept, Refuse, TurnAway, server, Mono, Issued
  <2>2. CASE AcceptLogout(f)
    BY <1>1, <1>2, <2>2 DEF AcceptLogout, Mono, Issued
  <2>3. CASE RefuseRotation(f)
    BY <1>1, <1>2, <2>3 DEF RefuseRotation, Mono, Issued
  <2>4. ASSUME NEW q \in Pair, Rotate(f, q) PROVE Family'
    <3>1. PICK b \in Pair : b = flow[f].call.body /\ rt[b] = "live"
      BY <2>4, FlowFields DEF Rotate, Well
    <3>2. /\ rt[q] = "unissued" /\ login' = [login EXCEPT ![q] = login[b]]
          /\ rt' = [rt EXCEPT ![b] = "revoked", ![q] = "live"]
      BY <2>4, <3>1 DEF Rotate, NewPair
    <3>3. b # q /\ Issued(b) /\ Issued(login[b]) /\ login[b] \in Pair
      BY <1>1, <3>1, <3>2 DEF Family, Issued
    <3>4. /\ rt'[q] = "live" /\ rt'[b] = "revoked" /\ login'[q] = login[b]
          /\ \A p \in Pair \ {b, q} : rt'[p] = rt[p]
          /\ \A p \in Pair \ {q} : login'[p] = login[p]
      BY <1>1, <3>2, <3>3
    <3>5. \A p \in Pair : rt[p] # "unissued" => rt'[p] # "unissued"
      BY <3>4
    <3>6. \A p \in Pair : login'[p] # p => rt'[login'[p]] # "unissued"
      BY <1>1, <3>3, <3>4, <3>5 DEF Family, Issued
    <3>7. \A p \in Pair : rt'[p] = "live" => p = q \/ (p # b /\ rt[p] = "live" /\ login'[p] = login[p])
      BY <3>4
    <3>8. \A p, r \in Pair : rt'[p] = "live" /\ rt'[r] = "live" /\ login'[p] = login'[r] => p = r
      BY <3>1, <3>4, <3>7 DEF Family, Live
    <3> QED BY <3>6, <3>8 DEF Family, Issued, Live
  <2>5. ASSUME NEW q \in Pair, Admit(f, q) PROVE Family'
    <3>1. /\ rt[q] = "unissued" /\ login' = [login EXCEPT ![q] = q] /\ rt' = [rt EXCEPT ![q] = "live"]
      BY <2>5 DEF Admit, NewPair
    <3>2. /\ rt'[q] = "live" /\ login'[q] = q
          /\ \A p \in Pair \ {q} : rt'[p] = rt[p] /\ login'[p] = login[p]
      BY <1>1, <3>1
    <3>3. \A p \in Pair \ {q} : login[p] # q
      BY <3>1 DEF Family, Issued
    <3>4. \A p \in Pair : login'[p] # p => rt'[login'[p]] # "unissued"
      BY <1>1, <3>2 DEF Family, Issued
    <3>5. \A p, r \in Pair : rt'[p] = "live" /\ rt'[r] = "live" /\ login'[p] = login'[r] => p = r
      BY <1>1, <3>2, <3>3 DEF Family, Live
    <3> QED BY <3>4, <3>5 DEF Family, Issued, Live
  <2> QED BY <1>3, <2>1, <2>2, <2>3, <2>4, <2>5 DEF Handle
<1>4. ASSUME NEW f \in Flow, Call(f) \/ LogOut(f) \/ LogIn(f) \/ Lose(f) \/ Continue(f) PROVE Family'
  <2>1. UNCHANGED server
    BY <1>4 DEF Call, LogOut, LogIn, Starts, Lose, Continue, CallRefused, LoginAnswered, Refreshed,
                RefreshFailed, Left, LeaveRefused, LeftAgain, Answered
  <2> QED BY <1>2, <2>1 DEF server, Mono, Issued
<1>5. ASSUME NEW p \in Pair, Age(p) PROVE Family'
  BY <1>2, <1>5 DEF Age, Mono, Issued
<1>6. ASSUME NEW p \in Pair, Outlive(p) PROVE Family'
  BY <1>1, <1>2, <1>6 DEF Outlive, Mono, Issued
<1>7. CASE Reload \/ UNCHANGED vars
  BY <1>2, <1>7 DEF Reload, vars, server, Mono, Issued
<1> QED BY <1>3, <1>4, <1>5, <1>6, <1>7 DEF Next

\* Only flow f is, or begins to be, under way
LEMMA CalmKept ==
  ASSUME Typed, CalmInv, NEW f \in Flow, NEW m, To(f, m), \A g \in Flow \ {f} : flow[g].at = "idle",
         Session(m)', m.at = "idle" => AtRest'
  PROVE  CalmInv'
<1>1. \A g \in Flow \ {f} : flow'[g] = flow[g] /\ flow'[g].at = "idle" /\ flow'[g].ans # "failed"
  BY DEF To, CalmInv, Session
<1>2. flow'[f] = m
  BY DEF To
<1>3. \A g \in Flow \ {f} : Session(flow[g])'
  BY <1>1 DEF Session
<1>4. \A g, h \in Flow : flow'[g].at # "idle" /\ flow'[h].at # "idle" => g = h
  BY <1>1
<1>5. \A g \in Flow : Session(flow[g])'
  BY <1>2, <1>3 DEF Session, Live, Ended
<1>6. (\A g \in Flow : flow'[g].at = "idle") => AtRest'
  BY <1>2
<1> QED BY <1>4, <1>5, <1>6 DEF CalmInv

LEMMA StopCalm ==
  ASSUME Typed, CalmInv, NEW f \in Flow, Stops(f), \A g \in Flow \ {f} : flow[g].at = "idle", AtRest'
  PROVE  CalmInv'
<1>1. Session(Idle)'
  BY IdleFields DEF Session
<1> QED BY <1>1, CalmKept DEF Stops

LEMMA ClearRest == Clear => AtRest'
BY DEF Clear, AtRest

LEMMA AsksCalm ==
  ASSUME Typed, CalmInv, NEW f \in Flow, \A g \in Flow \ {f} : flow[g].at = "idle",
         NEW at, NEW then, NEW body, NEW outer, NEW asked, Asks(f, at, then, body, outer, asked),
         at \in {"call", "retry", "refresh", "leave", "releave", "login"},
         at \in {"call", "retry"} => asked = FALSE /\ on' /\ Live(tokens)',
         at = "login" => asked = FALSE /\ ~on' /\ tokens' = NoPair,
         at = "refresh" => /\ on' /\ body = tokens' /\ Live(tokens)'
                           /\ \/ then \in {"call", "retry"} /\ asked = FALSE
                              \/ then \in {"leave", "releave"} /\ asked = TRUE,
         at = "leave" => asked = TRUE /\ on' /\ then = "none" /\ Live(tokens)',
         at = "releave" => asked = TRUE
  PROVE  CalmInv'
<1>1. PICK m \in Waiting :
        /\ To(f, m) /\ m.at = at /\ m.then = then /\ m.call.body = body
        /\ m.ans = "none" /\ m.asked = asked
  BY DEF Asks
<1>2. Session(m)'
  BY <1>1 DEF Session
<1>3. m.at # "idle"
  BY <1>1
<1> QED BY <1>1, <1>2, <1>3, CalmKept

\* A refresh of a live token
LEMMA RefreshesCalm ==
  ASSUME Typed, CalmInv, NEW f \in Flow, \A g \in Flow \ {f} : flow[g].at = "idle", UNCHANGED rt,
         NEW then, NEW outer, NEW asked, Refreshes(f, then, outer, asked), on, Live(tokens),
         \/ then \in {"call", "retry"} /\ asked = FALSE
         \/ then \in {"leave", "releave"} /\ asked = TRUE
  PROVE  CalmInv' /\ on'
<1>1. on' = on /\ tokens' = tokens
  BY DEF Refreshes, store
<1>2. on' /\ Live(tokens)'
  BY <1>1 DEF Live
<1>3. PICK body : body = tokens
  OBVIOUS
<1>4. Asks(f, "refresh", then, body, outer, asked)
  BY <1>3 DEF Refreshes
<1> QED BY <1>1, <1>2, <1>3, <1>4, AsksCalm

LEMMA CalmStart ==
  ASSUME Typed, CalmInv, NEW f \in Flow, Call(f) \/ LogOut(f) \/ LogIn(f),
         \A g \in Flow : flow[g].at = "idle"
  PROVE  CalmInv'
<1>1. /\ {"call", "leave", "login"} \subseteq Ats \cap Thens /\ NoPair \in Tokens
      /\ TRUE \in BOOLEAN /\ FALSE \in BOOLEAN
  BY DEF Ats, Thens, Tokens
<1>2. UNCHANGED store /\ UNCHANGED rt
  BY DEF Call, LogOut, LogIn, Starts, server
<1>3. AtRest /\ tokens \in Tokens
  BY DEF CalmInv, Typed, StoreTyped
<1>4. CASE Call(f)
  <2>1. on /\ Live(tokens) /\ on' /\ Live(tokens)'
    BY <1>2, <1>3, <1>4 DEF Call, AtRest, store, Live
  <2>2. CASE Refreshes(f, "call", NoPair, FALSE)
    BY <1>2, <2>1, <2>2, RefreshesCalm
  <2>3. CASE Asks(f, "call", "none", NoPair, NoPair, FALSE)
    BY <2>1, <2>3, AsksCalm
  <2> QED BY <1>1, <1>2, <1>4, <2>2, <2>3, SendDoes DEF Call
<1>5. CASE LogOut(f)
  <2>1. on /\ Live(tokens) /\ on' /\ Live(tokens)'
    BY <1>2, <1>3, <1>5 DEF LogOut, AtRest, store, Live
  <2>2. PICK body \in Tokens : body = tokens
    BY <1>3
  <2>3. CASE Refreshes(f, "leave", body, TRUE)
    BY <1>2, <2>1, <2>3, RefreshesCalm
  <2>4. CASE Asks(f, "leave", "none", body, NoPair, TRUE)
    BY <2>1, <2>4, AsksCalm
  <2> QED BY <1>1, <1>2, <1>5, <2>2, <2>3, <2>4, SendDoes DEF LogOut
<1>6. CASE LogIn(f)
  <2>1. ~on /\ tokens = NoPair /\ ~on' /\ tokens' = NoPair
    BY <1>2, <1>3, <1>6 DEF LogIn, AtRest, store
  <2>2. ~Refreshes(f, "login", NoPair, FALSE)
    BY <2>1, ClientSessionAssumption DEF Refreshes, ClientSessionAssumption
  <2>3. CASE Asks(f, "login", "none", NoPair, NoPair, FALSE)
    BY <2>1, <2>3, AsksCalm
  <2> QED BY <1>1, <1>2, <1>6, <2>2, <2>3, SendDoes DEF LogIn
<1> QED BY <1>4, <1>5, <1>6

\* A flow under way is the only one
LEMMA Alone ==
  ASSUME CalmInv, NEW f \in Flow, flow[f].at # "idle"
  PROVE  /\ \A g \in Flow \ {f} : flow[g].at = "idle"
         /\ Session(flow[f])
BY DEF CalmInv

LEMMA GetsCalm ==
  ASSUME Typed, CalmInv, NEW f \in Flow, NEW ans, NEW got, Gets(f, ans, got), flow[f].at # "idle",
         flow[f].ans = "none", ans # "failed", UNCHANGED store,
         flow[f].at \in {"call", "retry"} => Live(tokens)',
         flow[f].at \in {"refresh", "login"} /\ ans = "ok" => Live(got)',
         flow[f].at = "refresh" => ans = "ok",
         flow[f].at = "leave" /\ ans # "ok" => Live(tokens)',
         flow[f].at = "leave" /\ ans = "ok" /\ flow[f].call.body = tokens => Ended(tokens)'
  PROVE  CalmInv'
<1>1. PICK m \in Waiting :
        /\ To(f, m) /\ m.ans = ans /\ m.got = got
        /\ m.at = flow[f].at /\ m.then = flow[f].then /\ m.asked = flow[f].asked
        /\ m.call = flow[f].call /\ m.outer = flow[f].outer
  BY DEF Gets
<1>2. (\A g \in Flow \ {f} : flow[g].at = "idle") /\ Session(flow[f])
  BY Alone
<1>3. on' = on /\ tokens' = tokens
  BY DEF store
<1>4. Session(m)'
  BY <1>1, <1>2, <1>3 DEF Session
<1> QED BY <1>1, <1>2, <1>4, CalmKept

LEMMA CalmHandle ==
  ASSUME Typed, CalmInv, Family, NEW f \in Flow, Handle(f)
  PROVE  CalmInv'
<1>1. /\ UNCHANGED store /\ on' = on /\ tokens' = tokens /\ flow[f].ans = "none"
  BY DEF Handle, store
<1>2. {"ok", "refused"} \subseteq Outcomes /\ "ok" # "failed" /\ "refused" # "failed"
  BY DEF Outcomes
<1>3. flow[f].at # "idle"
  BY DEF Handle, Accept, Refuse, AcceptLogout, RefuseRotation, TurnAway, Rotate, Admit
<1>4. (\A g \in Flow \ {f} : flow[g].at = "idle") /\ Session(flow[f])
  BY <1>3, Alone
<1>5. /\ rt \in [Pair -> {"unissued", "live", "revoked", "late"}] /\ login \in [Pair -> Pair]
      /\ tokens \in Tokens /\ NoPair \notin Pair
  BY ClientSessionAssumption DEF Typed, ServerTyped, StoreTyped, ClientSessionAssumption
<1>6. flow[f].at \in {"call", "retry", "leave"} \/ flow[f].at = "refresh" => Live(tokens) /\ on
  BY <1>1, <1>4 DEF Session
<1>7. ASSUME NEW ans \in Outcomes, ans # "failed", Answers(f, ans), UNCHANGED server,
             flow[f].at \in {"call", "retry", "leave", "releave"} \/ (flow[f].at = "login" /\ ans = "refused"),
             flow[f].at = "leave" => ans # "ok"
      PROVE  CalmInv'
  <2>1. Live(tokens) => Live(tokens)'
    BY <1>1, <1>7 DEF Live, server
  <2>2. CASE Over(f, ans)
    <3>1. AtRest'
      BY <1>1, <1>6, <2>1, <2>2 DEF Over, AtRest
    <3> QED BY <1>4, <1>7, <2>2, <3>1, AnswersDoes, StopCalm
  <2>3. CASE ~Over(f, ans)
    <3>1. Gets(f, ans, NoPair)
      BY <1>7, <2>3, AnswersDoes
    <3> QED BY <1>1, <1>3, <1>6, <1>7, <2>1, <3>1, GetsCalm
  <2> QED BY <2>2, <2>3
<1>8. CASE Accept(f)
  BY <1>2, <1>7, <1>8 DEF Accept
<1>9. CASE Refuse(f)
  BY <1>2, <1>7, <1>9 DEF Refuse
<1>10. CASE TurnAway(f)
  BY <1>2, <1>7, <1>10 DEF TurnAway
<1>11. CASE AcceptLogout(f)
  <2>1. ~Over(f, "ok") /\ flow[f].at \in {"leave", "releave"}
    BY <1>11 DEF AcceptLogout, Over
  <2>2. Gets(f, "ok", NoPair)
    BY <1>2, <1>11, <2>1, AnswersDoes DEF AcceptLogout
  <2>3. ASSUME flow[f].at = "leave", flow[f].call.body = tokens PROVE Ended(tokens)'
    <3>1. Live(tokens)
      BY <1>6, <2>3
    <3>2. rt' = [rt EXCEPT ![tokens] = "revoked"] /\ login' = login
      BY <1>11, <2>3 DEF AcceptLogout
    <3>3. \A q \in Pair : login[q] = login[tokens] => rt'[q] # "live"
      BY <1>5, <3>1, <3>2 DEF Family, Live
    <3> QED BY <1>1, <3>2, <3>3 DEF Ended, Live
  <2> QED BY <1>1, <1>2, <1>3, <2>1, <2>2, <2>3, GetsCalm
<1>12. CASE RefuseRotation(f)
  BY <1>1, <1>4, <1>12 DEF RefuseRotation, Session, Live
<1>13. ASSUME NEW q \in Pair, Gets(f, "ok", q), flow[f].at \in {"refresh", "login"}, rt'[q] = "live"
       PROVE  CalmInv'
  <2>1. Live(q)'
    BY <1>13 DEF Live
  <2> QED BY <1>1, <1>2, <1>3, <1>13, <2>1, GetsCalm
<1>14. ASSUME NEW q \in Pair, Rotate(f, q) PROVE CalmInv'
  <2>1. PICK root \in Pair : NewPair(f, q, root)
    BY <1>5, <1>14, FlowFields DEF Rotate, Well
  <2>2. rt'[q] = "live" /\ flow[f].at = "refresh"
    BY <1>5, <1>14 DEF Rotate
  <2> QED BY <1>13, <2>1, <2>2, NewPairDoes
<1>15. ASSUME NEW q \in Pair, Admit(f, q) PROVE CalmInv'
  <2>1. NewPair(f, q, q) /\ rt'[q] = "live" /\ flow[f].at = "login"
    BY <1>5, <1>15 DEF Admit
  <2> QED BY <1>13, <2>1, NewPairDoes
<1> QED BY <1>8, <1>9, <1>10, <1>11, <1>12, <1>14, <1>15 DEF Handle

\* The client takes an answer: a session that ends was to end, and has ended on the
\* server first
LEMMA CalmContinue ==
  ASSUME Typed, OneRefresh, CalmInv, NEW f \in Flow, Continue(f)
  PROVE  /\ CalmInv'
         /\ on /\ ~on' => /\ flow[f].asked = TRUE
                          /\ (flow[f].at = "leave" => flow[f].ans = "ok")
<1> DEFINE Good == /\ CalmInv'
                   /\ on /\ ~on' => /\ flow[f].asked = TRUE
                                    /\ (flow[f].at = "leave" => flow[f].ans = "ok")
<1>1. flow[f].at # "idle" /\ UNCHANGED rt
  BY DEF Continue, CallRefused, LoginAnswered, Refreshed, RefreshFailed, Left, LeaveRefused, LeftAgain,
         Answered, server
<1>2. (\A g \in Flow \ {f} : flow[g].at = "idle") /\ Session(flow[f]) /\ Well(flow[f])
  BY <1>1, Alone, FlowFields
<1>3. \A g \in Flow \ {f} : flow[g].then = "none"
  BY <1>2, FlowFields DEF Well
<1>4. refreshing => Exchanging(f)
  BY <1>2, <1>3 DEF OneRefresh, Exchanging
<1>5. PICK asked : asked = flow[f].asked
  OBVIOUS
<1>6. ASSUME NEW then \in Thens, Unauthorized(f, then), on, Live(tokens), ~Exchanging(f),
             then \in {"retry", "releave"}, then = "retry" => asked = FALSE, then = "releave" => asked = TRUE
      PROVE  Good
  <2>1. MayRefresh
    BY <1>4, <1>6, ClientSessionAssumption DEF MayRefresh, Live, ClientSessionAssumption
  <2>2. PICK outer : outer = flow[f].call.body
    OBVIOUS
  <2>3. Refreshes(f, then, outer, asked)
    BY <1>5, <1>6, <2>1, <2>2, FlowFields, ExchangeDoes DEF Unauthorized
  <2>4. \/ then \in {"call", "retry"} /\ asked = FALSE
        \/ then \in {"leave", "releave"} /\ asked = TRUE
    <3>1. CASE then = "retry"
      <4>1. asked = FALSE
        BY <1>6, <3>1
      <4> QED BY <3>1, <4>1
    <3>2. CASE then = "releave"
      <4>1. asked = TRUE
        BY <1>6, <3>2
      <4> QED BY <3>2, <4>1
    <3> QED BY <1>6, <3>1, <3>2
  <2>5. CalmInv' /\ on'
    BY <1>1, <1>2, <1>6, <2>3, <2>4, RefreshesCalm
  <2> QED BY <2>5
<1>7. ASSUME CallRefused(f) PROVE Good
  <2>1. flow[f].at = "call" /\ "retry" \in Thens /\ Unauthorized(f, "retry")
    BY <1>7 DEF CallRefused, Answered, Thens
  <2>2. on /\ Live(tokens) /\ ~Exchanging(f) /\ asked = FALSE
    BY <1>2, <1>5, <2>1 DEF Session, Well, Exchanging
  <2>3. "retry" \in {"retry", "releave"} /\ "retry" # "releave"
    OBVIOUS
  <2> QED BY <1>6, <2>1, <2>2, <2>3
<1>8. ASSUME Stops(f), AtRest', on /\ ~on' => flow[f].asked = TRUE, flow[f].at = "leave" => flow[f].ans = "ok"
      PROVE  Good
  BY <1>2, <1>8, StopCalm
<1>9. ASSUME LoginAnswered(f) PROVE Good
  <2>1. flow[f].at = "login" /\ ~on /\ tokens = NoPair
    BY <1>2, <1>9 DEF LoginAnswered, Answered, Session
  <2>2. CASE flow[f].ans = "refused"
    <3>1. Ends(f) /\ Clear
      BY <1>9, <2>1, <2>2 DEF LoginAnswered, Unauthorized, MayRefresh, Leave
    <3> QED BY <1>8, <2>1, <3>1, StopsDoes, ClearRest
  <2>3. CASE flow[f].ans # "refused"
    <3>1. flow[f].ans = "ok" /\ Live(flow[f].got)
      BY <1>2, <1>9, <2>1, <2>3 DEF LoginAnswered, Answered, Session
    <3>2. Ends(f) /\ tokens' = flow[f].got /\ on' = TRUE
      BY <1>9, <2>3, <3>1 DEF LoginAnswered
    <3>3. AtRest'
      BY <1>1, <3>1, <3>2 DEF AtRest, Live
    <3> QED BY <1>8, <2>1, <3>2, <3>3, StopsDoes
  <2> QED BY <2>2, <2>3
<1>10. ASSUME Refreshed(f) PROVE Good
  <2>1. /\ flow[f].at = "refresh" /\ flow[f].ans = "ok" /\ tokens' = flow[f].got /\ on' = on
        /\ Asks(f, flow[f].then, "none", flow[f].outer.body, NoPair, flow[f].asked)
    BY <1>10, RefreshedDoes
  <2>2. /\ on /\ Live(flow[f].got)
        /\ \/ flow[f].then \in {"call", "retry"} /\ flow[f].asked = FALSE
           \/ flow[f].then \in {"leave", "releave"} /\ flow[f].asked = TRUE
    BY <1>2, <2>1 DEF Session
  <2>3. on' /\ Live(tokens)'
    BY <1>1, <2>1, <2>2 DEF Live
  <2>4. PICK at, body : at = flow[f].then /\ body = flow[f].outer.body
    OBVIOUS
  <2>5. Asks(f, at, "none", body, NoPair, asked)
    BY <1>5, <2>1, <2>4
  <2>6. \/ at \in {"call", "retry"} /\ asked = FALSE
        \/ at \in {"leave", "releave"} /\ asked = TRUE
    <3>1. CASE at \in {"call", "retry"} /\ flow[f].asked = FALSE
      <4>1. asked = FALSE
        BY <1>5, <3>1
      <4> QED BY <3>1, <4>1
    <3>2. CASE at \in {"leave", "releave"} /\ flow[f].asked = TRUE
      <4>1. asked = TRUE
        BY <1>5, <3>2
      <4> QED BY <3>2, <4>1
    <3> QED BY <2>2, <2>4, <3>1, <3>2
  <2>7. CalmInv'
    BY <1>2, <2>3, <2>5, <2>6, AsksCalm
  <2> QED BY <2>3, <2>7
<1>11. ~RefreshFailed(f)
  BY <1>2 DEF RefreshFailed, Answered, Session
<1>12. ASSUME Left(f) PROVE Good
  <2>1. flow[f].at = "leave" /\ flow[f].then = "none" /\ flow[f].ans = "ok" /\ flow[f].asked = TRUE
    BY <1>2, <1>12 DEF Left, Answered, Session
  <2>2. Ends(f) /\ Clear
    BY <1>12, <2>1 DEF Left
  <2> QED BY <1>8, <2>1, <2>2, StopsDoes, ClearRest
<1>13. ASSUME LeaveRefused(f) PROVE Good
  <2>1. flow[f].at = "leave" /\ flow[f].ans = "refused"
    BY <1>13 DEF LeaveRefused, Answered
  <2>2. on /\ Live(tokens) /\ ~Exchanging(f) /\ asked = TRUE
    BY <1>2, <1>5, <2>1 DEF Session, Exchanging
  <2>3. Unauthorized(f, "releave") /\ "releave" \in Thens
    BY <1>13, <2>2 DEF LeaveRefused, Exchanging, Thens
  <2> QED BY <1>6, <2>2, <2>3
<1>14. ASSUME LeftAgain(f) PROVE Good
  <2>1. flow[f].at = "releave" /\ flow[f].asked = TRUE /\ Ends(f) /\ Clear
    BY <1>2, <1>14 DEF LeftAgain, Answered, Session
  <2> QED BY <1>8, <2>1, StopsDoes, ClearRest
<1> QED BY <1>7, <1>9, <1>10, <1>11, <1>12, <1>13, <1>14 DEF Continue

LEMMA CalmStep ==
  ASSUME Typed, OneRefresh, Family, calm => CalmInv, [Next]_vars
  PROVE  calm' => CalmInv'
<1> SUFFICES ASSUME calm' PROVE CalmInv'
  OBVIOUS
<1>1. ASSUME NEW f \in Flow, Call(f) \/ LogOut(f) \/ LogIn(f) PROVE CalmInv'
  BY <1>1, CalmStart DEF Call, LogOut, LogIn, Starts
<1>2. ASSUME NEW f \in Flow, Handle(f) PROVE CalmInv'
  BY <1>2, CalmHandle DEF Handle
<1>3. ASSUME NEW f \in Flow, Continue(f) PROVE CalmInv'
  <2>1. calm' = calm
    BY <1>3 DEF Continue, CallRefused, LoginAnswered, Refreshed, RefreshFailed, Left, LeaveRefused,
                LeftAgain, Answered
  <2> QED BY <1>3, <2>1, CalmContinue
<1>4. ASSUME UNCHANGED <<store, flow, rt, login, calm>> PROVE CalmInv'
  BY <1>4 DEF store, CalmInv, Session, AtRest, Live, Ended
<1>5. ASSUME NEW p \in Pair, Age(p) PROVE CalmInv'
  BY <1>4, <1>5 DEF Age
<1>6. CASE Reload
  <2>1. AtRest
    BY <1>6 DEF Reload, CalmInv
  <2>2. AtRest'
    BY <1>6, <2>1 DEF Reload, store, server, AtRest, Live
  <2>3. \A f \in Flow : flow'[f] = Idle
    BY <1>6 DEF Reload
  <2>4. Session(Idle)'
    BY IdleFields DEF Session
  <2> QED BY <2>2, <2>3, <2>4, IdleFields DEF CalmInv, Session, Live, Ended
<1>7. CASE UNCHANGED vars
  BY <1>4, <1>7 DEF vars, store
<1> QED BY <1>1, <1>2, <1>3, <1>5, <1>6, <1>7 DEF Next, Lose, Outlive

LEMMA InitCalm == Init => Family /\ CalmInv
<1> SUFFICES ASSUME Init PROVE Family /\ CalmInv
  OBVIOUS
<1>1. Family
  BY DEF Init, Family, Live, Issued
<1>2. Session(Idle) /\ AtRest
  BY IdleFields DEF Init, Session, AtRest
<1>3. \A f \in Flow : flow[f] = Idle
  BY DEF Init
<1> QED BY <1>1, <1>2, <1>3, IdleFields DEF CalmInv

\* Only what the client does with an answer ends a session
LEMMA EndsOnly ==
  ASSUME Typed, OneRefresh, calm => CalmInv, [Next]_vars, calm, on, ~on'
  PROVE  \E f \in Flow : /\ Continue(f) /\ flow[f].asked = TRUE
                         /\ (flow[f].at = "leave" => flow[f].ans = "ok")
<1>1. \E f \in Flow : Continue(f)
  BY DEF Next, vars, Call, LogOut, LogIn, Starts, Handle, Lose, Age, Outlive, Reload, store
<1> QED BY <1>1, CalmContinue

\* A tab whose calls do not overlap and lose nothing is logged out only by its
\* user, for any number of calls and pairs of tokens (the interceptors of api.ts,
\* refreshAccessToken).
THEOREM SessionKeptCorrect == Spec => SessionKept
<1>1. Typed /\ OneRefresh /\ (calm => CalmInv) /\ [Next]_vars =>
        [calm /\ on /\ ~on' => \E f \in Flow : flow[f].asked]_vars
  BY EndsOnly
<1>2. Init => OneRefresh
  BY IdleFields DEF Init, OneRefresh, Exchanging
<1>3. Typed /\ OneRefresh /\ Family /\ (calm => CalmInv) /\ [Next]_vars => (calm => CalmInv)'
  BY CalmStep
<1>4. Init => (calm => CalmInv)
  BY InitCalm
<1> QED BY <1>1, <1>2, <1>3, <1>4, InitTyped, NextTyped, OneRefreshStep, InitCalm, FamilyStep, PTL
        DEF Spec, SessionKept

\* Such a tab's logout, when it has not refreshed on the way, leaves no refresh
\* token of the session live on the server (logout of authStore.ts and
\* auth.service.ts).
THEOREM LogoutEndsSessionCorrect == Spec => LogoutEndsSession
<1>1. Typed /\ OneRefresh /\ (calm => CalmInv) /\ [Next]_vars =>
        [\A f \in Flow :
            calm /\ on /\ ~on' /\ flow[f].at = "leave" /\ flow[f].call.body = tokens =>
                \A p \in Pair : login[p] = login[tokens] => rt'[p] # "live"]_vars
  <2> SUFFICES ASSUME Typed, OneRefresh, calm => CalmInv, [Next]_vars, NEW f \in Flow,
                      calm, on, ~on', flow[f].at = "leave", flow[f].call.body = tokens,
                      NEW p \in Pair, login[p] = login[tokens]
               PROVE  rt'[p] # "live"
    OBVIOUS
  <2>1. PICK g \in Flow : Continue(g) /\ (flow[g].at = "leave" => flow[g].ans = "ok")
    BY EndsOnly
  <2>2. flow[g].at # "idle" /\ rt' = rt
    BY <2>1 DEF Continue, CallRefused, LoginAnswered, Refreshed, RefreshFailed, Left, LeaveRefused,
                LeftAgain, Answered, server
  <2>3. g = f
    BY <2>2 DEF CalmInv
  <2>4. Ended(tokens)
    BY <2>1, <2>3 DEF CalmInv, Session
  <2> QED BY <2>2, <2>4 DEF Ended, Live
<1>2. Init => OneRefresh
  BY IdleFields DEF Init, OneRefresh, Exchanging
<1>3. Typed /\ OneRefresh /\ Family /\ (calm => CalmInv) /\ [Next]_vars => (calm => CalmInv)'
  BY CalmStep
<1>4. Init => (calm => CalmInv)
  BY InitCalm
<1> QED BY <1>1, <1>2, <1>3, <1>4, InitTyped, NextTyped, OneRefreshStep, InitCalm, FamilyStep, PTL
        DEF Spec, LogoutEndsSession
=============================================================================
