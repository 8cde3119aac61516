--------------------------- MODULE UpstreamProxy ---------------------------
(***************************************************************************)
(* The loopback session the proxy holds with DSH (src/upstream-auth.ts)    *)
(* and the HTTP requests forwarded with it (forwardHttp of src/proxy.ts):  *)
(* one exchange of the launch token for a cookie, shared by the requests   *)
(* that need one, and one retry of a safe request answered 401.            *)
(*                                                                         *)
(* The upstream is not part of the repository: it takes a launch token     *)
(* while it is the one on offer, and a cookie of the present epoch; a      *)
(* restart changes both, and it may also just forget its cookies.          *)
(***************************************************************************)
EXTENDS Integers, FiniteSets

CONSTANTS
    Requests,  \* forwarded HTTP requests under way
    Safe,      \* those of them that are GET or HEAD
    Exchanges, \* names for token exchanges on the wire
    None,      \* no session, no exchange
    Faults,    \* the faults that may happen
    MaxFaults  \* bound: faults in a run

FaultKinds == {"restart", "forget", "age", "exchange", "request", "leave",
               "seam"}

ASSUME ProxyAssumption ==
    /\ Safe \subseteq Requests
    /\ None \notin Exchanges
    /\ Faults \subseteq FaultKinds
    /\ MaxFaults \in Nat

VARIABLES
    launch,    \* the launch token the upstream offers, named by the epoch
               \* in which it began to
    epoch,     \* the epoch whose cookies it accepts
    session,   \* #session
    inflight,  \* #inflight: the exchange that callers share
    exchanges, \* the exchanges on the wire
    requests,  \* the requests being forwarded
    tries,     \* history: how often each was sent upstream
    effects,   \* history: how often the upstream carried each out
    faults     \* faults so far

vars == <<launch, epoch, session, inflight, exchanges, requests, tries,
          effects, faults>>

Session == [token : Nat, epoch : Nat, fresh : BOOLEAN]

Exchange == [id : Exchanges, token : Nat, epoch : Nat,
             stage : {"sent", "minted"}]

Over == {"idle", "ok", "unauthorized", "unavailable", "left"}

Request ==
    [pc : Over]
      \cup [pc : {"waiting"}, on : Exchanges, token : Nat, retry : BOOLEAN,
            gone : BOOLEAN]
      \cup [pc : {"sent"}, token : Nat, epoch : Nat, retry : BOOLEAN,
            gone : BOOLEAN]
      \cup [pc : {"reply"}, accepted : BOOLEAN, retry : BOOLEAN,
            gone : BOOLEAN]

End(answer) == [pc |-> answer]

Init ==
    /\ launch = 0
    /\ epoch = 0
    /\ session = None
    /\ inflight = None
    /\ exchanges = {}
    /\ requests = [r \in Requests |-> End("idle")]
    /\ tries = [r \in Requests |-> 0]
    /\ effects = [r \in Requests |-> 0]
    /\ faults = 0

Fault(kind) ==
    /\ kind \in Faults
    /\ faults < MaxFaults
    /\ faults' = faults + 1

----------------------------------------------------------------------------
(* cookieHeader *)

\* #isFresh: minted from the token on offer now, and not about to expire.
IsFresh(s) == s # None /\ s.token = launch /\ s.fresh

Sent(cookie, mayRetry, gone) ==
    [pc |-> "sent", token |-> cookie.token, epoch |-> cookie.epoch,
     retry |-> mayRetry, gone |-> gone]

Waiting(x, mayRetry, gone) ==
    [pc |-> "waiting", on |-> x, token |-> launch, retry |-> mayRetry,
     gone |-> gone]

\* A fresh session is used at once; otherwise the request joins the exchange
\* in flight or starts one.  `held` is the session as the caller finds it and
\* `gone` says that the visitor has left.
CookieHeader(r, held, mayRetry, gone) ==
    \/ /\ IsFresh(held)
       /\ requests' = [requests EXCEPT ![r] = Sent(held, mayRetry, gone)]
       /\ UNCHANGED <<inflight, exchanges>>
    \/ /\ ~IsFresh(held)
       /\ inflight # None
       /\ requests' = [requests EXCEPT ![r] =
              Waiting(inflight, mayRetry, gone)]
       /\ UNCHANGED <<inflight, exchanges>>
    \/ /\ ~IsFresh(held)
       /\ inflight = None
       /\ \E x \in Exchanges :
             /\ \A e \in exchanges : e.id # x
             /\ inflight' = x
             /\ exchanges' = exchanges \cup
                   {[id |-> x, token |-> launch, epoch |-> 0, stage |-> "sent"]}
             /\ requests' = [requests EXCEPT ![r] = Waiting(x, mayRetry, gone)]

\* A request the gate allowed.
Forward(r) ==
    /\ requests[r].pc \in Over
    /\ CookieHeader(r, session, TRUE, FALSE)
    /\ tries' = [tries EXCEPT ![r] = IF IsFresh(session) THEN 1 ELSE 0]
    /\ effects' = [effects EXCEPT ![r] = 0]
    /\ UNCHANGED <<launch, epoch, session, faults>>

\* The seam offers no launch token: the request is answered 502.
ForwardWithoutToken(r) ==
    /\ Fault("seam")
    /\ requests[r].pc \in Over
    /\ requests' = [requests EXCEPT ![r] = End("unavailable")]
    /\ tries' = [tries EXCEPT ![r] = 0]
    /\ effects' = [effects EXCEPT ![r] = 0]
    /\ UNCHANGED <<launch, epoch, session, inflight, exchanges>>

----------------------------------------------------------------------------
(* #exchange *)

\* The upstream: 303 with a cookie for the token on offer.
Mint(e) ==
    /\ e \in exchanges
    /\ e.stage = "sent"
    /\ e.token = launch
    /\ exchanges' = (exchanges \ {e})
                      \cup {[e EXCEPT !.stage = "minted", !.epoch = epoch]}
    /\ UNCHANGED <<launch, epoch, session, inflight, requests, tries, effects,
                   faults>>

WaitsOn(r, e) == requests[r].pc = "waiting" /\ requests[r].on = e.id

\* finally: the shared promise is forgotten, whatever came of it.
ExchangeOver(e) ==
    /\ exchanges' = exchanges \ {e}
    /\ inflight' = IF inflight = e.id THEN None ELSE inflight

\* Mutant: the session is filed under the token on offer now.
Established_Now(e) == [token |-> launch, epoch |-> e.epoch, fresh |-> TRUE]

\* The session is filed under the token the caller read before the exchange.
Established(e) == [token |-> e.token, epoch |-> e.epoch, fresh |-> TRUE]

\* The cookie arrives: every request that shares the exchange is sent with it,
\* those whose visitor has left meanwhile too.
ExchangeDone(e) ==
    /\ e \in exchanges
    /\ e.stage = "minted"
    /\ ExchangeOver(e)
    /\ session' = Established(e)
    /\ requests' = [r \in Requests |->
          IF WaitsOn(r, e)
          THEN Sent(Established(e), requests[r].retry, requests[r].gone)
          ELSE requests[r]]
    /\ tries' = [r \in Requests |->
          IF WaitsOn(r, e) THEN tries[r] + 1 ELSE tries[r]]
    /\ UNCHANGED <<launch, epoch, effects, faults>>

FailWaiting(e) ==
    requests' = [r \in Requests |->
       IF WaitsOn(r, e) THEN End("unavailable") ELSE requests[r]]

\* Mutant: a failed exchange is not forgotten.
ExchangeRefused_Kept(e) ==
    /\ e \in exchanges
    /\ e.stage = "sent"
    /\ e.token # launch
    /\ exchanges' = exchanges \ {e}
    /\ FailWaiting(e)
    /\ UNCHANGED <<launch, epoch, session, inflight, tries, effects, faults>>

\* The token is not on offer any more: no 303, every sharer is answered 502.
ExchangeRefused(e) ==
    /\ e \in exchanges
    /\ e.stage = "sent"
    /\ e.token # launch
    /\ ExchangeOver(e)
    /\ FailWaiting(e)
    /\ UNCHANGED <<launch, epoch, session, tries, effects, faults>>

\* A connection error, the timeout of the exchange, an unusable answer.
ExchangeFail(e) ==
    /\ Fault("exchange")
    /\ e \in exchanges
    /\ ExchangeOver(e)
    /\ FailWaiting(e)
    /\ UNCHANGED <<launch, epoch, session, tries, effects>>

----------------------------------------------------------------------------
(* A request on the wire *)

\* The upstream carries it out, or answers 401 to the cookie.
Handle(r) ==
    LET q == requests[r]
    IN  /\ q.pc = "sent"
        /\ requests' = [requests EXCEPT ![r] =
              [pc |-> "reply", accepted |-> q.epoch = epoch, retry |-> q.retry,
               gone |-> q.gone]]
        /\ effects' = [effects EXCEPT ![r] = @ + IF q.epoch = epoch THEN 1 ELSE 0]
        /\ UNCHANGED <<launch, epoch, session, inflight, exchanges, tries,
                       faults>>

MayRetry(r) == requests[r].retry /\ r \in Safe

\* Mutant: a 401 that is not retried is not relayed either.
Relay_OnlyAccepted(r) ==
    LET q == requests[r]
    IN  /\ q.pc = "reply"
        /\ q.accepted
        /\ requests' = [requests EXCEPT ![r] = End("ok")]
        /\ UNCHANGED <<launch, epoch, session, inflight, exchanges, tries,
                       effects, faults>>

\* The answer goes to the visitor, a 401 too unless the request is sent again.
Relay(r) ==
    LET q == requests[r]
    IN  /\ q.pc = "reply"
        /\ q.accepted \/ ~MayRetry(r)
        /\ requests' = [requests EXCEPT ![r] =
              End(IF q.accepted THEN "ok" ELSE "unauthorized")]
        /\ UNCHANGED <<launch, epoch, session, inflight, exchanges, tries,
                       effects, faults>>

\* Mutant: the session is kept.
Retry_KeepsSession(r) ==
    /\ requests[r].pc = "reply"
    /\ ~requests[r].accepted
    /\ MayRetry(r)
    /\ CookieHeader(r, session, FALSE, requests[r].gone)
    /\ tries' = [tries EXCEPT ![r] = IF IsFresh(session) THEN @ + 1 ELSE @]
    /\ UNCHANGED <<launch, epoch, session, effects, faults>>

\* Mutant: the exchange in flight is dropped with the session.
Retry_DropsExchange(r) ==
    /\ requests[r].pc = "reply"
    /\ ~requests[r].accepted
    /\ MayRetry(r)
    /\ session' = None
    /\ \E x \in Exchanges :
          /\ \A e \in exchanges : e.id # x
          /\ inflight' = x
          /\ exchanges' = exchanges \cup
                {[id |-> x, token |-> launch, epoch |-> 0, stage |-> "sent"]}
          /\ requests' = [requests EXCEPT ![r] = Waiting(x, FALSE, requests[r].gone)]
    /\ UNCHANGED <<launch, epoch, tries, effects, faults>>

\* Mutant: the retry may be retried.
Retry_Again(r) ==
    /\ requests[r].pc = "reply"
    /\ ~requests[r].accepted
    /\ MayRetry(r)
    /\ session' = None
    /\ CookieHeader(r, None, TRUE, requests[r].gone)
    /\ UNCHANGED <<launch, epoch, tries, effects, faults>>

\* The first 401 of a safe request: the session held NOW is dropped, whichever
\* cookie the 401 was about, and the request starts over, once.
Retry(r) ==
    /\ requests[r].pc = "reply"
    /\ ~requests[r].accepted
    /\ MayRetry(r)
    /\ session' = None
    /\ CookieHeader(r, None, FALSE, requests[r].gone)
    /\ UNCHANGED <<launch, epoch, tries, effects, faults>>

\* At that moment the seam offers no launch token: the retry is answered 502.
RetryWithoutToken(r) ==
    /\ Fault("seam")
    /\ requests[r].pc = "reply"
    /\ ~requests[r].accepted
    /\ MayRetry(r)
    /\ session' = None
    /\ requests' = [requests EXCEPT ![r] = End("unavailable")]
    /\ UNCHANGED <<launch, epoch, inflight, exchanges, tries, effects>>

\* Mutant: a connection error is retried like a 401.
RequestFail_Retries(r) ==
    /\ Fault("request")
    /\ requests[r].pc \in {"sent", "reply"}
    /\ CookieHeader(r, session, FALSE, requests[r].gone)
    /\ UNCHANGED <<launch, epoch, session, tries, effects>>

\* The connection breaks, before or after the upstream carried it out.
RequestFail(r) ==
    /\ Fault("request")
    /\ requests[r].pc \in {"sent", "reply"}
    /\ requests' = [requests EXCEPT ![r] = End("unavailable")]
    /\ UNCHANGED <<launch, epoch, session, inflight, exchanges, tries, effects>>

\* The visitor goes away: the upstream request is destroyed if there is one;
\* a request still waiting for its cookie is sent all the same, and nothing
\* destroys it any more (the close event it listens for is past).
VisitorLeaves(r) ==
    /\ Fault("leave")
    /\ \/ /\ requests[r].pc \in {"sent", "reply"}
          /\ ~requests[r].gone
          /\ requests' = [requests EXCEPT ![r] = End("left")]
       \/ /\ requests[r].pc = "waiting"
          /\ ~requests[r].gone
          /\ requests' = [requests EXCEPT ![r].gone = TRUE]
    /\ UNCHANGED <<launch, epoch, session, inflight, exchanges, tries, effects>>

----------------------------------------------------------------------------
(* The upstream *)

UpstreamRestarts ==
    /\ Fault("restart")
    /\ epoch' = epoch + 1
    /\ launch' = epoch + 1
    /\ UNCHANGED <<session, inflight, exchanges, requests, tries, effects>>

UpstreamForgets ==
    /\ Fault("forget")
    /\ epoch' = epoch + 1
    /\ UNCHANGED <<launch, session, inflight, exchanges, requests, tries,
                   effects>>

\* The cookie comes within the refresh margin of its expiry.
SessionAges ==
    /\ Fault("age")
    /\ session # None
    /\ session' = [session EXCEPT !.fresh = FALSE]
    /\ UNCHANGED <<launch, epoch, inflight, exchanges, requests, tries, effects>>

----------------------------------------------------------------------------

ExchangeStep == \E e \in exchanges : Mint(e) \/ ExchangeDone(e) \/ ExchangeRefused(e)

RequestStep(r) == Handle(r) \/ Relay(r) \/ Retry(r)

Next ==
    \/ \E r \in Requests :
          \/ Forward(r) \/ ForwardWithoutToken(r) \/ RequestStep(r)
          \/ RetryWithoutToken(r) \/ RequestFail(r) \/ VisitorLeaves(r)
    \/ ExchangeStep
    \/ \E e \in exchanges : ExchangeFail(e)
    \/ UpstreamRestarts \/ UpstreamForgets \/ SessionAges

Spec == Init /\ [][Next]_vars

\* An exchange has a timeout of its own.
ExchangesEnd == WF_vars(ExchangeStep)

\* The upstream answers what it is sent.
UpstreamAnswers(r) == WF_vars(RequestStep(r))

\* The visitor of a safe request tries again.
VisitorReloads(r) == WF_vars(Forward(r))

FairSpec ==
    /\ Spec
    /\ ExchangesEnd
    /\ \A r \in Requests : UpstreamAnswers(r)
    /\ \A r \in Safe : VisitorReloads(r)

----------------------------------------------------------------------------
(* What the component promises *)

\* Every variable has the shape the code gives it.
TypeOK ==
    /\ launch \in Nat /\ epoch \in Nat
    /\ session \in Session \cup {None}
    /\ inflight \in Exchanges \cup {None}
    /\ exchanges \subseteq Exchange
    /\ requests \in [Requests -> Request]
    /\ tries \in [Requests -> 0 .. 2]
    /\ effects \in [Requests -> Nat]
    /\ faults \in 0 .. MaxFaults

\* However many requests need a session at once, and whatever invalidates it
\* meanwhile, one exchange is on the wire, and it is the one they share.
OneExchange ==
    /\ Cardinality(exchanges) <= 1
    /\ \A r \in Requests :
          requests[r].pc = "waiting" => \E e \in exchanges : WaitsOn(r, e)

\* The upstream carries a request out at most once.  A safe request is sent
\* twice at most, another is not even sent twice: its body cannot be.
NoSecondEffect ==
    \A r \in Requests :
        effects[r] <= 1 /\ tries[r] <= IF r \in Safe THEN 2 ELSE 1

\* A restart of the upstream is noticed without a 401: a session filed under
\* the token on offer holds a cookie minted since that token is on offer,
\* however exchanges and restarts overlap.  (A 401 is left for the upstream
\* that forgets its cookies and keeps its token.)
RestartNoticed ==
    session # None /\ session.token = launch => session.epoch >= launch

\* Nothing that is under way is stuck: the exchange on the wire comes to an
\* end, a request that was sent is answered or started over, a visitor can
\* always load again.
NobodyStuck ==
    /\ exchanges # {} => ENABLED <<ExchangeStep>>_vars
    /\ \A r \in Requests :
          requests[r].pc \in {"sent", "reply"} => ENABLED <<RequestStep(r)>>_vars
    /\ \A r \in Safe : requests[r].pc \in Over => ENABLED <<Forward(r)>>_vars

\* Every forwarded request is answered, unless its visitor leaves.
RequestsAnswered ==
    \A r \in Requests : requests[r].pc \notin Over ~> requests[r].pc \in Over

\* Once the upstream is stable a visitor that reloads is served again.
SessionHeals == \A r \in Safe : []<>(requests[r].pc = "ok")

============================================================================
