------------------------ MODULE UpstreamProxyProofs ------------------------
(***************************************************************************)
(* Proofs about UpstreamProxy, for any requests, exchanges and number of   *)
(* faults of any kind.                                                     *)
(*                                                                         *)
(* The argument is the shared promise: while it is kept there is exactly   *)
(* one exchange on the wire and every request that waits waits on it;      *)
(* without it nobody waits.  The bound on what is sent upstream follows    *)
(* from the one permission to retry a request has, which only a safe       *)
(* request can spend.                                                      *)
(*                                                                         *)
(* What must come about is proved from the fairness of FairSpec and from   *)
(* NobodyStuck, which says what is enabled when and is left to TLC: a      *)
(* request goes from stage to stage (waiting for an exchange that is sent, *)
(* then minted; sent; answered), and each stage is left for a later one.   *)
(* A second round is the last, for its permission to retry is spent.       *)
(***************************************************************************)
EXTENDS UpstreamProxy, FiniteSetTheorems, TLAPS

SharedExchange ==
    \/ inflight = None /\ exchanges = {}
    \/ \E e \in Exchange : exchanges = {e} /\ inflight = e.id

WaitersShare ==
    \A r \in Requests :
       requests[r].pc = "waiting" => inflight # None /\ requests[r].on = inflight

\* A request that may still be retried has not been retried.
RetryBudget ==
    \A r \in Requests :
       LET q == requests[r]
       IN  /\ q.pc = "waiting" => tries[r] <= IF q.retry THEN 0 ELSE 1
           /\ q.pc \in {"sent", "reply"} =>
                 tries[r] <= IF q.retry THEN 1 ELSE 2
           /\ q.pc = "waiting" /\ r \notin Safe => q.retry
           /\ r \notin Safe => tries[r] <= 1

\* A request that is on its way has not been carried out.
EffectsToCome ==
    \A r \in Requests :
       LET q == requests[r]
       IN  /\ effects[r] <= 1
           /\ q.pc \in {"waiting", "sent"} => effects[r] = 0
           /\ q.pc = "reply" /\ ~q.accepted => effects[r] = 0

IInv ==
    /\ TypeOK
    /\ SharedExchange
    /\ WaitersShare
    /\ RetryBudget
    /\ EffectsToCome

----------------------------------------------------------------------------
(* Requests *)

\* What a request keeps on its way.
LEMMA Kept ==
    ASSUME TypeOK, NEW r \in Requests
    PROVE  /\ requests[r].pc \in Over => requests[r] \in [pc : Over]
           /\ requests[r].pc = "waiting" =>
                /\ requests[r].on \in Exchanges
                /\ requests[r].token \in Nat
                /\ requests[r].retry \in BOOLEAN
                /\ requests[r].gone \in BOOLEAN
           /\ requests[r].pc = "sent" =>
                /\ requests[r].epoch \in Nat
                /\ requests[r].retry \in BOOLEAN
                /\ requests[r].gone \in BOOLEAN
           /\ requests[r].pc = "reply" =>
                /\ requests[r].accepted \in BOOLEAN
                /\ requests[r].retry \in BOOLEAN
                /\ requests[r].gone \in BOOLEAN
<1>1. requests[r] \in Request
  BY DEF TypeOK
<1> QED
  BY <1>1 DEF Request, Over

LEMMA Records ==
    ASSUME TypeOK, NEW b \in BOOLEAN, NEW g \in BOOLEAN
    PROVE  /\ \A answer \in Over : End(answer) \in Request
           /\ \A x \in Exchanges : Waiting(x, b, g) \in Request
           /\ \A s \in Session : Sent(s, b, g) \in Request
BY DEF TypeOK, End, Waiting, Sent, Request, Session

\* cookieHeader uses the session it finds, or waits on the one exchange.
LEMMA CookieStep ==
    ASSUME IInv, NEW r \in Requests, NEW held \in Session \cup {None},
           NEW b \in BOOLEAN, NEW g \in BOOLEAN, CookieHeader(r, held, b, g)
    PROVE  /\ exchanges' \subseteq Exchange
           /\ inflight' \in Exchanges \cup {None}
           /\ requests' \in [Requests -> Request]
           /\ SharedExchange'
           /\ \A q \in Requests \ {r} : requests'[q] = requests[q]
           /\ \/ /\ requests'[r].pc = "sent"
                 /\ requests'[r].retry = b
                 /\ IsFresh(held)
                 /\ UNCHANGED inflight
              \/ /\ requests'[r].pc = "waiting"
                 /\ requests'[r].retry = b
                 /\ requests'[r].on = inflight'
                 /\ inflight' # None
                 /\ ~IsFresh(held)
                 /\ inflight # None => inflight' = inflight
<1>1. CASE IsFresh(held)
  <2>1. /\ requests' = [requests EXCEPT ![r] = Sent(held, b, g)]
        /\ UNCHANGED <<inflight, exchanges>>
    BY <1>1 DEF CookieHeader
  <2>2. Sent(held, b, g) \in Request
    BY <1>1, Records DEF IInv, IsFresh
  <2> QED
    BY <1>1, <2>1, <2>2 DEF IInv, TypeOK, SharedExchange, Sent
<1>2. CASE ~IsFresh(held) /\ inflight # None
  <2>1. /\ requests' = [requests EXCEPT ![r] = Waiting(inflight, b, g)]
        /\ UNCHANGED <<inflight, exchanges>>
    BY <1>2 DEF CookieHeader
  <2>2. Waiting(inflight, b, g) \in Request
    BY <1>2, Records DEF IInv, TypeOK
  <2> QED
    BY <1>2, <2>1, <2>2 DEF IInv, TypeOK, SharedExchange, Waiting
<1>3. CASE ~IsFresh(held) /\ inflight = None
  <2>1. PICK x \in Exchanges :
           /\ inflight' = x
           /\ exchanges' = exchanges \cup
                 {[id |-> x, token |-> launch, epoch |-> 0, stage |-> "sent"]}
           /\ requests' = [requests EXCEPT ![r] = Waiting(x, b, g)]
    BY <1>3 DEF CookieHeader
  <2>2. [id |-> x, token |-> launch, epoch |-> 0, stage |-> "sent"] \in Exchange
    BY DEF Exchange, IInv, TypeOK
  <2>3. exchanges = {}
    BY <1>3, ProxyAssumption DEF IInv, SharedExchange, Exchange
  <2>4. SharedExchange' /\ exchanges' \subseteq Exchange
    BY <2>1, <2>2, <2>3 DEF SharedExchange
  <2>5. Waiting(x, b, g) \in Request
    BY Records DEF IInv
  <2>6. x # None
    BY ProxyAssumption
  <2> QED
    BY <1>3, <2>1, <2>4, <2>5, <2>6 DEF IInv, TypeOK, Waiting
<1> QED
  BY <1>1, <1>2, <1>3

LEMMA ForwardIInv ==
    ASSUME IInv, NEW r \in Requests, Forward(r)
    PROVE  IInv'
<1>1. CookieHeader(r, session, TRUE, FALSE) /\ session \in Session \cup {None}
  BY DEF Forward, IInv, TypeOK
<1>2. /\ tries' = [tries EXCEPT ![r] = IF IsFresh(session) THEN 1 ELSE 0]
      /\ effects' = [effects EXCEPT ![r] = 0]
      /\ UNCHANGED <<launch, epoch, session, faults>>
  BY DEF Forward
<1>3. /\ exchanges' \subseteq Exchange
      /\ inflight' \in Exchanges \cup {None}
      /\ requests' \in [Requests -> Request]
      /\ SharedExchange'
      /\ \A q \in Requests \ {r} : requests'[q] = requests[q]
      /\ \/ /\ requests'[r].pc = "sent"
            /\ requests'[r].retry = TRUE
            /\ IsFresh(session)
            /\ UNCHANGED inflight
         \/ /\ requests'[r].pc = "waiting"
            /\ requests'[r].retry = TRUE
            /\ requests'[r].on = inflight'
            /\ inflight' # None
            /\ ~IsFresh(session)
            /\ inflight # None => inflight' = inflight
  BY <1>1, CookieStep
<1>4. /\ \A q \in Requests \ {r} : tries'[q] = tries[q] /\ effects'[q] = effects[q]
      /\ tries'[r] = IF IsFresh(session) THEN 1 ELSE 0
      /\ effects'[r] = 0
  BY <1>2 DEF IInv, TypeOK
<1>5. TypeOK'
  <2>1. tries' \in [Requests -> 0 .. 2]
    <3>1. (IF IsFresh(session) THEN 1 ELSE 0) \in 0 .. 2
      OBVIOUS
    <3> QED
      BY <1>2, <3>1 DEF IInv, TypeOK
  <2>2. effects' \in [Requests -> Nat]
    BY <1>2 DEF IInv, TypeOK
  <2> QED
    BY <1>2, <1>3, <2>1, <2>2 DEF IInv, TypeOK
<1>6. WaitersShare'
  BY <1>3 DEF IInv, WaitersShare
<1>7. RetryBudget'
  BY <1>3, <1>4 DEF IInv, RetryBudget
<1>8. EffectsToCome'
  BY <1>3, <1>4 DEF IInv, EffectsToCome
<1> QED
  BY <1>3, <1>5, <1>6, <1>7, <1>8 DEF IInv

LEMMA RetryIInv ==
    ASSUME IInv, NEW r \in Requests, Retry(r)
    PROVE  IInv'
<1>1. /\ CookieHeader(r, None, FALSE, requests[r].gone)
      /\ ~IsFresh(None)
      /\ requests[r].gone \in BOOLEAN
  BY Kept DEF Retry, IsFresh, IInv
<1>2. /\ r \in Safe /\ requests[r].retry
      /\ tries[r] <= 1 /\ effects[r] = 0
  BY DEF Retry, MayRetry, IInv, RetryBudget, EffectsToCome
<1>3. /\ exchanges' \subseteq Exchange
      /\ inflight' \in Exchanges \cup {None}
      /\ requests' \in [Requests -> Request]
      /\ SharedExchange'
      /\ \A q \in Requests \ {r} : requests'[q] = requests[q]
      /\ requests'[r].pc = "waiting"
      /\ requests'[r].retry = FALSE
      /\ requests'[r].on = inflight'
      /\ inflight' # None
      /\ inflight # None => inflight' = inflight
  BY <1>1, CookieStep
<1>4. /\ session' = None
      /\ UNCHANGED <<launch, epoch, tries, effects, faults>>
  BY DEF Retry
<1>5. TypeOK'
  BY <1>3, <1>4 DEF IInv, TypeOK
<1>6. WaitersShare'
  BY <1>3 DEF IInv, WaitersShare
<1>7. RetryBudget'
  BY <1>2, <1>3, <1>4 DEF IInv, RetryBudget
<1>8. EffectsToCome'
  BY <1>2, <1>3, <1>4 DEF IInv, EffectsToCome
<1> QED
  BY <1>3, <1>5, <1>6, <1>7, <1>8 DEF IInv

\* A request ends, or the upstream has handled it: nobody waits.
LEMMA EndIInv ==
    ASSUME IInv, NEW r \in Requests, NEW answer \in Over,
           requests' = [requests EXCEPT ![r] = End(answer)],
           UNCHANGED <<launch, epoch, inflight, exchanges>>,
           session' \in {session, None},
           \/ UNCHANGED <<tries, effects>>
           \/ /\ tries' = [tries EXCEPT ![r] = 0]
              /\ effects' = [effects EXCEPT ![r] = 0],
           faults' \in 0 .. MaxFaults
    PROVE  IInv'
<1>1. End(answer) \in Request /\ End(answer).pc \in Over
  BY Records DEF IInv, End
<1>2. /\ requests'[r].pc \in Over
      /\ \A q \in Requests \ {r} : requests'[q] = requests[q]
  BY <1>1 DEF IInv, TypeOK
<1>3. TypeOK'
  BY <1>1 DEF IInv, TypeOK
<1>4. SharedExchange' /\ WaitersShare'
  BY <1>2 DEF IInv, SharedExchange, WaitersShare, Over
<1>5. RetryBudget' /\ EffectsToCome'
  BY <1>2 DEF IInv, TypeOK, RetryBudget, EffectsToCome, Over
<1> QED
  BY <1>3, <1>4, <1>5 DEF IInv

LEMMA HandleIInv ==
    ASSUME IInv, NEW r \in Requests, Handle(r)
    PROVE  IInv'
<1> DEFINE reply == [pc |-> "reply", accepted |-> requests[r].epoch = epoch,
                     retry |-> requests[r].retry, gone |-> requests[r].gone]
<1>1. reply \in Request
  BY Kept DEF Handle, IInv, Request
<1>2. requests' = [requests EXCEPT ![r] = reply]
  BY DEF Handle
<1>3. effects[r] = 0 /\ effects[r] \in Nat
  BY DEF Handle, IInv, TypeOK, EffectsToCome
<1>4. effects' = [effects EXCEPT ![r] =
                     IF requests[r].epoch = epoch THEN 1 ELSE 0]
  BY <1>3 DEF Handle
<1>5. TypeOK'
  BY <1>1, <1>2, <1>4 DEF Handle, IInv, TypeOK
<1>6. SharedExchange' /\ WaitersShare'
  BY <1>2 DEF Handle, IInv, TypeOK, SharedExchange, WaitersShare
<1>7. RetryBudget'
  BY <1>2 DEF Handle, IInv, TypeOK, RetryBudget
<1>8. EffectsToCome'
  <2>1. \A q \in Requests \ {r} :
           requests'[q] = requests[q] /\ effects'[q] = effects[q]
    BY <1>2, <1>4 DEF IInv, TypeOK
  <2>2. CASE requests[r].epoch = epoch
    <3>1. requests'[r].pc = "reply" /\ requests'[r].accepted /\ effects'[r] = 1
      BY <1>2, <1>4, <2>2 DEF IInv, TypeOK
    <3> QED
      BY <2>1, <3>1 DEF IInv, EffectsToCome
  <2>3. CASE requests[r].epoch # epoch
    <3>1. requests'[r].pc = "reply" /\ effects'[r] = 0
      BY <1>2, <1>4, <2>3 DEF IInv, TypeOK
    <3> QED
      BY <2>1, <3>1 DEF IInv, EffectsToCome
  <2> QED
    BY <2>2, <2>3
<1> QED
  BY <1>5, <1>6, <1>7, <1>8 DEF IInv

LEMMA LeaveIInv ==
    ASSUME IInv, NEW r \in Requests, VisitorLeaves(r)
    PROVE  IInv'
<1>1. faults' \in 0 .. MaxFaults
  BY ProxyAssumption DEF VisitorLeaves, Fault, IInv, TypeOK
<1>2. CASE requests' = [requests EXCEPT ![r] = End("left")]
  BY <1>1, <1>2, EndIInv DEF VisitorLeaves, Over
<1>3. CASE /\ requests[r].pc = "waiting"
           /\ requests' = [requests EXCEPT ![r].gone = TRUE]
  <2>1. [requests[r] EXCEPT !.gone = TRUE] \in Request
    <3>1. requests[r] \in [pc : {"waiting"}, on : Exchanges, token : Nat,
                           retry : BOOLEAN, gone : BOOLEAN]
      BY <1>3 DEF IInv, TypeOK, Request, Over
    <3> QED
      BY <3>1 DEF Request
  <2>2. /\ requests'[r].pc = "waiting"
        /\ requests'[r].on = requests[r].on
        /\ requests'[r].retry = requests[r].retry
        /\ \A q \in Requests \ {r} : requests'[q] = requests[q]
    <3>1. requests[r] \in [pc : {"waiting"}, on : Exchanges, token : Nat,
                           retry : BOOLEAN, gone : BOOLEAN]
      BY <1>3 DEF IInv, TypeOK, Request, Over
    <3> QED
      BY <1>3, <3>1 DEF IInv, TypeOK
  <2>3. TypeOK'
    BY <1>1, <1>3, <2>1 DEF VisitorLeaves, IInv, TypeOK
  <2>4. SharedExchange' /\ WaitersShare'
    BY <1>3, <2>2 DEF VisitorLeaves, IInv, SharedExchange, WaitersShare
  <2>5. RetryBudget' /\ EffectsToCome'
    BY <1>3, <2>2 DEF VisitorLeaves, IInv, RetryBudget, EffectsToCome
  <2> QED
    BY <2>3, <2>4, <2>5 DEF IInv
<1> QED
  BY <1>2, <1>3 DEF VisitorLeaves
----------------------------------------------------------------------------
(* The exchange *)

\* The exchange on the wire is the one that is shared.
LEMMA TheExchange ==
    ASSUME IInv, NEW e \in exchanges
    PROVE  /\ e \in Exchange
           /\ exchanges = {e}
           /\ inflight = e.id
           /\ \A r \in Requests : requests[r].pc = "waiting" => WaitsOn(r, e)
BY DEF IInv, TypeOK, SharedExchange, WaitersShare, WaitsOn

LEMMA MintIInv ==
    ASSUME IInv, NEW e \in exchanges, Mint(e)
    PROVE  IInv'
<1> DEFINE m == [e EXCEPT !.stage = "minted", !.epoch = epoch]
<1>1. /\ e \in Exchange /\ exchanges = {e} /\ inflight = e.id
  BY TheExchange
<1>2. m \in Exchange /\ m.id = e.id
  BY <1>1 DEF Exchange, IInv, TypeOK
<1>3. exchanges' = {m}
  BY <1>1 DEF Mint
<1> HIDE DEF m
<1>4. TypeOK' /\ SharedExchange'
  BY <1>1, <1>2, <1>3 DEF Mint, IInv, TypeOK, SharedExchange
<1> QED
  BY <1>4 DEF Mint, IInv, WaitersShare, RetryBudget, EffectsToCome

\* The shared exchange is over and so is the waiting: each waiting request is
\* sent, or answered.
LEMMA ExchangeOverStep ==
    ASSUME IInv, NEW e \in exchanges, ExchangeOver(e)
    PROVE  inflight' = None /\ exchanges' = {} /\ SharedExchange'
BY TheExchange DEF ExchangeOver, SharedExchange

LEMMA ExchangeDoneIInv ==
    ASSUME IInv, NEW e \in exchanges, ExchangeDone(e)
    PROVE  IInv'
<1>1. inflight' = None /\ exchanges' = {} /\ SharedExchange'
  BY ExchangeOverStep DEF ExchangeDone
<1>2. Established(e) \in Session
  BY TheExchange DEF Established, Session, Exchange
<1>3. \A r \in Requests :
         IF requests[r].pc = "waiting"
         THEN /\ requests'[r] = Sent(Established(e), requests[r].retry, requests[r].gone)
              /\ tries'[r] = tries[r] + 1
         ELSE requests'[r] = requests[r] /\ tries'[r] = tries[r]
  BY TheExchange DEF ExchangeDone, WaitsOn
<1>4. \A r \in Requests : requests'[r] \in Request
  BY <1>2, <1>3, Kept, Records DEF IInv, TypeOK
<1>5. \A r \in Requests : tries'[r] \in 0 .. 2
  BY <1>3, Kept DEF IInv, TypeOK, RetryBudget
<1>6. TypeOK'
  BY <1>1, <1>2, <1>4, <1>5 DEF ExchangeDone, IInv, TypeOK
<1> DEFINE cookie == Established(e)
<1>7. \A b, g : Sent(cookie, b, g).pc = "sent" /\ Sent(cookie, b, g).retry = b
  BY DEF Sent
<1>8. \A r \in Requests : requests'[r].pc # "waiting"
  BY <1>3, <1>7
<1>9. WaitersShare'
  BY <1>8 DEF WaitersShare
<1>10. RetryBudget'
  <2> SUFFICES ASSUME NEW r \in Requests
               PROVE  LET q == requests'[r]
                      IN  /\ q.pc \in {"sent", "reply"} =>
                                tries'[r] <= IF q.retry THEN 1 ELSE 2
                          /\ r \notin Safe => tries'[r] <= 1
    BY <1>8 DEF RetryBudget
  <2>1. CASE requests[r].pc = "waiting"
    <3>1. /\ requests'[r].retry = requests[r].retry
          /\ tries'[r] = tries[r] + 1
          /\ tries[r] \in 0 .. 2
      BY <1>3, <1>7, <2>1 DEF IInv, TypeOK
    <3> QED
      BY <2>1, <3>1 DEF IInv, RetryBudget
  <2>2. CASE requests[r].pc # "waiting"
    BY <1>3, <2>2 DEF IInv, RetryBudget
  <2> QED
    BY <2>1, <2>2
<1>11. EffectsToCome'
  BY <1>3 DEF ExchangeDone, IInv, EffectsToCome, Sent
<1> QED
  BY <1>1, <1>6, <1>9, <1>10, <1>11 DEF IInv

LEMMA ExchangeLostIInv ==
    ASSUME IInv, NEW e \in exchanges, ExchangeRefused(e) \/ ExchangeFail(e)
    PROVE  IInv'
<1>1. /\ inflight' = None /\ exchanges' = {} /\ SharedExchange'
  BY ExchangeOverStep DEF ExchangeRefused, ExchangeFail
<1>2. \A r \in Requests :
         IF requests[r].pc = "waiting"
         THEN requests'[r] = End("unavailable")
         ELSE requests'[r] = requests[r]
  BY TheExchange DEF ExchangeRefused, ExchangeFail, FailWaiting, WaitsOn
<1>3. \A r \in Requests : requests'[r] \in Request
  BY <1>2, Records DEF IInv, TypeOK, Over
<1>4. faults' \in 0 .. MaxFaults
  BY ProxyAssumption DEF ExchangeRefused, ExchangeFail, Fault, IInv, TypeOK
<1>5. TypeOK'
  BY <1>1, <1>3, <1>4
     DEF ExchangeRefused, ExchangeFail, FailWaiting, IInv, TypeOK
<1>6. WaitersShare'
  BY <1>2 DEF WaitersShare, End
<1>7. RetryBudget' /\ EffectsToCome'
  BY <1>2 DEF ExchangeRefused, ExchangeFail, IInv, RetryBudget, EffectsToCome,
              End
<1> QED
  BY <1>1, <1>5, <1>6, <1>7 DEF IInv

LEMMA UpstreamIInv ==
    ASSUME IInv, UpstreamRestarts \/ UpstreamForgets \/ SessionAges
    PROVE  IInv'
<1>1. TypeOK'
  <2>1. faults' \in 0 .. MaxFaults
    BY ProxyAssumption
       DEF UpstreamRestarts, UpstreamForgets, SessionAges, Fault, IInv, TypeOK
  <2>2. CASE UpstreamRestarts \/ UpstreamForgets
    BY <2>1, <2>2 DEF UpstreamRestarts, UpstreamForgets, IInv, TypeOK
  <2>3. CASE SessionAges
    <3>1. session' \in Session
      BY <2>3 DEF SessionAges, IInv, TypeOK, Session
    <3> QED
      BY <2>1, <2>3, <3>1 DEF SessionAges, IInv, TypeOK
  <2> QED
    BY <2>2, <2>3
<1> QED
  BY <1>1 DEF UpstreamRestarts, UpstreamForgets, SessionAges, IInv,
              SharedExchange, WaitersShare, RetryBudget, EffectsToCome

----------------------------------------------------------------------------
(* The inductive invariant *)

LEMMA InitIInv == Init => IInv
BY ProxyAssumption
   DEF Init, End, IInv, TypeOK, Request, Over, SharedExchange, WaitersShare,
       RetryBudget, EffectsToCome

LEMMA NextIInv == IInv /\ [Next]_vars => IInv'
<1> SUFFICES ASSUME IInv, [Next]_vars
             PROVE  IInv'
  OBVIOUS
<1>1. ASSUME NEW r \in Requests, ForwardWithoutToken(r)
      PROVE  IInv'
  <2>1. faults' \in 0 .. MaxFaults
    BY <1>1, ProxyAssumption DEF ForwardWithoutToken, Fault, IInv, TypeOK
  <2> QED
    BY <1>1, <2>1, EndIInv DEF ForwardWithoutToken, Over
<1>2. ASSUME NEW r \in Requests, Relay(r)
      PROVE  IInv'
  BY <1>2, EndIInv DEF Relay, Over, IInv, TypeOK
<1>3. ASSUME NEW r \in Requests, RequestFail(r) \/ RetryWithoutToken(r)
      PROVE  IInv'
  <2>1. faults' \in 0 .. MaxFaults
    BY <1>3, ProxyAssumption
       DEF RequestFail, RetryWithoutToken, Fault, IInv, TypeOK
  <2> QED
    BY <1>3, <2>1, EndIInv DEF RequestFail, RetryWithoutToken, Over
<1>4. ASSUME NEW r \in Requests,
             Forward(r) \/ Handle(r) \/ Retry(r) \/ VisitorLeaves(r)
      PROVE  IInv'
  BY <1>4, ForwardIInv, HandleIInv, RetryIInv, LeaveIInv
<1>5. CASE ExchangeStep \/ \E e \in exchanges : ExchangeFail(e)
  BY <1>5, MintIInv, ExchangeDoneIInv, ExchangeLostIInv DEF ExchangeStep
<1>6. CASE UpstreamRestarts \/ UpstreamForgets \/ SessionAges
  BY <1>6, UpstreamIInv
<1>7. CASE UNCHANGED vars
  BY <1>7 DEF vars, IInv, TypeOK, SharedExchange, WaitersShare, RetryBudget,
              EffectsToCome
<1> QED
  BY <1>1, <1>2, <1>3, <1>4, <1>5, <1>6, <1>7 DEF Next, RequestStep

\* IInv holds in every reachable state.
THEOREM Invariance == Spec => []IInv
BY InitIInv, NextIInv, PTL DEF Spec

----------------------------------------------------------------------------
(* What follows *)

\* The variables keep their types, and no request is sent upstream more than
\* twice.
THEOREM TypesHold == Spec => []TypeOK
<1>1. IInv => TypeOK
  BY DEF IInv
<1> QED
  BY <1>1, Invariance, PTL

\* However many requests find no session, they share one exchange
\* (cookieHeader's #inflight).
THEOREM ExchangeIsShared == Spec => []OneExchange
<1>1. IInv => OneExchange
  <2> SUFFICES ASSUME IInv
               PROVE  OneExchange
    OBVIOUS
  <2>1. CASE exchanges = {}
    <3>1. \A r \in Requests : requests[r].pc # "waiting"
      BY <2>1 DEF IInv, SharedExchange, WaitersShare
    <3> QED
      BY <2>1, <3>1, FS_EmptySet DEF OneExchange
  <2>2. CASE \E e \in Exchange : exchanges = {e}
    <3>1. PICK e \in Exchange : exchanges = {e}
      BY <2>2
    <3>2. Cardinality(exchanges) = 1
      BY <3>1, FS_Singleton
    <3> QED
      BY <3>1, <3>2, TheExchange DEF OneExchange
  <2> QED
    BY <2>1, <2>2 DEF IInv, SharedExchange
<1> QED
  BY <1>1, Invariance, PTL

\* A request takes effect once at most, and one with a body is sent once at
\* most (the 401 retry of forwardHttp).
THEOREM EffectsHappenOnce == Spec => []NoSecondEffect
<1>1. IInv => NoSecondEffect
  BY DEF IInv, TypeOK, EffectsToCome, RetryBudget, NoSecondEffect
<1> QED
  BY <1>1, Invariance, PTL

----------------------------------------------------------------------------
(* Restarts of the upstream *)

\* No cookie is older than the token it was minted from.
Noticed ==
    /\ launch <= epoch
    /\ session # None => session.token <= session.epoch
    /\ \A e \in exchanges : e.stage = "minted" => e.token <= e.epoch

\* A restart of the upstream is noticed by the launch token alone (#isFresh):
\* a cookie from before it is filed under another token.
THEOREM RestartsAreNoticed == Spec => []RestartNoticed
<1>1. Init => Noticed
  BY DEF Init, Noticed
<1>2. TypeOK /\ Noticed /\ [Next]_vars => Noticed'
  <2> SUFFICES ASSUME TypeOK, Noticed, [Next]_vars
               PROVE  Noticed'
    OBVIOUS
  <2>1. ASSUME NEW r \in Requests, NEW held, NEW b, NEW g,
               CookieHeader(r, held, b, g),
               UNCHANGED <<launch, epoch>>, session' \in {session, None}
        PROVE  Noticed'
    <3>1. \/ exchanges' = exchanges
          \/ \E x \in Exchanges : exchanges' = exchanges \cup
                {[id |-> x, token |-> launch, epoch |-> 0, stage |-> "sent"]}
      BY <2>1 DEF CookieHeader
    <3> QED
      BY <2>1, <3>1 DEF Noticed, TypeOK
  <2>2. ASSUME UNCHANGED <<launch, epoch, session>>, exchanges' \subseteq exchanges
        PROVE  Noticed'
    BY <2>2 DEF Noticed
  <2>3. ASSUME NEW r \in Requests, Forward(r) \/ Retry(r)
        PROVE  Noticed'
    BY <2>1, <2>3 DEF Forward, Retry
  <2>4. ASSUME NEW r \in Requests,
               \/ ForwardWithoutToken(r) \/ Handle(r) \/ Relay(r)
               \/ RequestFail(r) \/ VisitorLeaves(r)
        PROVE  Noticed'
    BY <2>2, <2>4 DEF ForwardWithoutToken, Handle, Relay, RequestFail,
                      VisitorLeaves
  <2>12. ASSUME NEW r \in Requests, RetryWithoutToken(r)
         PROVE  Noticed'
    BY <2>12 DEF RetryWithoutToken, Noticed
  <2>5. ASSUME NEW e \in exchanges, Mint(e)
        PROVE  Noticed'
    <3>1. e \in Exchange
      BY DEF TypeOK
    <3>2. /\ [e EXCEPT !.stage = "minted", !.epoch = epoch].token = e.token
          /\ [e EXCEPT !.stage = "minted", !.epoch = epoch].epoch = epoch
      BY <3>1 DEF Exchange
    <3> QED
      BY <2>5, <3>1, <3>2 DEF Mint, Noticed
  <2>6. ASSUME NEW e \in exchanges, ExchangeDone(e)
        PROVE  Noticed'
    <3>1. session' = Established(e) /\ exchanges' \subseteq exchanges
      BY <2>6 DEF ExchangeDone, ExchangeOver
    <3> QED
      BY <2>6, <3>1 DEF ExchangeDone, Established, Noticed
  <2>7. ASSUME NEW e \in exchanges, ExchangeRefused(e) \/ ExchangeFail(e)
        PROVE  Noticed'
    BY <2>2, <2>7 DEF ExchangeRefused, ExchangeFail, ExchangeOver
  <2>8. CASE UpstreamRestarts
    BY <2>8 DEF UpstreamRestarts, Noticed, TypeOK, Session, Exchange
  <2>9. CASE SessionAges
    BY <2>9, ProxyAssumption DEF SessionAges, Noticed, TypeOK, Session
  <2>10. CASE UNCHANGED vars
    BY <2>2, <2>10 DEF vars
  <2>11. CASE UpstreamForgets
    BY <2>11 DEF UpstreamForgets, Noticed, TypeOK
  <2> QED
    BY <2>3, <2>4, <2>5, <2>6, <2>7, <2>8, <2>9, <2>10, <2>11, <2>12
       DEF Next, RequestStep, ExchangeStep
<1>3. Noticed => RestartNoticed
  BY DEF Noticed, RestartNoticed
<1> QED
  BY <1>1, <1>2, <1>3, TypesHold, PTL DEF Spec

----------------------------------------------------------------------------
(* Every request is answered *)

\* Where a request can be: answered, waiting for the exchange at a stage, on
\* the wire, or with its answer at hand, each with or without a retry left.
Answered(r) == requests[r].pc \in Over

AtStage(r, mayRetry, stage) ==
    /\ requests[r].pc = "waiting"
    /\ requests[r].retry = mayRetry
    /\ \E e \in exchanges : e.stage = stage

On(r, pc, mayRetry) == requests[r].pc = pc /\ requests[r].retry = mayRetry

\* What one request does leaves the others, and the exchange they wait on.
LEMMA OthersKeep ==
    ASSUME IInv, NEW r \in Requests, NEW q \in Requests \ {r},
           \/ Forward(q) \/ ForwardWithoutToken(q) \/ RequestStep(q)
           \/ RetryWithoutToken(q) \/ RequestFail(q) \/ VisitorLeaves(q)
    PROVE  /\ requests'[r] = requests[r]
           /\ exchanges # {} => exchanges' = exchanges
<1>1. ASSUME NEW held, NEW b, NEW g, CookieHeader(q, held, b, g)
      PROVE  /\ requests'[r] = requests[r]
             /\ exchanges # {} => exchanges' = exchanges
  <2>1. inflight # None => exchanges' = exchanges
    BY <1>1 DEF CookieHeader
  <2>2. exchanges # {} => inflight # None
    BY ProxyAssumption DEF IInv, SharedExchange, Exchange
  <2>3. requests'[r] = requests[r]
    BY <1>1 DEF CookieHeader, IInv, TypeOK
  <2> QED
    BY <2>1, <2>2, <2>3
<1>2. CASE Forward(q) \/ Retry(q)
  BY <1>1, <1>2 DEF Forward, Retry
<1>3. CASE \/ ForwardWithoutToken(q) \/ Handle(q) \/ Relay(q)
           \/ RetryWithoutToken(q) \/ RequestFail(q) \/ VisitorLeaves(q)
  BY <1>3 DEF ForwardWithoutToken, Handle, Relay, RetryWithoutToken, RequestFail,
              VisitorLeaves, IInv, TypeOK
<1> QED
  BY <1>2, <1>3 DEF RequestStep

\* The upstream mints: those who wait go on waiting, for the cookie.
LEMMA MintStage ==
    ASSUME IInv, NEW e \in exchanges, Mint(e)
    PROVE  /\ e.stage = "sent"
           /\ UNCHANGED requests
           /\ \E x \in exchanges' : x.stage = "minted"
<1>1. e \in Exchange
  BY TheExchange
<1>2. [e EXCEPT !.stage = "minted", !.epoch = epoch].stage = "minted"
  BY <1>1 DEF Exchange
<1> QED
  BY <1>2 DEF Mint

\* A waiting request goes on with the exchange, whoever else moves.
LEMMA WaitingStep ==
    ASSUME IInv, [Next]_vars, NEW r \in Requests, NEW b \in BOOLEAN
    PROVE  /\ AtStage(r, b, "sent") =>
                \/ AtStage(r, b, "sent")' \/ AtStage(r, b, "minted")'
                \/ Answered(r)'
           /\ AtStage(r, b, "minted") =>
                \/ AtStage(r, b, "minted")' \/ On(r, "sent", b)'
                \/ Answered(r)'
           /\ AtStage(r, b, "sent") /\ ExchangeStep =>
                AtStage(r, b, "minted")' \/ Answered(r)'
           /\ AtStage(r, b, "minted") /\ ExchangeStep => On(r, "sent", b)'
<1>1. ASSUME requests[r].pc = "waiting", requests[r].retry = b,
             NEW e \in exchanges
      PROVE  /\ \/ /\ requests'[r].pc = "waiting" /\ requests'[r].retry = b
                   /\ exchanges' = exchanges
                \/ e.stage = "sent" /\ AtStage(r, b, "minted")'
                \/ e.stage = "minted" /\ On(r, "sent", b)'
                \/ Answered(r)'
             /\ ExchangeStep =>
                \/ e.stage = "sent" /\ AtStage(r, b, "minted")'
                \/ e.stage = "minted" /\ On(r, "sent", b)'
                \/ e.stage = "sent" /\ Answered(r)'
  <2>1. exchanges = {e} /\ WaitsOn(r, e)
    BY <1>1, TheExchange
  <2>2. ASSUME NEW q \in Requests,
               \/ Forward(q) \/ ForwardWithoutToken(q) \/ RequestStep(q)
               \/ RetryWithoutToken(q) \/ RequestFail(q) \/ VisitorLeaves(q)
        PROVE  /\ requests'[r].pc = "waiting" /\ requests'[r].retry = b
               /\ exchanges' = exchanges
    <3>1. CASE q # r
      BY <1>1, <2>2, <3>1, OthersKeep
    <3>2. CASE q = r
      <4>1. /\ VisitorLeaves(r)
            /\ requests' = [requests EXCEPT ![r].gone = TRUE]
        BY <1>1, <2>2, <3>2
           DEF Forward, ForwardWithoutToken, RequestStep, Handle, Relay, Retry,
               RetryWithoutToken, RequestFail, VisitorLeaves, Over
      <4>2. requests[r] \in [pc : {"waiting"}, on : Exchanges, token : Nat,
                             retry : BOOLEAN, gone : BOOLEAN]
        BY <1>1 DEF IInv, TypeOK, Request, Over
      <4> QED
        BY <1>1, <4>1, <4>2 DEF VisitorLeaves, IInv, TypeOK
    <3> QED
      BY <3>1, <3>2
  <2>3. Mint(e) => e.stage = "sent" /\ AtStage(r, b, "minted")'
    BY <1>1, MintStage DEF AtStage
  <2>4. ExchangeRefused(e) \/ ExchangeFail(e) => Answered(r)'
    BY <2>1 DEF ExchangeRefused, ExchangeFail, FailWaiting, End, Answered, Over
  <2>5. ExchangeRefused(e) => e.stage = "sent"
    BY DEF ExchangeRefused
  <2>6. ExchangeDone(e) => e.stage = "minted" /\ On(r, "sent", b)'
    BY <1>1, <2>1 DEF ExchangeDone, Sent, On
  <2>7. CASE UpstreamRestarts \/ UpstreamForgets \/ SessionAges \/ UNCHANGED vars
    <3>1. UNCHANGED <<requests, exchanges>>
      BY <2>7 DEF UpstreamRestarts, UpstreamForgets, SessionAges, vars
    <3> QED
      BY <1>1, <3>1, <2>3, <2>4, <2>5, <2>6, <2>1 DEF ExchangeStep
  <2>8. ExchangeStep => Mint(e) \/ ExchangeDone(e) \/ ExchangeRefused(e)
    BY <2>1 DEF ExchangeStep
  <2> HIDE DEF vars
  <2> QED
    BY <2>1, <2>2, <2>3, <2>4, <2>5, <2>6, <2>7, <2>8 DEF Next
<1> QED
  BY <1>1 DEF AtStage

\* A request on the wire, or with its answer.
LEMMA WireStep ==
    ASSUME IInv, [Next]_vars, NEW r \in Requests, NEW b \in BOOLEAN
    PROVE  /\ On(r, "sent", b) =>
                On(r, "sent", b)' \/ On(r, "reply", b)' \/ Answered(r)'
           /\ On(r, "reply", b) =>
                \/ On(r, "reply", b)' \/ Answered(r)'
                \/ b /\ AtStage(r, FALSE, "sent")'
                \/ b /\ AtStage(r, FALSE, "minted")'
           /\ On(r, "sent", b) /\ RequestStep(r) => On(r, "reply", b)'
           /\ On(r, "reply", b) /\ RequestStep(r) =>
                \/ Answered(r)'
                \/ b /\ AtStage(r, FALSE, "sent")'
                \/ b /\ AtStage(r, FALSE, "minted")'
<1>1. Handle(r) =>
         /\ requests[r].pc = "sent"
         /\ \A c \in BOOLEAN : On(r, "sent", c) => On(r, "reply", c)'
  BY DEF Handle, On, IInv, TypeOK
<1>2. Relay(r) => requests[r].pc = "reply" /\ Answered(r)'
  BY DEF Relay, Answered, End, Over, IInv, TypeOK
<1>3. Retry(r) =>
         /\ requests[r].pc = "reply"
         /\ requests[r].retry
         /\ AtStage(r, FALSE, "sent")' \/ AtStage(r, FALSE, "minted")'
  <2> SUFFICES ASSUME Retry(r)
               PROVE  AtStage(r, FALSE, "sent")' \/ AtStage(r, FALSE, "minted")'
    BY DEF Retry, MayRetry
  <2>1. /\ requests[r].gone \in BOOLEAN
        /\ CookieHeader(r, None, FALSE, requests[r].gone)
        /\ ~IsFresh(None)
    BY Kept DEF Retry, IInv, IsFresh
  <2>2. /\ requests'[r].pc = "waiting" /\ requests'[r].retry = FALSE
        /\ inflight' # None
        /\ SharedExchange'
    BY <2>1, CookieStep
  <2>3. \E e \in exchanges' : e.stage \in {"sent", "minted"}
    BY <2>2 DEF SharedExchange, Exchange
  <2> QED
    BY <2>2, <2>3 DEF AtStage
<1>4. ASSUME NEW c \in BOOLEAN, On(r, "sent", c) \/ On(r, "reply", c),
             ~RequestStep(r)
      PROVE  requests'[r] = requests[r] \/ Answered(r)'
  <2>1. RetryWithoutToken(r) \/ RequestFail(r) \/ VisitorLeaves(r) => Answered(r)'
    BY <1>4 DEF RetryWithoutToken, RequestFail, VisitorLeaves, On, End, Answered, Over, IInv, TypeOK
  <2>2. ~Forward(r) /\ ~ForwardWithoutToken(r)
    BY <1>4 DEF Forward, ForwardWithoutToken, On, Over
  <2>3. ASSUME NEW q \in Requests \ {r},
               \/ Forward(q) \/ ForwardWithoutToken(q) \/ RequestStep(q)
               \/ RetryWithoutToken(q) \/ RequestFail(q) \/ VisitorLeaves(q)
        PROVE  requests'[r] = requests[r]
    BY <2>3, OthersKeep
  <2>4. ASSUME NEW e \in exchanges,
               \/ Mint(e) \/ ExchangeDone(e) \/ ExchangeRefused(e)
               \/ ExchangeFail(e)
        PROVE  requests'[r] = requests[r]
    BY <1>4, <2>4 DEF Mint, ExchangeDone, ExchangeRefused, ExchangeFail,
                      FailWaiting, WaitsOn, On
  <2>5. CASE UpstreamRestarts \/ UpstreamForgets \/ SessionAges \/ UNCHANGED vars
    BY <2>5 DEF UpstreamRestarts, UpstreamForgets, SessionAges, vars
  <2> QED
    BY <1>4, <2>1, <2>2, <2>3, <2>4, <2>5 DEF Next, ExchangeStep
<1>5. ASSUME requests'[r] = requests[r]
      PROVE  /\ On(r, "sent", b) => On(r, "sent", b)'
             /\ On(r, "reply", b) => On(r, "reply", b)'
  BY <1>5 DEF On
<1>6. /\ On(r, "sent", b) => requests[r].pc = "sent"
      /\ On(r, "reply", b) => requests[r].pc = "reply" /\ requests[r].retry = b
  BY DEF On
<1>7. RequestStep(r) => Handle(r) \/ Relay(r) \/ Retry(r)
  BY DEF RequestStep
<1> QED
  BY <1>1, <1>2, <1>3, <1>4, <1>5, <1>6, <1>7

\* Where a request may be.
LEMMA Whereabouts ==
    ASSUME IInv, NEW r \in Requests
    PROVE  \/ Answered(r)
           \/ \E b \in BOOLEAN :
                 \/ AtStage(r, b, "sent") \/ AtStage(r, b, "minted")
                 \/ On(r, "sent", b) \/ On(r, "reply", b)
<1>1. requests[r] \in Request
  BY DEF IInv, TypeOK
<1>2. CASE requests[r].pc = "waiting"
  <2>1. inflight # None /\ requests[r].retry \in BOOLEAN
    BY <1>2, Kept DEF IInv, WaitersShare
  <2>2. \E e \in exchanges : e.stage \in {"sent", "minted"}
    BY <2>1 DEF IInv, SharedExchange, Exchange
  <2> QED
    BY <1>2, <2>1, <2>2 DEF AtStage
<1>3. CASE requests[r].pc \in {"sent", "reply"}
  BY <1>3, Kept DEF IInv, On
<1> QED
  BY <1>1, <1>2, <1>3 DEF Request, Answered

\* A waiting request is sent, or answered (the fairness of ExchangeStep).
WaitingLeadsOn(r, b) ==
    (AtStage(r, b, "sent") \/ AtStage(r, b, "minted")) ~>
    (On(r, "sent", b) \/ Answered(r))

LEMMA WaitingLeads ==
    ASSUME NEW r \in Requests, NEW b \in BOOLEAN
    PROVE  FairSpec /\ []NobodyStuck => WaitingLeadsOn(r, b)
<1>1. IInv /\ [Next]_vars =>
         /\ AtStage(r, b, "sent") =>
                \/ AtStage(r, b, "sent")' \/ AtStage(r, b, "minted")'
                \/ Answered(r)'
         /\ AtStage(r, b, "minted") =>
                \/ AtStage(r, b, "minted")' \/ On(r, "sent", b)'
                \/ Answered(r)'
  BY WaitingStep
<1>2. IInv /\ [Next]_vars /\ <<ExchangeStep>>_vars =>
         /\ AtStage(r, b, "sent") => AtStage(r, b, "minted")' \/ Answered(r)'
         /\ AtStage(r, b, "minted") => On(r, "sent", b)'
  BY WaitingStep
<1>3. NobodyStuck /\ (AtStage(r, b, "sent") \/ AtStage(r, b, "minted")) =>
         ENABLED <<ExchangeStep>>_vars
  BY DEF AtStage, NobodyStuck
<1> QED
  BY <1>1, <1>2, <1>3, Invariance, PTL
     DEF FairSpec, Spec, ExchangesEnd, WaitingLeadsOn

\* The request waits for its second cookie.
Again(r, b) ==
    b /\ (AtStage(r, FALSE, "sent") \/ AtStage(r, FALSE, "minted"))

\* A request on the wire is answered, or waits for its second cookie.
WireLeadsOn(r, b) ==
    (On(r, "sent", b) \/ On(r, "reply", b)) ~>
    (Answered(r) \/ Again(r, b))

LEMMA WireLeads ==
    ASSUME NEW r \in Requests, NEW b \in BOOLEAN
    PROVE  FairSpec /\ []NobodyStuck => WireLeadsOn(r, b)
<1>1. IInv /\ [Next]_vars =>
         /\ On(r, "sent", b) =>
                On(r, "sent", b)' \/ On(r, "reply", b)' \/ Answered(r)'
         /\ On(r, "reply", b) =>
                \/ On(r, "reply", b)' \/ Answered(r)' \/ Again(r, b)'
  BY WireStep DEF Again
<1>2. IInv /\ [Next]_vars /\ <<RequestStep(r)>>_vars =>
         /\ On(r, "sent", b) => On(r, "reply", b)'
         /\ On(r, "reply", b) =>
                Answered(r)' \/ Again(r, b)'
  BY WireStep DEF Again
<1>3. NobodyStuck /\ (On(r, "sent", b) \/ On(r, "reply", b)) =>
         ENABLED <<RequestStep(r)>>_vars
  BY DEF On, NobodyStuck
<1>4. FairSpec => Spec /\ UpstreamAnswers(r)
  BY DEF FairSpec
<1> QED
  BY <1>1, <1>2, <1>3, <1>4, Invariance, PTL
     DEF Spec, UpstreamAnswers, WireLeadsOn

\* Every forwarded request is answered, or its visitor leaves, however often
\* the upstream restarts or fails meanwhile (forwardHttp and its one retry).
THEOREM EveryRequestAnswered ==
    FairSpec /\ []NobodyStuck => RequestsAnswered
<1> SUFFICES ASSUME NEW r \in Requests
             PROVE  FairSpec /\ []NobodyStuck =>
                       (requests[r].pc \notin Over ~> requests[r].pc \in Over)
  BY DEF RequestsAnswered
<1>1. FairSpec /\ []NobodyStuck =>
         WaitingLeadsOn(r, TRUE) /\ WaitingLeadsOn(r, FALSE)
  BY WaitingLeads
<1>2. FairSpec /\ []NobodyStuck =>
         WireLeadsOn(r, TRUE) /\ WireLeadsOn(r, FALSE)
  BY WireLeads
<1>3. IInv =>
         \/ Answered(r)
         \/ AtStage(r, TRUE, "sent") \/ AtStage(r, TRUE, "minted")
         \/ On(r, "sent", TRUE) \/ On(r, "reply", TRUE)
         \/ AtStage(r, FALSE, "sent") \/ AtStage(r, FALSE, "minted")
         \/ On(r, "sent", FALSE) \/ On(r, "reply", FALSE)
  BY Whereabouts
<1>4. Answered(r) <=> requests[r].pc \in Over
  BY DEF Answered
<1>5. /\ Again(r, TRUE) =>
            AtStage(r, FALSE, "sent") \/ AtStage(r, FALSE, "minted")
      /\ ~Again(r, FALSE)
  BY DEF Again
<1> QED
  BY <1>1, <1>2, <1>3, <1>4, <1>5, Invariance, PTL
     DEF FairSpec, WaitingLeadsOn, WireLeadsOn

----------------------------------------------------------------------------
(* Visitors are served again *)

\* The exchange on the wire, if there is one, brings a cookie the upstream
\* accepts.
Clean ==
    \A e \in exchanges :
        e.token = launch /\ (e.stage = "minted" => e.epoch = epoch)

\* A request on the wire with a cookie the upstream accepts, or with another;
\* one that was accepted, or answered 401.
Carries(r, b, ok) == On(r, "sent", b) /\ (requests[r].epoch = epoch <=> ok)

Hears(r, b, ok) == On(r, "reply", b) /\ requests[r].accepted = ok

Served(r) == requests[r].pc = "ok"

Ended(r) == Answered(r) /\ ~Served(r)

\* Without faults only requests and the exchange go on.
LEMMA QuietNext ==
    ASSUME IInv, [Next]_vars, UNCHANGED faults
    PROVE  /\ UNCHANGED <<launch, epoch>>
           /\ \/ \E q \in Requests : Forward(q) \/ RequestStep(q)
              \/ \E e \in exchanges :
                    Mint(e) \/ ExchangeDone(e) \/ ExchangeRefused(e)
              \/ UNCHANGED vars
<1>1. faults \in Nat
  BY ProxyAssumption DEF IInv, TypeOK
<1>2. \A kind : ~Fault(kind)
  BY <1>1 DEF Fault
<1>3. \/ \E q \in Requests : Forward(q) \/ RequestStep(q)
      \/ \E e \in exchanges :
            Mint(e) \/ ExchangeDone(e) \/ ExchangeRefused(e)
      \/ UNCHANGED vars
  BY <1>2 DEF Next, ExchangeStep, ForwardWithoutToken, RetryWithoutToken,
              RequestFail, VisitorLeaves, ExchangeFail, UpstreamRestarts, UpstreamForgets,
              SessionAges
<1>4. UNCHANGED <<launch, epoch>>
  BY <1>3 DEF Forward, RequestStep, Handle, Relay, Retry, Mint, ExchangeDone,
              ExchangeRefused, vars
<1> QED
  BY <1>3, <1>4

\* What cookieHeader leaves on the wire is what was there, or a new exchange
\* of the token on offer.
LEMMA OnTheWire ==
    ASSUME IInv, NEW q \in Requests, Forward(q) \/ RequestStep(q)
    PROVE  \/ exchanges' = exchanges
           \/ \E x \in Exchanges : exchanges' =
                {[id |-> x, token |-> launch, epoch |-> 0, stage |-> "sent"]}
<1>1. ASSUME NEW held, NEW b, NEW g, CookieHeader(q, held, b, g)
      PROVE  \/ exchanges' = exchanges
             \/ \E x \in Exchanges : exchanges' =
                  {[id |-> x, token |-> launch, epoch |-> 0, stage |-> "sent"]}
  <2>1. inflight = None => exchanges = {}
    BY ProxyAssumption DEF IInv, SharedExchange, Exchange
  <2> QED
    BY <1>1, <2>1 DEF CookieHeader
<1>2. CASE Forward(q) \/ Retry(q)
  BY <1>1, <1>2 DEF Forward, Retry
<1>3. CASE Handle(q) \/ Relay(q)
  BY <1>3 DEF Handle, Relay
<1> QED
  BY <1>2, <1>3 DEF RequestStep

\* Once faults are over the exchange stays clean, and ends clean.
LEMMA CleanStays ==
    ASSUME IInv, [Next]_vars, UNCHANGED faults
    PROVE  /\ Clean => Clean'
           /\ ExchangeStep => Clean'
<1>1. UNCHANGED <<launch, epoch>>
  BY QuietNext
<1>2. ASSUME NEW q \in Requests, Forward(q) \/ RequestStep(q)
      PROVE  Clean => Clean'
  BY <1>1, <1>2, OnTheWire DEF Clean
<1>3. ASSUME NEW e \in exchanges, Mint(e)
      PROVE  Clean'
  <2>1. e \in Exchange /\ exchanges = {e}
    BY TheExchange
  <2>2. exchanges' = {[e EXCEPT !.stage = "minted", !.epoch = epoch]}
    BY <1>3, <2>1 DEF Mint
  <2> QED
    BY <1>1, <1>3, <2>1, <2>2 DEF Mint, Clean, Exchange
<1>4. ASSUME NEW e \in exchanges, ExchangeDone(e) \/ ExchangeRefused(e)
      PROVE  Clean'
  BY <1>4, ExchangeOverStep DEF ExchangeDone, ExchangeRefused, Clean
<1>5. UNCHANGED vars => (Clean => Clean')
  BY DEF vars, Clean
<1> QED
  BY <1>2, <1>3, <1>4, <1>5, QuietNext DEF ExchangeStep

\* Who waits on a clean exchange gets a cookie the upstream accepts.
LEMMA QuietWaiting ==
    ASSUME IInv, Clean, [Next]_vars, UNCHANGED faults,
           NEW r \in Requests, NEW b \in BOOLEAN
    PROVE  /\ AtStage(r, b, "sent") =>
                AtStage(r, b, "sent")' \/ AtStage(r, b, "minted")'
           /\ AtStage(r, b, "minted") =>
                AtStage(r, b, "minted")' \/ Carries(r, b, TRUE)'
           /\ AtStage(r, b, "sent") /\ ExchangeStep => AtStage(r, b, "minted")'
           /\ AtStage(r, b, "minted") /\ ExchangeStep => Carries(r, b, TRUE)'
<1>1. ASSUME requests[r].pc = "waiting", requests[r].retry = b,
             NEW e \in exchanges
      PROVE  /\ \/ /\ requests'[r].pc = "waiting" /\ requests'[r].retry = b
                   /\ exchanges' = exchanges
                \/ e.stage = "sent" /\ AtStage(r, b, "minted")'
                \/ e.stage = "minted" /\ Carries(r, b, TRUE)'
             /\ ExchangeStep =>
                \/ e.stage = "sent" /\ AtStage(r, b, "minted")'
                \/ e.stage = "minted" /\ Carries(r, b, TRUE)'
  <2>1. exchanges = {e} /\ WaitsOn(r, e)
    BY <1>1, TheExchange
  <2>2. ASSUME NEW q \in Requests, Forward(q) \/ RequestStep(q)
        PROVE  /\ requests'[r].pc = "waiting" /\ requests'[r].retry = b
               /\ exchanges' = exchanges
    <3>1. q # r
      BY <1>1, <2>2 DEF Forward, RequestStep, Handle, Relay, Retry, Over
    <3> QED
      BY <1>1, <2>2, <3>1, OthersKeep
  <2>3. Mint(e) => e.stage = "sent" /\ AtStage(r, b, "minted")'
    BY <1>1, MintStage DEF AtStage
  <2>4. ~ExchangeRefused(e)
    BY <1>1 DEF ExchangeRefused, Clean
  <2>5. ExchangeDone(e) => e.stage = "minted" /\ Carries(r, b, TRUE)'
    BY <1>1, <2>1 DEF ExchangeDone, Sent, Established, On, Carries, Clean
  <2>6. ExchangeStep => Mint(e) \/ ExchangeDone(e)
    BY <2>1, <2>4 DEF ExchangeStep
  <2>7. UNCHANGED vars => UNCHANGED <<requests, exchanges>>
    BY DEF vars
  <2> QED
    BY <1>1, <2>1, <2>2, <2>3, <2>4, <2>5, <2>6, <2>7, QuietNext
<1> QED
  BY <1>1 DEF AtStage

\* A safe request with a good cookie is served; one with a stale cookie starts
\* over if it may, and ends otherwise.
LEMMA QuietWire ==
    ASSUME IInv, [Next]_vars, UNCHANGED faults,
           NEW r \in Safe, NEW b \in BOOLEAN, NEW ok \in BOOLEAN
    PROVE  /\ Carries(r, b, ok) => Carries(r, b, ok)' \/ Hears(r, b, ok)'
           /\ Carries(r, b, ok) /\ RequestStep(r) => Hears(r, b, ok)'
           /\ Hears(r, b, ok) =>
                \/ Hears(r, b, ok)'
                \/ ok /\ Served(r)'
                \/ ~ok /\ ~b /\ Ended(r)'
                \/ ~ok /\ Again(r, b)'
           /\ Hears(r, b, ok) /\ RequestStep(r) =>
                \/ ok /\ Served(r)'
                \/ ~ok /\ ~b /\ Ended(r)'
                \/ ~ok /\ Again(r, b)'
<1> r \in Requests
  BY ProxyAssumption
<1>1. Handle(r) =>
         /\ requests[r].pc = "sent"
         /\ Carries(r, b, ok) => Hears(r, b, ok)'
  BY DEF Handle, Carries, Hears, On, IInv, TypeOK
<1>2. Relay(r) =>
         /\ requests[r].pc = "reply"
         /\ requests[r].accepted => Served(r)'
         /\ ~requests[r].accepted => Ended(r)' /\ ~requests[r].retry
  BY DEF Relay, MayRetry, Served, Ended, Answered, End, Over, IInv, TypeOK
<1>3. Retry(r) =>
         /\ requests[r].pc = "reply"
         /\ ~requests[r].accepted
         /\ On(r, "reply", b) => Again(r, b)'
  <2>1. Retry(r) => RequestStep(r) /\ ~Answered(r)'
    <3>1. Retry(r) => requests'[r].pc = "waiting"
      <4> SUFFICES ASSUME Retry(r)
                   PROVE  requests'[r].pc = "waiting"
        OBVIOUS
      <4>1. /\ requests[r].gone \in BOOLEAN
            /\ CookieHeader(r, None, FALSE, requests[r].gone)
            /\ ~IsFresh(None)
        BY Kept DEF Retry, IInv, IsFresh
      <4> QED
        BY <4>1, CookieStep
    <3> QED
      BY <3>1 DEF RequestStep, Answered, Over
  <2> QED
    BY <2>1, WireStep DEF Retry, Again
<1>4. ASSUME On(r, "sent", b) \/ On(r, "reply", b), ~RequestStep(r)
      PROVE  requests'[r] = requests[r]
  <2>1. ~Forward(r)
    BY <1>4 DEF Forward, On, Over
  <2>2. ASSUME NEW q \in Requests \ {r}, Forward(q) \/ RequestStep(q)
        PROVE  requests'[r] = requests[r]
    BY <2>2, OthersKeep
  <2>3. ASSUME NEW e \in exchanges,
               Mint(e) \/ ExchangeDone(e) \/ ExchangeRefused(e)
        PROVE  requests'[r] = requests[r]
    BY <1>4, <2>3 DEF Mint, ExchangeDone, ExchangeRefused, FailWaiting,
                      WaitsOn, On
  <2>4. UNCHANGED vars => requests'[r] = requests[r]
    BY DEF vars
  <2> QED
    BY <1>4, <2>1, <2>2, <2>3, <2>4, QuietNext
<1>5. ASSUME requests'[r] = requests[r]
      PROVE  /\ Carries(r, b, ok) => Carries(r, b, ok)'
             /\ Hears(r, b, ok) => Hears(r, b, ok)'
  BY <1>5, QuietNext DEF On, Carries, Hears
<1>6. /\ Carries(r, b, ok) => On(r, "sent", b) /\ requests[r].pc = "sent"
      /\ Hears(r, b, ok) =>
           /\ On(r, "reply", b) /\ requests[r].pc = "reply"
           /\ requests[r].accepted = ok /\ requests[r].retry = b
  BY DEF Carries, Hears, On
<1>7. RequestStep(r) => Handle(r) \/ Relay(r) \/ Retry(r)
  BY DEF RequestStep
<1> QED
  BY <1>1, <1>2, <1>3, <1>4, <1>5, <1>6, <1>7

\* A visitor whose request ended loads again.
LEMMA QuietForward ==
    ASSUME IInv, [Next]_vars, UNCHANGED faults, NEW r \in Safe, Ended(r)
    PROVE  /\ \/ Ended(r)'
              \/ AtStage(r, TRUE, "sent")' \/ AtStage(r, TRUE, "minted")'
              \/ Carries(r, TRUE, TRUE)' \/ Carries(r, TRUE, FALSE)'
           /\ Forward(r) =>
              \/ AtStage(r, TRUE, "sent")' \/ AtStage(r, TRUE, "minted")'
              \/ Carries(r, TRUE, TRUE)' \/ Carries(r, TRUE, FALSE)'
<1> r \in Requests
  BY ProxyAssumption
<1>1. ASSUME Forward(r)
      PROVE  \/ AtStage(r, TRUE, "sent")' \/ AtStage(r, TRUE, "minted")'
             \/ Carries(r, TRUE, TRUE)' \/ Carries(r, TRUE, FALSE)'
  <2>1. /\ session \in Session \cup {None}
        /\ CookieHeader(r, session, TRUE, FALSE)
    BY <1>1 DEF Forward, IInv, TypeOK
  <2>2. /\ requests'[r].pc \in {"sent", "waiting"}
        /\ requests'[r].retry = TRUE
        /\ requests'[r].pc = "waiting" => inflight' # None
        /\ SharedExchange'
    BY <2>1, CookieStep
  <2>3. CASE requests'[r].pc = "sent"
    BY <2>2, <2>3 DEF Carries, On
  <2>4. CASE requests'[r].pc = "waiting"
    <3>1. \E e \in exchanges' : e.stage \in {"sent", "minted"}
      BY <2>2, <2>4 DEF SharedExchange, Exchange
    <3> QED
      BY <2>2, <2>4, <3>1 DEF AtStage
  <2> QED
    BY <2>2, <2>3, <2>4
<1>2. ASSUME ~Forward(r)
      PROVE  requests'[r] = requests[r]
  <2>1. ~RequestStep(r)
    BY DEF RequestStep, Handle, Relay, Retry, Ended, Answered, Over
  <2>2. ASSUME NEW q \in Requests \ {r}, Forward(q) \/ RequestStep(q)
        PROVE  requests'[r] = requests[r]
    BY <2>2, OthersKeep
  <2>3. ASSUME NEW e \in exchanges,
               Mint(e) \/ ExchangeDone(e) \/ ExchangeRefused(e)
        PROVE  requests'[r] = requests[r]
    BY <2>3 DEF Mint, ExchangeDone, ExchangeRefused, FailWaiting, WaitsOn,
                Ended, Answered, Over
  <2>4. UNCHANGED vars => requests'[r] = requests[r]
    BY DEF vars
  <2> QED
    BY <1>2, <2>1, <2>2, <2>3, <2>4, QuietNext
<1> QED
  BY <1>1, <1>2 DEF Ended, Answered, Served

\* From some point on: no more faults, and every party goes on.
Running(r) ==
    /\ []IInv
    /\ [][Next]_vars
    /\ [][UNCHANGED faults]_vars
    /\ []NobodyStuck
    /\ ExchangesEnd
    /\ UpstreamAnswers(r)
    /\ VisitorReloads(r)

\* The exchange of an earlier token, or with an earlier cookie, comes to its
\* end; no other begins.
LEMMA CleanComes == ASSUME NEW r \in Safe PROVE Running(r) => <>[]Clean
<1>1. IInv /\ [Next]_vars /\ [UNCHANGED faults]_vars =>
         /\ Clean => Clean'
         /\ ExchangeStep => Clean'
  BY CleanStays DEF vars
<1>2. NobodyStuck /\ ~Clean => ENABLED <<ExchangeStep>>_vars
  BY DEF NobodyStuck, Clean
<1> QED
  BY <1>1, <1>2, PTL DEF Running, ExchangesEnd

\* Who waits is sent with a good cookie.
CarriedOn(r, b) ==
    (AtStage(r, b, "sent") \/ AtStage(r, b, "minted")) ~> Carries(r, b, TRUE)

LEMMA QuietWaitingLeads ==
    ASSUME NEW r \in Safe, NEW b \in BOOLEAN
    PROVE  Running(r) /\ []Clean => CarriedOn(r, b)
<1>1. IInv /\ Clean /\ [Next]_vars /\ [UNCHANGED faults]_vars =>
         /\ AtStage(r, b, "sent") =>
              AtStage(r, b, "sent")' \/ AtStage(r, b, "minted")'
         /\ AtStage(r, b, "minted") =>
              AtStage(r, b, "minted")' \/ Carries(r, b, TRUE)'
         /\ AtStage(r, b, "sent") /\ ExchangeStep => AtStage(r, b, "minted")'
         /\ AtStage(r, b, "minted") /\ ExchangeStep => Carries(r, b, TRUE)'
  BY QuietWaiting, ProxyAssumption DEF vars
<1>2. NobodyStuck /\ (AtStage(r, b, "sent") \/ AtStage(r, b, "minted")) =>
         ENABLED <<ExchangeStep>>_vars
  BY DEF AtStage, NobodyStuck
<1> QED
  BY <1>1, <1>2, PTL DEF Running, ExchangesEnd, CarriedOn

\* What an answer makes of a request.
Outcome(r, b, ok) ==
    \/ ok /\ Served(r)
    \/ ~ok /\ ~b /\ Ended(r)
    \/ ~ok /\ Again(r, b)

\* Who was sent is served, ends, or waits for a second cookie.
CameOut(r, b, ok) == (Carries(r, b, ok) \/ Hears(r, b, ok)) ~> Outcome(r, b, ok)

LEMMA QuietWireLeads ==
    ASSUME NEW r \in Safe, NEW b \in BOOLEAN, NEW ok \in BOOLEAN
    PROVE  Running(r) => CameOut(r, b, ok)
<1>1. IInv /\ [Next]_vars /\ [UNCHANGED faults]_vars =>
         /\ Carries(r, b, ok) => Carries(r, b, ok)' \/ Hears(r, b, ok)'
         /\ Carries(r, b, ok) /\ RequestStep(r) => Hears(r, b, ok)'
         /\ Hears(r, b, ok) => Hears(r, b, ok)' \/ Outcome(r, b, ok)'
         /\ Hears(r, b, ok) /\ RequestStep(r) => Outcome(r, b, ok)'
  BY QuietWire DEF vars, Outcome
<1>2. NobodyStuck /\ (Carries(r, b, ok) \/ Hears(r, b, ok)) =>
         ENABLED <<RequestStep(r)>>_vars
  BY ProxyAssumption DEF NobodyStuck, Carries, Hears, On
<1> QED
  BY <1>1, <1>2, PTL DEF Running, UpstreamAnswers, CameOut

\* Who was not served loads again.
LoadedAgain(r) ==
    Ended(r) ~> (\/ AtStage(r, TRUE, "sent") \/ AtStage(r, TRUE, "minted")
                 \/ Carries(r, TRUE, TRUE) \/ Carries(r, TRUE, FALSE))

LEMMA QuietForwardLeads ==
    ASSUME NEW r \in Safe PROVE Running(r) => LoadedAgain(r)
<1>1. IInv /\ [Next]_vars /\ [UNCHANGED faults]_vars /\ Ended(r) =>
         /\ \/ Ended(r)'
            \/ AtStage(r, TRUE, "sent")' \/ AtStage(r, TRUE, "minted")'
            \/ Carries(r, TRUE, TRUE)' \/ Carries(r, TRUE, FALSE)'
         /\ Forward(r) =>
            \/ AtStage(r, TRUE, "sent")' \/ AtStage(r, TRUE, "minted")'
            \/ Carries(r, TRUE, TRUE)' \/ Carries(r, TRUE, FALSE)'
  BY QuietForward DEF vars
<1>2. NobodyStuck /\ Ended(r) => ENABLED <<Forward(r)>>_vars
  BY DEF NobodyStuck, Ended, Answered
<1> QED
  BY <1>1, <1>2, PTL DEF Running, VisitorReloads, LoadedAgain

\* Served again and again once the exchange is clean: a second answer of 401
\* cannot come, for the second cookie is of the present epoch.
LEMMA ServedAgain ==
    ASSUME NEW r \in Safe
    PROVE  Running(r) /\ []Clean => []<>Served(r)
<1>1. Running(r) /\ []Clean => CarriedOn(r, TRUE) /\ CarriedOn(r, FALSE)
  BY QuietWaitingLeads
<1>2. Running(r) => /\ CameOut(r, TRUE, TRUE) /\ CameOut(r, FALSE, TRUE)
                    /\ CameOut(r, TRUE, FALSE) /\ CameOut(r, FALSE, FALSE)
  BY QuietWireLeads
<1>3. Running(r) => LoadedAgain(r)
  BY QuietForwardLeads
<1>4. /\ \A b \in BOOLEAN : Outcome(r, b, TRUE) => Served(r)
      /\ Outcome(r, FALSE, FALSE) => Ended(r)
      /\ Outcome(r, TRUE, FALSE) =>
           AtStage(r, FALSE, "sent") \/ AtStage(r, FALSE, "minted")
  BY DEF Outcome, Again
<1>5. /\ Outcome(r, TRUE, TRUE) => Served(r)
      /\ Outcome(r, FALSE, TRUE) => Served(r)
      /\ Outcome(r, FALSE, FALSE) => Ended(r)
      /\ Outcome(r, TRUE, FALSE) =>
           AtStage(r, FALSE, "sent") \/ AtStage(r, FALSE, "minted")
  BY <1>4
<1>6. IInv =>
         \/ Served(r) \/ Ended(r)
         \/ AtStage(r, TRUE, "sent") \/ AtStage(r, TRUE, "minted")
         \/ AtStage(r, FALSE, "sent") \/ AtStage(r, FALSE, "minted")
         \/ Carries(r, TRUE, TRUE) \/ Carries(r, TRUE, FALSE)
         \/ Carries(r, FALSE, TRUE) \/ Carries(r, FALSE, FALSE)
         \/ Hears(r, TRUE, TRUE) \/ Hears(r, TRUE, FALSE)
         \/ Hears(r, FALSE, TRUE) \/ Hears(r, FALSE, FALSE)
  <2> SUFFICES ASSUME IInv, \E b \in BOOLEAN : On(r, "sent", b) \/ On(r, "reply", b)
               PROVE  \E b \in BOOLEAN :
                         \/ Carries(r, b, TRUE) \/ Carries(r, b, FALSE)
                         \/ Hears(r, b, TRUE) \/ Hears(r, b, FALSE)
    BY Whereabouts, ProxyAssumption DEF Ended
  <2>1. On(r, "reply", TRUE) \/ On(r, "reply", FALSE) =>
           requests[r].accepted \in BOOLEAN
    BY Kept, ProxyAssumption DEF IInv, On
  <2> QED
    BY <2>1 DEF Carries, Hears
<1> QED
  BY <1>1, <1>2, <1>3, <1>5, <1>6, PTL
     DEF Running, CarriedOn, CameOut, LoadedAgain

\* Once faults cease, every visitor that reloads is served again and again:
\* a stale session is dropped at the first 401 it causes, and the one after it
\* comes from an exchange that began, or was minted, in the present epoch
\* (the #invalidate and the re-mint of forwardHttp).
THEOREM HealsOnceQuiet ==
    FairSpec /\ []NobodyStuck /\ <>[][UNCHANGED faults]_vars => SessionHeals
<1> SUFFICES ASSUME NEW r \in Safe
             PROVE  FairSpec /\ []NobodyStuck /\ <>[][UNCHANGED faults]_vars =>
                       []<>(requests[r].pc = "ok")
  BY DEF SessionHeals
<1>1. FairSpec => Spec /\ ExchangesEnd /\ UpstreamAnswers(r) /\ VisitorReloads(r)
  BY ProxyAssumption DEF FairSpec
<1>2. Spec /\ ExchangesEnd /\ UpstreamAnswers(r) /\ VisitorReloads(r) /\
      []NobodyStuck /\ <>[][UNCHANGED faults]_vars => <>Running(r)
  BY Invariance, PTL
     DEF Spec, ExchangesEnd, UpstreamAnswers, VisitorReloads, Running
<1>3. Running(r) => <>[]Clean
  BY CleanComes
<1>4. Running(r) => []Running(r)
  BY PTL DEF Running, ExchangesEnd, UpstreamAnswers, VisitorReloads
<1>5. Running(r) /\ []Clean => []<>Served(r)
  BY ServedAgain
<1>6. Served(r) <=> requests[r].pc = "ok"
  BY DEF Served
<1> QED
  BY <1>1, <1>2, <1>3, <1>4, <1>5, <1>6, PTL
============================================================================
