----------------------- MODULE BillingSession_proofs -----------------------
(***************************************************************************)
(* What a request pays, for any number of requests, any quotas, fees and     *)
(* limits.  The invariant keeps books per request: what its source and its   *)
(* token have paid is what a later step may still give back (Held,           *)
(* HeldToken) and what the request owes for good, exactly so until a failure *)
(* was only logged, and never less.  The books of the subscription add up    *)
(* what all requests have paid it.                                           *)
(***************************************************************************)
EXTENDS BillingSession, FiniteSetTheorems, WellFoundedInduction, TLAPS

Places == {"new", "try", "refused", "open", "settled", "failed", "charged", "panicked"}
Before == {"new", "try", "refused"}
Running == {"open", "panicked"}
Refunding == {"funding", "extra", "token"}

RequestType == [at : Places, play : BOOLEAN, estimate : Nat, left : Orders \cup {<<>>}, due : Nat]
SessionType == [source : {"none", "wallet", "sub"}, pre : Nat, tok : Nat, extra : Nat,
                trusted : BOOLEAN, settled : BOOLEAN, refunded : BOOLEAN]
PaidType == [wallet : Int, sub : Int, token : Int]
RefundType == [at : {"idle", "funding", "extra", "token", "done"}, tries : 0..MaxTries]

Types ==
    /\ req \in [Requests -> RequestType]
    /\ session \in [Requests -> SessionType]
    /\ paid \in [Requests -> PaidType]
    /\ record \in [Requests -> {"none", "consumed", "refunded"}]
    /\ refund \in [Requests -> RefundType]
    /\ fault \in [Requests -> BOOLEAN]
    /\ period \in [ended : Nat, due : BOOLEAN]

\* Where a request and its refund stand tells what its session is like.
Phase(r) ==
    /\ req[r].at \in Before =>
          /\ session[r] = NoSession /\ record[r] = "none"
          /\ refund[r].at = "idle" /\ req[r].due = 0
    /\ req[r].at = "try" => req[r].left \in Orders
    /\ req[r].at \notin Before =>
          /\ session[r].source # "none"
          /\ session[r].tok = session[r].pre /\ session[r].extra <= session[r].pre
          /\ session[r].source = "sub" => session[r].extra < session[r].pre
    /\ req[r].at \in Running =>
          /\ refund[r].at = "idle" /\ req[r].due = 0
          /\ ~session[r].settled /\ ~session[r].refunded
          /\ session[r].source = "sub" => record[r] = "consumed"
    /\ req[r].at = "settled" => refund[r].at = "idle"
    /\ req[r].at = "failed" => req[r].due = 0
    /\ refund[r].at \in {"extra", "token"} => session[r].source = "sub"
    /\ refund[r].at = "idle" => refund[r].tries = 0
    /\ refund[r].at = "funding" => refund[r].tries < MaxTries

\* What the source has paid and a later step may give back.
Held(r) ==
    IF req[r].at \in Running THEN session[r].pre
    ELSE IF refund[r].at = "funding" /\ (session[r].source = "wallet" \/ record[r] = "consumed")
    THEN session[r].pre
    ELSE IF refund[r].at \in {"funding", "extra"} THEN session[r].extra
    ELSE 0

Token(r, n) == IF req[r].play THEN 0 ELSE n

\* The same of the token.
HeldToken(r) ==
    IF req[r].at \in Running \/ refund[r].at \in Refunding
    THEN Token(r, session[r].tok) ELSE 0

\* One source pays, what is still held and what is due.
SourceBook(r) ==
    /\ session[r].source # "wallet" => paid[r].wallet = 0
    /\ session[r].source # "sub" => paid[r].sub = 0
    /\ paid[r].wallet + paid[r].sub >= Held(r)
    /\ ~fault[r] => paid[r].wallet + paid[r].sub = Held(r) + req[r].due

\* The token pays the same, unless the request comes from the playground.
TokenBook(r) ==
    /\ paid[r].token >= HeldToken(r)
    /\ ~fault[r] => paid[r].token = HeldToken(r) + Token(r, req[r].due)

Books(r) == Phase(r) /\ SourceBook(r) /\ TokenBook(r)

\* The row of the subscription.
Row == used \in Nat /\ Within(used)

IInv == Types /\ Row /\ \A r \in Requests : Books(r)
-----------------------------------------------------------------------------

\* A step of one request leaves the others alone.
Frame(r) ==
    \A q \in Requests \ {r} :
        /\ req'[q] = req[q] /\ session'[q] = session[q] /\ paid'[q] = paid[q]
        /\ record'[q] = record[q] /\ refund'[q] = refund[q] /\ fault'[q] = fault[q]

\* The other requests' books do not change, so one request's books suffice.
LEMMA StepKeeps ==
  ASSUME IInv, NEW r \in Requests, Types', Row', Frame(r), Books(r)'
  PROVE  IInv'
<1> SUFFICES ASSUME NEW q \in Requests, q # r PROVE Books(q)'
  BY DEF IInv
<1>1. Books(q)
  BY DEF IInv
<1>2. /\ req'[q] = req[q] /\ session'[q] = session[q] /\ paid'[q] = paid[q]
      /\ record'[q] = record[q] /\ refund'[q] = refund[q] /\ fault'[q] = fault[q]
  BY DEF Frame
<1> QED
  BY <1>1, <1>2 DEF Books, Phase, SourceBook, TokenBook, Held, HeldToken, Token

\* What Took does to the books.
LEMMA TookWorks ==
  ASSUME Types, NEW r \in Requests, NEW source, NEW funding \in Int, NEW token \in Int,
         paid' = Took(r, source, funding, token)
  PROVE  /\ paid' \in [Requests -> PaidType]
         /\ \A q \in Requests \ {r} : paid'[q] = paid[q]
         /\ paid'[r].wallet = paid[r].wallet + (IF source = "wallet" THEN funding ELSE 0)
         /\ paid'[r].sub = paid[r].sub + (IF source = "sub" THEN funding ELSE 0)
         /\ paid'[r].token = paid[r].token + Token(r, token)
<1>1. paid[r] \in PaidType /\ req[r].play \in BOOLEAN
  BY DEF Types, RequestType
<1>2. /\ paid[r].wallet \in Int /\ paid[r].sub \in Int /\ paid[r].token \in Int
  BY <1>1 DEF PaidType
<1> DEFINE p == [wallet |-> paid[r].wallet + (IF source = "wallet" THEN funding ELSE 0),
                 sub |-> paid[r].sub + (IF source = "sub" THEN funding ELSE 0),
                 token |-> paid[r].token + (IF req[r].play THEN 0 ELSE token)]
<1>3. p \in PaidType
  BY <1>2 DEF PaidType
<1>4. paid' = [paid EXCEPT ![r] = p]
  BY DEF Took
<1>5. paid'[r] = p /\ paid' \in [Requests -> PaidType] /\ \A q \in Requests \ {r} : paid'[q] = paid[q]
  BY <1>3, <1>4 DEF Types
<1> QED
  BY <1>5 DEF Token

\* Nothing is reserved and nothing paid.
LEMMA SessionInit == Init => IInv
<1> SUFFICES ASSUME Init PROVE IInv
  OBVIOUS
<1> USE SessionAssumption DEF Init
<1>1. Types
  BY DEF Types, RequestType, SessionType, PaidType, RefundType, NoSession, Places, MaxTries
<1>2. Row
  BY DEF Row, Within
<1>3. ASSUME NEW r \in Requests PROVE Books(r)
  BY DEF Books, Phase, SourceBook, TokenBook, Held, HeldToken, Token, Before, Running, Refunding,
         NoSession, MaxTries
<1> QED
  BY <1>1, <1>2, <1>3 DEF IInv

\* A request that begins has no books yet.
LEMMA BeginKeeps ==
  ASSUME IInv, NEW r \in Requests, NEW play \in BOOLEAN, NEW order \in Orders, NEW q \in Quotas,
         Begin(r, play, order, q)
  PROVE  IInv'
<1> DEFINE x == [at |-> "try", play |-> play, estimate |-> q, left |-> order, due |-> 0]
<1>1. x \in RequestType
  BY SessionAssumption DEF RequestType, Places
<1>2. /\ Types /\ Row /\ Books(r) /\ req[r].at = "new" /\ req' = [req EXCEPT ![r] = x]
      /\ UNCHANGED <<session, paid, record, used, period, refund, fault>>
  BY DEF IInv, Begin
<1>3. x.at = "try" /\ x.play = play /\ x.left = order /\ x.due = 0
  OBVIOUS
<1> HIDE DEF x
<1>4. Types' /\ Row' /\ Frame(r) /\ req'[r] = x
  BY <1>1, <1>2 DEF Types, Row, Within, Frame
<1>5. Books(r)'
  BY <1>2, <1>3, <1>4 DEF Books, Phase, SourceBook, TokenBook, Held, HeldToken, Token, Before, Running,
     Refunding, NoSession, MaxTries, Types, PaidType, RefundType
<1> QED
  BY <1>4, <1>5, StepKeeps

\* The sources left to try.
LEMMA TailOfOrder == \A o \in Orders : Len(o) # 1 => Tail(o) \in Orders
<1>1. Len(<<"wallet">>) = 1 /\ Len(<<"sub">>) = 1
  OBVIOUS
<1>2. Tail(<<"wallet", "sub">>) = <<"sub">>
  OBVIOUS
<1>3. Tail(<<"sub", "wallet">>) = <<"wallet">>
  OBVIOUS
<1> QED
  BY <1>1, <1>2, <1>3, Zenon DEF Orders

\* The books of a request that has no session yet, after a step that may
\* have charged its token by mistake.
LEMMA BeforeBooks ==
  ASSUME IInv, NEW r \in Requests, req[r].at = "try",
         Types', UNCHANGED <<session, record, refund>>,
         req'[r].at \in {"try", "refused"}, req'[r].due = req[r].due, req'[r].play = req[r].play,
         req'[r].at = "try" => req'[r].left \in Orders,
         paid'[r].wallet = paid[r].wallet, paid'[r].sub = paid[r].sub,
         \/ paid'[r].token = paid[r].token /\ fault'[r] = fault[r]
         \/ paid'[r].token >= paid[r].token /\ fault'[r]
  PROVE  Books(r)'
<1>1. Books(r) /\ Types
  BY DEF IInv
<1>2. paid[r] \in PaidType /\ paid'[r] \in PaidType /\ fault[r] \in BOOLEAN
  BY <1>1 DEF Types
<1>3. paid[r].token \in Int /\ paid'[r].token \in Int
  BY <1>2 DEF PaidType
<1>4. session[r] = NoSession /\ record[r] = "none" /\ refund[r].at = "idle" /\ req[r].due = 0
  BY <1>1 DEF Books, Phase, Before
<1>5. Phase(r)'
  BY <1>1, <1>4 DEF Books, Phase, Before, Running
<1>6. SourceBook(r)'
  BY <1>1, <1>4 DEF Books, SourceBook, Held, Running
<1>7. TokenBook(r)'
  BY <1>1, <1>3, <1>4 DEF Books, TokenBook, HeldToken, Token, Running, Refunding
<1> QED
  BY <1>5, <1>6, <1>7 DEF Books

\* The factory returns.
LEMMA ReturnWorks ==
  ASSUME Types, NEW r \in Requests, NEW at \in Places, Return(r, at)
  PROVE  /\ req' \in [Requests -> RequestType]
         /\ \A q \in Requests \ {r} : req'[q] = req[q]
         /\ req'[r].at = at /\ req'[r].due = req[r].due /\ req'[r].play = req[r].play
<1> DEFINE x == [req[r] EXCEPT !.at = at, !.left = <<>>, !.estimate = 0]
<1>1. req \in [Requests -> RequestType] /\ req[r] \in RequestType
  BY DEF Types
<1>2. x \in RequestType /\ x.at = at /\ x.due = req[r].due /\ x.play = req[r].play
  BY <1>1 DEF RequestType
<1>3. req' = [req EXCEPT ![r] = x]
  BY DEF Return
<1> HIDE DEF x
<1> QED
  BY <1>1, <1>2, <1>3

\* What the next source, or a refusal, leaves of the request.
LEMMA SourcesLeft ==
  ASSUME IInv, NEW r \in Requests, req[r].at = "try", NextSource(r) \/ Refused(r)
  PROVE  /\ req' \in [Requests -> RequestType]
         /\ \A q \in Requests \ {r} : req'[q] = req[q]
         /\ req'[r].at \in {"try", "refused"} /\ req'[r].due = req[r].due /\ req'[r].play = req[r].play
         /\ req'[r].at = "try" => req'[r].left \in Orders
<1>1. req \in [Requests -> RequestType] /\ req[r].left \in Orders
  BY DEF IInv, Types, Books, Phase
<1>2. CASE Refused(r)
  BY <1>2, ReturnWorks DEF IInv, Refused, Places
<1>3. CASE Len(req[r].left) # 1 /\ req' = [req EXCEPT ![r].left = Tail(@)]
  <2>1. Tail(req[r].left) \in Orders
    BY <1>1, <1>3, TailOfOrder
  <2> DEFINE t == Tail(req[r].left)
  <2>2. req' = [req EXCEPT ![r].left = t]
    BY <1>3
  <2> HIDE DEF t
  <2>3. t \in Orders
    BY <2>1 DEF t
  <2> QED
    BY <1>1, <2>2, <2>3 DEF RequestType
<1> QED
  BY <1>2, <1>3 DEF NextSource

\* The types of what the books of a request mention.
LEMMA TypesAt ==
  ASSUME Types, NEW r \in Requests
  PROVE  /\ session[r].pre \in Nat /\ session[r].tok \in Nat /\ session[r].extra \in Nat
         /\ session[r].source \in {"none", "wallet", "sub"}
         /\ paid[r].wallet \in Int /\ paid[r].sub \in Int /\ paid[r].token \in Int
         /\ req[r].at \in Places /\ req[r].play \in BOOLEAN
         /\ req[r].due \in Nat /\ req[r].estimate \in Nat
         /\ refund[r].at \in {"idle", "funding", "extra", "token", "done"}
         /\ refund[r].tries \in Nat
         /\ record[r] \in {"none", "consumed", "refunded"} /\ fault[r] \in BOOLEAN
<1>1. /\ session[r] \in SessionType /\ paid[r] \in PaidType /\ req[r] \in RequestType
      /\ refund[r] \in RefundType /\ record[r] \in {"none", "consumed", "refunded"}
      /\ fault[r] \in BOOLEAN
  BY DEF Types
<1> QED
  BY <1>1 DEF SessionType, PaidType, RequestType, RefundType, MaxTries

\* The session that NewBillingSession returns.
LEMMA OpenBooks ==
  ASSUME IInv, NEW r \in Requests, req[r].at = "try", Opened(r),
         NEW source \in {"wallet", "sub"}, NEW q \in Nat, NEW s \in SessionType,
         source = "sub" => q > 0,
         paid' = Took(r, source, q, q),
         session' = [session EXCEPT ![r] = s],
         s.source = source, s.pre = q, s.tok = q, s.extra = 0, ~s.settled, ~s.refunded,
         source = "sub" => record' = [record EXCEPT ![r] = "consumed"],
         source = "wallet" => record' = record,
         UNCHANGED <<refund, fault>>, Row', period' \in [ended : Nat, due : BOOLEAN]
  PROVE  IInv'
<1>1. Types /\ Books(r)
  BY DEF IInv
<1>4. /\ req' \in [Requests -> RequestType] /\ \A p \in Requests \ {r} : req'[p] = req[p]
      /\ req'[r].at = "open" /\ req'[r].play = req[r].play /\ req'[r].due = req[r].due
  BY <1>1, ReturnWorks DEF Opened, Places
<1>5. /\ paid' \in [Requests -> PaidType]
      /\ \A p \in Requests \ {r} : paid'[p] = paid[p]
      /\ paid'[r].wallet = paid[r].wallet + (IF source = "wallet" THEN q ELSE 0)
      /\ paid'[r].sub = paid[r].sub + (IF source = "sub" THEN q ELSE 0)
      /\ paid'[r].token = paid[r].token + Token(r, q)
  BY <1>1, TookWorks
<1>6. session' \in [Requests -> SessionType] /\ session'[r] = s
      /\ \A p \in Requests \ {r} : session'[p] = session[p]
  BY <1>1 DEF Types
<1>7. /\ record' \in [Requests -> {"none", "consumed", "refunded"}]
      /\ \A p \in Requests \ {r} : record'[p] = record[p]
      /\ source = "sub" => record'[r] = "consumed"
  BY <1>1 DEF Types
<1>8. Types' /\ Frame(r)
  BY <1>1, <1>4, <1>5, <1>6, <1>7 DEF Types, Frame
<1>9. /\ paid[r].wallet = 0 /\ paid[r].sub = 0 /\ paid[r].token >= 0 /\ paid[r].token \in Int
      /\ ~fault[r] => paid[r].token = 0
      /\ refund[r].at = "idle" /\ req[r].due = 0 /\ refund[r].tries = 0
  BY <1>1, TypesAt DEF Books, Phase, SourceBook, TokenBook, HeldToken, Token, Before, Running,
     Refunding, NoSession
<1>10. Phase(r)'
  <2>1. req'[r].at \notin Before /\ req'[r].at \in Running /\ req'[r].at = "open" /\ req'[r].due = 0
    BY <1>4, <1>9 DEF Before, Running
  <2>2. refund'[r].at = "idle" /\ refund'[r].tries = 0
    BY <1>9
  <2>3. /\ session'[r].source = source /\ session'[r].pre = q /\ session'[r].tok = q
        /\ session'[r].extra = 0 /\ ~session'[r].settled /\ ~session'[r].refunded
    BY <1>6
  <2> QED
    BY <1>7, <2>1, <2>2, <2>3 DEF Phase
<1>11. SourceBook(r)'
  BY <1>4, <1>5, <1>6, <1>9 DEF SourceBook, Held, Running
<1>12. TokenBook(r)'
  BY <1>1, <1>4, <1>5, <1>6, <1>9, TypesAt DEF TokenBook, HeldToken, Token, Running
<1> QED
  BY <1>8, <1>10, <1>11, <1>12, StepKeeps DEF Books

\* The wallet pays the reservation, nothing when the request is trusted, or
\* the next source is tried.
LEMMA TryWalletKeeps ==
  ASSUME IInv, NEW r \in Requests, TryWallet(r)
  PROVE  IInv'
<1>1. /\ Types /\ Row /\ req[r].at = "try" /\ UNCHANGED <<record, used, period, refund, fault>>
  BY DEF IInv, TryWallet, Trying
<1>2. Row' /\ period' \in [ended : Nat, due : BOOLEAN]
  BY <1>1 DEF Row, Within, Types
<1>3. ASSUME NEW trusted \in BOOLEAN, NEW q, q = IF trusted THEN 0 ELSE req[r].estimate, Opened(r),
             paid' = Took(r, "wallet", q, q),
             session' = [session EXCEPT ![r] = [NoSession EXCEPT
                        !.source = "wallet", !.pre = q, !.tok = q, !.trusted = trusted]]
      PROVE  IInv'
  <2>1. q \in Nat
    BY <1>1, <1>3, TypesAt
  <2> DEFINE s == [NoSession EXCEPT !.source = "wallet", !.pre = q, !.tok = q, !.trusted = trusted]
  <2>2. /\ s \in SessionType /\ s.source = "wallet" /\ s.pre = q /\ s.tok = q /\ s.extra = 0
        /\ ~s.settled /\ ~s.refunded
    BY <2>1 DEF SessionType, NoSession
  <2>3. session' = [session EXCEPT ![r] = s]
    BY <1>3
  <2> HIDE DEF s
  <2> QED
    BY <1>1, <1>2, <1>3, <2>1, <2>2, <2>3, OpenBooks
<1>4. CASE (NextSource(r) \/ Refused(r)) /\ UNCHANGED <<session, paid>>
  <2>1. /\ req' \in [Requests -> RequestType]
        /\ \A q \in Requests \ {r} : req'[q] = req[q]
        /\ req'[r].at \in {"try", "refused"} /\ req'[r].due = req[r].due /\ req'[r].play = req[r].play
        /\ req'[r].at = "try" => req'[r].left \in Orders
    BY <1>1, <1>4, SourcesLeft
  <2>2. Types' /\ Frame(r)
    BY <1>1, <1>4, <2>1 DEF Types, Frame
  <2>3. Books(r)'
    BY <1>1, <1>4, <2>1, <2>2, BeforeBooks
  <2> QED
    BY <1>2, <2>2, <2>3, StepKeeps
<1> QED
  BY <1>3, <1>4 DEF TryWallet

\* The subscription pays the reservation; a token that is not given back after
\* a refusal is a fault.
LEMMA TrySubscriptionKeeps ==
  ASSUME IInv, NEW r \in Requests, TrySubscription(r)
  PROVE  IInv'
<1> DEFINE amount == SubConsume(r)
           before == IF period.due THEN 0 ELSE used
<1>1. Types /\ Row /\ req[r].at = "try" /\ UNCHANGED refund
  BY DEF IInv, TrySubscription, Trying
<1>2. amount \in Nat /\ amount > 0 /\ before \in Nat
  BY <1>1, TypesAt DEF SubConsume, Row
<1>3. CASE /\ Within(before + amount) /\ Opened(r)
           /\ paid' = Took(r, "sub", amount, amount)
           /\ used' = before + amount /\ period' = [period EXCEPT !.due = FALSE]
           /\ record' = [record EXCEPT ![r] = "consumed"]
           /\ session' = [session EXCEPT ![r] = [NoSession EXCEPT
                     !.source = "sub", !.pre = amount, !.tok = amount]]
           /\ UNCHANGED fault
  <2> HIDE DEF amount, before
  <2>1. Row' /\ period' \in [ended : Nat, due : BOOLEAN]
    <3>1. period \in [ended : Nat, due : BOOLEAN] /\ period' = [period EXCEPT !.due = FALSE]
      BY <1>1, <1>3 DEF Types
    <3>2. Row'
      BY <1>2, <1>3 DEF Row, Within
    <3> QED
      BY <3>1, <3>2
  <2> DEFINE s == [NoSession EXCEPT !.source = "sub", !.pre = amount, !.tok = amount]
  <2>2. /\ s \in SessionType /\ s.source = "sub" /\ s.pre = amount /\ s.tok = amount /\ s.extra = 0
        /\ ~s.settled /\ ~s.refunded
    BY <1>2 DEF SessionType, NoSession
  <2>3. session' = [session EXCEPT ![r] = s]
    BY <1>3
  <2> HIDE DEF s
  <2> QED
    BY <1>1, <1>2, <1>3, <2>1, <2>2, <2>3, OpenBooks
<1>4. CASE /\ NextSource(r) \/ Refused(r)
           /\ \/ UNCHANGED <<paid, fault>>
              \/ /\ paid' = Took(r, "sub", 0, amount)
                 /\ fault' = [fault EXCEPT ![r] = TRUE]
           /\ UNCHANGED <<session, record, used, period>>
  <2> HIDE DEF amount, before
  <2>1. /\ req' \in [Requests -> RequestType]
        /\ \A q \in Requests \ {r} : req'[q] = req[q]
        /\ req'[r].at \in {"try", "refused"} /\ req'[r].due = req[r].due /\ req'[r].play = req[r].play
        /\ req'[r].at = "try" => req'[r].left \in Orders
    BY <1>1, <1>4, SourcesLeft
  <2>2. Row'
    BY <1>1, <1>4 DEF Row, Within
  <2>3. CASE UNCHANGED <<paid, fault>>
    <3>1. Types' /\ Frame(r)
      BY <1>1, <1>4, <2>1, <2>3 DEF Types, Frame
    <3>2. Books(r)'
      BY <1>1, <1>4, <2>1, <2>3, <3>1, BeforeBooks
    <3> QED
      BY <2>2, <3>1, <3>2, StepKeeps
  <2>4. CASE paid' = Took(r, "sub", 0, amount) /\ fault' = [fault EXCEPT ![r] = TRUE]
    <3>1. /\ paid' \in [Requests -> PaidType]
          /\ \A q \in Requests \ {r} : paid'[q] = paid[q]
          /\ paid'[r].wallet = paid[r].wallet + (IF "sub" = "wallet" THEN 0 ELSE 0)
          /\ paid'[r].sub = paid[r].sub + (IF "sub" = "sub" THEN 0 ELSE 0)
          /\ paid'[r].token = paid[r].token + Token(r, amount)
      BY <1>1, <1>2, <2>4, TookWorks
    <3>2. Types' /\ Frame(r) /\ fault'[r]
      BY <1>1, <1>4, <2>1, <2>4, <3>1 DEF Types, Frame
    <3>3. /\ paid'[r].wallet = paid[r].wallet /\ paid'[r].sub = paid[r].sub
          /\ paid'[r].token >= paid[r].token
      BY <1>1, <1>2, <3>1, TypesAt DEF Token
    <3>4. Books(r)'
      BY <1>1, <1>4, <2>1, <3>2, <3>3, BeforeBooks
    <3> QED
      BY <2>2, <3>2, <3>4, StepKeeps
  <2> QED
    BY <1>4, <2>3, <2>4
<1>5. CASE Refused(r) /\ UNCHANGED <<session, paid, record, used, period, fault>>
  BY <1>4, <1>5
<1> QED
  BY <1>3, <1>4, <1>5 DEF TrySubscription

\* A raised reservation is held like the first one.
LEMMA ReserveKeeps ==
  ASSUME IInv, NEW r \in Requests, NEW target \in Quotas, Reserve(r, target)
  PROVE  IInv'
<1> DEFINE delta == target - session[r].pre
<1>1. /\ Types /\ Row /\ Books(r) /\ req[r].at = "open" /\ target \in Nat
      /\ UNCHANGED <<req, record, period, refund, fault>>
  BY SessionAssumption DEF IInv, Reserve, CanRaise
<1>2. delta \in Nat
  BY <1>1, TypesAt DEF Reserve, CanRaise
<1>3. /\ paid' = Took(r, session[r].source, delta, delta)
      /\ session' = [session EXCEPT ![r].pre = @ + delta, ![r].tok = @ + delta, ![r].extra = @ + delta]
      /\ used' = IF session[r].source = "sub" THEN used + delta ELSE used
      /\ session[r].source = "sub" => Within(used + delta)
  BY DEF Reserve, CanRaise, Fits
<1> HIDE DEF delta
<1>4. Row'
  BY <1>1, <1>2, <1>3 DEF Row, Within
<1>5. /\ paid' \in [Requests -> PaidType]
      /\ \A p \in Requests \ {r} : paid'[p] = paid[p]
      /\ paid'[r].wallet = paid[r].wallet + (IF session[r].source = "wallet" THEN delta ELSE 0)
      /\ paid'[r].sub = paid[r].sub + (IF session[r].source = "sub" THEN delta ELSE 0)
      /\ paid'[r].token = paid[r].token + Token(r, delta)
  BY <1>1, <1>2, <1>3, TookWorks
<1>6. /\ session' \in [Requests -> SessionType]
      /\ \A p \in Requests \ {r} : session'[p] = session[p]
      /\ session'[r].source = session[r].source /\ session'[r].pre = session[r].pre + delta
      /\ session'[r].tok = session[r].tok + delta /\ session'[r].extra = session[r].extra + delta
      /\ session'[r].settled = session[r].settled /\ session'[r].refunded = session[r].refunded
  <2> DEFINE a == session[r].pre + delta
             b == session[r].tok + delta
             c == session[r].extra + delta
             s == [session[r] EXCEPT !.pre = a, !.tok = b, !.extra = c]
  <2>1. session[r] \in SessionType /\ session \in [Requests -> SessionType]
    BY <1>1 DEF Types
  <2>2. a \in Nat /\ b \in Nat /\ c \in Nat
    BY <1>1, <1>2, TypesAt
  <2>3. session' = [session EXCEPT ![r] = s]
    BY <1>3
  <2> HIDE DEF a, b, c
  <2>4. /\ s \in SessionType /\ s.source = session[r].source /\ s.pre = a /\ s.tok = b /\ s.extra = c
        /\ s.settled = session[r].settled /\ s.refunded = session[r].refunded
    BY <2>1, <2>2 DEF SessionType
  <2> HIDE DEF s
  <2> QED
    BY <2>1, <2>3, <2>4 DEF a, b, c
<1>7. Types' /\ Frame(r)
  BY <1>1, <1>5, <1>6 DEF Types, Frame
<1>8. Phase(r)'
  <2>1. req'[r] = req[r] /\ refund'[r] = refund[r] /\ record'[r] = record[r]
    BY <1>1
  <2> QED
    BY <1>1, <1>2, <1>6, <2>1, TypesAt DEF Books, Phase, Before, Running
<1>9. SourceBook(r)'
  <2>1. Held(r) = session[r].pre /\ Held(r)' = session[r].pre + delta
    BY <1>1, <1>6 DEF Held, Running
  <2>2. session[r].source \in {"wallet", "sub"}
    BY <1>1, TypesAt DEF Books, Phase, Before
  <2>3. /\ paid[r].wallet \in Int /\ paid[r].sub \in Int /\ session[r].pre \in Nat
        /\ req[r].due = 0 /\ req'[r] = req[r] /\ fault'[r] = fault[r]
    BY <1>1, TypesAt DEF Books, Phase, Running
  <2>4. /\ session[r].source # "wallet" => paid[r].wallet = 0
        /\ session[r].source # "sub" => paid[r].sub = 0
        /\ paid[r].wallet + paid[r].sub >= session[r].pre
        /\ ~fault[r] => paid[r].wallet + paid[r].sub = session[r].pre
    BY <1>1, <2>1, <2>3 DEF Books, SourceBook
  <2>5. /\ session[r].source # "wallet" => paid'[r].wallet = 0
        /\ session[r].source # "sub" => paid'[r].sub = 0
        /\ paid'[r].wallet + paid'[r].sub >= session[r].pre + delta
        /\ ~fault[r] => paid'[r].wallet + paid'[r].sub = session[r].pre + delta
    <3>1. CASE session[r].source = "wallet"
      <4>1. paid'[r].wallet = paid[r].wallet + delta /\ paid'[r].sub = 0 /\ paid[r].sub = 0
        BY <1>5, <2>3, <2>4, <3>1
      <4> QED
        BY <1>2, <2>3, <2>4, <3>1, <4>1
    <3>2. CASE session[r].source = "sub"
      <4>1. paid'[r].sub = paid[r].sub + delta /\ paid'[r].wallet = 0 /\ paid[r].wallet = 0
        BY <1>5, <2>3, <2>4, <3>2
      <4> QED
        BY <1>2, <2>3, <2>4, <3>2, <4>1
    <3> QED
      BY <2>2, <3>1, <3>2
  <2> QED
    BY <1>2, <1>6, <2>1, <2>3, <2>5 DEF SourceBook
<1>10. TokenBook(r)'
  BY <1>1, <1>2, <1>5, <1>6, TypesAt DEF Books, TokenBook, HeldToken, Token, Running
<1> QED
  BY <1>4, <1>7, <1>8, <1>9, <1>10, StepKeeps DEF Books

\* A funding that is not rolled back is a fault, and only adds to the books.
LEMMA ReserveRollbackFailsKeeps ==
  ASSUME IInv, NEW r \in Requests, NEW target \in Quotas, ReserveRollbackFails(r, target)
  PROVE  IInv'
<1> DEFINE delta == target - session[r].pre
<1>1. /\ Types /\ Row /\ Books(r) /\ req[r].at = "open" /\ target \in Nat /\ session[r].source = "sub"
      /\ UNCHANGED <<req, session, record, period, refund>> /\ fault' = [fault EXCEPT ![r] = TRUE]
  BY SessionAssumption DEF IInv, ReserveRollbackFails, CanRaise
<1>2. delta \in Nat
  BY <1>1, TypesAt DEF ReserveRollbackFails, CanRaise
<1>3. paid' = Took(r, "sub", delta, 0) /\ used' = used + delta /\ Within(used + delta)
  BY DEF ReserveRollbackFails, CanRaise, Fits
<1> HIDE DEF delta
<1>4. Row'
  BY <1>1, <1>2, <1>3 DEF Row, Within
<1>5. /\ paid' \in [Requests -> PaidType]
      /\ \A p \in Requests \ {r} : paid'[p] = paid[p]
      /\ paid'[r].wallet = paid[r].wallet + (IF "sub" = "wallet" THEN delta ELSE 0)
      /\ paid'[r].sub = paid[r].sub + (IF "sub" = "sub" THEN delta ELSE 0)
      /\ paid'[r].token = paid[r].token + Token(r, 0)
  BY <1>1, <1>2, <1>3, TookWorks
<1>6. Types' /\ Frame(r) /\ fault'[r]
  BY <1>1, <1>5 DEF Types, Frame
<1>7. Phase(r)'
  BY <1>1 DEF Books, Phase
<1>8. SourceBook(r)'
  BY <1>1, <1>2, <1>5, <1>6, TypesAt DEF Books, SourceBook, Held, Running
<1>9. TokenBook(r)'
  BY <1>1, <1>5, <1>6, TypesAt DEF Books, TokenBook, HeldToken, Token, Running
<1> QED
  BY <1>4, <1>6, <1>7, <1>8, <1>9, StepKeeps DEF Books

\* The request moves on and owes n.
LEMMA MovesOn ==
  ASSUME Types, NEW r \in Requests, NEW at \in Places, NEW n \in Nat,
         req' = [req EXCEPT ![r].at = at, ![r].due = n]
  PROVE  /\ req' \in [Requests -> RequestType]
         /\ \A q \in Requests \ {r} : req'[q] = req[q]
         /\ req'[r].at = at /\ req'[r].due = n /\ req'[r].play = req[r].play
<1> DEFINE x == [req[r] EXCEPT !.at = at, !.due = n]
<1>1. req \in [Requests -> RequestType] /\ req[r] \in RequestType
  BY DEF Types
<1>2. x \in RequestType /\ x.at = at /\ x.due = n /\ x.play = req[r].play
  BY <1>1 DEF RequestType
<1>3. req' = [req EXCEPT ![r] = x]
  OBVIOUS
<1> HIDE DEF x
<1> QED
  BY <1>1, <1>2, <1>3

\* A settled request has paid its price, or there was a fault.
LEMMA SettleKeeps ==
  ASSUME IInv, NEW r \in Requests, NEW actual \in Quotas, Settle(r, actual)
  PROVE  IInv'
<1> DEFINE delta == actual - session[r].pre
           src == session[r].source
<1>1. /\ Types /\ Row /\ Books(r) /\ req[r].at = "open" /\ actual \in Nat
      /\ UNCHANGED <<record, period, refund>>
      /\ req' = [req EXCEPT ![r].at = "settled", ![r].due = actual]
  BY SessionAssumption DEF IInv, Settle
<1>2. /\ delta \in Int /\ session[r].pre + delta = actual
      /\ session[r].pre \in Nat /\ src \in {"wallet", "sub"} /\ session[r].tok = session[r].pre
      /\ paid[r].wallet \in Int /\ paid[r].sub \in Int /\ paid[r].token \in Int
      /\ fault[r] \in BOOLEAN /\ req[r].play \in BOOLEAN
  BY <1>1, TypesAt DEF Books, Phase, Before
<1>3. /\ req' \in [Requests -> RequestType]
      /\ \A p \in Requests \ {r} : req'[p] = req[p]
      /\ req'[r].at = "settled" /\ req'[r].due = actual /\ req'[r].play = req[r].play
  BY <1>1, MovesOn DEF Places
<1>4. /\ src = "wallet" => paid[r].sub = 0 /\ paid[r].wallet >= session[r].pre
      /\ src = "sub" => paid[r].wallet = 0 /\ paid[r].sub >= session[r].pre
      /\ ~fault[r] => paid[r].wallet + paid[r].sub = session[r].pre
      /\ paid[r].token >= Token(r, session[r].pre)
      /\ ~fault[r] => paid[r].token = Token(r, session[r].pre)
  <2>1. Held(r) = session[r].pre /\ HeldToken(r) = Token(r, session[r].pre) /\ req[r].due = 0
    BY <1>1, <1>2 DEF Held, HeldToken, Running, Books, Phase
  <2>2. Token(r, req[r].due) = 0
    BY <2>1 DEF Token
  <2>3. Token(r, session[r].pre) \in Int
    BY <1>2 DEF Token
  <2> QED
    BY <1>1, <1>2, <2>1, <2>2, <2>3 DEF Books, SourceBook, TokenBook
<1>5. refund[r].at = "idle" /\ Held(r)' = 0 /\ HeldToken(r)' = 0 /\ Token(r, actual)' = Token(r, actual)
  BY <1>1, <1>3 DEF Books, Phase, Held, HeldToken, Token, Running, Refunding
<1>6. ASSUME session'[r].source = src, session'[r].pre = session[r].pre, session'[r].tok = session[r].tok,
             session'[r].extra = session[r].extra
      PROVE  Phase(r)'
  <2>1. /\ req'[r].at \notin Before /\ req'[r].at \notin Running
        /\ req'[r].at # "try" /\ req'[r].at # "failed"
    BY <1>3 DEF Before, Running
  <2>2. refund'[r] = refund[r] /\ refund[r].at = "idle"
    BY <1>1, <1>5
  <2> QED
    BY <1>1, <1>2, <1>6, <2>1, <2>2 DEF Books, Phase, Before
<1>7. ASSUME session' = [session EXCEPT ![r].settled = TRUE]
      PROVE  /\ session' \in [Requests -> SessionType]
             /\ \A p \in Requests \ {r} : session'[p] = session[p]
             /\ session'[r].source = src /\ session'[r].pre = session[r].pre
             /\ session'[r].tok = session[r].tok /\ session'[r].extra = session[r].extra
  BY <1>1, <1>7 DEF Types, SessionType
<1>8. ASSUME src = "sub" => Fits(delta),
             used' = IF src = "sub" THEN Clamped(delta) ELSE used
      PROVE  Row'
  BY <1>1, <1>2, <1>8, SessionAssumption DEF Row, Fits, Clamped, Within
<1> HIDE DEF delta, src
<1>9. ASSUME NEW t \in {0, delta}, Row', session' = [session EXCEPT ![r].settled = TRUE],
             paid' = Took(r, src, delta, t),
             \/ t = delta /\ UNCHANGED fault
             \/ t = 0 /\ fault' = [fault EXCEPT ![r] = TRUE]
      PROVE  IInv'
  <2>1. /\ paid' \in [Requests -> PaidType]
        /\ \A p \in Requests \ {r} : paid'[p] = paid[p]
        /\ paid'[r].wallet = paid[r].wallet + (IF src = "wallet" THEN delta ELSE 0)
        /\ paid'[r].sub = paid[r].sub + (IF src = "sub" THEN delta ELSE 0)
        /\ paid'[r].token = paid[r].token + Token(r, t)
    BY <1>1, <1>2, <1>9, TookWorks
  <2>2. Types' /\ Frame(r) /\ (fault'[r] = fault[r] \/ fault'[r])
    BY <1>1, <1>3, <1>7, <1>9, <2>1 DEF Types, Frame
  <2>3. SourceBook(r)'
    <3>1. ~fault'[r] => ~fault[r]
      BY <2>2
    <3>2. session'[r].source = src
      BY <1>7, <1>9
    <3>3. /\ src # "wallet" => paid'[r].wallet = 0
          /\ src # "sub" => paid'[r].sub = 0
          /\ paid'[r].wallet + paid'[r].sub >= 0
          /\ ~fault[r] => paid'[r].wallet + paid'[r].sub = actual
      BY <1>1, <1>2, <1>4, <2>1
    <3> QED
      BY <1>1, <1>3, <1>5, <3>1, <3>2, <3>3 DEF SourceBook
  <2>4. TokenBook(r)'
    <3>1. fault'[r] \/ (t = delta /\ fault'[r] = fault[r])
      BY <1>1, <1>9 DEF Types
    <3>2. paid'[r].token >= 0
      <4>1. CASE req[r].play
        BY <1>2, <1>4, <2>1, <4>1 DEF Token
      <4>2. CASE ~req[r].play /\ t = 0
        BY <1>2, <1>4, <2>1, <4>2 DEF Token
      <4>3. CASE ~req[r].play /\ t = delta
        BY <1>1, <1>2, <1>4, <2>1, <4>3 DEF Token
      <4> QED
        BY <1>2, <4>1, <4>2, <4>3
    <3>3. ~fault'[r] => paid'[r].token = Token(r, actual)
      BY <1>2, <1>4, <2>1, <3>1 DEF Token
    <3>4. Token(r, req[r].due)' = Token(r, actual) /\ Token(r, actual) \in Int
      BY <1>1, <1>3 DEF Token
    <3> QED
      BY <1>5, <3>2, <3>3, <3>4 DEF TokenBook
  <2> QED
    BY <1>6, <1>7, <1>9, <2>2, <2>3, <2>4, StepKeeps DEF Books
<1>10. ASSUME fault' = [fault EXCEPT ![r] = TRUE], UNCHANGED <<paid, used, session>>
       PROVE  IInv'
  <2>1. Types' /\ Row' /\ Frame(r) /\ fault'[r]
    BY <1>1, <1>3, <1>10 DEF Types, Row, Within, Frame
  <2>2. Phase(r)'
    BY <1>6, <1>10 DEF src
  <2>3. SourceBook(r)'
    BY <1>1, <1>2, <1>4, <1>5, <1>10, <2>1 DEF Books, SourceBook, src
  <2>4. TokenBook(r)'
    BY <1>2, <1>4, <1>5, <1>10, <2>1 DEF TokenBook, Token
  <2> QED
    BY <2>1, <2>2, <2>3, <2>4, StepKeeps DEF Books
<1> QED
  BY <1>8, <1>9, <1>10 DEF Settle, delta, src

\* The request moves on.
LEMMA MovesTo ==
  ASSUME Types, NEW r \in Requests, NEW at \in Places, req' = [req EXCEPT ![r].at = at]
  PROVE  /\ req' \in [Requests -> RequestType]
         /\ \A q \in Requests \ {r} : req'[q] = req[q]
         /\ req'[r].at = at /\ req'[r].due = req[r].due /\ req'[r].play = req[r].play
<1> DEFINE x == [req[r] EXCEPT !.at = at]
<1>1. req \in [Requests -> RequestType] /\ req[r] \in RequestType
  BY DEF Types
<1>2. x \in RequestType /\ x.at = at /\ x.due = req[r].due /\ x.play = req[r].play
  BY <1>1 DEF RequestType
<1>3. req' = [req EXCEPT ![r] = x]
  OBVIOUS
<1> HIDE DEF x
<1> QED
  BY <1>1, <1>2, <1>3

\* A failed request hands what it holds to the goroutine, or holds nothing.
LEMMA FailKeeps ==
  ASSUME IInv, NEW r \in Requests, Fail(r)
  PROVE  IInv'
<1>1. /\ Types /\ Row /\ Books(r) /\ req[r].at = "open" /\ req' = [req EXCEPT ![r].at = "failed"]
      /\ UNCHANGED <<paid, record, used, period, fault>>
  BY DEF IInv, Fail
<1>2. /\ req' \in [Requests -> RequestType]
      /\ \A p \in Requests \ {r} : req'[p] = req[p]
      /\ req'[r].at = "failed" /\ req'[r].due = req[r].due /\ req'[r].play = req[r].play
  BY <1>1, MovesTo DEF Places
<1>3. /\ session[r].source \in {"wallet", "sub"} /\ session[r].tok = session[r].pre
      /\ session[r].pre \in Nat /\ session[r].extra \in Nat /\ session[r].extra <= session[r].pre
      /\ session[r].source = "sub" => session[r].extra < session[r].pre /\ record[r] = "consumed"
      /\ refund[r].at = "idle" /\ refund[r].tries = 0 /\ req[r].due = 0
      /\ ~session[r].settled /\ ~session[r].refunded
      /\ Held(r) = session[r].pre /\ HeldToken(r) = Token(r, session[r].tok)
  BY <1>1, TypesAt DEF Books, Phase, Before, Running, Held, HeldToken
<1>4. Row' /\ req'[r].at \notin Before /\ req'[r].at \notin Running
  BY <1>1, <1>2 DEF Row, Within, Before, Running
<1>5. CASE NeedsRefund(session[r])
  <2>1. /\ session' = [session EXCEPT ![r].refunded = TRUE]
        /\ refund' = [refund EXCEPT ![r].at = "funding"]
    BY <1>5 DEF Fail
  <2>2. /\ session' \in [Requests -> SessionType]
        /\ \A p \in Requests \ {r} : session'[p] = session[p]
        /\ session'[r].source = session[r].source /\ session'[r].pre = session[r].pre
        /\ session'[r].tok = session[r].tok /\ session'[r].extra = session[r].extra
    BY <1>1, <2>1 DEF Types, SessionType
  <2>3. /\ refund' \in [Requests -> RefundType]
        /\ \A p \in Requests \ {r} : refund'[p] = refund[p]
        /\ refund'[r].at = "funding" /\ refund'[r].tries = refund[r].tries
    BY <1>1, <2>1 DEF Types, RefundType
  <2>4. Types' /\ Frame(r)
    BY <1>1, <1>2, <2>2, <2>3 DEF Types, Frame
  <2>5. Phase(r)'
    BY <1>1, <1>2, <1>3, <1>4, <2>2, <2>3 DEF Phase, MaxTries
  <2>6. Held(r)' = Held(r)
    BY <1>1, <1>3, <1>4, <2>2, <2>3 DEF Held
  <2>7. HeldToken(r)' = HeldToken(r)
    BY <1>2, <1>3, <2>2, <2>3 DEF HeldToken, Token, Refunding
  <2>8. SourceBook(r)'
    BY <1>1, <1>2, <2>2, <2>6 DEF Books, SourceBook
  <2>9. TokenBook(r)'
    BY <1>1, <1>2, <2>7 DEF Books, TokenBook, Token
  <2> QED
    BY <1>4, <2>4, <2>5, <2>8, <2>9, StepKeeps DEF Books
<1>6. CASE ~NeedsRefund(session[r])
  <2>1. UNCHANGED <<session, refund>>
    BY <1>6 DEF Fail
  <2>2. session[r].pre = 0
    BY <1>3, <1>6 DEF NeedsRefund
  <2>3. Types' /\ Frame(r)
    BY <1>1, <1>2, <2>1 DEF Types, Frame
  <2>4. Phase(r)'
    BY <1>1, <1>2, <1>3, <1>4, <2>1 DEF Phase
  <2>5. Held(r)' = Held(r)
    BY <1>3, <1>4, <2>1, <2>2 DEF Held
  <2>6. HeldToken(r)' = HeldToken(r)
    BY <1>3, <1>4, <2>1, <2>2 DEF HeldToken, Token, Refunding
  <2>7. SourceBook(r)'
    BY <1>1, <1>2, <2>1, <2>5 DEF Books, SourceBook
  <2>8. TokenBook(r)'
    BY <1>1, <1>2, <2>6 DEF Books, TokenBook, Token
  <2> QED
    BY <1>4, <2>3, <2>4, <2>7, <2>8, StepKeeps DEF Books
<1> QED
  BY <1>5, <1>6

\* A handler that panics keeps what it holds.
LEMMA PanicKeeps ==
  ASSUME IInv, NEW r \in Requests, Panic(r)
  PROVE  IInv'
<1>1. /\ Types /\ Row /\ Books(r) /\ req[r].at = "open" /\ req' = [req EXCEPT ![r].at = "panicked"]
      /\ UNCHANGED <<session, paid, record, used, period, refund, fault>>
  BY DEF IInv, Panic
<1>2. /\ req' \in [Requests -> RequestType]
      /\ \A p \in Requests \ {r} : req'[p] = req[p]
      /\ req'[r].at = "panicked" /\ req'[r].due = req[r].due /\ req'[r].play = req[r].play
  BY <1>1, MovesTo DEF Places
<1>3. Types' /\ Row' /\ Frame(r)
  BY <1>1, <1>2 DEF Types, Row, Within, Frame
<1>4. Phase(r)'
  BY <1>1, <1>2 DEF Books, Phase, Before, Running
<1>5. SourceBook(r)'
  BY <1>1, <1>2 DEF Books, SourceBook, Held, Running
<1>6. TokenBook(r)'
  BY <1>1, <1>2 DEF Books, TokenBook, HeldToken, Token, Running
<1> QED
  BY <1>3, <1>4, <1>5, <1>6, StepKeeps DEF Books

\* The fee is due for good and adds to whatever the goroutine still holds.
LEMMA ChargeFeeKeeps ==
  ASSUME IInv, NEW r \in Requests, NEW fee \in Fees, ChargeFee(r, fee)
  PROVE  IInv'
<1> DEFINE src == session[r].source
<1>1. /\ Types /\ Row /\ Books(r) /\ req[r].at = "failed" /\ fee \in Nat
      /\ UNCHANGED <<session, record, period, refund>>
      /\ req' = [req EXCEPT ![r].at = "charged", ![r].due = fee]
  BY SessionAssumption DEF IInv, ChargeFee
<1>2. /\ req' \in [Requests -> RequestType]
      /\ \A p \in Requests \ {r} : req'[p] = req[p]
      /\ req'[r].at = "charged" /\ req'[r].due = fee /\ req'[r].play = req[r].play
  BY <1>1, MovesOn DEF Places
<1>3. /\ src \in {"wallet", "sub"} /\ req[r].due = 0 /\ req[r].play \in BOOLEAN
      /\ paid[r].wallet \in Int /\ paid[r].sub \in Int /\ paid[r].token \in Int /\ fault[r] \in BOOLEAN
      /\ session[r].pre \in Nat /\ session[r].extra \in Nat /\ session[r].tok \in Nat
  BY <1>1, TypesAt DEF Books, Phase, Before
<1>4. /\ Held(r)' = Held(r) /\ Held(r) \in Nat
      /\ HeldToken(r)' = HeldToken(r) /\ HeldToken(r) \in Nat
  BY <1>1, <1>2, <1>3 DEF Held, HeldToken, Token, Running, Refunding
<1>5. Phase(r)'
  BY <1>1, <1>2 DEF Books, Phase, Before, Running
<1>6. ASSUME src = "sub" => Fits(fee), used' = IF src = "sub" THEN used + fee ELSE used
      PROVE  Row'
  BY <1>1, <1>6 DEF Row, Fits, Within
<1> HIDE DEF src
<1>7. ASSUME NEW t \in {0, fee}, Row', paid' = Took(r, src, fee, t),
             \/ t = fee /\ UNCHANGED fault
             \/ t = 0 /\ fault' = [fault EXCEPT ![r] = TRUE]
      PROVE  IInv'
  <2>1. /\ paid' \in [Requests -> PaidType]
        /\ \A p \in Requests \ {r} : paid'[p] = paid[p]
        /\ paid'[r].wallet = paid[r].wallet + (IF src = "wallet" THEN fee ELSE 0)
        /\ paid'[r].sub = paid[r].sub + (IF src = "sub" THEN fee ELSE 0)
        /\ paid'[r].token = paid[r].token + Token(r, t)
    BY <1>1, <1>7, TookWorks
  <2>2. Types' /\ Frame(r) /\ (fault'[r] \/ (t = fee /\ fault'[r] = fault[r]))
    BY <1>1, <1>2, <1>7, <2>1 DEF Types, Frame
  <2>3. SourceBook(r)'
    <3>1. /\ src # "wallet" => paid[r].wallet = 0
          /\ src # "sub" => paid[r].sub = 0
          /\ paid[r].wallet + paid[r].sub >= Held(r)
          /\ ~fault[r] => paid[r].wallet + paid[r].sub = Held(r)
      BY <1>1, <1>3, <1>4 DEF Books, SourceBook, src
    <3>2. /\ src # "wallet" => paid'[r].wallet = 0
          /\ src # "sub" => paid'[r].sub = 0
          /\ paid'[r].wallet + paid'[r].sub >= Held(r)
          /\ ~fault[r] => paid'[r].wallet + paid'[r].sub = Held(r) + fee
      BY <1>1, <1>3, <1>4, <2>1, <3>1
    <3> QED
      BY <1>1, <1>2, <1>4, <2>2, <3>2 DEF SourceBook, src
  <2>4. TokenBook(r)'
    <3>1. /\ paid[r].token >= HeldToken(r)
          /\ ~fault[r] => paid[r].token = HeldToken(r)
      BY <1>1, <1>3, <1>4 DEF Books, TokenBook, Token
    <3>2. Token(r, t) \in Nat
      BY <1>1, <1>7 DEF Token
    <3>3. /\ paid'[r].token >= HeldToken(r)
          /\ ~fault'[r] => paid'[r].token = HeldToken(r) + Token(r, fee)
      BY <1>3, <1>4, <2>1, <2>2, <3>1, <3>2
    <3>4. Token(r, req[r].due)' = Token(r, fee)
      BY <1>2 DEF Token
    <3> QED
      BY <1>4, <3>3, <3>4 DEF TokenBook
  <2> QED
    BY <1>5, <1>7, <2>2, <2>3, <2>4, StepKeeps DEF Books
<1>8. ASSUME fault' = [fault EXCEPT ![r] = TRUE], UNCHANGED <<paid, used>>
      PROVE  IInv'
  <2>1. Types' /\ Row' /\ Frame(r) /\ fault'[r]
    BY <1>1, <1>2, <1>8 DEF Types, Row, Within, Frame
  <2>2. SourceBook(r)' /\ TokenBook(r)'
    BY <1>1, <1>4, <1>8, <2>1 DEF Books, SourceBook, TokenBook
  <2> QED
    BY <1>5, <2>1, <2>2, StepKeeps DEF Books
<1> QED
  BY <1>6, <1>7, <1>8 DEF ChargeFee, src

\* A step of the goroutine: the books follow from what it gave back.
LEMMA RefundBooks ==
  ASSUME IInv, NEW r \in Requests, refund[r].at \in Refunding,
         UNCHANGED <<req, session, period>>, Row',
         record' \in [Requests -> {"none", "consumed", "refunded"}],
         \A q \in Requests \ {r} : record'[q] = record[q],
         refund' \in [Requests -> RefundType], \A q \in Requests \ {r} : refund'[q] = refund[q],
         refund'[r].at # "idle",
         refund'[r].at \in {"extra", "token"} => session[r].source = "sub",
         refund'[r].at = "funding" => refund'[r].tries < MaxTries,
         fault' \in [Requests -> BOOLEAN], \A q \in Requests \ {r} : fault'[q] = fault[q],
         fault[r] => fault'[r],
         NEW f \in Int, NEW t \in Int, paid' = Took(r, session[r].source, f, t),
         Held(r)' <= Held(r) + f, ~fault'[r] => Held(r)' = Held(r) + f,
         HeldToken(r)' <= HeldToken(r) + Token(r, t),
         ~fault'[r] => HeldToken(r)' = HeldToken(r) + Token(r, t)
  PROVE  IInv'
<1>1. Types /\ Books(r)
  BY DEF IInv
<1>2. /\ req[r].at \in {"failed", "charged"} /\ session[r].source \in {"wallet", "sub"}
      /\ req[r].due \in Nat /\ req[r].play \in BOOLEAN
      /\ session[r].pre \in Nat /\ session[r].extra \in Nat /\ session[r].tok \in Nat
      /\ paid[r].wallet \in Int /\ paid[r].sub \in Int /\ paid[r].token \in Int
      /\ req'[r] = req[r] /\ session'[r] = session[r]
  BY <1>1, TypesAt DEF Books, Phase, Before, Running, Refunding, Places
<1>3. /\ paid' \in [Requests -> PaidType]
      /\ \A p \in Requests \ {r} : paid'[p] = paid[p]
      /\ paid'[r].wallet = paid[r].wallet + (IF session[r].source = "wallet" THEN f ELSE 0)
      /\ paid'[r].sub = paid[r].sub + (IF session[r].source = "sub" THEN f ELSE 0)
      /\ paid'[r].token = paid[r].token + Token(r, t)
  BY <1>1, TookWorks
<1>4. Types' /\ Frame(r)
  BY <1>1, <1>3 DEF Types, Frame
<1>5. Phase(r)'
  BY <1>1, <1>2 DEF Books, Phase, Before, Running
<1>6. Held(r) \in Nat /\ Held(r)' \in Nat
  BY <1>2 DEF Held
<1>7. HeldToken(r) \in Nat /\ HeldToken(r)' \in Nat
  BY <1>2 DEF HeldToken, Token
<1>8. SourceBook(r)'
  <2>1. /\ session[r].source # "wallet" => paid[r].wallet = 0
        /\ session[r].source # "sub" => paid[r].sub = 0
        /\ paid[r].wallet + paid[r].sub >= Held(r)
        /\ ~fault[r] => paid[r].wallet + paid[r].sub = Held(r) + req[r].due
    BY <1>1 DEF Books, SourceBook
  <2>2. /\ session[r].source # "wallet" => paid'[r].wallet = 0
        /\ session[r].source # "sub" => paid'[r].sub = 0
        /\ paid'[r].wallet + paid'[r].sub = paid[r].wallet + paid[r].sub + f
    BY <1>2, <1>3, <2>1
  <2>3. PICK a \in Int : a = paid[r].wallet + paid[r].sub
    BY <1>2
  <2>4. /\ a >= Held(r) /\ (~fault[r] => a = Held(r) + req[r].due)
        /\ paid'[r].wallet + paid'[r].sub = a + f
    BY <1>2, <1>6, <2>1, <2>2, <2>3
  <2>5. /\ a + f >= Held(r)'
        /\ ~fault'[r] => a + f = Held(r)' + req[r].due
    BY <1>2, <1>6, <2>4
  <2> QED
    BY <1>2, <2>2, <2>4, <2>5 DEF SourceBook
<1>9. TokenBook(r)'
  <2>1. /\ paid[r].token >= HeldToken(r)
        /\ ~fault[r] => paid[r].token = HeldToken(r) + Token(r, req[r].due)
    BY <1>1 DEF Books, TokenBook
  <2>2. Token(r, t) \in Int /\ Token(r, req[r].due) \in Nat
    BY <1>2 DEF Token
  <2>3. Token(r, req[r].due)' = Token(r, req[r].due)
    BY <1>2 DEF Token
  <2>4. /\ paid'[r].token >= HeldToken(r)'
        /\ ~fault'[r] => paid'[r].token = HeldToken(r)' + Token(r, req[r].due)
    BY <1>2, <1>3, <1>7, <2>1, <2>2
  <2> QED
    BY <2>3, <2>4 DEF TokenBook
<1> QED
  BY <1>4, <1>5, <1>8, <1>9, StepKeeps DEF Books

\* A refund lowers the use of the subscription, at most to zero.
LEMMA ClampedRow ==
  ASSUME Row, NEW n \in Nat, used' = Clamped(-n)
  PROVE  Row'
  BY SessionAssumption DEF Row, Clamped, Within

\* Nothing is given back.
LEMMA NothingBack ==
  ASSUME Types, NEW r \in Requests, NEW source, UNCHANGED paid
  PROVE  paid' = Took(r, source, 0, 0) /\ Token(r, 0) = 0
<1>1. paid[r] \in PaidType /\ paid \in [Requests -> PaidType]
  BY DEF Types
<1> DEFINE p == [wallet |-> paid[r].wallet + (IF source = "wallet" THEN 0 ELSE 0),
                 sub |-> paid[r].sub + (IF source = "sub" THEN 0 ELSE 0),
                 token |-> paid[r].token + (IF req[r].play THEN 0 ELSE 0)]
<1>2. p = paid[r]
  BY <1>1 DEF PaidType
<1>3. Took(r, source, 0, 0) = [paid EXCEPT ![r] = p]
  BY DEF Took
<1> HIDE DEF p
<1> QED
  BY <1>1, <1>2, <1>3 DEF Token

\* Types of a goroutine that goes on to another place.
LEMMA GoroutineMoves ==
  ASSUME Types, NEW r \in Requests,
         NEW to \in {"idle", "funding", "extra", "token", "done"}, NEW n \in 0..MaxTries,
         \/ refund' = [refund EXCEPT ![r].at = to] /\ n = refund[r].tries
         \/ refund' = [refund EXCEPT ![r].tries = n, ![r].at = to]
  PROVE  /\ refund' \in [Requests -> RefundType]
         /\ \A q \in Requests \ {r} : refund'[q] = refund[q]
         /\ refund'[r].at = to /\ refund'[r].tries = n
<1>1. refund \in [Requests -> RefundType] /\ refund[r] \in RefundType
  BY DEF Types
<1>2. CASE refund' = [refund EXCEPT ![r].at = to] /\ n = refund[r].tries
  BY <1>1, <1>2 DEF RefundType
<1>3. CASE refund' = [refund EXCEPT ![r].tries = n, ![r].at = to]
  <2> DEFINE x == [refund[r] EXCEPT !.tries = n, !.at = to]
  <2>1. x \in RefundType /\ x.at = to /\ x.tries = n
    BY <1>1 DEF RefundType
  <2>2. refund' = [refund EXCEPT ![r] = x]
    BY <1>3
  <2> HIDE DEF x
  <2> QED
    BY <1>1, <2>1, <2>2
<1> QED
  BY <1>2, <1>3

\* A logged failure, or none.
LEMMA FaultMoves ==
  ASSUME Types, NEW r \in Requests, NEW b \in BOOLEAN, fault' = [fault EXCEPT ![r] = @ \/ b]
  PROVE  /\ fault' \in [Requests -> BOOLEAN] /\ \A q \in Requests \ {r} : fault'[q] = fault[q]
         /\ fault'[r] = (fault[r] \/ b)
  BY DEF Types

\* What a refunding request is like.
LEMMA RefundingAt ==
  ASSUME IInv, NEW r \in Requests, refund[r].at \in Refunding
  PROVE  /\ Types /\ Row /\ req[r].at \notin Running
         /\ session[r].source \in {"wallet", "sub"} /\ session[r].tok = session[r].pre
         /\ session[r].extra <= session[r].pre
         /\ session[r].pre \in Nat /\ session[r].extra \in Nat /\ session[r].tok \in Nat
         /\ refund[r].at \in {"extra", "token"} => session[r].source = "sub"
         /\ refund[r].at = "funding" => refund[r].tries < MaxTries
         /\ refund[r].tries \in 0..MaxTries
<1>1. Types /\ Row /\ Books(r)
  BY DEF IInv
<1>2. refund[r].tries \in 0..MaxTries
  BY <1>1 DEF Types, RefundType
<1> QED
  BY <1>1, <1>2, TypesAt DEF Books, Phase, Before, Running, Refunding

\* Wallet and token get back in one transaction what they paid.
LEMMA RefundWalletKeeps ==
  ASSUME IInv, NEW r \in Requests, RefundWallet(r)
  PROVE  IInv'
<1> DEFINE q == session[r].tok
<1>1. /\ session[r].source = "wallet" /\ refund[r].at = "funding"
      /\ refund' = [refund EXCEPT ![r].at = "done"]
      /\ UNCHANGED <<req, session, record, used, period>>
  BY DEF RefundWallet, RefundAt
<1>2. refund[r].at \in Refunding
  BY <1>1 DEF Refunding
<1>3. /\ Types /\ Row /\ req[r].at \notin Running /\ session[r].tok = session[r].pre
      /\ session[r].pre \in Nat /\ refund[r].tries \in 0..MaxTries
  BY <1>2, RefundingAt
<1>4. /\ refund' \in [Requests -> RefundType] /\ \A p \in Requests \ {r} : refund'[p] = refund[p]
      /\ refund'[r].at = "done"
  BY <1>1, <1>3, GoroutineMoves
<1>5. Held(r) = q /\ Held(r)' = 0 /\ HeldToken(r) = Token(r, q) /\ HeldToken(r)' = 0
  BY <1>1, <1>2, <1>3, <1>4 DEF Held, HeldToken, Refunding
<1>6. Row' /\ record' \in [Requests -> {"none", "consumed", "refunded"}] /\ q \in Nat
  BY <1>1, <1>3 DEF Row, Within, Types
<1>7. /\ -q \in Int /\ Held(r) \in Nat /\ Held(r)' = Held(r) + (-q)
      /\ Token(r, 0) = 0 /\ HeldToken(r) \in Nat /\ HeldToken(r)' = HeldToken(r) + Token(r, -q)
  BY <1>5, <1>6 DEF Token
<1> HIDE DEF q
<1>8. CASE paid' = Took(r, "wallet", -q, -q) /\ UNCHANGED fault
  <2>1. fault' \in [Requests -> BOOLEAN]
    BY <1>3, <1>8 DEF Types
  <2>2. /\ -q \in Int /\ Held(r)' = Held(r) + (-q) /\ Held(r)' <= Held(r) + (-q)
        /\ HeldToken(r)' = HeldToken(r) + Token(r, -q) /\ HeldToken(r)' <= HeldToken(r) + Token(r, -q)
    BY <1>5, <1>6, <1>7
  <2> QED
    BY <1>1, <1>2, <1>4, <1>6, <1>8, <2>1, <2>2, RefundBooks
<1>9. CASE fault' = [fault EXCEPT ![r] = TRUE] /\ UNCHANGED paid
  <2>1. fault' \in [Requests -> BOOLEAN] /\ fault'[r] /\ \A p \in Requests \ {r} : fault'[p] = fault[p]
    BY <1>3, <1>9 DEF Types
  <2>2. paid' = Took(r, "wallet", 0, 0)
    BY <1>3, <1>9, NothingBack
  <2>3. Held(r)' <= Held(r) + 0 /\ HeldToken(r)' <= HeldToken(r) + Token(r, 0)
    BY <1>5, <1>6, <1>7
  <2> QED
    BY <1>1, <1>2, <1>4, <1>6, <2>1, <2>2, <2>3, RefundBooks
<1> QED
  BY <1>8, <1>9 DEF RefundWallet, q

\* Whoever claims the record gives back the first reservation, once.
LEMMA RefundRecordKeeps ==
  ASSUME IInv, NEW r \in Requests, RefundRecord(r)
  PROVE  IInv'
<1> DEFINE claimed == record[r] = "consumed"
           back == IF claimed THEN Initial(r) ELSE 0
           last == refund[r].tries + 1 = MaxTries
<1>1. /\ session[r].source = "sub" /\ refund[r].at = "funding" /\ refund[r].at \in Refunding
      /\ UNCHANGED <<req, session, period>>
  BY DEF RefundRecord, Refunding
<1>2. /\ Types /\ Row /\ req[r].at \notin Running
      /\ session[r].pre \in Nat /\ session[r].extra \in Nat /\ session[r].tok \in Nat
      /\ session[r].extra <= session[r].pre
      /\ refund[r].tries < MaxTries /\ refund[r].tries \in 0..MaxTries
  BY <1>1, RefundingAt
<1>3. Initial(r) \in Nat /\ session[r].extra + Initial(r) = session[r].pre
  BY <1>2 DEF Initial
<1>4. back \in Nat /\ back + session[r].extra = Held(r) /\ HeldToken(r) = Token(r, session[r].tok)
      /\ Token(r, session[r].tok) \in Nat /\ Token(r, 0) = 0
  BY <1>1, <1>2, <1>3 DEF Held, HeldToken, Token
<1>5. PICK n \in 0..MaxTries, to \in {"funding", "extra"} :
         /\ refund' \in [Requests -> RefundType]
         /\ \A q \in Requests \ {r} : refund'[q] = refund[q]
         /\ refund'[r].at = to /\ refund'[r].tries = n
         /\ to = "funding" => n < MaxTries
  <2>1. CASE refund' = [refund EXCEPT ![r].at = "extra"]
    BY <1>2, <2>1, GoroutineMoves
  <2>2. CASE refund' = [refund EXCEPT ![r].tries = @ + 1,
                                      ![r].at = IF refund[r].tries + 1 = MaxTries THEN "extra" ELSE @]
    <3> DEFINE n == refund[r].tries + 1
               to == IF refund[r].tries + 1 = MaxTries THEN "extra" ELSE refund[r].at
    <3>1. n \in 0..MaxTries /\ to \in {"funding", "extra"} /\ (to = "funding" => n < MaxTries)
      BY <1>1, <1>2 DEF MaxTries
    <3>2. refund' = [refund EXCEPT ![r].tries = n, ![r].at = to]
      BY <2>2
    <3> HIDE DEF n, to
    <3>3. to \in {"idle", "funding", "extra", "token", "done"}
      BY <3>1
    <3> QED
      BY <1>2, <3>1, <3>2, <3>3, GoroutineMoves
  <2> QED
    BY <2>1, <2>2 DEF RefundRecord
<1>6. refund'[r].at \in Refunding /\ HeldToken(r)' = HeldToken(r)
  BY <1>1, <1>2, <1>4, <1>5 DEF HeldToken, Token, Refunding
<1>7. CASE /\ record' = [record EXCEPT ![r] = "refunded"]
           /\ paid' = IF claimed THEN Took(r, "sub", -Initial(r), 0) ELSE paid
           /\ used' = IF claimed THEN Clamped(-Initial(r)) ELSE used
           /\ UNCHANGED fault
  <2>1. /\ record' \in [Requests -> {"none", "consumed", "refunded"}] /\ record'[r] = "refunded"
        /\ \A q \in Requests \ {r} : record'[q] = record[q]
        /\ fault' \in [Requests -> BOOLEAN]
    BY <1>2, <1>7 DEF Types
  <2>2. Held(r)' = session[r].extra
    BY <1>1, <1>2, <1>5, <2>1 DEF Held
  <2>3. Row'
    <3>1. CASE claimed
      BY <1>2, <1>3, <1>7, <3>1, ClampedRow
    <3>2. CASE ~claimed
      BY <1>2, <1>7, <3>2 DEF Row, Within
    <3> QED
      BY <3>1, <3>2
  <2>4. PICK f \in Int : f + back = 0 /\ paid' = Took(r, "sub", f, 0)
    <3>1. CASE claimed
      <4>1. -Initial(r) \in Int /\ -Initial(r) + back = 0
        BY <1>3, <3>1
      <4> QED
        BY <1>7, <3>1, <4>1
    <3>2. CASE ~claimed
      <4>1. UNCHANGED paid /\ back = 0
        BY <1>7, <3>2
      <4> QED
        BY <1>2, <4>1, NothingBack
    <3> QED
      BY <3>1, <3>2
  <2> HIDE DEF back
  <2>5. /\ Held(r)' <= Held(r) + f /\ Held(r)' = Held(r) + f
        /\ HeldToken(r)' = HeldToken(r) + Token(r, 0) /\ HeldToken(r)' <= HeldToken(r) + Token(r, 0)
    BY <1>2, <1>4, <1>6, <2>2, <2>4
  <2>6. refund'[r].at # "idle" /\ (refund'[r].at = "funding" => refund'[r].tries < MaxTries)
    BY <1>5
  <2> QED
    BY <1>1, <1>4, <1>5, <1>7, <2>1, <2>3, <2>4, <2>5, <2>6, RefundBooks
<1>8. CASE /\ refund' = [refund EXCEPT ![r].tries = @ + 1,
                                       ![r].at = IF refund[r].tries + 1 = MaxTries THEN "extra" ELSE @]
           /\ UNCHANGED <<record, paid, used>>
           /\ fault' = [fault EXCEPT ![r] = @ \/ (claimed /\ refund[r].tries + 1 = MaxTries)]
  <2>1. /\ fault' \in [Requests -> BOOLEAN] /\ \A q \in Requests \ {r} : fault'[q] = fault[q]
        /\ fault'[r] = (fault[r] \/ (claimed /\ last))
    BY <1>2, <1>8, FaultMoves
  <2>2. Row' /\ record' \in [Requests -> {"none", "consumed", "refunded"}]
    BY <1>2, <1>8 DEF Row, Within, Types
  <2>3. refund'[r].at = IF last THEN "extra" ELSE "funding"
    BY <1>1, <1>2, <1>8 DEF Types, RefundType
  <2>4. paid' = Took(r, "sub", 0, 0)
    BY <1>2, <1>8, NothingBack
  <2>5. Held(r)' = IF claimed /\ ~last THEN session[r].pre ELSE session[r].extra
    BY <1>1, <1>2, <1>8, <2>3 DEF Held
  <2>6. Held(r) = IF claimed THEN session[r].pre ELSE session[r].extra
    BY <1>1, <1>2 DEF Held
  <2> HIDE DEF claimed, last
  <2>7. Held(r)' <= Held(r) + 0
    BY <1>2, <2>5, <2>6
  <2>8. (claimed /\ last) \/ Held(r)' = Held(r) + 0
    BY <1>2, <2>5, <2>6
  <2>9. ~fault'[r] => Held(r)' = Held(r) + 0
    BY <2>1, <2>8
  <2>10. HeldToken(r)' = HeldToken(r) + Token(r, 0) /\ HeldToken(r)' <= HeldToken(r) + Token(r, 0)
    BY <1>4, <1>6
  <2>11. refund'[r].at # "idle" /\ (refund'[r].at = "funding" => refund'[r].tries < MaxTries)
    BY <1>5
  <2>12. fault[r] => fault'[r]
    BY <2>1
  <2>13. \A q \in Requests \ {r} : record'[q] = record[q]
    BY <1>8
  <2> QED
    BY <1>1, <1>5, <2>1, <2>2, <2>4, <2>7, <2>9, <2>10, <2>11, <2>12, <2>13, RefundBooks
<1> QED
  BY <1>7, <1>8 DEF RefundRecord

\* What was reserved later is given back from the same subscription.
LEMMA RefundExtraKeeps ==
  ASSUME IInv, NEW r \in Requests, RefundExtra(r)
  PROVE  IInv'
<1> DEFINE extra == session[r].extra
<1>1. /\ refund[r].at = "extra" /\ refund[r].at \in Refunding
      /\ refund' = [refund EXCEPT ![r].at = "token"]
      /\ UNCHANGED <<req, session, record, period>>
  BY DEF RefundExtra, RefundAt, Refunding
<1>2. /\ Types /\ Row /\ req[r].at \notin Running /\ session[r].source = "sub"
      /\ extra \in Nat /\ session[r].tok \in Nat /\ refund[r].tries \in 0..MaxTries
  BY <1>1, RefundingAt
<1>3. /\ refund' \in [Requests -> RefundType] /\ \A p \in Requests \ {r} : refund'[p] = refund[p]
      /\ refund'[r].at = "token"
  BY <1>1, <1>2, GoroutineMoves
<1>4. /\ Held(r) = extra /\ Held(r)' = 0 /\ HeldToken(r)' = HeldToken(r)
      /\ Token(r, 0) = 0 /\ HeldToken(r) \in Nat
  BY <1>1, <1>2, <1>3 DEF Held, HeldToken, Token, Refunding
<1>5. record' \in [Requests -> {"none", "consumed", "refunded"}]
  BY <1>1, <1>2 DEF Types
<1> HIDE DEF extra
<1>6. CASE paid' = Took(r, "sub", -extra, 0) /\ used' = Clamped(-extra) /\ UNCHANGED fault
  <2>1. fault' \in [Requests -> BOOLEAN] /\ Row'
    BY <1>2, <1>6, ClampedRow DEF Types
  <2>2. paid' = Took(r, "sub", -extra, 0) /\ -extra \in Int
    BY <1>2, <1>6
  <2>3. /\ Held(r)' = Held(r) + (-extra) /\ Held(r)' <= Held(r) + (-extra)
        /\ HeldToken(r)' = HeldToken(r) + Token(r, 0) /\ HeldToken(r)' <= HeldToken(r) + Token(r, 0)
    BY <1>2, <1>4
  <2> QED
    BY <1>1, <1>2, <1>3, <1>5, <1>6, <2>1, <2>2, <2>3, RefundBooks
<1>7. CASE fault' = [fault EXCEPT ![r] = TRUE] /\ UNCHANGED <<paid, used>>
  <2>1. /\ fault' \in [Requests -> BOOLEAN] /\ fault'[r] /\ Row'
        /\ \A p \in Requests \ {r} : fault'[p] = fault[p]
    BY <1>2, <1>7 DEF Types, Row, Within
  <2>2. paid' = Took(r, "sub", 0, 0)
    BY <1>2, <1>7, NothingBack
  <2>3. /\ Held(r)' <= Held(r) + 0
        /\ HeldToken(r)' <= HeldToken(r) + Token(r, 0)
    BY <1>2, <1>4
  <2> QED
    BY <1>1, <1>2, <1>3, <1>5, <2>1, <2>2, <2>3, RefundBooks
<1> QED
  BY <1>6, <1>7 DEF RefundExtra, extra

\* The token comes last.
LEMMA RefundTokenKeeps ==
  ASSUME IInv, NEW r \in Requests, RefundToken(r)
  PROVE  IInv'
<1> DEFINE q == session[r].tok
<1>1. /\ refund[r].at = "token" /\ refund[r].at \in Refunding
      /\ refund' = [refund EXCEPT ![r].at = "done"]
      /\ UNCHANGED <<req, session, record, used, period>>
  BY DEF RefundToken, RefundAt, Refunding
<1>2. /\ Types /\ Row /\ req[r].at \notin Running /\ session[r].source = "sub"
      /\ q \in Nat /\ refund[r].tries \in 0..MaxTries
  BY <1>1, RefundingAt
<1>3. /\ refund' \in [Requests -> RefundType] /\ \A p \in Requests \ {r} : refund'[p] = refund[p]
      /\ refund'[r].at = "done"
  BY <1>1, <1>2, GoroutineMoves
<1>4. /\ Held(r) = 0 /\ Held(r)' = 0 /\ HeldToken(r)' = 0 /\ HeldToken(r) = Token(r, q)
      /\ Token(r, 0) = 0 /\ Token(r, q) \in Nat
  BY <1>1, <1>2, <1>3 DEF Held, HeldToken, Token, Refunding
<1>5. record' \in [Requests -> {"none", "consumed", "refunded"}] /\ Row'
  BY <1>1, <1>2 DEF Types, Row, Within
<1> HIDE DEF q
<1>6. CASE paid' = Took(r, "sub", 0, -q) /\ UNCHANGED fault
  <2>1. fault' \in [Requests -> BOOLEAN]
    BY <1>2, <1>6 DEF Types
  <2>2. paid' = Took(r, "sub", 0, -q) /\ -q \in Int
    BY <1>2, <1>6
  <2>3. /\ Held(r)' = Held(r) + 0 /\ Held(r)' <= Held(r) + 0
        /\ HeldToken(r)' = HeldToken(r) + Token(r, -q) /\ HeldToken(r)' <= HeldToken(r) + Token(r, -q)
    BY <1>2, <1>4 DEF Token
  <2> QED
    BY <1>1, <1>2, <1>3, <1>5, <1>6, <2>1, <2>2, <2>3, RefundBooks
<1>7. CASE fault' = [fault EXCEPT ![r] = TRUE] /\ UNCHANGED paid
  <2>1. /\ fault' \in [Requests -> BOOLEAN] /\ fault'[r]
        /\ \A p \in Requests \ {r} : fault'[p] = fault[p]
    BY <1>2, <1>7 DEF Types
  <2>2. paid' = Took(r, "sub", 0, 0)
    BY <1>2, <1>7, NothingBack
  <2>3. /\ Held(r)' <= Held(r) + 0
        /\ HeldToken(r)' <= HeldToken(r) + Token(r, 0)
    BY <1>4
  <2> QED
    BY <1>1, <1>2, <1>3, <1>5, <2>1, <2>2, <2>3, RefundBooks
<1> QED
  BY <1>6, <1>7 DEF RefundToken, q

\* The end of a period touches the row alone.
LEMMA PeriodKeeps ==
  ASSUME IInv, PeriodEnds \/ ResetDue
  PROVE  IInv'
<1>1. /\ UNCHANGED <<req, session, paid, record, refund, fault>> /\ Types /\ Row
      /\ \A r \in Requests : Books(r)
  BY DEF IInv, PeriodEnds, ResetDue
<1>2. Row'
  BY <1>1, SessionAssumption DEF PeriodEnds, ResetDue, Row, Within
<1>3. period' \in [ended : Nat, due : BOOLEAN]
  <2>1. period \in [ended : Nat, due : BOOLEAN]
    BY <1>1 DEF Types
  <2>2. CASE PeriodEnds
    <3>1. period.ended + 1 \in Nat /\ period' = [ended |-> period.ended + 1, due |-> TRUE]
      BY <2>1, <2>2 DEF PeriodEnds
    <3> QED
      BY <3>1
  <2>3. CASE ResetDue
    BY <2>1, <2>3 DEF ResetDue
  <2> QED
    BY <2>2, <2>3
<1>4. Types'
  BY <1>1, <1>3 DEF Types
<1>5. \A r \in Requests : Books(r)'
  BY <1>1 DEF Books, Phase, SourceBook, TokenBook, Held, HeldToken, Token
<1> QED
  BY <1>2, <1>4, <1>5 DEF IInv

\* Every step keeps the books.
LEMMA SessionStep == IInv /\ [Next]_vars => IInv'
<1> SUFFICES ASSUME IInv, [Next]_vars PROVE IInv'
  OBVIOUS
<1>1. ASSUME NEW r \in Requests, Request(r) PROVE IInv'
  BY <1>1, BeginKeeps, TryWalletKeeps, TrySubscriptionKeeps, ReserveKeeps, ReserveRollbackFailsKeeps,
     SettleKeeps, FailKeeps, ChargeFeeKeeps, PanicKeeps DEF Request
<1>2. ASSUME NEW r \in Requests, Goroutine(r) PROVE IInv'
  BY <1>2, RefundWalletKeeps, RefundRecordKeeps, RefundExtraKeeps, RefundTokenKeeps DEF Goroutine
<1>3. CASE PeriodEnds \/ ResetDue
  BY <1>3, PeriodKeeps
<1>4. CASE UNCHANGED vars
  BY <1>4 DEF vars, IInv, Types, Row, Within, Books, Phase, SourceBook, TokenBook, Held, HeldToken, Token
<1> QED
  BY <1>1, <1>2, <1>3, <1>4 DEF Next

\* The books hold in every state.
LEMMA SessionInvariant == Spec => []IInv
  BY SessionInit, SessionStep, PTL DEF Spec
-----------------------------------------------------------------------------

\* Sessions, records and refunds are always in states the code knows.
THEOREM SessionTypeOK == Spec => []TypeOK
<1>1. IInv => TypeOK
  <2> SUFFICES ASSUME IInv PROVE TypeOK
    OBVIOUS
  <2>1. used \in Nat
    BY DEF IInv, Row
  <2>2. ASSUME NEW r \in Requests
        PROVE  /\ req[r].at \in Places
               /\ session[r].source \in {"none", "wallet", "sub"}
               /\ session[r].pre >= session[r].extra /\ session[r].extra >= 0 /\ session[r].tok >= 0
               /\ refund[r].at \in {"idle", "funding", "extra", "token", "done"}
               /\ refund[r].tries \in 0..MaxTries
               /\ record[r] \in {"none", "consumed", "refunded"}
    <3>1. Types /\ Phase(r)
      BY DEF IInv, Books
    <3>2. refund[r].tries \in 0..MaxTries
      BY <3>1 DEF Types, RefundType
    <3>3. session[r].pre >= session[r].extra
      BY <3>1, TypesAt DEF Phase, NoSession, Before
    <3> QED
      BY <3>1, <3>2, <3>3, TypesAt
  <2> QED
    BY <2>1, <2>2 DEF TypeOK, Places
<1> QED
  BY <1>1, SessionInvariant, PTL

\* A request whose statements worked pays what it owes, once and from one
\* source, however it was estimated, raised, refunded and retried.
THEOREM SessionExactCharge == Spec => []ExactCharge
<1>1. IInv => ExactCharge
  <2> SUFFICES ASSUME IInv, NEW r \in Requests, Done(r), ~fault[r]
               PROVE  /\ paid[r].wallet + paid[r].sub = req[r].due
                      /\ paid[r].wallet = 0 \/ paid[r].sub = 0
                      /\ paid[r].token = IF req[r].play THEN 0 ELSE req[r].due
    BY DEF ExactCharge
  <2>1. Types /\ Books(r)
    BY DEF IInv
  <2>2. Held(r) = 0 /\ HeldToken(r) = 0
    BY DEF Done, Held, HeldToken, Running, Refunding
  <2>3. paid[r].wallet + paid[r].sub = req[r].due /\ (paid[r].wallet = 0 \/ paid[r].sub = 0)
    BY <2>1, <2>2, TypesAt DEF Books, SourceBook
  <2>4. paid[r].token = Token(r, req[r].due)
    BY <2>1, <2>2, TypesAt DEF Books, TokenBook, Token
  <2> QED
    BY <2>3, <2>4 DEF Token
<1> QED
  BY <1>1, SessionInvariant, PTL

\* No refund, whichever of its tries committed, gives back more than was taken.
THEOREM SessionNeverPaidBackTwice == Spec => []NeverPaidBackTwice
<1>1. IInv => NeverPaidBackTwice
  <2> SUFFICES ASSUME IInv, NEW r \in Requests
               PROVE  paid[r].wallet >= 0 /\ paid[r].sub >= 0 /\ paid[r].token >= 0
    BY DEF NeverPaidBackTwice
  <2>1. Types /\ Books(r)
    BY DEF IInv
  <2>2. Held(r) \in Nat /\ HeldToken(r) \in Nat
    BY <2>1, TypesAt DEF Held, HeldToken, Token
  <2>3. paid[r].wallet >= 0 /\ paid[r].sub >= 0
    BY <2>1, <2>2, TypesAt DEF Books, SourceBook
  <2>4. paid[r].token >= 0
    BY <2>1, <2>2, TypesAt DEF Books, TokenBook
  <2> QED
    BY <2>3, <2>4
<1> QED
  BY <1>1, SessionInvariant, PTL

-----------------------------------------------------------------------------
(* Sums over the requests.  MapThenSumSet is a CHOOSE of a recursive        *)
(* function on the subsets; that there is one, and what it computes, is     *)
(* shown by taking a smallest subset for which it fails.                    *)

\* A set of subsets of a finite set has a minimal one.
LEMMA Minimal ==
  ASSUME NEW S, IsFiniteSet(S), NEW T, T \subseteq SUBSET S, T # {}
  PROVE  \E x \in T : \A y \in T : y \subseteq x => y = x
<1>1. IsWellFoundedOn(StrictSubsetOrdering(S), SUBSET S)
  BY FS_FiniteSubsetsOfFinite, FS_StrictSubsetOrderingWellFounded
<1>2. PICK x \in T : \A y \in T : ~(<<y, x>> \in StrictSubsetOrdering(S))
  BY <1>1, WFMin
<1> QED
  BY <1>2 DEF StrictSubsetOrdering

\* The sum of p[r].sub as MapThenSumSet computes it: element by element.
Pick(s) == CHOOSE x \in s : TRUE
Rest(s) == s \ {Pick(s)}
Unfolds(p, S, g) == g = [s \in SUBSET S |-> IF s = {} THEN 0 ELSE p[Pick(s)].sub + g[Rest(s)]]
Fold(p, S) == CHOOSE g : Unfolds(p, S, g)
Taken(p, S) == MapThenSumSet(LAMBDA r : p[r].sub, S)

LEMMA TakenIsFold ==
  ASSUME NEW p, NEW S
  PROVE  Taken(p, S) = Fold(p, S)[S]
  BY Zenon DEF Taken, MapThenSumSet, MapThenFoldSet, Fold, Unfolds, Pick, Rest

\* Taking an element away leaves a smaller set.
LEMMA RestIsSmaller ==
  ASSUME NEW s, s # {}
  PROVE  Pick(s) \in s /\ Rest(s) \subseteq s /\ Rest(s) # s
<1>1. Pick(s) \in s
  BY DEF Pick
<1> QED
  BY <1>1 DEF Rest

LEMMA UnfoldsAt ==
  ASSUME NEW p, NEW S, NEW g, Unfolds(p, S, g), NEW s \in SUBSET S
  PROVE  g[s] = IF s = {} THEN 0 ELSE p[Pick(s)].sub + g[Rest(s)]
  BY DEF Unfolds

\* Two unfoldings agree where both are defined.
LEMMA UnfoldingsAgree ==
  ASSUME NEW p, NEW S, IsFiniteSet(S), NEW T, NEW g, NEW h, Unfolds(p, S, g), Unfolds(p, T, h),
         NEW s \in SUBSET S, s \subseteq T
  PROVE  g[s] = h[s]
<1> DEFINE Bad == {x \in SUBSET S : x \subseteq T /\ g[x] # h[x]}
<1>1. SUFFICES ASSUME Bad # {} PROVE FALSE
  OBVIOUS
<1>2. PICK x \in Bad : \A y \in Bad : y \subseteq x => y = x
  <2>1. Bad \subseteq SUBSET S
    OBVIOUS
  <2> HIDE DEF Bad
  <2> QED
    BY <1>1, <2>1, Minimal
<1>3. /\ g[x] = IF x = {} THEN 0 ELSE p[Pick(x)].sub + g[Rest(x)]
      /\ h[x] = IF x = {} THEN 0 ELSE p[Pick(x)].sub + h[Rest(x)]
  BY <1>2, UnfoldsAt
<1>4. x # {}
  BY <1>2, <1>3
<1>5. Rest(x) \subseteq x /\ Rest(x) # x
  BY <1>4, RestIsSmaller
<1>6. g[Rest(x)] = h[Rest(x)]
  BY <1>2, <1>5
<1> QED
  BY <1>2, <1>3, <1>4, <1>6

\* Every finite set has an unfolding: a smallest set without one could be
\* given one from those of its subsets.
LEMMA FoldUnfolds ==
  ASSUME NEW p, NEW S, IsFiniteSet(S)
  PROVE  Unfolds(p, S, Fold(p, S))
<1> DEFINE Bad == {x \in SUBSET S : ~ \E g : Unfolds(p, x, g)}
<1>1. SUFFICES ASSUME Bad # {} PROVE FALSE
  <2>1. Bad = {} => \E g : Unfolds(p, S, g)
    OBVIOUS
  <2> QED
    BY <1>1, <2>1 DEF Fold
<1>2. PICK x \in Bad : \A y \in Bad : y \subseteq x => y = x
  <2>1. Bad \subseteq SUBSET S
    OBVIOUS
  <2> HIDE DEF Bad
  <2> QED
    BY <1>1, <2>1, Minimal
<1>3. ASSUME NEW t, t \subseteq x, t # x PROVE Unfolds(p, t, Fold(p, t)) /\ IsFiniteSet(t)
  <2>1. t \in SUBSET S
    BY <1>2, <1>3
  <2>2. t \notin Bad
    BY <1>2, <1>3
  <2> QED
    BY <2>1, <2>2, FS_Subset DEF Fold
<1> DEFINE f == [s \in SUBSET x |-> IF s = {} THEN 0 ELSE p[Pick(s)].sub + Fold(p, Rest(s))[Rest(s)]]
<1>4. ASSUME NEW t, t \subseteq x, t # x PROVE f[t] = Fold(p, t)[t]
  <2> DEFINE F == Fold(p, t)
  <2>1. Unfolds(p, t, F) /\ IsFiniteSet(t)
    BY <1>3, <1>4
  <2> HIDE DEF F
  <2>2. F[t] = IF t = {} THEN 0 ELSE p[Pick(t)].sub + F[Rest(t)]
    BY <2>1, UnfoldsAt
  <2>3. CASE t = {}
    BY <1>4, <2>2, <2>3 DEF F
  <2>4. CASE t # {}
    <3>1. Rest(t) \subseteq t /\ Rest(t) # t
      BY <2>4, RestIsSmaller
    <3>2. Rest(t) \subseteq x /\ Rest(t) # x
      BY <1>4, <3>1
    <3> DEFINE G == Fold(p, Rest(t))
    <3>3. Unfolds(p, Rest(t), G) /\ IsFiniteSet(Rest(t))
      BY <1>3, <3>2
    <3> HIDE DEF G
    <3>4. G[Rest(t)] = F[Rest(t)]
      <4>1. Rest(t) \in SUBSET Rest(t) /\ Rest(t) \subseteq t
        BY <3>1
      <4> QED
        BY <2>1, <3>3, <4>1, UnfoldingsAgree
    <3>5. f[t] = p[Pick(t)].sub + Fold(p, Rest(t))[Rest(t)]
      BY <1>4, <2>4
    <3> QED
      BY <2>2, <2>4, <3>4, <3>5 DEF F, G
  <2> QED
    BY <2>3, <2>4
<1>5. ASSUME NEW s \in SUBSET x, s # {} PROVE f[Rest(s)] = Fold(p, Rest(s))[Rest(s)]
  <2>1. Rest(s) \subseteq x /\ Rest(s) # x
    BY <1>5, RestIsSmaller
  <2> QED
    BY <1>4, <2>1
<1>6. Unfolds(p, x, f)
  BY <1>5 DEF Unfolds
<1> QED
  BY <1>2, <1>6

\* The sum over the empty set, and one element at a time.
LEMMA TakenEmpty == ASSUME NEW p PROVE Taken(p, {}) = 0
<1>1. IsFiniteSet({})
  BY FS_EmptySet
<1> QED
  BY <1>1, FoldUnfolds, UnfoldsAt, TakenIsFold

LEMMA TakenUnfold ==
  ASSUME NEW p, NEW S, IsFiniteSet(S), S # {}
  PROVE  Taken(p, S) = p[Pick(S)].sub + Taken(p, Rest(S))
<1> DEFINE F == Fold(p, S)
           G == Fold(p, Rest(S))
<1>1. Rest(S) \subseteq S /\ IsFiniteSet(Rest(S))
  BY RestIsSmaller, FS_Subset
<1>2. Unfolds(p, S, F) /\ Unfolds(p, Rest(S), G)
  BY <1>1, FoldUnfolds
<1>3. Taken(p, S) = F[S] /\ Taken(p, Rest(S)) = G[Rest(S)]
  BY TakenIsFold
<1> HIDE DEF F, G
<1>4. F[S] = p[Pick(S)].sub + F[Rest(S)]
  BY <1>2, UnfoldsAt
<1>5. F[Rest(S)] = G[Rest(S)]
  BY <1>1, <1>2, UnfoldingsAgree
<1> QED
  BY <1>3, <1>4, <1>5

\* A sum of natural numbers is one.
LEMMA TakenIsNat ==
  ASSUME NEW p, NEW S, IsFiniteSet(S), \A r \in S : p[r].sub \in Nat
  PROVE  Taken(p, S) \in Nat
<1> DEFINE Bad == {x \in SUBSET S : Taken(p, x) \notin Nat}
<1>1. SUFFICES ASSUME Bad # {} PROVE FALSE
  OBVIOUS
<1>2. PICK x \in Bad : \A y \in Bad : y \subseteq x => y = x
  <2>1. Bad \subseteq SUBSET S
    OBVIOUS
  <2> HIDE DEF Bad
  <2> QED
    BY <1>1, <2>1, Minimal
<1>3. x # {} /\ IsFiniteSet(x)
  <2>1. Taken(p, {}) \in Nat
    BY TakenEmpty, 0 \in Nat
  <2>2. IsFiniteSet(x)
    BY <1>2, FS_Subset
  <2> QED
    BY <1>2, <2>1, <2>2, Zenon
<1>4. Taken(p, x) = p[Pick(x)].sub + Taken(p, Rest(x)) /\ Pick(x) \in x /\ Rest(x) \subseteq x /\ Rest(x) # x
  BY <1>3, TakenUnfold, RestIsSmaller
<1>5. Rest(x) \in SUBSET S /\ Rest(x) \notin Bad /\ Pick(x) \in S
  BY <1>2, <1>4
<1>6. Taken(p, Rest(x)) \in Nat /\ p[Pick(x)].sub \in Nat
  BY <1>5
<1> QED
  BY <1>2, <1>4, <1>6

\* The order of the summands does not matter.
LEMMA TakenRemove ==
  ASSUME NEW p, NEW S, IsFiniteSet(S), \A r \in S : p[r].sub \in Nat, NEW c \in S
  PROVE  Taken(p, S) = p[c].sub + Taken(p, S \ {c})
<1> DEFINE Ok(x) == \A a \in x : Taken(p, x) = p[a].sub + Taken(p, x \ {a})
           Bad == {x \in SUBSET S : ~Ok(x)}
<1>1. SUFFICES ASSUME Bad # {} PROVE FALSE
  <2>1. S \notin Bad => Ok(S)
    OBVIOUS
  <2> QED
    BY <1>1, <2>1
<1>2. PICK x \in Bad : \A y \in Bad : y \subseteq x => y = x
  <2>1. Bad \subseteq SUBSET S
    OBVIOUS
  <2> HIDE DEF Bad
  <2> QED
    BY <1>1, <2>1, Minimal
<1>3. PICK a \in x : Taken(p, x) # p[a].sub + Taken(p, x \ {a})
  BY <1>2
<1>4. ASSUME NEW y, y \subseteq x, y # x PROVE Ok(y)
  BY <1>2, <1>4
<1> DEFINE b == Pick(x)
<1>5. x # {} /\ IsFiniteSet(x) /\ x \subseteq S
  BY <1>2, <1>3, FS_Subset
<1>6. Taken(p, x) = p[b].sub + Taken(p, x \ {b}) /\ b \in x
  BY <1>5, TakenUnfold, RestIsSmaller DEF Rest
<1> HIDE DEF b, Bad
<1>7. a # b
  BY <1>3, <1>6
<1> DEFINE y == x \ {a, b}
<1>8. y = (x \ {a}) \ {b} /\ y = (x \ {b}) \ {a} /\ IsFiniteSet(y) /\ y \subseteq S
  BY <1>5, FS_Subset
<1>9. p[a].sub \in Nat /\ p[b].sub \in Nat /\ Taken(p, y) \in Nat
  BY <1>3, <1>5, <1>6, <1>8, TakenIsNat
<1>10. Taken(p, x \ {b}) = p[a].sub + Taken(p, y)
  BY <1>3, <1>4, <1>6, <1>7, <1>8
<1>11. Taken(p, x \ {a}) = p[b].sub + Taken(p, y)
  BY <1>3, <1>4, <1>6, <1>7, <1>8
<1> QED
  BY <1>3, <1>6, <1>9, <1>10, <1>11

\* Only the summands matter.
LEMMA TakenSame ==
  ASSUME NEW p, NEW q, NEW S, IsFiniteSet(S), \A r \in S : p[r].sub = q[r].sub
  PROVE  Taken(p, S) = Taken(q, S)
<1> DEFINE Bad == {x \in SUBSET S : Taken(p, x) # Taken(q, x)}
<1>1. SUFFICES ASSUME Bad # {} PROVE FALSE
  OBVIOUS
<1>2. PICK x \in Bad : \A y \in Bad : y \subseteq x => y = x
  <2>1. Bad \subseteq SUBSET S
    OBVIOUS
  <2> HIDE DEF Bad
  <2> QED
    BY <1>1, <2>1, Minimal
<1>3. x # {} /\ IsFiniteSet(x)
  <2>1. Taken(p, {}) = 0 /\ Taken(q, {}) = 0
    BY TakenEmpty
  <2>2. IsFiniteSet(x)
    BY <1>2, FS_Subset
  <2> QED
    BY <1>2, <2>1, <2>2
<1>4. /\ Taken(p, x) = p[Pick(x)].sub + Taken(p, Rest(x))
      /\ Taken(q, x) = q[Pick(x)].sub + Taken(q, Rest(x))
      /\ Pick(x) \in x /\ Rest(x) \subseteq x /\ Rest(x) # x
  BY <1>3, TakenUnfold, RestIsSmaller
<1>5. Rest(x) \in SUBSET S /\ Rest(x) \notin Bad /\ Pick(x) \in S
  BY <1>2, <1>4
<1> QED
  BY <1>2, <1>4, <1>5

\* A sum of zeros.
LEMMA TakenZero ==
  ASSUME NEW p, NEW S, IsFiniteSet(S), \A r \in S : p[r].sub = 0
  PROVE  Taken(p, S) = 0
<1> DEFINE Bad == {x \in SUBSET S : Taken(p, x) # 0}
<1>1. SUFFICES ASSUME Bad # {} PROVE FALSE
  OBVIOUS
<1>2. PICK x \in Bad : \A y \in Bad : y \subseteq x => y = x
  <2>1. Bad \subseteq SUBSET S
    OBVIOUS
  <2> HIDE DEF Bad
  <2> QED
    BY <1>1, <2>1, Minimal
<1>3. x # {} /\ IsFiniteSet(x)
  <2>1. Taken(p, {}) = 0
    BY TakenEmpty
  <2>2. IsFiniteSet(x)
    BY <1>2, FS_Subset
  <2> QED
    BY <1>2, <2>1, <2>2
<1>4. Taken(p, x) = p[Pick(x)].sub + Taken(p, Rest(x)) /\ Pick(x) \in x /\ Rest(x) \subseteq x /\ Rest(x) # x
  BY <1>3, TakenUnfold, RestIsSmaller
<1>5. Rest(x) \in SUBSET S /\ Rest(x) \notin Bad /\ Pick(x) \in S
  BY <1>2, <1>4
<1> QED
  BY <1>2, <1>4, <1>5

\* One summand changes.
LEMMA TakenChanges ==
  ASSUME NEW p, NEW q, NEW S, IsFiniteSet(S), NEW a \in S,
         \A r \in S : p[r].sub \in Nat, \A r \in S : q[r].sub \in Nat,
         \A r \in S \ {a} : q[r].sub = p[r].sub
  PROVE  /\ Taken(p, S) \in Nat /\ p[a].sub <= Taken(p, S)
         /\ Taken(q, S) = Taken(p, S) + (q[a].sub - p[a].sub)
<1>1. IsFiniteSet(S \ {a})
  BY FS_Subset
<1>2. Taken(p, S \ {a}) = Taken(q, S \ {a}) /\ Taken(p, S \ {a}) \in Nat
  BY <1>1, TakenSame, TakenIsNat
<1>3. Taken(p, S) = p[a].sub + Taken(p, S \ {a}) /\ Taken(q, S) = q[a].sub + Taken(q, S \ {a})
  BY TakenRemove
<1> QED
  BY <1>2, <1>3
-----------------------------------------------------------------------------
(* The books of the subscription.                                           *)

\* The row shows no more than the requests have paid it, and exactly that
\* before the first period ends; only a period that ended can be due.
SumBook ==
    /\ used <= Taken(paid, Requests)
    /\ period.ended = 0 => used = Taken(paid, Requests) /\ ~period.due

SubsPaid == \A r \in Requests : paid[r].sub \in Nat

\* No request gets more from the subscription than it paid.
LEMMA PaidSubs == IInv => SubsPaid
<1> SUFFICES ASSUME IInv, NEW r \in Requests PROVE paid[r].sub \in Nat
  BY DEF SubsPaid
<1>1. Types /\ Books(r)
  BY DEF IInv
<1>2. Held(r) \in Nat
  BY <1>1, TypesAt DEF Held
<1> QED
  BY <1>1, <1>2, TypesAt DEF Books, SourceBook

\* Request r pays f more, or gets it back, and the row follows, clamped.
SubStep(r, f) ==
    /\ \A q \in Requests \ {r} : paid'[q].sub = paid[q].sub
    /\ paid'[r].sub = paid[r].sub + f
    /\ used' = Clamped(f)

\* No clamp is ever needed before a period ends: what is given back was in
\* the sum.
LEMMA SubStepKeeps ==
  ASSUME IInv, IInv', SumBook, NEW r \in Requests, NEW f \in Int, SubStep(r, f), UNCHANGED period
  PROVE  SumBook'
<1> DEFINE n == Taken(paid, Requests)
           m == Taken(paid', Requests)
<1>1. (\A q \in Requests : paid[q].sub \in Nat) /\ (\A q \in Requests : paid'[q].sub \in Nat)
  <2>1. SubsPaid /\ SubsPaid'
    BY PaidSubs, PTL
  <2> QED
    BY <2>1 DEF SubsPaid
<1>2. n \in Nat /\ m = n + (paid'[r].sub - paid[r].sub)
  BY <1>1, TakenChanges, SessionAssumption DEF SubStep
<1>3. m \in Nat
  BY <1>1, TakenIsNat, SessionAssumption
<1>4. paid[r].sub \in Nat /\ paid'[r].sub = paid[r].sub + f /\ used' = Clamped(f) /\ used \in Nat
  BY <1>1 DEF SubStep, IInv, Row
<1>5. used <= n /\ (period.ended = 0 => used = n /\ ~period.due)
  BY DEF SumBook
<1> HIDE DEF n, m
<1>6. m = n + f
  BY <1>2, <1>4
<1>7. used' <= m /\ (period.ended = 0 => used' = m)
  BY <1>2, <1>3, <1>4, <1>5, <1>6 DEF Clamped
<1> QED
  BY <1>5, <1>7 DEF SumBook, m

\* Took moves the subscription's part when the subscription is the source.
LEMMA TookSub ==
  ASSUME IInv, NEW r \in Requests, NEW source, NEW f \in Int, NEW t \in Int,
         paid' = Took(r, source, f, t),
         used' = IF source = "sub" THEN Clamped(f) ELSE used
  PROVE  \E g \in Int : SubStep(r, g)
<1>1. Types /\ used \in Nat /\ paid[r].sub \in Int
  BY TypesAt DEF IInv, Row
<1>2. /\ \A q \in Requests \ {r} : paid'[q] = paid[q]
      /\ paid'[r].sub = paid[r].sub + (IF source = "sub" THEN f ELSE 0)
  BY <1>1, TookWorks
<1>3. CASE source = "sub"
  BY <1>2, <1>3 DEF SubStep
<1>4. CASE source # "sub"
  <2>1. used' = Clamped(0)
    BY <1>1, <1>4 DEF Clamped
  <2> QED
    BY <1>2, <1>4, <2>1 DEF SubStep
<1> QED
  BY <1>3, <1>4

\* A reservation or a fee is added without a clamp; it is not negative.
LEMMA Added ==
  ASSUME IInv, NEW n \in Nat
  PROVE  Clamped(n) = used + n
  BY DEF IInv, Row, Clamped

\* Steps that touch neither the row nor what was paid.
LEMMA SameBooks ==
  ASSUME SumBook, UNCHANGED <<paid, used, period>>
  PROVE  SumBook'
  BY DEF SumBook

\* A request reserves, raises, settles, fails or is charged a fee.
LEMMA RequestSums ==
  ASSUME IInv, IInv', SumBook, NEW r \in Requests, Request(r), ~TrySubscription(r)
  PROVE  SumBook'
<1>1. Types /\ used \in Nat
  BY DEF IInv, Row
<1>2. session[r].pre \in Nat /\ session[r].tok \in Nat /\ req[r].estimate \in Nat
  BY <1>1, TypesAt
<1> SUFFICES \/ UNCHANGED <<paid, used, period>>
             \/ UNCHANGED period /\ \E f \in Int : SubStep(r, f)
  BY SameBooks, SubStepKeeps
<1>3. CASE \E play \in BOOLEAN, order \in Orders, q \in Quotas : Begin(r, play, order, q)
  BY <1>3 DEF Begin
<1>4. CASE TryWallet(r)
  <2>1. UNCHANGED <<used, period>>
    BY <1>4 DEF TryWallet
  <2>2. CASE UNCHANGED paid
    BY <2>1, <2>2
  <2>3. ASSUME NEW trusted \in BOOLEAN, NEW q, q = IF trusted THEN 0 ELSE req[r].estimate,
               paid' = Took(r, "wallet", q, q)
        PROVE  \E f \in Int : SubStep(r, f)
    BY <1>2, <2>1, <2>3, TookSub
  <2> QED
    BY <1>4, <2>1, <2>2, <2>3 DEF TryWallet
<1>5. ASSUME NEW target \in Quotas, Reserve(r, target) \/ ReserveRollbackFails(r, target)
      PROVE  UNCHANGED period /\ \E f \in Int : SubStep(r, f)
  <2> DEFINE delta == target - session[r].pre
  <2>1. delta \in Nat /\ UNCHANGED period
    BY <1>2, <1>5, SessionAssumption DEF Reserve, ReserveRollbackFails, CanRaise
  <2>2. /\ used' = IF session[r].source = "sub" THEN used + delta ELSE used
        /\ \E t \in {0, delta} : paid' = Took(r, session[r].source, delta, t)
    BY <1>5 DEF Reserve, ReserveRollbackFails
  <2> HIDE DEF delta
  <2> QED
    BY <2>1, <2>2, Added, TookSub
<1>6. ASSUME NEW actual \in Quotas, Settle(r, actual)
      PROVE  \/ UNCHANGED <<paid, used, period>>
             \/ UNCHANGED period /\ \E f \in Int : SubStep(r, f)
  <2> DEFINE delta == actual - session[r].pre
  <2>1. delta \in Int /\ UNCHANGED period
    BY <1>2, <1>6, SessionAssumption DEF Settle
  <2>2. \/ UNCHANGED <<paid, used>>
        \/ /\ used' = IF session[r].source = "sub" THEN Clamped(delta) ELSE used
           /\ \E t \in {0, delta} : paid' = Took(r, session[r].source, delta, t)
    BY <1>6 DEF Settle
  <2> HIDE DEF delta
  <2> QED
    BY <2>1, <2>2, TookSub
<1>7. CASE Fail(r) \/ Panic(r)
  BY <1>7 DEF Fail, Panic
<1>8. ASSUME NEW fee \in Fees, ChargeFee(r, fee)
      PROVE  \/ UNCHANGED <<paid, used, period>>
             \/ UNCHANGED period /\ \E f \in Int : SubStep(r, f)
  <2>1. fee \in Nat /\ UNCHANGED period
    BY <1>8, SessionAssumption DEF ChargeFee
  <2>2. \/ UNCHANGED <<paid, used>>
        \/ /\ used' = IF session[r].source = "sub" THEN used + fee ELSE used
           /\ \E t \in {0, fee} : paid' = Took(r, session[r].source, fee, t)
    BY <1>8 DEF ChargeFee
  <2> QED
    BY <2>1, <2>2, Added, TookSub
<1> QED
  BY <1>3, <1>4, <1>5, <1>6, <1>7, <1>8 DEF Request

\* The reservation from a subscription starts the row afresh when a period
\* has ended unnoticed: it then shows less than was paid.
LEMMA TrySubscriptionSums ==
  ASSUME IInv, IInv', SumBook, NEW r \in Requests, TrySubscription(r)
  PROVE  SumBook'
<1> DEFINE amount == SubConsume(r)
<1>1. Types /\ used \in Nat /\ paid[r].sub \in Nat /\ period \in [ended : Nat, due : BOOLEAN]
  BY PaidSubs DEF IInv, Row, SubsPaid, Types
<1>2. amount \in Nat
  BY <1>1, TypesAt DEF SubConsume
<1>3. CASE /\ paid' = Took(r, "sub", amount, amount)
           /\ used' = (IF period.due THEN 0 ELSE used) + amount
           /\ period' = [period EXCEPT !.due = FALSE]
  <2> HIDE DEF amount
  <2>1. period'.ended = period.ended /\ ~period'.due
    BY <1>1, <1>3
  <2>2. /\ \A q \in Requests \ {r} : paid'[q] = paid[q]
        /\ paid'[r].sub = paid[r].sub + (IF "sub" = "sub" THEN amount ELSE 0)
    BY <1>1, <1>2, <1>3, TookWorks
  <2> DEFINE n == Taken(paid, Requests)
             m == Taken(paid', Requests)
  <2>3. n \in Nat /\ m = n + (paid'[r].sub - paid[r].sub)
    <3>1. SubsPaid /\ SubsPaid'
      BY PaidSubs, PTL
    <3>2. (\A q \in Requests : paid[q].sub \in Nat) /\ (\A q \in Requests : paid'[q].sub \in Nat)
      BY <3>1 DEF SubsPaid
    <3> QED
      BY <2>2, <3>2, TakenChanges, SessionAssumption
  <2>4. used <= n /\ (period.ended = 0 => used = n /\ ~period.due)
    BY DEF SumBook
  <2> HIDE DEF n, m
  <2>5. m = n + amount
    BY <1>1, <1>2, <2>2, <2>3
  <2>6. used' <= m /\ (period.ended = 0 => used' = m)
    BY <1>1, <1>2, <1>3, <2>3, <2>4, <2>5
  <2> QED
    BY <2>1, <2>6 DEF SumBook, m
<1>4. CASE UNCHANGED <<used, period>> /\ (UNCHANGED paid \/ paid' = Took(r, "sub", 0, amount))
  <2> HIDE DEF amount
  <2>1. CASE UNCHANGED paid
    BY <1>4, <2>1, SameBooks
  <2>2. CASE paid' = Took(r, "sub", 0, amount)
    <3>1. used' = IF "sub" = "sub" THEN Clamped(0) ELSE used
      BY <1>1, <1>4 DEF Clamped
    <3> QED
      BY <1>2, <1>4, <2>2, <3>1, TookSub, SubStepKeeps
  <2> QED
    BY <1>4, <2>1, <2>2
<1> QED
  BY <1>3, <1>4 DEF TrySubscription

\* What the goroutine gives back is taken from the row.
LEMMA GoroutineSums ==
  ASSUME IInv, IInv', SumBook, NEW r \in Requests, Goroutine(r)
  PROVE  SumBook'
<1>1. Types /\ used \in Nat
  BY DEF IInv, Row
<1>2. session[r].pre \in Nat /\ session[r].tok \in Nat /\ session[r].extra \in Nat
  BY <1>1, TypesAt
<1>3. Clamped(0) = used /\ 0 \in Int /\ -session[r].tok \in Int /\ -session[r].extra \in Int
      /\ -Initial(r) \in Int
  BY <1>1, <1>2 DEF Clamped, Initial
<1> SUFFICES \/ UNCHANGED <<paid, used, period>>
             \/ UNCHANGED period /\ \E f \in Int : SubStep(r, f)
  BY SameBooks, SubStepKeeps
<1>4. CASE RefundWallet(r)
  <2>1. UNCHANGED <<used, period>> /\ (UNCHANGED paid \/ paid' = Took(r, "wallet", -session[r].tok, -session[r].tok))
    BY <1>4 DEF RefundWallet
  <2> QED
    BY <1>3, <2>1, TookSub
<1>5. CASE RefundRecord(r)
  <2>1. /\ UNCHANGED period
        /\ \/ UNCHANGED <<paid, used>>
           \/ paid' = Took(r, "sub", -Initial(r), 0) /\ used' = Clamped(-Initial(r))
    BY <1>5 DEF RefundRecord
  <2> QED
    BY <1>3, <2>1, TookSub
<1>6. CASE RefundExtra(r)
  <2>1. /\ UNCHANGED period
        /\ \/ UNCHANGED <<paid, used>>
           \/ paid' = Took(r, "sub", -session[r].extra, 0) /\ used' = Clamped(-session[r].extra)
    BY <1>6 DEF RefundExtra
  <2> QED
    BY <1>3, <2>1, TookSub
<1>7. CASE RefundToken(r)
  <2>1. UNCHANGED <<used, period>> /\ (UNCHANGED paid \/ paid' = Took(r, "sub", 0, -session[r].tok))
    BY <1>7 DEF RefundToken
  <2> QED
    BY <1>3, <2>1, TookSub
<1> QED
  BY <1>4, <1>5, <1>6, <1>7 DEF Goroutine

\* Every step keeps the sum; the end of a period only lowers the row.
LEMMA SumStep == IInv /\ IInv' /\ SumBook /\ [Next]_vars => SumBook'
<1> SUFFICES ASSUME IInv, IInv', SumBook, [Next]_vars PROVE SumBook'
  OBVIOUS
<1>1. Taken(paid, Requests) \in Nat /\ period \in [ended : Nat, due : BOOLEAN]
  BY PaidSubs, TakenIsNat, SessionAssumption DEF SubsPaid, IInv, Types
<1>2. CASE PeriodEnds
  <2>1. period' = [ended |-> period.ended + 1, due |-> TRUE] /\ UNCHANGED <<paid, used>>
    BY <1>2 DEF PeriodEnds
  <2>2. period'.ended # 0
    BY <1>1, <2>1
  <2> QED
    BY <2>1, <2>2 DEF SumBook
<1>3. CASE ResetDue
  <2>1. period.due /\ period' = [period EXCEPT !.due = FALSE] /\ used' = 0 /\ UNCHANGED paid
    BY <1>3 DEF ResetDue
  <2>2. period'.ended = period.ended /\ period.ended # 0
    BY <1>1, <2>1 DEF SumBook
  <2> QED
    BY <1>1, <2>1, <2>2 DEF SumBook
<1>4. CASE UNCHANGED vars
  BY <1>4, SameBooks DEF vars
<1>5. ASSUME NEW r \in Requests, Request(r) \/ Goroutine(r) PROVE SumBook'
  BY <1>5, RequestSums, TrySubscriptionSums, GoroutineSums
<1> QED
  BY <1>2, <1>3, <1>4, <1>5 DEF Next

\* Nobody has paid.
LEMMA SumInit == Init => SumBook
<1> SUFFICES ASSUME Init PROVE SumBook
  OBVIOUS
<1>1. \A r \in Requests : paid[r].sub = 0
  BY DEF Init
<1>2. Taken(paid, Requests) = 0
  BY <1>1, TakenZero, SessionAssumption
<1> QED
  BY <1>2 DEF Init, SumBook

\* The sum in every state.
LEMMA SumInvariant == Spec => []SumBook
  BY SumInit, SumStep, SessionInvariant, PTL DEF Spec

\* Whatever requests reserve, raise, settle, fail and refund, and whenever
\* periods end in between, amount_used stays within amount_total, never shows
\* more than the requests have paid, and shows exactly that until a period
\* ends.
THEOREM SessionSubscriptionBooks == Spec => []SubscriptionBooks
<1>1. IInv /\ SumBook => SubscriptionBooks
  BY DEF IInv, Row, SumBook, SubscriptionBooks, Taken
<1> QED
  BY <1>1, SessionInvariant, SumInvariant, PTL
=============================================================================
