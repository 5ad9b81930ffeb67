-------------------------- MODULE Payments_proofs ---------------------------
(***************************************************************************)
(* The order lock and the orders it protects, for any number of orders,      *)
(* handlers and mutexes.                                                     *)
(*                                                                         *)
(* LockOrder and UnlockOrder: whoever has taken a mutex from the map keeps   *)
(* its entry there (Entry), so everybody with one trade number has the same  *)
(* mutex, and a handler that works has locked it (Holds).                    *)
(*                                                                         *)
(* The orders: a handler's job tells the truth about its order for as long   *)
(* as it works on it (JobTrue); the one handler that writes a row it read    *)
(* earlier under the lock still finds it as it was, because everybody else   *)
(* who would change it needs the same lock (SavesPending); a request that    *)
(* writes one without the lock has nothing a buyer could have paid           *)
(* (Openings).                                                               *)
(***************************************************************************)
EXTENDS Payments, UserSubscriptions_proofs, FiniteSetTheorems

(* The lock.                                                                *)

\* The users of mutex m when the handlers have taken f.
UsersIn(f, m) == {h \in Handlers : f[h] = m}

\* A handler that is not out has a trade number and the mutex the map has for it.
Entry ==
    \A h \in Handlers :
        IF at[h] = "out" THEN trade[h] = None /\ rcm[h] = None
        ELSE /\ trade[h] \in Trades /\ rcm[h] \in Mutexes
             /\ orderLocks[trade[h]] = rcm[h]

\* Two trade numbers never share a mutex, and an entry has a user.
Apart ==
    /\ \A s, t \in Trades : orderLocks[s] # None /\ orderLocks[s] = orderLocks[t] => s = t
    /\ \A t \in Trades : orderLocks[t] # None => UsersIn(rcm, orderLocks[t]) # {}

\* A handler that works has locked its mutex, and nobody else has locked one.
Holds ==
    /\ \A h \in Handlers : at[h] = "in" => holder[rcm[h]] = h
    /\ \A m \in Mutexes : holder[m] # None =>
          at[holder[m]] = "in" /\ rcm[holder[m]] = m

\* The count of a mutex in the map is the number of its users.
Counted ==
    \A t \in Trades : orderLocks[t] # None =>
        refCount[orderLocks[t]] = Cardinality(UsersIn(rcm, orderLocks[t]))

LockInv == LockTypeOK /\ Entry /\ Apart /\ Holds /\ Counted
-----------------------------------------------------------------------------

\* The users of a mutex can be counted.
LEMMA UsersFinite ==
  ASSUME NEW f, NEW m
  PROVE  IsFiniteSet(UsersIn(f, m)) /\ Cardinality(UsersIn(f, m)) \in Nat
<1>1. UsersIn(f, m) \subseteq Handlers
  BY DEF UsersIn
<1>2. IsFiniteSet(UsersIn(f, m))
  BY <1>1, LockAssumption, FS_Subset
<1> QED
  BY <1>2, FS_CardinalityType

\* A handler more.
LEMMA UserAdded ==
  ASSUME NEW h \in Handlers, NEW m \in Mutexes,
         rcm \in [Handlers -> Mutexes \cup {None}], rcm[h] = None,
         rcm' = [rcm EXCEPT ![h] = m]
  PROVE  /\ UsersIn(rcm', m) = UsersIn(rcm, m) \cup {h}
         /\ Cardinality(UsersIn(rcm', m)) = Cardinality(UsersIn(rcm, m)) + 1
         /\ \A n \in Mutexes : n # m => UsersIn(rcm', n) = UsersIn(rcm, n)
<1>1. None \notin Mutexes
  BY LockAssumption
<1>2. UsersIn(rcm', m) = UsersIn(rcm, m) \cup {h} /\ h \notin UsersIn(rcm, m)
  BY <1>1 DEF UsersIn
<1>3. Cardinality(UsersIn(rcm, m) \cup {h}) = Cardinality(UsersIn(rcm, m)) + 1
  BY <1>2, UsersFinite, FS_AddElement
<1>4. \A n \in Mutexes : n # m => UsersIn(rcm', n) = UsersIn(rcm, n)
  BY <1>1 DEF UsersIn
<1> QED
  BY <1>2, <1>3, <1>4

\* A handler less.
LEMMA UserRemoved ==
  ASSUME NEW h \in Handlers, NEW m \in Mutexes,
         rcm \in [Handlers -> Mutexes \cup {None}], rcm[h] = m,
         rcm' = [rcm EXCEPT ![h] = None]
  PROVE  /\ UsersIn(rcm', m) = UsersIn(rcm, m) \ {h}
         /\ Cardinality(UsersIn(rcm', m)) = Cardinality(UsersIn(rcm, m)) - 1
         /\ UsersIn(rcm', m) = {} <=> Cardinality(UsersIn(rcm, m)) = 1
         /\ \A n \in Mutexes : n # m => UsersIn(rcm', n) = UsersIn(rcm, n)
<1>1. None \notin Mutexes
  BY LockAssumption
<1>2. UsersIn(rcm', m) = UsersIn(rcm, m) \ {h} /\ h \in UsersIn(rcm, m)
  BY <1>1 DEF UsersIn
<1>3. Cardinality(UsersIn(rcm, m) \ {h}) = Cardinality(UsersIn(rcm, m)) - 1
  BY <1>2, UsersFinite, FS_RemoveElement
<1>4. IsFiniteSet(UsersIn(rcm, m) \ {h})
  BY UsersFinite, FS_RemoveElement
<1>5. UsersIn(rcm, m) \ {h} = {} <=> Cardinality(UsersIn(rcm, m) \ {h}) = 0
  BY <1>4, FS_EmptySet
<1>6. UsersIn(rcm', m) = {} <=> Cardinality(UsersIn(rcm, m)) = 1
  <2>1. Cardinality(UsersIn(rcm, m)) \in Nat
    BY UsersFinite
  <2>2. Cardinality(UsersIn(rcm, m)) - 1 = 0 <=> Cardinality(UsersIn(rcm, m)) = 1
    BY <2>1
  <2> QED
    BY <1>2, <1>3, <1>5, <2>2
<1>7. \A n \in Mutexes : n # m => UsersIn(rcm', n) = UsersIn(rcm, n)
  BY <1>1 DEF UsersIn
<1> QED
  BY <1>2, <1>3, <1>6, <1>7

\* The empty map.
LEMMA LockInit == InitLock => LockInv
<1> SUFFICES ASSUME InitLock PROVE LockInv
  OBVIOUS
<1> QED
  BY LockAssumption DEF InitLock, LockInv, LockTypeOK, Entry, Apart, Holds, Counted

\* A crash leaves the empty map.
LEMMA LoseLocksKeeps == LoseLocks => LockInv'
<1> SUFFICES ASSUME LoseLocks PROVE LockInv'
  OBVIOUS
<1> QED
  BY LockAssumption DEF LoseLocks, LockInv, LockTypeOK, Entry, Apart, Holds, Counted

\* Entering takes the mutex of the map, or one that nobody uses.
LEMMA EnterKeeps ==
  ASSUME LockInv, NEW h \in Handlers, NEW t \in Trades, Enter(h, t)
  PROVE  LockInv'
<1> USE LockAssumption DEF LockInv
<1>1. PICK m \in Mutexes :
        /\ \/ /\ orderLocks[t] = m
              /\ refCount' = [refCount EXCEPT ![m] = @ + 1]
              /\ UNCHANGED <<orderLocks, holder>>
           \/ /\ orderLocks[t] = None /\ Unused(m)
              /\ orderLocks' = [orderLocks EXCEPT ![t] = m]
              /\ refCount' = [refCount EXCEPT ![m] = 1]
              /\ holder' = [holder EXCEPT ![m] = None]
        /\ rcm' = [rcm EXCEPT ![h] = m]
  BY DEF Enter
<1>2. /\ at[h] = "out" /\ trade' = [trade EXCEPT ![h] = t]
      /\ at' = [at EXCEPT ![h] = "acquire"] /\ rcm[h] = None
  BY DEF Enter, Entry
<1>3. /\ UsersIn(rcm', m) = UsersIn(rcm, m) \cup {h}
      /\ Cardinality(UsersIn(rcm', m)) = Cardinality(UsersIn(rcm, m)) + 1
      /\ \A n \in Mutexes : n # m => UsersIn(rcm', n) = UsersIn(rcm, n)
  BY <1>1, <1>2, UserAdded DEF LockTypeOK
<1>4. Unused(m) => UsersIn(rcm, m) = {} /\ Cardinality(UsersIn(rcm, m)) = 0
  BY FS_EmptySet DEF Unused, UsersIn
<1>5. LockTypeOK'
  BY <1>1, <1>2 DEF LockTypeOK
<1>6. Entry'
  BY <1>1, <1>2 DEF Entry, LockTypeOK, Unused
<1>7. Apart'
  <2>1. ASSUME NEW s \in Trades, NEW u \in Trades,
               orderLocks'[s] # None, orderLocks'[s] = orderLocks'[u]
        PROVE  s = u
    BY <1>1, <2>1 DEF Apart, LockTypeOK, Unused
  <2>2. ASSUME NEW s \in Trades, orderLocks'[s] # None
        PROVE  UsersIn(rcm', orderLocks'[s]) # {}
    <3>1. orderLocks'[s] \in Mutexes
      BY <1>5, <2>2 DEF LockTypeOK
    <3>2. CASE orderLocks'[s] = m
      BY <1>3, <3>2
    <3>3. CASE orderLocks'[s] # m
      BY <1>1, <1>3, <2>2, <3>1, <3>3 DEF Apart, LockTypeOK
    <3> QED
      BY <3>2, <3>3
  <2> QED
    BY <2>1, <2>2 DEF Apart
<1>8. Holds'
  BY <1>1, <1>2 DEF Holds, Entry, LockTypeOK, Unused
<1>9. Counted'
  <2> SUFFICES ASSUME NEW s \in Trades, orderLocks'[s] # None
               PROVE  refCount'[orderLocks'[s]] = Cardinality(UsersIn(rcm', orderLocks'[s]))
    BY DEF Counted
  <2>1. orderLocks'[s] \in Mutexes
    BY <1>5 DEF LockTypeOK
  <2>2. CASE orderLocks'[s] # m
    <3>1. orderLocks'[s] = orderLocks[s]
      BY <1>1, <2>2 DEF LockTypeOK
    <3>2. refCount'[orderLocks[s]] = refCount[orderLocks[s]]
      BY <1>1, <2>1, <2>2, <3>1 DEF LockTypeOK
    <3>3. UsersIn(rcm', orderLocks[s]) = UsersIn(rcm, orderLocks[s])
      BY <1>3, <2>1, <2>2, <3>1
    <3> QED
      BY <2>1, <3>1, <3>2, <3>3 DEF Counted
  <2>3. CASE orderLocks'[s] = m /\ orderLocks[t] = m
    <3>1. orderLocks' = orderLocks /\ refCount' = [refCount EXCEPT ![m] = @ + 1]
      BY <1>1, <2>3
    <3>2. refCount[m] = Cardinality(UsersIn(rcm, m))
      BY <2>3 DEF Counted
    <3> QED
      BY <1>3, <2>3, <3>1, <3>2 DEF LockTypeOK
  <2>4. CASE orderLocks'[s] = m /\ orderLocks[t] = None
    BY <1>1, <1>3, <1>4, <2>1, <2>4 DEF LockTypeOK
  <2> QED
    BY <1>1, <2>2, <2>3, <2>4
<1> QED
  BY <1>5, <1>6, <1>7, <1>8, <1>9

\* A mutex that is free has no handler at work.
LEMMA AcquireKeeps ==
  ASSUME LockInv, NEW h \in Handlers, Acquire(h)
  PROVE  LockInv'
<1> USE LockAssumption DEF LockInv, Acquire
<1>1. LockTypeOK' /\ Entry'
  BY DEF LockTypeOK, Entry
<1>2. Apart' /\ Counted'
  BY DEF Apart, Counted, UsersIn
<1>3. Holds'
  BY DEF Holds, Entry, LockTypeOK
<1> QED
  BY <1>1, <1>2, <1>3

\* The map still has the mutex of whoever works: it is the one unlocked.
LEMMA UnlockKeeps ==
  ASSUME LockInv, NEW h \in Handlers, Unlock(h)
  PROVE  LockInv'
<1> USE LockAssumption DEF LockInv
<1>1. /\ at[h] = "in" /\ rcm[h] \in Mutexes /\ orderLocks[trade[h]] = rcm[h]
      /\ trade[h] \in Trades
  BY DEF Unlock, Entry
<1>2. /\ holder' = [holder EXCEPT ![rcm[h]] = None] /\ at' = [at EXCEPT ![h] = "release"]
      /\ rcm' = rcm /\ UNCHANGED <<orderLocks, refCount, trade>>
  BY <1>1 DEF Unlock, LockTypeOK
<1>3. LockTypeOK' /\ Entry'
  BY <1>1, <1>2 DEF LockTypeOK, Entry
<1>4. Apart' /\ Counted'
  BY <1>1, <1>2 DEF Apart, Counted, UsersIn
<1>5. Holds'
  BY <1>1, <1>2 DEF Holds, Entry, LockTypeOK
<1> QED
  BY <1>3, <1>4, <1>5

\* The entry goes with its last user.
LEMMA ReleaseKeeps ==
  ASSUME LockInv, NEW h \in Handlers, Release(h)
  PROVE  LockInv'
<1> USE LockAssumption DEF LockInv
<1> DEFINE m == rcm[h]
<1>1. /\ at[h] = "release" /\ m \in Mutexes /\ trade[h] \in Trades
      /\ orderLocks[trade[h]] = m /\ refCount[m] = Cardinality(UsersIn(rcm, m))
  BY DEF Release, Entry, Counted
<1>2. /\ refCount' = [refCount EXCEPT ![m] = @ - 1]
      /\ rcm' = [rcm EXCEPT ![h] = None] /\ trade' = [trade EXCEPT ![h] = None]
      /\ at' = [at EXCEPT ![h] = "out"] /\ UNCHANGED holder
      /\ orderLocks' = [orderLocks EXCEPT ![trade[h]] = IF refCount[m] = 1 THEN None ELSE @]
  BY DEF Release
<1>3. /\ Cardinality(UsersIn(rcm', m)) = Cardinality(UsersIn(rcm, m)) - 1
      /\ UsersIn(rcm', m) = {} <=> refCount[m] = 1
      /\ UsersIn(rcm', m) = UsersIn(rcm, m) \ {h}
      /\ \A n \in Mutexes : n # m => UsersIn(rcm', n) = UsersIn(rcm, n)
  BY <1>1, <1>2, UserRemoved DEF LockTypeOK
<1>4. LockTypeOK'
  BY <1>1, <1>2 DEF LockTypeOK
<1>5. \A g \in Handlers : g # h /\ at[g] # "out" /\ refCount[m] = 1 => trade[g] # trade[h]
  BY <1>1, <1>3 DEF Entry, UsersIn
<1>6. Entry'
  BY <1>1, <1>2, <1>5 DEF Entry, LockTypeOK
<1>7. Apart'
  BY <1>1, <1>2, <1>3 DEF Apart, LockTypeOK
<1>8. Holds'
  BY <1>1, <1>2 DEF Holds, LockTypeOK
<1>9. Counted'
  BY <1>1, <1>2, <1>3, UsersFinite DEF Counted, Apart, LockTypeOK
<1> QED
  BY <1>4, <1>6, <1>7, <1>8, <1>9

\* Two handlers never work on one trade number at the same time.
LEMMA LockExcludes == LockInv => OneAtATime
<1> QED
  BY DEF LockInv, Entry, Holds, OneAtATime

\* The entries of the map are those in use, and counted.
LEMMA LockCounts == LockInv => EntriesCounted
<1> SUFFICES ASSUME LockInv PROVE EntriesCounted
  OBVIOUS
<1> USE LockAssumption DEF LockInv
<1>1. ASSUME NEW t \in Trades
      PROVE  (orderLocks[t] # None) <=> \E h \in Handlers : trade[h] = t
  <2>1. ASSUME orderLocks[t] # None PROVE \E h \in Handlers : trade[h] = t
    <3>1. PICK h \in UsersIn(rcm, orderLocks[t]) : TRUE
      BY <2>1 DEF Apart
    <3>2. h \in Handlers /\ rcm[h] = orderLocks[t] /\ rcm[h] # None
      BY <2>1, <3>1 DEF UsersIn
    <3>3. trade[h] \in Trades /\ orderLocks[trade[h]] = orderLocks[t]
      BY <3>2 DEF Entry
    <3> QED
      BY <2>1, <3>2, <3>3 DEF Apart
  <2>2. ASSUME NEW h \in Handlers, trade[h] = t PROVE orderLocks[t] # None
    BY <2>2 DEF Entry
  <2> QED
    BY <2>1, <2>2
<1>2. \A h \in Handlers : trade[h] # None => rcm[h] = orderLocks[trade[h]]
  BY DEF Entry
<1> QED
  BY <1>1, <1>2 DEF EntriesCounted, Counted, Users, UsersIn

-----------------------------------------------------------------------------
(* The orders.                                                              *)

OrderTypes ==
    /\ status \in [Orders -> {"none", "pending", "success", "failed", "expired"}]
    /\ kind \in [Orders -> Kinds] /\ provider \in [Orders -> Providers]
    /\ checkout \in [Orders -> {"none", "open", "paid", "failed", "expired"}]
    /\ opening \in [Orders -> BOOLEAN] /\ acked \in [Orders -> BOOLEAN]
    /\ byHand \in [Orders -> BOOLEAN]
    /\ credited \in [Orders -> Nat] /\ grants \in [Orders -> Nat]
    /\ job \in [Handlers -> [op : {"pay", "return", "manual", "expire", "fail", "save", "done"},
                             own : BOOLEAN]]

\* Nobody works on an order that was not placed.
Busy == \A h \in Handlers : at[h] # "out" => status[trade[h]] # "none"

\* Nobody has paid an order whose request still waits, and Stripe's never
\* does; what was paid out by then is not yet overwritten.
Openings ==
    \A o \in Orders :
        /\ opening[o] => /\ status[o] # "none" /\ provider[o] # "stripe" /\ checkout[o] = "none"
                         /\ PaidOut(o) => status[o] = "success"
        /\ status[o] = "none" => checkout[o] = "none"

\* What a handler was told of its own order is so.
JobTrue ==
    \A h \in Handlers : at[h] # "out" /\ job[h].own =>
        /\ job[h].op \in {"pay", "return"} => checkout[trade[h]] = "paid"
        /\ job[h].op = "manual" => byHand[trade[h]]
        /\ job[h].op \in {"expire", "fail", "save"} => provider[trade[h]] = "stripe"

\* A row about to be saved as failed is still as it was read.
SavesPending ==
    \A h \in Handlers : at[h] # "out" /\ job[h].op = "save" =>
        at[h] = "in" /\ job[h].own /\ status[trade[h]] = "pending"

\* Only a payment that was made is acknowledged.
AckedSettled ==
    /\ AckedIsSettled
    /\ \A o \in Orders : acked[o] => checkout[o] = "paid"

IInv == /\ LockInv /\ OrderTypes /\ Busy /\ Openings /\ JobTrue /\ SavesPending
        /\ PaidOutIsSuccess /\ OnlyWhenPaid /\ PaidOutOnce /\ AckedSettled
-----------------------------------------------------------------------------

\* A product of positive numbers is positive.
LEMMA PositiveProduct == \A a, b \in Nat \ {0} : a * b \in Nat \ {0}
  OBVIOUS

\* A completed top-up is worth something.
LEMMA QuotaPositive ==
  ASSUME NEW op, NEW o \in Orders
  PROVE  Quota(op, o) \in Nat \ {0}
<1>1. /\ Amount[o] \in Nat \ {0} /\ Money[o] \in Nat \ {0} /\ QuotaPerUnit \in Nat \ {0}
  BY PaymentAssumption DEF PaymentAssumption
<1>2. Amount[o] * QuotaPerUnit \in Nat \ {0} /\ Money[o] * QuotaPerUnit \in Nat \ {0}
  BY <1>1, PositiveProduct
<1> QED
  BY <1>1, <1>2 DEF Quota

\* The lock keeps its invariant while nobody touches it.
LEMMA LockUnchanged == LockInv /\ UNCHANGED lockVars => LockInv'
<1> QED
  BY DEF LockInv, lockVars, LockTypeOK, Entry, Apart, Holds, Counted

\* No order has been placed.
LEMMA PaymentsInit == Init => IInv
<1> SUFFICES ASSUME Init PROVE IInv
  OBVIOUS
<1> USE DEF Init, Idle
<1>1. LockInv
  BY LockInit
<1>2. OrderTypes
  BY DEF OrderTypes, Kinds, Providers
<1>3. Busy /\ Openings /\ JobTrue /\ SavesPending
  BY DEF InitLock, Busy, Openings, JobTrue, SavesPending, PaidOut
<1>4. PaidOutIsSuccess /\ OnlyWhenPaid /\ PaidOutOnce /\ AckedSettled
  BY DEF PaidOutIsSuccess, OnlyWhenPaid, PaidOutOnce, AckedSettled, AckedIsSettled, PaidOut
<1> QED
  BY <1>1, <1>2, <1>3, <1>4 DEF IInv

\* An order that is placed has nobody working on it.
LEMMA InsertKeeps ==
  ASSUME IInv, NEW o \in Orders, NEW k \in Kinds, NEW p \in Providers, NEW waits \in BOOLEAN,
         waits => p # "stripe", Insert(o, k, p, waits)
  PROVE  IInv'
<1> USE PaymentAssumption DEF IInv, Orders, Insert
<1>1. LockInv' /\ UNCHANGED <<at, trade>>
  BY LockUnchanged DEF lockVars
<1>2. OrderTypes'
  BY <1>1 DEF OrderTypes, Kinds, Providers
<1>3. Busy'
  BY <1>1 DEF Busy, OrderTypes, LockInv, Entry
<1>4. Openings'
  BY <1>1 DEF Openings, SavesPending, PaidOutIsSuccess, PaidOut, OrderTypes
<1>5. JobTrue'
  BY <1>1 DEF JobTrue, Busy, Openings, OrderTypes, LockInv, Entry
<1>6. SavesPending'
  BY <1>1 DEF SavesPending, JobTrue, Busy, Openings, OrderTypes, LockInv, Entry
<1>7. PaidOutIsSuccess'
  BY <1>1 DEF PaidOutIsSuccess, PaidOut, OnlyWhenPaid, Openings, SavesPending, OrderTypes
<1>8. OnlyWhenPaid'
  BY <1>1 DEF OnlyWhenPaid, JobTrue, PaidOutIsSuccess, PaidOut, Openings, OrderTypes
<1>9. PaidOutOnce'
  BY <1>1 DEF PaidOutOnce, PaidOutIsSuccess, PaidOut, Quota, OrderTypes
<1>10. AckedSettled'
  BY <1>1 DEF AckedSettled, AckedIsSettled, JobTrue, Openings, SavesPending, OrderTypes
<1> QED
  BY <1>1, <1>2, <1>3, <1>4, <1>5, <1>6, <1>7, <1>8, <1>9, <1>10

\* Every request places its order that way.
LEMMA PlaceOrderKeeps ==
  ASSUME IInv, NEW o \in Orders, PlaceOrder(o)
  PROVE  IInv'
<1>1. \E k \in Kinds, p \in Providers, waits \in BOOLEAN :
         (waits => p # "stripe") /\ Insert(o, k, p, waits)
  BY DEF PlaceOrder, Kinds, Providers, RequestStripePay, RequestEpay, RequestCreemPay,
         RequestWaffoPay, RequestWaffoPancakePay, SubscriptionRequestStripePay,
         SubscriptionRequestCreemPay, SubscriptionRequestEpay
<1> QED
  BY <1>1, InsertKeeps

\* A checkout that is opened has not been paid.
LEMMA OpenedKeeps ==
  ASSUME IInv, NEW o \in Orders, Opened(o)
  PROVE  IInv'
<1> USE PaymentAssumption DEF IInv, Orders, Opened
<1>1. LockInv' /\ UNCHANGED <<at, trade>>
  BY LockUnchanged DEF lockVars
<1>2. OrderTypes'
  BY <1>1 DEF OrderTypes, Kinds, Providers
<1>3. Busy'
  BY <1>1 DEF Busy, OrderTypes, LockInv, Entry
<1>4. Openings'
  BY <1>1 DEF Openings, SavesPending, PaidOutIsSuccess, PaidOut, OrderTypes
<1>5. JobTrue'
  BY <1>1 DEF JobTrue, Busy, Openings, OrderTypes, LockInv, Entry
<1>6. SavesPending'
  BY <1>1 DEF SavesPending, JobTrue, Busy, Openings, OrderTypes, LockInv, Entry
<1>7. PaidOutIsSuccess'
  BY <1>1 DEF PaidOutIsSuccess, PaidOut, OnlyWhenPaid, Openings, SavesPending, OrderTypes
<1>8. OnlyWhenPaid'
  BY <1>1 DEF OnlyWhenPaid, JobTrue, PaidOutIsSuccess, PaidOut, Openings, OrderTypes
<1>9. PaidOutOnce'
  BY <1>1 DEF PaidOutOnce, PaidOutIsSuccess, PaidOut, Quota, OrderTypes
<1>10. AckedSettled'
  BY <1>1 DEF AckedSettled, AckedIsSettled, JobTrue, Openings, SavesPending, OrderTypes
<1> QED
  BY <1>1, <1>2, <1>3, <1>4, <1>5, <1>6, <1>7, <1>8, <1>9, <1>10

\* The row of a request that fails was paid out by hand, if at all.
LEMMA OpenFailsKeeps ==
  ASSUME IInv, NEW o \in Orders, OpenFails(o)
  PROVE  IInv'
<1> USE PaymentAssumption DEF IInv, Orders, OpenFails,
           WaffoOpenFails, PancakeOpenFails, EpayOpenFails, CreemOpenFails, EndOpening
<1>1. LockInv' /\ UNCHANGED <<at, trade>>
  BY LockUnchanged DEF lockVars
<1>2. OrderTypes'
  BY <1>1 DEF OrderTypes, Kinds, Providers
<1>3. Busy'
  BY <1>1 DEF Busy, OrderTypes, LockInv, Entry
<1>4. Openings'
  BY <1>1 DEF Openings, SavesPending, PaidOutIsSuccess, PaidOut, OrderTypes
<1>5. JobTrue'
  BY <1>1 DEF JobTrue, Busy, Openings, OrderTypes, LockInv, Entry
<1>6. SavesPending'
  BY <1>1 DEF SavesPending, JobTrue, Busy, Openings, OrderTypes, LockInv, Entry
<1>7. PaidOutIsSuccess'
  BY <1>1 DEF PaidOutIsSuccess, PaidOut, OnlyWhenPaid, Openings, SavesPending, OrderTypes
<1>8. OnlyWhenPaid'
  BY <1>1 DEF OnlyWhenPaid, JobTrue, PaidOutIsSuccess, PaidOut, Openings, OrderTypes
<1>9. PaidOutOnce'
  BY <1>1 DEF PaidOutOnce, PaidOutIsSuccess, PaidOut, Quota, OrderTypes
<1>10. AckedSettled'
  BY <1>1 DEF AckedSettled, AckedIsSettled, JobTrue, Openings, SavesPending, OrderTypes
<1> QED
  BY <1>1, <1>2, <1>3, <1>4, <1>5, <1>6, <1>7, <1>8, <1>9, <1>10

\* The provider's verdict is final.
LEMMA CheckoutKeeps ==
  ASSUME IInv, NEW o \in Orders, NEW result \in {"paid", "failed", "expired"}, Checkout(o, result)
  PROVE  IInv'
<1> USE PaymentAssumption DEF IInv, Orders, Checkout
<1>1. LockInv' /\ UNCHANGED <<at, trade>>
  BY LockUnchanged DEF lockVars
<1>2. OrderTypes'
  BY <1>1 DEF OrderTypes, Kinds, Providers
<1>3. Busy'
  BY <1>1 DEF Busy, OrderTypes, LockInv, Entry
<1>4. Openings'
  BY <1>1 DEF Openings, SavesPending, PaidOutIsSuccess, PaidOut, OrderTypes
<1>5. JobTrue'
  BY <1>1 DEF JobTrue, Busy, Openings, OrderTypes, LockInv, Entry
<1>6. SavesPending'
  BY <1>1 DEF SavesPending, JobTrue, Busy, Openings, OrderTypes, LockInv, Entry
<1>7. PaidOutIsSuccess'
  BY <1>1 DEF PaidOutIsSuccess, PaidOut, OnlyWhenPaid, Openings, SavesPending, OrderTypes
<1>8. OnlyWhenPaid'
  BY <1>1 DEF OnlyWhenPaid, JobTrue, PaidOutIsSuccess, PaidOut, Openings, OrderTypes
<1>9. PaidOutOnce'
  BY <1>1 DEF PaidOutOnce, PaidOutIsSuccess, PaidOut, Quota, OrderTypes
<1>10. AckedSettled'
  BY <1>1 DEF AckedSettled, AckedIsSettled, JobTrue, Openings, SavesPending, OrderTypes
<1> QED
  BY <1>1, <1>2, <1>3, <1>4, <1>5, <1>6, <1>7, <1>8, <1>9, <1>10

\* A webhook of the order's own provider tells the truth.
LEMMA ReceiveKeeps ==
  ASSUME IInv, NEW h \in Handlers, NEW p \in Providers, NEW o \in Orders,
         NEW op \in {"pay", "return", "expire", "fail"},
         op \in {"expire", "fail"} => p = "stripe", Receive(h, p, op, o)
  PROVE  IInv'
<1> USE LockAssumption DEF IInv, Orders
<1>1. LockInv'
  BY EnterKeeps DEF Receive
<1>2. OrderTypes'
  BY <1>1 DEF OrderTypes, Kinds, Providers, Receive, Enter, orderVars
<1>3. Busy'
  BY <1>1 DEF Busy, OrderTypes, LockInv, Entry, LockTypeOK, Receive, Enter, orderVars
<1>4. Openings'
  BY <1>1 DEF Openings, SavesPending, PaidOutIsSuccess, PaidOut, OrderTypes, Receive, Enter,
     orderVars
<1>5. JobTrue'
  <2>1. /\ job'[h] = [op |-> op, own |-> p = provider[o]] /\ trade'[h] = o
        /\ \A g \in Handlers \ {h} : job'[g] = job[g] /\ trade'[g] = trade[g] /\ at'[g] = at[g]
        /\ UNCHANGED <<provider, checkout, byHand>>
    BY DEF Receive, Enter, OrderTypes, LockInv, LockTypeOK, orderVars
  <2>2. ASSUME p = provider[o]
        PROVE  (op \in {"pay", "return"} => checkout[o] = "paid")
               /\ (op \in {"expire", "fail"} => provider[o] = "stripe")
    BY <2>2 DEF Receive
  <2>3. ASSUME NEW g \in Handlers, at'[g] # "out", job'[g].own
        PROVE  /\ job'[g].op \in {"pay", "return"} => checkout'[trade'[g]] = "paid"
               /\ job'[g].op = "manual" => byHand'[trade'[g]]
               /\ job'[g].op \in {"expire", "fail", "save"} => provider'[trade'[g]] = "stripe"
    <3>1. CASE g = h
      <4>1. job'[g].op = op /\ job'[g].own = (p = provider[o])
        BY <2>1, <3>1
      <4>2. p = provider[o]
        BY <2>3, <4>1
      <4> QED
        BY <2>1, <2>2, <3>1, <4>1, <4>2
    <3>2. CASE g # h
      BY <2>1, <2>3, <3>2 DEF JobTrue
    <3> QED
      BY <3>1, <3>2
  <2> QED
    BY <2>3 DEF JobTrue
<1>6. SavesPending'
  BY <1>1 DEF SavesPending, JobTrue, Busy, Openings, OrderTypes, LockInv, Entry, LockTypeOK,
     Receive, Enter, orderVars
<1>7. PaidOutIsSuccess'
  BY <1>1 DEF PaidOutIsSuccess, PaidOut, OnlyWhenPaid, Openings, SavesPending, OrderTypes,
     Receive, Enter, orderVars
<1>8. OnlyWhenPaid'
  BY <1>1 DEF OnlyWhenPaid, JobTrue, PaidOutIsSuccess, PaidOut, Openings, OrderTypes, Receive,
     Enter, orderVars
<1>9. PaidOutOnce'
  BY <1>1 DEF PaidOutOnce, PaidOutIsSuccess, PaidOut, Quota, OrderTypes, Receive, Enter,
     orderVars
<1>10. AckedSettled'
  BY <1>1 DEF AckedSettled, AckedIsSettled, JobTrue, Openings, SavesPending, OrderTypes,
     Receive, Enter, orderVars
<1> QED
  BY <1>1, <1>2, <1>3, <1>4, <1>5, <1>6, <1>7, <1>8, <1>9, <1>10

\* Every webhook that takes the lock is received that way.
LEMMA WebhooksKeep ==
  ASSUME IInv, NEW h \in Handlers, NEW o \in Orders,
         \/ fulfillOrder(h, o) \/ sessionExpired(h, o) \/ sessionAsyncPaymentFailed(h, o)
         \/ handleCheckoutCompleted(h, o) \/ EpayNotify(h, o) \/ SubscriptionEpayNotify(h, o)
         \/ SubscriptionEpayReturn(h, o) \/ handleWaffoPayment(h, o) \/ WaffoPancakeWebhook(h, o)
  PROVE  IInv'
<1>1. \E p \in Providers, op \in {"pay", "return", "expire", "fail"} :
         (op \in {"expire", "fail"} => p = "stripe") /\ Receive(h, p, op, o)
  BY DEF Providers, fulfillOrder, sessionExpired, sessionAsyncPaymentFailed,
         handleCheckoutCompleted, EpayNotify, SubscriptionEpayNotify, SubscriptionEpayReturn,
         handleWaffoPayment, WaffoPancakeWebhook
<1> QED
  BY <1>1, ReceiveKeeps

\* An administrator's request is on record.
LEMMA AdminCompleteTopUpKeeps ==
  ASSUME IInv, NEW h \in Handlers, NEW o \in Orders, AdminCompleteTopUp(h, o)
  PROVE  IInv'
<1> USE LockAssumption DEF IInv, Orders
<1>1. LockInv'
  BY EnterKeeps DEF AdminCompleteTopUp
<1>2. OrderTypes'
  BY <1>1 DEF OrderTypes, Kinds, Providers, AdminCompleteTopUp, Enter
<1>3. Busy'
  BY <1>1 DEF Busy, OrderTypes, LockInv, Entry, LockTypeOK, AdminCompleteTopUp, Enter
<1>4. Openings'
  BY <1>1 DEF Openings, SavesPending, PaidOutIsSuccess, PaidOut, OrderTypes, AdminCompleteTopUp,
     Enter
<1>5. JobTrue'
  BY <1>1 DEF JobTrue, Busy, Openings, OrderTypes, LockInv, Entry, LockTypeOK,
     AdminCompleteTopUp, Enter
<1>6. SavesPending'
  BY <1>1 DEF SavesPending, JobTrue, Busy, Openings, OrderTypes, LockInv, Entry, LockTypeOK,
     AdminCompleteTopUp, Enter
<1>7. PaidOutIsSuccess'
  BY <1>1 DEF PaidOutIsSuccess, PaidOut, OnlyWhenPaid, Openings, SavesPending, OrderTypes,
     AdminCompleteTopUp, Enter
<1>8. OnlyWhenPaid'
  BY <1>1 DEF OnlyWhenPaid, JobTrue, PaidOutIsSuccess, PaidOut, Openings, OrderTypes,
     AdminCompleteTopUp, Enter
<1>9. PaidOutOnce'
  BY <1>1 DEF PaidOutOnce, PaidOutIsSuccess, PaidOut, Quota, OrderTypes, AdminCompleteTopUp,
     Enter
<1>10. AckedSettled'
  BY <1>1 DEF AckedSettled, AckedIsSettled, JobTrue, Openings, SavesPending, OrderTypes,
     AdminCompleteTopUp, Enter
<1> QED
  BY <1>1, <1>2, <1>3, <1>4, <1>5, <1>6, <1>7, <1>8, <1>9, <1>10

\* Taking the lock changes no order.
LEMMA TakeLockKeeps ==
  ASSUME IInv, NEW h \in Handlers, TakeLock(h)
  PROVE  IInv'
<1> USE LockAssumption DEF IInv, Orders
<1>1. LockInv'
  BY AcquireKeeps DEF TakeLock
<1>2. OrderTypes'
  BY <1>1 DEF OrderTypes, Kinds, Providers, TakeLock, Acquire, orderVars
<1>3. Busy'
  BY <1>1 DEF Busy, OrderTypes, LockInv, Entry, LockTypeOK, TakeLock, Acquire, orderVars
<1>4. Openings'
  BY <1>1 DEF Openings, SavesPending, PaidOutIsSuccess, PaidOut, OrderTypes, TakeLock, Acquire,
     orderVars
<1>5. JobTrue'
  BY <1>1 DEF JobTrue, Busy, Openings, OrderTypes, LockInv, Entry, LockTypeOK, TakeLock,
     Acquire, orderVars
<1>6. SavesPending'
  BY <1>1 DEF SavesPending, JobTrue, Busy, Openings, OrderTypes, LockInv, Entry, LockTypeOK,
     TakeLock, Acquire, orderVars
<1>7. PaidOutIsSuccess'
  BY <1>1 DEF PaidOutIsSuccess, PaidOut, OnlyWhenPaid, Openings, SavesPending, OrderTypes,
     TakeLock, Acquire, orderVars
<1>8. OnlyWhenPaid'
  BY <1>1 DEF OnlyWhenPaid, JobTrue, PaidOutIsSuccess, PaidOut, Openings, OrderTypes, TakeLock,
     Acquire, orderVars
<1>9. PaidOutOnce'
  BY <1>1 DEF PaidOutOnce, PaidOutIsSuccess, PaidOut, Quota, OrderTypes, TakeLock, Acquire,
     orderVars
<1>10. AckedSettled'
  BY <1>1 DEF AckedSettled, AckedIsSettled, JobTrue, Openings, SavesPending, OrderTypes,
     TakeLock, Acquire, orderVars
<1> QED
  BY <1>1, <1>2, <1>3, <1>4, <1>5, <1>6, <1>7, <1>8, <1>9, <1>10

\* A pending order has credited nothing yet.
LEMMA CreditKeeps ==
  ASSUME IInv, NEW h \in Handlers, at[h] = "in", job[h].op \in {"pay", "manual"},
         kind[trade[h]] = "topup", Credit(h)
  PROVE  IInv'
<1> USE PaymentAssumption DEF IInv, Orders, Credit
<1>1. LockInv' /\ UNCHANGED <<at, trade>>
  BY LockUnchanged DEF lockVars
<1>2. /\ at[h] = "in" /\ trade[h] \in Orders
      /\ \A g \in Handlers : at[g] = "in" /\ trade[g] = trade[h] => g = h
  BY LockExcludes DEF LockInv, Entry, OneAtATime, Handles
<1>3. OrderTypes'
  BY <1>1, <1>2, QuotaPositive DEF OrderTypes, Kinds, Providers, Finish, Idle, PendingFor,
     Acknowledge
<1>4. Busy'
  BY <1>1, <1>2 DEF Busy, OrderTypes, LockInv, Entry, Finish, Idle, PendingFor, Acknowledge
<1>5. Openings'
  BY <1>1, <1>2, QuotaPositive DEF Openings, SavesPending, PaidOutIsSuccess, PaidOut,
     OrderTypes, Finish, Idle, PendingFor, Acknowledge
<1>6. JobTrue'
  BY <1>1, <1>2 DEF JobTrue, Busy, Openings, OrderTypes, LockInv, Entry, Finish, Idle,
     PendingFor, Acknowledge
<1>7. SavesPending'
  BY <1>1, <1>2 DEF SavesPending, JobTrue, Busy, Openings, OrderTypes, LockInv, Entry, Finish,
     Idle, PendingFor, Acknowledge
<1>8. PaidOutIsSuccess'
  BY <1>1, <1>2, QuotaPositive DEF PaidOutIsSuccess, PaidOut, OnlyWhenPaid, Openings,
     SavesPending, OrderTypes, Finish, Idle, PendingFor, Acknowledge
<1>9. OnlyWhenPaid'
  BY <1>1, <1>2, QuotaPositive DEF OnlyWhenPaid, JobTrue, PaidOutIsSuccess, PaidOut, Openings,
     OrderTypes, Finish, Idle, PendingFor, Acknowledge
<1>10. PaidOutOnce'
  <2>1. /\ credited[trade[h]] = 0 /\ grants[trade[h]] = 0
    BY <1>2 DEF PaidOutIsSuccess, PaidOut, PendingFor, OrderTypes
  <2>2. credited'[trade[h]] = Quota(job[h].op, trade[h])
    BY <1>2, <2>1, QuotaPositive DEF OrderTypes
  <2>3. \A op, x : Quota(op, x)' = Quota(op, x)
    BY DEF Quota
  <2> QED
    BY <1>2, <2>1, <2>2, <2>3 DEF PaidOutOnce, OrderTypes
<1>11. AckedSettled'
  BY <1>1, <1>2 DEF AckedSettled, AckedIsSettled, JobTrue, Openings, SavesPending, OrderTypes,
     Finish, Idle, PendingFor, Acknowledge
<1> QED
  BY <1>1, <1>2, <1>3, <1>4, <1>5, <1>6, <1>7, <1>8, <1>9, <1>10, <1>11

\* A pending order has created no subscription yet.
LEMMA GrantKeeps ==
  ASSUME IInv, NEW h \in Handlers, at[h] = "in", job[h].op \in {"pay", "return"},
         kind[trade[h]] = "subscription", Grant(h)
  PROVE  IInv'
<1> USE PaymentAssumption DEF IInv, Orders, Grant
<1>1. LockInv' /\ UNCHANGED <<at, trade>>
  BY LockUnchanged DEF lockVars
<1>2. /\ at[h] = "in" /\ trade[h] \in Orders
      /\ \A g \in Handlers : at[g] = "in" /\ trade[g] = trade[h] => g = h
  BY LockExcludes DEF LockInv, Entry, OneAtATime, Handles
<1>3. OrderTypes'
  BY <1>1, <1>2 DEF OrderTypes, Kinds, Providers, Finish, Idle, PendingFor, Acknowledge
<1>4. Busy'
  BY <1>1, <1>2 DEF Busy, OrderTypes, LockInv, Entry, Finish, Idle, PendingFor, Acknowledge
<1>5. Openings'
  BY <1>1, <1>2 DEF Openings, SavesPending, PaidOutIsSuccess, PaidOut, OrderTypes, Finish, Idle,
     PendingFor, Acknowledge
<1>6. JobTrue'
  BY <1>1, <1>2 DEF JobTrue, Busy, Openings, OrderTypes, LockInv, Entry, Finish, Idle,
     PendingFor, Acknowledge
<1>7. SavesPending'
  BY <1>1, <1>2 DEF SavesPending, JobTrue, Busy, Openings, OrderTypes, LockInv, Entry, Finish,
     Idle, PendingFor, Acknowledge
<1>8. PaidOutIsSuccess'
  BY <1>1, <1>2 DEF PaidOutIsSuccess, PaidOut, OnlyWhenPaid, Openings, SavesPending, OrderTypes,
     Finish, Idle, PendingFor, Acknowledge
<1>9. OnlyWhenPaid'
  BY <1>1, <1>2 DEF OnlyWhenPaid, JobTrue, PaidOutIsSuccess, PaidOut, Openings, OrderTypes,
     Finish, Idle, PendingFor, Acknowledge
<1>10. PaidOutOnce'
  BY <1>1, <1>2 DEF PaidOutOnce, PaidOutIsSuccess, PaidOut, Quota, OrderTypes, Finish, Idle,
     PendingFor, Acknowledge
<1>11. AckedSettled'
  BY <1>1, <1>2 DEF AckedSettled, AckedIsSettled, JobTrue, Openings, SavesPending, OrderTypes,
     Finish, Idle, PendingFor, Acknowledge
<1> QED
  BY <1>1, <1>2, <1>3, <1>4, <1>5, <1>6, <1>7, <1>8, <1>9, <1>10, <1>11

\* An answer changes nothing, and is success for epay and Waffo only when the
\* order is completed.
LEMMA AnswerKeeps ==
  ASSUME IInv, NEW h \in Handlers, at[h] = "in", NoEffect(h),
         \/ UNCHANGED acked
         \/ /\ Acknowledge(h)
            /\ provider[trade[h]] \in {"epay", "waffo"} => status[trade[h]] = "success"
  PROVE  IInv'
<1> USE PaymentAssumption DEF IInv, Orders, NoEffect
<1>1. LockInv' /\ UNCHANGED <<at, trade>>
  BY LockUnchanged DEF lockVars
<1>2. /\ at[h] = "in" /\ trade[h] \in Orders
      /\ \A g \in Handlers : at[g] = "in" /\ trade[g] = trade[h] => g = h
  BY LockExcludes DEF LockInv, Entry, OneAtATime, Handles
<1>3. OrderTypes'
  BY <1>1, <1>2 DEF OrderTypes, Kinds, Providers, Finish, Idle, Acknowledge
<1>4. Busy'
  BY <1>1, <1>2 DEF Busy, OrderTypes, LockInv, Entry, Finish, Idle, Acknowledge
<1>5. Openings'
  BY <1>1, <1>2 DEF Openings, SavesPending, PaidOutIsSuccess, PaidOut, OrderTypes, Finish, Idle,
     Acknowledge
<1>6. JobTrue'
  BY <1>1, <1>2 DEF JobTrue, Busy, Openings, OrderTypes, LockInv, Entry, Finish, Idle,
     Acknowledge
<1>7. SavesPending'
  BY <1>1, <1>2 DEF SavesPending, JobTrue, Busy, Openings, OrderTypes, LockInv, Entry, Finish,
     Idle, Acknowledge
<1>8. PaidOutIsSuccess'
  BY <1>1, <1>2 DEF PaidOutIsSuccess, PaidOut, OnlyWhenPaid, Openings, SavesPending, OrderTypes,
     Finish, Idle, Acknowledge
<1>9. OnlyWhenPaid'
  BY <1>1, <1>2 DEF OnlyWhenPaid, JobTrue, PaidOutIsSuccess, PaidOut, Openings, OrderTypes,
     Finish, Idle, Acknowledge
<1>10. PaidOutOnce'
  BY <1>1, <1>2 DEF PaidOutOnce, PaidOutIsSuccess, PaidOut, Quota, OrderTypes, Finish, Idle,
     Acknowledge
<1>11. AckedSettled'
  BY <1>1, <1>2 DEF AckedSettled, AckedIsSettled, JobTrue, Openings, SavesPending, OrderTypes,
     Finish, Idle, Acknowledge
<1> QED
  BY <1>1, <1>2, <1>3, <1>4, <1>5, <1>6, <1>7, <1>8, <1>9, <1>10, <1>11

\* An order that expires was pending, and nobody else saves it.
LEMMA ExpireOrderKeeps ==
  ASSUME IInv, NEW h \in Handlers, ExpireOrder(h)
  PROVE  IInv'
<1> USE PaymentAssumption DEF IInv, Orders, ExpireOrder
<1>1. LockInv' /\ UNCHANGED <<at, trade>>
  BY LockUnchanged DEF lockVars
<1>2. /\ at[h] = "in" /\ trade[h] \in Orders
      /\ \A g \in Handlers : at[g] = "in" /\ trade[g] = trade[h] => g = h
  BY LockExcludes DEF LockInv, Entry, OneAtATime, Handles
<1>3. OrderTypes'
  BY <1>1, <1>2 DEF OrderTypes, Kinds, Providers, Handles, Finish, Idle, PendingFor
<1>4. Busy'
  BY <1>1, <1>2 DEF Busy, OrderTypes, LockInv, Entry, Handles, Finish, Idle, PendingFor
<1>5. Openings'
  BY <1>1, <1>2 DEF Openings, SavesPending, PaidOutIsSuccess, PaidOut, OrderTypes, Handles,
     Finish, Idle, PendingFor
<1>6. JobTrue'
  BY <1>1, <1>2 DEF JobTrue, Busy, Openings, OrderTypes, LockInv, Entry, Handles, Finish, Idle,
     PendingFor
<1>7. SavesPending'
  BY <1>1, <1>2 DEF SavesPending, JobTrue, Busy, Openings, OrderTypes, LockInv, Entry, Handles,
     Finish, Idle, PendingFor
<1>8. PaidOutIsSuccess'
  BY <1>1, <1>2 DEF PaidOutIsSuccess, PaidOut, OnlyWhenPaid, Openings, SavesPending, OrderTypes,
     Handles, Finish, Idle, PendingFor
<1>9. OnlyWhenPaid'
  BY <1>1, <1>2 DEF OnlyWhenPaid, JobTrue, PaidOutIsSuccess, PaidOut, Openings, OrderTypes,
     Handles, Finish, Idle, PendingFor
<1>10. PaidOutOnce'
  BY <1>1, <1>2 DEF PaidOutOnce, PaidOutIsSuccess, PaidOut, Quota, OrderTypes, Handles, Finish,
     Idle, PendingFor
<1>11. AckedSettled'
  BY <1>1, <1>2 DEF AckedSettled, AckedIsSettled, JobTrue, Openings, SavesPending, OrderTypes,
     Handles, Finish, Idle, PendingFor
<1> QED
  BY <1>1, <1>2, <1>3, <1>4, <1>5, <1>6, <1>7, <1>8, <1>9, <1>10, <1>11

\* The row that is read is pending.
LEMMA ReadFailedKeeps ==
  ASSUME IInv, NEW h \in Handlers, ReadFailed(h)
  PROVE  IInv'
<1> USE PaymentAssumption DEF IInv, Orders, ReadFailed
<1>1. LockInv' /\ UNCHANGED <<at, trade>>
  BY LockUnchanged DEF lockVars
<1>2. /\ at[h] = "in" /\ trade[h] \in Orders
      /\ \A g \in Handlers : at[g] = "in" /\ trade[g] = trade[h] => g = h
  BY LockExcludes DEF LockInv, Entry, OneAtATime, Handles
<1>3. OrderTypes'
  BY <1>1, <1>2 DEF OrderTypes, Kinds, Providers, Handles, PendingFor, orderVars
<1>4. Busy'
  BY <1>1, <1>2 DEF Busy, OrderTypes, LockInv, Entry, Handles, PendingFor, orderVars
<1>5. Openings'
  BY <1>1, <1>2 DEF Openings, SavesPending, PaidOutIsSuccess, PaidOut, OrderTypes, Handles,
     PendingFor, orderVars
<1>6. JobTrue'
  BY <1>1, <1>2 DEF JobTrue, Busy, Openings, OrderTypes, LockInv, Entry, Handles, PendingFor,
     orderVars
<1>7. SavesPending'
  BY <1>1, <1>2 DEF SavesPending, JobTrue, Busy, Openings, OrderTypes, LockInv, Entry, Handles,
     PendingFor, orderVars
<1>8. PaidOutIsSuccess'
  BY <1>1, <1>2 DEF PaidOutIsSuccess, PaidOut, OnlyWhenPaid, Openings, SavesPending, OrderTypes,
     Handles, PendingFor, orderVars
<1>9. OnlyWhenPaid'
  BY <1>1, <1>2 DEF OnlyWhenPaid, JobTrue, PaidOutIsSuccess, PaidOut, Openings, OrderTypes,
     Handles, PendingFor, orderVars
<1>10. PaidOutOnce'
  BY <1>1, <1>2 DEF PaidOutOnce, PaidOutIsSuccess, PaidOut, Quota, OrderTypes, Handles,
     PendingFor, orderVars
<1>11. AckedSettled'
  BY <1>1, <1>2 DEF AckedSettled, AckedIsSettled, JobTrue, Openings, SavesPending, OrderTypes,
     Handles, PendingFor, orderVars
<1> QED
  BY <1>1, <1>2, <1>3, <1>4, <1>5, <1>6, <1>7, <1>8, <1>9, <1>10, <1>11

\* The row that is saved as failed is still pending.
LEMMA SaveFailedKeeps ==
  ASSUME IInv, NEW h \in Handlers, SaveFailed(h)
  PROVE  IInv'
<1> USE PaymentAssumption DEF IInv, Orders, SaveFailed
<1>1. LockInv' /\ UNCHANGED <<at, trade>>
  BY LockUnchanged DEF lockVars
<1>2. /\ at[h] = "in" /\ trade[h] \in Orders
      /\ \A g \in Handlers : at[g] = "in" /\ trade[g] = trade[h] => g = h
  BY LockExcludes DEF LockInv, Entry, OneAtATime, Handles
<1>3. OrderTypes'
  BY <1>1, <1>2 DEF OrderTypes, Kinds, Providers, Handles, Finish, Idle
<1>4. Busy'
  BY <1>1, <1>2 DEF Busy, OrderTypes, LockInv, Entry, Handles, Finish, Idle
<1>5. Openings'
  BY <1>1, <1>2 DEF Openings, SavesPending, PaidOutIsSuccess, PaidOut, OrderTypes, Handles,
     Finish, Idle
<1>6. JobTrue'
  BY <1>1, <1>2 DEF JobTrue, Busy, Openings, OrderTypes, LockInv, Entry, Handles, Finish, Idle
<1>7. SavesPending'
  BY <1>1, <1>2 DEF SavesPending, JobTrue, Busy, Openings, OrderTypes, LockInv, Entry, Handles,
     Finish, Idle
<1>8. PaidOutIsSuccess'
  BY <1>1, <1>2 DEF PaidOutIsSuccess, PaidOut, OnlyWhenPaid, Openings, SavesPending, OrderTypes,
     Handles, Finish, Idle
<1>9. OnlyWhenPaid'
  BY <1>1, <1>2 DEF OnlyWhenPaid, JobTrue, PaidOutIsSuccess, PaidOut, Openings, OrderTypes,
     Handles, Finish, Idle
<1>10. PaidOutOnce'
  BY <1>1, <1>2 DEF PaidOutOnce, PaidOutIsSuccess, PaidOut, Quota, OrderTypes, Handles, Finish,
     Idle
<1>11. AckedSettled'
  BY <1>1, <1>2 DEF AckedSettled, AckedIsSettled, JobTrue, Openings, SavesPending, OrderTypes,
     Handles, Finish, Idle
<1> QED
  BY <1>1, <1>2, <1>3, <1>4, <1>5, <1>6, <1>7, <1>8, <1>9, <1>10, <1>11

\* Giving the lock back changes no order.
LEMMA GiveLockBackKeeps ==
  ASSUME IInv, NEW h \in Handlers, GiveLockBack(h)
  PROVE  IInv'
<1> USE LockAssumption DEF IInv, Orders
<1>1. LockInv'
  BY UnlockKeeps, ReleaseKeeps DEF GiveLockBack
<1>2. OrderTypes'
  BY <1>1 DEF OrderTypes, Kinds, Providers, GiveLockBack, Unlock, Release, Handles, orderVars
<1>3. Busy'
  BY <1>1 DEF Busy, OrderTypes, LockInv, Entry, LockTypeOK, GiveLockBack, Unlock, Release,
     Handles, orderVars
<1>4. Openings'
  BY <1>1 DEF Openings, SavesPending, PaidOutIsSuccess, PaidOut, OrderTypes, GiveLockBack,
     Unlock, Release, Handles, orderVars
<1>5. JobTrue'
  BY <1>1 DEF JobTrue, Busy, Openings, OrderTypes, LockInv, Entry, LockTypeOK, GiveLockBack,
     Unlock, Release, Handles, orderVars
<1>6. SavesPending'
  BY <1>1 DEF SavesPending, JobTrue, Busy, Openings, OrderTypes, LockInv, Entry, LockTypeOK,
     GiveLockBack, Unlock, Release, Handles, orderVars
<1>7. PaidOutIsSuccess'
  BY <1>1 DEF PaidOutIsSuccess, PaidOut, OnlyWhenPaid, Openings, SavesPending, OrderTypes,
     GiveLockBack, Unlock, Release, Handles, orderVars
<1>8. OnlyWhenPaid'
  BY <1>1 DEF OnlyWhenPaid, JobTrue, PaidOutIsSuccess, PaidOut, Openings, OrderTypes,
     GiveLockBack, Unlock, Release, Handles, orderVars
<1>9. PaidOutOnce'
  BY <1>1 DEF PaidOutOnce, PaidOutIsSuccess, PaidOut, Quota, OrderTypes, GiveLockBack, Unlock,
     Release, Handles, orderVars
<1>10. AckedSettled'
  BY <1>1 DEF AckedSettled, AckedIsSettled, JobTrue, Openings, SavesPending, OrderTypes,
     GiveLockBack, Unlock, Release, Handles, orderVars
<1> QED
  BY <1>1, <1>2, <1>3, <1>4, <1>5, <1>6, <1>7, <1>8, <1>9, <1>10

\* A Waffo payment that is not made closes a pending order that no Stripe
\* handler has.
LEMMA WaffoFailedKeeps ==
  ASSUME IInv, NEW o \in Orders, WaffoFailed(o)
  PROVE  IInv'
<1> USE PaymentAssumption DEF IInv, Orders, WaffoFailed
<1>1. LockInv' /\ UNCHANGED <<at, trade>>
  BY LockUnchanged DEF lockVars
<1>2. OrderTypes'
  BY <1>1 DEF OrderTypes, Kinds, Providers
<1>3. Busy'
  BY <1>1 DEF Busy, OrderTypes, LockInv, Entry
<1>4. Openings'
  BY <1>1 DEF Openings, SavesPending, PaidOutIsSuccess, PaidOut, OrderTypes
<1>5. JobTrue'
  BY <1>1 DEF JobTrue, Busy, Openings, OrderTypes, LockInv, Entry
<1>6. SavesPending'
  BY <1>1 DEF SavesPending, JobTrue, Busy, Openings, OrderTypes, LockInv, Entry
<1>7. PaidOutIsSuccess'
  BY <1>1 DEF PaidOutIsSuccess, PaidOut, OnlyWhenPaid, Openings, SavesPending, OrderTypes
<1>8. OnlyWhenPaid'
  BY <1>1 DEF OnlyWhenPaid, JobTrue, PaidOutIsSuccess, PaidOut, Openings, OrderTypes
<1>9. PaidOutOnce'
  BY <1>1 DEF PaidOutOnce, PaidOutIsSuccess, PaidOut, Quota, OrderTypes
<1>10. AckedSettled'
  BY <1>1 DEF AckedSettled, AckedIsSettled, JobTrue, Openings, SavesPending, OrderTypes
<1> QED
  BY <1>1, <1>2, <1>3, <1>4, <1>5, <1>6, <1>7, <1>8, <1>9, <1>10

\* Waffo Pancake is told success for a payment that was made.
LEMMA PancakeUnresolvedKeeps ==
  ASSUME IInv, NEW o \in Orders, PancakeUnresolved(o)
  PROVE  IInv'
<1> USE PaymentAssumption DEF IInv, Orders, PancakeUnresolved
<1>1. LockInv' /\ UNCHANGED <<at, trade>>
  BY LockUnchanged DEF lockVars
<1>2. OrderTypes'
  BY <1>1 DEF OrderTypes, Kinds, Providers
<1>3. Busy'
  BY <1>1 DEF Busy, OrderTypes, LockInv, Entry
<1>4. Openings'
  BY <1>1 DEF Openings, SavesPending, PaidOutIsSuccess, PaidOut, OrderTypes
<1>5. JobTrue'
  BY <1>1 DEF JobTrue, Busy, Openings, OrderTypes, LockInv, Entry
<1>6. SavesPending'
  BY <1>1 DEF SavesPending, JobTrue, Busy, Openings, OrderTypes, LockInv, Entry
<1>7. PaidOutIsSuccess'
  BY <1>1 DEF PaidOutIsSuccess, PaidOut, OnlyWhenPaid, Openings, SavesPending, OrderTypes
<1>8. OnlyWhenPaid'
  BY <1>1 DEF OnlyWhenPaid, JobTrue, PaidOutIsSuccess, PaidOut, Openings, OrderTypes
<1>9. PaidOutOnce'
  BY <1>1 DEF PaidOutOnce, PaidOutIsSuccess, PaidOut, Quota, OrderTypes
<1>10. AckedSettled'
  BY <1>1 DEF AckedSettled, AckedIsSettled, JobTrue, Openings, SavesPending, OrderTypes
<1> QED
  BY <1>1, <1>2, <1>3, <1>4, <1>5, <1>6, <1>7, <1>8, <1>9, <1>10

\* A crash leaves the orders as they are and nobody at work.
LEMMA CrashKeeps ==
  ASSUME IInv, Crash
  PROVE  IInv'
<1> USE LockAssumption DEF IInv, Orders
<1>1. LockInv'
  BY LoseLocksKeeps DEF Crash
<1>2. OrderTypes'
  BY <1>1 DEF OrderTypes, Kinds, Providers, Crash, LoseLocks, Idle
<1>3. Busy'
  BY <1>1 DEF Busy, OrderTypes, LockInv, Entry, LockTypeOK, Crash, LoseLocks, Idle
<1>4. Openings'
  BY <1>1 DEF Openings, SavesPending, PaidOutIsSuccess, PaidOut, OrderTypes, Crash, LoseLocks,
     Idle
<1>5. JobTrue'
  BY <1>1 DEF JobTrue, Busy, Openings, OrderTypes, LockInv, Entry, LockTypeOK, Crash, LoseLocks,
     Idle
<1>6. SavesPending'
  BY <1>1 DEF SavesPending, JobTrue, Busy, Openings, OrderTypes, LockInv, Entry, LockTypeOK,
     Crash, LoseLocks, Idle
<1>7. PaidOutIsSuccess'
  BY <1>1 DEF PaidOutIsSuccess, PaidOut, OnlyWhenPaid, Openings, SavesPending, OrderTypes,
     Crash, LoseLocks, Idle
<1>8. OnlyWhenPaid'
  BY <1>1 DEF OnlyWhenPaid, JobTrue, PaidOutIsSuccess, PaidOut, Openings, OrderTypes, Crash,
     LoseLocks, Idle
<1>9. PaidOutOnce'
  BY <1>1 DEF PaidOutOnce, PaidOutIsSuccess, PaidOut, Quota, OrderTypes, Crash, LoseLocks, Idle
<1>10. AckedSettled'
  BY <1>1 DEF AckedSettled, AckedIsSettled, JobTrue, Openings, SavesPending, OrderTypes, Crash,
     LoseLocks, Idle
<1> QED
  BY <1>1, <1>2, <1>3, <1>4, <1>5, <1>6, <1>7, <1>8, <1>9, <1>10

\* The subscriptions of the user are no part of what the orders promise.
LEMMA OthersKeep == ASSUME IInv, UNCHANGED <<lockVars, orderVars, job>> PROVE IInv'
<1>1. LockInv'
  BY LockUnchanged DEF IInv
<1>2. OrderTypes' /\ Busy' /\ Openings' /\ JobTrue' /\ SavesPending'
  BY DEF IInv, lockVars, orderVars, OrderTypes, Busy, Openings, JobTrue, SavesPending,
         PaidOut
<1>3. PaidOutIsSuccess' /\ OnlyWhenPaid' /\ PaidOutOnce' /\ AckedSettled'
  BY DEF IInv, orderVars, PaidOutIsSuccess, OnlyWhenPaid, PaidOutOnce, AckedSettled,
         AckedIsSettled, PaidOut, Quota
<1> QED
  BY <1>1, <1>2, <1>3 DEF IInv

\* The functions that complete an order credit it, create its subscription or
\* answer.
LEMMA CompletionsKeep ==
  ASSUME IInv, NEW h \in Handlers,
         \/ Recharge(h) \/ RechargeEpay(h) \/ RechargeWaffo(h) \/ RechargeWaffoPancake(h)
         \/ RechargeCreem(h) \/ ManualCompleteTopUp(h) \/ CompleteSubscriptionOrder(h)
  PROVE  IInv'
<1> USE DEF Recharge, RechargeEpay, RechargeWaffo, RechargeWaffoPancake, RechargeCreem,
            ManualCompleteTopUp, CompleteSubscriptionOrder, Pays, Handles
<1>1. CASE Credit(h) /\ kind[trade[h]] = "topup" /\ at[h] = "in" /\ job[h].op \in {"pay", "manual"}
  BY <1>1, CreditKeeps
<1>2. CASE Grant(h) /\ kind[trade[h]] = "subscription" /\ at[h] = "in" /\ job[h].op \in {"pay", "return"}
  BY <1>2, GrantKeeps
<1>3. CASE Repeated(h) /\ at[h] = "in"
  BY <1>3, AnswerKeeps DEF Repeated
<1> QED
  BY <1>1, <1>2, <1>3

\* Nothing is done for an order, and Stripe and Creem are told success.
LEMMA RefusalsKeep ==
  ASSUME IInv, NEW h \in Handlers, Refuse(h) \/ StripeIgnores(h) \/ CreemIgnores(h)
  PROVE  IInv'
<1> QED
  BY AnswerKeeps DEF Refuse, StripeIgnores, CreemIgnores, Handles

\* The invariant holds in every step.
LEMMA PaymentsStep == IInv /\ [Next]_vars => IInv'
<1> SUFFICES ASSUME IInv, [Next]_vars PROVE IInv'
  OBVIOUS
<1>1. CASE Buyer
  BY <1>1, PlaceOrderKeeps, OpenedKeeps, OpenFailsKeeps, CheckoutKeeps DEF Buyer
<1>2. CASE Webhook
  BY <1>2, WebhooksKeep, AdminCompleteTopUpKeeps, WaffoFailedKeeps, PancakeUnresolvedKeeps DEF Webhook
<1>3. CASE Crash
  BY <1>3, CrashKeeps
<1>4. CASE Subscriptions \/ UNCHANGED vars
  BY <1>4, OthersKeep DEF Subscriptions, vars
<1>5. ASSUME NEW h \in Handlers, Handler(h) PROVE IInv'
  BY <1>5, TakeLockKeeps, CompletionsKeep, ExpireOrderKeeps, ReadFailedKeeps, SaveFailedKeeps,
     RefusalsKeep, GiveLockBackKeeps DEF Handler
<1> QED
  BY <1>1, <1>2, <1>3, <1>4, <1>5 DEF Next

\* The inductive invariant is one.
THEOREM PaymentsInvariant == Spec => []IInv
<1> QED
  BY PaymentsInit, PaymentsStep, PTL DEF Spec

\* Two handlers never work on one trade number (LockOrder, UnlockOrder).
THEOREM OrdersExclude == Spec => []OneAtATime
<1>1. IInv => OneAtATime
  BY LockExcludes DEF IInv
<1> QED
  BY PaymentsInvariant, <1>1, PTL

\* A handler in LockOrder finds its mutex free, or locked by a handler that is
\* past LockOrder with the same trade number and has UnlockOrder before it.
WaitsForWorker ==
    \A h \in Handlers : at[h] = "acquire" =>
        \/ holder[rcm[h]] = None
        \/ \E g \in Handlers : /\ at[g] = "in" /\ trade[g] = trade[h]
                               /\ holder[rcm[h]] = g

\* Nobody waits for a mutex that a finished or a waiting handler has left
\* locked, or that belongs to another trade number: since a handler works
\* with one lock, handlers never wait for each other in a circle (LockOrder,
\* UnlockOrder).
THEOREM OrdersWaitForWorker == Spec => []WaitsForWorker
<1>1. ASSUME IInv PROVE WaitsForWorker
  <2> SUFFICES ASSUME NEW h \in Handlers, at[h] = "acquire", holder[rcm[h]] # None
               PROVE  \E g \in Handlers : /\ at[g] = "in" /\ trade[g] = trade[h]
                                          /\ holder[rcm[h]] = g
    BY DEF WaitsForWorker
  <2> DEFINE g == holder[rcm[h]]
  <2>1. /\ trade[h] \in Trades /\ rcm[h] \in Mutexes
        /\ orderLocks[trade[h]] = rcm[h]
    BY <1>1 DEF IInv, LockInv, Entry
  <2>2. g \in Handlers /\ at[g] = "in" /\ rcm[g] = rcm[h]
    BY <1>1, <2>1 DEF IInv, LockInv, Holds, LockTypeOK
  <2>3. trade[g] \in Trades /\ orderLocks[trade[g]] = rcm[h]
    BY <1>1, <2>2 DEF IInv, LockInv, Entry
  <2>4. trade[g] = trade[h]
    BY <1>1, <2>1, <2>3, LockAssumption DEF IInv, LockInv, Apart
  <2> QED
    BY <2>2, <2>4
<1> QED
  BY PaymentsInvariant, <1>1, PTL

\* The map of locks has the entries in use, with their counts.
THEOREM OrdersCounted == Spec => []EntriesCounted
<1>1. IInv => EntriesCounted
  BY LockCounts DEF IInv
<1> QED
  BY PaymentsInvariant, <1>1, PTL

\* An order is paid out once, however often and by whomever it is reported
\* paid (Recharge*, ManualCompleteTopUp, CompleteSubscriptionOrder).
THEOREM OrdersPaidOnce == Spec => []PaidOutOnce
<1>1. IInv => PaidOutOnce
  BY DEF IInv
<1> QED
  BY PaymentsInvariant, <1>1, PTL

\* Nothing is paid out for a checkout that was not paid, unless by hand.
THEOREM OrdersPaidFor == Spec => []OnlyWhenPaid
<1>1. IInv => OnlyWhenPaid
  BY DEF IInv
<1> QED
  BY PaymentsInvariant, <1>1, PTL

\* The status of an order and what was paid out agree
\* (sessionAsyncPaymentFailed under LockOrder), except for a Waffo or Waffo
\* Pancake top-up that was completed by hand before its request failed.
THEOREM OrdersAgree == Spec => []PaidOutIsSuccess
<1>1. IInv => PaidOutIsSuccess
  BY DEF IInv
<1> QED
  BY PaymentsInvariant, <1>1, PTL

\* epay and Waffo get success for a payment only when the order is completed,
\* and it stays so (EpayNotify, SubscriptionEpayNotify, handleWaffoPayment).
THEOREM OrdersAcked == Spec => []AckedIsSettled
<1>1. IInv => AckedIsSettled
  BY DEF IInv, AckedSettled
<1> QED
  BY PaymentsInvariant, <1>1, PTL

\* A step of an order is a step of the subscriptions, or leaves them alone.
LEMMA OrderStepsSubs == IInv /\ [Next]_vars => [NextSubs]_subVars
<1> SUFFICES ASSUME IInv, [Next]_vars PROVE [NextSubs]_subVars
  OBVIOUS
<1>1. CASE Buyer
  BY <1>1 DEF Buyer, PlaceOrder, Insert, RequestStripePay, RequestEpay, RequestCreemPay,
         RequestWaffoPay, RequestWaffoPancakePay, SubscriptionRequestStripePay,
         SubscriptionRequestCreemPay, SubscriptionRequestEpay, Opened, OpenFails, EndOpening,
         WaffoOpenFails, PancakeOpenFails, EpayOpenFails, CreemOpenFails, Checkout
<1>2. CASE Webhook
  BY <1>2 DEF Webhook, fulfillOrder, sessionExpired, sessionAsyncPaymentFailed,
         handleCheckoutCompleted, EpayNotify, SubscriptionEpayNotify, SubscriptionEpayReturn,
         handleWaffoPayment, WaffoPancakeWebhook, Receive, AdminCompleteTopUp, WaffoFailed,
         PancakeUnresolved
<1>3. CASE Crash \/ Subscriptions \/ UNCHANGED vars
  BY <1>3 DEF Crash, Subscriptions, vars
<1>4. ASSUME NEW h \in Handlers, Handler(h) PROVE [NextSubs]_subVars
  <2>1. CASE CompleteSubscriptionOrder(h) /\ Grant(h)
    <3>1. trade[h] \in Orders
      BY <2>1 DEF CompleteSubscriptionOrder, Handles, IInv, LockInv, Entry, Orders
    <3>2. PlanOf[trade[h]] \in Plans
      BY <3>1, PaymentAssumption
    <3> QED
      BY <2>1, <3>2 DEF Grant, AdminBind, NextSubs
  <2>2. CASE ~(CompleteSubscriptionOrder(h) /\ Grant(h))
    BY <1>4, <2>2 DEF Handler, TakeLock, Recharge, RechargeEpay, RechargeWaffo,
       RechargeWaffoPancake, RechargeCreem, ManualCompleteTopUp, CompleteSubscriptionOrder, Credit,
       Repeated, NoEffect, ExpireOrder, ReadFailed, SaveFailed, Refuse, StripeIgnores,
       CreemIgnores, GiveLockBack
  <2> QED
    BY <2>1, <2>2
<1> QED
  BY <1>1, <1>2, <1>3, <1>4 DEF Next

\* Orders and webhooks implement the subscriptions of a user: paid orders
\* create them as an administrator does, and touch them in no other way
\* (CompleteSubscriptionOrder, CreateUserSubscriptionFromPlanTx).
THEOREM PaymentsImplementSubs == Spec => SubsSpec
<1>1. Init => InitSubs
  BY DEF Init
<1> QED
  BY <1>1, PaymentsInvariant, OrderStepsSubs, PTL DEF Spec, SubsSpec

\* Every variable keeps its type, for all plans, orders and handlers.
THEOREM PaymentsTypes == Spec => []TypeOK
<1>1. IInv /\ SubsInv => TypeOK
  BY DEF IInv, LockInv, OrderTypes, SubsInv, TypeOK
<1> QED
  BY <1>1, PaymentsInvariant, PaymentsImplementSubs, SubsInvariant, PTL

\* A user with an upgraded subscription that has not ended keeps a group
\* other than the one of before (downgradeUserGroupForSubscriptionTx,
\* ExpireDueSubscriptions).
THEOREM UpgradeKept == Spec => []KeptWhileActive
<1> QED
  BY PaymentsImplementSubs, SubsInvariant, SubsImplies, PTL

\* A user whose upgrades were all bought in the group of before is back in it
\* when the last one is over (ExpireDueSubscriptions,
\* AdminInvalidateUserSubscription, AdminDeleteUserSubscription).
THEOREM UpgradeReverts == Spec => []LoneUpgradeReverts
<1> QED
  BY PaymentsImplementSubs, SubsInvariant, SubsImplies, PTL
=============================================================================
