------------------------- MODULE QuotaLedger_proofs -------------------------
(***************************************************************************)
(* Proofs about QuotaLedger, for any users, tokens, amounts and bound.      *)
(* Inv is inductive; with it every step of the ledger is a step of Wallet   *)
(* or leaves the wallet unchanged.                                          *)
(***************************************************************************)
EXTENDS QuotaLedger, TLAPS

\* What batchUpdate has swapped out of an account is all that is queued for it.
Alone ==
    /\ \A u \in Users : flightU[u] # 0 => pendU[u] = 0
    /\ \A t \in Tokens : flightT[t] # 0 => pendT[t] = 0

Inv == TypeOK /\ SwappedOnlyUnderLock /\ Alone

\* Adding to an account gives a function of the same accounts.
LEMMA AddType ==
    ASSUME NEW S, NEW f \in [S -> Int], NEW k, NEW d \in Int
    PROVE  /\ Add(f, k, d) \in [S -> Int]
           /\ \A x \in S : Add(f, k, d)[x] = IF x = k THEN f[x] + d ELSE f[x]
  BY DEF Add

\* A store read at one account is an integer (a missing key is 0).
LEMMA OfType ==
    ASSUME NEW S, NEW f \in [S -> Int], NEW k
    PROVE  Of(f, k) \in Int /\ (k \in S => Of(f, k) = f[k])
  BY DEF Of

\* The empty store is a store.
LEMMA ZeroType ==
    ASSUME NEW S
    PROVE  Zero(S) \in [S -> Int] /\ \A x \in S : Zero(S)[x] = 0
  BY DEF Zero
-----------------------------------------------------------------------------

\* Every call is answered with a Reply.
LEMMA ReplyType ==
    ASSUME NEW op \in {"reserve", "adjust", "override", "restore", "crash"},
           NEW u \in Users \cup {None}, NEW t \in Tokens \cup {None},
           NEW q \in Int, NEW ok \in BOOLEAN, Answer(op, u, t, q, ok)
    PROVE  reply' \in Reply
  BY DEF Answer, Reply

\* The amounts of calls are integers, taken or given back.
LEMMA AmountType ==
    ASSUME NEW q \in Amounts
    PROVE  q \in Int /\ -q \in Int /\ -q \in Amounts
  BY LedgerAssumption DEF LedgerAssumption

\* The invariant holds when the process starts.
LEMMA InitInv == Init => Inv
  <1> SUFFICES ASSUME Init PROVE Inv
    OBVIOUS
  <1>1. TypeOK
    <2>1. quota \in [Users -> Int] /\ remain \in [Tokens -> Int]
      BY LedgerAssumption DEF LedgerAssumption, Init
    <2>2. reply \in Reply
      BY DEF Init, Reply
    <2> QED
      BY <2>1, <2>2, ZeroType DEF Init, TypeOK
  <1>2. SwappedOnlyUnderLock
    BY ZeroType DEF Init, SwappedOnlyUnderLock
  <1>3. Alone
    BY ZeroType DEF Init, Alone
  <1> QED
    BY <1>1, <1>2, <1>3 DEF Inv

\* With the lock free nothing is swapped out.
LEMMA NothingOut ==
    ASSUME SwappedOnlyUnderLock, LockFree
    PROVE  (\A u \in Users : flightU[u] = 0) /\ (\A t \in Tokens : flightT[t] = 0)
  BY ZeroType DEF SwappedOnlyUnderLock, LockFree

\* A committed transaction and an unchanged ledger, the two ways a call ends.
LEMMA CommitInv ==
    ASSUME Inv, LockFree, NEW u \in Users \cup {None}, NEW t \in Tokens \cup {None},
           NEW q \in Int, Commit(u, t, q), reply' \in Reply
    PROVE  Inv'
  <1>1. /\ Of(pendU, u) \in Int /\ -Of(pendU, u) \in Int /\ Of(pendU, u) - q \in Int
        /\ Of(pendT, t) \in Int /\ -Of(pendT, t) \in Int
        /\ Of(pendT, t) - q \in Int /\ q - Of(pendT, t) \in Int
    BY OfType DEF Inv, TypeOK
  <1>2. /\ quota' \in [Users -> Int] /\ pendU' \in [Users -> Int]
        /\ remain' \in [Tokens -> Int] /\ used' \in [Tokens -> Int]
        /\ pendT' \in [Tokens -> Int]
    BY <1>1, AddType DEF Inv, TypeOK, Commit
  <1>3. TypeOK'
    BY <1>2 DEF Inv, TypeOK, Commit, rows, batch, drafts
  <1>4. SwappedOnlyUnderLock'
    BY DEF Inv, SwappedOnlyUnderLock, Commit, rows, batch
  <1>5. Alone'
    BY NothingOut DEF Inv, Alone, Commit, batch
  <1> QED
    BY <1>3, <1>4, <1>5 DEF Inv

\* A step that leaves rows and stores alone keeps the invariant.
LEMMA SameInv ==
    ASSUME Inv, UNCHANGED <<quota, remain, used, pendU, pendT, rows, batch, drafts>>,
           reply' \in Reply
    PROVE  Inv'
  BY DEF Inv, TypeOK, SwappedOnlyUnderLock, Alone, rows, batch, drafts

\* Calls keep the invariant: reservations, adjustments and queued changes.
LEMMA CallInv == Inv /\ Call => Inv'
  <1> SUFFICES ASSUME Inv, NEW u \in Users \cup {None}, NEW t \in Tokens \cup {None},
                      NEW q \in Amounts,
                      Reserve(u, t, q) \/ Adjust(u, t, q) \/ Queue(u, t, q)
               PROVE  Inv'
    BY DEF Call, Accounts
  <1>0. q \in Int /\ -q \in Int
    BY AmountType
  <1>1. reply' \in Reply
    BY <1>0, ReplyType DEF Reserve, Adjust, Queue, Fails
  <1>2. CASE Reserve(u, t, q)
    BY <1>0, <1>1, <1>2, CommitInv, SameInv DEF Reserve, Fails
  <1>3. CASE Adjust(u, t, q)
    BY <1>0, <1>1, <1>3, CommitInv, SameInv DEF Adjust, Fails
  <1>4. CASE Queue(u, t, q)
    <2>1. pendU' \in [Users -> Int] /\ pendT' \in [Tokens -> Int]
      BY <1>0, <1>4, AddType DEF Queue, Inv, TypeOK
    <2>2. Alone'
      BY <1>4, NothingOut DEF Queue, Inv, Alone, batch
    <2> QED
      BY <1>1, <1>4, <2>1, <2>2 DEF Queue, Inv, TypeOK, SwappedOnlyUnderLock, rows, batch, drafts
  <1> QED
    BY <1>2, <1>3, <1>4

\* Swapping a store out is done with the lock held.
LEMMA SwapInv ==
    ASSUME Inv, NEW next \in {"idle", "user", "between", "token"},
           NEW fromU \in BOOLEAN, NEW fromT \in BOOLEAN, Swap(next, fromU, fromT),
           next # "user" => ~fromU /\ flightU = Zero(Users),
           next # "token" => ~fromT /\ flightT = Zero(Tokens)
    PROVE  Inv'
  <1>1. TypeOK'
    BY ZeroType DEF Inv, TypeOK, Swap, rows, drafts
  <1>2. SwappedOnlyUnderLock'
    BY DEF Inv, SwappedOnlyUnderLock, Swap, rows
  <1>3. Alone'
    BY ZeroType DEF Inv, Alone, Swap
  <1> QED
    BY <1>1, <1>2, <1>3 DEF Inv

\* The batch updater keeps the invariant at each of its steps.
LEMMA FlushInv == Inv /\ Flush => Inv'
  <1> SUFFICES ASSUME Inv, Flush PROVE Inv'
    OBVIOUS
  <1>1. CASE FlushUsers \/ FlushUsersDone \/ FlushTokens \/ FlushTokensDone
    <2>1. CASE FlushUsers
      <3>1. flightT = Zero(Tokens)
        BY <2>1 DEF FlushUsers, Inv, SwappedOnlyUnderLock
      <3> QED
        BY <2>1, <3>1, SwapInv DEF FlushUsers
    <2>2. CASE FlushUsersDone
      <3>1. flightT = Zero(Tokens)
        BY <2>2 DEF FlushUsersDone, Inv, SwappedOnlyUnderLock
      <3> QED
        BY <2>2, <3>1, SwapInv DEF FlushUsersDone
    <2>3. CASE FlushTokens
      <3>1. flightU = Zero(Users)
        BY <2>3 DEF FlushTokens, Inv, SwappedOnlyUnderLock
      <3> QED
        BY <2>3, <3>1, SwapInv DEF FlushTokens
    <2>4. CASE FlushTokensDone
      <3>1. flightU = Zero(Users)
        BY <2>4 DEF FlushTokensDone, Inv, SwappedOnlyUnderLock
      <3> QED
        BY <2>4, <3>1, SwapInv DEF FlushTokensDone
    <2> QED
      BY <1>1, <2>1, <2>2, <2>3, <2>4
  <1>2. ASSUME NEW u \in Users, WriteUser(u) \/ RequeueUser(u)
        PROVE  Inv'
    <2>1. flightU[u] \in Int
      BY DEF Inv, TypeOK
    <2>2. TypeOK'
      BY <1>2, <2>1, AddType DEF Inv, TypeOK, WriteUser, RequeueUser, rows, drafts
    <2>3. SwappedOnlyUnderLock'
      BY <1>2, <2>1, AddType DEF Inv, TypeOK, SwappedOnlyUnderLock, WriteUser, RequeueUser, rows
    <2>4. Alone'
      BY <1>2, <2>1, AddType DEF Inv, TypeOK, Alone, WriteUser, RequeueUser
    <2> QED
      BY <2>2, <2>3, <2>4 DEF Inv
  <1>3. ASSUME NEW t \in Tokens, WriteToken(t) \/ RequeueToken(t)
        PROVE  Inv'
    <2>1. flightT[t] \in Int /\ -flightT[t] \in Int
      BY DEF Inv, TypeOK
    <2>2. TypeOK'
      BY <1>3, <2>1, AddType DEF Inv, TypeOK, WriteToken, RequeueToken, rows, drafts
    <2>3. SwappedOnlyUnderLock'
      BY <1>3, <2>1, AddType DEF Inv, TypeOK, SwappedOnlyUnderLock, WriteToken, RequeueToken, rows
    <2>4. Alone'
      BY <1>3, <2>1, AddType DEF Inv, TypeOK, Alone, WriteToken, RequeueToken
    <2> QED
      BY <2>2, <2>3, <2>4 DEF Inv
  <1> QED
    BY <1>1, <1>2, <1>3 DEF Flush

\* Top-ups, overrides, deletions and crashes keep the invariant.
LEMMA OthersInv == Inv /\ Others => Inv'
  <1> SUFFICES ASSUME Inv, Others PROVE Inv'
    OBVIOUS
  <1>1. ASSUME NEW u \in Users, NEW q \in Amounts, TopUp(u, q)
        PROVE  Inv'
    <2>1. q \in Int /\ -q \in Int
      BY AmountType
    <2>2. reply' \in Reply
      BY <1>1, <2>1, ReplyType DEF TopUp, Fails
    <2>3. CASE Fails("adjust", u, None, -q)
      BY <2>2, <2>3, SameInv DEF Fails
    <2>4. CASE quota' = Add(quota, u, q) /\ UNCHANGED <<remain, used, pendU, pendT, rows, batch, drafts>>
      BY <2>1, <2>2, <2>4, AddType DEF Inv, TypeOK, SwappedOnlyUnderLock, Alone, rows, batch, drafts
    <2> QED
      BY <1>1, <2>3, <2>4 DEF TopUp
  <1>2. ASSUME NEW u \in Users, NEW q \in Amounts, OverrideQuota(u, q)
        PROVE  Inv'
    <2>1. q \in Int /\ reply' \in Reply
      BY <1>2, AmountType, ReplyType DEF OverrideQuota
    <2> QED
      BY <1>2, <2>1 DEF OverrideQuota, Inv, TypeOK, SwappedOnlyUnderLock, Alone, rows, batch, drafts
  <1>3. ASSUME NEW t \in Tokens, NEW q \in Amounts, EditToken(t, q)
        PROVE  Inv'
    <2>1. q \in Int /\ reply' \in Reply
      BY <1>3, AmountType, ReplyType DEF EditToken
    <2> QED
      BY <1>3, <2>1 DEF EditToken, Inv, TypeOK, SwappedOnlyUnderLock, Alone, rows, batch, drafts
  <1>4. ASSUME NEW u \in Users, NEW how \in {"soft", "hard"}, DeleteUser(u, how)
        PROVE  Inv'
    BY <1>4 DEF DeleteUser, Inv, TypeOK, SwappedOnlyUnderLock, Alone, batch, drafts
  <1>5. ASSUME NEW t \in Tokens, DeleteToken(t)
        PROVE  Inv'
    BY <1>5 DEF DeleteToken, Inv, TypeOK, SwappedOnlyUnderLock, Alone, batch, drafts
  <1>6. CASE Crash
    <2>1. reply' \in Reply
      BY <1>6 DEF Crash, Answer, Reply
    <2> QED
      BY <1>6, <2>1, ZeroType DEF Crash, Inv, TypeOK, SwappedOnlyUnderLock, Alone, rows
  <1>7. ASSUME NEW u \in Users, ReadUser(u)
        PROVE  Inv'
    BY <1>7 DEF ReadUser, Inv, TypeOK, SwappedOnlyUnderLock, Alone, rows, batch
  <1>8. ASSUME NEW t \in Tokens, ReadToken(t)
        PROVE  Inv'
    BY <1>8 DEF ReadToken, Inv, TypeOK, SwappedOnlyUnderLock, Alone, rows, batch
  <1>9. ASSUME NEW d \in draftU, UpdateUser(d[1], d[2]) \/ SaveInviter(d[1], d[2])
        PROVE  Inv'
    <2>1. d[1] \in Users /\ d[2] \in Int /\ draftU' \in SUBSET (Users \X Int) /\ draftT' = draftT
      BY <1>9 DEF UpdateUser, SaveInviter, UseDraftU, Inv, TypeOK
    <2>0. reply' = [op |-> "restore", user |-> d[1], token |-> None, amount |-> 0, ok |-> TRUE]
      BY <1>9 DEF UpdateUser, SaveInviter, Answer
    <2>2. reply' \in Reply
      BY <2>0, <2>1 DEF Reply
    <2>3. CASE UpdateUser(d[1], d[2])
      BY <2>1, <2>2, <2>3 DEF UpdateUser, Inv, TypeOK, SwappedOnlyUnderLock, Alone, rows, batch
    <2>4. CASE SaveInviter(d[1], d[2])
      BY <2>1, <2>2, <2>4 DEF SaveInviter, Inv, TypeOK, SwappedOnlyUnderLock, Alone
    <2> QED
      BY <1>9, <2>3, <2>4
  <1>10. ASSUME NEW d \in draftT, UpdateTokenStatus(d[1], d[2])
         PROVE  Inv'
    <2>1. d[1] \in Tokens /\ d[2] \in Int /\ draftT' \in SUBSET (Tokens \X Int) /\ draftU' = draftU
      BY <1>10 DEF UpdateTokenStatus, UseDraftT, Inv, TypeOK
    <2>2. reply' \in Reply
      BY <1>10, <2>1 DEF UpdateTokenStatus, Answer, Reply
    <2> QED
      BY <1>10, <2>1, <2>2
         DEF UpdateTokenStatus, Inv, TypeOK, SwappedOnlyUnderLock, Alone, rows, batch
  <1> QED
    BY <1>1, <1>2, <1>3, <1>4, <1>5, <1>6, <1>7, <1>8, <1>9, <1>10 DEF Others

\* Every step keeps the invariant.
LEMMA NextInv == Inv /\ [Next]_vars => Inv'
  <1>1. ASSUME Inv, UNCHANGED vars
        PROVE  Inv'
    BY <1>1 DEF Inv, TypeOK, SwappedOnlyUnderLock, Alone, vars
  <1> QED
    BY <1>1, CallInv, FlushInv, OthersInv DEF Next

\* Type correctness of the ledger's columns, stores and replies.
THEOREM LedgerTypeOK == Spec => []TypeOK
  <1>1. Inv => TypeOK
    BY DEF Inv
  <1> QED
    BY <1>1, InitInv, NextInv, PTL DEF Spec

\* The batch updater never has quota out of its stores while another
\* operation can hold the execution lock, and loses changes of deleted rows only.
THEOREM LedgerSwapsUnderLock == Spec => []SwappedOnlyUnderLock
  <1>1. Inv => SwappedOnlyUnderLock
    BY DEF Inv
  <1> QED
    BY <1>1, InitInv, NextInv, PTL DEF Spec
-----------------------------------------------------------------------------
(* Refinement.                                                              *)

\* Two wallets that agree on every account are the same wallet.
LEMMA SameWallet ==
    ASSUME \A u \in Users : balance'[u] = balance[u],
           \A t \in Tokens : tokenRemain'[t] = tokenRemain[t],
           \A t \in Tokens : tokenSpent'[t] = tokenSpent[t]
    PROVE  UNCHANGED <<balance, tokenRemain, tokenSpent>>
  BY DEF balance, tokenRemain, tokenSpent

\* Accounts with the same queued and swapped-out changes have the same in memory.
LEMMA SameMemory ==
    ASSUME \A u \in Users : unsavedU'[u] = unsavedU[u],
           \A t \in Tokens : unsavedT'[t] = unsavedT[t]
    PROVE  UNCHANGED <<unsavedU, unsavedT>>
  BY DEF unsavedU, unsavedT

\* The wallet moves by q on the accounts of the call, which is Wallet's Serve.
LEMMA Served ==
    ASSUME NEW op \in {"reserve", "adjust"},
           NEW u \in Users \cup {None}, NEW t \in Tokens \cup {None}, NEW q \in Amounts,
           Answer(op, u, t, q, TRUE),
           op = "reserve" =>
              \/ q = 0
              \/ /\ q > 0
                 /\ u \in Users => balance[u] >= q
                 /\ t \in Tokens => t \in Unlimited \/ tokenRemain[t] >= q
                 /\ u \in Users /\ t \in Tokens => Owner[t] = u,
           \A x \in Users : balance'[x] = IF x = u THEN balance[x] + (-q) ELSE balance[x],
           \A x \in Tokens : tokenRemain'[x] = IF x = t THEN tokenRemain[x] + (-q) ELSE tokenRemain[x],
           \A x \in Tokens : tokenSpent'[x] = IF x = t THEN tokenSpent[x] + q ELSE tokenSpent[x],
           W!Remember(reply'), UNCHANGED <<draftU, draftT>>
    PROVE  W!WalletNext
  <1>1. reply' \in W!Replies
    BY DEF Answer, W!Replies
  <1>2. /\ reply'.op = op /\ reply'.user = u /\ reply'.token = t
        /\ reply'.amount = q /\ reply'.ok
    BY DEF Answer
  <1>3. balance' = W!Credit(balance, u, -q)
    BY LedgerAssumption DEF LedgerAssumption, balance, W!Credit
  <1>4. tokenRemain' = W!Credit(tokenRemain, t, -q)
    BY LedgerAssumption DEF LedgerAssumption, tokenRemain, W!Credit
  <1>5. tokenSpent' = W!Credit(tokenSpent, t, q)
    BY LedgerAssumption DEF LedgerAssumption, tokenSpent, W!Credit
  <1>6. W!Serve(reply')
    BY <1>2, <1>3, <1>4, <1>5 DEF W!Serve, W!Enough, W!copies
  <1> QED
    BY <1>1, <1>6 DEF W!WalletNext, W!Answered

\* A call of amount 0 is answered without moving quota, and so is a failed one.
LEMMA IdleServed ==
    ASSUME NEW op \in {"reserve", "adjust"},
           NEW u \in Users \cup {None}, NEW t \in Tokens \cup {None}, NEW q \in Amounts,
           q = 0, Answer(op, u, t, q, TRUE), Inv,
           UNCHANGED <<quota, remain, used, pendU, pendT, rows, batch, drafts>>
    PROVE  W!WalletNext
  <1>1. UNCHANGED <<balance, tokenRemain, tokenSpent>>
    BY DEF balance, tokenRemain, tokenSpent, batch
  <1>2. /\ \A x \in Users : balance[x] \in Int
        /\ \A x \in Tokens : tokenRemain[x] \in Int /\ tokenSpent[x] \in Int
    BY DEF Inv, TypeOK, balance, tokenRemain, tokenSpent
  <1>3. /\ \A x \in Users : balance'[x] = IF x = u THEN balance[x] + (-q) ELSE balance[x]
        /\ \A x \in Tokens : tokenRemain'[x] =
              IF x = t THEN tokenRemain[x] + (-q) ELSE tokenRemain[x]
        /\ \A x \in Tokens : tokenSpent'[x] =
              IF x = t THEN tokenSpent[x] + q ELSE tokenSpent[x]
    BY <1>1, <1>2
  <1>4. UNCHANGED <<unsavedU, unsavedT, draftU, draftT>>
    BY DEF unsavedU, unsavedT, batch, drafts
  <1>5. W!Remember(reply')
    BY <1>4 DEF W!Remember, W!memory
  <1> QED
    BY <1>3, <1>4, <1>5, Served

\* A refused call moves nothing, which Wallet allows.
LEMMA Refused ==
    ASSUME NEW op \in {"reserve", "adjust"},
           NEW u \in Users \cup {None}, NEW t \in Tokens \cup {None}, NEW q \in Amounts,
           Fails(op, u, t, q)
    PROVE  W!WalletNext
  <1>1. UNCHANGED <<balance, tokenRemain, tokenSpent>>
    BY DEF Fails, balance, tokenRemain, tokenSpent, batch
  <1>2. reply' \in W!Replies /\ ~reply'.ok
    BY DEF Fails, Answer, W!Replies
  <1>3. UNCHANGED <<unsavedU, unsavedT, draftU, draftT>> /\ reply'.op # "crash"
    BY DEF Fails, Answer, unsavedU, unsavedT, batch, drafts
  <1> QED
    BY <1>1, <1>2, <1>3 DEF W!WalletNext, W!Answered, W!Refuse, W!numbers, W!memory, W!copies

\* A transaction moves the wallet by its own amount only: the changes it
\* reconciles were counted when they were queued.
LEMMA CommitMoves ==
    ASSUME Inv, NEW u \in Users \cup {None}, NEW t \in Tokens \cup {None},
           NEW q \in Int, Commit(u, t, q)
    PROVE  /\ \A x \in Users : balance'[x] = IF x = u THEN balance[x] + (-q) ELSE balance[x]
           /\ \A x \in Tokens : tokenRemain'[x] =
                 IF x = t THEN tokenRemain[x] + (-q) ELSE tokenRemain[x]
           /\ \A x \in Tokens : tokenSpent'[x] =
                 IF x = t THEN tokenSpent[x] + q ELSE tokenSpent[x]
  <1>1. /\ Of(pendU, u) \in Int /\ -Of(pendU, u) \in Int /\ Of(pendU, u) - q \in Int
        /\ Of(pendT, t) \in Int /\ -Of(pendT, t) \in Int
        /\ Of(pendT, t) - q \in Int /\ q - Of(pendT, t) \in Int
        /\ u \in Users => Of(pendU, u) = pendU[u]
        /\ t \in Tokens => Of(pendT, t) = pendT[t]
    BY OfType DEF Inv, TypeOK
  <1>2. ASSUME NEW x \in Users
        PROVE  balance'[x] = IF x = u THEN balance[x] + (-q) ELSE balance[x]
    <2>1. /\ quota'[x] = IF x = u THEN quota[x] + (Of(pendU, u) - q) ELSE quota[x]
          /\ pendU'[x] = IF x = u THEN pendU[x] + (-Of(pendU, u)) ELSE pendU[x]
      BY <1>1, AddType DEF Commit, Inv, TypeOK
    <2>2. flightU'[x] = flightU[x] /\ lostU'[x] = lostU[x]
      BY DEF Commit, batch
    <2>3. quota[x] \in Int /\ pendU[x] \in Int /\ flightU[x] \in Int /\ lostU[x] \in Int
      BY DEF Inv, TypeOK
    <2>4. /\ balance[x] = quota[x] + pendU[x] + flightU[x] + lostU[x]
          /\ balance'[x] = quota'[x] + pendU'[x] + flightU'[x] + lostU'[x]
      BY DEF balance
    <2>5. CASE x = u
      BY <1>1, <2>1, <2>2, <2>3, <2>4, <2>5
    <2>6. CASE x # u
      BY <2>1, <2>2, <2>4, <2>6
    <2> QED
      BY <2>5, <2>6
  <1>3. ASSUME NEW x \in Tokens
        PROVE  /\ tokenRemain'[x] = IF x = t THEN tokenRemain[x] + (-q) ELSE tokenRemain[x]
               /\ tokenSpent'[x] = IF x = t THEN tokenSpent[x] + q ELSE tokenSpent[x]
    <2>1. /\ remain'[x] = IF x = t THEN remain[x] + (Of(pendT, t) - q) ELSE remain[x]
          /\ used'[x] = IF x = t THEN used[x] + (q - Of(pendT, t)) ELSE used[x]
          /\ pendT'[x] = IF x = t THEN pendT[x] + (-Of(pendT, t)) ELSE pendT[x]
      BY <1>1, AddType DEF Commit, Inv, TypeOK
    <2>2. flightT'[x] = flightT[x] /\ lostT'[x] = lostT[x]
      BY DEF Commit, batch
    <2>3. /\ remain[x] \in Int /\ used[x] \in Int
          /\ pendT[x] \in Int /\ flightT[x] \in Int /\ lostT[x] \in Int
      BY DEF Inv, TypeOK
    <2> QED
      BY <1>1, <2>1, <2>2, <2>3 DEF tokenRemain, tokenSpent
  <1> QED
    BY <1>2, <1>3

\* A transaction leaves nothing of its accounts in memory.
LEMMA CommitSaves ==
    ASSUME Inv, LockFree, NEW u \in Users \cup {None}, NEW t \in Tokens \cup {None},
           NEW q \in Int, Commit(u, t, q)
    PROVE  /\ unsavedU' = W!Clear(unsavedU, u) /\ unsavedT' = W!Clear(unsavedT, t)
           /\ UNCHANGED <<draftU, draftT>>
  <1>1. /\ \A x \in Users : flightU[x] = 0 /\ flightU'[x] = 0
        /\ \A x \in Tokens : flightT[x] = 0 /\ flightT'[x] = 0
    BY NothingOut DEF Inv, Commit, batch
  <1>2. /\ -Of(pendU, u) \in Int /\ (u \in Users => Of(pendU, u) = pendU[u])
        /\ -Of(pendT, t) \in Int /\ (t \in Tokens => Of(pendT, t) = pendT[t])
    BY OfType DEF Inv, TypeOK
  <1>3. \A x \in Users : pendU'[x] = IF x = u THEN pendU[x] + (-Of(pendU, u)) ELSE pendU[x]
    BY <1>2, AddType DEF Commit, Inv, TypeOK
  <1>4. \A x \in Tokens : pendT'[x] = IF x = t THEN pendT[x] + (-Of(pendT, t)) ELSE pendT[x]
    BY <1>2, AddType DEF Commit, Inv, TypeOK
  <1>5. unsavedU' = W!Clear(unsavedU, u)
    <2>1. \A x \in Users : unsavedU'[x] = IF x = u THEN 0 ELSE unsavedU[x]
      BY <1>1, <1>2, <1>3 DEF unsavedU, Inv, TypeOK
    <2> QED
      BY <2>1 DEF unsavedU, W!Clear
  <1>6. unsavedT' = W!Clear(unsavedT, t)
    <2>1. \A x \in Tokens : unsavedT'[x] = IF x = t THEN 0 ELSE unsavedT[x]
      BY <1>1, <1>2, <1>4 DEF unsavedT, Inv, TypeOK
    <2> QED
      BY <2>1 DEF unsavedT, W!Clear
  <1> QED
    BY <1>5, <1>6 DEF Commit, drafts

\* With the lock free nothing is swapped out and live rows have lost nothing:
\* what the conditional UPDATEs compare is the whole of the wallet.
LEMMA AvailableIsEnough ==
    ASSUME Inv, LockFree, NEW u \in Users \cup {None}, NEW t \in Tokens \cup {None},
           NEW q \in Int, Available(u, t, q)
    PROVE  /\ u \in Users => balance[u] >= q
           /\ t \in Tokens => t \in Unlimited \/ tokenRemain[t] >= q
           /\ u \in Users /\ t \in Tokens => Owner[t] = u
  <1>1. /\ \A x \in Users : flightU[x] = 0
        /\ \A x \in Tokens : flightT[x] = 0
    BY ZeroType DEF Inv, SwappedOnlyUnderLock, LockFree
  <1>2. CASE u \in Users /\ t \in Tokens
    BY <1>1, <1>2 DEF Available, Inv, TypeOK, SwappedOnlyUnderLock, balance, tokenRemain
  <1>3. CASE u \in Users /\ t \notin Tokens
    BY <1>1, <1>3 DEF Available, Inv, TypeOK, SwappedOnlyUnderLock, balance
  <1>4. CASE u \notin Users /\ t \in Tokens
    BY <1>1, <1>4 DEF Available, Inv, TypeOK, SwappedOnlyUnderLock, tokenRemain
  <1> QED
    BY <1>2, <1>3, <1>4

\* Every call of the ledger is one step of the wallet.
LEMMA CallRefines == Inv /\ Call => W!WalletNext
  <1> SUFFICES ASSUME Inv, NEW u \in Users \cup {None}, NEW t \in Tokens \cup {None},
                      NEW q \in Amounts,
                      Reserve(u, t, q) \/ Adjust(u, t, q) \/ Queue(u, t, q)
               PROVE  W!WalletNext
    BY DEF Call, Accounts
  <1>0. q \in Int /\ -q \in Int
    BY AmountType
  <1>1. CASE Reserve(u, t, q)
    <2>1. CASE /\ LockFree /\ q > 0 /\ Available(u, t, q)
               /\ Commit(u, t, q) /\ Answer("reserve", u, t, q, TRUE)
      <3>1. /\ \A x \in Users : balance'[x] = IF x = u THEN balance[x] + (-q) ELSE balance[x]
            /\ \A x \in Tokens : tokenRemain'[x] =
                  IF x = t THEN tokenRemain[x] + (-q) ELSE tokenRemain[x]
            /\ \A x \in Tokens : tokenSpent'[x] =
                  IF x = t THEN tokenSpent[x] + q ELSE tokenSpent[x]
        BY <1>0, <2>1, CommitMoves
      <3>2. /\ u \in Users => balance[u] >= q
            /\ t \in Tokens => t \in Unlimited \/ tokenRemain[t] >= q
            /\ u \in Users /\ t \in Tokens => Owner[t] = u
        BY <1>0, <2>1, AvailableIsEnough
      <3>3. W!Remember(reply') /\ UNCHANGED <<draftU, draftT>>
        BY <1>0, <2>1, CommitSaves DEF W!Remember, Answer
      <3> QED
        BY <2>1, <3>1, <3>2, <3>3, Served
    <2>2. CASE /\ q = 0 /\ Answer("reserve", u, t, q, TRUE)
               /\ UNCHANGED <<quota, remain, used, pendU, pendT, rows, batch, drafts>>
      BY <2>2, IdleServed
    <2>3. CASE Fails("reserve", u, t, q)
      BY <2>3, Refused
    <2> QED
      BY <1>1, <2>1, <2>2, <2>3 DEF Reserve
  <1>2. CASE Adjust(u, t, q)
    <2>1. CASE LockFree /\ Commit(u, t, q) /\ Answer("adjust", u, t, q, TRUE)
      <3>1. /\ \A x \in Users : balance'[x] = IF x = u THEN balance[x] + (-q) ELSE balance[x]
            /\ \A x \in Tokens : tokenRemain'[x] =
                  IF x = t THEN tokenRemain[x] + (-q) ELSE tokenRemain[x]
            /\ \A x \in Tokens : tokenSpent'[x] =
                  IF x = t THEN tokenSpent[x] + q ELSE tokenSpent[x]
        BY <1>0, <2>1, CommitMoves
      <3>2. W!Remember(reply') /\ UNCHANGED <<draftU, draftT>>
        BY <1>0, <2>1, CommitSaves DEF W!Remember, Answer
      <3> QED
        BY <2>1, <3>1, <3>2, Served
    <2>2. CASE /\ q = 0 /\ Answer("adjust", u, t, q, TRUE)
               /\ UNCHANGED <<quota, remain, used, pendU, pendT, rows, batch, drafts>>
      BY <2>2, IdleServed
    <2>3. CASE Fails("adjust", u, t, q)
      BY <2>3, Refused
    <2> QED
      BY <1>2, <2>1, <2>2, <2>3 DEF Adjust
  <1>3. CASE Queue(u, t, q)
    <2>1. ASSUME NEW x \in Users
          PROVE  balance'[x] = IF x = u THEN balance[x] + (-q) ELSE balance[x]
      <3>1. pendU'[x] = IF x = u THEN pendU[x] + (-q) ELSE pendU[x]
        BY <1>0, <1>3, AddType DEF Queue, Inv, TypeOK
      <3>2. /\ quota'[x] = quota[x] /\ flightU'[x] = flightU[x] /\ lostU'[x] = lostU[x]
            /\ quota[x] \in Int /\ pendU[x] \in Int /\ flightU[x] \in Int /\ lostU[x] \in Int
        BY <1>3 DEF Queue, batch, Inv, TypeOK
      <3> QED
        BY <1>0, <3>1, <3>2 DEF balance
    <2>2. ASSUME NEW x \in Tokens
          PROVE  /\ tokenRemain'[x] = IF x = t THEN tokenRemain[x] + (-q) ELSE tokenRemain[x]
                 /\ tokenSpent'[x] = IF x = t THEN tokenSpent[x] + q ELSE tokenSpent[x]
      <3>1. pendT'[x] = IF x = t THEN pendT[x] + (-q) ELSE pendT[x]
        BY <1>0, <1>3, AddType DEF Queue, Inv, TypeOK
      <3>2. /\ remain'[x] = remain[x] /\ used'[x] = used[x]
            /\ flightT'[x] = flightT[x] /\ lostT'[x] = lostT[x]
            /\ remain[x] \in Int /\ used[x] \in Int
            /\ pendT[x] \in Int /\ flightT[x] \in Int /\ lostT[x] \in Int
        BY <1>3 DEF Queue, batch, Inv, TypeOK
      <3> QED
        BY <1>0, <3>1, <3>2 DEF tokenRemain, tokenSpent
    <2>3. Answer("adjust", u, t, q, TRUE)
      BY <1>3 DEF Queue
    <2>4. unsavedU' = W!Credit(unsavedU, u, -q)
      <3>1. \A x \in Users : pendU'[x] = IF x = u THEN pendU[x] + (-q) ELSE pendU[x]
        BY <1>0, <1>3, AddType DEF Queue, Inv, TypeOK
      <3>2. \A x \in Users : unsavedU'[x] = IF x = u THEN unsavedU[x] + (-q) ELSE unsavedU[x]
        BY <1>0, <1>3, <3>1 DEF unsavedU, Queue, batch, Inv, TypeOK
      <3> QED
        BY <3>2 DEF unsavedU, W!Credit
    <2>5. unsavedT' = W!Credit(unsavedT, t, -q)
      <3>1. \A x \in Tokens : pendT'[x] = IF x = t THEN pendT[x] + (-q) ELSE pendT[x]
        BY <1>0, <1>3, AddType DEF Queue, Inv, TypeOK
      <3>2. \A x \in Tokens : unsavedT'[x] = IF x = t THEN unsavedT[x] + (-q) ELSE unsavedT[x]
        BY <1>0, <1>3, <3>1 DEF unsavedT, Queue, batch, Inv, TypeOK
      <3> QED
        BY <3>2 DEF unsavedT, W!Credit
    <2>6. W!Remember(reply') /\ UNCHANGED <<draftU, draftT>>
      BY <1>3, <2>3, <2>4, <2>5 DEF W!Remember, Answer, Queue, drafts
    <2> QED
      BY <2>1, <2>2, <2>3, <2>6, Served
  <1> QED
    BY <1>1, <1>2, <1>3

\* Moving a store and putting a key back leave the wallet alone; writing a key
\* stores what its account had in memory.
Still == UNCHANGED <<balance, tokenRemain, tokenSpent, unsavedU, unsavedT, draftU, draftT, reply>>

LEMMA FlushRefines == Inv /\ Flush => W!WalletNext \/ Still
  <1> SUFFICES ASSUME Inv, Flush
               PROVE  W!WalletNext \/ Still
    OBVIOUS
  <1>0. /\ \A u \in Users : /\ quota[u] \in Int /\ pendU[u] \in Int
                           /\ flightU[u] \in Int /\ lostU[u] \in Int
        /\ \A t \in Tokens : /\ remain[t] \in Int /\ used[t] \in Int /\ pendT[t] \in Int
                            /\ flightT[t] \in Int /\ lostT[t] \in Int /\ -flightT[t] \in Int
    BY DEF Inv, TypeOK
  <1>1. ASSUME NEW next, NEW fromU \in BOOLEAN, NEW fromT \in BOOLEAN,
               Swap(next, fromU, fromT),
               fromU => flightU = Zero(Users), fromT => flightT = Zero(Tokens)
        PROVE  Still
    <2>1. \A u \in Users : balance'[u] = balance[u] /\ unsavedU'[u] = unsavedU[u]
      BY <1>0, <1>1, ZeroType DEF Swap, balance, unsavedU
    <2>2. \A t \in Tokens : /\ tokenRemain'[t] = tokenRemain[t] /\ tokenSpent'[t] = tokenSpent[t]
                            /\ unsavedT'[t] = unsavedT[t]
      BY <1>0, <1>1, ZeroType DEF Swap, tokenRemain, tokenSpent, unsavedT
    <2> QED
      BY <1>1, <2>1, <2>2, SameWallet, SameMemory DEF Swap, Still, drafts
  <1>2. CASE FlushUsers \/ FlushUsersDone \/ FlushTokens \/ FlushTokensDone
    <2>1. phase = "idle" \/ phase = "between" => flightU = Zero(Users) /\ flightT = Zero(Tokens)
      BY DEF Inv, SwappedOnlyUnderLock
    <2> QED
      BY <1>1, <1>2, <2>1 DEF FlushUsers, FlushUsersDone, FlushTokens, FlushTokensDone
  <1>3. ASSUME NEW u \in Users, WriteUser(u) \/ RequeueUser(u)
        PROVE  W!WalletNext \/ Still
    <2>1. UNCHANGED <<remain, used, pendT, flightT, lostT, draftU, draftT, reply>>
      BY <1>3 DEF WriteUser, RequeueUser, drafts
    <2>0. \A x \in Users : flightU'[x] = IF x = u THEN 0 ELSE flightU[x]
      BY <1>3 DEF WriteUser, RequeueUser, Inv, TypeOK
    <2>2. ASSUME NEW x \in Users
          PROVE  balance'[x] = balance[x]
      <3>2. CASE WriteUser(u) /\ userRow[u] = "live"
        BY <1>0, <2>0, <3>2, AddType DEF WriteUser, Inv, TypeOK, balance
      <3>3. CASE WriteUser(u) /\ userRow[u] # "live"
        BY <1>0, <2>0, <3>3, AddType DEF WriteUser, Inv, TypeOK, balance
      <3>4. CASE RequeueUser(u)
        BY <1>0, <2>0, <3>4, AddType DEF RequeueUser, Inv, TypeOK, balance
      <3> QED
        BY <1>3, <3>2, <3>3, <3>4
    <2>3. UNCHANGED <<balance, tokenRemain, tokenSpent, unsavedT>>
      BY <2>1, <2>2, SameWallet DEF tokenRemain, tokenSpent, unsavedT
    <2>4. CASE WriteUser(u)
      <3>1. \A x \in Users : unsavedU'[x] = IF x = u THEN 0 ELSE unsavedU[x]
        BY <1>0, <2>0, <2>4 DEF WriteUser, Inv, Alone, unsavedU
      <3>2. unsavedU' = W!Clear(unsavedU, u)
        BY <3>1 DEF unsavedU, W!Clear
      <3>3. W!Save
        BY <2>1, <2>3, <3>2 DEF W!Save, W!numbers, W!copies
      <3> QED
        BY <3>3 DEF W!WalletNext
    <2>5. CASE RequeueUser(u)
      <3>1. \A x \in Users : unsavedU'[x] = unsavedU[x]
        BY <1>0, <2>0, <2>5, AddType DEF RequeueUser, Inv, TypeOK, unsavedU
      <3> QED
        BY <2>1, <2>3, <3>1, SameMemory DEF Still
    <2> QED
      BY <1>3, <2>4, <2>5
  <1>4. ASSUME NEW t \in Tokens, WriteToken(t) \/ RequeueToken(t)
        PROVE  W!WalletNext \/ Still
    <2>1. UNCHANGED <<quota, pendU, flightU, lostU, draftU, draftT, reply>>
      BY <1>4 DEF WriteToken, RequeueToken, drafts
    <2>0. \A x \in Tokens : flightT'[x] = IF x = t THEN 0 ELSE flightT[x]
      BY <1>4 DEF WriteToken, RequeueToken, Inv, TypeOK
    <2>2. ASSUME NEW x \in Tokens
          PROVE  tokenRemain'[x] = tokenRemain[x] /\ tokenSpent'[x] = tokenSpent[x]
      <3>2. CASE WriteToken(t) /\ tokenRow[t] = "live"
        BY <1>0, <2>0, <3>2, AddType DEF WriteToken, Inv, TypeOK, tokenRemain, tokenSpent
      <3>3. CASE WriteToken(t) /\ tokenRow[t] # "live"
        BY <1>0, <2>0, <3>3, AddType DEF WriteToken, Inv, TypeOK, tokenRemain, tokenSpent
      <3>4. CASE RequeueToken(t)
        BY <1>0, <2>0, <3>4, AddType DEF RequeueToken, Inv, TypeOK, tokenRemain, tokenSpent
      <3> QED
        BY <1>4, <3>2, <3>3, <3>4
    <2>3. UNCHANGED <<balance, tokenRemain, tokenSpent, unsavedU>>
      BY <2>1, <2>2, SameWallet DEF balance, unsavedU
    <2>4. CASE WriteToken(t)
      <3>1. \A x \in Tokens : unsavedT'[x] = IF x = t THEN 0 ELSE unsavedT[x]
        BY <1>0, <2>0, <2>4 DEF WriteToken, Inv, Alone, unsavedT
      <3>2. unsavedT' = W!Clear(unsavedT, t)
        BY <3>1 DEF unsavedT, W!Clear
      <3>3. W!Save
        BY <2>1, <2>3, <3>2 DEF W!Save, W!numbers, W!copies
      <3> QED
        BY <3>3 DEF W!WalletNext
    <2>5. CASE RequeueToken(t)
      <3>1. \A x \in Tokens : unsavedT'[x] = unsavedT[x]
        BY <1>0, <2>0, <2>5, AddType DEF RequeueToken, Inv, TypeOK, unsavedT
      <3> QED
        BY <2>1, <2>3, <3>1, SameMemory DEF Still
    <2> QED
      BY <1>4, <2>4, <2>5
  <1> QED
    BY <1>2, <1>3, <1>4 DEF Flush

\* What administrators, payments and crashes do is what Wallet allows them.
LEMMA OthersRefine ==
    Inv /\ Others => W!WalletNext \/ Still
  <1> SUFFICES ASSUME Inv, Others
               PROVE  W!WalletNext \/ Still
    OBVIOUS
  <1>1. ASSUME NEW u \in Users, NEW q \in Amounts, TopUp(u, q)
        PROVE  W!WalletNext
    <2>1. q \in Int /\ -q \in Int /\ -q \in Amounts
      BY AmountType
    <2>2. CASE Fails("adjust", u, None, -q)
      BY <2>1, <2>2, Refused
    <2>3. CASE /\ quota' = Add(quota, u, q) /\ Answer("adjust", u, None, -q, TRUE)
               /\ UNCHANGED <<remain, used, pendU, pendT, rows, batch, drafts>>
      <3>0. PICK p \in Amounts : p \in Int /\ p = -q /\ q = -p
        BY <2>1
      <3>1. ASSUME NEW x \in Users
            PROVE  balance'[x] = IF x = u THEN balance[x] + (-p) ELSE balance[x]
        <4>1. quota'[x] = IF x = u THEN quota[x] + q ELSE quota[x]
          BY <2>1, <2>3, AddType DEF Inv, TypeOK
        <4> QED
          BY <2>1, <2>3, <3>0, <4>1 DEF balance, batch, Inv, TypeOK
      <3>2. UNCHANGED <<tokenRemain, tokenSpent>>
        BY <2>3 DEF tokenRemain, tokenSpent, batch
      <3>3. /\ \A x \in Tokens : tokenRemain'[x] =
                  IF x = None THEN tokenRemain[x] + (-p) ELSE tokenRemain[x]
            /\ \A x \in Tokens : tokenSpent'[x] =
                  IF x = None THEN tokenSpent[x] + p ELSE tokenSpent[x]
        BY <3>2, LedgerAssumption DEF LedgerAssumption
      <3>4. Answer("adjust", u, None, p, TRUE)
        BY <2>3, <3>0
      <3>5. u \in Users \cup {None} /\ None \in Tokens \cup {None}
        OBVIOUS
      <3>6. "adjust" \in {"reserve", "adjust"} /\ "adjust" # "reserve"
        OBVIOUS
      <3>7. W!Remember(reply') /\ UNCHANGED <<draftU, draftT>>
        BY <2>3 DEF W!Remember, W!memory, unsavedU, unsavedT, batch, drafts
      <3> QED
        BY <3>1, <3>3, <3>4, <3>5, <3>6, <3>7, Served
    <2> QED
      BY <1>1, <2>2, <2>3 DEF TopUp
  <1>2. ASSUME NEW u \in Users, NEW q \in Amounts, OverrideQuota(u, q)
        PROVE  W!WalletNext
    <2>1. \A x \in Users : x # u => balance'[x] = balance[x]
      BY <1>2 DEF OverrideQuota, balance, batch, Inv, TypeOK
    <2>2. balance' = [balance EXCEPT ![u] = balance'[u]]
      BY <2>1 DEF balance
    <2>3. UNCHANGED <<tokenRemain, tokenSpent>>
      BY <1>2 DEF OverrideQuota, tokenRemain, tokenSpent, batch
    <2>4. /\ reply' \in W!Replies /\ reply'.op = "override" /\ reply'.ok
          /\ reply'.user = u /\ reply'.token = None
      BY <1>2 DEF OverrideQuota, Answer, W!Replies
    <2>6. UNCHANGED <<unsavedU, unsavedT, draftU, draftT>>
      BY <1>2 DEF OverrideQuota, unsavedU, unsavedT, batch, drafts
    <2>5. u # None /\ None \notin Tokens
      BY LedgerAssumption DEF LedgerAssumption
    <2> QED
      BY <2>2, <2>3, <2>4, <2>5, <2>6 DEF W!WalletNext, W!Answered, W!Override, W!memory, W!copies
  <1>3. ASSUME NEW t \in Tokens, NEW q \in Amounts, EditToken(t, q)
        PROVE  W!WalletNext
    <2>1. \A x \in Tokens : x # t => tokenRemain'[x] = tokenRemain[x]
      BY <1>3 DEF EditToken, tokenRemain, batch, Inv, TypeOK
    <2>2. tokenRemain' = [tokenRemain EXCEPT ![t] = tokenRemain'[t]]
      BY <2>1 DEF tokenRemain
    <2>3. UNCHANGED <<balance, tokenSpent>>
      BY <1>3 DEF EditToken, balance, tokenSpent, batch
    <2>4. /\ reply' \in W!Replies /\ reply'.op = "override" /\ reply'.ok
          /\ reply'.user = None /\ reply'.token = t
      BY <1>3 DEF EditToken, Answer, W!Replies
    <2>6. UNCHANGED <<unsavedU, unsavedT, draftU, draftT>>
      BY <1>3 DEF EditToken, unsavedU, unsavedT, batch, drafts
    <2>5. t # None /\ None \notin Users
      BY LedgerAssumption DEF LedgerAssumption
    <2> QED
      BY <2>2, <2>3, <2>4, <2>5, <2>6 DEF W!WalletNext, W!Answered, W!Override, W!memory, W!copies
  <1>4. ASSUME NEW u \in Users, NEW how, DeleteUser(u, how)
        PROVE  Still
    BY <1>4 DEF DeleteUser, Still, balance, tokenRemain, tokenSpent, unsavedU, unsavedT, batch, drafts
  <1>5. ASSUME NEW t \in Tokens, DeleteToken(t)
        PROVE  Still
    BY <1>5 DEF DeleteToken, Still, balance, tokenRemain, tokenSpent, unsavedU, unsavedT, batch, drafts
  <1>6. CASE Crash
    <2>1. /\ \A u \in Users : balance'[u] = W!Stored(u)
          /\ \A t \in Tokens : /\ tokenRemain'[t] = W!StoredT(t)
                              /\ tokenSpent'[t] = tokenSpent[t] + unsavedT[t]
      BY <1>6, ZeroType
         DEF Crash, Inv, TypeOK, balance, tokenRemain, tokenSpent, unsavedU, unsavedT,
             W!Stored, W!StoredT
    <2>2. /\ balance' = [u \in Users |-> W!Stored(u)]
          /\ tokenRemain' = [t \in Tokens |-> W!StoredT(t)]
          /\ tokenSpent' = [t \in Tokens |-> tokenSpent[t] + unsavedT[t]]
      BY <2>1 DEF balance, tokenRemain, tokenSpent
    <2>3. /\ unsavedU' = [u \in Users |-> 0] /\ unsavedT' = [t \in Tokens |-> 0]
          /\ draftU' = {} /\ draftT' = {}
      BY <1>6, ZeroType DEF Crash, unsavedU, unsavedT
    <2>4. reply' \in W!Replies /\ reply'.op = "crash" /\ ~reply'.ok
      BY <1>6, LedgerAssumption DEF Crash, Answer, W!Replies, LedgerAssumption
    <2> QED
      BY <2>2, <2>3, <2>4 DEF W!WalletNext, W!Answered, W!Forget
  <1>7. ASSUME NEW u \in Users, ReadUser(u)
        PROVE  W!WalletNext
    <2>1. quota[u] = W!Stored(u)
      BY <1>7 DEF ReadUser, W!Stored, balance, unsavedU, Inv, TypeOK, SwappedOnlyUnderLock
    <2>2. UNCHANGED <<balance, tokenRemain, tokenSpent, unsavedU, unsavedT, reply>>
      BY <1>7 DEF ReadUser, balance, tokenRemain, tokenSpent, unsavedU, unsavedT, batch
    <2>3. draftU' = draftU \cup {<<u, W!Stored(u)>>} /\ draftT' = draftT
      BY <1>7, <2>1 DEF ReadUser
    <2>4. W!Draft
      BY <2>2, <2>3 DEF W!Draft, W!numbers, W!memory
    <2> QED
      BY <2>4 DEF W!WalletNext
  <1>8. ASSUME NEW t \in Tokens, ReadToken(t)
        PROVE  W!WalletNext
    <2>1. remain[t] = W!StoredT(t)
      BY <1>8 DEF ReadToken, W!StoredT, tokenRemain, unsavedT, Inv, TypeOK, SwappedOnlyUnderLock
    <2>2. UNCHANGED <<balance, tokenRemain, tokenSpent, unsavedU, unsavedT, reply>>
      BY <1>8 DEF ReadToken, balance, tokenRemain, tokenSpent, unsavedU, unsavedT, batch
    <2>3. draftT' = draftT \cup {<<t, W!StoredT(t)>>} /\ draftU' = draftU
      BY <1>8, <2>1 DEF ReadToken
    <2>4. W!Draft
      BY <2>2, <2>3 DEF W!Draft, W!numbers, W!memory
    <2> QED
      BY <2>4 DEF W!WalletNext
  <1>9. ASSUME NEW d \in draftU, UpdateUser(d[1], d[2]) \/ SaveInviter(d[1], d[2])
        PROVE  W!WalletNext
    <2>1. d[1] \in Users /\ d[2] \in Int /\ d = <<d[1], d[2]>>
      BY <1>9 DEF Inv, TypeOK
    <2>2. /\ quota' = [quota EXCEPT ![d[1]] = d[2]]
          /\ lostU'[d[1]] = 0 /\ \A x \in Users \ {d[1]} : lostU'[x] = lostU[x]
          /\ UNCHANGED <<remain, used, pendU, pendT, flightU, flightT, lostT>>
      BY <1>9, <2>1
         DEF UpdateUser, SaveInviter, batch, Inv, TypeOK, SwappedOnlyUnderLock
    <2>3. \A x \in Users : balance'[x] = IF x = d[1] THEN d[2] + unsavedU[x] ELSE balance[x]
      BY <2>1, <2>2 DEF balance, unsavedU, Inv, TypeOK
    <2>4. balance' = [balance EXCEPT ![d[1]] = d[2] + unsavedU[d[1]]]
      BY <2>1, <2>3 DEF balance
    <2>5. UNCHANGED <<tokenRemain, tokenSpent, unsavedU, unsavedT>>
      BY <2>2 DEF tokenRemain, tokenSpent, unsavedU, unsavedT
    <2>6. draftU' \in {draftU, draftU \ {d}} /\ draftT' = draftT
      BY <1>9, <2>1 DEF UpdateUser, SaveInviter, UseDraftU
    <2>7. /\ reply' \in W!Replies /\ reply'.op = "restore" /\ reply'.ok
          /\ reply'.user = d[1] /\ reply'.token = None
      <3>1. reply' = [op |-> "restore", user |-> d[1], token |-> None, amount |-> 0, ok |-> TRUE]
        BY <1>9 DEF UpdateUser, SaveInviter, Answer
      <3> QED
        BY <2>1, <3>1, LedgerAssumption DEF W!Replies, LedgerAssumption
    <2>8. W!Restore(reply')
      BY <2>4, <2>5, <2>6, <2>7 DEF W!Restore, W!memory
    <2> QED
      BY <2>7, <2>8 DEF W!WalletNext, W!Answered
  <1>10. ASSUME NEW d \in draftT, UpdateTokenStatus(d[1], d[2])
         PROVE  W!WalletNext
    <2>1. d[1] \in Tokens /\ d[2] \in Int /\ d = <<d[1], d[2]>>
      BY <1>10 DEF Inv, TypeOK
    <2>2. /\ remain' = [remain EXCEPT ![d[1]] = d[2]] /\ lostT[d[1]] = 0
          /\ UNCHANGED <<quota, used, pendU, pendT, flightU, flightT, lostU, lostT>>
      BY <1>10, <2>1 DEF UpdateTokenStatus, batch, Inv, SwappedOnlyUnderLock
    <2>3. \A x \in Tokens :
            tokenRemain'[x] = IF x = d[1] THEN d[2] + unsavedT[x] ELSE tokenRemain[x]
      BY <2>1, <2>2 DEF tokenRemain, unsavedT, Inv, TypeOK
    <2>4. tokenRemain' = [tokenRemain EXCEPT ![d[1]] = d[2] + unsavedT[d[1]]]
      BY <2>1, <2>3 DEF tokenRemain
    <2>5. UNCHANGED <<balance, tokenSpent, unsavedU, unsavedT>>
      BY <2>2 DEF balance, tokenSpent, unsavedU, unsavedT
    <2>6. draftT' \in {draftT, draftT \ {d}} /\ draftU' = draftU
      BY <1>10, <2>1 DEF UpdateTokenStatus, UseDraftT
    <2>7. /\ reply' \in W!Replies /\ reply'.op = "restore" /\ reply'.ok
          /\ reply'.token = d[1] /\ reply'.user = None
      BY <1>10, <2>1, LedgerAssumption DEF UpdateTokenStatus, Answer, W!Replies, LedgerAssumption
    <2>8. W!Restore(reply')
      BY <2>4, <2>5, <2>6, <2>7 DEF W!Restore, W!memory
    <2> QED
      BY <2>7, <2>8 DEF W!WalletNext, W!Answered
  <1> QED
    BY <1>1, <1>2, <1>3, <1>4, <1>5, <1>6, <1>7, <1>8, <1>9, <1>10 DEF Others

\* The wallet starts with what the rows hold.
LEMMA InitRefines == Init => W!WalletInit
  <1> SUFFICES ASSUME Init PROVE W!WalletInit
    OBVIOUS
  <1>1. TypeOK
    BY InitInv DEF Inv
  <1>2. /\ balance \in [Users -> Int]
        /\ tokenRemain \in [Tokens -> Int] /\ tokenSpent \in [Tokens -> Int]
    BY <1>1 DEF TypeOK, balance, tokenRemain, tokenSpent
  <1>3. reply \in W!Replies /\ ~reply.ok
    BY LedgerAssumption DEF Init, W!Replies, LedgerAssumption
  <1>4. /\ unsavedU = [u \in Users |-> 0] /\ unsavedT = [t \in Tokens |-> 0]
        /\ draftU = {} /\ draftT = {}
    BY ZeroType DEF Init, unsavedU, unsavedT
  <1> QED
    BY <1>2, <1>3, <1>4 DEF W!WalletInit

\* The ledger with its batch stores, its flushes that fail and requeue and its
\* reconciling transactions implements the atomic wallet, for every set of
\* users and tokens and every bound.
THEOREM LedgerImplementsWallet == Spec => ImplementsWallet
  <1>1. Inv /\ [Next]_vars => [W!WalletNext]_W!walletVars
    <2>1. ASSUME UNCHANGED vars
          PROVE  UNCHANGED W!walletVars
      BY <2>1 DEF vars, W!walletVars, W!numbers, W!memory, W!copies,
                  balance, tokenRemain, tokenSpent, unsavedU, unsavedT
    <2>2. Inv /\ Next => W!WalletNext \/ UNCHANGED W!walletVars
      BY CallRefines, FlushRefines, OthersRefine DEF Next, Still, W!walletVars, W!numbers, W!memory, W!copies
    <2> QED
      BY <2>1, <2>2
  <1> QED
    BY <1>1, InitInv, NextInv, InitRefines, PTL DEF Spec, ImplementsWallet, W!WalletSpec
=============================================================================
