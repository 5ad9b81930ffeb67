---------------------------- MODULE QuotaLedger -----------------------------
(***************************************************************************)
(* The quota ledger of one gateway process: the quota columns of the users  *)
(* and tokens tables, the in-memory stores of the batch updater, and the    *)
(* operations of model/quota_reservation.go, model/utils.go, model/user.go  *)
(* and model/token.go that move quota between them.                         *)
(*                                                                          *)
(* Every operation on quota holds batchUpdateExecutionLock from beginning   *)
(* to end, so it is one action; the batch updater takes the lock once per   *)
(* store and writes the keys of a store one by one, so a flush is a series  *)
(* of actions with the lock held.  Statements of other writers (payments,   *)
(* administrators, profile and token forms, deletion) do not take the lock  *)
(* and come in between; some of them write a row back as they read it.      *)
(* A transaction that fails rolls back; any transaction may fail.           *)
(*                                                                          *)
(* The Redis copies of the quotas are advisory (no decision of this module  *)
(* reads them) and are left out.                                            *)
(***************************************************************************)
EXTENDS Integers, FiniteSets

CONSTANTS
    Users, Tokens,
    None,           \* a call without a wallet, or without a token
    Owner,          \* tokens.user_id
    Unlimited,      \* the tokens with unlimited_quota
    Amounts,        \* quota amounts the callers pass, refused ones included
    InitialQuota,   \* the quotas a row starts with
    Bound,          \* no balance and no queued change exceeds it
    MaxDrafts       \* bound: copies of rows that wait to be written back

ASSUME LedgerAssumption ==
    /\ None \notin Users \cup Tokens
    /\ Owner \in [Tokens -> Users]
    /\ Unlimited \subseteq Tokens
    /\ Amounts \subseteq Int /\ \A q \in Amounts : -q \in Amounts
    /\ InitialQuota \subseteq Int
    /\ 0 \in Amounts
    /\ Bound \in Nat /\ MaxDrafts \in Nat

VARIABLES
    quota,          \* users.quota
    remain, used,   \* tokens.remain_quota, tokens.used_quota
    userRow,        \* "live", "soft" (deleted_at set) or "hard" (row gone)
    tokenRow,       \* "live" or "soft"
    pendU, pendT,   \* batchUpdateStores[UserQuota], [TokenQuota]; 0: no entry
    flightU, flightT, \* the store batchUpdate has swapped out and is writing
    draftU, draftT, \* <<account, quota>> of every row read to be written back
    phase,          \* where batchUpdate is; it holds the lock in "user", "token"
    lostU, lostT,   \* history: changes written to a row that was not there
    reply           \* history: the last call and whether it succeeded

vars == <<quota, remain, used, userRow, tokenRow, pendU, pendT,
          flightU, flightT, phase, lostU, lostT, draftU, draftT, reply>>
rows == <<userRow, tokenRow>>
batch == <<flightU, flightT, phase, lostU, lostT>>
drafts == <<draftU, draftT>>

Accounts == (Users \cup {None}) \X (Tokens \cup {None})

Zero(S) == [x \in S |-> 0]
Add(f, k, d) == IF k \in DOMAIN f THEN [f EXCEPT ![k] = @ + d] ELSE f
Of(f, k) == IF k \in DOMAIN f THEN f[k] ELSE 0

Answer(op, u, t, q, ok) ==
    reply' = [op |-> op, user |-> u, token |-> t, amount |-> q, ok |-> ok]

Fails(op, u, t, q) ==
    /\ Answer(op, u, t, q, FALSE)
    /\ UNCHANGED <<quota, remain, used, pendU, pendT, rows, batch, drafts>>

-----------------------------------------------------------------------------
(* Transactions: pending changes first, then the operation itself.          *)

\* batchUpdateExecutionLock is free.
LockFree == phase \notin {"user", "token"}

\* applyPendingUserQuota and adjustUserQuota are Unscoped: they find a
\* soft-deleted row, and fail with ErrRecordNotFound without one.
Found(u) == u \in Users => userRow[u] # "hard"

\* decreaseUserQuotaIfAvailable and decreaseTokenQuotaIfAvailable, after the
\* pending changes of the same transaction.
Available(u, t, q) ==
    /\ u \in Users => userRow[u] = "live" /\ quota[u] + pendU[u] >= q
    /\ t \in Tokens =>
        /\ tokenRow[t] = "live"
        /\ u \in Users => Owner[t] = u
        /\ t \in Unlimited \/ remain[t] + pendT[t] >= q

\* Mutant: the queued entries survive the transaction that applied them.
CommitKeepsPending(u, t, q) ==
    /\ quota' = Add(quota, u, Of(pendU, u) - q)
    /\ remain' = Add(remain, t, Of(pendT, t) - q)
    /\ used' = Add(used, t, q - Of(pendT, t))
    /\ UNCHANGED <<pendU, pendT, rows, batch, drafts>>

\* The transaction commits: q more is consumed, nothing is pending any more.
Commit(u, t, q) ==
    /\ quota' = Add(quota, u, Of(pendU, u) - q)
    /\ pendU' = Add(pendU, u, -Of(pendU, u))
    /\ remain' = Add(remain, t, Of(pendT, t) - q)
    /\ used' = Add(used, t, q - Of(pendT, t))
    /\ pendT' = Add(pendT, t, -Of(pendT, t))
    /\ UNCHANGED <<rows, batch, drafts>>

\* ReserveWalletQuota (t is None for a playground request) and, with u None,
\* ReserveTokenQuota of a request paid by a subscription.
Reserve(u, t, q) ==
    \/ /\ LockFree
       /\ q > 0
       /\ Found(u) /\ Available(u, t, q)
       /\ Commit(u, t, q)
       /\ Answer("reserve", u, t, q, TRUE)
    \/ /\ q = 0
       /\ Answer("reserve", u, t, q, TRUE)
       /\ UNCHANGED <<quota, remain, used, pendU, pendT, rows, batch, drafts>>
    \/ /\ q # 0
       /\ Fails("reserve", u, t, q)

\* AdjustWalletQuota; with one of u and t None, IncreaseUserQuotaDirect,
\* DecreaseUserQuotaDirect and their token counterparts.  A positive q
\* consumes and may leave the wallet below zero; AdjustWalletQuota returns at
\* once on 0.
Adjust(u, t, q) ==
    \/ /\ LockFree
       /\ Found(u)
       /\ Commit(u, t, q)
       /\ Answer("adjust", u, t, q, TRUE)
    \/ /\ q = 0 /\ u # None
       /\ Answer("adjust", u, t, q, TRUE)
       /\ UNCHANGED <<quota, remain, used, pendU, pendT, rows, batch, drafts>>
    \/ Fails("adjust", u, t, q)

\* IncreaseUserQuota, DecreaseUserQuota, IncreaseTokenQuota and
\* DecreaseTokenQuota with batching on: the change of one account is queued.
Queue(u, t, q) ==
    /\ LockFree
    /\ u = None \/ t = None
    /\ pendU' = Add(pendU, u, -q)
    /\ pendT' = Add(pendT, t, -q)
    /\ Answer("adjust", u, t, q, TRUE)
    /\ UNCHANGED <<quota, remain, used, rows, batch, drafts>>

-----------------------------------------------------------------------------
(* batchUpdate.                                                             *)

Swap(next, fromU, fromT) ==
    /\ phase' = next
    /\ flightU' = IF fromU THEN pendU ELSE flightU
    /\ pendU' = IF fromU THEN Zero(Users) ELSE pendU
    /\ flightT' = IF fromT THEN pendT ELSE flightT
    /\ pendT' = IF fromT THEN Zero(Tokens) ELSE pendT
    /\ UNCHANGED <<quota, remain, used, rows, lostU, lostT, reply, drafts>>

\* Mutant: hasData looks at the token store only.
FlushUsersIfTokens == phase = "idle" /\ pendT # Zero(Tokens) /\ Swap("user", TRUE, FALSE)

\* A pass starts when some store has data, and takes the user store first.
FlushUsers ==
    /\ phase = "idle"
    /\ pendU # Zero(Users) \/ pendT # Zero(Tokens)
    /\ Swap("user", TRUE, FALSE)

\* Mutant: the lock is released before the swapped-out store is written.
FlushUsersEarly == phase = "user" /\ Swap("between", FALSE, FALSE)

FlushUsersDone == phase = "user" /\ flightU = Zero(Users) /\ Swap("between", FALSE, FALSE)
FlushTokens == phase = "between" /\ Swap("token", FALSE, TRUE)
FlushTokensDone == phase = "token" /\ flightT = Zero(Tokens) /\ Swap("idle", FALSE, FALSE)

\* increaseUserQuota: an UPDATE scoped to rows that are not deleted, which
\* reports success when it matches none.
WriteUser(u) ==
    /\ phase = "user" /\ flightU[u] # 0
    /\ flightU' = [flightU EXCEPT ![u] = 0]
    /\ IF userRow[u] = "live"
       THEN quota' = Add(quota, u, flightU[u]) /\ lostU' = lostU
       ELSE lostU' = Add(lostU, u, flightU[u]) /\ quota' = quota
    /\ UNCHANGED <<remain, used, pendU, pendT, rows, flightT, phase, lostT, reply, drafts>>

\* The UPDATE fails and the change goes back to the store.
RequeueUser(u) ==
    /\ phase = "user" /\ flightU[u] # 0
    /\ flightU' = [flightU EXCEPT ![u] = 0]
    /\ pendU' = Add(pendU, u, flightU[u])
    /\ UNCHANGED <<quota, remain, used, pendT, rows, flightT, phase, lostU, lostT, reply, drafts>>

WriteToken(t) ==
    /\ phase = "token" /\ flightT[t] # 0
    /\ flightT' = [flightT EXCEPT ![t] = 0]
    /\ IF tokenRow[t] = "live"
       THEN /\ remain' = Add(remain, t, flightT[t])
            /\ used' = Add(used, t, -flightT[t])
            /\ lostT' = lostT
       ELSE lostT' = Add(lostT, t, flightT[t]) /\ UNCHANGED <<remain, used>>
    /\ UNCHANGED <<quota, pendU, pendT, rows, flightU, phase, lostU, reply, drafts>>

RequeueToken(t) ==
    /\ phase = "token" /\ flightT[t] # 0
    /\ flightT' = [flightT EXCEPT ![t] = 0]
    /\ pendT' = Add(pendT, t, flightT[t])
    /\ UNCHANGED <<quota, remain, used, pendU, rows, flightU, phase, lostU, lostT, reply, drafts>>

-----------------------------------------------------------------------------
(* Writers that do not take the lock.                                       *)

\* Recharge, Redeem, ManualCompleteTopUp...: quota + q in their transaction,
\* refused when no live row matches.
TopUp(u, q) ==
    /\ q > 0
    /\ \/ /\ userRow[u] = "live"
          /\ quota' = Add(quota, u, q)
          /\ Answer("adjust", u, None, -q, TRUE)
          /\ UNCHANGED <<remain, used, pendU, pendT, rows, batch, drafts>>
       \/ Fails("adjust", u, None, -q)

\* ManageUser, add_quota in mode "override".
OverrideQuota(u, q) ==
    /\ userRow[u] = "live"
    /\ quota' = [quota EXCEPT ![u] = q]
    /\ Answer("override", u, None, q, TRUE)
    /\ UNCHANGED <<remain, used, pendU, pendT, rows, batch, drafts>>

\* Token.Update writes remain_quota from the owner's form.
EditToken(t, q) ==
    /\ tokenRow[t] = "live"
    /\ remain' = [remain EXCEPT ![t] = q]
    /\ Answer("override", None, t, q, TRUE)
    /\ UNCHANGED <<quota, used, pendU, pendT, rows, batch, drafts>>

DeleteUser(u, how) ==
    /\ userRow[u] # "hard" /\ how # userRow[u]
    /\ userRow' = [userRow EXCEPT ![u] = how]
    /\ UNCHANGED <<quota, remain, used, pendU, pendT, tokenRow, batch, reply, drafts>>

\* A handler reads a row, changes other columns of the copy and writes the
\* copy back later.
ReadUser(u) ==
    /\ userRow[u] = "live"
    /\ draftU' = draftU \cup {<<u, quota[u]>>}
    /\ UNCHANGED <<quota, remain, used, pendU, pendT, rows, batch, draftT, reply>>

ReadToken(t) ==
    /\ tokenRow[t] = "live"
    /\ draftT' = draftT \cup {<<t, remain[t]>>}
    /\ UNCHANGED <<quota, remain, used, pendU, pendT, rows, batch, draftU, reply>>

\* Another handler may hold the same copy.
UseDraftU(d) == draftU' \in {draftU, draftU \ {d}} /\ draftT' = draftT
UseDraftT(d) == draftT' \in {draftT, draftT \ {d}} /\ draftU' = draftU

\* User.Update (settings, bindings, billing preference): every column of the
\* copy that is not zero, for a row that is not deleted.
UpdateUser(u, q) ==
    /\ <<u, q>> \in draftU
    /\ userRow[u] = "live"
    /\ q # 0
    /\ quota' = [quota EXCEPT ![u] = q]
    /\ UseDraftU(<<u, q>>)
    /\ Answer("restore", u, None, 0, TRUE)
    /\ UNCHANGED <<remain, used, pendU, pendT, rows, batch>>

\* inviteUser: Save writes every column, and inserts the copy again, not
\* deleted, when it finds no row.
SaveInviter(u, q) ==
    /\ <<u, q>> \in draftU
    /\ quota' = [quota EXCEPT ![u] = q]
    /\ userRow' = [userRow EXCEPT ![u] = "live"]
    /\ lostU' = [lostU EXCEPT ![u] = 0]
    /\ UseDraftU(<<u, q>>)
    /\ Answer("restore", u, None, 0, TRUE)
    /\ UNCHANGED <<remain, used, pendU, pendT, tokenRow, flightU, flightT, phase, lostT>>

\* UpdateToken with status_only: Token.Update writes the remain_quota it read.
UpdateTokenStatus(t, q) ==
    /\ <<t, q>> \in draftT
    /\ tokenRow[t] = "live"
    /\ remain' = [remain EXCEPT ![t] = q]
    /\ UseDraftT(<<t, q>>)
    /\ Answer("restore", None, t, 0, TRUE)
    /\ UNCHANGED <<quota, used, pendU, pendT, rows, batch>>

\* Mutant: the row of a token is removed for good.
DeleteTokenHard(t) ==
    /\ tokenRow[t] = "live"
    /\ tokenRow' = [tokenRow EXCEPT ![t] = "hard"]
    /\ UNCHANGED <<quota, remain, used, pendU, pendT, userRow, batch, reply, drafts>>

DeleteToken(t) ==
    /\ tokenRow[t] = "live"
    /\ tokenRow' = [tokenRow EXCEPT ![t] = "soft"]
    /\ UNCHANGED <<quota, remain, used, pendU, pendT, userRow, batch, reply, drafts>>

\* The process dies and restarts: the stores are memory, nothing saves them.
Crash ==
    /\ pendU' = Zero(Users) /\ flightU' = Zero(Users)
    /\ pendT' = Zero(Tokens) /\ flightT' = Zero(Tokens)
    /\ phase' = "idle"
    /\ Answer("crash", None, None, 0, FALSE)
    /\ draftU' = {} /\ draftT' = {}
    /\ UNCHANGED <<quota, remain, used, rows, lostU, lostT>>

-----------------------------------------------------------------------------
(* What each account is worth: its row and every change on its way to it.   *)

balance == [u \in Users |-> quota[u] + pendU[u] + flightU[u] + lostU[u]]
tokenRemain == [t \in Tokens |-> remain[t] + pendT[t] + flightT[t] + lostT[t]]
tokenSpent == [t \in Tokens |-> used[t] - pendT[t] - flightT[t] - lostT[t]]

\* The part of it that is only in memory.
unsavedU == [u \in Users |-> pendU[u] + flightU[u]]
unsavedT == [t \in Tokens |-> pendT[t] + flightT[t]]

Small(x) == -Bound <= x /\ x <= Bound

InBounds ==
    /\ \A u \in Users : /\ Small(balance[u]) /\ Small(pendU[u])
                        /\ Small(pendU[u] + flightU[u] + lostU[u])
    /\ \A t \in Tokens : /\ Small(tokenRemain[t]) /\ Small(tokenSpent[t]) /\ Small(pendT[t])
                         /\ Small(pendT[t] + flightT[t] + lostT[t])
    /\ Cardinality(draftU) + Cardinality(draftT) <= MaxDrafts

Init ==
    /\ quota \in [Users -> InitialQuota]
    /\ remain \in [Tokens -> InitialQuota]
    /\ used = Zero(Tokens)
    /\ userRow = [u \in Users |-> "live"]
    /\ tokenRow = [t \in Tokens |-> "live"]
    /\ pendU = Zero(Users) /\ flightU = Zero(Users) /\ lostU = Zero(Users)
    /\ pendT = Zero(Tokens) /\ flightT = Zero(Tokens) /\ lostT = Zero(Tokens)
    /\ draftU = {} /\ draftT = {}
    /\ phase = "idle"
    /\ reply = [op |-> "crash", user |-> None, token |-> None, amount |-> 0, ok |-> FALSE]

\* The calls of request handlers and background refunds.
Call ==
    \E a \in Accounts, q \in Amounts :
        /\ a # <<None, None>>
        /\ Reserve(a[1], a[2], q) \/ Adjust(a[1], a[2], q) \/ Queue(a[1], a[2], q)

Flush ==
    \/ FlushUsers \/ FlushUsersDone \/ FlushTokens \/ FlushTokensDone
    \/ \E u \in Users : WriteUser(u) \/ RequeueUser(u)
    \/ \E t \in Tokens : WriteToken(t) \/ RequeueToken(t)

Others ==
    \/ \E u \in Users, q \in Amounts : TopUp(u, q) \/ OverrideQuota(u, q)
    \/ \E t \in Tokens, q \in Amounts : EditToken(t, q)
    \/ \E u \in Users, how \in {"soft", "hard"} : DeleteUser(u, how)
    \/ \E t \in Tokens : DeleteToken(t)
    \/ \E u \in Users : ReadUser(u)
    \/ \E t \in Tokens : ReadToken(t)
    \/ \E d \in draftU : UpdateUser(d[1], d[2]) \/ SaveInviter(d[1], d[2])
    \/ \E d \in draftT : UpdateTokenStatus(d[1], d[2])
    \/ Crash

Next == (Call \/ Flush \/ Others) /\ InBounds'

Spec == Init /\ [][Next]_vars

\* The batch updater's loop never ends, and a DB that is reached again and
\* again takes a write in the end.
Fairness ==
    /\ WF_vars(FlushUsers /\ InBounds') /\ WF_vars(FlushUsersDone /\ InBounds')
    /\ WF_vars(FlushTokens /\ InBounds') /\ WF_vars(FlushTokensDone /\ InBounds')
    /\ \A u \in Users : SF_vars(WriteUser(u) /\ InBounds') /\ WF_vars(RequeueUser(u) /\ InBounds')
    /\ \A t \in Tokens : SF_vars(WriteToken(t) /\ InBounds') /\ WF_vars(RequeueToken(t) /\ InBounds')

FairSpec == Spec /\ Fairness

-----------------------------------------------------------------------------
(* Properties.                                                              *)

Reply == [op : {"reserve", "adjust", "override", "restore", "crash"},
          user : Users \cup {None}, token : Tokens \cup {None},
          amount : Int, ok : BOOLEAN]

\* Every column and store holds an integer per account; the batch updater is
\* in one of its four places.
TypeOK ==
    /\ quota \in [Users -> Int] /\ pendU \in [Users -> Int]
    /\ flightU \in [Users -> Int] /\ lostU \in [Users -> Int]
    /\ remain \in [Tokens -> Int] /\ used \in [Tokens -> Int]
    /\ pendT \in [Tokens -> Int] /\ flightT \in [Tokens -> Int] /\ lostT \in [Tokens -> Int]
    /\ userRow \in [Users -> {"live", "soft", "hard"}]
    /\ tokenRow \in [Tokens -> {"live", "soft"}]
    /\ phase \in {"idle", "user", "between", "token"}
    /\ draftU \in SUBSET (Users \X Int) /\ draftT \in SUBSET (Tokens \X Int)
    /\ reply \in Reply

\* The batch updater holds a swapped-out store only under the execution lock
\* (batchUpdate), and an UPDATE misses only rows that are deleted.  Without
\* the first a reservation would not see quota that is already spent.
SwappedOnlyUnderLock ==
    /\ phase # "user" => flightU = Zero(Users)
    /\ phase # "token" => flightT = Zero(Tokens)
    /\ \A u \in Users : userRow[u] = "live" => lostU[u] = 0
    /\ \A t \in Tokens : tokenRow[t] = "live" => lostT[t] = 0

\* Callers of the ledger see one number per account: whatever is queued,
\* swapped out, written, requeued or reconciled, an account moves by exactly
\* the amounts of the calls that returned nil, and a reservation that returns
\* nil was covered by everything its account had left, queued changes
\* included (withReconciledWalletQuota, batchUpdate).  Beside overrides two
\* things take a call back: a crash, and only queued changes; and a handler
\* that writes a whole row, whose quota was the stored one when it read it.
W == INSTANCE Wallet WITH remain <- tokenRemain, spent <- tokenSpent
ImplementsWallet == W!WalletSpec

\* A queued change reaches its row (or is cancelled out) although any number
\* of UPDATEs may fail and put it back (batchUpdate, addNewRecord).
QueuedChangesDrain ==
    \A u \in Users : pendU[u] # 0 ~> pendU[u] = 0 /\ flightU[u] = 0
=============================================================================
