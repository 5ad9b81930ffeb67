------------------------------- MODULE Wallet -------------------------------
(***************************************************************************)
(* What the quota ledger promises its callers, whatever it batches, flushes *)
(* or reconciles behind their back: one number per user wallet, two per API *)
(* token, and calls that act on them atomically.  A call is answered when   *)
(* its effect is complete; a refused call has no effect.  QuotaLedger       *)
(* implements this specification.  Two things are not calls: a process that  *)
(* dies forgets what is only in memory, and a row that was read is written    *)
(* back with the number it had then.                                         *)
(***************************************************************************)
EXTENDS Integers

CONSTANTS
    Users,      \* rows of the users table
    Tokens,     \* rows of the tokens table
    None,       \* "no wallet" or "no token" in a call
    Owner,      \* tokens.user_id
    Unlimited,  \* tokens with unlimited_quota = true
    Amounts     \* the amounts the callers pass

VARIABLES
    balance,    \* spendable quota of each user
    remain,     \* spendable quota of each token
    spent,      \* quota charged to each token so far
    unsavedU, unsavedT, \* the part of balance and remain that is only in memory
    draftU, draftT,     \* stored numbers that were read to be written back
    reply       \* the last call and whether it succeeded

numbers == <<balance, remain, spent>>
memory == <<unsavedU, unsavedT>>
copies == <<draftU, draftT>>
walletVars == <<numbers, memory, copies, reply>>

\* "reserve" refuses to overdraw, "adjust" does not ask (a negative amount
\* refunds), "override" is an administrator or owner writing the number,
\* "restore" is a copy of a row written back, and "crash" is the process dying
\* with quota changes still in its memory.
Replies == [op : {"reserve", "adjust", "override", "restore", "crash"},
            user : Users \cup {None}, token : Tokens \cup {None},
            amount : Amounts, ok : BOOLEAN]

\* Moves d between the pools of f at k; a call without that account moves none.
Credit(f, k, d) == IF k \in DOMAIN f THEN [f EXCEPT ![k] = @ + d] ELSE f

Clear(f, k) == IF k \in DOMAIN f THEN [f EXCEPT ![k] = 0] ELSE f

\* What is stored of an account.
Stored(u) == balance[u] - unsavedU[u]
StoredT(t) == remain[t] - unsavedT[t]

Enough(c) ==
    /\ c.user \in Users => balance[c.user] >= c.amount
    /\ c.token \in Tokens => c.token \in Unlimited \/ remain[c.token] >= c.amount
    /\ c.user \in Users /\ c.token \in Tokens => Owner[c.token] = c.user

\* A call may store what its accounts had in memory, and its own amount with
\* it; an adjustment, never a reservation, may itself stay in memory.
Remember(c) ==
    \/ UNCHANGED memory
    \/ unsavedU' = Clear(unsavedU, c.user) /\ unsavedT' = Clear(unsavedT, c.token)
    \/ /\ c.op = "adjust"
       /\ unsavedU' = Credit(unsavedU, c.user, -c.amount)
       /\ unsavedT' = Credit(unsavedT, c.token, -c.amount)

Serve(c) ==
    /\ c.op \in {"reserve", "adjust"}
    /\ c.op = "reserve" => c.amount = 0 \/ (c.amount > 0 /\ Enough(c))
    /\ balance' = Credit(balance, c.user, -c.amount)
    /\ remain' = Credit(remain, c.token, -c.amount)
    /\ spent' = Credit(spent, c.token, c.amount)
    /\ Remember(c)
    /\ c.ok
    /\ UNCHANGED copies

Refuse(c) ==
    /\ ~c.ok
    /\ c.op # "crash"
    /\ UNCHANGED <<numbers, memory, copies>>

\* Only the named account takes a new value, and the other columns keep theirs.
Override(c) ==
    /\ c.op = "override"
    /\ c.user \in Users => balance' = [balance EXCEPT ![c.user] = balance'[c.user]]
    /\ c.user = None => balance' = balance
    /\ c.token \in Tokens => remain' = [remain EXCEPT ![c.token] = remain'[c.token]]
    /\ c.token = None => remain' = remain
    /\ spent' = spent
    /\ c.ok
    /\ UNCHANGED <<memory, copies>>

\* The stored number of the account is one that was read before; what is in
\* memory stays.
Restore(c) ==
    /\ c.op = "restore" /\ c.ok
    /\ \/ \E d \in draftU :
            /\ c.user = d[1] /\ c.token = None
            /\ balance' = [balance EXCEPT ![d[1]] = d[2] + unsavedU[d[1]]]
            /\ draftU' \in {draftU, draftU \ {d}}
            /\ UNCHANGED <<remain, draftT>>
       \/ \E d \in draftT :
            /\ c.token = d[1] /\ c.user = None
            /\ remain' = [remain EXCEPT ![d[1]] = d[2] + unsavedT[d[1]]]
            /\ draftT' \in {draftT, draftT \ {d}}
            /\ UNCHANGED <<balance, draftU>>
    /\ UNCHANGED <<spent, memory>>

\* A crash forgets what is only in memory, and nothing else.
Forget(c) ==
    /\ c.op = "crash" /\ ~c.ok
    /\ balance' = [u \in Users |-> Stored(u)]
    /\ remain' = [t \in Tokens |-> StoredT(t)]
    /\ spent' = [t \in Tokens |-> spent[t] + unsavedT[t]]
    /\ unsavedU' = [u \in Users |-> 0] /\ unsavedT' = [t \in Tokens |-> 0]
    /\ draftU' = {} /\ draftT' = {}

\* What an account has in memory is stored.
Save ==
    /\ \/ \E u \in Users : unsavedU' = Clear(unsavedU, u) /\ unsavedT' = unsavedT
       \/ \E t \in Tokens : unsavedT' = Clear(unsavedT, t) /\ unsavedU' = unsavedU
    /\ UNCHANGED <<numbers, copies, reply>>

\* A row is read to be written back.
Draft ==
    /\ \/ \E u \in Users : draftU' = draftU \cup {<<u, Stored(u)>>} /\ draftT' = draftT
       \/ \E t \in Tokens : draftT' = draftT \cup {<<t, StoredT(t)>>} /\ draftU' = draftU
    /\ UNCHANGED <<numbers, memory, reply>>

WalletInit ==
    /\ balance \in [Users -> Int]
    /\ remain \in [Tokens -> Int]
    /\ spent \in [Tokens -> Int]
    /\ unsavedU = [u \in Users |-> 0] /\ unsavedT = [t \in Tokens |-> 0]
    /\ draftU = {} /\ draftT = {}
    /\ reply \in Replies /\ ~reply.ok

\* One call c, from its arguments to its answer.
Answered ==
    LET c == reply'
    IN  /\ c \in Replies
        /\ Serve(c) \/ Refuse(c) \/ Override(c) \/ Restore(c) \/ Forget(c)

WalletNext == Answered \/ Save \/ Draft

WalletSpec == WalletInit /\ [][WalletNext]_walletVars
=============================================================================
