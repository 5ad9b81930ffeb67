----------------------------- MODULE OrderLock ------------------------------
(***************************************************************************)
(* LockOrder and UnlockOrder of controller/topup.go: one mutex per trade     *)
(* number, kept in a map while anybody uses it.  Every access to a count and *)
(* every change of the map happens under createLock, so such a section is    *)
(* one action; the map is also read without it when a lock is given back.    *)
(***************************************************************************)
EXTENDS Integers, FiniteSets

CONSTANTS Handlers,   \* goroutines of one gateway process
          Trades,     \* trade numbers
          Mutexes,    \* addresses a refCountedMutex may have
          None

ASSUME LockAssumption ==
    /\ IsFiniteSet(Handlers)
    /\ None \notin Mutexes \cup Handlers \cup Trades

VARIABLES orderLocks,  \* orderLocks[t]: the mutex the map has for t, or None
          refCount,    \* refCount[m]: the count in mutex m
          holder,      \* holder[m]: who has locked m, or None
          at,          \* at[h]: where handler h is
          trade,       \* trade[h]: the trade number h works on
          rcm          \* rcm[h]: the mutex h has taken from the map

lockVars == <<orderLocks, refCount, holder, at, trade, rcm>>

InitLock ==
    /\ orderLocks = [t \in Trades |-> None]
    /\ refCount = [m \in Mutexes |-> 0]
    /\ holder = [m \in Mutexes |-> None]
    /\ at = [h \in Handlers |-> "out"]
    /\ trade = [h \in Handlers |-> None]
    /\ rcm = [h \in Handlers |-> None]

\* Memory that nothing refers to: a new refCountedMutex may be put there.
Unused(m) ==
    /\ \A t \in Trades : orderLocks[t] # m
    /\ \A h \in Handlers : rcm[h] # m

\* The section of LockOrder under createLock.
Enter(h, t) ==
    /\ at[h] = "out"
    /\ \E m \in Mutexes :
        /\ \/ /\ orderLocks[t] = m
              /\ refCount' = [refCount EXCEPT ![m] = @ + 1]
              /\ UNCHANGED <<orderLocks, holder>>
           \/ /\ orderLocks[t] = None /\ Unused(m)
              /\ orderLocks' = [orderLocks EXCEPT ![t] = m]
              /\ refCount' = [refCount EXCEPT ![m] = 1]
              /\ holder' = [holder EXCEPT ![m] = None]
        /\ rcm' = [rcm EXCEPT ![h] = m]
    /\ trade' = [trade EXCEPT ![h] = t]
    /\ at' = [at EXCEPT ![h] = "acquire"]

\* The last statement of LockOrder.
Acquire(h) ==
    /\ at[h] = "acquire"
    /\ holder[rcm[h]] = None
    /\ holder' = [holder EXCEPT ![rcm[h]] = h]
    /\ at' = [at EXCEPT ![h] = "in"]
    /\ UNCHANGED <<orderLocks, refCount, trade, rcm>>

\* UnlockOrder reads the map and unlocks what it finds there.
Unlock(h) ==
    /\ at[h] = "in"
    /\ \/ /\ orderLocks[trade[h]] # None
          /\ rcm' = [rcm EXCEPT ![h] = orderLocks[trade[h]]]
          /\ holder' = [holder EXCEPT ![orderLocks[trade[h]]] = None]
          /\ at' = [at EXCEPT ![h] = "release"]
          /\ UNCHANGED trade
       \/ /\ orderLocks[trade[h]] = None
          /\ rcm' = [rcm EXCEPT ![h] = None]
          /\ trade' = [trade EXCEPT ![h] = None]
          /\ at' = [at EXCEPT ![h] = "out"]
          /\ UNCHANGED holder
    /\ UNCHANGED <<orderLocks, refCount>>

\* Mutant: the entry goes whatever the count is.
ReleaseAlways(h) ==
    /\ at[h] = "release"
    /\ refCount' = [refCount EXCEPT ![rcm[h]] = @ - 1]
    /\ orderLocks' = [orderLocks EXCEPT ![trade[h]] = None]
    /\ rcm' = [rcm EXCEPT ![h] = None]
    /\ trade' = [trade EXCEPT ![h] = None]
    /\ at' = [at EXCEPT ![h] = "out"]
    /\ UNCHANGED holder

\* The section of UnlockOrder under createLock.
Release(h) ==
    /\ at[h] = "release"
    /\ refCount' = [refCount EXCEPT ![rcm[h]] = @ - 1]
    /\ orderLocks' = [orderLocks EXCEPT ![trade[h]] =
                        IF refCount[rcm[h]] = 1 THEN None ELSE @]
    /\ rcm' = [rcm EXCEPT ![h] = None]
    /\ trade' = [trade EXCEPT ![h] = None]
    /\ at' = [at EXCEPT ![h] = "out"]
    /\ UNCHANGED holder

\* The process dies: goroutines and map are gone.
LoseLocks ==
    /\ orderLocks' = [t \in Trades |-> None]
    /\ refCount' = [m \in Mutexes |-> 0]
    /\ holder' = [m \in Mutexes |-> None]
    /\ at' = [h \in Handlers |-> "out"]
    /\ trade' = [h \in Handlers |-> None]
    /\ rcm' = [h \in Handlers |-> None]

-----------------------------------------------------------------------------
(* Properties.                                                              *)

LockTypeOK ==
    /\ orderLocks \in [Trades -> Mutexes \cup {None}]
    /\ refCount \in [Mutexes -> Int]
    /\ holder \in [Mutexes -> Handlers \cup {None}]
    /\ at \in [Handlers -> {"out", "acquire", "in", "release"}]
    /\ trade \in [Handlers -> Trades \cup {None}]
    /\ rcm \in [Handlers -> Mutexes \cup {None}]

Users(m) == {h \in Handlers : rcm[h] = m}

\* Two handlers never work on one trade number at the same time, although the
\* map entry and its mutex are dropped and made anew between uses (LockOrder,
\* UnlockOrder): a handler that waits keeps the entry alive.
OneAtATime ==
    \A g, h \in Handlers :
        at[g] = "in" /\ at[h] = "in" /\ trade[g] = trade[h] => g = h

\* The map has an entry exactly for the trade numbers somebody works on, and
\* its count is the number of its users: entries neither leak nor vanish.
EntriesCounted ==
    /\ \A t \in Trades :
          (orderLocks[t] # None) <=> \E h \in Handlers : trade[h] = t
    /\ \A h \in Handlers : trade[h] # None => rcm[h] = orderLocks[trade[h]]
    /\ \A t \in Trades : orderLocks[t] # None =>
          refCount[orderLocks[t]] = Cardinality(Users(orderLocks[t]))
=============================================================================
