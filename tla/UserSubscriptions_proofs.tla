---------------------- MODULE UserSubscriptions_proofs -----------------------
(***************************************************************************)
(* The subscriptions of a user for any plans, clock and number of rows.  A   *)
(* group is given up only when no upgraded subscription is left; the sweep   *)
(* may have read the time long ago (SweepInPast), but what has not ended now *)
(* had not ended then.  When every upgrade was bought in the group of        *)
(* before, the latest one is the one the user's group comes from (Latest),   *)
(* so whoever ends it last finds the way back in it.                         *)
(***************************************************************************)
EXTENDS UserSubscriptions, SequenceTheorems, WellFoundedInduction, TLAPS

SweepInPast == sweep <= now

ExpiredInPast == \A i \in Ids : subs[i].status = "expired" => subs[i].end <= now

\* Every upgrade was bought in the group of before.
FromBase == \A i \in Ids : subs[i].up # NoGroup => subs[i].prev = Base

\* Row m is active and the origin of the user's group; the other upgrades
\* came before it, are over, and end before it does.
Latest(m) ==
    /\ subs[m].status = "active" /\ subs[m].up # NoGroup /\ subs[m].up = group
    /\ \A i \in Ids : i # m /\ subs[i].up # NoGroup /\ subs[i].status \in {"active", "expired"} =>
          subs[i].end <= now /\ subs[i].end < subs[m].end

Traced == FromBase => group = Base \/ \E m \in Ids : Latest(m)

SubsInv == SubsTypeOK /\ SweepInPast /\ ExpiredInPast /\ KeptWhileActive /\ Traced
-----------------------------------------------------------------------------
(* The latest row exists.                                                   *)

Less == {ss \in Nat \X Nat : ss[1] < ss[2]}

\* The numbers are well-founded, stated without a higher-order operator.
LEMMA LessWellFounded == IsWellFoundedOn(Less, Nat)
  BY NatLessThanWellFounded DEF OpToRel, Less

\* A set of numbers has a smallest one.
LEMMA SmallestOf ==
  ASSUME NEW T, T \subseteq Nat, T # {}
  PROVE  \E x \in T : \A y \in T : x <= y
<1>1. PICK x \in T : \A y \in T : <<y, x>> \notin Less
  BY LessWellFounded, WFMin
<1>2. ASSUME NEW y \in T PROVE x <= y
  <2>1. <<y, x>> \notin Less /\ x \in Nat /\ y \in Nat
    BY <1>1
  <2> QED
    BY <2>1 DEF Less
<1> QED
  BY <1>2

\* A bounded set of numbers has a greatest one.
LEMMA GreatestOf ==
  ASSUME NEW T, T \subseteq Nat, T # {}, NEW b \in Nat, \A x \in T : x <= b
  PROVE  \E x \in T : \A y \in T : y <= x
<1> DEFINE U == {b - x : x \in T}
<1>1. U \subseteq Nat /\ U # {}
  <2>1. ASSUME NEW x \in T PROVE b - x \in Nat
    <3>1. x \in Nat /\ x <= b
      OBVIOUS
    <3> QED
      BY <3>1
  <2> QED
    BY <2>1
<1>2. PICK u \in U : \A v \in U : u <= v
  BY <1>1, SmallestOf
<1>3. PICK x \in T : u = b - x
  OBVIOUS
<1>4. ASSUME NEW y \in T PROVE y <= x
  <2>1. b - y \in U /\ x \in Nat /\ y \in Nat
    OBVIOUS
  <2>2. b - x <= b - y
    BY <1>2, <1>3, <2>1
  <2> QED
    BY <2>1, <2>2
<1> QED
  BY <1>4

\* The query for the last expired subscription finds one.
LEMMA LastFound ==
  ASSUME SubsTypeOK, NEW S, S \subseteq Ids, S # {}, \A i \in S : subs[i].end <= now
  PROVE  /\ Last(S) \in S
         /\ \A j \in S : subs[j].end <= subs[Last(S)].end
<1>1. now \in Nat /\ Len(subs) \in Nat /\ \A i \in Ids : subs[i] \in Sub
  BY ElementOfSeq DEF SubsTypeOK, Ids
<1>2. \A i \in S : subs[i].end \in Nat /\ i \in Nat /\ i <= Len(subs)
  BY <1>1 DEF Sub, Ids
<1> DEFINE T == {subs[i].end : i \in S}
<1>3. PICK e \in T : \A x \in T : x <= e
  <2>1. T \subseteq Nat /\ T # {} /\ \A x \in T : x <= now
    BY <1>2
  <2> QED
    BY <1>1, <2>1, GreatestOf
<1> DEFINE L == {i \in S : subs[i].end = e}
<1>4. PICK i \in L : \A j \in L : j <= i
  <2>1. L \subseteq Nat /\ L # {} /\ \A x \in L : x <= Len(subs)
    BY <1>2, <1>3
  <2> QED
    BY <1>1, <2>1, GreatestOf
<1>5. ASSUME NEW j \in S
      PROVE  subs[j].end < subs[i].end \/ (subs[j].end = subs[i].end /\ j <= i)
  <2>1. subs[j].end <= e /\ subs[i].end = e /\ subs[j].end \in Nat /\ e \in Nat
    BY <1>2, <1>3
  <2>2. CASE subs[j].end = e
    BY <1>4, <2>1, <2>2
  <2>3. CASE subs[j].end # e
    BY <2>1, <2>3
  <2> QED
    BY <2>2, <2>3
<1>6. i \in S
  BY <1>4
<1> HIDE DEF T, L
<1>7. /\ Last(S) \in S
      /\ \A j \in S : \/ subs[j].end < subs[Last(S)].end
                      \/ subs[j].end = subs[Last(S)].end /\ j <= Last(S)
  BY <1>5, <1>6 DEF Last
<1> QED
  BY <1>2, <1>7

-----------------------------------------------------------------------------

\* A row of the table, and what a change of one row leaves.
LEMMA RowChanged ==
  ASSUME SubsTypeOK, NEW i \in Ids, NEW x \in Sub, subs' = [subs EXCEPT ![i] = x]
  PROVE  /\ subs' \in Seq(Sub) /\ Len(subs') = Len(subs) /\ Ids' = Ids
         /\ subs[i] \in Sub /\ subs'[i] = x
         /\ \A j \in Ids : j # i => subs'[j] = subs[j]
<1>1. subs \in Seq(Sub)
  BY DEF SubsTypeOK
<1> QED
  BY <1>1, ExceptSeq, ElementOfSeq DEF Ids

\* No subscription yet.
LEMMA SubsInit == InitSubs => SubsInv
<1> SUFFICES ASSUME InitSubs PROVE SubsInv
  OBVIOUS
<1>1. SubsTypeOK /\ SweepInPast
  BY SubscriptionAssumption DEF InitSubs, SubsTypeOK, SweepInPast, Groups
<1>2. ExpiredInPast /\ KeptWhileActive /\ Traced
  BY DEF InitSubs, ExpiredInPast, KeptWhileActive, Traced, Upgraded, Ids
<1> QED
  BY <1>1, <1>2 DEF SubsInv

\* A new upgraded subscription puts the user into its group.
LEMMA CreateKeeps ==
  ASSUME SubsInv, NEW p \in Plans, Create(p), UNCHANGED <<now, sweep>>
  PROVE  SubsInv'
<1> USE SubscriptionAssumption DEF SubsInv
<1> DEFINE moves == PlanGroup[p] # NoGroup /\ group # PlanGroup[p]
           x == [plan |-> p, status |-> "active", end |-> now + Duration[p],
                 up |-> PlanGroup[p], prev |-> IF moves THEN group ELSE NoGroup]
<1> PICK n \in Int : n = Len(subs) + 1
  BY LenProperties DEF SubsTypeOK
<1>1. subs' = Append(subs, x) /\ group' = IF moves THEN PlanGroup[p] ELSE group
  BY DEF Create
<1>2. /\ subs \in Seq(Sub) /\ group \in Groups \ {NoGroup} /\ now \in Nat
      /\ PlanGroup[p] \in Groups /\ Duration[p] \in Nat \ {0}
  BY DEF SubsTypeOK, Groups
<1>3. /\ x \in Sub /\ x.up = PlanGroup[p] /\ x.end > now /\ x.status = "active"
      /\ x.prev = IF moves THEN group ELSE NoGroup
  BY <1>2 DEF Sub, Groups
<1> HIDE DEF x
<1>4. /\ subs' \in Seq(Sub) /\ Ids' = Ids \cup {n} /\ n \notin Ids
      /\ \A i \in Ids : subs'[i] = subs[i]
      /\ subs'[n] = x
  BY <1>1, <1>2, <1>3, AppendProperties DEF Ids
<1>5. SubsTypeOK' /\ SweepInPast'
  BY <1>1, <1>2, <1>4 DEF SubsTypeOK, SweepInPast, Groups
<1>6. ExpiredInPast'
  BY <1>3, <1>4 DEF ExpiredInPast
<1>7. KeptWhileActive'
  <2> SUFFICES ASSUME NEW i \in Ids', subs'[i].status = "active", subs'[i].end > now,
                      subs'[i].up # NoGroup
               PROVE  group' # Base
    BY DEF KeptWhileActive, Upgraded
  <2>1. CASE i \in Ids
    <3>1. i \in Upgraded(now)
      BY <1>4, <2>1 DEF Upgraded
    <3> QED
      BY <1>1, <3>1 DEF KeptWhileActive
  <2>2. CASE i = n
    BY <1>1, <1>3, <1>4, <2>2
  <2> QED
    BY <1>4, <2>1, <2>2
<1>8. Traced'
  <2> SUFFICES ASSUME FromBase' PROVE group' = Base \/ \E m \in Ids' : Latest(m)'
    BY DEF Traced
  <2>1. FromBase
    BY <1>4 DEF FromBase
  <2>2. CASE PlanGroup[p] = NoGroup
    <3>1. ASSUME NEW m \in Ids, Latest(m) PROVE Latest(m)'
      BY <1>1, <1>3, <1>4, <2>2, <3>1 DEF Latest
    <3> QED
      BY <1>1, <1>4, <2>1, <2>2, <3>1 DEF Traced
  <2>3. CASE PlanGroup[p] # NoGroup
    <3>1. moves /\ group = Base
      BY <1>3, <1>4, <2>3 DEF FromBase
    <3>2. \A i \in Ids : subs[i] \in Sub
      BY <1>2, ElementOfSeq DEF Ids
    <3>3. ASSUME NEW i \in Ids, subs[i].up # NoGroup, subs[i].status \in {"active", "expired"}
          PROVE  subs[i].end <= now
      <4>1. i \notin Upgraded(now) /\ subs[i].end \in Nat
        BY <3>1, <3>2 DEF KeptWhileActive, Sub
      <4> QED
        BY <1>2, <3>3, <4>1 DEF Upgraded, ExpiredInPast
    <3>4. Latest(n)'
      <4> SUFFICES ASSUME NEW i \in Ids', i # n, subs'[i].up # NoGroup,
                          subs'[i].status \in {"active", "expired"}
                   PROVE  subs'[i].end <= now /\ subs'[i].end < x.end
        BY <1>1, <1>3, <1>4, <2>3, <3>1 DEF Latest
      <4>1. i \in Ids /\ subs'[i] = subs[i] /\ subs[i].end \in Nat /\ x.end \in Nat
        BY <1>3, <1>4, <3>2 DEF Sub
      <4> QED
        BY <1>2, <1>3, <3>3, <4>1
    <3> QED
      BY <1>4, <3>4
  <2> QED
    BY <2>2, <2>3
<1> QED
  BY <1>5, <1>6, <1>7, <1>8

\* The group changes only if no other upgraded subscription is left, and the
\* one that ends does not count any more.
LEMMA EndKeeps ==
  ASSUME SubsInv, NEW i \in Ids, AdminInvalidate(i) \/ AdminDelete(i)
  PROVE  SubsInv'
<1> USE SubscriptionAssumption DEF SubsInv
<1>1. subs[i] \in Sub /\ now \in Nat /\ group \in Groups \ {NoGroup}
  BY ElementOfSeq DEF SubsTypeOK, Ids
<1>2. PICK x \in Sub : /\ x.status \in {"cancelled", "deleted"}
                       /\ x.up = subs[i].up /\ x.prev = subs[i].prev
                       /\ subs' = [subs EXCEPT ![i] = x]
  <2>1. CASE AdminInvalidate(i)
    <3> DEFINE x == [subs[i] EXCEPT !.status = "cancelled", !.end = now]
    <3>1. x \in Sub /\ x.status = "cancelled" /\ x.up = subs[i].up /\ x.prev = subs[i].prev
      BY <1>1 DEF Sub
    <3>2. subs' = [subs EXCEPT ![i] = x]
      BY <2>1 DEF AdminInvalidate, SubsTypeOK, Ids
    <3> QED
      BY <3>1, <3>2
  <2>2. CASE AdminDelete(i)
    <3> DEFINE x == [subs[i] EXCEPT !.status = "deleted"]
    <3>1. x \in Sub /\ x.status = "deleted" /\ x.up = subs[i].up /\ x.prev = subs[i].prev
      BY <1>1 DEF Sub
    <3>2. subs' = [subs EXCEPT ![i] = x]
      BY <2>2 DEF AdminDelete
    <3> QED
      BY <3>1, <3>2
  <2> QED
    BY <2>1, <2>2
<1>3. /\ subs' \in Seq(Sub) /\ Ids' = Ids /\ subs'[i] = x
      /\ \A j \in Ids : j # i => subs'[j] = subs[j]
  BY <1>2, RowChanged
<1>4. group' = Downgrade(i) /\ UNCHANGED <<now, sweep>>
  BY DEF AdminInvalidate, AdminDelete
<1>5. SubsTypeOK' /\ SweepInPast'
  BY <1>1, <1>3, <1>4 DEF SubsTypeOK, SweepInPast, Downgrade, Sub, Groups
<1>6. ExpiredInPast'
  BY <1>2, <1>3, <1>4 DEF ExpiredInPast
<1>7. KeptWhileActive'
  <2> SUFFICES ASSUME NEW j \in Ids, subs'[j].status = "active", subs'[j].end > now,
                      subs'[j].up # NoGroup
               PROVE  group' # Base
    BY <1>3, <1>4 DEF KeptWhileActive, Upgraded
  <2>1. j \in Upgraded(now) \ {i}
    BY <1>2, <1>3 DEF Upgraded
  <2> QED
    BY <1>4, <2>1 DEF KeptWhileActive, Downgrade
<1>8. Traced'
  <2> SUFFICES ASSUME FromBase', group' # Base PROVE \E m \in Ids : Latest(m)'
    BY <1>3 DEF Traced
  <2>1. FromBase
    BY <1>2, <1>3 DEF FromBase
  <2>2. group' = group
    BY <1>4, <2>1 DEF Downgrade, FromBase
  <2>3. PICK m \in Ids : Latest(m)
    BY <2>1, <2>2 DEF Traced
  <2>4. m # i
    <3> SUFFICES ASSUME m = i PROVE FALSE
      OBVIOUS
    <3>1. subs[i].up # NoGroup /\ subs[i].up = group /\ subs[i].prev = Base
      BY <2>1, <2>3 DEF Latest, FromBase
    <3>2. PICK j \in Upgraded(now) : j # i
      BY <1>1, <1>4, <2>2, <3>1 DEF Downgrade, Groups
    <3>3. j \in Ids /\ subs[j] \in Sub
      BY <3>2, ElementOfSeq DEF SubsTypeOK, Ids, Upgraded
    <3> QED
      BY <1>1, <2>3, <3>2, <3>3 DEF Latest, Upgraded, Sub
  <2>5. Latest(m)'
    BY <1>2, <1>3, <1>4, <2>2, <2>3, <2>4 DEF Latest
  <2> QED
    BY <2>5
<1> QED
  BY <1>5, <1>6, <1>7, <1>8

\* What has not ended now had not ended when the sweep read the time, and the
\* last row of the sweep is where the user's group comes from.
LEMMA SweepKeeps ==
  ASSUME SubsInv, ExpireUser
  PROVE  SubsInv'
<1> USE SubscriptionAssumption DEF SubsInv
<1>1. CASE UNCHANGED <<subs, group>>
  BY <1>1 DEF ExpireUser, SubsTypeOK, SweepInPast, ExpiredInPast, KeptWhileActive, Upgraded,
              Traced, FromBase, Latest, Ids
<1>2. CASE ~UNCHANGED <<subs, group>>
  <2> DEFINE row(i) == IF i \in Due(sweep) THEN [subs[i] EXCEPT !.status = "expired"] ELSE subs[i]
             E == {i \in Ids : subs[i].up # NoGroup /\ (subs[i].status = "expired" \/ i \in Due(sweep))}
  <2>1. /\ subs' = [i \in Ids |-> row(i)] /\ group' = AfterSweep(E) /\ sweep' = -1 /\ now' = now
    BY <1>2 DEF ExpireUser
  <2>2. /\ subs \in Seq(Sub) /\ now \in Nat /\ sweep \in Int /\ sweep <= now
        /\ group \in Groups \ {NoGroup}
    BY DEF SubsTypeOK, SweepInPast
  <2>3. \A i \in Ids : subs[i] \in Sub
    BY <2>2, ElementOfSeq DEF Ids
  <2>4. ASSUME NEW i \in Ids
        PROVE  /\ row(i) \in Sub /\ row(i).up = subs[i].up /\ row(i).prev = subs[i].prev
               /\ row(i).end = subs[i].end /\ subs[i].end \in Nat
               /\ i \in Due(sweep) => row(i).status = "expired" /\ subs[i].end <= now
                                      /\ subs[i].status = "active" /\ subs[i].end <= sweep
               /\ i \notin Due(sweep) => row(i) = subs[i]
    <3>1. subs[i] \in Sub
      BY <2>3
    <3>2. i \in Due(sweep) <=> subs[i].status = "active" /\ subs[i].end <= sweep
      BY DEF Due
    <3>3. subs[i].end \in Nat
      BY <3>1 DEF Sub
    <3>4. CASE i \in Due(sweep)
      <4>1. row(i) = [subs[i] EXCEPT !.status = "expired"]
        BY <3>4
      <4> HIDE DEF row
      <4>2. /\ row(i) \in Sub /\ row(i).up = subs[i].up /\ row(i).prev = subs[i].prev
            /\ row(i).end = subs[i].end /\ row(i).status = "expired"
        BY <3>1, <4>1 DEF Sub
      <4> QED
        BY <2>2, <3>2, <3>3, <3>4, <4>2
    <3>5. CASE i \notin Due(sweep)
      BY <3>1, <3>3, <3>5
    <3> QED
      BY <3>4, <3>5
  <2> HIDE DEF row
  <2>5. subs' \in Seq(Sub) /\ Ids' = Ids /\ \A i \in Ids : subs'[i] = row(i)
    <3>1. Len(subs) \in Nat /\ subs' \in [1..Len(subs) -> Sub]
      BY <2>1, <2>2, <2>4 DEF Ids
    <3> QED
      BY <2>1, <3>1, SeqDef, LenProperties DEF Ids
  <2>6. \A i \in E : subs[i].end <= now /\ i \in Ids
    BY <2>4 DEF ExpiredInPast
  <2>7. E # {} => Last(E) \in E /\ \A j \in E : subs[j].end <= subs[Last(E)].end
    BY <2>6, LastFound
  <2>8. \/ group' = group
        \/ \E i \in E : subs[i].prev # NoGroup /\ group = subs[i].up /\ group' = subs[i].prev
    BY <2>1, <2>7 DEF AfterSweep
  <2>9. SubsTypeOK' /\ SweepInPast'
    <3>1. \A i \in E : subs[i].prev \in Groups
      BY <2>3, <2>6 DEF Sub
    <3>2. group' \in Groups \ {NoGroup}
      BY <2>2, <2>8, <3>1
    <3> QED
      BY <2>1, <2>2, <2>5, <3>2 DEF SubsTypeOK, SweepInPast
  <2>10. ExpiredInPast'
    BY <2>1, <2>4, <2>5 DEF ExpiredInPast
  <2>11. KeptWhileActive'
    <3> SUFFICES ASSUME NEW j \in Ids, subs'[j].status = "active", subs'[j].end > now,
                        subs'[j].up # NoGroup
                 PROVE  group' # Base
      BY <2>1, <2>5 DEF KeptWhileActive, Upgraded
    <3>1. subs'[j] = subs[j] /\ subs[j].end \in Nat
      BY <2>4, <2>5
    <3>2. j \in Upgraded(now) /\ j \in Upgraded(sweep)
      BY <2>2, <3>1 DEF Upgraded
    <3> QED
      BY <2>1, <3>2 DEF KeptWhileActive, AfterSweep
  <2>12. Traced'
    <3> SUFFICES ASSUME FromBase', group' # Base PROVE \E m \in Ids : Latest(m)'
      BY <2>5 DEF Traced
    <3>1. FromBase
      BY <2>4, <2>5 DEF FromBase
    <3>2. group' = group
      BY <2>8, <3>1 DEF FromBase
    <3>3. PICK m \in Ids : Latest(m)
      BY <3>1, <3>2 DEF Traced
    <3>4. m \notin Due(sweep)
      <4> SUFFICES ASSUME m \in Due(sweep) PROVE FALSE
        OBVIOUS
      <4>1. subs[m].end <= sweep /\ subs[m].end \in Nat
        BY <2>4
      <4>2. \A j \in Ids : j # m /\ subs[j].up # NoGroup /\ subs[j].status \in {"active", "expired"}
               => subs[j].end < subs[m].end /\ subs[j].end \in Nat
        BY <2>4, <3>3 DEF Latest
      <4>3. Upgraded(sweep) = {}
        BY <2>2, <2>4, <4>1, <4>2 DEF Upgraded
      <4>4. m \in E /\ Last(E) \in E /\ subs[m].end <= subs[Last(E)].end
        BY <2>7, <3>3 DEF Latest
      <4>5. Last(E) = m
        <5> DEFINE l == Last(E)
        <5>1. l \in Ids /\ subs[l].up # NoGroup /\ subs[l].status \in {"active", "expired"}
          BY <2>4, <4>4
        <5> QED
          BY <4>1, <4>2, <4>4, <5>1
      <4>6. subs[m].prev = Base /\ subs[m].up = group
        BY <3>1, <3>3 DEF FromBase, Latest
      <4> QED
        BY <2>1, <4>3, <4>4, <4>5, <4>6 DEF AfterSweep
    <3>5. Latest(m)'
      <4>1. subs'[m] = subs[m] /\ \A i \in Ids : subs'[i] = row(i)
        BY <2>4, <2>5, <3>4
      <4>2. \A i \in Ids : row(i).status \in {"active", "expired"} =>
               subs[i].status \in {"active", "expired"}
        BY <2>4
      <4> QED
        BY <2>1, <2>4, <2>5, <3>2, <3>3, <4>1, <4>2 DEF Latest
    <3> QED
      BY <3>5
  <2> QED
    BY <2>9, <2>10, <2>11, <2>12
<1> QED
  BY <1>1, <1>2

\* Time only ends subscriptions.
LEMMA TimeKeeps ==
  ASSUME SubsInv, Tick \/ ExpireRead \/ UNCHANGED subVars
  PROVE  SubsInv'
<1> USE DEF SubsInv
<1>1. /\ subs' = subs /\ group' = group /\ now' \in {now, now + 1} /\ sweep' \in {sweep, now}
      /\ now \in Nat /\ Ids' = Ids /\ \A i \in Ids : subs[i].end \in Nat
  <2>1. \A i \in Ids : subs[i] \in Sub
    BY ElementOfSeq DEF SubsTypeOK, Ids
  <2>2. \A i \in Ids : subs[i].end \in Nat
    BY <2>1 DEF Sub
  <2> QED
    BY <2>2 DEF Tick, ExpireRead, subVars, SubsTypeOK, Ids
<1>2. SubsTypeOK'
  BY <1>1 DEF SubsTypeOK
<1>3. SweepInPast'
  BY DEF Tick, ExpireRead, subVars, SubsTypeOK, SweepInPast
<1>4. ExpiredInPast'
  BY <1>1 DEF ExpiredInPast
<1>5. KeptWhileActive'
  <2>1. ASSUME NEW i \in Upgraded(now)' PROVE i \in Upgraded(now)
    BY <1>1 DEF Upgraded
  <2> QED
    BY <1>1, <2>1 DEF KeptWhileActive
<1>6. Traced'
  <2>1. FromBase' => FromBase
    BY <1>1 DEF FromBase
  <2>2. ASSUME NEW m \in Ids, Latest(m) PROVE Latest(m)'
    BY <1>1, <2>2 DEF Latest
  <2> QED
    BY <1>1, <2>1, <2>2 DEF Traced
<1> QED
  BY <1>2, <1>3, <1>4, <1>5, <1>6

\* The invariant holds in every step.
LEMMA SubsStep == SubsInv /\ [NextSubs]_subVars => SubsInv'
<1> SUFFICES ASSUME SubsInv, [NextSubs]_subVars PROVE SubsInv'
  OBVIOUS
<1>1. ASSUME NEW p \in Plans, AdminBind(p) PROVE SubsInv'
  BY <1>1, CreateKeeps DEF AdminBind
<1>2. ASSUME NEW i \in Ids, AdminInvalidate(i) \/ AdminDelete(i) PROVE SubsInv'
  BY <1>2, EndKeeps
<1> QED
  BY <1>1, <1>2, SweepKeeps, TimeKeeps DEF NextSubs

\* The invariant gives what is promised.
LEMMA SubsImplies == SubsInv => SubsTypeOK /\ KeptWhileActive /\ LoneUpgradeReverts
<1> SUFFICES ASSUME SubsInv PROVE LoneUpgradeReverts
  BY DEF SubsInv
<1> QED
  BY DEF SubsInv, Traced, FromBase, Latest, LoneUpgradeReverts

\* The subscriptions of a user alone keep the invariant.
THEOREM SubsInvariant == SubsSpec => []SubsInv
<1> QED
  BY SubsInit, SubsStep, PTL DEF SubsSpec
=============================================================================
