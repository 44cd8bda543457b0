-------------------------- MODULE ChatLimiterProofs --------------------------
(***************************************************************************)
(* Proofs about Layer 2 of the rate limiter, for any number of requests     *)
(* that are open at once, any limits and any length of an hour and a day.   *)
(***************************************************************************)
EXTENDS ChatLimiter, FiniteSetTheorems, WellFoundedInduction, TLAPS

USE DEF Phase, Waiting

-----------------------------------------------------------------------------
(* Clock hours and days                                                     *)

\* A clock time lies in a period that is not later than the time itself, and periods
\* follow one another as times do.
LEMMA Division ==
  ASSUME NEW p \in Nat \ {0}, NEW a \in Nat
  PROVE  /\ a \div p \in Nat /\ a % p \in Nat
         /\ a = (p * (a \div p)) + (a % p) /\ a % p < p
OBVIOUS

\* The number of a period is no greater than the time.
LEMMA PeriodBelow ==
  ASSUME NEW p \in Nat \ {0}, NEW a \in Nat
  PROVE  a \div p \in 0..a
<1>1. a \div p \in Nat /\ a = (p * (a \div p)) + (a % p) /\ a % p \in Nat
  BY Division
<1>2. \A q \in Nat : p * q >= q
  OBVIOUS
<1> QED
  BY <1>1, <1>2

\* Later times are in later periods, and those a period apart in different ones.
LEMMA PeriodsOrdered ==
  ASSUME NEW p \in Nat \ {0}, NEW a \in Nat, NEW b \in Nat
  PROVE  /\ a <= b => a \div p <= b \div p
         /\ a + p <= b => a \div p # b \div p
<1> DEFINE q == a \div p
           s == b \div p
<1>1. q \in Nat /\ s \in Nat /\ a = (p * q) + (a % p) /\ b = (p * s) + (b % p)
      /\ a % p \in 0..(p - 1) /\ b % p \in 0..(p - 1)
  BY Division
<1> HIDE DEF q, s
<1>2. ASSUME a <= b, q > s PROVE FALSE
  <2>1. p * (q - s - 1) >= 0
    BY <1>1, <1>2
  <2>2. p * (q - s - 1) = p * q - p * s - p
    BY <1>1
  <2> QED
    BY <1>1, <1>2, <2>1, <2>2
<1>3. ASSUME a + p <= b, q = s PROVE FALSE
  BY <1>1, <1>3
<1> QED
  BY <1>1, <1>2, <1>3 DEF q, s

\* The suffixes of the keys are times.
LEMMA KeysInRange ==
  ASSUME NEW t \in Times
  PROVE  HourOf(t) \in Times /\ DayOf(t) \in Times
BY PeriodBelow, PeriodsPositive, TimeNatural DEF HourOf, DayOf, Times

\* Dates follow each other.
LEMMA DaysOrdered ==
  ASSUME NEW a \in Nat, NEW b \in Nat, a <= b
  PROVE  DayOf(a) \in Nat /\ DayOf(b) \in Nat /\ DayOf(a) <= DayOf(b)
BY PeriodsOrdered, PeriodBelow, PeriodsPositive DEF DayOf

-----------------------------------------------------------------------------
(* Types                                                                    *)

\* Every nonempty set of entries has an oldest one, which ZRANGE key 0 0 returns.
LEMMA SomeOldest ==
  ASSUME NEW S \in SUBSET Members, S # {}, score \in [Members -> Nat]
  PROVE  \E m \in S : \A n \in S : score[m] <= score[n]
<1> DEFINE T == {score[m] : m \in S}
<1>1. T \subseteq Nat /\ T # {}
  OBVIOUS
<1>2. PICK x \in T : \A y \in T : ~ (<<y, x>> \in OpToRel(<, Nat))
  BY <1>1, NatLessThanWellFounded, WFMin, Zenon
<1>3. ASSUME NEW y \in T, y < x PROVE FALSE
  <2>1. <<y, x>> \in Nat \X Nat /\ <<y, x>>[1] < <<y, x>>[2]
    BY <1>1, <1>3
  <2>2. <<y, x>> \in OpToRel(<, Nat)
    BY <2>1 DEF OpToRel
  <2> QED
    BY <1>2, <2>2, Zenon
<1>4. \A y \in T : x <= y
  BY <1>1, <1>3
<1> QED
  BY <1>4

\* Whatever the reason of a denial, retry_after is a number.
LEMMA RetryNatural ==
  ASSUME TypeOK, NEW r \in Requests
  PROVE  RetryAfter(r) \in Nat
<1>1. UntilFree(now[r]) \in Nat
  <2>1. CASE hourSet = {}
    BY <2>1, PeriodsPositive DEF UntilFree
  <2>2. CASE hourSet # {}
    <3> DEFINE oldest == CHOOSE m \in hourSet : \A n \in hourSet : score[m] <= score[n]
    <3>0. score \in [Members -> Nat] /\ hourSet \in SUBSET Members
      BY TimeNatural DEF TypeOK, Times
    <3>1. oldest \in hourSet
      BY <2>2, <3>0, SomeOldest, Zenon
    <3>2. score[oldest] \in Nat /\ now[r] \in Nat
      BY <3>1 DEF TypeOK, Times
    <3> HIDE DEF oldest
    <3> QED
      BY <2>2, <3>2, PeriodsPositive DEF UntilFree, oldest
  <2> QED
    BY <2>1, <2>2
<1>2. clock \in Nat
  BY DEF TypeOK, Times
<1>3. Hour - (clock % Hour) \in Nat /\ Day - (clock % Day) \in Nat
  BY <1>2, Division, PeriodsPositive
<1> QED
  BY <1>1, <1>3 DEF RetryAfter

\* The keys and the locals of every request keep their types, whatever the interleaving.
THEOREM TypeCorrect == Spec => []TypeOK
<1>1. Init => TypeOK
  <2>1. Init => overlapped \in BOOLEAN
    BY DEF Init
  <2> QED
    BY <2>1, TimeNatural DEF Init, TypeOK, Times, Reasons
<1>2. TypeOK /\ [Next]_vars => TypeOK'
  <2> SUFFICES ASSUME TypeOK, [Next]_vars PROVE TypeOK'
    OBVIOUS
  <2> USE DEF TypeOK, To
  <2>k. \A r \in Requests : HourOf(now[r]) \in Times /\ DayOf(now[r]) \in Times
    BY KeysInRange
  <2>t. Times \subseteq Nat /\ 0 \in Times
    BY TimeNatural DEF Times
  <2>l. \A r \in Requests :
          Leave(r) => /\ pc' \in [Requests -> Phase] /\ now' \in [Requests -> Times]
                      /\ full' \in [Requests -> SUBSET Reasons]
                      /\ member' \in [Requests -> Members \union {NoMember}]
                      /\ \A s \in Requests : pc'[s] = "log" => member'[s] \in Members
                      /\ tokens' \in [Requests -> Nat]
                      /\ retries' \in [Requests -> 0..MaxRetries]
                      /\ retry' \in [Requests -> Nat]
    BY <2>t, TimeNatural DEF Leave
  <2>1. ASSUME NEW r \in Requests, Call(r) PROVE TypeOK'
    BY <2>1 DEF Call, store
  <2>2. ASSUME NEW r \in Requests, ReadRequests(r) PROVE TypeOK'
    BY <2>2, <2>k DEF ReadRequests, Prune, Reasons, history
  <2>3. ASSUME NEW r \in Requests, ReadTokens(r) PROVE TypeOK'
    BY <2>3 DEF ReadTokens, Reasons, store, history
  <2>4. ASSUME NEW r \in Requests, Admit(r) PROVE TypeOK'
    BY <2>4, <2>t DEF Admit, store, history
  <2>5. ASSUME NEW r \in Requests, Deny(r) PROVE TypeOK'
    BY <2>5, RetryNatural DEF Deny, store, history
  <2>6. ASSUME NEW r \in Requests, Refuse(r) PROVE TypeOK'
    BY <2>6, <2>l DEF Refuse, store, history
  <2>7. ASSUME NEW r \in Requests, Finish(r) PROVE TypeOK'
    BY <2>7, TokensNatural DEF Finish, store, history
  <2>8. ASSUME NEW r \in Requests, End(r) PROVE TypeOK'
    BY <2>8, <2>l DEF End, store, history
  <2>9. ASSUME NEW r \in Requests, Log(r) PROVE TypeOK'
    <3> DEFINE h == HourOf(now[r])
               d == DayOf(now[r])
    <3>1. h \in Times /\ d \in Times /\ member[r] \in Members /\ tokens[r] \in Nat
      BY <2>9, <2>k DEF Log
    <3>2. HourExpiry \in Nat
      BY <2>t, PeriodsPositive, TimeNatural DEF HourExpiry
    <3> HIDE DEF h, d
    <3>3. /\ hourSet' = hourSet \union {member[r]} /\ hourExp' = HourExpiry
          /\ daySet' = [daySet EXCEPT ![d] = @ \union {member[r]}]
          /\ hourTokens' = [hourTokens EXCEPT ![h] = @ + tokens[r]]
          /\ dayTokens' = [dayTokens EXCEPT ![d] = @ + tokens[r]]
          /\ score' = [score EXCEPT ![member[r]] = now[r]]
          /\ recorded' = recorded \union {member[r]}
          /\ used' = IF member[r] \in recorded THEN used ELSE [used EXCEPT ![h] = @ + tokens[r]]
          /\ UNCHANGED <<clock, overlapped>>
      BY <2>9 DEF Log, Increment, h, d
    <3>4. /\ hourSet' \subseteq Members /\ hourExp' \in Nat
          /\ daySet' \in [Times -> SUBSET Members] /\ hourTokens' \in [Times -> Nat]
          /\ dayTokens' \in [Times -> Nat] /\ score' \in [Members -> Times]
          /\ recorded' \subseteq Members /\ used' \in [Times -> Nat]
          /\ clock' \in Times /\ overlapped' \in BOOLEAN
      BY <3>1, <3>2, <3>3
    <3>5. CASE Leave(r)
      BY <2>l, <3>4, <3>5
    <3>6. CASE /\ retries[r] < MaxRetries /\ retries' = [retries EXCEPT ![r] = @ + 1]
               /\ UNCHANGED <<pc, now, full, member, tokens, retry>>
      BY <3>4, <3>6, TimeNatural
    <3> QED
      BY <2>9, <3>5, <3>6 DEF Log
  <2>10. ASSUME NEW r \in Requests, Fail(r) PROVE TypeOK'
    BY <2>10, <2>l DEF Fail, store, history
  <2>11. ASSUME NEW r \in Requests, CallUsage(r) PROVE TypeOK'
    BY <2>11 DEF CallUsage, store
  <2>12. ASSUME NEW r \in Requests, GetUsage(r) PROVE TypeOK'
    BY <2>12, <2>k, <2>l DEF GetUsage, Prune, history
  <2>13. CASE Reset
    BY <2>13, <2>t DEF Reset, locals
  <2>14. CASE Tick
    BY <2>14, TimeNatural DEF Tick, locals, history, Times
  <2>15. CASE UNCHANGED vars
    BY <2>15 DEF vars, store, locals, history
  <2> QED
    BY <2>1, <2>2, <2>3, <2>4, <2>5, <2>6, <2>7, <2>8, <2>9, <2>10, <2>11, <2>12, <2>13,
       <2>14, <2>15 DEF Next
<1> QED
  BY <1>1, <1>2, PTL DEF Spec

-----------------------------------------------------------------------------
(* The bound on parallel turns                                              *)

\* A request that may still add an entry takes a slot: its member once it has one, itself
\* until then.
Slot(r) == IF pc[r] = "log" THEN member[r] ELSE r
Slots(P) == {Slot(r) : r \in P}

Admitted(r, reason) ==
    \/ pc[r] = "running"
    \/ pc[r] \in {"tokens", "decide"} /\ reason \notin full[r]

\* Requests that may still add to the sliding hour, to the set of date d: the latter are
\* the running ones, if d is today, and those that looked at another date or are about to.
MayAddHour == {r \in Requests : pc[r] = "log" \/ Admitted(r, "requests_hour")}
MayAddDay(d) ==
    {r \in Requests :
        \/ pc[r] = "log" /\ DayOf(now[r]) = d
        \/ /\ d = DayOf(clock)
           /\ \/ Admitted(r, "requests_day")
              \/ pc[r] = "requests" /\ DayOf(now[r]) # d}

\* Why the bound is inductive: what is stored and what may yet be stored are together
\* within it from the moment a request is admitted.
HourBudget == Cardinality(hourSet \union Slots(MayAddHour)) <= RequestsPerHour + Overshoot
DayBudget ==
    \A d \in Times : Cardinality(daySet[d] \union Slots(MayAddDay(d))) <= RequestsPerDay + Overshoot

\* No date of the future has entries, and no time read is in the future.
ClocksBehind ==
    /\ \A r \in Requests : now[r] <= clock
    /\ \A m \in recorded : score[m] <= clock
FutureEmpty == \A d \in Times : d > DayOf(clock) => daySet[d] = {}

\* Requests occupy one slot each.
LEMMA SlotsFew ==
  ASSUME NEW P \in SUBSET Requests
  PROVE  IsFiniteSet(Slots(P)) /\ Cardinality(Slots(P)) <= Cardinality(Requests)
<1> DEFINE f == [r \in P |-> Slot(r)]
           Q == Slots(P)
<1>1. f \in Surjection(P, Q)
  BY DEF Surjection, Slots
<1>2. IsFiniteSet(P) /\ Cardinality(P) <= Cardinality(Requests)
  BY RequestsFinite, FS_Subset
<1>3. IsFiniteSet(Q) /\ Cardinality(Q) <= Cardinality(P)
  BY <1>1, <1>2, FS_Surjection
<1> HIDE DEF Q
<1>4. Cardinality(P) \in Nat /\ Cardinality(Q) \in Nat /\ Cardinality(Requests) \in Nat
  BY <1>2, <1>3, RequestsFinite, FS_CardinalityType
<1> QED
  BY <1>2, <1>3, <1>4 DEF Q

\* An admission leaves room for every request: the set is below its limit, and each request
\* takes at most one slot.
LEMMA AdmissionFits ==
  ASSUME NEW S, IsFiniteSet(S), NEW limit \in Nat \ {0}, Cardinality(S) < limit,
         NEW P \in SUBSET Requests
  PROVE  Cardinality(S \union Slots(P)) <= limit + Overshoot
<1> DEFINE Q == Slots(P)
<1>1. IsFiniteSet(Q) /\ Cardinality(Q) <= Cardinality(Requests)
  BY SlotsFew
<1> HIDE DEF Q
<1>2. Cardinality(S \union Q) = Cardinality(S) + Cardinality(Q) - Cardinality(S \cap Q)
  BY <1>1, FS_Union
<1>3. /\ Cardinality(S) \in Nat /\ Cardinality(Q) \in Nat
      /\ Cardinality(S \cap Q) \in Nat /\ Cardinality(Requests) \in Nat
  BY <1>1, RequestsFinite, FS_Intersection, FS_CardinalityType
<1> QED
  BY <1>1, <1>2, <1>3 DEF Overshoot, Q

\* A smaller set, or one in which an element is exchanged for another, keeps the bound.
LEMMA SmallerFits ==
  ASSUME NEW S, IsFiniteSet(S), NEW b \in Int, Cardinality(S) <= b
  PROVE  /\ \A T \in SUBSET S : Cardinality(T) <= b
         /\ \A x \in S : \A y : \A T \in SUBSET ((S \ {x}) \union {y}) : Cardinality(T) <= b
<1>1. ASSUME NEW R, IsFiniteSet(R), Cardinality(R) <= b, NEW T \in SUBSET R
      PROVE  Cardinality(T) <= b
  <2>1. IsFiniteSet(T) /\ Cardinality(T) <= Cardinality(R)
    BY <1>1, FS_Subset
  <2> QED
    BY <1>1, <2>1, FS_CardinalityType
<1>2. ASSUME NEW x \in S, NEW y PROVE /\ IsFiniteSet((S \ {x}) \union {y})
                                       /\ Cardinality((S \ {x}) \union {y}) <= b
  <2> DEFINE R == S \ {x}
  <2>1. IsFiniteSet(R) /\ Cardinality(R) = Cardinality(S) - 1
    BY FS_RemoveElement
  <2> HIDE DEF R
  <2>2. /\ IsFiniteSet(R \union {y})
        /\ Cardinality(R \union {y}) = IF y \in R THEN Cardinality(R) ELSE Cardinality(R) + 1
    BY <2>1, FS_AddElement
  <2>3. Cardinality(R) \in Nat /\ Cardinality(S) \in Nat
    BY <2>1, FS_CardinalityType
  <2> QED
    BY <2>1, <2>2, <2>3 DEF R
<1> QED
  BY <1>1, <1>2

LEMMA BoundsNatural ==
  RequestsPerHour + Overshoot \in Nat /\ RequestsPerDay + Overshoot \in Nat
<1>1. Cardinality(Requests) \in Nat /\ Cardinality(Requests) # 0
  BY RequestsFinite, FS_CardinalityType, FS_EmptySet
<1> QED
  BY <1>1, LimitsPositive DEF Overshoot

\* What is stored and what may yet be stored together.
HourLoad == hourSet \union Slots(MayAddHour)

\* What the hour has and may yet get is finite.
LEMMA HourLoadFinite ==
  ASSUME TypeOK
  PROVE  IsFiniteSet(HourLoad) /\ IsFiniteSet(hourSet)
<1>1. IsFiniteSet(hourSet)
  BY MembersFinite, FS_Subset, hourSet \in SUBSET Members DEF TypeOK
<1>2. IsFiniteSet(Slots(MayAddHour))
  BY SlotsFew, MayAddHour \in SUBSET Requests DEF MayAddHour
<1> QED
  BY <1>1, <1>2, FS_Union DEF HourLoad

\* Every step keeps any bound on them, except the check that finds the limit not reached.
LEMMA HourStep ==
  ASSUME TypeOK, [Next]_vars, NEW b \in Nat, Cardinality(HourLoad) <= b
  PROVE  \/ Cardinality(HourLoad') <= b
         \/ \E r \in Requests : ReadRequests(r) /\ "requests_hour" \notin full'[r]
<1> DEFINE X == hourSet \union Slots(MayAddHour)
           Shrinks == X' \subseteq X
           Goal == \/ Cardinality(HourLoad') <= b
                   \/ \E r \in Requests : ReadRequests(r) /\ "requests_hour" \notin full'[r]
<1>1. IsFiniteSet(X) /\ IsFiniteSet(hourSet) /\ Cardinality(X) <= b
  BY HourLoadFinite DEF HourLoad
<1>2. ASSUME Shrinks PROVE Goal
  <2> HIDE DEF X
  <2>1. Cardinality(X') <= b
    BY <1>1, <1>2, SmallerFits, X' \in SUBSET X
  <2> QED
    BY <2>1 DEF HourLoad, X
<1>3. [Next]_vars => Goal
  <2> USE DEF TypeOK, To, MayAddHour, Admitted, Slots, Slot
  <2>1. ASSUME NEW r \in Requests, ReadRequests(r) PROVE Goal
    <3>1. CASE "requests_hour" \in full'[r]
      <4>1. Shrinks
        BY <2>1, <3>1 DEF ReadRequests, Prune, history
      <4> QED
        BY <4>1, <1>2
    <3> QED
      BY <2>1, <3>1
  <2>2. ASSUME NEW r \in Requests, Finish(r) PROVE Goal
    <3>1. r \in X /\ X' \in SUBSET ((X \ {r}) \union {member'[r]})
      <4>1. r \in X
        BY <2>2 DEF Finish
      <4>2. r \notin hourSet /\ \A q \in Requests \ {r} : Slot(q) # r
        BY MembersFinite, NoMemberOutside
      <4>3. ASSUME NEW x \in X' PROVE x \in (X \ {r}) \union {member'[r]}
        BY <2>2, <4>2 DEF Finish, store
      <4> QED
        BY <4>1, <4>3
    <3> HIDE DEF X
    <3>2. \A y : \A T \in SUBSET ((X \ {r}) \union {y}) : Cardinality(T) <= b
      BY <1>1, <3>1, SmallerFits, b \in Int, Zenon
    <3>3. Cardinality(X') <= b
      BY <3>1, <3>2, Zenon
    <3> QED
      BY <3>3 DEF HourLoad, X
  <2>3. ASSUME NEW r \in Requests, Call(r) PROVE Shrinks
    BY <2>3 DEF Call, store
  <2>4. ASSUME NEW r \in Requests, ReadTokens(r) PROVE Shrinks
    BY <2>4 DEF ReadTokens, store, history
  <2>5. ASSUME NEW r \in Requests, Admit(r) PROVE Shrinks
    BY <2>5 DEF Admit, store, history
  <2>6. ASSUME NEW r \in Requests, Deny(r) PROVE Shrinks
    BY <2>6 DEF Deny, store, history
  <2>7. ASSUME NEW r \in Requests, Refuse(r) PROVE Shrinks
    BY <2>7 DEF Refuse, Leave, store, history
  <2>8. ASSUME NEW r \in Requests, End(r) PROVE Shrinks
    BY <2>8 DEF End, Leave, store, history
  <2>9. ASSUME NEW r \in Requests, Log(r) PROVE Shrinks
    <3>1. hourSet' = hourSet \union {member[r]} /\ member[r] \in X
      BY <2>9 DEF Log
    <3>2. \A q \in Requests : q \in MayAddHour' => q \in MayAddHour /\ Slot(q)' = Slot(q)
      BY <2>9 DEF Log, Leave
    <3> QED
      BY <3>1, <3>2
  <2>10. ASSUME NEW r \in Requests, Fail(r) PROVE Shrinks
    BY <2>10 DEF Fail, Leave, store, history
  <2>11. ASSUME NEW r \in Requests, CallUsage(r) PROVE Shrinks
    BY <2>11 DEF CallUsage, store
  <2>12. ASSUME NEW r \in Requests, GetUsage(r) PROVE Shrinks
    BY <2>12 DEF GetUsage, Leave, Prune, history
  <2>13. ASSUME Reset PROVE Shrinks
    <3>1. Shrinks
      BY <2>13 DEF Reset, locals
    <3> QED BY <3>1
  <2>14. ASSUME Tick PROVE Shrinks
    <3>1. Shrinks
      BY <2>14 DEF Tick, locals
    <3> QED BY <3>1
  <2>15. ASSUME UNCHANGED vars PROVE Shrinks
    <3>1. Shrinks
      BY <2>15 DEF vars, store, locals, history
    <3> QED BY <3>1
  <2> HIDE DEF Shrinks, X, Goal
  <2> QED
    BY <1>2, <2>1, <2>2, <2>3, <2>4, <2>5, <2>6, <2>7, <2>8, <2>9, <2>10, <2>11, <2>12, <2>13, <2>14, <2>15 DEF Next, Goal
<1> QED
  BY <1>3

\* The check that finds the limit not reached leaves fewer entries than the limit.
LEMMA AdmittedBelow ==
  ASSUME TypeOK, NEW r \in Requests, ReadRequests(r), "requests_hour" \notin full'[r]
  PROVE  /\ IsFiniteSet(hourSet') /\ Cardinality(hourSet') \in Nat
         /\ Cardinality(hourSet') < RequestsPerHour
<1>1. hourSet' \in SUBSET hourSet
  BY DEF ReadRequests, Prune
<1>2. IsFiniteSet(hourSet') /\ Cardinality(hourSet') \in Nat
  BY <1>1, HourLoadFinite, FS_Subset, FS_CardinalityType
<1>3. ~ (Cardinality(hourSet') >= RequestsPerHour)
  BY DEF ReadRequests, Reached, TypeOK
<1> DEFINE n == Cardinality(hourSet')
<1> HIDE DEF n
<1>4. n < RequestsPerHour
  BY <1>2, <1>3, LimitsPositive DEF n
<1> QED
  BY <1>2, <1>4 DEF n

\* Every step keeps the budget of the sliding hour.
LEMMA HourBudgetKept ==
  ASSUME TypeOK, HourBudget, [Next]_vars
  PROVE  HourBudget'
<1>1. Cardinality(HourLoad) <= RequestsPerHour + Overshoot
  BY DEF HourBudget, HourLoad
<1> DEFINE b == RequestsPerHour + Overshoot
<1>2. b \in Nat
  BY BoundsNatural
<1>3. CASE \E r \in Requests : ReadRequests(r) /\ "requests_hour" \notin full'[r]
  <2>1. PICK r \in Requests : ReadRequests(r) /\ "requests_hour" \notin full'[r]
    BY <1>3
  <2>2. IsFiniteSet(hourSet') /\ Cardinality(hourSet') < RequestsPerHour
    BY <2>1, AdmittedBelow
  <2> DEFINE P == MayAddHour'
  <2>3. P \in SUBSET Requests
    BY DEF MayAddHour
  <2>4. Slots(MayAddHour)' = Slots(P)
    <3>1. \A q \in P : Slot(q)' = Slot(q)
      BY <2>1, <2>3 DEF ReadRequests, Slot, To, TypeOK
    <3> HIDE DEF P
    <3>2. Slots(MayAddHour)' = {Slot(q)' : q \in P}
      BY DEF Slots, P
    <3> QED
      BY <3>1, <3>2 DEF Slots
  <2> HIDE DEF P
  <2>5. Cardinality(hourSet' \union Slots(P)) <= RequestsPerHour + Overshoot
    BY <2>2, <2>3, LimitsPositive, AdmissionFits
  <2> QED
    BY <2>4, <2>5 DEF HourBudget, Overshoot
<1>4. CASE Cardinality(HourLoad') <= b
  BY <1>4 DEF HourBudget, HourLoad, Overshoot
<1> HIDE DEF b
<1>5. Cardinality(HourLoad') <= b \/ \E r \in Requests : ReadRequests(r) /\ "requests_hour" \notin full'[r]
  BY <1>1, <1>2, HourStep DEF b
<1> QED
  BY <1>3, <1>4, <1>5

\* Every step keeps the clocks behind, and the dates of the future without entries.
LEMMA ClocksKept ==
  ASSUME TypeOK, ClocksBehind, [Next]_vars
  PROVE  ClocksBehind'
<1> [Next]_vars => ClocksBehind'
  <2> USE DEF TypeOK, ClocksBehind, To, Times
  <2>1. ASSUME NEW r \in Requests, Call(r) PROVE ClocksBehind'
    BY <2>1 DEF Call, store
  <2>2. ASSUME NEW r \in Requests, ReadRequests(r) PROVE ClocksBehind'
    BY <2>2 DEF ReadRequests, Prune, history
  <2>3. ASSUME NEW r \in Requests, ReadTokens(r) PROVE ClocksBehind'
    BY <2>3 DEF ReadTokens, store, history
  <2>4. ASSUME NEW r \in Requests, Admit(r) PROVE ClocksBehind'
    BY <2>4 DEF Admit, store, history
  <2>5. ASSUME NEW r \in Requests, Deny(r) PROVE ClocksBehind'
    BY <2>5 DEF Deny, store, history
  <2>6. ASSUME NEW r \in Requests, Refuse(r) PROVE ClocksBehind'
    BY <2>6 DEF Refuse, Leave, store, history
  <2>7. ASSUME NEW r \in Requests, Finish(r) PROVE ClocksBehind'
    BY <2>7 DEF Finish, store, history
  <2>8. ASSUME NEW r \in Requests, End(r) PROVE ClocksBehind'
    BY <2>8 DEF End, Leave, store, history
  <2>9. ASSUME NEW r \in Requests, Log(r) PROVE ClocksBehind'
    <3>1. \A m \in recorded' : score'[m] <= clock'
      BY <2>9 DEF Log
    <3>2. clock' = clock /\ (now' = now \/ now' = [now EXCEPT ![r] = 0])
      BY <2>9 DEF Log, Leave
    <3>3. \A q \in Requests : now'[q] <= clock'
      <4>1. clock \in Nat
        BY TimeNatural
      <4>2. CASE now' = now
        BY <3>2, <4>2
      <4>3. CASE now' = [now EXCEPT ![r] = 0]
        BY <3>2, <4>1, <4>3
      <4> QED
        BY <3>2, <4>2, <4>3
    <3> QED
      BY <3>1, <3>3
  <2>10. ASSUME NEW r \in Requests, Fail(r) PROVE ClocksBehind'
    BY <2>10 DEF Fail, Leave, store, history
  <2>11. ASSUME NEW r \in Requests, CallUsage(r) PROVE ClocksBehind'
    BY <2>11 DEF CallUsage, store
  <2>12. ASSUME NEW r \in Requests, GetUsage(r) PROVE ClocksBehind'
    BY <2>12 DEF GetUsage, Leave, Prune, history
  <2>13. CASE Reset
    BY <2>13 DEF Reset, locals
  <2>14. CASE Tick
    BY <2>14 DEF Tick, locals, history
  <2>15. CASE UNCHANGED vars
    BY <2>15 DEF vars, store, locals, history
  <2> QED
    BY <2>1, <2>2, <2>3, <2>4, <2>5, <2>6, <2>7, <2>8, <2>9, <2>10, <2>11, <2>12, <2>13, <2>14, <2>15 DEF Next
<1> QED
  OBVIOUS

\* Nothing is stored under a date to come: a turn is recorded under the date it is finished on.
LEMMA FutureKept ==
  ASSUME TypeOK, ClocksBehind, FutureEmpty, [Next]_vars
  PROVE  FutureEmpty'
<1> [Next]_vars => FutureEmpty'
  <2> USE DEF TypeOK, FutureEmpty, To
  <2>1. ASSUME NEW r \in Requests, Call(r) PROVE FutureEmpty'
    BY <2>1 DEF Call, store
  <2>2. ASSUME NEW r \in Requests, ReadRequests(r) PROVE FutureEmpty'
    BY <2>2 DEF ReadRequests, Prune, history
  <2>3. ASSUME NEW r \in Requests, ReadTokens(r) PROVE FutureEmpty'
    BY <2>3 DEF ReadTokens, store, history
  <2>4. ASSUME NEW r \in Requests, Admit(r) PROVE FutureEmpty'
    BY <2>4 DEF Admit, store, history
  <2>5. ASSUME NEW r \in Requests, Deny(r) PROVE FutureEmpty'
    BY <2>5 DEF Deny, store, history
  <2>6. ASSUME NEW r \in Requests, Refuse(r) PROVE FutureEmpty'
    BY <2>6 DEF Refuse, Leave, store, history
  <2>7. ASSUME NEW r \in Requests, Finish(r) PROVE FutureEmpty'
    BY <2>7 DEF Finish, store, history
  <2>8. ASSUME NEW r \in Requests, End(r) PROVE FutureEmpty'
    BY <2>8 DEF End, Leave, store, history
  <2>9. ASSUME NEW r \in Requests, Fail(r) PROVE FutureEmpty'
    BY <2>9 DEF Fail, Leave, store, history
  <2>10. ASSUME NEW r \in Requests, CallUsage(r) PROVE FutureEmpty'
    BY <2>10 DEF CallUsage, store
  <2>11. ASSUME NEW r \in Requests, GetUsage(r) PROVE FutureEmpty'
    BY <2>11 DEF GetUsage, Leave, Prune, history
  <2>12. ASSUME NEW r \in Requests, Log(r) PROVE FutureEmpty'
    <3>1. now[r] \in Nat /\ clock \in Nat /\ now[r] <= clock
      BY TimeNatural DEF ClocksBehind, Times
    <3>2. DayOf(now[r]) <= DayOf(clock) /\ DayOf(now[r]) \in Nat /\ DayOf(clock) \in Nat
      BY <3>1, DaysOrdered
    <3>3. ASSUME NEW d \in Times, d > DayOf(clock) PROVE daySet'[d] = {}
      <4>1. d # DayOf(now[r])
        BY <3>2, <3>3, TimeNatural DEF Times
      <4> QED
        BY <2>12, <3>3, <4>1 DEF Log
    <3> QED
      BY <2>12, <3>3 DEF Log
  <2>13. CASE Reset
    BY <2>13 DEF Reset, locals
  <2>14. CASE Tick
    <3>1. clock \in Nat /\ clock' \in Nat /\ clock <= clock'
      BY <2>14, TimeNatural DEF Times, Tick
    <3>2. DayOf(clock) <= DayOf(clock') /\ DayOf(clock) \in Nat /\ DayOf(clock') \in Nat
      BY <3>1, DaysOrdered
    <3>3. ASSUME NEW d \in Times, d > DayOf(clock') PROVE daySet'[d] = {}
      <4>1. d > DayOf(clock)
        BY <3>2, <3>3, TimeNatural DEF Times
      <4> QED
        BY <2>14, <4>1 DEF Tick
    <3> QED
      BY <3>3
  <2>15. CASE UNCHANGED vars
    BY <2>15 DEF vars, store, locals, history
  <2> QED
    BY <2>1, <2>2, <2>3, <2>4, <2>5, <2>6, <2>7, <2>8, <2>9, <2>10, <2>11, <2>12, <2>13, <2>14, <2>15 DEF Next
<1> QED
  OBVIOUS

\* Every step keeps the budget of every date.
LEMMA DayBudgetKept ==
  ASSUME TypeOK, TypeOK', FutureEmpty, DayBudget, [Next]_vars, NEW d \in Times
  PROVE  Cardinality(daySet'[d] \union Slots(MayAddDay(d))') <= RequestsPerDay + Overshoot
<1> DEFINE Y(e) == daySet[e] \union Slots(MayAddDay(e))
           Goal == Cardinality(Y(d)') <= RequestsPerDay + Overshoot
<1>1. IsFiniteSet(Y(d)) /\ IsFiniteSet(daySet[d])
  <2>1. IsFiniteSet(daySet[d])
    BY MembersFinite, FS_Subset, daySet[d] \in SUBSET Members DEF TypeOK
  <2>2. IsFiniteSet(Slots(MayAddDay(d)))
    BY SlotsFew, MayAddDay(d) \in SUBSET Requests DEF MayAddDay
  <2> QED
    BY <2>1, <2>2, FS_Union
<1>b. Cardinality(Y(d)) <= RequestsPerDay + Overshoot
  BY DEF DayBudget
<1>2. ASSUME Y(d)' \subseteq Y(d) PROVE Goal
  <2>1. Y(d)' \in SUBSET Y(d)
    BY <1>2
  <2> HIDE DEF Y
  <2> QED
    BY <1>1, <1>2, <1>b, <2>1, SmallerFits, BoundsNatural
<1>3. [Next]_vars => Goal
  <2> USE DEF TypeOK, To, MayAddDay, Admitted, Slots, Slot
  <2>1. ASSUME NEW r \in Requests, ReadRequests(r) PROVE Goal
    <3>1. CASE DayOf(now[r]) # d \/ "requests_day" \in full'[r] \/ d # DayOf(clock)
      <4>1. daySet'[d] \subseteq daySet[d] /\ \A q \in Requests : Slot(q)' = Slot(q)
        BY <2>1 DEF ReadRequests, Prune
      <4>2. \A q \in Requests \ {r} : q \in MayAddDay(d)' => q \in MayAddDay(d)
        BY <2>1 DEF ReadRequests
      <4>3. r \in MayAddDay(d)' => r \in MayAddDay(d)
        BY <2>1, <3>1 DEF ReadRequests
      <4>4. Slots(MayAddDay(d))' \subseteq Slots(MayAddDay(d))
        <5> HIDE DEF Slot, MayAddDay
        <5>1. MayAddDay(d)' \subseteq MayAddDay(d) /\ MayAddDay(d)' \subseteq Requests
          <6>1. MayAddDay(d)' \subseteq Requests
            BY DEF MayAddDay
          <6> QED
            BY <4>2, <4>3, <6>1
        <5> QED
          BY <4>1, <5>1
      <4>5. Y(d)' \subseteq Y(d)
        <5> HIDE DEF Slots, MayAddDay
        <5> QED
          BY <4>1, <4>4
      <4> QED
        BY <4>5, <1>2
    <3>2. CASE "requests_day" \notin full'[r] /\ DayOf(now[r]) = d
      <4>1. daySet'[d] \in SUBSET daySet[d]
        BY <2>1 DEF ReadRequests, Prune
      <4>2. IsFiniteSet(daySet'[d])
        BY <1>1, <4>1, FS_Subset
      <4>3. ~ (Cardinality(daySet'[d]) >= RequestsPerDay)
        BY <2>1, <3>2 DEF ReadRequests, Reached
      <4> DEFINE n == Cardinality(daySet'[d])
      <4>c. n \in Nat /\ RequestsPerDay \in Nat
        BY <4>2, FS_CardinalityType, LimitsPositive
      <4> HIDE DEF n
      <4>4. Cardinality(daySet'[d]) < RequestsPerDay
        BY <4>3, <4>c DEF n
      <4> DEFINE P == MayAddDay(d)'
      <4>5. P \in SUBSET Requests
        OBVIOUS
      <4>6. Slots(MayAddDay(d))' = Slots(P)
        <5>1. \A q \in P : Slot(q)' = Slot(q)
          BY <2>1 DEF ReadRequests
        <5> QED
          BY <5>1
      <4> HIDE DEF P, Slots
      <4>7. Cardinality(daySet'[d] \union Slots(P)) <= RequestsPerDay + Overshoot
        BY <4>2, <4>4, <4>5, LimitsPositive, AdmissionFits
      <4> QED
        BY <4>6, <4>7
    <3> QED
      BY <3>1, <3>2
  <2>2. ASSUME NEW r \in Requests, Finish(r) PROVE Goal
    <3>1. CASE d # DayOf(clock)
      <4>1. Y(d)' \subseteq Y(d)
        BY <2>2, <3>1 DEF Finish, store, history
      <4> QED
        BY <4>1, <1>2
    <3>2. CASE d = DayOf(clock)
      <4>1. r \in Y(d) /\ Y(d)' \in SUBSET ((Y(d) \ {r}) \union {member'[r]})
        <5>1. r \in Y(d)
          BY <2>2, <3>2 DEF Finish
        <5>2. r \notin daySet[d] /\ \A q \in Requests \ {r} : Slot(q) # r
          BY MembersFinite, NoMemberOutside
        <5>3. ASSUME NEW x \in Y(d)' PROVE x \in (Y(d) \ {r}) \union {member'[r]}
          BY <2>2, <3>2, <5>2 DEF Finish, store
        <5> QED
          BY <5>1, <5>3
      <4> HIDE DEF Y
      <4> DEFINE b == RequestsPerDay + Overshoot
      <4>2. b \in Int
        BY BoundsNatural
      <4>3. Cardinality(Y(d)) <= b
        BY <1>b
      <4> HIDE DEF b
      <4>4. \A y : \A T \in SUBSET ((Y(d) \ {r}) \union {y}) : Cardinality(T) <= b
        BY <1>1, <4>1, <4>2, <4>3, SmallerFits, Zenon
      <4> QED
        BY <4>1, <4>4, Zenon DEF b
    <3> QED
      BY <3>1, <3>2
  <2>3. ASSUME NEW r \in Requests, Call(r) PROVE Y(d)' \subseteq Y(d)
    BY <2>3 DEF Call, store
  <2>4. ASSUME NEW r \in Requests, ReadTokens(r) PROVE Y(d)' \subseteq Y(d)
    BY <2>4 DEF ReadTokens, store, history
  <2>5. ASSUME NEW r \in Requests, Admit(r) PROVE Y(d)' \subseteq Y(d)
    BY <2>5 DEF Admit, store, history
  <2>6. ASSUME NEW r \in Requests, Deny(r) PROVE Y(d)' \subseteq Y(d)
    BY <2>6 DEF Deny, store, history
  <2>7. ASSUME NEW r \in Requests, Refuse(r) PROVE Y(d)' \subseteq Y(d)
    BY <2>7 DEF Refuse, Leave, store, history
  <2>8. ASSUME NEW r \in Requests, End(r) PROVE Y(d)' \subseteq Y(d)
    BY <2>8 DEF End, Leave, store, history
  <2>9. ASSUME NEW r \in Requests, Log(r) PROVE Y(d)' \subseteq Y(d)
    BY <2>9 DEF Log, Leave
  <2>10. ASSUME NEW r \in Requests, Fail(r) PROVE Y(d)' \subseteq Y(d)
    BY <2>10 DEF Fail, Leave, store, history
  <2>11. ASSUME NEW r \in Requests, CallUsage(r) PROVE Y(d)' \subseteq Y(d)
    BY <2>11 DEF CallUsage, store
  <2>12. ASSUME NEW r \in Requests, GetUsage(r) PROVE Y(d)' \subseteq Y(d)
    BY <2>12 DEF GetUsage, Leave, Prune, history
  <2>14. CASE Tick
    <3>1. CASE d = DayOf(clock') /\ d # DayOf(clock)
      <4>0. clock \in Nat /\ clock' \in Nat /\ clock <= clock'
        BY <2>14, TimeNatural DEF Times, Tick
      <4>1. DayOf(clock) <= DayOf(clock') /\ DayOf(clock) \in Nat /\ DayOf(clock') \in Nat
        BY <4>0, DaysOrdered
      <4>2. daySet'[d] = {}
        BY <2>14, <3>1, <4>1 DEF Tick, FutureEmpty
      <4> DEFINE P == MayAddDay(d)'
      <4>3. P \in SUBSET Requests /\ Slots(MayAddDay(d))' = Slots(P)
        BY <2>14 DEF Tick, locals
      <4> HIDE DEF P, Slots
      <4>4. Cardinality({}) < RequestsPerDay
        BY FS_EmptySet, LimitsPositive
      <4>5. Cardinality({} \union Slots(P)) <= RequestsPerDay + Overshoot
        BY <4>3, <4>4, FS_EmptySet, LimitsPositive, AdmissionFits
      <4> QED
        BY <4>2, <4>3, <4>5
    <3>2. CASE ~ (d = DayOf(clock') /\ d # DayOf(clock))
      <4>1. Y(d)' \subseteq Y(d)
        BY <2>14, <3>2 DEF Tick, locals, history
      <4> QED
        BY <4>1, <1>2
    <3> QED
      BY <3>1, <3>2
  <2>15. CASE UNCHANGED vars
    <3>1. Y(d)' = Y(d)
      BY <2>15 DEF vars, store, locals, history
    <3> QED BY <3>1, <1>2
  <2>r. CASE Reset
    <3>1. Y(d)' \subseteq Y(d)
      BY <2>r DEF Reset, locals
    <3> QED BY <3>1, <1>2
  <2> HIDE DEF Y, Goal
  <2> QED
    BY <1>2, <2>1, <2>2, <2>3, <2>4, <2>5, <2>6, <2>7, <2>8, <2>9, <2>10, <2>11, <2>12, <2>14, <2>15, <2>r DEF Next, Goal
<1> QED
  BY <1>3

\* However many turns a user opens at once, the entries of the last hour and of a date
\* exceed their limits by at most one for every request but one.
THEOREM TurnsBound == Spec => []TurnsBounded
<1> DEFINE IInv == ClocksBehind /\ FutureEmpty /\ HourBudget /\ DayBudget
<1>1. Init => IInv
  <2> SUFFICES ASSUME Init PROVE IInv
    OBVIOUS
  <2>1. ClocksBehind /\ FutureEmpty
    BY DEF Init, ClocksBehind, FutureEmpty
  <2>2. hourSet \union Slots(MayAddHour) = {}
    BY DEF Init, Slots, MayAddHour, Admitted
  <2>3. \A d \in Times : daySet[d] \union Slots(MayAddDay(d)) = {}
    BY DEF Init, Slots, MayAddDay, Admitted
  <2>4. Cardinality({}) <= RequestsPerHour + Overshoot /\ Cardinality({}) <= RequestsPerDay + Overshoot
    BY BoundsNatural, FS_EmptySet
  <2> QED
    BY <2>1, <2>2, <2>3, <2>4 DEF HourBudget, DayBudget
<1>2. TypeOK /\ TypeOK' /\ IInv /\ [Next]_vars => IInv'
  <2> SUFFICES ASSUME TypeOK, TypeOK', IInv, [Next]_vars PROVE IInv'
    OBVIOUS
  <2>1. ClocksBehind' /\ FutureEmpty' /\ HourBudget'
    BY ClocksKept, FutureKept, HourBudgetKept
  <2>2. DayBudget'
    <3>1. \A d \in Times :
            Cardinality(daySet'[d] \union Slots(MayAddDay(d))') <= RequestsPerDay + Overshoot
      BY DayBudgetKept
    <3> QED
      BY <3>1 DEF DayBudget, Overshoot
  <2> QED
    BY <2>1, <2>2
<1>3. TypeOK /\ IInv => TurnsBounded
  <2> SUFFICES ASSUME TypeOK, IInv PROVE TurnsBounded
    OBVIOUS
  <2>1. ASSUME NEW S \in SUBSET Members, NEW P \in SUBSET Requests, NEW b \in Nat,
               Cardinality(S \union Slots(P)) <= b
        PROVE  Cardinality(S) <= b
    <3>1. IsFiniteSet(S \union Slots(P))
      BY MembersFinite, FS_Subset, SlotsFew, FS_Union
    <3> QED
      BY <2>1, <3>1, SmallerFits, S \in SUBSET (S \union Slots(P))
  <2>2. Cardinality(hourSet) <= RequestsPerHour + Overshoot
    BY <2>1, BoundsNatural, MayAddHour \in SUBSET Requests DEF HourBudget, MayAddHour, TypeOK
  <2>3. ASSUME NEW d \in Times PROVE Cardinality(daySet[d]) <= RequestsPerDay + Overshoot
    <3>1. MayAddDay(d) \in SUBSET Requests /\ daySet[d] \in SUBSET Members
      BY DEF MayAddDay, TypeOK
    <3> QED
      BY <2>1, <3>1, BoundsNatural DEF DayBudget
  <2> QED
    BY <2>2, <2>3 DEF TurnsBounded
<1> QED
  BY <1>1, <1>2, <1>3, TypeCorrect, PTL DEF Spec

-----------------------------------------------------------------------------
(* What is recorded is counted                                              *)

\* The key of the sliding hour outlives the hour of every entry it may hold.
ExpiryCovers == \A m \in recorded : score[m] + Hour <= hourExp

\* A recorded turn stays in the set of its own date.
CountedOnItsDate == \A m \in recorded : m \in daySet[DayOf(score[m])]

\* Pruning with a late clock drops nothing of the same date.
LEMMA PruneKeepsDate ==
  ASSUME TypeOK, ClocksBehind, CountedOnItsDate, NEW r \in Requests, NEW m \in recorded
  PROVE  m \in [daySet EXCEPT ![DayOf(now[r])] =
                  Prune(daySet[DayOf(now[r])], now[r] - Day)][DayOf(score[m])]
<1>t. m \in Members /\ now[r] \in Times /\ score[m] \in Times
  BY DEF TypeOK
<1>k. DayOf(now[r]) \in Times /\ DayOf(score[m]) \in Times
  BY <1>t, KeysInRange
<1>d. m \in daySet[DayOf(score[m])]
  BY Zenon DEF CountedOnItsDate
<1>1. /\ now[r] \in Times /\ score[m] \in Times /\ now[r] \in Nat /\ score[m] \in Nat
      /\ DayOf(now[r]) \in Times /\ DayOf(score[m]) \in Times /\ m \in daySet[DayOf(score[m])]
  BY <1>t, <1>k, <1>d, TimeNatural DEF Times
<1>2. CASE DayOf(now[r]) = DayOf(score[m])
  <2>1. ~ (score[m] + Day <= now[r])
    BY <1>1, <1>2, PeriodsOrdered, PeriodsPositive DEF DayOf
  <2>2. score[m] > now[r] - Day
    BY <1>1, <2>1, PeriodsPositive
  <2> QED
    BY <1>1, <1>2, <2>2 DEF Prune, TypeOK
<1>3. CASE DayOf(now[r]) # DayOf(score[m])
  BY <1>1, <1>3 DEF TypeOK
<1> QED
  BY <1>2, <1>3

\* A turn recorded within the last hour, or today, is in the set that the next check
\* counts: no pruning, late or not, and no expiry loses it.
THEOREM RecentCounted == Spec => []RecentTurnsCounted
<1> DEFINE IInv == /\ \A m \in recorded : score[m] > clock - Hour => m \in hourSet
                   /\ ExpiryCovers /\ CountedOnItsDate
<1>1. Init => IInv
  BY DEF Init, ExpiryCovers, CountedOnItsDate
<1>2. TypeOK /\ ClocksBehind /\ IInv /\ [Next]_vars => IInv'
  <2> SUFFICES ASSUME TypeOK, ClocksBehind, IInv, [Next]_vars PROVE IInv'
    OBVIOUS
  <2> USE PeriodsPositive, TimeNatural DEF TypeOK, ExpiryCovers, CountedOnItsDate, To, Times
  <2>1. ASSUME NEW r \in Requests, Call(r) PROVE IInv'
    BY <2>1 DEF Call, store
  <2>2. ASSUME NEW r \in Requests, ReadTokens(r) PROVE IInv'
    BY <2>2 DEF ReadTokens, store, history
  <2>3. ASSUME NEW r \in Requests, Admit(r) PROVE IInv'
    BY <2>3 DEF Admit, store, history
  <2>4. ASSUME NEW r \in Requests, Deny(r) PROVE IInv'
    BY <2>4 DEF Deny, store, history
  <2>5. ASSUME NEW r \in Requests, Refuse(r) PROVE IInv'
    BY <2>5 DEF Refuse, Leave, store, history
  <2>6. ASSUME NEW r \in Requests, Finish(r) PROVE IInv'
    BY <2>6 DEF Finish, store, history
  <2>7. ASSUME NEW r \in Requests, End(r) PROVE IInv'
    BY <2>7 DEF End, Leave, store, history
  <2>8. ASSUME NEW r \in Requests, Fail(r) PROVE IInv'
    BY <2>8 DEF Fail, Leave, store, history
  <2>9. ASSUME NEW r \in Requests, CallUsage(r) PROVE IInv'
    BY <2>9 DEF CallUsage, store
  <2>n. \A r \in Requests : now[r] <= clock /\ now[r] \in Nat /\ clock \in Nat
    BY DEF ClocksBehind
  <2>10. ASSUME NEW r \in Requests, ReadRequests(r) PROVE IInv'
    <3>1. CountedOnItsDate'
      <4> HIDE DEF TypeOK, CountedOnItsDate
      <4>1. /\ recorded' = recorded /\ score' = score
            /\ daySet' = [daySet EXCEPT ![DayOf(now[r])] =
                            Prune(daySet[DayOf(now[r])], now[r] - Day)]
        BY <2>10 DEF ReadRequests, history
      <4> QED
        BY <4>1, PruneKeepsDate DEF CountedOnItsDate
    <3>2. /\ hourSet' = {m \in hourSet : score[m] > now[r] - Hour}
          /\ clock' = clock /\ score' = score /\ recorded' = recorded /\ hourExp' = hourExp
      BY <2>10 DEF ReadRequests, Prune, history
    <3>3. \A m \in recorded : score[m] \in Nat /\ score[m] > clock - Hour => m \in hourSet
      OBVIOUS
    <3>4. ExpiryCovers' /\ \A m \in recorded' : score'[m] > clock' - Hour => m \in hourSet'
      <4> HIDE DEF TypeOK, CountedOnItsDate
      <4>1. \A m \in recorded : score[m] \in Nat
        BY DEF TypeOK
      <4> QED
        BY <2>n, <3>2, <3>3, <4>1
    <3> HIDE DEF TypeOK, CountedOnItsDate, ExpiryCovers
    <3> QED
      BY <3>1, <3>4
  <2>11. ASSUME NEW r \in Requests, GetUsage(r) PROVE IInv'
    <3>1. CountedOnItsDate'
      <4> HIDE DEF TypeOK, CountedOnItsDate
      <4>1. /\ recorded' = recorded /\ score' = score
            /\ daySet' = [daySet EXCEPT ![DayOf(now[r])] =
                            Prune(daySet[DayOf(now[r])], now[r] - Day)]
        BY <2>11 DEF GetUsage, history
      <4> QED
        BY <4>1, PruneKeepsDate DEF CountedOnItsDate
    <3>2. /\ hourSet' = {m \in hourSet : score[m] > now[r] - Hour}
          /\ clock' = clock /\ score' = score /\ recorded' = recorded /\ hourExp' = hourExp
      BY <2>11 DEF GetUsage, Prune, history
    <3>3. \A m \in recorded : score[m] \in Nat /\ score[m] > clock - Hour => m \in hourSet
      OBVIOUS
    <3>4. ExpiryCovers' /\ \A m \in recorded' : score'[m] > clock' - Hour => m \in hourSet'
      <4> HIDE DEF TypeOK, CountedOnItsDate
      <4>1. \A m \in recorded : score[m] \in Nat
        BY DEF TypeOK
      <4> QED
        BY <2>n, <3>2, <3>3, <4>1
    <3> HIDE DEF TypeOK, CountedOnItsDate, ExpiryCovers
    <3> QED
      BY <3>1, <3>4
  <2>12. ASSUME NEW r \in Requests, Log(r) PROVE IInv'
    <3>1. /\ recorded' = recorded \union {member[r]} /\ hourSet' = hourSet \union {member[r]}
          /\ score' = [score EXCEPT ![member[r]] = now[r]] /\ hourExp' = clock + Hour + HourSlack
          /\ daySet' = [daySet EXCEPT ![DayOf(now[r])] = @ \union {member[r]}]
          /\ clock' = clock /\ member[r] \in Members /\ DayOf(now[r]) \in Times
      BY <2>12, KeysInRange DEF Log, HourExpiry
    <3>2. ExpiryCovers' /\ \A m \in recorded' : score'[m] > clock' - Hour => m \in hourSet'
      <4> SUFFICES ASSUME NEW m \in recorded'
                   PROVE  score'[m] + Hour <= hourExp' /\ (score'[m] > clock' - Hour => m \in hourSet')
        OBVIOUS
      <4>n. clock \in Nat /\ Hour \in Nat /\ HourSlack \in Nat /\ now[r] \in Nat /\ now[r] <= clock
        BY <2>n
      <4>1. CASE m = member[r]
        <5>1. score'[m] = now[r] /\ m \in hourSet'
          BY <3>1, <4>1
        <5> HIDE DEF TypeOK, ExpiryCovers, CountedOnItsDate
        <5> QED
          BY <3>1, <4>n, <5>1
      <4>2. CASE m # member[r]
        <5>1. m \in recorded /\ score'[m] = score[m] /\ score[m] \in Nat /\ score[m] <= clock
          BY <3>1, <4>2 DEF ClocksBehind
        <5>2. score[m] > clock - Hour => m \in hourSet
          BY <5>1
        <5> HIDE DEF TypeOK, ExpiryCovers, CountedOnItsDate
        <5> QED
          BY <3>1, <4>n, <5>1, <5>2
      <4> QED
        BY <4>1, <4>2
    <3>3. ASSUME NEW m \in recorded' PROVE m \in daySet'[DayOf(score'[m])]
      <4>1. CASE m = member[r]
        BY <3>1, <4>1
      <4>2. CASE m # member[r]
        <5>1. m \in recorded /\ score'[m] = score[m] /\ m \in daySet[DayOf(score[m])]
          BY <3>1, <4>2
        <5>2. DayOf(score[m]) \in Times
          <6>1. score[m] \in Times
            BY <5>1
          <6> QED
            BY <6>1, KeysInRange
        <5> QED
          BY <3>1, <5>1, <5>2
      <4> QED
        BY <4>1, <4>2
    <3> QED
      BY <3>2, <3>3
  <2>13. CASE Reset
    BY <2>13 DEF Reset, locals
  <2>14. CASE Tick
    <3>1. /\ recorded' = recorded /\ score' = score /\ daySet' = daySet /\ hourExp' = hourExp
          /\ clock \in Nat /\ clock' = clock + 1
          /\ hourSet' = IF hourExp <= clock' THEN {} ELSE hourSet
      BY <2>14 DEF Tick, history
    <3>2. ASSUME NEW m \in recorded, score[m] > clock' - Hour PROVE m \in hourSet'
      <4>1. score[m] \in Nat /\ hourExp \in Nat /\ score[m] + Hour <= hourExp
        OBVIOUS
      <4>2. score[m] > clock - Hour => m \in hourSet
        OBVIOUS
      <4> HIDE DEF TypeOK, ExpiryCovers, CountedOnItsDate
      <4> QED
        BY <3>1, <3>2, <4>1, <4>2
    <3> QED
      BY <3>1, <3>2
  <2>15. CASE UNCHANGED vars
    BY <2>15 DEF vars, store, locals, history
  <2> QED
    BY <2>1, <2>2, <2>3, <2>4, <2>5, <2>6, <2>7, <2>8, <2>9, <2>10, <2>11, <2>12, <2>13, <2>14, <2>15 DEF Next
<1>3. IInv => RecentTurnsCounted
  <2>1. ASSUME CountedOnItsDate, NEW m \in recorded, DayOf(score[m]) = DayOf(clock)
        PROVE  m \in daySet[DayOf(clock)]
    BY <2>1, Zenon DEF CountedOnItsDate
  <2> QED
    BY <2>1 DEF RecentTurnsCounted
<1>4. Init => ClocksBehind
  BY DEF Init, ClocksBehind
<1>5. TypeOK /\ ClocksBehind /\ [Next]_vars => ClocksBehind'
  BY ClocksKept
<1> QED
  BY <1>1, <1>2, <1>3, <1>4, <1>5, TypeCorrect, PTL DEF Spec

-----------------------------------------------------------------------------
(* The token counters                                                       *)

\* What a request in the middle of its retries may still add to the counter of hour h: one
\* token i in each run j of its transaction that is left.
Owes(h, r, i, j) ==
    /\ pc[r] = "log" /\ HourOf(now[r]) = h /\ member[r] \in recorded
    /\ i \in 1..tokens[r] /\ j \in retries[r]..MaxRetries
Debts(h) == {d \in Requests \X (Nat \X Nat) : Owes(h, d[1], d[2][1], d[2][2])}

\* Why the bound is inductive: it leaves room for all the retries to come.
RetriesCovered ==
    LET h == HourOf(clock) IN
    /\ used[h] <= hourTokens[h]
    /\ IsFiniteSet(Debts(h))
    /\ hourTokens[h] + Cardinality(Debts(h)) <= used[h] * (MaxRetries + 1)

MembersDistinct ==
    \A r, s \in Requests : r # s /\ member[r] # NoMember => member[r] # member[s]

FutureUncounted ==
    \A h \in Times : h > HourOf(clock) => hourTokens[h] = 0 /\ used[h] = 0

TokenInv == RetriesCovered /\ MembersDistinct /\ FutureUncounted

\* So do hours.
LEMMA HoursOrdered ==
  ASSUME NEW a \in Nat, NEW b \in Nat, a <= b
  PROVE  HourOf(a) \in Nat /\ HourOf(b) \in Nat /\ HourOf(a) <= HourOf(b)
BY PeriodsOrdered, PeriodBelow, PeriodsPositive DEF HourOf

\* The debt of one request: its tokens, times the runs that are left.
LEMMA DebtOfOne ==
  ASSUME NEW r, NEW n \in Nat, NEW k \in 0..(MaxRetries + 1)
  PROVE  LET D == {r} \X ((1..n) \X (k..MaxRetries)) IN
         IsFiniteSet(D) /\ Cardinality(D) = n * (MaxRetries - k + 1)
<1>1. /\ IsFiniteSet(1..n) /\ Cardinality(1..n) = n
      /\ IsFiniteSet(k..MaxRetries) /\ Cardinality(k..MaxRetries) = MaxRetries - k + 1
  <2>1. /\ IsFiniteSet(1..n) /\ Cardinality(1..n) = IF 1 > n THEN 0 ELSE n - 1 + 1
        /\ IsFiniteSet(k..MaxRetries)
        /\ Cardinality(k..MaxRetries) = IF k > MaxRetries THEN 0 ELSE MaxRetries - k + 1
    BY FS_Interval, TimeNatural
  <2> QED
    BY <2>1, TimeNatural
<1> DEFINE Q == (1..n) \X (k..MaxRetries)
<1>2. IsFiniteSet(Q) /\ Cardinality(Q) = n * (MaxRetries - k + 1)
  BY <1>1, FS_Product
<1>3. IsFiniteSet({r}) /\ Cardinality({r}) = 1
  BY FS_Singleton
<1> HIDE DEF Q
<1>4. IsFiniteSet({r} \X Q) /\ Cardinality({r} \X Q) = 1 * Cardinality(Q)
  BY <1>2, <1>3, FS_Product
<1>5. n * (MaxRetries - k + 1) \in Int
  BY TimeNatural
<1>6. Cardinality({r} \X Q) = n * (MaxRetries - k + 1)
  BY <1>2, <1>4, <1>5
<1> QED
  BY <1>4, <1>6 DEF Q

\* Nothing is counted and no debt is new: the bound stays.
LEMMA DebtsShrink ==
  ASSUME RetriesCovered, TypeOK, hourTokens' = hourTokens, used' = used, clock' = clock,
         \A r \in Requests : \A i, j \in Nat :
            Owes(HourOf(clock), r, i, j)' => Owes(HourOf(clock), r, i, j)
  PROVE  RetriesCovered'
<1> DEFINE h == HourOf(clock)
           D == Debts(h)
           E == Debts(h)'
<1>1. h \in Times /\ HourOf(clock)' = h
  BY KeysInRange DEF TypeOK
<1>2. E = {d \in Requests \X (Nat \X Nat) : Owes(h, d[1], d[2][1], d[2][2])'}
  BY DEF Debts
<1>3. E \in SUBSET D
  BY <1>2 DEF Debts
<1>4. IsFiniteSet(D) /\ used[h] <= hourTokens[h] /\ hourTokens[h] + Cardinality(D) <= used[h] * (MaxRetries + 1)
  BY DEF RetriesCovered
<1>5. used[h] \in Nat /\ hourTokens[h] \in Nat
  BY <1>1 DEF TypeOK
<1>6. HourOf(clock') = h /\ Debts(HourOf(clock))' = E
  BY DEF HourOf
<1> HIDE DEF D, E, h
<1>7. IsFiniteSet(E) /\ Cardinality(E) <= Cardinality(D) /\ Cardinality(E) \in Nat /\ Cardinality(D) \in Nat
  BY <1>3, <1>4, FS_Subset, FS_CardinalityType
<1>8. used[h] * (MaxRetries + 1) \in Int
  BY <1>5, TimeNatural
<1>9. hourTokens[h] + Cardinality(E) <= used[h] * (MaxRetries + 1)
  BY <1>4, <1>5, <1>7, <1>8
<1> QED
  BY <1>1, <1>4, <1>6, <1>7, <1>9 DEF RetriesCovered

\* A debt of somebody else is an old one, a debt of the request that counts now has lost
\* one run.
LEMMA DebtsAfterLog ==
  ASSUME TypeOK, MembersDistinct, NEW r \in Requests, Log(r), NEW h
  PROVE  /\ Debts(h)' \subseteq {d \in Debts(h) : d[1] # r}
                         \union {d \in {r} \X ((1..tokens[r]) \X ((retries[r] + 1)..MaxRetries)) :
                                   HourOf(now[r]) = h}
<1> SUFFICES ASSUME NEW d \in Debts(h)'
             PROVE  \/ d \in Debts(h) /\ d[1] # r
                    \/ /\ d \in {r} \X ((1..tokens[r]) \X ((retries[r] + 1)..MaxRetries))
                       /\ HourOf(now[r]) = h
  OBVIOUS
<1>1. PICK s \in Requests, i \in Nat, j \in Nat : d = <<s, <<i, j>>>> /\ Owes(h, s, i, j)'
  BY DEF Debts
<1>2. CASE s # r
  <2>1. pc'[s] = pc[s] /\ now'[s] = now[s] /\ member'[s] = member[s] /\ tokens'[s] = tokens[s]
        /\ retries'[s] = retries[s]
    BY <1>2 DEF Log, Leave, To, TypeOK
  <2>2. pc[s] = "log" /\ member[s] \in Members /\ member[s] # member[r]
    BY <1>1, <1>2, <2>1, NoMemberOutside DEF Owes, MembersDistinct, TypeOK
  <2>3. member[s] \in recorded
    BY <1>1, <2>1, <2>2 DEF Owes, Log
  <2>4. HourOf(now[s]) = h
    BY <1>1, <2>1 DEF Owes, HourOf
  <2>5. Owes(h, s, i, j)
    BY <1>1, <2>1, <2>2, <2>3, <2>4 DEF Owes
  <2> QED
    BY <1>1, <1>2, <2>5 DEF Debts
<1>3. CASE s = r
  <2>1. pc'[r] = "log"
    BY <1>1, <1>3 DEF Owes
  <2>2. ~ Leave(r)
    BY <2>1 DEF Leave, To, TypeOK
  <2>3. now'[r] = now[r] /\ tokens'[r] = tokens[r] /\ retries'[r] = retries[r] + 1
    BY <2>2 DEF Log, TypeOK
  <2>4. HourOf(now[r]) = h /\ i \in 1..tokens[r] /\ j \in (retries[r] + 1)..MaxRetries
    BY <1>1, <1>3, <2>3 DEF Owes, HourOf
  <2> QED
    BY <1>1, <1>3, <2>4
<1> QED
  BY <1>2, <1>3

\* What one run of a log takes off the debts of its request.
LEMMA RunsLeft ==
  ASSUME NEW n \in Nat, NEW M \in Nat, NEW k \in Nat, k <= M, NEW u \in Nat
  PROVE  /\ n * (M - k) \in 0..(n * M) /\ n * M \in Nat
         /\ n * (M - k + 1) = n * (M - k) + n
         /\ u * (M + 1) \in Nat
         /\ (u + n) * (M + 1) = u * (M + 1) + n * M + n
<1>1. n * M \in Nat /\ n * k \in Nat /\ u * (M + 1) \in Nat
  OBVIOUS
<1>2. M - k \in Nat
  OBVIOUS
<1>3. n * (M - k) \in Nat
  BY <1>2
<1>4. n * (M - k) = n * M - n * k
  OBVIOUS
<1>5. n * (M - k + 1) = n * (M - k) + n
  OBVIOUS
<1>6. (u + n) * (M + 1) = u * (M + 1) + n * M + n
  OBVIOUS
<1> QED
  BY <1>1, <1>3, <1>4, <1>5, <1>6

\* A run of the log counts tokens that were owed, or are new together with what is owed for them.
LEMMA LogKeepsCovered ==
  ASSUME TypeOK, TypeOK', TokenInv, NEW r \in Requests, Log(r)
  PROVE  RetriesCovered'
<1>h. PICK h \in Times : h = HourOf(clock)
  BY KeysInRange DEF TypeOK
<1> DEFINE n == tokens[r]
           k == retries[r]
           D == Debts(h)
           D0 == {d \in D : d[1] # r}
           E == Debts(h)'
           R(j) == {r} \X ((1..n) \X (j..MaxRetries))
           used1 == used'[h]
           toks1 == hourTokens'[h]
<1>t. /\ h \in Times /\ HourOf(now[r]) \in Times /\ n \in Nat /\ k \in 0..MaxRetries
      /\ used[h] \in Nat /\ hourTokens[h] \in Nat /\ member[r] \in Members /\ MaxRetries \in Nat
  BY KeysInRange, TimeNatural DEF TypeOK, Log
<1>c. /\ used[h] <= hourTokens[h] /\ IsFiniteSet(D)
      /\ hourTokens[h] + Cardinality(D) <= used[h] * (MaxRetries + 1)
  BY <1>h DEF TokenInv, RetriesCovered
<1>e. E \subseteq D0 \union {d \in R(k + 1) : HourOf(now[r]) = h}
  <2>1. MembersDistinct
    BY DEF TokenInv
  <2> QED
    BY <2>1, DebtsAfterLog, Zenon
<1>r. /\ IsFiniteSet(R(k + 1)) /\ Cardinality(R(k + 1)) = n * (MaxRetries - k)
      /\ IsFiniteSet(R(k)) /\ Cardinality(R(k)) = n * (MaxRetries - k + 1)
  <2>1. k \in 0..(MaxRetries + 1) /\ k + 1 \in 0..(MaxRetries + 1) /\ MaxRetries - (k + 1) + 1 = MaxRetries - k
    BY <1>t
  <2>2. \A j \in 0..(MaxRetries + 1) : IsFiniteSet(R(j)) /\ Cardinality(R(j)) = n * (MaxRetries - j + 1)
    BY <1>t, DebtOfOne, Zenon
  <2> HIDE DEF R, n, k
  <2>3. /\ IsFiniteSet(R(k)) /\ Cardinality(R(k)) = n * (MaxRetries - k + 1)
        /\ IsFiniteSet(R(k + 1)) /\ Cardinality(R(k + 1)) = n * (MaxRetries - (k + 1) + 1)
    BY <2>1, <2>2
  <2> QED
    BY <2>1, <2>3
<1>0. IsFiniteSet(D0) /\ Cardinality(D0) <= Cardinality(D)
  BY <1>c, FS_Subset, D0 \in SUBSET D
<1>k. HourOf(clock)' = h /\ HourOf(clock') = h /\ Debts(HourOf(clock))' = E
  BY <1>h DEF Log, HourOf
<1>u. /\ toks1 = IF HourOf(now[r]) = h THEN hourTokens[h] + n ELSE hourTokens[h]
      /\ used1 = IF HourOf(now[r]) = h /\ member[r] \notin recorded THEN used[h] + n ELSE used[h]
  BY <1>t DEF Log, Increment, TypeOK
<1>m. HourOf(now[r]) = h /\ member[r] \in recorded =>
         Cardinality(D) = Cardinality(D0) + n * (MaxRetries - k + 1)
  <2> SUFFICES ASSUME HourOf(now[r]) = h, member[r] \in recorded
               PROVE  Cardinality(D) = Cardinality(D0) + n * (MaxRetries - k + 1)
    OBVIOUS
  <2>1. R(k) \subseteq D
    <3> SUFFICES ASSUME NEW i \in 1..n, NEW j \in k..MaxRetries PROVE <<r, <<i, j>>>> \in D
      OBVIOUS
    <3>1. Owes(h, r, i, j) /\ i \in Nat /\ j \in Nat
      BY <1>t DEF Owes, Log
    <3> QED
      BY <3>1 DEF Debts
  <2>2. ASSUME NEW d \in D, d[1] = r PROVE d \in R(k)
    BY <2>2 DEF Debts, Owes
  <2>3. D = D0 \union R(k) /\ D0 \cap R(k) = {}
    BY <2>1, <2>2
  <2> HIDE DEF D, D0, R
  <2>4. Cardinality(D) = Cardinality(D0) + Cardinality(R(k)) - Cardinality({})
    BY <1>0, <1>r, <2>3, FS_Union
  <2>5. Cardinality(D0) \in Nat /\ Cardinality(R(k)) \in Nat /\ Cardinality({}) = 0
    BY <1>0, <1>r, FS_CardinalityType, FS_EmptySet
  <2> QED
    BY <1>r, <2>4, <2>5
<1> HIDE DEF E, D0, D, R, used1, toks1, n, k
<1>n. Cardinality(D) \in Nat /\ Cardinality(D0) \in Nat /\ Cardinality(R(k + 1)) \in Nat
  BY <1>0, <1>c, <1>r, FS_CardinalityType
<1>a. /\ n * (MaxRetries - k) \in 0..(n * MaxRetries) /\ n * MaxRetries \in Nat
      /\ n * (MaxRetries - k + 1) = n * (MaxRetries - k) + n
      /\ used[h] * (MaxRetries + 1) \in Nat
      /\ (used[h] + n) * (MaxRetries + 1) = used[h] * (MaxRetries + 1) + n * MaxRetries + n
  <2>1. k \in Nat /\ k <= MaxRetries
    BY <1>t
  <2> QED
    BY <1>t, <2>1, RunsLeft
<1>f. IsFiniteSet(E) /\ Cardinality(E) \in Nat
      /\ Cardinality(E) <= Cardinality(D0) + (IF HourOf(now[r]) = h THEN n * (MaxRetries - k) ELSE 0)
  <2>1. CASE HourOf(now[r]) = h
    <3> DEFINE U == D0 \union R(k + 1)
    <3>1. E \in SUBSET U
      BY <1>e
    <3>2. IsFiniteSet(U) /\ Cardinality(U) = Cardinality(D0) + Cardinality(R(k + 1)) - Cardinality(D0 \cap R(k + 1))
      BY <1>0, <1>r, FS_Union
    <3>3. Cardinality(D0 \cap R(k + 1)) \in Nat
      BY <1>0, FS_Subset, FS_CardinalityType, D0 \cap R(k + 1) \in SUBSET D0
    <3> HIDE DEF U
    <3>4. IsFiniteSet(E) /\ Cardinality(E) <= Cardinality(U) /\ Cardinality(E) \in Nat
      BY <3>1, <3>2, FS_Subset, FS_CardinalityType
    <3> QED
      BY <1>a, <1>n, <1>r, <2>1, <3>2, <3>3, <3>4
  <2>2. CASE HourOf(now[r]) # h
    <3>1. E \in SUBSET D0
      BY <1>e, <2>2
    <3> QED
      BY <1>0, <1>a, <1>n, <2>2, <3>1, FS_Subset, FS_CardinalityType
  <2> QED
    BY <2>1, <2>2
<1>5. used1 <= toks1 /\ toks1 + Cardinality(E) <= used1 * (MaxRetries + 1)
  <2>1. CASE HourOf(now[r]) # h
    <3>1. used1 = used[h] /\ toks1 = hourTokens[h]
      BY <1>u, <2>1
    <3> QED
      BY <1>t, <1>c, <1>0, <1>a, <1>f, <1>n, <2>1, <3>1
  <2>2. CASE HourOf(now[r]) = h /\ member[r] \in recorded
    <3>1. used1 = used[h] /\ toks1 = hourTokens[h] + n
      BY <1>u, <2>2
    <3> QED
      BY <1>t, <1>c, <1>0, <1>f, <1>m, <1>a, <1>n, <2>2, <3>1
  <2>3. CASE HourOf(now[r]) = h /\ member[r] \notin recorded
    <3>1. used1 = used[h] + n /\ toks1 = hourTokens[h] + n
      BY <1>u, <2>3
    <3>2. used1 * (MaxRetries + 1) = used[h] * (MaxRetries + 1) + n * MaxRetries + n
      BY <1>a, <3>1
    <3> QED
      BY <1>t, <1>c, <1>0, <1>a, <1>f, <1>n, <2>3, <3>1, <3>2
  <2> QED
    BY <2>1, <2>2, <2>3
<1> QED
  BY <1>k, <1>f, <1>5 DEF RetriesCovered, used1, toks1

\* Members in use are of one request each: a new one is not in use, and one that leaves
\* gives its own back.
LEMMA MembersKept ==
  ASSUME TypeOK, MembersDistinct, [Next]_vars
  PROVE  MembersDistinct'
<1> USE DEF TypeOK, MembersDistinct
<1>l. ASSUME NEW r \in Requests, Leave(r) PROVE MembersDistinct'
  BY <1>l DEF Leave
<1>s. ASSUME member' = member PROVE MembersDistinct'
  BY <1>s
<1>1. ASSUME NEW r \in Requests, Finish(r) PROVE MembersDistinct'
  BY <1>1 DEF Finish
<1>2. ASSUME NEW r \in Requests, Log(r) PROVE MembersDistinct'
  BY <1>2, <1>l, <1>s DEF Log
<1>3. ASSUME NEW r \in Requests, Refuse(r) \/ End(r) \/ Fail(r) \/ GetUsage(r) PROVE MembersDistinct'
  BY <1>3, <1>l DEF Refuse, End, Fail, GetUsage
<1>4. ASSUME NEW r \in Requests,
             Call(r) \/ ReadRequests(r) \/ ReadTokens(r) \/ Admit(r) \/ Deny(r) \/ CallUsage(r)
      PROVE  MembersDistinct'
  BY <1>4, <1>s DEF Call, ReadRequests, ReadTokens, Admit, Deny, CallUsage
<1>5. ASSUME Reset \/ Tick \/ UNCHANGED vars PROVE MembersDistinct'
  BY <1>5, <1>s DEF Reset, Tick, vars, locals
<1> HIDE DEF TypeOK, MembersDistinct
<1> QED
  BY <1>1, <1>2, <1>3, <1>4, <1>5 DEF Next

\* Nothing is counted under an hour that has not begun.
LEMMA FutureStaysUncounted ==
  ASSUME TypeOK, ClocksBehind, FutureUncounted, [Next]_vars
  PROVE  FutureUncounted'
<1>h. HourOf(clock) \in Nat /\ clock \in Nat
  <2>1. clock \in Times /\ HourOf(clock) \in Times
    BY KeysInRange DEF TypeOK
  <2> QED
    BY <2>1, TimeNatural DEF Times
<1>s. ASSUME hourTokens' = hourTokens, used' = used, clock' = clock PROVE FutureUncounted'
  BY <1>s DEF FutureUncounted, HourOf
<1>1. ASSUME NEW r \in Requests, Log(r) PROVE FutureUncounted'
  <2>1. now[r] \in Nat /\ now[r] <= clock
    BY TimeNatural DEF TypeOK, Times, ClocksBehind
  <2>2. HourOf(now[r]) \in Nat /\ HourOf(now[r]) <= HourOf(clock)
    BY <1>h, <2>1, HoursOrdered
  <2>3. HourOf(clock)' = HourOf(clock)
    BY <1>1 DEF Log, HourOf
  <2>4. ASSUME NEW g \in Times, g > HourOf(clock) PROVE hourTokens'[g] = 0 /\ used'[g] = 0
    <3>1. g # HourOf(now[r]) /\ hourTokens[g] = 0 /\ used[g] = 0
      BY <1>h, <2>2, <2>4, TimeNatural DEF Times, FutureUncounted
    <3> QED
      BY <1>1, <3>1 DEF Log, Increment, TypeOK
  <2> QED
    BY <2>3, <2>4 DEF FutureUncounted
<1>2. CASE Reset
  <2>1. HourOf(clock)' = HourOf(clock)
    BY <1>2 DEF Reset, HourOf
  <2>2. ASSUME NEW g \in Times, g > HourOf(clock) PROVE hourTokens'[g] = 0 /\ used'[g] = 0
    <3>1. hourTokens[g] = 0
      BY <2>2 DEF FutureUncounted
    <3> QED
      BY <1>2, <3>1 DEF Reset, TypeOK
  <2> QED
    BY <2>1, <2>2 DEF FutureUncounted
<1>3. CASE Tick
  <2>1. clock' = clock + 1 /\ hourTokens' = hourTokens /\ used' = used
    BY <1>3 DEF Tick, history
  <2>2. HourOf(clock') \in Nat /\ HourOf(clock) <= HourOf(clock')
    BY <1>h, <2>1, HoursOrdered
  <2>3. ASSUME NEW g \in Times, g > HourOf(clock') PROVE g > HourOf(clock)
    BY <1>h, <2>2, <2>3, TimeNatural DEF Times
  <2>4. HourOf(clock)' = HourOf(clock')
    BY DEF HourOf
  <2> QED
    BY <2>1, <2>3, <2>4 DEF FutureUncounted
<1>4. ASSUME NEW r \in Requests,
             Call(r) \/ ReadRequests(r) \/ ReadTokens(r) \/ Admit(r) \/ Deny(r) \/ Refuse(r)
               \/ Finish(r) \/ End(r) \/ Fail(r) \/ CallUsage(r) \/ GetUsage(r)
      PROVE  FutureUncounted'
  BY <1>4, <1>s DEF Call, ReadRequests, ReadTokens, Admit, Deny, Refuse, Finish, End, Fail,
     CallUsage, GetUsage, store, history
<1>5. CASE UNCHANGED vars
  BY <1>5, <1>s DEF vars, store, history
<1> QED
  BY <1>1, <1>2, <1>3, <1>4, <1>5 DEF Next

\* Every step keeps the counter within its bounds.
LEMMA CoveredKept ==
  ASSUME TypeOK, TypeOK', ClocksBehind, TokenInv, [Next]_vars
  PROVE  RetriesCovered'
<1> DEFINE NoNewDebt == \A s \in Requests : \A i, j \in Nat :
                           Owes(HourOf(clock), s, i, j)' => Owes(HourOf(clock), s, i, j)
<1>h. HourOf(clock) \in Times /\ clock \in Nat /\ HourOf(clock) \in Nat /\ Times \subseteq Nat
  <2>1. clock \in Times /\ HourOf(clock) \in Times
    BY KeysInRange DEF TypeOK
  <2>2. Times \subseteq Nat
    BY TimeNatural DEF Times
  <2> QED
    BY <2>1, <2>2
<1>s. ASSUME NoNewDebt, hourTokens' = hourTokens, used' = used, clock' = clock
      PROVE  RetriesCovered'
  BY <1>s, DebtsShrink DEF TokenInv
<1>l. ASSUME NEW r \in Requests, Leave(r), recorded' = recorded, clock' = clock PROVE NoNewDebt
  BY <1>l DEF Leave, To, Owes, HourOf, TypeOK
<1>1. ASSUME NEW r \in Requests, Log(r) PROVE RetriesCovered'
  BY <1>1, LogKeepsCovered
<1>2. ASSUME NEW r \in Requests, Refuse(r) \/ End(r) \/ Fail(r) \/ GetUsage(r) PROVE RetriesCovered'
  BY <1>2, <1>l, <1>s DEF Refuse, End, Fail, GetUsage, store, history
<1>3. ASSUME NEW r \in Requests, Finish(r) PROVE RetriesCovered'
  <2>1. NoNewDebt
    BY <1>3 DEF Finish, To, Owes, HourOf, TypeOK, store, history
  <2> QED
    BY <1>3, <2>1, <1>s DEF Finish, store, history
<1>4. ASSUME NEW r \in Requests,
             Call(r) \/ ReadRequests(r) \/ ReadTokens(r) \/ Admit(r) \/ Deny(r) \/ CallUsage(r)
      PROVE  RetriesCovered'
  <2>1. NoNewDebt
    <3>1. /\ recorded' = recorded /\ member' = member /\ tokens' = tokens /\ retries' = retries
          /\ clock' = clock
      BY <1>4 DEF Call, ReadRequests, ReadTokens, Admit, Deny, CallUsage, store, history
    <3>2. \A s \in Requests : pc'[s] = "log" => pc[s] = "log" /\ now'[s] = now[s]
      BY <1>4 DEF Call, ReadRequests, ReadTokens, Admit, Deny, CallUsage, To, TypeOK
    <3> QED
      BY <3>1, <3>2 DEF Owes, HourOf
  <2> QED
    BY <1>4, <2>1, <1>s DEF Call, ReadRequests, ReadTokens, Admit, Deny, CallUsage, store, history
<1>5. CASE Reset
  <2>1. used'[HourOf(clock)] = 0 /\ hourTokens'[HourOf(clock)] = 0 /\ HourOf(clock)' = HourOf(clock)
    BY <1>5, <1>h DEF Reset, TypeOK, HourOf
  <2>2. Debts(HourOf(clock))' = {}
    BY <1>5 DEF Reset, Debts, Owes
  <2> QED
    BY <2>1, <2>2, FS_EmptySet, TimeNatural DEF RetriesCovered
<1>6. CASE Tick
  <2>1. /\ clock' = clock + 1 /\ hourTokens' = hourTokens /\ used' = used
        /\ recorded' = recorded /\ UNCHANGED locals
    BY <1>6 DEF Tick, history
  <2>2. PICK g \in Times : g = HourOf(clock')
    BY KeysInRange DEF TypeOK
  <2>3. HourOf(clock)' = g /\ HourOf(clock) <= g
    BY <1>h, <2>1, <2>2, HoursOrdered DEF HourOf
  <2>4. Debts(g)' = Debts(g)
    BY <2>1 DEF Debts, Owes, locals
  <2>5. Debts(HourOf(clock))' = Debts(g)
    BY <2>2, <2>4 DEF HourOf
  <2>6. CASE g = HourOf(clock)
    BY <2>1, <2>3, <2>5, <2>6 DEF TokenInv, RetriesCovered
  <2>7. CASE g # HourOf(clock)
    <3>0. g \in Nat
      BY <1>h
    <3>1. g > HourOf(clock)
      BY <1>h, <2>3, <2>7, <3>0
    <3>2. hourTokens[g] = 0 /\ used[g] = 0
      BY <3>1 DEF TokenInv, FutureUncounted
    <3>3. ASSUME NEW d \in Debts(g) PROVE FALSE
      <4>1. PICK s \in Requests : HourOf(now[s]) = g
        BY DEF Debts, Owes
      <4>2. now[s] \in Nat /\ now[s] <= clock
        BY <1>h DEF TypeOK, ClocksBehind
      <4>3. HourOf(now[s]) <= HourOf(clock)
        BY <1>h, <4>2, HoursOrdered
      <4> QED
        BY <1>h, <3>0, <3>1, <4>1, <4>3
    <3>4. Debts(g) = {}
      BY <3>3
    <3> QED
      BY <2>1, <2>3, <2>5, <3>2, <3>4, FS_EmptySet, TimeNatural DEF RetriesCovered
  <2> QED
    BY <2>6, <2>7
<1>7. CASE UNCHANGED vars
  <2>1. NoNewDebt
    BY <1>7 DEF vars, locals, history, Owes
  <2> QED
    BY <1>7, <2>1, <1>s DEF vars, store, history
<1> HIDE DEF NoNewDebt
<1> QED
  BY <1>1, <1>2, <1>3, <1>4, <1>5, <1>6, <1>7 DEF Next

\* The tokens of the turns recorded in this hour are in its counter, each turn at least
\* once, and no more often than its transaction may run.
THEOREM TokensCounted == Spec => []UsedTokensCounted
<1>1. Init => TokenInv
  <2> SUFFICES ASSUME Init PROVE TokenInv
    OBVIOUS
  <2>1. Debts(HourOf(clock)) = {}
    BY DEF Init, Debts, Owes
  <2>2. HourOf(clock) \in Times
    BY KeysInRange, TimeNatural DEF Init, Times
  <2> QED
    BY <2>1, <2>2, FS_EmptySet, TimeNatural
       DEF Init, TokenInv, RetriesCovered, MembersDistinct, FutureUncounted
<1>2. TypeOK /\ TypeOK' /\ ClocksBehind /\ TokenInv /\ [Next]_vars => TokenInv'
  BY MembersKept, FutureStaysUncounted, CoveredKept DEF TokenInv
<1>3. TypeOK /\ TokenInv => UsedTokensCounted
  <2> SUFFICES ASSUME TypeOK, RetriesCovered PROVE UsedTokensCounted
    BY DEF TokenInv
  <2>1. Cardinality(Debts(HourOf(clock))) \in Nat
    BY FS_CardinalityType DEF RetriesCovered
  <2>2. used[HourOf(clock)] \in Nat /\ hourTokens[HourOf(clock)] \in Nat
    BY KeysInRange DEF TypeOK
  <2>3. used[HourOf(clock)] * (MaxRetries + 1) \in Nat
    BY <2>2, TimeNatural
  <2> QED
    BY <2>1, <2>2, <2>3 DEF RetriesCovered, UsedTokensCounted
<1>4. Init => ClocksBehind
  BY DEF Init, ClocksBehind
<1>5. TypeOK /\ ClocksBehind /\ [Next]_vars => ClocksBehind'
  BY ClocksKept
<1> QED
  BY <1>1, <1>2, <1>3, <1>4, <1>5, TypeCorrect, PTL DEF Spec

-----------------------------------------------------------------------------
(* What a denial promises                                                   *)

\* The wait to the end of a period ends in a later period.
LEMMA NextPeriod ==
  ASSUME NEW p \in Nat \ {0}, NEW a \in Nat, NEW c \in Nat, c <= a
  PROVE  /\ a + (p - (a % p)) \in Nat
         /\ (a + (p - (a % p))) \div p > c \div p
<1> DEFINE q == a \div p
           b == a + (p - (a % p))
           s == b \div p
<1>1. q \in Nat /\ a % p \in 0..(p - 1) /\ a = (p * q) + (a % p)
  BY Division
<1>2. b \in Nat /\ b = (p * q) + p
  BY <1>1
<1>3. s \in Nat /\ b % p \in 0..(p - 1) /\ b = (p * s) + (b % p)
  BY <1>2, Division
<1>4. c \div p \in Nat /\ c \div p <= q
  BY PeriodsOrdered, PeriodBelow
<1> HIDE DEF q, b, s
<1>5. ASSUME s <= q PROVE FALSE
  <2>1. p * (q - s) >= 0
    BY <1>1, <1>3, <1>5
  <2>2. p * (q - s) = p * q - p * s
    BY <1>1, <1>3
  <2>3. p * q \in Nat /\ p * s \in Nat
    BY <1>1, <1>3
  <2> QED
    BY <1>2, <1>3, <2>1, <2>2, <2>3
<1>6. s > c \div p
  BY <1>1, <1>3, <1>4, <1>5
<1> QED
  BY <1>2, <1>6 DEF b, s

LEMMA ClocksNatural ==
  ASSUME TypeOK
  PROVE  /\ score \in [Members -> Nat] /\ hourSet \in SUBSET Members /\ clock \in Nat
         /\ \A r \in Requests : now[r] \in Nat /\ retry[r] \in Nat
<1>1. Times \subseteq Nat
  BY TimeNatural DEF Times
<1> QED
  BY <1>1 DEF TypeOK

\* As long as no two requests were open at once, one is.
Solo == ~overlapped => \A r, s \in Requests : pc[r] # "idle" /\ pc[s] # "idle" => r = s

\* Why a denial can name the moment: then the limit itself, and not the limit with the
\* overshoot, bounds what is stored.
SoloBudget == ~overlapped => Cardinality(HourLoad) <= RequestsPerHour

\* Only a call makes a request busy, and a second one is an overlap.
LEMMA SoloKept ==
  ASSUME TypeOK, Solo, [Next]_vars
  PROVE  Solo'
<1> USE DEF TypeOK, Solo, To
<1>1. ASSUME NEW r \in Requests, Call(r) \/ CallUsage(r) PROVE Solo'
  <2>1. ~overlapped' => \A s \in Requests : pc[s] = "idle"
    BY <1>1, Zenon DEF Call, CallUsage
  <2>2. \A s \in Requests \ {r} : pc'[s] = pc[s]
    BY <1>1 DEF Call, CallUsage
  <2> QED
    BY <2>1, <2>2
<1>2. ASSUME NEW r \in Requests,
             ReadRequests(r) \/ ReadTokens(r) \/ Admit(r) \/ Deny(r) \/ Finish(r)
      PROVE  Solo'
  BY <1>2 DEF ReadRequests, ReadTokens, Admit, Deny, Finish, history
<1>3. ASSUME NEW r \in Requests, Refuse(r) \/ End(r) \/ Fail(r) \/ GetUsage(r) PROVE Solo'
  BY <1>3 DEF Refuse, End, Fail, GetUsage, Leave, history
<1>4. ASSUME NEW r \in Requests, Log(r) PROVE Solo'
  BY <1>4 DEF Log, Leave
<1>5. ASSUME Reset \/ Tick \/ UNCHANGED vars PROVE Solo'
  BY <1>5 DEF Reset, Tick, vars, locals, history
<1> HIDE DEF TypeOK, Solo, To
<1> QED
  BY <1>1, <1>2, <1>3, <1>4, <1>5 DEF Next

\* An overlap is never forgotten.
LEMMA OverlapStays ==
  ASSUME TypeOK, [Next]_vars, overlapped
  PROVE  overlapped'
BY DEF TypeOK, Next, Call, ReadRequests, ReadTokens, Admit, Deny, Refuse, Finish, End, Log, Fail,
   CallUsage, GetUsage, Reset, Tick, vars, history

\* The admission of the only request leaves room for it.
LEMMA SoloBudgetKept ==
  ASSUME TypeOK, TypeOK', Solo, SoloBudget, [Next]_vars
  PROVE  SoloBudget'
<1> SUFFICES ASSUME ~overlapped' PROVE Cardinality(HourLoad') <= RequestsPerHour
  BY DEF SoloBudget
<1>1. ~overlapped /\ Cardinality(HourLoad) <= RequestsPerHour /\ RequestsPerHour \in Nat
  BY OverlapStays, LimitsPositive DEF SoloBudget
<1>2. CASE Cardinality(HourLoad') <= RequestsPerHour
  BY <1>2
<1>3. ASSUME NEW r \in Requests, ReadRequests(r), "requests_hour" \notin full'[r]
      PROVE  Cardinality(HourLoad') <= RequestsPerHour
  <2>1. IsFiniteSet(hourSet') /\ Cardinality(hourSet') \in Nat /\ Cardinality(hourSet') < RequestsPerHour
    BY <1>3, AdmittedBelow
  <2>2. Solo'
    BY SoloKept
  <2>3. pc'[r] = "tokens"
    BY <1>3 DEF ReadRequests, To, TypeOK
  <2>4. \A q \in Requests : pc'[q] # "idle" => q = r
    BY <2>2, <2>3 DEF Solo
  <2>5. Slots(MayAddHour)' \subseteq {r}
    BY <2>3, <2>4 DEF Slots, Slot, MayAddHour, Admitted
  <2> DEFINE R == hourSet' \union {r}
  <2>6. HourLoad' \in SUBSET R
    BY <2>5 DEF HourLoad
  <2>7. /\ IsFiniteSet(R)
        /\ Cardinality(R) = Cardinality(hourSet') \/ Cardinality(R) = Cardinality(hourSet') + 1
    BY <2>1, FS_AddElement
  <2> HIDE DEF R
  <2>8. Cardinality(R) <= RequestsPerHour
    BY <1>1, <2>1, <2>7
  <2> QED
    BY <1>1, <2>6, <2>7, <2>8, SmallerFits
<1> QED
  BY <1>1, <1>2, <1>3, HourStep

\* At the moment of the denial the promise is kept: the oldest turn will have left, the
\* hour or the day will be over.
LEMMA DenialHonest ==
  ASSUME TypeOK, TypeOK', ClocksBehind, SoloBudget, ~overlapped, NEW r \in Requests, Deny(r)
  PROVE  Honest(r)'
<1>t. /\ clock \in Nat /\ now[r] \in Nat /\ now[r] <= clock
      /\ Hour \in Nat \ {0} /\ Day \in Nat \ {0}
  BY TimeNatural, PeriodsPositive DEF TypeOK, Times, ClocksBehind
<1>1. /\ clock' = clock /\ hourSet' = hourSet /\ score' = score /\ full' = full /\ now' = now
      /\ retry'[r] = RetryAfter(r)
  BY DEF Deny, store, TypeOK
<1>2. CASE Reason(full[r]) = "requests_hour"
  <2>1. retry'[r] = UntilFree(now[r])
    BY <1>1, <1>2 DEF RetryAfter
  <2> DEFINE w == UntilFree(now[r])
             P == Prune(hourSet, now[r] + w - Hour)
  <2>2. IsFiniteSet(hourSet) /\ IsFiniteSet(HourLoad)
    BY HourLoadFinite
  <2>3. Cardinality(hourSet) \in Nat /\ Cardinality(hourSet) <= RequestsPerHour
    BY <2>2, SmallerFits, FS_CardinalityType, LimitsPositive, hourSet \in SUBSET HourLoad
       DEF SoloBudget, HourLoad
  <2>4. Cardinality(P) < RequestsPerHour
    <3>1. CASE hourSet = {}
      <4>1. P = {}
        BY <3>1 DEF Prune
      <4> QED
        BY <4>1, FS_EmptySet, LimitsPositive
    <3>2. CASE hourSet # {}
      <4> DEFINE oldest == CHOOSE m \in hourSet : \A n \in hourSet : score[m] <= score[n]
      <4>0. score \in [Members -> Nat] /\ hourSet \in SUBSET Members
        BY ClocksNatural
      <4>1. oldest \in hourSet
        BY <3>2, <4>0, SomeOldest, Zenon
      <4>2. score[oldest] \in Nat
        BY <4>0, <4>1
      <4>3. w = LET wait == Hour - (now[r] - score[oldest]) + 1 IN IF wait < 1 THEN 1 ELSE wait
        BY <3>2, Zenon DEF UntilFree
      <4> HIDE DEF oldest, w
      <4>4. ~ (score[oldest] > now[r] + w - Hour)
        BY <1>t, <4>2, <4>3
      <4>5. P \in SUBSET (hourSet \ {oldest})
        BY <4>4 DEF Prune
      <4> HIDE DEF P
      <4> DEFINE S == hourSet \ {oldest}
      <4>6. IsFiniteSet(S) /\ Cardinality(S) = Cardinality(hourSet) - 1
        BY <2>2, <4>1, FS_RemoveElement
      <4> HIDE DEF S
      <4>7. P \in SUBSET S
        BY <4>5 DEF S
      <4>8. Cardinality(P) <= Cardinality(S) /\ Cardinality(P) \in Nat
        BY <4>6, <4>7, FS_Subset, FS_CardinalityType
      <4> QED
        BY <2>3, <4>6, <4>8, LimitsPositive
    <3> QED
      BY <3>1, <3>2
  <2>5. Prune(hourSet, now[r] + retry[r] - Hour)' = P
    BY <1>1, <2>1 DEF Prune
  <2>6. Reason(full[r])' = "requests_hour"
    BY <1>1, <1>2 DEF Reason
  <2> HIDE DEF P
  <2> QED
    <3>1. HourFree(r)'
      BY <2>4, <2>5 DEF HourFree
    <3> QED
      BY <2>6, <3>1 DEF Honest
<1>3. CASE Reason(full[r]) = "tokens_hour"
  <2>1. retry'[r] = Hour - (clock % Hour)
    BY <1>1, <1>3 DEF RetryAfter
  <2>2. HourOf(clock + (Hour - (clock % Hour))) > HourOf(now[r])
    BY <1>t, NextPeriod DEF HourOf
  <2>3. Reason(full[r])' = "tokens_hour"
    BY <1>1, <1>3 DEF Reason
  <2>4. HourOf(clock' + retry'[r]) > HourOf(now'[r])
    BY <1>1, <2>1, <2>2
  <2> QED
    BY <2>3, <2>4 DEF Honest, HourOf
<1>4. CASE Reason(full[r]) # "requests_hour" /\ Reason(full[r]) # "tokens_hour"
  <2>1. retry'[r] = Day - (clock % Day)
    BY <1>1, <1>4 DEF RetryAfter
  <2>2. DayOf(clock + (Day - (clock % Day))) > DayOf(now[r])
    BY <1>t, NextPeriod DEF DayOf
  <2>3. Reason(full[r])' = Reason(full[r])
    BY <1>1 DEF Reason
  <2>4. DayOf(clock' + retry'[r]) > DayOf(now'[r])
    BY <1>1, <2>1, <2>2
  <2> QED
    BY <1>4, <2>3, <2>4 DEF Honest, DayOf
<1> QED
  BY <1>2, <1>3, <1>4

\* It stays kept while the answer is on its way: time only passes, and entries only leave.
LEMMA HonestStays ==
  ASSUME TypeOK, TypeOK', NEW r \in Requests, Honest(r), now' = now, retry' = retry, full' = full,
         \/ hourSet' = {}
         \/ score' = score /\ hourSet' \subseteq hourSet,
         clock' >= clock
  PROVE  Honest(r)'
<1>t. /\ clock \in Nat /\ clock' \in Nat /\ now[r] \in Nat /\ retry[r] \in Nat
      /\ clock + retry[r] \in Nat /\ clock' + retry[r] \in Nat
  <2>1. clock' \in Nat
    BY TimeNatural DEF TypeOK, Times
  <2> QED
    BY <2>1, ClocksNatural
<1>r. Reason(full[r])' = Reason(full[r])
  BY DEF Reason
<1>1. CASE Reason(full[r]) = "requests_hour"
  <2> DEFINE P == Prune(hourSet, now[r] + retry[r] - Hour)
             Q == Prune(hourSet, now[r] + retry[r] - Hour)'
  <2>1. Q \in SUBSET P /\ P \in SUBSET hourSet
    BY DEF Prune
  <2>2. Cardinality(P) < RequestsPerHour
    <3>1. HourFree(r)
      BY <1>1 DEF Honest
    <3> QED
      BY <3>1 DEF HourFree
  <2> HIDE DEF P, Q
  <2>3. IsFiniteSet(P)
    BY <2>1, HourLoadFinite, FS_Subset
  <2>4. Cardinality(Q) <= Cardinality(P) /\ Cardinality(Q) \in Nat /\ Cardinality(P) \in Nat
    BY <2>1, <2>3, FS_Subset, FS_CardinalityType
  <2>5. Cardinality(Q) < RequestsPerHour
    BY <2>2, <2>4, LimitsPositive
  <2> QED
    <3>1. HourFree(r)'
      BY <2>5 DEF HourFree, Q
    <3> QED
      BY <1>1, <1>r, <3>1 DEF Honest
<1>2. CASE Reason(full[r]) = "tokens_hour"
  <2>1. HourOf(clock + retry[r]) > HourOf(now[r])
    BY <1>2 DEF Honest
  <2>2. HourOf(clock' + retry[r]) \in Nat /\ HourOf(clock + retry[r]) \in Nat
        /\ HourOf(clock + retry[r]) <= HourOf(clock' + retry[r])
    BY <1>t, HoursOrdered
  <2>3. HourOf(now[r]) \in Nat
    BY <1>t, HoursOrdered
  <2>4. HourOf(clock' + retry'[r]) > HourOf(now'[r])
    BY <2>1, <2>2, <2>3
  <2> QED
    BY <1>2, <1>r, <2>4 DEF Honest, HourOf
<1>3. CASE Reason(full[r]) # "requests_hour" /\ Reason(full[r]) # "tokens_hour"
  <2>1. DayOf(clock + retry[r]) > DayOf(now[r])
    BY <1>3 DEF Honest
  <2>2. DayOf(clock' + retry[r]) \in Nat /\ DayOf(clock + retry[r]) \in Nat
        /\ DayOf(clock + retry[r]) <= DayOf(clock' + retry[r])
    BY <1>t, DaysOrdered
  <2>3. DayOf(now[r]) \in Nat
    BY <1>t, DaysOrdered
  <2>4. DayOf(clock' + retry'[r]) > DayOf(now'[r])
    BY <2>1, <2>2, <2>3
  <2> QED
    BY <1>3, <1>r, <2>4 DEF Honest, DayOf
<1> QED
  BY <1>1, <1>2, <1>3

\* A user with one request open at a time who waits as long as the 429 says does not find
\* the limit it reported reached by what is stored.
THEOREM DenialsHonest == Spec => []RetryHonest
<1> DEFINE IInv == Solo /\ SoloBudget /\ RetryHonest
<1>1. TypeOK /\ Init => IInv
  <2> SUFFICES ASSUME TypeOK, Init PROVE IInv
    OBVIOUS
  <2>1. HourLoad = {}
    BY DEF Init, HourLoad, Slots, MayAddHour, Admitted
  <2> QED
    BY <2>1, FS_EmptySet, LimitsPositive DEF Init, Solo, SoloBudget, RetryHonest
<1>2. TypeOK /\ TypeOK' /\ ClocksBehind /\ IInv /\ [Next]_vars => IInv'
  <2> SUFFICES ASSUME TypeOK, TypeOK', ClocksBehind, IInv, [Next]_vars PROVE IInv'
    OBVIOUS
  <2>1. Solo' /\ SoloBudget'
    BY SoloKept, SoloBudgetKept
  <2>2. ASSUME NEW r \in Requests, ~overlapped', pc'[r] = "denied" PROVE Honest(r)'
    <3>1. ~overlapped
      BY <2>2, OverlapStays
    <3>h. pc[r] = "denied" => Honest(r)
      BY <3>1 DEF RetryHonest
    <3>s. \A s \in Requests : pc[s] # "idle" /\ pc[r] # "idle" => s = r
      BY <3>1 DEF Solo
    <3>2. ASSUME NEW s \in Requests, Deny(s) PROVE Honest(r)'
      <4>1. s = r
        BY <2>2, <3>2, <3>s DEF Deny, To, TypeOK
      <4> QED
        BY <3>1, <3>2, <4>1, DenialHonest
    <3>3. ASSUME NEW s \in Requests, Call(s) \/ CallUsage(s) PROVE FALSE
      BY <2>2, <3>3 DEF Call, CallUsage, To, TypeOK
    <3>4. ASSUME NEW s \in Requests,
                 ReadRequests(s) \/ ReadTokens(s) \/ Admit(s) \/ Finish(s)
          PROVE  FALSE
      BY <2>2, <3>4, <3>s DEF ReadRequests, ReadTokens, Admit, Finish, To, TypeOK
    <3>5. ASSUME NEW s \in Requests, Refuse(s) \/ End(s) \/ Fail(s) \/ GetUsage(s) PROVE FALSE
      BY <2>2, <3>5, <3>s DEF Refuse, End, Fail, GetUsage, Leave, To, TypeOK
    <3>6. ASSUME NEW s \in Requests, Log(s) PROVE FALSE
      <4>1. pc[s] = "log" /\ (pc'[s] = "idle" \/ pc' = pc) /\ \A q \in Requests \ {s} : pc'[q] = pc[q]
        BY <3>6 DEF Log, Leave, To, TypeOK
      <4>2. s = r
        BY <2>2, <3>s, <4>1
      <4> QED
        BY <2>2, <4>1, <4>2
    <3>c. clock \in Nat
      BY TimeNatural DEF TypeOK, Times
    <3>7. CASE Reset
      <4>1. /\ now' = now /\ retry' = retry /\ full' = full /\ pc' = pc /\ hourSet' = {}
            /\ clock' = clock
        BY <3>7 DEF Reset, locals
      <4>2. clock' >= clock
        BY <3>c, <4>1
      <4> QED
        BY <2>2, <3>h, <4>1, <4>2, HonestStays
    <3>8. CASE Tick
      <4>1. /\ now' = now /\ retry' = retry /\ full' = full /\ pc' = pc /\ score' = score
            /\ clock' = clock + 1 /\ hourSet' \subseteq hourSet
        BY <3>8 DEF Tick, locals
      <4>2. clock' >= clock
        BY <3>c, <4>1
      <4> QED
        BY <2>2, <3>h, <4>1, <4>2, HonestStays
    <3>9. CASE UNCHANGED vars
      <4>1. /\ now' = now /\ retry' = retry /\ full' = full /\ pc' = pc /\ score' = score
            /\ clock' = clock /\ hourSet' \subseteq hourSet
        BY <3>9 DEF vars, locals, store
      <4>2. clock' >= clock
        BY <3>c, <4>1
      <4> QED
        BY <2>2, <3>h, <4>1, <4>2, HonestStays
    <3> QED
      BY <3>2, <3>3, <3>4, <3>5, <3>6, <3>7, <3>8, <3>9 DEF Next
  <2>3. RetryHonest'
    BY <2>2 DEF RetryHonest
  <2> QED
    BY <2>1, <2>3
<1>3. Init => ClocksBehind
  BY DEF Init, ClocksBehind
<1>4. TypeOK /\ ClocksBehind /\ [Next]_vars => ClocksBehind'
  BY ClocksKept
<1> QED
  BY <1>1, <1>2, <1>3, <1>4, TypeCorrect, PTL DEF Spec

=============================================================================
