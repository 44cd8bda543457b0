------------------------ MODULE ToolRateLimiterProofs ------------------------
(***************************************************************************)
(* Proofs about Layer 1 of the rate limiter, for any number of workers,     *)
(* members, limits and windows.                                             *)
(***************************************************************************)
EXTENDS ToolRateLimiter, FiniteSetTheorems, WellFoundedInduction, TLAPS

\* Members of the callers that have passed the minute check (the hour check) and
\* have not left: each may still be added, or added again, to the set.
PassedMinute == {w \in Workers : pc[w] \in {"hour", "full_hour", "record"}}
PassedHour == {w \in Workers : pc[w] = "record"}

Pending(passed) == {member[w] : w \in passed}

\* Why the bound is inductive: the entries that are stored or may yet be stored
\* are already within it when the last caller passes the check.
MinuteLoad == minute \union Pending(PassedMinute)
HourLoad == hour \union Pending(PassedHour)
MinuteBudget == Cardinality(MinuteLoad) <= MinuteLimit + Overshoot
HourBudget == Cardinality(HourLoad) <= HourLimit + Overshoot

\* No sampled time is in the future, and a key outlives the window of every
\* entry it may hold.
ClocksBehind ==
    /\ \A w \in Workers : now[w] <= clock
    /\ \A m \in recorded : score[m] <= clock
ExpiryCovers ==
    \A m \in recorded : /\ score[m] + MinuteWindow <= minuteExp
                        /\ score[m] + HourWindow <= hourExp

USE DEF Phase, Waiting

\* Every nonempty sorted set has an oldest entry, so ZRANGE key 0 0 is well defined.
LEMMA OldestExists ==
  ASSUME NEW S \in SUBSET Members, S # {}, score \in [Members -> Nat]
  PROVE  \E m \in S : \A n \in S : score[m] <= score[n]
<1> DEFINE T == {score[m] : m \in S}
<1>1. T \subseteq Nat /\ T # {}
  OBVIOUS
<1>2. PICK x \in T : \A y \in T : ~ (<<y, x>> \in OpToRel(<, Nat))
  BY <1>1, NatLessThanWellFounded, WFMin, Zenon
<1>3. \A y \in T : x <= y
  <2> SUFFICES ASSUME NEW y \in T, y < x PROVE FALSE
    BY <1>1
  <2>1. <<y, x>> \in Nat \X Nat /\ <<y, x>>[1] < <<y, x>>[2]
    BY <1>1
  <2>2. <<y, x>> \in OpToRel(<, Nat)
    BY <2>1 DEF OpToRel
  <2> QED
    BY <1>2, <2>2, Zenon
<1> QED
  BY <1>3

\* retry_after is a natural number of seconds, and at least one.
LEMMA RetryAfterPositive ==
  ASSUME NEW S \in SUBSET Members, score \in [Members -> Nat],
         NEW window \in Nat \ {0}, NEW t \in Nat
  PROVE  RetryAfter(S, window, t) \in Nat \ {0}
<1>1. CASE S = {}
  BY <1>1 DEF RetryAfter
<1>2. CASE S # {}
  <2> DEFINE oldest == CHOOSE m \in S : \A n \in S : score[m] <= score[n]
  <2>1. oldest \in S
    BY <1>2, OldestExists
  <2>2. score[oldest] \in Nat
    BY <2>1
  <2> HIDE DEF oldest
  <2> QED
    BY <1>2, <2>2 DEF RetryAfter, oldest
<1> QED
  BY <1>1, <1>2

\* The sorted sets hold recorded members only, and the locals of check_and_increment
\* keep their types, whatever the interleaving.
THEOREM TypeCorrect == Spec => []TypeOK
<1>1. Init => TypeOK
  <2>1. Init => overlapped \in BOOLEAN
    BY DEF Init
  <2>2. QED
    BY <2>1 DEF Init, TypeOK
<1>2. TypeOK /\ [Next]_vars => TypeOK'
  <2> SUFFICES ASSUME TypeOK, [Next]_vars PROVE TypeOK'
    OBVIOUS
  <2> USE LimitsPositive, WindowsPositive, SlackNatural, NoMemberOutside DEF TypeOK
  <2>1. ASSUME NEW w \in Workers, Call(w) PROVE TypeOK'
    BY <2>1 DEF Call
  <2>2. ASSUME NEW w \in Workers, CheckMinute(w) PROVE TypeOK'
    BY <2>2 DEF CheckMinute, Prune
  <2>3. ASSUME NEW w \in Workers, DenyMinute(w) PROVE TypeOK'
    <3>1. RetryAfter(minute, MinuteWindow, now[w]) \in Nat
      BY RetryAfterPositive, minute \in SUBSET Members
    <3> QED
      BY <2>3, <3>1 DEF DenyMinute
  <2>4. ASSUME NEW w \in Workers, CheckHour(w) PROVE TypeOK'
    BY <2>4 DEF CheckHour, Prune
  <2>5. ASSUME NEW w \in Workers, DenyHour(w) PROVE TypeOK'
    <3>1. RetryAfter(hour, HourWindow, now[w]) \in Nat
      BY RetryAfterPositive, hour \in SUBSET Members
    <3> QED
      BY <2>5, <3>1 DEF DenyHour
  <2>6. ASSUME NEW w \in Workers, Record(w) PROVE TypeOK'
    BY <2>6 DEF Record
  <2>7. ASSUME NEW w \in Workers, Return(w) PROVE TypeOK'
    BY <2>7 DEF Return, Leave
  <2>8. ASSUME NEW w \in Workers, Fail(w) PROVE TypeOK'
    BY <2>8 DEF Fail, Leave
  <2>9. ASSUME NEW w \in Workers, CallUsage(w) PROVE TypeOK'
    BY <2>9 DEF CallUsage
  <2>10. ASSUME NEW w \in Workers, GetUsage(w) PROVE TypeOK'
    BY <2>10 DEF GetUsage, Leave, Prune
  <2>11. CASE Reset
    BY <2>11 DEF Reset
  <2>12. CASE Tick
    BY <2>12 DEF Tick, MinuteAt, HourAt
  <2>13. CASE UNCHANGED vars
    BY <2>13 DEF vars
  <2> QED
    BY <2>1, <2>2, <2>3, <2>4, <2>5, <2>6, <2>7, <2>8, <2>9, <2>10, <2>11, <2>12, <2>13 DEF Next
<1> QED
  BY <1>1, <1>2, PTL DEF Spec

-----------------------------------------------------------------------------

\* At most one pending member per worker.
LEMMA PendingSmall ==
  ASSUME NEW P \in SUBSET Workers
  PROVE  /\ IsFiniteSet(Pending(P))
         /\ Cardinality(Pending(P)) <= Cardinality(Workers)
<1> DEFINE Q == Pending(P)
           f == [w \in P |-> member[w]]
<1>1. f \in Surjection(P, Q)
  BY DEF Surjection, Pending
<1>2. IsFiniteSet(P) /\ Cardinality(P) <= Cardinality(Workers)
  BY WorkersFinite, FS_Subset
<1>3. IsFiniteSet(Q) /\ Cardinality(Q) <= Cardinality(P)
  BY <1>1, <1>2, FS_Surjection
<1> HIDE DEF Q
<1>4. Cardinality(P) \in Nat /\ Cardinality(Q) \in Nat /\ Cardinality(Workers) \in Nat
  BY <1>2, <1>3, WorkersFinite, FS_CardinalityType
<1> QED
  BY <1>2, <1>3, <1>4 DEF Q

\* The check that admits a caller leaves room for every worker: what is stored is
\* below the limit and at most one member per worker is pending.
LEMMA AdmissionFits ==
  ASSUME NEW S, IsFiniteSet(S), NEW limit \in Nat \ {0}, Cardinality(S) < limit,
         NEW P, IsFiniteSet(P), Cardinality(P) <= Cardinality(Workers)
  PROVE  Cardinality(S \union P) <= limit + Overshoot
<1>1. Cardinality(S \union P) = Cardinality(S) + Cardinality(P) - Cardinality(S \cap P)
  BY FS_Union
<1>2. IsFiniteSet(S \cap P)
  BY FS_Intersection
<1>3. /\ Cardinality(S) \in Nat /\ Cardinality(P) \in Nat
      /\ Cardinality(S \cap P) \in Nat /\ Cardinality(Workers) \in Nat
  BY <1>2, WorkersFinite, FS_CardinalityType
<1> QED
  BY <1>1, <1>3 DEF Overshoot

\* A smaller set of finite size stays within the same bound.
LEMMA ShrinkFits ==
  ASSUME NEW S, IsFiniteSet(S), NEW T \in SUBSET S, NEW b \in Int, Cardinality(S) <= b
  PROVE  Cardinality(T) <= b
<1>1. IsFiniteSet(T) /\ Cardinality(T) <= Cardinality(S)
  BY FS_Subset
<1>2. Cardinality(T) \in Nat /\ Cardinality(S) \in Nat
  BY <1>1, FS_CardinalityType
<1> QED
  BY <1>1, <1>2

LEMMA BoundsAreIntegers ==
  MinuteLimit + Overshoot \in Int /\ HourLimit + Overshoot \in Int
BY WorkersFinite, LimitsPositive, FS_CardinalityType DEF Overshoot

\* What the sets have and may yet get is finite.
LEMMA LoadsFinite ==
  ASSUME TypeOK
  PROVE  /\ IsFiniteSet(minute) /\ IsFiniteSet(hour)
         /\ IsFiniteSet(MinuteLoad) /\ IsFiniteSet(HourLoad)
<1>1. IsFiniteSet(minute) /\ IsFiniteSet(hour)
  BY MembersFinite, FS_Subset, minute \in SUBSET Members, hour \in SUBSET Members DEF TypeOK
<1>2. IsFiniteSet(Pending(PassedMinute)) /\ IsFiniteSet(Pending(PassedHour))
  BY PendingSmall, PassedMinute \in SUBSET Workers, PassedHour \in SUBSET Workers
     DEF PassedMinute, PassedHour
<1> QED
  BY <1>1, <1>2, FS_Union DEF MinuteLoad, HourLoad

\* No step makes what is stored or pending more, except the check that a caller passes.
LEMMA LoadsShrink ==
  ASSUME TypeOK, [Next]_vars
  PROVE  /\ MinuteLoad' \subseteq MinuteLoad \/ \E w \in Workers : CheckMinute(w) /\ pc'[w] = "hour"
         /\ HourLoad' \subseteq HourLoad \/ \E w \in Workers : CheckHour(w) /\ pc'[w] = "record"
<1> DEFINE Shrinks == MinuteLoad' \subseteq MinuteLoad /\ HourLoad' \subseteq HourLoad
<1> USE DEF TypeOK, MinuteLoad, HourLoad, Pending, PassedMinute, PassedHour
<1>1. ASSUME NEW w \in Workers, Call(w) PROVE Shrinks
  BY <1>1 DEF Call
<1>2. ASSUME NEW w \in Workers, CheckMinute(w), pc'[w] = "full_minute" PROVE Shrinks
  BY <1>2 DEF CheckMinute, Prune
<1>3. ASSUME NEW w \in Workers, CheckMinute(w), pc'[w] = "hour" PROVE HourLoad' \subseteq HourLoad
  BY <1>3 DEF CheckMinute
<1>4. ASSUME NEW w \in Workers, DenyMinute(w) PROVE Shrinks
  BY <1>4 DEF DenyMinute
<1>5. ASSUME NEW w \in Workers, CheckHour(w), pc'[w] = "full_hour" PROVE Shrinks
  BY <1>5 DEF CheckHour, Prune
<1>6. ASSUME NEW w \in Workers, CheckHour(w), pc'[w] = "record" PROVE MinuteLoad' \subseteq MinuteLoad
  BY <1>6 DEF CheckHour
<1>7. ASSUME NEW w \in Workers, DenyHour(w) PROVE Shrinks
  BY <1>7 DEF DenyHour
<1>8. ASSUME NEW w \in Workers, Record(w) PROVE Shrinks
  BY <1>8 DEF Record
<1>9. ASSUME NEW w \in Workers, Return(w) PROVE Shrinks
  BY <1>9 DEF Return, Leave
<1>10. ASSUME NEW w \in Workers, Fail(w) PROVE Shrinks
  BY <1>10 DEF Fail, Leave
<1>11. ASSUME NEW w \in Workers, CallUsage(w) PROVE Shrinks
  BY <1>11 DEF CallUsage
<1>12. ASSUME NEW w \in Workers, GetUsage(w) PROVE Shrinks
  BY <1>12 DEF GetUsage, Leave, Prune
<1>13. ASSUME Reset PROVE Shrinks
  BY <1>13 DEF Reset
<1>14. ASSUME Tick PROVE Shrinks
  BY <1>14 DEF Tick, MinuteAt, HourAt
<1>15. ASSUME UNCHANGED vars PROVE Shrinks
  BY <1>15 DEF vars
<1>16. ASSUME NEW w \in Workers
       PROVE  /\ CheckMinute(w) => pc'[w] \in {"full_minute", "hour"}
              /\ CheckHour(w) => pc'[w] \in {"full_hour", "record"}
  BY DEF CheckMinute, CheckHour
<1> HIDE DEF TypeOK, MinuteLoad, HourLoad, Pending, PassedMinute, PassedHour
<1> QED
  BY <1>1, <1>2, <1>3, <1>4, <1>5, <1>6, <1>7, <1>8, <1>9, <1>10, <1>11, <1>12, <1>13, <1>14,
     <1>15, <1>16 DEF Next

\* A check that a caller passes leaves fewer entries than the limit.
LEMMA PassedBelow ==
  ASSUME TypeOK, NEW w \in Workers
  PROVE  /\ CheckMinute(w) /\ pc'[w] = "hour" =>
               /\ IsFiniteSet(minute') /\ Cardinality(minute') \in Nat
               /\ Cardinality(minute') < MinuteLimit
         /\ CheckHour(w) /\ pc'[w] = "record" =>
               /\ IsFiniteSet(hour') /\ Cardinality(hour') \in Nat
               /\ Cardinality(hour') < HourLimit
<1>1. ASSUME NEW S, NEW T \in SUBSET S, IsFiniteSet(S), NEW limit \in Nat,
             ~ (Cardinality(T) >= limit)
      PROVE  IsFiniteSet(T) /\ Cardinality(T) \in Nat /\ Cardinality(T) < limit
  BY <1>1, FS_Subset, FS_CardinalityType
<1>2. ASSUME CheckMinute(w), pc'[w] = "hour"
      PROVE  minute' \in SUBSET minute /\ ~ (Cardinality(minute') >= MinuteLimit)
  BY <1>2 DEF CheckMinute, Prune, TypeOK
<1>3. ASSUME CheckHour(w), pc'[w] = "record"
      PROVE  hour' \in SUBSET hour /\ ~ (Cardinality(hour') >= HourLimit)
  BY <1>3 DEF CheckHour, Prune, TypeOK
<1> QED
  BY <1>1, <1>2, <1>3, LoadsFinite, LimitsPositive

\* The two budgets are preserved by every step, which is what makes the bound on
\* the stored sets hold although no step checks and adds at once.
THEOREM BudgetKept == Spec => [](MinuteBudget /\ HourBudget)
<1>1. Init => MinuteBudget /\ HourBudget
  <2> SUFFICES ASSUME Init PROVE MinuteBudget /\ HourBudget
    OBVIOUS
  <2>1. MinuteLoad = {} /\ HourLoad = {}
    BY DEF Init, MinuteLoad, HourLoad, Pending, PassedMinute, PassedHour
  <2>2. MinuteLimit + Overshoot >= 0 /\ HourLimit + Overshoot >= 0
    BY WorkersFinite, LimitsPositive, FS_CardinalityType DEF Overshoot
  <2> QED
    BY <2>1, <2>2, FS_EmptySet DEF MinuteBudget, HourBudget
<1>2. ASSUME TypeOK, MinuteBudget, HourBudget, [Next]_vars
      PROVE  (MinuteBudget /\ HourBudget)'
  <2> USE <1>2
  <2>1. ASSUME MinuteLoad' \subseteq MinuteLoad PROVE MinuteBudget'
    <3>1. Cardinality(MinuteLoad') <= MinuteLimit + Overshoot
      BY <2>1, LoadsFinite, ShrinkFits, BoundsAreIntegers DEF MinuteBudget
    <3> QED
      BY <3>1 DEF MinuteBudget, Overshoot
  <2>2. ASSUME HourLoad' \subseteq HourLoad PROVE HourBudget'
    <3>1. Cardinality(HourLoad') <= HourLimit + Overshoot
      BY <2>2, LoadsFinite, ShrinkFits, BoundsAreIntegers DEF HourBudget
    <3> QED
      BY <3>1 DEF HourBudget, Overshoot
  <2>3. ASSUME NEW w \in Workers, CheckMinute(w), pc'[w] = "hour" PROVE MinuteBudget'
    <3>1. IsFiniteSet(minute') /\ Cardinality(minute') < MinuteLimit
      BY <2>3, PassedBelow
    <3> DEFINE P == Pending(PassedMinute')
    <3>2. IsFiniteSet(P) /\ Cardinality(P) <= Cardinality(Workers)
      BY PendingSmall, PassedMinute' \in SUBSET Workers DEF PassedMinute
    <3>3. Pending(PassedMinute)' = P
      BY <2>3 DEF CheckMinute, Pending
    <3> HIDE DEF P
    <3>4. Cardinality(minute' \union P) <= MinuteLimit + Overshoot
      BY <3>1, <3>2, LimitsPositive, AdmissionFits
    <3> QED
      BY <3>3, <3>4 DEF MinuteBudget, MinuteLoad, Overshoot
  <2>4. ASSUME NEW w \in Workers, CheckHour(w), pc'[w] = "record" PROVE HourBudget'
    <3>1. IsFiniteSet(hour') /\ Cardinality(hour') < HourLimit
      BY <2>4, PassedBelow
    <3> DEFINE P == Pending(PassedHour')
    <3>2. IsFiniteSet(P) /\ Cardinality(P) <= Cardinality(Workers)
      BY PendingSmall, PassedHour' \in SUBSET Workers DEF PassedHour
    <3>3. Pending(PassedHour)' = P
      BY <2>4 DEF CheckHour, Pending
    <3> HIDE DEF P
    <3>4. Cardinality(hour' \union P) <= HourLimit + Overshoot
      BY <3>1, <3>2, LimitsPositive, AdmissionFits
    <3> QED
      BY <3>3, <3>4 DEF HourBudget, HourLoad, Overshoot
  <2> QED
    BY <2>1, <2>2, <2>3, <2>4, LoadsShrink
<1> QED
  BY <1>1, <1>2, TypeCorrect, PTL DEF Spec

\* Under any interleaving of any number of callers, neither sorted set ever holds
\* more than its limit plus one entry for each caller but one.
THEOREM StoredBound == Spec => []StoredBounded
<1>1. TypeOK /\ MinuteBudget /\ HourBudget => StoredBounded
  BY LoadsFinite, ShrinkFits, BoundsAreIntegers
     DEF MinuteBudget, HourBudget, MinuteLoad, HourLoad, StoredBounded
<1> QED
  BY <1>1, TypeCorrect, BudgetKept, PTL

-----------------------------------------------------------------------------

\* A call admitted within the last window is always counted: pruning by a caller
\* whose clock is late and the expiry of the keys only ever drop older entries.
THEOREM RecentCounted == Spec => []RecentCallsCounted
<1> DEFINE Inv == ClocksBehind /\ ExpiryCovers /\ RecentCallsCounted
<1>1. Init => Inv
  BY DEF Init, ClocksBehind, ExpiryCovers, RecentCallsCounted
<1>2. TypeOK /\ Inv /\ [Next]_vars => Inv'
  <2> SUFFICES ASSUME TypeOK, Inv, [Next]_vars PROVE Inv'
    OBVIOUS
  <2> USE WindowsPositive, SlackNatural
      DEF TypeOK, ClocksBehind, ExpiryCovers, RecentCallsCounted
  <2>1. ASSUME NEW w \in Workers, Call(w) PROVE Inv'
    BY <2>1 DEF Call
  <2>2. ASSUME NEW w \in Workers, CheckMinute(w) PROVE Inv'
    BY <2>2 DEF CheckMinute, Prune
  <2>3. ASSUME NEW w \in Workers, DenyMinute(w) PROVE Inv'
    BY <2>3 DEF DenyMinute
  <2>4. ASSUME NEW w \in Workers, CheckHour(w) PROVE Inv'
    BY <2>4 DEF CheckHour, Prune
  <2>5. ASSUME NEW w \in Workers, DenyHour(w) PROVE Inv'
    BY <2>5 DEF DenyHour
  <2>6. ASSUME NEW w \in Workers, Record(w) PROVE Inv'
    BY <2>6 DEF Record
  <2>7. ASSUME NEW w \in Workers, Return(w) PROVE Inv'
    BY <2>7 DEF Return, Leave
  <2>8. ASSUME NEW w \in Workers, Fail(w) PROVE Inv'
    BY <2>8 DEF Fail, Leave
  <2>9. ASSUME NEW w \in Workers, CallUsage(w) PROVE Inv'
    BY <2>9 DEF CallUsage
  <2>10. ASSUME NEW w \in Workers, GetUsage(w) PROVE Inv'
    BY <2>10 DEF GetUsage, Leave, Prune
  <2>11. CASE Reset
    BY <2>11 DEF Reset
  <2>12. CASE Tick
    BY <2>12 DEF Tick, MinuteAt, HourAt
  <2>13. CASE UNCHANGED vars
    BY <2>13 DEF vars
  <2> QED
    BY <2>1, <2>2, <2>3, <2>4, <2>5, <2>6, <2>7, <2>8, <2>9, <2>10, <2>11, <2>12, <2>13 DEF Next
<1> QED
  BY <1>1, <1>2, TypeCorrect, PTL DEF Spec

-----------------------------------------------------------------------------

\* As long as no two calls overlapped, one is under way.
Solo == ~overlapped => \A v, w \in Workers : pc[v] # "idle" /\ pc[w] # "idle" => v = w

\* Why a denial can name the moment: without overlap the limits themselves bound what is
\* stored and pending.
SoloBudget ==
    ~overlapped => /\ Cardinality(MinuteLoad) <= MinuteLimit
                   /\ Cardinality(HourLoad) <= HourLimit

\* Only a call makes a worker busy, and a second one is an overlap.
LEMMA SoloKept ==
  ASSUME TypeOK, Solo, [Next]_vars
  PROVE  Solo'
<1> USE DEF TypeOK, Solo
<1>1. ASSUME NEW w \in Workers, Call(w) \/ CallUsage(w) PROVE Solo'
  <2>1. ~overlapped' => \A v \in Workers : pc[v] = "idle"
    BY <1>1, Zenon DEF Call, CallUsage
  <2>2. \A v \in Workers \ {w} : pc'[v] = pc[v]
    BY <1>1 DEF Call, CallUsage
  <2> QED
    BY <2>1, <2>2
<1>2. ASSUME NEW w \in Workers,
             CheckMinute(w) \/ DenyMinute(w) \/ CheckHour(w) \/ DenyHour(w) \/ Record(w)
      PROVE  Solo'
  BY <1>2 DEF CheckMinute, DenyMinute, CheckHour, DenyHour, Record
<1>3. ASSUME NEW w \in Workers, Return(w) \/ Fail(w) \/ GetUsage(w) PROVE Solo'
  BY <1>3 DEF Return, Fail, GetUsage, Leave
<1>4. ASSUME Reset \/ Tick \/ UNCHANGED vars PROVE Solo'
  BY <1>4 DEF Reset, Tick, vars
<1> HIDE DEF TypeOK, Solo
<1> QED
  BY <1>1, <1>2, <1>3, <1>4 DEF Next

\* An overlap is never forgotten.
LEMMA OverlapStays ==
  ASSUME TypeOK, [Next]_vars, overlapped
  PROVE  overlapped'
BY DEF TypeOK, Next, Call, CheckMinute, DenyMinute, CheckHour, DenyHour, Record, Return, Fail,
   CallUsage, GetUsage, Reset, Tick, vars

\* One more element fits into a set that is below its limit.
LEMMA OneMoreFits ==
  ASSUME NEW S, IsFiniteSet(S), NEW limit \in Nat, Cardinality(S) < limit, NEW x,
         NEW T \in SUBSET (S \union {x})
  PROVE  Cardinality(T) <= limit
<1> DEFINE R == S \union {x}
<1>1. /\ IsFiniteSet(R)
      /\ Cardinality(R) = Cardinality(S) \/ Cardinality(R) = Cardinality(S) + 1
  BY FS_AddElement
<1>2. Cardinality(S) \in Nat
  BY FS_CardinalityType
<1> HIDE DEF R
<1>3. Cardinality(R) <= limit
  BY <1>1, <1>2
<1> QED
  BY <1>1, <1>3, ShrinkFits DEF R

\* The check that the only caller passes leaves room for it.
LEMMA SoloBudgetKept ==
  ASSUME TypeOK, TypeOK', Solo, SoloBudget, [Next]_vars
  PROVE  SoloBudget'
<1> SUFFICES ASSUME ~overlapped'
             PROVE  Cardinality(MinuteLoad') <= MinuteLimit /\ Cardinality(HourLoad') <= HourLimit
  BY DEF SoloBudget
<1>1. Cardinality(MinuteLoad) <= MinuteLimit /\ Cardinality(HourLoad) <= HourLimit
  BY OverlapStays DEF SoloBudget
<1>2. MinuteLimit \in Nat /\ HourLimit \in Nat
  BY LimitsPositive
<1>3. \A v, w \in Workers : pc'[v] # "idle" /\ pc'[w] # "idle" => v = w
  BY SoloKept DEF Solo
<1>4. ASSUME MinuteLoad' \subseteq MinuteLoad PROVE Cardinality(MinuteLoad') <= MinuteLimit
  BY <1>1, <1>2, <1>4, LoadsFinite, ShrinkFits
<1>5. ASSUME HourLoad' \subseteq HourLoad PROVE Cardinality(HourLoad') <= HourLimit
  BY <1>1, <1>2, <1>5, LoadsFinite, ShrinkFits
<1>6. ASSUME NEW w \in Workers, CheckMinute(w), pc'[w] = "hour"
      PROVE  Cardinality(MinuteLoad') <= MinuteLimit
  <2>1. IsFiniteSet(minute') /\ Cardinality(minute') < MinuteLimit
    BY <1>6, PassedBelow
  <2>2. MinuteLoad' \in SUBSET (minute' \union {member'[w]})
    BY <1>3, <1>6 DEF MinuteLoad, Pending, PassedMinute
  <2> QED
    BY <1>2, <2>1, <2>2, OneMoreFits
<1>7. ASSUME NEW w \in Workers, CheckHour(w), pc'[w] = "record"
      PROVE  Cardinality(HourLoad') <= HourLimit
  <2>1. IsFiniteSet(hour') /\ Cardinality(hour') < HourLimit
    BY <1>7, PassedBelow
  <2>2. HourLoad' \in SUBSET (hour' \union {member'[w]})
    BY <1>3, <1>7 DEF HourLoad, Pending, PassedHour
  <2> QED
    BY <1>2, <2>1, <2>2, OneMoreFits
<1> QED
  BY <1>4, <1>5, <1>6, <1>7, LoadsShrink

\* After retry_after the oldest entry has left the window, so that a set that was within
\* its limit is below it.
LEMMA OldestLeaves ==
  ASSUME NEW S \in SUBSET Members, IsFiniteSet(S), score \in [Members -> Nat],
         NEW limit \in Nat \ {0}, Cardinality(S) <= limit,
         NEW window \in Nat \ {0}, NEW t \in Nat
  PROVE  Cardinality(Prune(S, t + RetryAfter(S, window, t) - window)) < limit
<1> DEFINE d == RetryAfter(S, window, t)
           P == Prune(S, t + d - window)
<1>1. CASE S = {}
  <2>1. P = {}
    BY <1>1 DEF Prune
  <2> HIDE DEF P
  <2>2. Cardinality(P) < limit
    BY <2>1, FS_EmptySet
  <2> QED
    BY <2>2 DEF P
<1>2. CASE S # {}
  <2> DEFINE oldest == CHOOSE m \in S : \A n \in S : score[m] <= score[n]
  <2>1. oldest \in S
    BY <1>2, OldestExists, Zenon
  <2>2. score[oldest] \in Nat
    BY <2>1
  <2>3. d = LET wait == window - (t - score[oldest]) + 1 IN IF wait < 1 THEN 1 ELSE wait
    BY <1>2, Zenon DEF RetryAfter
  <2> HIDE DEF oldest, d
  <2>4. ~ (score[oldest] > t + d - window)
    BY <2>2, <2>3
  <2>5. P \in SUBSET (S \ {oldest})
    BY <2>4 DEF Prune
  <2> HIDE DEF P
  <2> DEFINE R == S \ {oldest}
  <2>6. IsFiniteSet(R) /\ Cardinality(R) = Cardinality(S) - 1
    BY <2>1, FS_RemoveElement
  <2> HIDE DEF R
  <2>7. Cardinality(P) <= Cardinality(R) /\ Cardinality(P) \in Nat
    BY <2>5, <2>6, FS_Subset, FS_CardinalityType DEF R
  <2>8. Cardinality(S) \in Nat
    BY FS_CardinalityType
  <2>9. Cardinality(P) < limit
    BY <2>6, <2>7, <2>8
  <2> QED
    BY <2>9 DEF P, d
<1> QED
  BY <1>1, <1>2

\* Fewer entries keep it true.
LEMMA FewerOpen ==
  ASSUME NEW S, IsFiniteSet(S), NEW T \in SUBSET S, NEW x, NEW limit \in Nat,
         Cardinality(Prune(S, x)) < limit
  PROVE  Cardinality(Prune(T, x)) < limit
<1> DEFINE P == Prune(S, x)
           Q == Prune(T, x)
<1>1. Q \in SUBSET P /\ P \in SUBSET S
  BY DEF Prune
<1> HIDE DEF P, Q
<1>2. IsFiniteSet(P)
  BY <1>1, FS_Subset
<1>3. Cardinality(Q) <= Cardinality(P) /\ Cardinality(Q) \in Nat /\ Cardinality(P) \in Nat
  BY <1>1, <1>2, FS_Subset, FS_CardinalityType
<1>4. Cardinality(P) < limit
  BY DEF P
<1>5. Cardinality(Q) < limit
  BY <1>3, <1>4
<1> QED
  BY <1>5 DEF Q

\* It stays true while the answer is on its way: entries only leave.
LEMMA OpensStays ==
  ASSUME NEW w, NEW S, IsFiniteSet(S), NEW T \in SUBSET S, NEW window, NEW limit \in Nat,
         Opens(w, S, window, limit), now' = now, retry' = retry, score' = score
  PROVE  Opens(w, T, window, limit)'
<1>1. Cardinality(Prune(T, now[w] + retry[w] - window)) < limit
  BY FewerOpen DEF Opens
<1>2. Prune(T, now[w] + retry[w] - window)' = Prune(T, now[w] + retry[w] - window)
  BY DEF Prune
<1> QED
  BY <1>1, <1>2 DEF Opens

\* As long as calls do not overlap, retry_after is the time after which the set that
\* denied the caller is below its limit.
THEOREM RetryTrue == Spec => []RetryOpensSlot
<1> DEFINE IInv == Solo /\ SoloBudget /\ RetryOpensSlot
<1>1. Init => IInv
  <2> SUFFICES ASSUME Init PROVE IInv
    OBVIOUS
  <2>1. MinuteLoad = {} /\ HourLoad = {}
    BY DEF Init, MinuteLoad, HourLoad, Pending, PassedMinute, PassedHour
  <2> QED
    BY <2>1, FS_EmptySet, LimitsPositive DEF Init, Solo, SoloBudget, RetryOpensSlot
<1>2. TypeOK /\ TypeOK' /\ IInv /\ [Next]_vars => IInv'
  <2> SUFFICES ASSUME TypeOK, TypeOK', IInv, [Next]_vars PROVE IInv'
    OBVIOUS
  <2>1. Solo' /\ SoloBudget'
    BY SoloKept, SoloBudgetKept
  <2>2. ASSUME NEW w \in Workers, ~overlapped'
        PROVE  /\ pc'[w] = "denied_minute" => Opens(w, minute, MinuteWindow, MinuteLimit)'
               /\ pc'[w] = "denied_hour" => Opens(w, hour, HourWindow, HourLimit)'
    <3> DEFINE Goal == /\ pc'[w] = "denied_minute" => Opens(w, minute, MinuteWindow, MinuteLimit)'
                       /\ pc'[w] = "denied_hour" => Opens(w, hour, HourWindow, HourLimit)'
    <3>1. ~overlapped
      BY <2>2, OverlapStays
    <3>h. /\ pc[w] = "denied_minute" => Opens(w, minute, MinuteWindow, MinuteLimit)
          /\ pc[w] = "denied_hour" => Opens(w, hour, HourWindow, HourLimit)
      BY <3>1 DEF RetryOpensSlot
    <3>s. \A v \in Workers : pc[v] # "idle" /\ pc[w] # "idle" => v = w
      BY <3>1 DEF Solo
    <3>f. /\ IsFiniteSet(minute) /\ IsFiniteSet(hour)
          /\ Cardinality(minute) <= MinuteLimit /\ Cardinality(hour) <= HourLimit
          /\ MinuteLimit \in Nat \ {0} /\ HourLimit \in Nat \ {0}
      <4>1. Cardinality(MinuteLoad) <= MinuteLimit /\ Cardinality(HourLoad) <= HourLimit
        BY <3>1 DEF SoloBudget
      <4>2. minute \in SUBSET MinuteLoad /\ hour \in SUBSET HourLoad
        BY DEF MinuteLoad, HourLoad
      <4> QED
        BY <4>1, <4>2, LoadsFinite, ShrinkFits, LimitsPositive
    <3>t. /\ minute \in SUBSET Members /\ hour \in SUBSET Members /\ score \in [Members -> Nat]
          /\ \A v \in Workers : now[v] \in Nat
      BY DEF TypeOK
    <3>2. ASSUME NEW v \in Workers, DenyMinute(v) PROVE Goal
      <4>1. v = w \/ pc'[w] = "idle"
        BY <3>2, <3>s DEF DenyMinute, TypeOK
      <4>2. CASE v = w
        <5>1. Cardinality(Prune(minute, now[w] + RetryAfter(minute, MinuteWindow, now[w]) - MinuteWindow))
                < MinuteLimit
          BY <3>f, <3>t, WindowsPositive, OldestLeaves
        <5>2. /\ pc'[w] = "denied_minute" /\ minute' = minute /\ now' = now /\ score' = score
              /\ retry'[w] = RetryAfter(minute, MinuteWindow, now[w])
          BY <3>2, <4>2 DEF DenyMinute, TypeOK
        <5>3. Opens(w, minute, MinuteWindow, MinuteLimit)'
          BY <5>1, <5>2 DEF Opens, Prune
        <5> QED
          BY <5>2, <5>3
      <4> QED
        BY <4>1, <4>2
    <3>3. ASSUME NEW v \in Workers, DenyHour(v) PROVE Goal
      <4>1. v = w \/ pc'[w] = "idle"
        BY <3>3, <3>s DEF DenyHour, TypeOK
      <4>2. CASE v = w
        <5>1. Cardinality(Prune(hour, now[w] + RetryAfter(hour, HourWindow, now[w]) - HourWindow))
                < HourLimit
          BY <3>f, <3>t, WindowsPositive, OldestLeaves
        <5>2. /\ pc'[w] = "denied_hour" /\ hour' = hour /\ now' = now /\ score' = score
              /\ retry'[w] = RetryAfter(hour, HourWindow, now[w])
          BY <3>3, <4>2 DEF DenyHour, TypeOK
        <5>3. Opens(w, hour, HourWindow, HourLimit)'
          BY <5>1, <5>2 DEF Opens, Prune
        <5> QED
          BY <5>2, <5>3
      <4> QED
        BY <4>1, <4>2
    <3>4. ASSUME NEW v \in Workers,
                 CheckMinute(v) \/ CheckHour(v) \/ Record(v)
          PROVE  Goal
      BY <3>4, <3>s DEF CheckMinute, CheckHour, Record, TypeOK
    <3>5. ASSUME NEW v \in Workers, Return(v) \/ Fail(v) \/ GetUsage(v) PROVE Goal
      BY <3>5, <3>s DEF Return, Fail, GetUsage, Leave, TypeOK
    <3>6. ASSUME NEW v \in Workers, Call(v) \/ CallUsage(v) PROVE Goal
      <4>1. \A u \in Workers : pc[u] = "idle"
        BY <2>2, <3>6, Zenon DEF Call, CallUsage
      <4> QED
        BY <3>6, <4>1 DEF Call, CallUsage, TypeOK
    <3>7. ASSUME Reset \/ Tick \/ UNCHANGED vars PROVE Goal
      <4>1. /\ minute' \in SUBSET minute /\ hour' \in SUBSET hour /\ pc' = pc
            /\ now' = now /\ retry' = retry /\ score' = score
        BY <3>7 DEF Reset, Tick, MinuteAt, HourAt, vars
      <4>2. PICK M, M1, H, H1 \in SUBSET Members :
               /\ M = minute /\ M1 = minute' /\ M1 \in SUBSET M
               /\ H = hour /\ H1 = hour' /\ H1 \in SUBSET H
        BY <3>t, <4>1
      <4>3. ASSUME pc'[w] = "denied_minute" PROVE Opens(w, minute, MinuteWindow, MinuteLimit)'
        <5>1. Opens(w, M, MinuteWindow, MinuteLimit) /\ IsFiniteSet(M)
          BY <3>f, <3>h, <4>1, <4>2, <4>3
        <5>2. Opens(w, M1, MinuteWindow, MinuteLimit)'
          BY <3>f, <4>1, <4>2, <5>1, OpensStays
        <5> QED
          BY <4>2, <5>2 DEF Opens, Prune
      <4>4. ASSUME pc'[w] = "denied_hour" PROVE Opens(w, hour, HourWindow, HourLimit)'
        <5>1. Opens(w, H, HourWindow, HourLimit) /\ IsFiniteSet(H)
          BY <3>f, <3>h, <4>1, <4>2, <4>4
        <5>2. Opens(w, H1, HourWindow, HourLimit)'
          BY <3>f, <4>1, <4>2, <5>1, OpensStays
        <5> QED
          BY <4>2, <5>2 DEF Opens, Prune
      <4> QED
        BY <4>3, <4>4
    <3> HIDE DEF Goal
    <3>8. Goal
      BY <3>2, <3>3, <3>4, <3>5, <3>6, <3>7 DEF Next
    <3> QED
      BY <3>8 DEF Goal
  <2>3. RetryOpensSlot'
    BY <2>2 DEF RetryOpensSlot
  <2> QED
    BY <2>1, <2>3
<1> QED
  BY <1>1, <1>2, TypeCorrect, PTL DEF Spec

=============================================================================
