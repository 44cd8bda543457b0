---------------------------- MODULE ToolNodeProofs ----------------------------
(***************************************************************************)
(* Proofs about tool_node, for every batch, set of providers and number of  *)
(* answers, replays and aborted runs.                                       *)
(***************************************************************************)
EXTENDS ToolNode, FiniteSetTheorems, SequenceTheorems, TLAPS

Validating == {"validate", "auth", "recheck", "rate", "recheck_rate"}

\* How many questions of a pass come before the confirmation of call c.
Rank(S, c) == Cardinality({d \in S : d < c})

\* The locals of a pass that has not begun, or has not reached the providers.
FreshInv ==
    /\ pc \notin Steps => i = 1 /\ asked = 0
    /\ pc \notin Steps \ {"confirm"} => checked = {} /\ validated = {}

\* The providers of the calls already passed are validated, the current one is
\* being checked.
ValidationInv ==
    /\ pc \in Validating =>
         /\ checked = validated \union (IF pc = "validate" THEN {} ELSE {Provider})
         /\ \A c \in Calls : c < i => provider[c] \in checked \union {NoProvider}
    /\ ValidatedBeforeExecution

\* Phase 2 has collected one result for every call it has passed.
OutputInv ==
    /\ pc = "exec" => \A c \in Calls : c < i => out[c] = "result"
    /\ AllAnsweredOrOneRefused

\* The answer at the position of a confirmation was given to that confirmation,
\* and, unless it was a refusal, the call counts as approved.
AnswersInv ==
    \A c \in destructive : Rank(destructive, c) < Len(answers) =>
        /\ answers[Rank(destructive, c) + 1].to = <<"confirm", c>>
        /\ answers[Rank(destructive, c) + 1].decision \notin Refusals => c \in approved

\* How far a pass has come in the answers, and which confirmations it found approved.
PositionInv ==
    /\ pc = "confirm" =>
         /\ asked = Rank(destructive, i)
         /\ \A c \in destructive : c < i => c \in approved
    /\ pc \in Steps \ {"confirm"} =>
         /\ asked >= Cardinality(destructive)
         /\ destructive \subseteq approved

\* The position at which the answer to the pending interrupt belongs; `extra` is 1
\* when that answer has been given and the node runs again.
PendingAt(extra) ==
    /\ pending # None
    /\ IF pending.kind = "confirm"
         THEN /\ pending.call \in destructive
              /\ Len(answers) = Rank(destructive, pending.call) + extra
         ELSE Len(answers) >= Cardinality(destructive) + extra

PendingInv ==
    /\ pc = "interrupted" => PendingAt(0)
    /\ pc \in Steps \union {"crashed"} /\ answers # <<>> => PendingAt(1)

IInv ==
    /\ TypeOK /\ FreshInv /\ ValidationInv /\ OutputInv
    /\ AnswersInv /\ PositionInv /\ PendingInv

-----------------------------------------------------------------------------
(* Positions of the confirmations among the answers.                       *)

LEMMA RankFinite ==
  ASSUME NEW S \in SUBSET Calls, NEW n \in Nat
  PROVE  /\ IsFiniteSet(S) /\ Cardinality(S) \in Nat
         /\ IsFiniteSet({d \in S : d < n}) /\ Rank(S, n) \in Nat
<1>1. IsFiniteSet(Calls)
  BY NCallsPositive, FS_Interval DEF Calls
<1>2. IsFiniteSet(S) /\ IsFiniteSet({d \in S : d < n})
  BY <1>1, FS_Subset
<1> QED
  BY <1>2, FS_CardinalityType DEF Rank

\* Rank counts the destructive calls one by one, from none to all of them.
LEMMA RankStart ==
  ASSUME NEW S \in SUBSET Calls
  PROVE  Rank(S, 1) = 0
<1>0. \A d \in S : d \in Nat /\ 1 <= d /\ d <= NCalls
  BY NCallsPositive DEF Calls
<1>1. {d \in S : d < 1} = {}
  BY <1>0
<1> QED
  BY <1>1, FS_EmptySet DEF Rank

LEMMA RankEnd ==
  ASSUME NEW S \in SUBSET Calls, NEW n \in Nat, n > NCalls
  PROVE  Rank(S, n) = Cardinality(S)
<1>0. \A d \in S : d \in Nat /\ 1 <= d /\ d <= NCalls
  BY NCallsPositive DEF Calls
<1>1. {d \in S : d < n} = S
  <2>1. \A e \in Nat : e \in {d \in S : d < n} <=> e \in S
    BY <1>0, NCallsPositive
  <2>2. {d \in S : d < n} \subseteq Nat /\ S \subseteq Nat
    BY <1>0
  <2> QED
    BY <2>1, <2>2
<1> QED
  BY <1>1 DEF Rank

LEMMA RankStep ==
  ASSUME NEW S \in SUBSET Calls, NEW n \in Calls
  PROVE  Rank(S, n + 1) = IF n \in S THEN Rank(S, n) + 1 ELSE Rank(S, n)
<1>0. \A d \in S : d \in Nat /\ 1 <= d /\ d <= NCalls
  BY NCallsPositive DEF Calls
<1>n. n \in Nat
  BY NCallsPositive DEF Calls
<1>1. CASE n \in S
  <2>1. {d \in S : d < n + 1} = {d \in S : d < n} \union {n}
    <3>1. \A e \in Nat : e \in {d \in S : d < n + 1} <=> e \in {d \in S : d < n} \union {n}
      BY <1>0, <1>1, <1>n
    <3>2. {d \in S : d < n + 1} \subseteq Nat /\ {d \in S : d < n} \union {n} \subseteq Nat
      BY <1>0, <1>1, <1>n
    <3> QED
      BY <3>1, <3>2
  <2>2. n \notin {d \in S : d < n}
    BY <1>n
  <2> QED
    BY <1>1, <1>n, <2>1, <2>2, RankFinite, FS_AddElement DEF Rank
<1>2. CASE n \notin S
  <2>1. {d \in S : d < n + 1} = {d \in S : d < n}
    <3>1. \A e \in Nat : e \in {d \in S : d < n + 1} <=> e \in {d \in S : d < n}
      BY <1>0, <1>2, <1>n
    <3>2. {d \in S : d < n + 1} \subseteq Nat /\ {d \in S : d < n} \subseteq Nat
      BY <1>0, <1>2, <1>n
    <3> QED
      BY <3>1, <3>2
  <2> QED
    BY <1>2, <2>1 DEF Rank
<1> QED
  BY <1>1, <1>2

\* A call that comes earlier has a smaller rank, and every rank of a member is
\* below the number of members.
LEMMA RankLess ==
  ASSUME NEW S \in SUBSET Calls, NEW c \in S, NEW n \in Nat, c < n
  PROVE  Rank(S, c) < Rank(S, n)
<1>0. \A d \in S : d \in Nat /\ 1 <= d /\ d <= NCalls
  BY NCallsPositive DEF Calls
<1>1. {d \in S : d < c} \subseteq {d \in S : d < n} /\ c \in {d \in S : d < n}
  BY <1>0
<1>2. c \in Nat /\ c \notin {d \in S : d < c}
  BY <1>0
<1>3. {d \in S : d < c} # {d \in S : d < n}
  BY <1>1, <1>2
<1> QED
  BY <1>1, <1>2, <1>3, RankFinite, FS_Subset DEF Rank

LEMMA RankInjective ==
  ASSUME NEW S \in SUBSET Calls, NEW c \in S, NEW d \in S, Rank(S, c) = Rank(S, d)
  PROVE  c = d
<1>0. \A e \in S : e \in Nat /\ 1 <= e /\ e <= NCalls
  BY NCallsPositive DEF Calls
<1>1. c \in Nat /\ d \in Nat /\ Rank(S, c) \in Nat /\ Rank(S, d) \in Nat
  BY <1>0, RankFinite
<1>2. ~(c < d) /\ ~(d < c)
  BY <1>1, RankLess
<1> QED
  BY <1>1, <1>2

LEMMA RankBelow ==
  ASSUME NEW S \in SUBSET Calls, NEW c \in S
  PROVE  Rank(S, c) < Cardinality(S)
<1>0. \A d \in S : d \in Nat /\ 1 <= d /\ d <= NCalls
  BY NCallsPositive DEF Calls
<1>1. c \in Nat /\ NCalls + 1 \in Nat /\ c < NCalls + 1 /\ NCalls + 1 > NCalls
  BY <1>0, NCallsPositive
<1> QED
  BY <1>1, RankLess, RankEnd

-----------------------------------------------------------------------------

USE NCallsPositive, NoProviderOutside, DecisionsKnown, NoneOutside
USE DEF Calls, Steps, Kinds, Refusals, Provider, MoreCalls, FreshPass, locals, batch, history

\* The message lists the node returns.
LEMMA MessagesTyped ==
  /\ NoOutput \in CallSet
  /\ CancelAll \in CallSet
  /\ \A p : RefuseProvider(p) \in CallSet
BY DEF NoOutput, CancelAll, RefuseProvider, CallSet

\* An interrupt is raised about the current call.
LEMMA RaiseTyped ==
  ASSUME NEW kind \in Kinds, i \in Calls, Raise(kind)
  PROVE  pending' \in PendingType /\ pending' # None
BY DEF Raise, InterruptId, PendingType, Question

\* The next stored answer is a decision.
LEMMA AnswerTyped ==
  ASSUME answers \in Seq(AnswerRecord), asked \in Nat, Answered
  PROVE  Answer \in Decisions
<1>1. answers[asked + 1] \in AnswerRecord
  BY DEF Answered
<1> QED
  BY <1>1 DEF Answer, AnswerRecord

\* The answers after a resume, and after a run that died.
LEMMA AnswersTyped ==
  ASSUME answers \in Seq(AnswerRecord)
  PROVE  /\ \A kind \in Kinds, c \in Calls, d \in Decisions :
               Append(answers, [to |-> <<kind, c>>, decision |-> d]) \in Seq(AnswerRecord)
         /\ answers # <<>> =>
               /\ Len(answers) >= 1
               /\ SubSeq(answers, 1, Len(answers) - 1) \in Seq(AnswerRecord)
               /\ Len(SubSeq(answers, 1, Len(answers) - 1)) = Len(answers) - 1
               /\ \A k \in 1..(Len(answers) - 1) :
                     SubSeq(answers, 1, Len(answers) - 1)[k] = answers[k]
<1>1. ASSUME NEW kind \in Kinds, NEW c \in Calls, NEW d \in Decisions
      PROVE  [to |-> <<kind, c>>, decision |-> d] \in AnswerRecord
  BY DEF AnswerRecord, Question
<1>2. answers # <<>> => Len(answers) >= 1
  OBVIOUS
<1>3. ASSUME NEW kind \in Kinds, NEW c \in Calls, NEW d \in Decisions
      PROVE  Append(answers, [to |-> <<kind, c>>, decision |-> d]) \in Seq(AnswerRecord)
  <2> DEFINE a == [to |-> <<kind, c>>, decision |-> d]
  <2>1. a \in AnswerRecord
    BY <1>1
  <2> HIDE DEF a
  <2>2. Append(answers, a) \in Seq(AnswerRecord)
    BY <2>1
  <2> QED
    BY <2>2 DEF a
<1>4. ASSUME answers # <<>>
      PROVE  /\ SubSeq(answers, 1, Len(answers) - 1) \in Seq(AnswerRecord)
             /\ Len(SubSeq(answers, 1, Len(answers) - 1)) = Len(answers) - 1
             /\ \A k \in 1..(Len(answers) - 1) :
                   SubSeq(answers, 1, Len(answers) - 1)[k] = answers[k]
  <2> DEFINE n == Len(answers) - 1
  <2>1. n \in Nat /\ \A k \in 1..n : answers[k] \in AnswerRecord
    BY <1>2, <1>4
  <2>2. n \in Int /\ 1 \in Int
    BY <2>1
  <2> HIDE DEF n
  <2>3. /\ SubSeq(answers, 1, n) \in Seq(AnswerRecord)
        /\ Len(SubSeq(answers, 1, n)) = (IF 1 <= n THEN n - 1 + 1 ELSE 0)
        /\ \A k \in 1..(n - 1 + 1) : SubSeq(answers, 1, n)[k] = answers[1 + k - 1]
    BY <2>1, <2>2, SubSeqProperties
  <2>4. /\ Len(SubSeq(answers, 1, n)) = n
        /\ \A k \in 1..n : SubSeq(answers, 1, n)[k] = answers[k]
    BY <2>1, <2>3
  <2> QED
    BY <2>3, <2>4 DEF n
<1> QED
  BY <1>2, <1>3, <1>4

\* How often the tool of a call ran is a number.
LEMMA ExecutedTyped ==
  ASSUME executed \in [Calls -> Nat], NEW c \in Calls
  PROVE  [executed EXCEPT ![c] = @ + 1] \in [Calls -> Nat]
OBVIOUS

\* The parts of a pending interrupt.
LEMMA PendingTyped ==
  ASSUME pending \in PendingType
  PROVE  pending.kind \in Kinds /\ pending.call \in Calls
BY DEF PendingType

\* Every step keeps the types of the node's locals, of the stored answers and of
\* the pending interrupt.
THEOREM TypeCorrect == Spec => []TypeOK
<1>1. Init => TypeOK
  BY MessagesTyped DEF Init, TypeOK
<1>2. TypeOK /\ [Next]_vars => TypeOK'
  <2> SUFFICES ASSUME TypeOK, [Next]_vars PROVE TypeOK'
    OBVIOUS
  <2> USE DEF TypeOK
  <2> USE MessagesTyped, RaiseTyped, AnswerTyped
  <2>1. CASE ConfirmSkip
    BY <2>1 DEF ConfirmSkip
  <2>2. CASE Confirm
    <3>1. CASE Raise("confirm")
      BY <2>2, <3>1 DEF Confirm, Raise
    <3>2. CASE Answered /\ Return(CancelAll)
      BY <2>2, <3>2 DEF Confirm, Answered, Return
    <3>3. CASE /\ Answered
               /\ i' = i + 1 /\ asked' = asked + 1 /\ resumeVal' = Answer
               /\ UNCHANGED <<pc, out, checked, validated>>
      BY <2>2, <3>3 DEF Confirm, Answered
    <3>. QED
      BY <2>2, <3>1, <3>2, <3>3 DEF Confirm
  <2>3. CASE ConfirmEnd
    BY <2>3 DEF ConfirmEnd
  <2>4. CASE ValidateSkip
    BY <2>4 DEF ValidateSkip
  <2>5. CASE Resolve
    BY <2>5 DEF Resolve
  <2>6. CASE AskAuth
    <3>1. CASE Raise("auth")
      BY <2>6, <3>1 DEF AskAuth, Raise
    <3>2. CASE Answered /\ Return(CancelAll)
      BY <2>6, <3>2 DEF AskAuth, Answered, Return
    <3>3. CASE /\ Answered
               /\ asked' = asked + 1 /\ resumeVal' = Answer
               /\ pc' = "recheck"
               /\ UNCHANGED <<out, i, checked, validated>>
      BY <2>6, <3>3 DEF AskAuth, Answered
    <3>. QED
      BY <2>6, <3>1, <3>2, <3>3 DEF AskAuth
  <2>7. CASE ResolveAgain
    <3>1. CASE Provider \in connected
      BY <2>7, <3>1 DEF ResolveAgain
    <3>2. CASE Provider \notin connected
      BY <2>7, <3>2 DEF ResolveAgain, Return
    <3> QED
      BY <3>1, <3>2
  <2>8. CASE RatePassed
    BY <2>8 DEF RatePassed, Validated
  <2>9. CASE RateDenied
    BY <2>9 DEF RateDenied, Raise, Answered, Return
  <2>10. CASE RateDeniedAgain
    BY <2>10 DEF RateDeniedAgain, Return
  <2>11. CASE ValidateEnd
    BY <2>11 DEF ValidateEnd
  <2>12. CASE Execute
    <3>1. executed' \in [Calls -> Nat]
      BY <2>12, ExecutedTyped DEF Execute
    <3>2. out' \in CallSet
      BY <2>12 DEF Execute, CallSet
    <3> QED
      BY <2>12, <3>1, <3>2 DEF Execute
  <2>13. CASE ExecuteRejected
    <3>1. executed' \in [Calls -> Nat]
      BY <2>13, ExecutedTyped DEF ExecuteRejected
    <3>2. CASE Raise("reauth")
      BY <2>13, <3>1, <3>2 DEF ExecuteRejected, Raise
    <3>3. CASE Answered
      <4>1. out' \in CallSet
        BY <2>13, <3>3 DEF ExecuteRejected, Raise, Answered, CallSet
      <4>2. CASE Raise("reauth")
        BY <3>2, <4>2
      <4>3. CASE /\ i' = i + 1 /\ asked' = asked + 1
                 /\ UNCHANGED <<pc, resumeVal, checked, validated>>
        BY <2>13, <3>1, <3>3, <4>1, <4>3 DEF ExecuteRejected, Answered
      <4> QED
        BY <2>13, <4>2, <4>3 DEF ExecuteRejected
    <3> QED
      BY <2>13, <3>2, <3>3 DEF ExecuteRejected
  <2>14. CASE ExecuteAsks
    <3>1. CASE Raise("workflow")
      BY <2>14, <3>1 DEF ExecuteAsks, Raise
    <3>2. CASE Answered
      <4>1. out' \in CallSet
        BY <2>14, <3>2 DEF ExecuteAsks, Raise, Answered, CallSet
      <4>2. CASE Raise("workflow")
        BY <3>1, <4>2
      <4>3. CASE asked' = asked + 1 /\ i' \in {i, i + 1}
                 /\ UNCHANGED <<pc, resumeVal, checked, validated>>
        BY <2>14, <3>2, <4>1, <4>3 DEF ExecuteAsks, Answered
      <4> QED
        BY <2>14, <4>2, <4>3 DEF ExecuteAsks
    <3> QED
      BY <2>14, <3>1, <3>2 DEF ExecuteAsks
  <2>15. CASE ExecuteEnd
    BY <2>15 DEF ExecuteEnd, Return
  <2>16. ASSUME NEW d \in Decisions, Resume(d) PROVE TypeOK'
    <3>1. pending.kind \in Kinds /\ pending.call \in Calls
      BY <2>16, PendingTyped DEF Resume
    <3>2. answers' \in Seq(AnswerRecord)
      BY <2>16, <3>1, AnswersTyped DEF Resume
    <3>3. approved' \subseteq Calls
      BY <2>16, <3>1 DEF Resume, Confirmed
    <3>4. Len(answers') = Len(answers) + 1
      BY <2>16 DEF Resume
    <3>5. pc = "interrupted" /\ pc' = "confirm" /\ pending' = pending
      BY <2>16 DEF Resume
    <3> QED
      BY <2>16, <3>2, <3>3, <3>4, <3>5 DEF Resume
  <2>17. CASE Abort
    <3>1. CASE answers = <<>>
      BY <2>17, <3>1 DEF Abort, LastCheckpoint
    <3>2. CASE answers # <<>>
      <4>1. answers' \in Seq(AnswerRecord) /\ pending # None
        BY <2>17, <3>2, AnswersTyped DEF Abort, LastCheckpoint
      <4> QED
        BY <2>17, <3>2, <4>1 DEF Abort, LastCheckpoint
    <3> QED
      BY <3>1, <3>2
  <2>18. CASE CrashReported
    <3>1. CASE answers = <<>>
      BY <2>18, <3>1 DEF CrashReported, LastCheckpoint
    <3>2. CASE answers # <<>>
      <4>1. answers' \in Seq(AnswerRecord) /\ pending # None
        BY <2>18, <3>2, AnswersTyped DEF CrashReported, LastCheckpoint
      <4> QED
        BY <2>18, <3>2, <4>1 DEF CrashReported, LastCheckpoint
    <3> QED
      BY <3>1, <3>2
  <2>19. CASE NewMessage
    BY <2>19 DEF NewMessage
  <2>20. ASSUME NEW p \in Providers, Connect(p) \/ Disconnect(p) PROVE TypeOK'
    BY <2>20 DEF Connect, Disconnect
  <2>21. CASE UNCHANGED vars
    BY <2>21 DEF vars
  <2> QED
    BY <2>1, <2>2, <2>3, <2>4, <2>5, <2>6, <2>7, <2>8, <2>9, <2>10, <2>11, <2>12, <2>13,
       <2>14, <2>15, <2>16, <2>17, <2>18, <2>19, <2>20, <2>21 DEF Next, NodeStep
<1> QED
  BY <1>1, <1>2, PTL DEF Spec

-----------------------------------------------------------------------------

\* A pass starts with fresh locals, however the previous one ended.
LEMMA FreshKept ==
  ASSUME TypeOK, FreshInv, [Next]_vars
  PROVE  FreshInv'
<1> USE DEF TypeOK, FreshInv
<1>1. CASE ConfirmSkip
  BY <1>1 DEF ConfirmSkip
<1>2. CASE Confirm
  BY <1>2 DEF Confirm, Raise, Answered, Return
<1>3. CASE ConfirmEnd
  BY <1>3 DEF ConfirmEnd
<1>4. CASE ValidateSkip
  BY <1>4 DEF ValidateSkip
<1>5. CASE Resolve
  BY <1>5 DEF Resolve
<1>6. CASE AskAuth
  BY <1>6 DEF AskAuth, Raise, Answered, Return
<1>7. CASE ResolveAgain
  BY <1>7 DEF ResolveAgain, Return
<1>8. CASE RatePassed
  BY <1>8 DEF RatePassed, Validated
<1>9. CASE RateDenied
  BY <1>9 DEF RateDenied, Raise, Answered, Return
<1>10. CASE RateDeniedAgain
  BY <1>10 DEF RateDeniedAgain, Return
<1>11. CASE ValidateEnd
  BY <1>11 DEF ValidateEnd
<1>12. CASE Execute
  BY <1>12 DEF Execute
<1>13. CASE ExecuteRejected
  BY <1>13 DEF ExecuteRejected, Raise, Answered
<1>14. CASE ExecuteAsks
  BY <1>14 DEF ExecuteAsks, Raise, Answered
<1>15. CASE ExecuteEnd
  BY <1>15 DEF ExecuteEnd, Return
<1>16. ASSUME NEW d \in Decisions, Resume(d) PROVE FreshInv'
  BY <1>16 DEF Resume
<1>17. CASE Abort
  BY <1>17 DEF Abort, LastCheckpoint
<1>18. CASE CrashReported
  BY <1>18 DEF CrashReported, LastCheckpoint
<1>19. CASE NewMessage
  BY <1>19 DEF NewMessage
<1>20. ASSUME NEW p \in Providers, Connect(p) \/ Disconnect(p) PROVE FreshInv'
  BY <1>20 DEF Connect, Disconnect
<1>21. CASE UNCHANGED vars
  BY <1>21 DEF vars
<1> QED
  BY <1>1, <1>2, <1>3, <1>4, <1>5, <1>6, <1>7, <1>8, <1>9, <1>10, <1>11, <1>12, <1>13,
     <1>14, <1>15, <1>16, <1>17, <1>18, <1>19, <1>20, <1>21 DEF Next, NodeStep

\* Phase 1 validates the providers call by call; Phase 2 starts when all are.
LEMMA ValidationKept ==
  ASSUME TypeOK, FreshInv, ValidationInv, [Next]_vars
  PROVE  ValidationInv'
<1> USE DEF TypeOK, FreshInv, ValidationInv, ValidatedBeforeExecution, Validating
<1>1. CASE ConfirmSkip
  BY <1>1 DEF ConfirmSkip
<1>2. CASE Confirm
  BY <1>2 DEF Confirm, Raise, Answered, Return
<1>3. CASE ConfirmEnd
  <2>1. checked = {} /\ validated = {}
    BY <1>3 DEF ConfirmEnd
  <2>2. i' = 1 /\ checked' = {} /\ validated' = {} /\ pc' = "validate"
    BY <1>3, <2>1 DEF ConfirmEnd
  <2> QED
    BY <2>2
<1>4. CASE ValidateSkip
  BY <1>4 DEF ValidateSkip
<1>5. CASE Resolve
  BY <1>5 DEF Resolve
<1>6. CASE AskAuth
  BY <1>6 DEF AskAuth, Raise, Answered, Return
<1>7. CASE ResolveAgain
  BY <1>7 DEF ResolveAgain, Return
<1>8. CASE RatePassed
  BY <1>8 DEF RatePassed, Validated
<1>9. CASE RateDenied
  BY <1>9 DEF RateDenied, Raise, Answered, Return
<1>10. CASE RateDeniedAgain
  BY <1>10 DEF RateDeniedAgain, Return
<1>11. CASE ValidateEnd
  BY <1>11 DEF ValidateEnd
<1>12. CASE Execute
  BY <1>12 DEF Execute
<1>13. CASE ExecuteRejected
  BY <1>13 DEF ExecuteRejected, Raise, Answered
<1>14. CASE ExecuteAsks
  BY <1>14 DEF ExecuteAsks, Raise, Answered
<1>15. CASE ExecuteEnd
  BY <1>15 DEF ExecuteEnd, Return
<1>16. ASSUME NEW d \in Decisions, Resume(d) PROVE ValidationInv'
  BY <1>16 DEF Resume
<1>17. CASE Abort
  BY <1>17 DEF Abort, LastCheckpoint
<1>18. CASE CrashReported
  BY <1>18 DEF CrashReported, LastCheckpoint
<1>19. CASE NewMessage
  BY <1>19 DEF NewMessage
<1>20. ASSUME NEW p \in Providers, Connect(p) \/ Disconnect(p) PROVE ValidationInv'
  BY <1>20 DEF Connect, Disconnect
<1>21. CASE UNCHANGED vars
  BY <1>21 DEF vars
<1> QED
  BY <1>1, <1>2, <1>3, <1>4, <1>5, <1>6, <1>7, <1>8, <1>9, <1>10, <1>11, <1>12, <1>13,
     <1>14, <1>15, <1>16, <1>17, <1>18, <1>19, <1>20, <1>21 DEF Next, NodeStep

\* Phase 2 answers call by call; every other return is a cancel or a refusal.
LEMMA OutputKept ==
  ASSUME TypeOK, OutputInv, [Next]_vars
  PROVE  OutputInv'
<1> USE DEF TypeOK, OutputInv, AllAnsweredOrOneRefused
<1>1. CASE ConfirmSkip
  BY <1>1 DEF ConfirmSkip
<1>2. CASE Confirm
  BY <1>2 DEF Confirm, Raise, Answered, Return, CancelAll
<1>3. CASE ConfirmEnd
  BY <1>3 DEF ConfirmEnd
<1>4. CASE ValidateSkip
  BY <1>4 DEF ValidateSkip
<1>5. CASE Resolve
  BY <1>5 DEF Resolve
<1>6. CASE AskAuth
  <2>1. CASE Raise("auth")
    BY <1>6, <2>1 DEF AskAuth, Raise
  <2>2. CASE Return(CancelAll)
    BY <1>6, <2>2 DEF AskAuth, Return, CancelAll
  <2>3. CASE pc' = "recheck" /\ UNCHANGED <<out, i, checked, validated>>
    BY <1>6, <2>3 DEF AskAuth
  <2> QED
    BY <1>6, <2>1, <2>2, <2>3 DEF AskAuth
<1>7. CASE ResolveAgain
  <2>1. CASE Provider \in connected
    BY <1>7, <2>1 DEF ResolveAgain
  <2>2. CASE Provider \notin connected
    <3>1. Provider \in Providers
      BY <1>7 DEF ResolveAgain
    <3>2. out' = RefuseProvider(Provider) /\ pc' = "done" /\ provider' = provider
      BY <1>7, <2>2 DEF ResolveAgain, Return
    <3> QED
      BY <3>1, <3>2 DEF RefuseProvider
  <2> QED
    BY <2>1, <2>2
<1>8. CASE RatePassed
  BY <1>8 DEF RatePassed, Validated
<1>9. CASE RateDenied
  BY <1>9 DEF RateDenied, Raise, Answered, Return, CancelAll
<1>10. CASE RateDeniedAgain
  <2>1. Provider \in Providers
    BY <1>10 DEF RateDeniedAgain
  <2>2. out' = RefuseProvider(Provider) /\ pc' = "done" /\ provider' = provider
    BY <1>10 DEF RateDeniedAgain, Return
  <2> QED
    BY <2>1, <2>2 DEF RefuseProvider
<1>11. CASE ValidateEnd
  BY <1>11 DEF ValidateEnd
<1>12. CASE Execute
  BY <1>12 DEF Execute, CallSet
<1>13. CASE ExecuteRejected
  <2>1. provider' = provider /\ pc = "exec"
    BY <1>13 DEF ExecuteRejected
  <2>2. CASE Raise("reauth")
    BY <1>13, <2>1, <2>2 DEF Raise
  <2>3. CASE Answered
    BY <1>13, <2>1, <2>3 DEF ExecuteRejected, Raise, Answered, CallSet
  <2> QED
    BY <1>13, <2>2, <2>3 DEF ExecuteRejected
<1>14. CASE ExecuteAsks
  <2>1. provider' = provider /\ pc = "exec"
    BY <1>14 DEF ExecuteAsks
  <2>2. CASE Raise("workflow")
    BY <1>14, <2>1, <2>2 DEF Raise
  <2>3. CASE Answered
    BY <1>14, <2>1, <2>3 DEF ExecuteAsks, Raise, Answered, CallSet
  <2> QED
    BY <1>14, <2>2, <2>3 DEF ExecuteAsks
<1>15. CASE ExecuteEnd
  BY <1>15 DEF ExecuteEnd, Return
<1>16. ASSUME NEW d \in Decisions, Resume(d) PROVE OutputInv'
  BY <1>16 DEF Resume
<1>17. CASE Abort
  BY <1>17 DEF Abort, LastCheckpoint
<1>18. CASE CrashReported
  BY <1>18 DEF CrashReported, LastCheckpoint
<1>19. CASE NewMessage
  BY <1>19 DEF NewMessage
<1>20. ASSUME NEW p \in Providers, Connect(p) \/ Disconnect(p) PROVE OutputInv'
  BY <1>20 DEF Connect, Disconnect
<1>21. CASE UNCHANGED vars
  BY <1>21 DEF vars
<1> QED
  BY <1>1, <1>2, <1>3, <1>4, <1>5, <1>6, <1>7, <1>8, <1>9, <1>10, <1>11, <1>12, <1>13,
     <1>14, <1>15, <1>16, <1>17, <1>18, <1>19, <1>20, <1>21 DEF Next, NodeStep

\* What a resume does to the stored answers.
LEMMA ResumeAnswers ==
  ASSUME TypeOK, NEW d \in Decisions, Resume(d)
  PROVE  /\ Len(answers) \in Nat /\ Len(answers') = Len(answers) + 1
         /\ \A k \in 1..Len(answers) : answers'[k] = answers[k]
         /\ answers'[Len(answers) + 1].to = <<pending.kind, pending.call>>
         /\ answers'[Len(answers) + 1].decision = d
         /\ destructive' = destructive /\ pending' = pending
BY DEF Resume, TypeOK

\* What a run that died leaves of them.
LEMMA CheckpointAnswers ==
  ASSUME TypeOK, LastCheckpoint, answers # <<>>
  PROVE  /\ Len(answers) \in Nat /\ Len(answers') = Len(answers) - 1
         /\ \A k \in 1..(Len(answers) - 1) : answers'[k] = answers[k]
         /\ UNCHANGED <<destructive, approved, pending>> /\ pc' = "interrupted"
BY AnswersTyped DEF LastCheckpoint, TypeOK

\* Steps that touch neither the answers nor the approvals.
LEMMA AnswerSteps ==
  ASSUME [Next]_vars
  PROVE  \/ UNCHANGED <<destructive, answers, approved>>
         \/ \E d \in Decisions : Resume(d)
         \/ Abort \/ CrashReported
BY DEF Next, NodeStep, vars, ConfirmSkip, Confirm, ConfirmEnd, ValidateSkip, Resolve,
      AskAuth, ResolveAgain, RatePassed, RateDenied, RateDeniedAgain, ValidateEnd, Execute,
      ExecuteRejected, ExecuteAsks, ExecuteEnd, NewMessage, Connect, Disconnect

\* Answers stay with their questions, through resumes and aborted runs.
LEMMA AnswersKept ==
  ASSUME TypeOK, AnswersInv, PendingInv, [Next]_vars
  PROVE  AnswersInv'
<1>1. CASE UNCHANGED <<destructive, answers, approved>>
  BY <1>1 DEF AnswersInv
<1>2. ASSUME NEW d \in Decisions, Resume(d) PROVE AnswersInv'
  <2> DEFINE n == Len(answers)
  <2>1. /\ n \in Nat /\ Len(answers') = n + 1
        /\ \A k \in 1..n : answers'[k] = answers[k]
        /\ answers'[n + 1].to = <<pending.kind, pending.call>>
        /\ answers'[n + 1].decision = d
        /\ destructive' = destructive
    BY <1>2, ResumeAnswers
  <2>2. PendingAt(0)
    BY <1>2 DEF Resume, PendingInv
  <2>3. approved' = IF d \in Refusals THEN approved \ Confirmed
                                      ELSE approved \union Confirmed
    BY <1>2 DEF Resume
  <2> SUFFICES ASSUME NEW c \in destructive, Rank(destructive, c) < n + 1
               PROVE  /\ answers'[Rank(destructive, c) + 1].to = <<"confirm", c>>
                      /\ answers'[Rank(destructive, c) + 1].decision \notin Refusals
                           => c \in approved'
    BY <2>1 DEF AnswersInv
  <2>4. c \in Nat /\ Rank(destructive, c) \in Nat
    <3>1. c \in Calls /\ destructive \in SUBSET Calls
      BY DEF TypeOK
    <3>2. c \in Nat
      BY <3>1
    <3> QED
      BY <3>1, <3>2, RankFinite
  <2>5. CASE Rank(destructive, c) < n
    <3>1. /\ answers[Rank(destructive, c) + 1].to = <<"confirm", c>>
          /\ answers[Rank(destructive, c) + 1].decision \notin Refusals => c \in approved
      BY <2>5 DEF AnswersInv
    <3>2. answers'[Rank(destructive, c) + 1] = answers[Rank(destructive, c) + 1]
      BY <2>1, <2>4, <2>5
    <3>3. c \notin Confirmed
      BY <2>2, <2>5, <2>1, <2>4 DEF PendingAt, Confirmed
    <3> QED
      BY <3>1, <3>2, <3>3, <2>3
  <2>6. CASE Rank(destructive, c) >= n
    <3>1. Rank(destructive, c) = n
      BY <2>1, <2>4, <2>6
    <3>2. destructive \in SUBSET Calls
      BY DEF TypeOK
    <3>3. Rank(destructive, c) < Cardinality(destructive) /\ Cardinality(destructive) \in Nat
      BY <3>2, <2>4, RankBelow, RankFinite
    <3>4. pending.kind = "confirm" /\ pending.call \in destructive
          /\ Rank(destructive, pending.call) = n
      <4>1. pending.kind = "confirm"
        BY <2>1, <2>2, <3>1, <3>3 DEF PendingAt
      <4>2. pending.call \in destructive /\ n = Rank(destructive, pending.call) + 0
        BY <2>2, <4>1 DEF PendingAt
      <4>3. pending.call \in Calls
        BY <4>2, <3>2
      <4>4. pending.call \in Nat
        BY <4>3
      <4>5. Rank(destructive, pending.call) \in Nat
        BY <4>4, <3>2, RankFinite
      <4> QED
        BY <4>1, <4>2, <4>5
    <3>5. pending.call = c
      BY <3>1, <3>2, <3>4, RankInjective
    <3> QED
      BY <2>1, <2>3, <3>1, <3>4, <3>5 DEF Confirmed
  <2> QED
    BY <2>1, <2>4, <2>5, <2>6
<1>3. ASSUME LastCheckpoint, pc \in Steps \union {"crashed"} PROVE AnswersInv'
  <2>1. CASE answers = <<>>
    BY <1>3, <2>1 DEF LastCheckpoint, AnswersInv
  <2>2. CASE answers # <<>>
    <3> DEFINE n == Len(answers)
    <3>1. /\ n \in Nat /\ Len(answers') = n - 1
          /\ \A k \in 1..(n - 1) : answers'[k] = answers[k]
          /\ UNCHANGED <<destructive, approved>>
      BY <1>3, <2>2, CheckpointAnswers
    <3> SUFFICES ASSUME NEW c \in destructive, Rank(destructive, c) < n - 1
                 PROVE  /\ answers'[Rank(destructive, c) + 1].to = <<"confirm", c>>
                        /\ answers'[Rank(destructive, c) + 1].decision \notin Refusals
                             => c \in approved
      BY <3>1 DEF AnswersInv
    <3>2. Rank(destructive, c) \in Nat
      <4>1. c \in Calls /\ destructive \in SUBSET Calls
        BY DEF TypeOK
      <4>2. c \in Nat
        BY <4>1
      <4> QED
        BY <4>1, <4>2, RankFinite
    <3>3. answers'[Rank(destructive, c) + 1] = answers[Rank(destructive, c) + 1]
      BY <3>1, <3>2
    <3> QED
      BY <3>1, <3>2, <3>3 DEF AnswersInv
  <2> QED
    BY <2>1, <2>2
<1> QED
  BY <1>1, <1>2, <1>3, AnswerSteps DEF Abort, CrashReported

\* Where a pass is in the answers: at the rank of the current call while it
\* confirms, past all the confirmations afterwards.
LEMMA PositionKept ==
  ASSUME TypeOK, FreshInv, AnswersInv, PositionInv, [Next]_vars
  PROVE  PositionInv'
<1> USE DEF TypeOK
<1>a. destructive \in SUBSET Calls /\ destructive' = destructive
  BY DEF Next, NodeStep, vars, ConfirmSkip, Confirm, ConfirmEnd, ValidateSkip, Resolve,
      AskAuth, ResolveAgain, RatePassed, RateDenied, RateDeniedAgain, ValidateEnd, Execute,
      ExecuteRejected, ExecuteAsks, ExecuteEnd, Resume, Abort, CrashReported, LastCheckpoint,
      NewMessage, Connect, Disconnect
<1>b. Cardinality(destructive) \in Nat
  BY <1>a, RankFinite
<1>1. CASE ConfirmSkip
  <2>1. i \in Calls /\ i \notin destructive /\ i' = i + 1 /\ pc = "confirm"
        /\ UNCHANGED <<pc, asked, approved>>
    BY <1>1 DEF ConfirmSkip
  <2>2. Rank(destructive, i + 1) = Rank(destructive, i)
    BY <1>a, <2>1, RankStep
  <2>3. asked' = Rank(destructive, i')
    BY <2>1, <2>2 DEF PositionInv
  <2>4. \A c \in destructive : c < i' => c \in approved'
    BY <1>a, <2>1 DEF PositionInv
  <2> QED
    BY <1>a, <2>1, <2>3, <2>4 DEF PositionInv
<1>2. CASE Confirm
  <2>1. i \in Calls /\ i \in destructive /\ pc = "confirm" /\ approved' = approved
    BY <1>2 DEF Confirm
  <2>2. CASE ~(Answered /\ Answer \notin Refusals)
    BY <1>2, <2>2 DEF Confirm, Raise, Return, PositionInv
  <2>3. CASE Answered /\ Answer \notin Refusals
    <3>1. i' = i + 1 /\ asked' = asked + 1 /\ pc' = "confirm" /\ asked < Len(answers)
      BY <1>2, <2>3 DEF Confirm, Raise, Answered
    <3>2. asked = Rank(destructive, i)
      BY <2>1 DEF PositionInv
    <3>3. Rank(destructive, i + 1) = Rank(destructive, i) + 1
      BY <1>a, <2>1, RankStep
    <3>4. i \in approved
      BY <2>1, <2>3, <3>1, <3>2 DEF AnswersInv, Answer
    <3>5. \A c \in destructive : c < i' => c \in approved'
      BY <1>a, <2>1, <3>1, <3>4 DEF PositionInv
    <3> QED
      BY <1>a, <3>1, <3>2, <3>3, <3>5 DEF PositionInv
  <2> QED
    BY <2>2, <2>3
<1>3. CASE ConfirmEnd
  <2>1. i > NCalls /\ i \in Nat /\ pc = "confirm" /\ pc' = "validate"
        /\ UNCHANGED <<asked, approved>>
    BY <1>3 DEF ConfirmEnd
  <2>2. asked = Cardinality(destructive)
    BY <1>a, <2>1, RankEnd DEF PositionInv
  <2>3. destructive \subseteq approved
    BY <1>a, <2>1 DEF PositionInv
  <2> QED
    BY <1>a, <1>b, <2>1, <2>2, <2>3 DEF PositionInv
<1>4. CASE ValidateSkip
  BY <1>a, <1>b, <1>4 DEF ValidateSkip, PositionInv
<1>5. CASE Resolve
  BY <1>a, <1>b, <1>5 DEF Resolve, PositionInv
<1>6. CASE AskAuth
  BY <1>a, <1>b, <1>6 DEF AskAuth, Raise, Answered, Return, PositionInv
<1>7. CASE ResolveAgain
  BY <1>a, <1>b, <1>7 DEF ResolveAgain, Return, PositionInv
<1>8. CASE RatePassed
  BY <1>a, <1>b, <1>8 DEF RatePassed, Validated, PositionInv
<1>9. CASE RateDenied
  BY <1>a, <1>b, <1>9 DEF RateDenied, Raise, Answered, Return, PositionInv
<1>10. CASE RateDeniedAgain
  BY <1>a, <1>b, <1>10 DEF RateDeniedAgain, Return, PositionInv
<1>11. CASE ValidateEnd
  BY <1>a, <1>b, <1>11 DEF ValidateEnd, PositionInv
<1>12. CASE Execute
  BY <1>a, <1>b, <1>12 DEF Execute, PositionInv
<1>13. CASE ExecuteRejected
  BY <1>a, <1>b, <1>13 DEF ExecuteRejected, Raise, Answered, PositionInv
<1>14. CASE ExecuteAsks
  BY <1>a, <1>b, <1>14 DEF ExecuteAsks, Raise, Answered, PositionInv
<1>15. CASE ExecuteEnd
  BY <1>a, <1>b, <1>15 DEF ExecuteEnd, Return, PositionInv
<1>16. ASSUME NEW d \in Decisions, Resume(d) PROVE PositionInv'
  <2>1. pc' = "confirm" /\ i' = 1 /\ asked' = 0
    BY <1>16 DEF Resume, FreshInv
  <2>2. asked' = Rank(destructive, i')
    BY <1>a, <2>1, RankStart
  <2>3. \A c \in destructive : ~(c < i')
    BY <1>a, <2>1
  <2> QED
    BY <1>a, <2>1, <2>2, <2>3 DEF PositionInv
<1>17. CASE Abort
  BY <1>a, <1>b, <1>17 DEF Abort, LastCheckpoint, PositionInv
<1>18. CASE CrashReported
  BY <1>a, <1>b, <1>18 DEF CrashReported, LastCheckpoint, PositionInv
<1>19. CASE NewMessage
  BY <1>a, <1>b, <1>19 DEF NewMessage, PositionInv
<1>20. ASSUME NEW p \in Providers, Connect(p) \/ Disconnect(p) PROVE PositionInv'
  BY <1>a, <1>b, <1>20 DEF Connect, Disconnect, PositionInv
<1>21. CASE UNCHANGED vars
  BY <1>a, <1>21 DEF vars, PositionInv
<1> QED
  BY <1>1, <1>2, <1>3, <1>4, <1>5, <1>6, <1>7, <1>8, <1>9, <1>10, <1>11, <1>12, <1>13,
     <1>14, <1>15, <1>16, <1>17, <1>18, <1>19, <1>20, <1>21 DEF Next, NodeStep

\* An interrupt is raised when the answers are used up: a confirmation exactly at
\* its rank, any other question after all the confirmations.
LEMMA RaisePending ==
  ASSUME TypeOK, PositionInv, NEW kind \in Kinds, i \in Calls, Raise(kind),
         UNCHANGED <<destructive, answers>>,
         \/ kind = "confirm" /\ pc = "confirm" /\ i \in destructive
         \/ kind # "confirm" /\ pc \in Steps \ {"confirm"}
  PROVE  PendingInv'
<1>1. asked = Len(answers) /\ Len(answers) \in Nat /\ pc' = "interrupted"
  BY DEF TypeOK, Raise
<1>2. pending'.kind = kind /\ pending'.call = i /\ pending' # None
  BY RaiseTyped DEF Raise
<1>3. CASE kind = "confirm"
  <2>1. asked = Rank(destructive, i)
    BY <1>3 DEF PositionInv
  <2> QED
    BY <1>1, <1>2, <1>3, <2>1 DEF PendingInv, PendingAt
<1>4. CASE kind # "confirm"
  <2>1. asked >= Cardinality(destructive) /\ Cardinality(destructive) \in Nat
    <3>1. destructive \in SUBSET Calls
      BY DEF TypeOK
    <3> QED
      BY <1>4, <3>1, RankFinite DEF PositionInv
  <2> QED
    BY <1>1, <1>2, <1>4, <2>1 DEF PendingInv, PendingAt
<1> QED
  BY <1>3, <1>4

\* The answer to the pending interrupt will take, or has taken, its position.
LEMMA PendingKept ==
  ASSUME TypeOK, PositionInv, PendingInv, [Next]_vars
  PROVE  PendingInv'
<1>k. destructive \in SUBSET Calls /\ Len(answers) \in Nat
  BY DEF TypeOK
<1>m. ASSUME UNCHANGED <<destructive, answers, pending>>,
             pc' = "interrupted" => pc = "interrupted",
             pc' \in Steps \union {"crashed"} => pc \in Steps
      PROVE  PendingInv'
  BY <1>m DEF PendingInv, PendingAt
<1>c. ASSUME LastCheckpoint, pc \in Steps \union {"crashed"} PROVE PendingInv'
  <2>1. CASE answers = <<>>
    BY <1>c, <2>1 DEF LastCheckpoint, PendingInv
  <2>2. CASE answers # <<>>
    <3>1. PendingAt(1)
      BY <1>c, <2>2 DEF PendingInv
    <3>2. /\ Len(answers') = Len(answers) - 1 /\ pc' = "interrupted"
          /\ UNCHANGED <<destructive, pending>>
      BY <1>c, <2>2, CheckpointAnswers
    <3>3. PendingAt(0)'
      <4>1. CASE pending.kind = "confirm"
        <5>1. pending.call \in destructive /\ Len(answers) = Rank(destructive, pending.call) + 1
          BY <3>1, <4>1 DEF PendingAt
        <5>2. pending.call \in Nat
          <6>1. pending.call \in Calls
            BY <1>k, <5>1
          <6> QED
            BY <6>1
        <5>3. Rank(destructive, pending.call) \in Nat
          BY <1>k, <5>2, RankFinite
        <5> QED
          BY <1>k, <3>1, <3>2, <4>1, <5>1, <5>3 DEF PendingAt
      <4>2. CASE pending.kind # "confirm"
        <5>1. Len(answers) >= Cardinality(destructive) + 1 /\ Cardinality(destructive) \in Nat
          BY <1>k, <3>1, <4>2, RankFinite DEF PendingAt
        <5> QED
          BY <1>k, <3>1, <3>2, <4>2, <5>1 DEF PendingAt
      <4> QED
        BY <4>1, <4>2
    <3> QED
      BY <3>2, <3>3 DEF PendingInv
  <2> QED
    BY <2>1, <2>2
<1>1. CASE ConfirmSkip
  BY <1>m, <1>1 DEF ConfirmSkip
<1>2. CASE Confirm
  <2>1. CASE Raise("confirm")
    <3>1. i \in Calls /\ UNCHANGED <<destructive, answers>> /\ pc \in Steps
          /\ i \in destructive /\ pc = "confirm"
      BY <1>2, <2>1 DEF TypeOK, Confirm
    <3> QED
      BY <2>1, <3>1, RaisePending
  <2>2. CASE Answered
    <3>1. /\ UNCHANGED <<destructive, answers, pending>> /\ pc \in Steps
          /\ pc' # "interrupted"
      BY <1>2, <2>2 DEF TypeOK, Confirm, Raise, Answered, Return
    <3> QED
      BY <1>m, <3>1
  <2> QED
    BY <1>2, <2>1, <2>2 DEF Confirm
<1>3. CASE ConfirmEnd
  BY <1>m, <1>3 DEF ConfirmEnd
<1>4. CASE ValidateSkip
  BY <1>m, <1>4 DEF ValidateSkip
<1>5. CASE Resolve
  BY <1>m, <1>5 DEF Resolve
<1>6. CASE AskAuth
  <2>1. CASE Raise("auth")
    <3>1. i \in Calls /\ UNCHANGED <<destructive, answers>> /\ pc \in Steps
          /\ pc # "confirm"
      BY <1>6, <2>1 DEF TypeOK, AskAuth
    <3> QED
      BY <2>1, <3>1, RaisePending
  <2>2. CASE Answered
    <3>1. /\ UNCHANGED <<destructive, answers, pending>> /\ pc \in Steps
          /\ pc' # "interrupted"
      BY <1>6, <2>2 DEF TypeOK, AskAuth, Raise, Answered, Return
    <3> QED
      BY <1>m, <3>1
  <2> QED
    BY <1>6, <2>1, <2>2 DEF AskAuth
<1>7. CASE ResolveAgain
  BY <1>m, <1>7 DEF ResolveAgain, Return
<1>8. CASE RatePassed
  BY <1>m, <1>8 DEF RatePassed, Validated
<1>9. CASE RateDenied
  <2>1. CASE Raise("rate")
    <3>1. i \in Calls /\ UNCHANGED <<destructive, answers>> /\ pc \in Steps
          /\ pc # "confirm"
      BY <1>9, <2>1 DEF TypeOK, RateDenied
    <3> QED
      BY <2>1, <3>1, RaisePending
  <2>2. CASE Answered
    <3>1. /\ UNCHANGED <<destructive, answers, pending>> /\ pc \in Steps
          /\ pc' # "interrupted"
      BY <1>9, <2>2 DEF TypeOK, RateDenied, Raise, Answered, Return
    <3> QED
      BY <1>m, <3>1
  <2> QED
    BY <1>9, <2>1, <2>2 DEF RateDenied
<1>10. CASE RateDeniedAgain
  BY <1>m, <1>10 DEF RateDeniedAgain, Return
<1>11. CASE ValidateEnd
  BY <1>m, <1>11 DEF ValidateEnd
<1>12. CASE Execute
  BY <1>m, <1>12 DEF Execute
<1>13. CASE ExecuteRejected
  <2>1. CASE Raise("reauth")
    <3>1. i \in Calls /\ UNCHANGED <<destructive, answers>> /\ pc \in Steps
          /\ pc # "confirm"
      BY <1>13, <2>1 DEF TypeOK, ExecuteRejected
    <3> QED
      BY <2>1, <3>1, RaisePending
  <2>2. CASE Answered
    <3>1. /\ UNCHANGED <<destructive, answers, pending>> /\ pc \in Steps
          /\ pc' # "interrupted"
      BY <1>13, <2>2 DEF TypeOK, ExecuteRejected, Raise, Answered
    <3> QED
      BY <1>m, <3>1
  <2> QED
    BY <1>13, <2>1, <2>2 DEF ExecuteRejected
<1>14. CASE ExecuteAsks
  <2>1. CASE Raise("workflow")
    <3>1. i \in Calls /\ UNCHANGED <<destructive, answers>> /\ pc \in Steps
          /\ pc # "confirm"
      BY <1>14, <2>1 DEF TypeOK, ExecuteAsks
    <3> QED
      BY <2>1, <3>1, RaisePending
  <2>2. CASE Answered
    <3>1. /\ UNCHANGED <<destructive, answers, pending>> /\ pc \in Steps
          /\ pc' # "interrupted"
      BY <1>14, <2>2 DEF TypeOK, ExecuteAsks, Raise, Answered
    <3> QED
      BY <1>m, <3>1
  <2> QED
    BY <1>14, <2>1, <2>2 DEF ExecuteAsks
<1>15. CASE ExecuteEnd
  BY <1>m, <1>15 DEF ExecuteEnd, Return
<1>16. ASSUME NEW d \in Decisions, Resume(d) PROVE PendingInv'
  <2>1. PendingAt(0)
    BY <1>16 DEF Resume, PendingInv
  <2>2. /\ Len(answers') = Len(answers) + 1 /\ pc' = "confirm"
        /\ UNCHANGED <<destructive, pending>>
    BY <1>16, ResumeAnswers DEF Resume
  <2>3. PendingAt(1)'
    <3>1. CASE pending.kind = "confirm"
      <4>1. pending.call \in destructive /\ Len(answers) = Rank(destructive, pending.call) + 0
        BY <2>1, <3>1 DEF PendingAt
      <4>2. pending.call \in Calls
        BY <1>k, <4>1
      <4>3. pending.call \in Nat
        BY <4>2
      <4>4. Rank(destructive, pending.call) \in Nat
        BY <1>k, <4>3, RankFinite
      <4> QED
        BY <2>1, <2>2, <3>1, <4>1, <4>4 DEF PendingAt
    <3>2. CASE pending.kind # "confirm"
      <4>1. Cardinality(destructive) \in Nat
        BY <1>k, RankFinite
      <4> QED
        BY <1>k, <2>1, <2>2, <3>2, <4>1 DEF PendingAt
    <3> QED
      BY <3>1, <3>2
  <2> QED
    BY <2>2, <2>3 DEF PendingInv
<1>17. CASE Abort
  BY <1>17, <1>c DEF Abort
<1>18. CASE CrashReported
  BY <1>18, <1>c DEF CrashReported
<1>19. CASE NewMessage
  BY <1>m, <1>19 DEF NewMessage
<1>20. ASSUME NEW p \in Providers, Connect(p) \/ Disconnect(p) PROVE PendingInv'
  BY <1>20 DEF Connect, Disconnect, PendingInv, PendingAt
<1>21. CASE UNCHANGED vars
  BY <1>21 DEF vars, PendingInv, PendingAt
<1> QED
  BY <1>1, <1>2, <1>3, <1>4, <1>5, <1>6, <1>7, <1>8, <1>9, <1>10, <1>11, <1>12, <1>13,
     <1>14, <1>15, <1>16, <1>17, <1>18, <1>19, <1>20, <1>21 DEF Next, NodeStep

-----------------------------------------------------------------------------

\* The parts of the inductive invariant hold together.
THEOREM Inductive == Spec => []IInv
<1>1. Init => IInv
  <2> SUFFICES ASSUME Init PROVE IInv
    OBVIOUS
  <2>1. TypeOK
    BY MessagesTyped DEF Init, TypeOK
  <2>2. destructive \in SUBSET Calls /\ answers = <<>> /\ pc = "confirm" /\ i = 1 /\ asked = 0
    BY DEF Init
  <2>3. asked = Rank(destructive, i)
    BY <2>2, RankStart
  <2>4. \A c \in destructive : ~(c < i)
    BY <2>2
  <2>5. PositionInv
    BY <2>2, <2>3, <2>4 DEF PositionInv
  <2>6. FreshInv /\ ValidationInv /\ OutputInv /\ PendingInv
    BY DEF Init, FreshInv, ValidationInv, ValidatedBeforeExecution, Validating, OutputInv,
       AllAnsweredOrOneRefused, PendingInv
  <2>7. AnswersInv
    <3>1. ASSUME NEW c \in destructive PROVE Rank(destructive, c) \in Nat
      <4>1. c \in Calls
        BY <2>2
      <4>2. c \in Nat
        BY <4>1
      <4> QED
        BY <2>2, <4>2, RankFinite
    <3> QED
      BY <2>2, <3>1 DEF AnswersInv
  <2> QED
    BY <2>1, <2>5, <2>6, <2>7 DEF IInv
<1>2. TypeOK /\ TypeOK' /\ IInv /\ [Next]_vars => IInv'
  BY FreshKept, ValidationKept, OutputKept, AnswersKept, PositionKept, PendingKept DEF IInv
<1> QED
  BY <1>1, <1>2, TypeCorrect, PTL DEF Spec

\* When a pass executes, it has validated every provider of the batch itself.
THEOREM Validation == Spec => []ValidatedBeforeExecution
<1>1. IInv => ValidatedBeforeExecution
  BY DEF IInv, ValidationInv
<1> QED
  BY <1>1, Inductive, PTL

\* A returning node answers every call, or refuses the calls of one provider.
THEOREM Answering == Spec => []AllAnsweredOrOneRefused
<1>1. IInv => AllAnsweredOrOneRefused
  BY DEF IInv, OutputInv
<1> QED
  BY <1>1, Inductive, PTL

\* A confirmation is matched with an answer given to that confirmation.
THEOREM Alignment == Spec => []ConfirmationsAligned
<1>1. IInv => ConfirmationsAligned
  BY DEF IInv, TypeOK, AnswersInv, PositionInv, ConfirmationsAligned, NextAnswerIsTo
<1> QED
  BY <1>1, Inductive, PTL

\* A destructive tool runs only while its confirmation was last answered yes.
THEOREM Approval == Spec => DestructiveOnlyIfApproved
<1>1. IInv /\ [Next]_vars =>
        [\A c \in destructive : executed'[c] > executed[c] => c \in approved]_vars
  <2> SUFFICES ASSUME IInv, Next,
                      NEW c \in destructive, executed'[c] > executed[c]
               PROVE  c \in approved
    OBVIOUS
  <2>1. pc = "exec"
    <3>1. c \in Calls /\ executed[c] \in Nat
      BY DEF IInv, TypeOK
    <3>2. executed' # executed
      BY <3>1
    <3> QED
      BY <3>2 DEF Next, NodeStep, ConfirmSkip, Confirm, ConfirmEnd, ValidateSkip, Resolve,
          AskAuth, ResolveAgain, RatePassed, RateDenied, RateDeniedAgain, ValidateEnd, Execute,
          ExecuteRejected, ExecuteAsks, ExecuteEnd, Resume, Abort, CrashReported, LastCheckpoint,
          NewMessage, Connect, Disconnect
  <2> QED
    BY <2>1 DEF IInv, PositionInv
<1> QED
  BY <1>1, Inductive, PTL DEF Spec, DestructiveOnlyIfApproved

=============================================================================
