---------------------------- MODULE HistoryProofs ----------------------------
(***************************************************************************)
(* Proofs about the stored history and what is sent of it, for any number   *)
(* of messages kept, turns and tool calls: what the loops of               *)
(* _sanitize_messages keep (Kept), what that preserves of a history, and    *)
(* what the stored history has to be for it.                                *)
(***************************************************************************)
EXTENDS History, FiniteSetTheorems, SequenceTheorems, WellFoundedInduction, TLAPS

\* CallersKept of any history.
Paired(history) ==
    \A k \in DOMAIN history : history[k].from = "tool" => HasCaller(history, k)

IInv == HistoryOK /\ CallersKept

-----------------------------------------------------------------------------

LEMMA ConcatMessages ==
  ASSUME NEW a \in Seq(Message), NEW b \in Seq(Message), NEW c \in Seq(Message)
  PROVE  (a \o b) \o c = a \o (b \o c)
BY ConcatAssociative

\* A message that is not an answer may follow anything.
LEMMA AppendPaired ==
  ASSUME NEW h \in Seq(Message), NEW m \in Message, m.from # "tool", Paired(h)
  PROVE  Append(h, m) \in Seq(Message) /\ Append(h, m) # <<>> /\ Paired(Append(h, m))
<1> DEFINE g == Append(h, m)
<1>1. /\ g \in Seq(Message) /\ g # <<>> /\ Len(g) = Len(h) + 1 /\ Len(h) \in Nat
      /\ \A k \in 1..Len(h) : g[k] = h[k]
      /\ g[Len(h) + 1] = m
      /\ DOMAIN g = 1..Len(g) /\ DOMAIN h = 1..Len(h)
  BY AppendProperties, LenProperties
<1>2. ASSUME NEW k \in DOMAIN g, g[k].from = "tool" PROVE HasCaller(g, k)
  <2> HIDE DEF g
  <2>1. k \in 1..Len(h)
    BY <1>1, <1>2
  <2>2. HasCaller(h, k)
    BY <1>1, <1>2, <2>1 DEF Paired
  <2>. QED
    BY <1>1, <2>1, <2>2 DEF HasCaller
<1>. QED
  BY <1>1, <1>2 DEF Paired

\* Cutting in front of a message that is not an answer leaves every answer its call.
LEMMA CutPaired ==
  ASSUME NEW h \in Seq(Message), NEW c \in 1..(Len(h) - 1), h[c + 1].from # "tool", Paired(h)
  PROVE  /\ SubSeq(h, c + 1, Len(h)) \in Seq(Message)
         /\ SubSeq(h, c + 1, Len(h)) # <<>>
         /\ Paired(SubSeq(h, c + 1, Len(h)))
<1> DEFINE g == SubSeq(h, c + 1, Len(h))
<1>1. Len(h) \in Nat /\ DOMAIN h = 1..Len(h)
  BY LenProperties
<1>2. \A k \in (c + 1)..Len(h) : h[k] \in Message
  BY <1>1, ElementOfSeq
<1>3. /\ g \in Seq(Message) /\ Len(g) = Len(h) - c
      /\ \A k \in 1..(Len(h) - c) : g[k] = h[k + c]
  <2>1. c + 1 \in Int /\ Len(h) \in Int
    BY <1>1
  <2>. QED
    BY <1>1, <1>2, <2>1, SubSeqProperties
<1>4. DOMAIN g = 1..Len(g)
  BY <1>3, LenProperties
<1> HIDE DEF g
<1>5. ASSUME NEW k \in DOMAIN g, g[k].from = "tool" PROVE HasCaller(g, k)
  <2>1. k \in 1..(Len(h) - c) /\ k + c \in DOMAIN h /\ h[k + c].from = "tool"
    BY <1>1, <1>3, <1>4, <1>5
  <2>1a. PICK p \in DOMAIN h : p = k + c
    BY <2>1
  <2>1b. HasCaller(h, p)
    BY <2>1a, <2>1 DEF Paired
  <2>2. PICK j \in 1..(p - 1) :
          /\ h[p].answers \in h[j].calls
          /\ \A between \in (j + 1)..(p - 1) : h[between].from = "tool"
    BY <2>1b DEF HasCaller
  <2>3. j > c
    BY <1>1, <2>1a, <2>1, <2>2
  <2>4. j - c \in 1..(k - 1) /\ g[k].answers \in g[j - c].calls
    <3>1. j - c \in 1..(k - 1) /\ j - c \in 1..(Len(h) - c) /\ (j - c) + c = j
      BY <1>1, <2>1a, <2>1, <2>3
    <3>2. g[k] = h[k + c] /\ g[j - c] = h[j]
      BY <1>3, <2>1a, <2>1, <3>1
    <3>. QED
      BY <2>1a, <2>2, <3>1, <3>2
  <2>5. ASSUME NEW between \in (j - c + 1)..(k - 1) PROVE g[between].from = "tool"
    <3>1. between + c \in (j + 1)..(p - 1) /\ between \in 1..(Len(h) - c)
      <4>1. /\ Len(h) \in Int /\ c \in Int /\ k \in Int /\ k <= Len(h) - c
            /\ j \in Int /\ j > c
        BY <1>1, <2>1a, <2>1, <2>2, <2>3
      <4>. QED
        BY <2>1a, <4>1
    <3>2. h[between + c].from = "tool" /\ g[between] = h[between + c]
      BY <1>3, <2>1a, <2>2, <3>1
    <3>. QED
      BY <3>2
  <2>. QED
    BY <2>4, <2>5 DEF HasCaller
<1>6. g # <<>>
  BY <1>1, <1>3, EmptySeq
<1>. QED
  BY <1>3, <1>5, <1>6 DEF Paired, g

\* Answers to calls of the last message may follow it.
LEMMA AnswersPaired ==
  ASSUME NEW h \in Seq(Message), h # <<>>, Paired(h), NEW answers \in Seq(Message),
         \A k \in DOMAIN answers :
            answers[k].from = "tool" /\ answers[k].answers \in Last(h).calls
  PROVE  h \o answers \in Seq(Message) /\ h \o answers # <<>> /\ Paired(h \o answers)
<1> DEFINE g == h \o answers
           n == Len(h)
<1>1. /\ g \in Seq(Message) /\ Len(g) = n + Len(answers)
      /\ \A k \in 1..(n + Len(answers)) : g[k] = IF k <= n THEN h[k] ELSE answers[k - n]
  BY ConcatProperties
<1>2. /\ n \in Nat \ {0} /\ DOMAIN h = 1..n
      /\ Len(answers) \in Nat /\ DOMAIN answers = 1..Len(answers) /\ DOMAIN g = 1..Len(g)
  BY <1>1, LenProperties, EmptySeq
<1>3. Last(h) = h[n]
  BY DEF Last
<1> HIDE DEF g, n
<1>4. ASSUME NEW k \in DOMAIN g, g[k].from = "tool" PROVE HasCaller(g, k)
  <2>1. CASE k <= n
    <3>1. HasCaller(h, k)
      BY <1>1, <1>2, <1>4, <2>1 DEF Paired
    <3>2. PICK j \in 1..(k - 1) :
            /\ h[k].answers \in h[j].calls
            /\ \A between \in (j + 1)..(k - 1) : h[between].from = "tool"
      BY <3>1 DEF HasCaller
    <3>3. \A m \in 1..k : g[m] = h[m]
      BY <1>1, <1>2, <2>1
    <3>4. k \in 1..k /\ j \in 1..k /\ \A between \in (j + 1)..(k - 1) : between \in 1..k
      BY <1>2
    <3>. QED
      BY <3>2, <3>3, <3>4 DEF HasCaller
  <2>2. CASE k > n
    <3>1. n \in 1..(k - 1) /\ g[k].answers \in g[n].calls
      <4>1. /\ n \in 1..(k - 1) /\ n \in 1..(n + Len(answers)) /\ n <= n
            /\ k \in 1..(n + Len(answers)) /\ ~(k <= n) /\ k - n \in DOMAIN answers
        BY <1>1, <1>2, <2>2
      <4>2. g[n] = h[n] /\ g[k] = answers[k - n]
        BY <1>1, <4>1
      <4>. QED
        BY <1>3, <4>1, <4>2
    <3>2. ASSUME NEW between \in (n + 1)..(k - 1) PROVE g[between].from = "tool"
      <4>1. between - n \in DOMAIN answers /\ between \in 1..(n + Len(answers)) /\ ~(between <= n)
        BY <1>1, <1>2, <2>2
      <4>2. g[between] = answers[between - n]
        BY <1>1, <4>1
      <4>. QED
        BY <4>1, <4>2
    <3>. QED
      BY <3>1, <3>2 DEF HasCaller
  <2>. QED
    BY <1>2, <2>1, <2>2
<1>5. g # <<>>
  BY <1>1, <1>2, EmptySeq
<1>. QED
  BY <1>1, <1>4, <1>5 DEF Paired, g

\* The tool messages of a set of calls answer just these calls.
LEMMA ToolMessagesAnswer ==
  ASSUME NEW ids \in SUBSET (1..MaxCalls), NEW order \in Ordered(ids)
  PROVE  /\ ToolMessages(order) \in Seq(Message)
         /\ \A k \in DOMAIN ToolMessages(order) : \E id \in ids : ToolMessages(order)[k] = Tool(id)
<1>1. Cardinality(ids) \in Nat
  <2>1. IsFiniteSet(1..MaxCalls)
    BY BoundsNatural, FS_Interval
  <2>2. IsFiniteSet(ids)
    BY <2>1, FS_Subset
  <2>. QED
    BY <2>2, FS_CardinalityType
<1>2. order \in [1..Cardinality(ids) -> ids]
  BY DEF Ordered
<1>3. \A id \in ids : Tool(id) \in Message
  BY BoundsNatural DEF Tool, Message
<1>4. ToolMessages(order) \in [1..Cardinality(ids) -> Message]
  BY <1>2, <1>3 DEF ToolMessages
<1>5. ToolMessages(order) \in Seq(Message)
  BY <1>1, <1>4, SeqDef
<1>. QED
  BY <1>2, <1>5 DEF ToolMessages

\* The tool nodes append answers to calls of the last message, and nothing else.
LEMMA ToolsAnswer ==
  ASSUME HistoryOK, Tools
  PROVE  \E all \in Seq(Message) :
           /\ messages' = messages \o all
           /\ \A k \in DOMAIN all : \E id \in Last(messages).calls : all[k] = Tool(id)
<1>1. messages \in Seq(Message) /\ messages # <<>>
  BY DEF Tools, HistoryOK
<1>2. Last(messages).calls \in SUBSET (1..MaxCalls)
  <2>1. Len(messages) \in 1..Len(messages)
    BY <1>1, EmptySeq
  <2>2. Last(messages) \in Message
    BY <1>1, <2>1, ElementOfSeq DEF Last
  <2>. QED
    BY <2>2 DEF Message
<1>3. PICK fixed \in SUBSET Last(messages).calls, answered \in SUBSET Last(messages).calls :
        \E first \in Ordered(answered), rest \in Ordered(Last(messages).calls \ fixed) :
           messages' = messages \o ToolMessages(first) \o ToolMessages(rest)
  BY DEF Tools
<1>4. PICK first \in Ordered(answered), rest \in Ordered(Last(messages).calls \ fixed) :
        messages' = messages \o ToolMessages(first) \o ToolMessages(rest)
  BY <1>3
<1> DEFINE one == ToolMessages(first)
           two == ToolMessages(rest)
           all == one \o two
<1>5. /\ one \in Seq(Message)
      /\ \A k \in DOMAIN one : \E id \in Last(messages).calls : one[k] = Tool(id)
  BY <1>2, ToolMessagesAnswer
<1>6. /\ two \in Seq(Message)
      /\ \A k \in DOMAIN two : \E id \in Last(messages).calls : two[k] = Tool(id)
  BY <1>2, ToolMessagesAnswer
<1>7. messages' = (messages \o one) \o two
  BY <1>4
<1> HIDE DEF one, two
<1>8. messages' = messages \o all
  BY <1>1, <1>5, <1>6, <1>7, ConcatMessages
<1>9. /\ all \in Seq(Message) /\ Len(all) = Len(one) + Len(two)
      /\ \A k \in 1..(Len(one) + Len(two)) :
            all[k] = IF k <= Len(one) THEN one[k] ELSE two[k - Len(one)]
  BY <1>5, <1>6, ConcatProperties
<1>10. /\ Len(one) \in Nat /\ Len(two) \in Nat /\ DOMAIN one = 1..Len(one)
       /\ DOMAIN two = 1..Len(two) /\ DOMAIN all = 1..Len(all)
  BY <1>5, <1>6, <1>9, LenProperties
<1> HIDE DEF all
<1>11. ASSUME NEW k \in DOMAIN all
       PROVE  \E id \in Last(messages).calls : all[k] = Tool(id)
  <2>1. CASE k <= Len(one)
    <3>1. k \in DOMAIN one /\ all[k] = one[k]
      BY <1>9, <1>10, <2>1
    <3>. QED
      BY <1>5, <3>1
  <2>2. CASE ~(k <= Len(one))
    <3>1. k - Len(one) \in DOMAIN two /\ all[k] = two[k - Len(one)]
      BY <1>9, <1>10, <2>2
    <3>. QED
      BY <1>6, <3>1
  <2>. QED
    BY <2>1, <2>2
<1>. QED
  BY <1>8, <1>9, <1>11

\* A nonempty set of numbers up to n has a greatest one.
LEMMA Greatest ==
  ASSUME NEW n \in Nat, NEW S \in SUBSET (0..n), S # {}
  PROVE  \E x \in S : \A y \in S : y <= x
<1> DEFINE T == {n - k : k \in S}
<1>1. T \subseteq Nat /\ T # {}
  <2>1. \A k \in S : n - k \in Nat
    OBVIOUS
  <2>. QED
    BY <2>1
<1>2. PICK x \in T : \A y \in T : ~ (<<y, x>> \in OpToRel(<, Nat))
  <2> HIDE DEF T
  <2>. QED
    BY <1>1, NatLessThanWellFounded, WFMin, Zenon
<1>3. \A y \in T : x <= y
  <2> HIDE DEF T
  <2> SUFFICES ASSUME NEW y \in T, y < x PROVE FALSE
    BY <1>1
  <2>1. <<y, x>> \in Nat \X Nat /\ <<y, x>>[1] < <<y, x>>[2]
    BY <1>1
  <2>2. <<y, x>> \in OpToRel(<, Nat)
    BY <2>1 DEF OpToRel
  <2>. QED
    BY <1>2, <2>2, Zenon
<1>4. PICK k \in S : x = n - k
  BY <1>2
<1>5. \A other \in S : n - other \in T
  OBVIOUS
<1> HIDE DEF T
<1>. QED
  BY <1>3, <1>4, <1>5

\* Where the summary ends, the messages that are kept do not begin with an answer.
LEMMA CutoffBeforeAnswer ==
  ASSUME NEW h \in Seq(Message), Cutoff(h) > 0
  PROVE  Cutoff(h) \in 1..(Len(h) - KeepLast) /\ h[Cutoff(h) + 1].from # "tool"
<1> DEFINE cuts == {k \in 1..(Len(h) - KeepLast) : h[k + 1].from # "tool"} \union {0}
<1>1. Len(h) \in Nat
  BY LenProperties
<1>2. cuts \in SUBSET (0..Len(h)) /\ cuts # {}
  BY <1>1, KeepLastPositive
<1>3. \E k \in cuts : \A other \in cuts : other <= k
  <2> HIDE DEF cuts
  <2>. QED
    BY <1>1, <1>2, Greatest
<1>4. Cutoff(h) \in cuts
  BY <1>3 DEF Cutoff
<1>. QED
  BY <1>1, <1>4, KeepLastPositive

-----------------------------------------------------------------------------
(* What a loop leaves of a history                                          *)

\* Induction over the numbers, with the set of those that have the property.
LEMMA AllNumbers ==
  ASSUME NEW T, 0 \in T, \A n \in Nat : n \in T => n + 1 \in T
  PROVE  \A n \in Nat : n \in T
<1> DEFINE U == Nat \ T
<1> SUFFICES ASSUME U # {} PROVE FALSE
  OBVIOUS
<1>1. PICK x \in U : \A y \in U : ~ (<<y, x>> \in OpToRel(<, Nat))
  <2>1. U \subseteq Nat
    OBVIOUS
  <2> HIDE DEF U
  <2>. QED
    BY <2>1, NatLessThanWellFounded, WFMin, Zenon
<1>2. x - 1 \in Nat /\ (x - 1) + 1 = x
  <2>1. x \in Nat /\ x # 0
    BY <1>1
  <2>. QED
    BY <2>1
<1>3. x - 1 \in U
  BY <1>2
<1>4. <<x - 1, x>> \in Nat \X Nat /\ <<x - 1, x>>[1] < <<x - 1, x>>[2]
  BY <1>2
<1>5. <<x - 1, x>> \in OpToRel(<, Nat)
  BY <1>4 DEF OpToRel
<1>. QED
  BY <1>1, <1>3, <1>5, Zenon

\* The loop's list after each message, as a function f.
Loop(h, f, k) ==
    IF k = 0 THEN <<>>
    ELSE IF h[k] = Dropped THEN f[k - 1]
    ELSE Append(f[k - 1], h[k])
IsLoop(h, n, f) == f = [k \in 0..n |-> Loop(h, f, k)]

\* The loop has a value after any number of messages.
LEMMA LoopExists ==
  ASSUME NEW h
  PROVE  \A n \in Nat : \E f : IsLoop(h, n, f)
<1> DEFINE T == {n \in Nat : \E f : IsLoop(h, n, f)}
<1>1. 0 \in T
  <2>1. IsLoop(h, 0, [k \in 0..0 |-> <<>>])
    BY DEF IsLoop, Loop
  <2>. QED
    BY <2>1
<1>2. ASSUME NEW n \in Nat, n \in T PROVE n + 1 \in T
  <2>1. PICK f : IsLoop(h, n, f)
    BY <1>2
  <2> DEFINE g == [k \in 0..(n + 1) |-> IF k <= n THEN f[k] ELSE Loop(h, f, n + 1)]
  <2>2. \A k \in 0..n : f[k] = Loop(h, f, k) /\ g[k] = f[k]
    BY <2>1 DEF IsLoop
  <2>3. \A k \in 0..(n + 1) : Loop(h, g, k) = Loop(h, f, k)
    <3>1. \A k \in 0..(n + 1) : k # 0 => k - 1 \in 0..n
      OBVIOUS
    <3> HIDE DEF g
    <3>. QED
      BY <2>2, <3>1 DEF Loop
  <2>4. \A k \in 0..(n + 1) : g[k] = Loop(h, g, k)
    <3> SUFFICES ASSUME NEW k \in 0..(n + 1) PROVE g[k] = Loop(h, f, k)
      BY <2>3
    <3>1. CASE k <= n
      <4>1. k \in 0..n
        BY <3>1
      <4>. QED
        BY <2>2, <4>1
    <3>2. CASE ~(k <= n)
      <4>1. k = n + 1
        BY <3>2
      <4> HIDE DEF Loop
      <4>. QED
        BY <3>2, <4>1
    <3>. QED
      BY <3>1, <3>2
  <2>5. g = [k \in 0..(n + 1) |-> Loop(h, g, k)]
    <3>1. g = [k \in 0..(n + 1) |-> g[k]]
      OBVIOUS
    <3> HIDE DEF g, Loop
    <3>. QED
      BY <2>4, <3>1
  <2>6. IsLoop(h, n + 1, g)
    <3> HIDE DEF g, Loop
    <3>. QED
      BY <2>5 DEF IsLoop
  <2>. QED
    BY <2>6
<1>. QED
  <2> HIDE DEF T
  <2>1. \A n \in Nat : n \in T
    BY <1>1, <1>2, AllNumbers
  <2>. QED
    BY <2>1 DEF T

\* g is what is left of the first n messages of h, its messages where pos says.
Selects(h, n, g, pos) ==
    /\ g \in Seq(Message)
    /\ pos \in [1..Len(g) -> 1..n]
    /\ \A i, j \in 1..Len(g) : i < j => pos[i] < pos[j]
    /\ \A i \in 1..Len(g) : g[i] = h[pos[i]] /\ h[pos[i]] # Dropped
    /\ \A k \in 1..n : h[k] # Dropped => \E i \in 1..Len(g) : pos[i] = k

\* One more turn of the loop: a dropped message is passed over, another is appended.
LEMMA SelectsNext ==
  ASSUME NEW h, NEW n \in Nat, NEW g, NEW pos, Selects(h, n, g, pos)
  PROVE  /\ h[n + 1] = Dropped => \E p : Selects(h, n + 1, g, p)
         /\ h[n + 1] # Dropped /\ h[n + 1] \in Message =>
               \E p : Selects(h, n + 1, Append(g, h[n + 1]), p)
<1>0. /\ g \in Seq(Message) /\ Len(g) \in Nat /\ pos \in [1..Len(g) -> 1..n]
      /\ 1..n \subseteq 1..(n + 1)
  BY LenProperties DEF Selects
<1>1. ASSUME h[n + 1] = Dropped PROVE Selects(h, n + 1, g, pos)
  <2>1. pos \in [1..Len(g) -> 1..(n + 1)]
    BY <1>0
  <2>2. ASSUME NEW k \in 1..(n + 1), h[k] # Dropped PROVE \E i \in 1..Len(g) : pos[i] = k
    <3>1. k \in 1..n
      BY <1>1, <2>2
    <3>. QED
      BY <2>2, <3>1 DEF Selects
  <2>. QED
    BY <2>1, <2>2 DEF Selects
<1>2. ASSUME h[n + 1] # Dropped, h[n + 1] \in Message
      PROVE  \E p : Selects(h, n + 1, Append(g, h[n + 1]), p)
  <2> DEFINE l == Len(g)
             a == Append(g, h[n + 1])
             p == [i \in 1..(l + 1) |-> IF i <= l THEN pos[i] ELSE n + 1]
  <2>1. /\ a \in Seq(Message) /\ Len(a) = l + 1 /\ a[l + 1] = h[n + 1]
        /\ \A i \in 1..l : a[i] = g[i]
    BY <1>0, <1>2, AppendProperties
  <2>2. l \in Nat /\ \A i \in 1..l : pos[i] \in 1..n
    BY <1>0
  <2>3. /\ \A i \in 1..l : p[i] = pos[i]
        /\ p[l + 1] = n + 1
        /\ p \in [1..(l + 1) -> 1..(n + 1)]
    BY <2>2
  <2>4. \A i \in 1..(l + 1) : i \in 1..l \/ i = l + 1
    BY <2>2
  <2> HIDE DEF p, a
  <2>5. ASSUME NEW i \in 1..(l + 1), NEW j \in 1..(l + 1), i < j PROVE p[i] < p[j]
    <3>1. i \in 1..l /\ (j \in 1..l \/ j = l + 1)
      BY <2>2, <2>5
    <3>. QED
      BY <2>2, <2>3, <2>5, <3>1 DEF Selects
  <2>6. ASSUME NEW i \in 1..(l + 1) PROVE a[i] = h[p[i]] /\ h[p[i]] # Dropped
    BY <1>2, <2>1, <2>3, <2>4 DEF Selects
  <2>7. ASSUME NEW k \in 1..(n + 1), h[k] # Dropped PROVE \E i \in 1..(l + 1) : p[i] = k
    <3>1. CASE k \in 1..n
      <4>1. PICK i \in 1..l : pos[i] = k
        BY <2>7, <3>1 DEF Selects
      <4>. QED
        BY <2>2, <2>3, <4>1
    <3>2. CASE k = n + 1
      <4>1. l + 1 \in 1..(l + 1)
        BY <2>2
      <4>. QED
        BY <2>3, <3>2, <4>1
    <3>. QED
      BY <3>1, <3>2
  <2>8. Selects(h, n + 1, a, p)
    BY <2>1, <2>3, <2>5, <2>6, <2>7 DEF Selects
  <2>. QED
    BY <2>8 DEF a
<1>. QED
  BY <1>1, <1>2

\* What is kept of a history are its messages that are not dropped, in their order.
LEMMA KeptSelects ==
  ASSUME NEW h \in Seq(Message)
  PROVE  \E pos : Selects(h, Len(h), Kept(h), pos)
<1>1. Len(h) \in Nat /\ \A k \in 1..Len(h) : h[k] \in Message
  BY LenProperties, ElementOfSeq
<1> DEFINE f == CHOOSE f : IsLoop(h, Len(h), f)
<1>2. IsLoop(h, Len(h), f)
  BY <1>1, LoopExists
<1>3. Kept(h) = f[Len(h)]
  BY Zenon DEF Kept, IsLoop, Loop
<1> HIDE DEF f
<1>4. \A k \in 0..Len(h) : f[k] = Loop(h, f, k)
  BY <1>2 DEF IsLoop
<1> DEFINE T == {n \in Nat : n <= Len(h) => \E pos : Selects(h, n, f[n], pos)}
<1>5. 0 \in T
  <2>1. f[0] = <<>>
    BY <1>1, <1>4 DEF Loop
  <2>2. Selects(h, 0, <<>>, <<>>)
    <3>1. <<>> \in Seq(Message) /\ Len(<<>>) = 0 /\ 1..0 = {}
      BY EmptySeq
    <3>2. <<>> \in [1..0 -> 1..0]
      OBVIOUS
    <3>. QED
      BY <3>1, <3>2 DEF Selects
  <2>. QED
    BY <2>1, <2>2
<1>6. ASSUME NEW n \in Nat, n \in T PROVE n + 1 \in T
  <2> SUFFICES ASSUME n + 1 <= Len(h) PROVE \E pos : Selects(h, n + 1, f[n + 1], pos)
    OBVIOUS
  <2>1. PICK pos : Selects(h, n, f[n], pos)
    BY <1>1, <1>6
  <2>2. /\ n + 1 \in 0..Len(h) /\ n + 1 # 0 /\ (n + 1) - 1 = n /\ h[n + 1] \in Message
    BY <1>1
  <2>3. f[n + 1] = IF h[n + 1] = Dropped THEN f[n] ELSE Append(f[n], h[n + 1])
    BY <1>4, <2>2 DEF Loop
  <2>4. /\ h[n + 1] = Dropped => \E p : Selects(h, n + 1, f[n], p)
        /\ h[n + 1] # Dropped => \E p : Selects(h, n + 1, Append(f[n], h[n + 1]), p)
    BY <2>1, <2>2, SelectsNext
  <2> HIDE DEF T
  <2>. QED
    BY <2>3, <2>4
<1>. QED
  <2> HIDE DEF T
  <2>1. \A n \in Nat : n \in T
    BY <1>5, <1>6, AllNumbers
  <2>2. Len(h) \in T
    BY <1>1, <2>1
  <2>. QED
    BY <1>1, <1>3, <2>2 DEF T

-----------------------------------------------------------------------------
(* What is sent of a history                                                *)

\* What every message of the history is: calls are made by the model only, answers are
\* tool messages, and nothing is without content.
Written(m) ==
    /\ m \in Message /\ m # Dropped
    /\ m.from = "tool" <=> m.answers # 0
    /\ m.calls # {} => m.from = "ai"
WellFormed(h) == h \in Seq(Message) /\ \A k \in DOMAIN h : Written(h[k])

\* LastHuman is the greatest position of a user's message, or 0.
LEMMA LastHumanIs ==
  ASSUME NEW h \in Seq(Message)
  PROVE  /\ LastHuman(h) \in 0..Len(h)
         /\ LastHuman(h) # 0 => h[LastHuman(h)].from = "human"
         /\ \A k \in DOMAIN h : h[k].from = "human" => k <= LastHuman(h)
<1> DEFINE I == {k \in 1..Len(h) : h[k].from = "human"}
<1>1. Len(h) \in Nat /\ DOMAIN h = 1..Len(h)
  BY LenProperties
<1>2. LastHuman(h) = IF I # {} THEN CHOOSE x \in I : \A y \in I : x >= y ELSE 0
  BY DEF LastHuman, SelectLastInSeq, Max
<1>3. CASE I = {}
  BY <1>1, <1>2, <1>3
<1>4. CASE I # {}
  <2>1. I \in SUBSET (0..Len(h))
    BY <1>1
  <2>2. \E x \in I : \A y \in I : y <= x
    <3> HIDE DEF I
    <3>. QED
      BY <1>1, <1>4, <2>1, Greatest
  <2>3. \E x \in I : \A y \in I : x >= y
    BY <1>1, <2>2
  <2>4. LastHuman(h) \in I /\ \A y \in I : LastHuman(h) >= y
    <3> HIDE DEF I
    <3>. QED
      BY <1>2, <1>4, <2>3
  <2>. QED
    BY <1>1, <2>4
<1>. QED
  BY <1>3, <1>4

\* The messages that one pass goes over: with what is to be dropped marked.
Stripped(h, k) ==
    IF Past(h, k) /\ h[k].from = "tool" THEN Dropped
    ELSE IF Past(h, k) /\ h[k].calls # {} THEN TextOnly(h[k])
    ELSE h[k]
Cleaned(m, pruned) ==
    IF Unresponded(m, pruned) THEN TextOnly(m)
    ELSE IF m.answers \notin Called(pruned) \union {0} THEN Dropped
    ELSE m

\* What a pass makes of a message is one that the graph may write.
LEMMA PassesWritten ==
  ASSUME NEW m, Written(m)
  PROVE  /\ TextOnly(m) \in Message /\ Dropped \in Message /\ m \in Message
         /\ TextOnly(m) # Dropped => TextOnly(m) = AI({}, TRUE)
         /\ Written(AI({}, TRUE)) /\ AI({}, TRUE).calls = {} /\ AI({}, TRUE).answers = 0
         /\ AI({}, TRUE).from = "ai"
<1>1. AI({}, TRUE) \in Message /\ Dropped \in Message /\ AI({}, TRUE) # Dropped
  BY BoundsNatural DEF AI, Dropped, Message
<1>. QED
  BY <1>1 DEF TextOnly, Written, AI

\* The first pass: a past turn keeps neither calls nor answers, the current one keeps
\* everything.  The messages that are left come from where pos says.
Prunes(h, p, pos) ==
    /\ p \in Seq(Message) /\ pos \in [1..Len(p) -> 1..Len(h)]
    /\ \A i, j \in 1..Len(p) : i < j => pos[i] < pos[j]
    /\ \A i \in 1..Len(p) :
         /\ Written(p[i])
         /\ Past(h, pos[i]) => p[i].calls = {} /\ p[i].answers = 0
         /\ ~Past(h, pos[i]) => p[i] = h[pos[i]]
         /\ p[i] = h[pos[i]] \/ (p[i] = AI({}, TRUE) /\ h[pos[i]].from = "ai")
    /\ \A k \in 1..Len(h) : ~Past(h, k) => \E i \in 1..Len(p) : pos[i] = k

\* Pruned is the first pass.
LEMMA PrunedIs ==
  ASSUME NEW h, WellFormed(h)
  PROVE  \E pos : Prunes(h, Pruned(h), pos)
<1> DEFINE g == [k \in DOMAIN h |-> Stripped(h, k)]
<1>1. h \in Seq(Message) /\ Len(h) \in Nat /\ DOMAIN h = 1..Len(h)
      /\ \A k \in 1..Len(h) : Written(h[k])
  BY LenProperties DEF WellFormed
<1>2. \A k \in 1..Len(h) :
        /\ Stripped(h, k) \in Message
        /\ Stripped(h, k) # Dropped =>
             /\ Written(Stripped(h, k))
             /\ Past(h, k) => Stripped(h, k).calls = {} /\ Stripped(h, k).answers = 0
             /\ Stripped(h, k) = h[k] \/ (Stripped(h, k) = AI({}, TRUE) /\ h[k].from = "ai")
        /\ ~Past(h, k) => Stripped(h, k) = h[k]
        /\ h[k] # Dropped
  <2> SUFFICES ASSUME NEW k \in 1..Len(h)
               PROVE  /\ Stripped(h, k) \in Message
                      /\ Stripped(h, k) # Dropped =>
                           /\ Written(Stripped(h, k))
                           /\ Past(h, k) => /\ Stripped(h, k).calls = {}
                                            /\ Stripped(h, k).answers = 0
                           /\ \/ Stripped(h, k) = h[k]
                              \/ (Stripped(h, k) = AI({}, TRUE) /\ h[k].from = "ai")
                      /\ ~Past(h, k) => Stripped(h, k) = h[k]
                      /\ h[k] # Dropped
    OBVIOUS
  <2> DEFINE m == h[k]
  <2>1. Written(m)
    BY <1>1
  <2>2. /\ TextOnly(m) \in Message /\ Dropped \in Message /\ m \in Message
        /\ TextOnly(m) # Dropped => TextOnly(m) = AI({}, TRUE)
        /\ Written(AI({}, TRUE)) /\ AI({}, TRUE).calls = {} /\ AI({}, TRUE).answers = 0
    BY <2>1, PassesWritten
  <2>3. m # Dropped /\ (m.from = "tool" <=> m.answers # 0) /\ (m.calls # {} => m.from = "ai")
    BY <2>1 DEF Written
  <2> HIDE DEF m
  <2>4. Stripped(h, k) = IF Past(h, k) /\ m.from = "tool" THEN Dropped
                         ELSE IF Past(h, k) /\ m.calls # {} THEN TextOnly(m) ELSE m
    BY DEF Stripped, m
  <2>5. m = h[k]
    BY DEF m
  <2>. QED
    BY <2>1, <2>2, <2>3, <2>4, <2>5
<1>3. g \in Seq(Message) /\ Len(g) = Len(h) /\ \A k \in 1..Len(h) : g[k] = Stripped(h, k)
  <2>1. g \in [1..Len(h) -> Message]
    BY <1>1, <1>2
  <2>2. g \in Seq(Message)
    BY <1>1, <2>1, SeqDef
  <2>. QED
    BY <1>1, <2>1, <2>2, LenProperties
<1>4. Pruned(h) = Kept(g)
  BY DEF Pruned, Stripped
<1> HIDE DEF g
<1>5. PICK pos : Selects(g, Len(g), Kept(g), pos)
  BY <1>3, KeptSelects
<1> DEFINE p == Kept(g)
<1>6. /\ p \in Seq(Message) /\ pos \in [1..Len(p) -> 1..Len(h)]
      /\ \A i, j \in 1..Len(p) : i < j => pos[i] < pos[j]
      /\ \A i \in 1..Len(p) : p[i] = g[pos[i]] /\ g[pos[i]] # Dropped
      /\ \A k \in 1..Len(h) : g[k] # Dropped => \E i \in 1..Len(p) : pos[i] = k
  BY <1>3, <1>5 DEF Selects
<1> HIDE DEF p
<1>7. \A i \in 1..Len(p) : pos[i] \in 1..Len(h) /\ p[i] = Stripped(h, pos[i]) /\ Stripped(h, pos[i]) # Dropped
  BY <1>3, <1>6
<1>8. \A i \in 1..Len(p) :
         /\ Written(p[i])
         /\ Past(h, pos[i]) => p[i].calls = {} /\ p[i].answers = 0
         /\ ~Past(h, pos[i]) => p[i] = h[pos[i]]
         /\ p[i] = h[pos[i]] \/ (p[i] = AI({}, TRUE) /\ h[pos[i]].from = "ai")
  <2> SUFFICES ASSUME NEW i \in 1..Len(p)
               PROVE  /\ Written(p[i])
                      /\ Past(h, pos[i]) => p[i].calls = {} /\ p[i].answers = 0
                      /\ ~Past(h, pos[i]) => p[i] = h[pos[i]]
                      /\ p[i] = h[pos[i]] \/ (p[i] = AI({}, TRUE) /\ h[pos[i]].from = "ai")
    OBVIOUS
  <2>1. PICK k \in 1..Len(h) : k = pos[i]
    BY <1>7
  <2>2. p[i] = Stripped(h, k) /\ Stripped(h, k) # Dropped
    BY <1>7, <2>1
  <2>. QED
    BY <1>2, <2>1, <2>2
<1>9. \A k \in 1..Len(h) : ~Past(h, k) => \E i \in 1..Len(p) : pos[i] = k
  <2> SUFFICES ASSUME NEW k \in 1..Len(h), ~Past(h, k) PROVE \E i \in 1..Len(p) : pos[i] = k
    OBVIOUS
  <2>1. Stripped(h, k) = h[k] /\ h[k] # Dropped
    BY <1>2
  <2>2. g[k] # Dropped
    BY <1>3, <2>1
  <2>. QED
    BY <1>6, <2>2
<1>10. Pruned(h) = p
  BY <1>4 DEF p
<1>11. Prunes(h, p, pos)
  BY <1>6, <1>8, <1>9 DEF Prunes
<1>. QED
  BY <1>10, <1>11

\* Answered, called in the current turn.
AnsweredNow(h, id) == \E k \in 1..Len(h) : ~Past(h, k) /\ h[k].answers = id
CalledNow(h, id) == \E k \in 1..Len(h) : ~Past(h, k) /\ id \in h[k].calls

\* After it, only the calls and answers of the current turn are left.
LEMMA PrunedAnswers ==
  ASSUME NEW h, WellFormed(h), NEW p, NEW pos, Prunes(h, p, pos), NEW id, id # 0
  PROVE  /\ id \in Responded(p) <=> AnsweredNow(h, id)
         /\ id \in Called(p) <=> CalledNow(h, id)
<1>1. DOMAIN p = 1..Len(p) /\ \A i \in 1..Len(p) : pos[i] \in 1..Len(h)
  BY LenProperties DEF Prunes
<1>2. ASSUME NEW i \in 1..Len(p), p[i].answers = id \/ id \in p[i].calls
      PROVE  ~Past(h, pos[i]) /\ p[i] = h[pos[i]] /\ pos[i] \in 1..Len(h)
  BY <1>1, <1>2 DEF Prunes
<1>3. ASSUME NEW k \in 1..Len(h), ~Past(h, k) PROVE \E i \in 1..Len(p) : p[i] = h[k]
  <2>1. PICK i \in 1..Len(p) : pos[i] = k
    BY <1>3 DEF Prunes
  <2>2. ~Past(h, pos[i]) => p[i] = h[pos[i]]
    BY DEF Prunes
  <2>. QED
    BY <1>3, <2>1, <2>2
<1>4. id \in Responded(p) <=> \E i \in 1..Len(p) : p[i].answers = id
  BY <1>1 DEF Responded
<1>5. id \in Called(p) <=> \E i \in 1..Len(p) : id \in p[i].calls
  BY <1>1 DEF Called
<1>6. ASSUME NEW i \in 1..Len(p)
      PROVE  /\ p[i].answers = id => AnsweredNow(h, id)
             /\ id \in p[i].calls => CalledNow(h, id)
  BY <1>2 DEF AnsweredNow, CalledNow
<1>7. ASSUME NEW k \in 1..Len(h), ~Past(h, k)
      PROVE  /\ h[k].answers = id => \E i \in 1..Len(p) : p[i].answers = id
             /\ id \in h[k].calls => \E i \in 1..Len(p) : id \in p[i].calls
  BY <1>3, <1>7
<1>. QED
  BY <1>4, <1>5, <1>6, <1>7 DEF AnsweredNow, CalledNow

\* Both passes: what is sent of a history, and where it comes from.
Sends(h, s, pos) ==
    /\ s \in Seq(Message) /\ pos \in [1..Len(s) -> 1..Len(h)]
    /\ \A i, j \in 1..Len(s) : i < j => pos[i] < pos[j]
    /\ \A i \in 1..Len(s) :
         /\ s[i] = h[pos[i]] \/ (s[i] = AI({}, TRUE) /\ h[pos[i]].from = "ai")
         /\ s[i].calls # {} \/ s[i].from = "tool" => ~Past(h, pos[i]) /\ s[i] = h[pos[i]]
         /\ \A id \in s[i].calls : AnsweredNow(h, id)
    /\ \A k \in 1..Len(h) :
         /\ ~Past(h, k)
         /\ \A id \in h[k].calls : AnsweredNow(h, id)
         /\ h[k].from = "tool" => CalledNow(h, h[k].answers)
         => \E i \in 1..Len(s) : pos[i] = k /\ s[i] = h[k]

\* Sanitize is both passes, one after the other.
LEMMA SanitizeIs ==
  ASSUME NEW h, WellFormed(h)
  PROVE  \E pos : Sends(h, Sanitize(h), pos)
<1> DEFINE p == Pruned(h)
           g == [k \in DOMAIN p |-> Cleaned(p[k], p)]
           s == Kept(g)
<1>1. PICK pos1 : Prunes(h, p, pos1)
  BY PrunedIs
<1>s. Sanitize(h) = s
  BY DEF Sanitize, Cleaned
<1> HIDE DEF p
<1>2. /\ p \in Seq(Message) /\ DOMAIN p = 1..Len(p) /\ Len(p) \in Nat
      /\ \A k \in 1..Len(p) : Written(p[k]) /\ pos1[k] \in 1..Len(h)
  BY <1>1, LenProperties DEF Prunes
<1>3. ASSUME NEW m, Written(m)
      PROVE  /\ Cleaned(m, p) \in Message
             /\ Cleaned(m, p) # Dropped =>
                  \/ Cleaned(m, p) = m /\ m.calls \subseteq Responded(p)
                  \/ Cleaned(m, p) = AI({}, TRUE) /\ m.from = "ai"
             /\ m.calls \subseteq Responded(p) /\ m.answers \in Called(p) \union {0}
                  => Cleaned(m, p) = m /\ m # Dropped
  <2>1. /\ TextOnly(m) \in Message /\ Dropped \in Message /\ m \in Message
        /\ TextOnly(m) # Dropped => TextOnly(m) = AI({}, TRUE)
    BY <1>3, PassesWritten
  <2>2. Unresponded(m, p) => m.from = "ai"
    BY <1>3 DEF Unresponded, Written
  <2>. QED
    BY <1>3, <2>1, <2>2 DEF Cleaned, Unresponded, Written
<1>4. g \in Seq(Message) /\ Len(g) = Len(p) /\ \A k \in 1..Len(p) : g[k] = Cleaned(p[k], p)
  <2>1. g \in [1..Len(p) -> Message]
    BY <1>2, <1>3
  <2>2. g \in Seq(Message)
    BY <1>2, <2>1, SeqDef
  <2>. QED
    BY <1>2, <2>1, <2>2, LenProperties
<1> HIDE DEF g
<1>5. PICK pos2 : Selects(g, Len(g), s, pos2)
  BY <1>4, KeptSelects
<1> HIDE DEF s
<1>6. /\ s \in Seq(Message) /\ pos2 \in [1..Len(s) -> 1..Len(p)]
      /\ \A i, j \in 1..Len(s) : i < j => pos2[i] < pos2[j]
      /\ \A i \in 1..Len(s) : s[i] = g[pos2[i]] /\ g[pos2[i]] # Dropped
      /\ \A k \in 1..Len(p) : g[k] # Dropped => \E i \in 1..Len(s) : pos2[i] = k
  BY <1>4, <1>5 DEF Selects
<1> DEFINE pos == [i \in 1..Len(s) |-> pos1[pos2[i]]]
<1>7. /\ pos \in [1..Len(s) -> 1..Len(h)]
      /\ \A i \in 1..Len(s) : pos[i] = pos1[pos2[i]] /\ pos2[i] \in 1..Len(p)
  BY <1>2, <1>6
<1> HIDE DEF pos
<1>8. \A i, j \in 1..Len(s) : i < j => pos[i] < pos[j]
  BY <1>1, <1>6, <1>7 DEF Prunes
<1>9. ASSUME NEW i \in 1..Len(s)
      PROVE  /\ s[i] = h[pos[i]] \/ (s[i] = AI({}, TRUE) /\ h[pos[i]].from = "ai")
             /\ s[i].calls # {} \/ s[i].from = "tool" => ~Past(h, pos[i]) /\ s[i] = h[pos[i]]
             /\ \A id \in s[i].calls : AnsweredNow(h, id)
  <2>1. PICK k \in 1..Len(p) : k = pos2[i] /\ pos[i] = pos1[k]
    BY <1>7
  <2>2. s[i] = Cleaned(p[k], p) /\ Cleaned(p[k], p) # Dropped
    BY <1>4, <1>6, <2>1
  <2>3. /\ Written(p[k])
        /\ Past(h, pos[i]) => p[k].calls = {} /\ p[k].answers = 0
        /\ ~Past(h, pos[i]) => p[k] = h[pos[i]]
        /\ p[k] = h[pos[i]] \/ (p[k] = AI({}, TRUE) /\ h[pos[i]].from = "ai")
    BY <1>1, <2>1 DEF Prunes
  <2>4. \/ s[i] = p[k] /\ p[k].calls \subseteq Responded(p)
        \/ s[i] = AI({}, TRUE) /\ p[k].from = "ai"
    BY <1>3, <2>2, <2>3
  <2>5. AI({}, TRUE).calls = {} /\ AI({}, TRUE).from = "ai"
    BY DEF AI
  <2>6. s[i] = h[pos[i]] \/ (s[i] = AI({}, TRUE) /\ h[pos[i]].from = "ai")
    BY <2>3, <2>4, <2>5
  <2>7. ASSUME s[i].calls # {} \/ s[i].from = "tool" PROVE ~Past(h, pos[i]) /\ s[i] = h[pos[i]]
    <3>1. s[i] = p[k]
      BY <2>4, <2>5, <2>7
    <3>2. p[k].calls # {} \/ p[k].answers # 0
      BY <2>3, <2>7, <3>1 DEF Written
    <3>. QED
      BY <2>3, <3>1, <3>2
  <2>8. ASSUME NEW id \in s[i].calls PROVE AnsweredNow(h, id)
    <3>1. s[i] = p[k] /\ id \in Responded(p)
      BY <2>4, <2>5
    <3>2. id # 0
      <4>1. p[k].calls \in SUBSET (1..MaxCalls)
        BY <2>3 DEF Written, Message
      <4>. QED
        BY <3>1, <4>1
    <3>. QED
      BY <1>1, <3>1, <3>2, PrunedAnswers
  <2>. QED
    BY <2>6, <2>7, <2>8
<1>10. ASSUME NEW k \in 1..Len(h), ~Past(h, k), \A id \in h[k].calls : AnsweredNow(h, id),
              h[k].from = "tool" => CalledNow(h, h[k].answers)
       PROVE  \E i \in 1..Len(s) : pos[i] = k /\ s[i] = h[k]
  <2>1. PICK j \in 1..Len(p) : pos1[j] = k
    BY <1>1, <1>10 DEF Prunes
  <2>2. p[j] = h[k] /\ Written(p[j])
    BY <1>1, <1>10, <2>1 DEF Prunes
  <2>3. p[j].calls \subseteq Responded(p)
    <3> SUFFICES ASSUME NEW id \in h[k].calls PROVE id \in Responded(p)
      BY <2>2
    <3>1. id # 0
      BY <2>2 DEF Written, Message
    <3>. QED
      BY <1>1, <1>10, <3>1, PrunedAnswers
  <2>4. p[j].answers \in Called(p) \union {0}
    <3>1. CASE h[k].from = "tool"
      <4>1. h[k].answers # 0
        BY <2>2, <3>1 DEF Written
      <4>. QED
        BY <1>1, <1>10, <2>2, <3>1, <4>1, PrunedAnswers
    <3>2. CASE h[k].from # "tool"
      BY <2>2, <3>2 DEF Written
    <3>. QED
      BY <3>1, <3>2
  <2>5. g[j] = h[k] /\ g[j] # Dropped
    BY <1>3, <1>4, <2>2, <2>3, <2>4
  <2>6. PICK i \in 1..Len(s) : pos2[i] = j
    BY <1>6, <2>5
  <2>. QED
    BY <1>6, <1>7, <2>1, <2>5, <2>6
<1>11. Sends(h, s, pos)
  BY <1>6, <1>7, <1>8, <1>9, <1>10 DEF Sends
<1>. QED
  BY <1>s, <1>11

-----------------------------------------------------------------------------
(* What holds of what is sent                                               *)

\* No two messages make the same call.
CallsOnce(h) == \A j, k \in DOMAIN h : j # k => h[j].calls \cap h[k].calls = {}

Sound(h) == WellFormed(h) /\ Paired(h) /\ CallsOnce(h)

\* An answer comes after its call, with only answers in between, and a call of the
\* current turn is made in the current turn.
LEMMA CallerOf ==
  ASSUME NEW h, Sound(h), NEW k \in 1..Len(h), h[k].from = "tool"
  PROVE  \E j \in 1..(k - 1) :
           /\ h[k].answers \in h[j].calls /\ j \in 1..Len(h)
           /\ \A between \in (j + 1)..k : h[between].from = "tool"
           /\ ~Past(h, k) => ~Past(h, j)
<1>1. h \in Seq(Message) /\ Len(h) \in Nat /\ DOMAIN h = 1..Len(h)
  BY LenProperties DEF Sound, WellFormed
<1>2. PICK j \in 1..(k - 1) :
        /\ h[k].answers \in h[j].calls
        /\ \A between \in (j + 1)..(k - 1) : h[between].from = "tool"
  BY <1>1 DEF Sound, Paired, HasCaller
<1>3. \A between \in (j + 1)..k : h[between].from = "tool"
  <2>1. \A between \in (j + 1)..k : between \in (j + 1)..(k - 1) \/ between = k
    OBVIOUS
  <2>. QED
    BY <1>2, <2>1
<1>4. ASSUME ~Past(h, k), Past(h, j) PROVE FALSE
  <2>1. /\ LastHuman(h) \in 0..Len(h)
        /\ LastHuman(h) # 0 => h[LastHuman(h)].from = "human"
    BY <1>1, LastHumanIs
  <2>2. LastHuman(h) \in (j + 1)..k /\ LastHuman(h) # 0
    BY <1>4, <2>1 DEF Past
  <2>. QED
    BY <1>3, <2>1, <2>2
<1>. QED
  BY <1>1, <1>2, <1>3, <1>4

\* Conversely: what answers a call is behind it, with answers only in between, and of the same turn.
LEMMA AnswerOf ==
  ASSUME NEW h, Sound(h), NEW j \in 1..Len(h), NEW k \in 1..Len(h),
         h[k].answers \in h[j].calls
  PROVE  /\ j < k /\ \A between \in (j + 1)..k : h[between].from = "tool"
         /\ ~Past(h, k) <=> ~Past(h, j)
<1>1. h \in Seq(Message) /\ Len(h) \in Nat /\ DOMAIN h = 1..Len(h)
  BY LenProperties DEF Sound, WellFormed
<1>2. h[k].from = "tool"
  <2>1. Written(h[j]) /\ Written(h[k])
    BY <1>1 DEF Sound, WellFormed
  <2>2. h[k].answers # 0
    BY <2>1 DEF Written, Message
  <2>. QED
    BY <2>1, <2>2 DEF Written
<1>3. PICK i \in 1..(k - 1) :
           /\ h[k].answers \in h[i].calls /\ i \in 1..Len(h)
           /\ \A between \in (i + 1)..k : h[between].from = "tool"
           /\ ~Past(h, k) => ~Past(h, i)
  BY <1>2, CallerOf
<1>4. i = j
  BY <1>1, <1>3 DEF Sound, CallsOnce
<1>5. LastHuman(h) \in Nat
  BY <1>1, LastHumanIs
<1>. QED
  BY <1>3, <1>4, <1>5 DEF Past

\* SentCallsAnswered of any messages.
CallsAnswered(s) ==
    \A k \in DOMAIN s : \A id \in s[k].calls :
       \E a \in (k + 1)..Len(s) :
          /\ s[a].answers = id
          /\ \A between \in (k + 1)..a : s[between].from = "tool"

\* A stretch of answers stays one in what is sent.
LEMMA StretchSent ==
  ASSUME NEW h, NEW s, NEW pos, Sends(h, s, pos), NEW i \in 1..Len(s), NEW a \in 1..Len(s),
         \A between \in (pos[i] + 1)..pos[a] : h[between].from = "tool"
  PROVE  \A between \in (i + 1)..a : s[between].from = "tool"
<1> SUFFICES ASSUME NEW between \in (i + 1)..a PROVE s[between].from = "tool"
  OBVIOUS
<1>1. Len(s) \in Nat /\ \A m \in 1..Len(s) : pos[m] \in 1..Len(h)
  BY LenProperties DEF Sends
<1>2. between \in 1..Len(s) /\ i < between /\ (between < a \/ between = a)
  BY <1>1
<1>3. pos[between] \in (pos[i] + 1)..pos[a]
  <2>1. pos[i] < pos[between] /\ (pos[between] < pos[a] \/ pos[between] = pos[a])
    BY <1>2 DEF Sends
  <2>2. pos[i] \in Nat /\ pos[between] \in Nat /\ pos[a] \in Nat
    BY <1>1, <1>2
  <2>. QED
    BY <2>1, <2>2
<1>4. h[pos[between]].from = "tool"
  BY <1>3
<1>. QED
  BY <1>2, <1>4 DEF Sends

\* What is sent of a sound history has an answer to each of its calls.
LEMMA SentAnswered ==
  ASSUME NEW h, Sound(h), NEW s, NEW pos, Sends(h, s, pos)
  PROVE  CallsAnswered(s)
<1>1. /\ Len(s) \in Nat /\ DOMAIN s = 1..Len(s)
      /\ \A m \in 1..Len(s) : pos[m] \in 1..Len(h)
  BY LenProperties DEF Sends
<1> SUFFICES ASSUME NEW k \in 1..Len(s), NEW id \in s[k].calls
             PROVE  \E a \in (k + 1)..Len(s) :
                      /\ s[a].answers = id
                      /\ \A between \in (k + 1)..a : s[between].from = "tool"
  BY <1>1 DEF CallsAnswered
<1>2. PICK j \in 1..Len(h) : j = pos[k]
  BY <1>1
<1>3. ~Past(h, j) /\ id \in h[j].calls /\ AnsweredNow(h, id)
  BY <1>2 DEF Sends
<1>4. PICK q \in 1..Len(h) : ~Past(h, q) /\ h[q].answers = id
  BY <1>3 DEF AnsweredNow
<1>5. j < q /\ \A between \in (j + 1)..q : h[between].from = "tool"
  BY <1>3, <1>4, AnswerOf
<1>6. h[q].from = "tool" /\ h[q].calls = {}
  <2>1. h[q].from = "tool"
    BY <1>5
  <2>2. Written(h[q])
    BY LenProperties DEF Sound, WellFormed
  <2>. QED
    BY <2>1, <2>2 DEF Written
<1>7. CalledNow(h, h[q].answers)
  BY <1>3, <1>4 DEF CalledNow
<1>8. PICK a \in 1..Len(s) : pos[a] = q /\ s[a] = h[q]
  BY <1>4, <1>6, <1>7 DEF Sends
<1>9. k < a
  <2>1. ~(a < k) /\ a # k
    <3>1. a < k => pos[a] < pos[k]
      BY DEF Sends
    <3>. QED
      BY <1>2, <1>5, <1>8, <3>1
  <2>. QED
    BY <1>1, <2>1
<1>10. \A between \in (k + 1)..a : s[between].from = "tool"
  BY <1>2, <1>5, <1>8, StretchSent
<1>. QED
  BY <1>1, <1>4, <1>8, <1>9, <1>10

\* The current turn, position by position.
LEMMA TurnIs ==
  ASSUME NEW h \in Seq(Message), LastHuman(h) # 0
  PROVE  /\ Turn(h) \in Seq(Message) /\ Len(h) \in Nat /\ LastHuman(h) \in 1..Len(h)
         /\ Len(Turn(h)) = Len(h) - LastHuman(h) + 1
         /\ DOMAIN Turn(h) = 1..(Len(h) - LastHuman(h) + 1)
         /\ \A m \in 1..(Len(h) - LastHuman(h) + 1) : Turn(h)[m] = h[LastHuman(h) + m - 1]
         /\ \A k \in 1..Len(h) : ~Past(h, k) =>
               /\ k - LastHuman(h) + 1 \in DOMAIN Turn(h)
               /\ Turn(h)[k - LastHuman(h) + 1] = h[k]
<1> DEFINE L == LastHuman(h)
<1>1. Len(h) \in Nat /\ L \in 1..Len(h)
  BY LastHumanIs, LenProperties
<1>2. \A i \in L..Len(h) : h[i] \in Message
  BY <1>1, ElementOfSeq
<1>3. /\ Turn(h) \in Seq(Message) /\ Len(Turn(h)) = Len(h) - L + 1
      /\ \A m \in 1..(Len(h) - L + 1) : Turn(h)[m] = h[L + m - 1]
  <2> HIDE DEF L
  <2>1. Turn(h) = SubSeq(h, L, Len(h))
    BY DEF Turn, L
  <2>2. L \in Int /\ Len(h) \in Int /\ L <= Len(h)
    BY <1>1
  <2>. QED
    BY <1>2, <2>1, <2>2, SubSeqProperties
<1>4. DOMAIN Turn(h) = 1..(Len(h) - L + 1)
  BY <1>3, LenProperties
<1>5. ASSUME NEW k \in 1..Len(h), ~Past(h, k)
      PROVE  k - L + 1 \in DOMAIN Turn(h) /\ Turn(h)[k - L + 1] = h[k]
  <2>1. k >= L
    BY <1>1, <1>5 DEF Past
  <2> HIDE DEF L
  <2>2. k - L + 1 \in 1..(Len(h) - L + 1) /\ L + (k - L + 1) - 1 = k
    BY <1>1, <2>1
  <2>3. Turn(h)[k - L + 1] = h[L + (k - L + 1) - 1]
    BY <1>3, <2>2
  <2>. QED
    BY <1>4, <2>2, <2>3
<1>. QED
  BY <1>1, <1>3, <1>4, <1>5

\* OrphansOnlyOfPartialBatch of any messages: if the message that makes a call is not
\* sent with it, then some call of that message has no answer.
LEMMA OrphansOfPartialBatch ==
  ASSUME NEW h, Sound(h), LastHuman(h) # 0, NEW s, NEW pos, Sends(h, s, pos),
         NEW k \in Orphans(s)
  PROVE  \E m \in DOMAIN Turn(h) :
            /\ s[k].answers \in Turn(h)[m].calls
            /\ ~(Turn(h)[m].calls \subseteq Responded(h))
<1>1. /\ Len(s) \in Nat /\ DOMAIN s = 1..Len(s) /\ DOMAIN h = 1..Len(h) /\ h \in Seq(Message)
      /\ \A m \in 1..Len(s) : pos[m] \in 1..Len(h)
  BY LenProperties DEF Sends, Sound, WellFormed
<1>2. k \in 1..Len(s) /\ s[k].from = "tool" /\ ~HasCaller(s, k)
  BY <1>1 DEF Orphans
<1>3. PICK q \in 1..Len(h) : q = pos[k]
  BY <1>1, <1>2
<1>4. ~Past(h, q) /\ s[k] = h[q]
  BY <1>2, <1>3 DEF Sends
<1>5. PICK j \in 1..(q - 1) :
           /\ h[q].answers \in h[j].calls /\ j \in 1..Len(h)
           /\ \A between \in (j + 1)..q : h[between].from = "tool"
           /\ ~Past(h, q) => ~Past(h, j)
  BY <1>2, <1>4, CallerOf
<1>6. ASSUME h[j].calls \subseteq Responded(h) PROVE FALSE
  <2>1. ASSUME NEW id \in h[j].calls PROVE AnsweredNow(h, id)
    <3>1. PICK a \in 1..Len(h) : h[a].answers = id
      BY <1>1, <1>6 DEF Responded
    <3>2. ~Past(h, a)
      BY <1>4, <1>5, <3>1, AnswerOf
    <3>. QED
      BY <3>1, <3>2 DEF AnsweredNow
  <2>2. h[j].from # "tool"
    <3>1. Written(h[j])
      BY <1>1, <1>5 DEF Sound, WellFormed
    <3>. QED
      BY <1>5, <3>1 DEF Written
  <2>3. PICK i \in 1..Len(s) : pos[i] = j /\ s[i] = h[j]
    BY <1>4, <1>5, <2>1, <2>2 DEF Sends
  <2>4. i < k
    <3>1. k < i => pos[k] < pos[i]
      BY <1>2 DEF Sends
    <3>2. ~(k < i) /\ k # i
      BY <1>3, <1>5, <2>3, <3>1
    <3>. QED
      BY <1>1, <1>2, <3>2
  <2>5. \A between \in (i + 1)..k : s[between].from = "tool"
    <3>1. \A between \in (pos[i] + 1)..pos[k] : h[between].from = "tool"
      BY <1>3, <1>5, <2>3
    <3>. QED
      BY <1>2, <3>1, StretchSent
  <2>6. i \in 1..(k - 1) /\ \A between \in (i + 1)..(k - 1) : s[between].from = "tool"
    BY <1>1, <1>2, <2>4, <2>5
  <2>7. HasCaller(s, k)
    BY <1>4, <1>5, <2>3, <2>6 DEF HasCaller
  <2>. QED
    BY <1>2, <2>7
<1>. QED
  BY <1>1, <1>4, <1>5, <1>6, TurnIs

\* CurrentTurnSent of any messages.
LEMMA TurnIsSent ==
  ASSUME NEW h, Sound(h), LastHuman(h) # 0, NEW s, NEW pos, Sends(h, s, pos)
  PROVE  /\ LastHuman(s) # 0
         /\ Called(Turn(h)) \subseteq Responded(Turn(h)) => Turn(s) = Turn(h)
<1> DEFINE L == LastHuman(h)
           M == LastHuman(s)
<1>1. /\ Len(s) \in Nat /\ DOMAIN s = 1..Len(s) /\ s \in Seq(Message)
      /\ Len(h) \in Nat /\ DOMAIN h = 1..Len(h) /\ h \in Seq(Message)
      /\ \A m \in 1..Len(s) : pos[m] \in 1..Len(h)
      /\ \A k \in 1..Len(h) : Written(h[k])
  BY LenProperties DEF Sends, Sound, WellFormed
<1>2. L \in 1..Len(h) /\ h[L].from = "human"
  BY <1>1, LastHumanIs
<1>3. M \in 0..Len(s) /\ (M # 0 => s[M].from = "human")
      /\ \A k \in 1..Len(s) : s[k].from = "human" => k <= M
  BY <1>1, LastHumanIs
<1>4. \A k \in 1..Len(h) : ~Past(h, k) <=> k >= L
  BY <1>1, <1>2 DEF Past
<1>5. h[L].calls = {}
  BY <1>1, <1>2 DEF Written
<1>6. PICK i \in 1..Len(s) : pos[i] = L /\ s[i] = h[L]
  <2>1. ~Past(h, L) /\ h[L].from # "tool" /\ \A id \in h[L].calls : AnsweredNow(h, id)
    BY <1>2, <1>4, <1>5
  <2> HIDE DEF L
  <2>. QED
    BY <1>2, <2>1 DEF Sends
<1>7. M # 0
  BY <1>1, <1>2, <1>3, <1>6
<1>8. M = i
  <2>1. i <= M
    BY <1>2, <1>3, <1>6
  <2>2. h[pos[M]].from = "human"
    <3>1. s[M].from = "human" /\ M \in 1..Len(s) /\ AI({}, TRUE).from = "ai"
      BY <1>3, <1>7 DEF AI
    <3>2. s[M] = h[pos[M]] \/ (s[M] = AI({}, TRUE) /\ h[pos[M]].from = "ai")
      BY <3>1 DEF Sends
    <3>. QED
      BY <3>1, <3>2
  <2>3. pos[M] <= L
    <3>1. \A k \in DOMAIN h : h[k].from = "human" => k <= L
      BY <1>1, LastHumanIs
    <3>2. pos[M] \in DOMAIN h
      BY <1>1, <1>3, <1>7
    <3>. QED
      BY <2>2, <3>1, <3>2
  <2>4. i < M => pos[i] < pos[M]
    BY <1>3, <1>7 DEF Sends
  <2>5. M \in 1..Len(s) /\ pos[M] \in 1..Len(h) /\ i \in Nat
    BY <1>1, <1>3, <1>7
  <2> HIDE DEF L, M
  <2>. QED
    BY <1>2, <1>6, <2>1, <2>3, <2>4, <2>5
<1>9. ASSUME Called(Turn(h)) \subseteq Responded(Turn(h)) PROVE Turn(s) = Turn(h)
  <2>1. ASSUME NEW k \in 1..Len(h), k >= L PROVE \E a \in 1..Len(s) : pos[a] = k /\ s[a] = h[k]
    <3>1. ~Past(h, k)
      BY <1>4, <2>1
    <3>2. ASSUME NEW id \in h[k].calls PROVE AnsweredNow(h, id)
      <4>1. id \in Called(Turn(h))
        <5>1. /\ k - LastHuman(h) + 1 \in DOMAIN Turn(h)
              /\ Turn(h)[k - LastHuman(h) + 1] = h[k]
          BY <1>1, <3>1, TurnIs
        <5>. QED
          BY <3>2, <5>1 DEF Called
      <4>2. PICK m \in DOMAIN Turn(h) : Turn(h)[m].answers = id
        BY <1>9, <4>1 DEF Responded
      <4>3. m \in 1..(Len(h) - L + 1) /\ Turn(h)[m] = h[L + m - 1]
        BY <1>1, <4>2, TurnIs
      <4>4. L + m - 1 \in 1..Len(h) /\ L + m - 1 >= L
        BY <1>1, <1>2, <4>3
      <4>5. PICK q \in 1..Len(h) : q = L + m - 1
        BY <4>4
      <4>6. ~Past(h, q) /\ h[q].answers = id
        BY <1>4, <4>2, <4>3, <4>4, <4>5
      <4>. QED
        BY <4>6 DEF AnsweredNow
    <3>3. ASSUME h[k].from = "tool" PROVE CalledNow(h, h[k].answers)
      BY <3>1, <3>3, CallerOf DEF CalledNow
    <3>. QED
      BY <3>1, <3>2, <3>3 DEF Sends
  <2>2. \A a, b \in 1..Len(s) : a < b => pos[a] < pos[b]
    BY DEF Sends
  <2> DEFINE T == {d \in Nat : i + d <= Len(s) => pos[i + d] = L + d}
  <2>3. 0 \in T
    <3>1. i + 0 = i /\ L + 0 = L
      BY <1>2
    <3>. QED
      BY <1>6, <3>1
  <2>4. ASSUME NEW d \in Nat, d \in T PROVE d + 1 \in T
    <3> SUFFICES ASSUME i + (d + 1) <= Len(s) PROVE pos[i + (d + 1)] = L + (d + 1)
      OBVIOUS
    <3> HIDE DEF L
    <3>1. PICK x \in 1..Len(s) : x = i + d /\ pos[x] = L + d
      BY <1>1, <2>4
    <3>2. x + 1 \in 1..Len(s) /\ x < x + 1 /\ x + 1 = i + (d + 1)
      BY <1>1, <3>1
    <3>3. pos[x] < pos[x + 1] /\ pos[x + 1] \in 1..Len(h)
      BY <1>1, <2>2, <3>2
    <3>4. L + d + 1 \in 1..Len(h) /\ L + d + 1 >= L
      BY <1>1, <1>2, <3>1, <3>3
    <3>5. PICK y \in 1..Len(s) : pos[y] = L + d + 1
      BY <2>1, <3>4
    <3>6. ~(y < x) /\ y # x
      <4>1. y < x => pos[y] < pos[x]
        BY <2>2
      <4>. QED
        BY <1>2, <3>1, <3>5, <4>1
    <3>7. ~(x + 1 < y)
      <4>1. x + 1 < y => pos[x + 1] < pos[y]
        BY <2>2, <3>2
      <4>. QED
        BY <1>1, <1>2, <3>1, <3>3, <3>5, <4>1
    <3>8. y = x + 1
      BY <3>6, <3>7
    <3>. QED
      BY <1>2, <3>2, <3>5, <3>8
  <2>5. \A d \in Nat : i + d <= Len(s) => pos[i + d] = L + d
    <3> HIDE DEF L
    <3>1. \A d \in Nat : d \in T
      <4> HIDE DEF T
      <4>. QED
        BY <2>3, <2>4, AllNumbers
    <3>. QED
      BY <3>1
  <2> HIDE DEF L, M, T
  <2>6. Len(s) - i = Len(h) - L
    <3>1. PICK z \in 1..Len(s) : pos[z] = Len(h)
      BY <1>1, <1>2, <2>1
    <3>2. z = Len(s)
      <4>1. z < Len(s) => pos[z] < pos[Len(s)]
        BY <1>1, <2>2
      <4>2. Len(s) \in 1..Len(s) /\ pos[Len(s)] \in 1..Len(h)
        <5>1. Len(s) \in 1..Len(s)
          BY <1>1
        <5>. QED
          BY <1>1, <5>1
      <4>3. ~(z < Len(s))
        BY <1>1, <3>1, <4>1, <4>2
      <4>4. Len(s) \in Nat /\ z \in 1..Len(s)
        BY <1>1
      <4>. QED
        BY <4>3, <4>4
    <3>3. Len(s) - i \in Nat /\ i + (Len(s) - i) = Len(s)
      BY <1>1
    <3>4. pos[i + (Len(s) - i)] = L + (Len(s) - i)
      BY <1>1, <2>5, <3>3
    <3>5. Len(h) = L + (Len(s) - i)
      BY <3>1, <3>2, <3>3, <3>4
    <3>. QED
      BY <1>1, <1>2, <3>5
  <2>7. /\ Turn(h) \in Seq(Message) /\ Turn(s) \in Seq(Message)
        /\ Len(Turn(h)) = Len(h) - L + 1 /\ Len(Turn(s)) = Len(s) - M + 1
        /\ \A m \in 1..(Len(h) - L + 1) : Turn(h)[m] = h[L + m - 1]
        /\ \A m \in 1..(Len(s) - M + 1) : Turn(s)[m] = s[M + m - 1]
    BY <1>1, <1>7, TurnIs DEF L, M
  <2>8. ASSUME NEW m \in 1..Len(Turn(s)) PROVE Turn(s)[m] = Turn(h)[m]
    <3>1. /\ m \in 1..(Len(s) - M + 1) /\ m \in 1..(Len(h) - L + 1)
          /\ m - 1 \in Nat /\ i + (m - 1) <= Len(s) /\ i + (m - 1) = M + m - 1
          /\ L + (m - 1) = L + m - 1 /\ L + m - 1 \in 1..Len(h) /\ L + m - 1 >= L
          /\ M + m - 1 \in 1..Len(s)
      BY <1>1, <1>2, <1>8, <2>6, <2>7
    <3>2. pos[M + m - 1] = L + m - 1
      BY <2>5, <3>1
    <3>3. PICK a \in 1..Len(s) : pos[a] = L + m - 1 /\ s[a] = h[L + m - 1]
      BY <2>1, <3>1
    <3>4. a = M + m - 1
      <4>1. PICK b \in 1..Len(s) : b = M + m - 1
        BY <3>1
      <4>2. (a < b => pos[a] < pos[b]) /\ (b < a => pos[b] < pos[a])
        BY <2>2
      <4>3. pos[a] = pos[b] /\ pos[a] \in Nat
        BY <3>1, <3>2, <3>3, <4>1
      <4>. QED
        BY <4>1, <4>2, <4>3
    <3>. QED
      BY <2>7, <3>1, <3>3, <3>4
  <2>9. Len(Turn(s)) = Len(Turn(h))
    BY <1>8, <2>6, <2>7
  <2>. QED
    BY <2>7, <2>8, <2>9, SeqEqual
<1>. QED
  BY <1>7, <1>9

-----------------------------------------------------------------------------

LEMMA InitInv == Init => IInv
<1> SUFFICES ASSUME Init PROVE IInv
  OBVIOUS
<1>1. HistoryOK
  <2>1. messages \in Seq(Message)
    BY EmptySeq DEF Init
  <2>2. summary \in BOOLEAN
    BY DEF Init
  <2>. QED
    BY <2>1, <2>2, BoundsNatural DEF Init, HistoryOK
<1>2. CallersKept
  BY DEF Init, CallersKept
<1>. QED
  BY <1>1, <1>2 DEF IInv

\* Each action preserves the invariant; those that change the history do so in one
\* of the ways of the lemmas.
LEMMA NextInv == IInv /\ [Next]_vars => IInv'
<1> SUFFICES ASSUME IInv, [Next]_vars PROVE HistoryOK' /\ CallersKept'
  BY DEF IInv
<1> USE BoundsNatural
<1>0. /\ HistoryOK /\ Paired(messages) /\ messages \in Seq(Message)
      /\ turns \in 0..MaxTurns /\ calls \in 0..MaxCalls /\ summary \in BOOLEAN
  BY DEF IInv, HistoryOK, CallersKept, Paired
<1> SUFFICES HistoryOK' /\ Paired(messages')
  BY DEF CallersKept, Paired
<1>1. CASE NewMessage
  <2>1. Human \in Message /\ Human.from # "tool"
    BY DEF Human, Message
  <2>2. /\ messages' \in Seq(Message) /\ messages' # <<>> /\ Paired(messages')
    BY <1>0, <1>1, <2>1, AppendPaired DEF NewMessage
  <2>3. turns' \in 0..MaxTurns /\ calls' \in 0..MaxCalls /\ summary' \in BOOLEAN
        /\ node' = "summarize"
    BY <1>0, <1>1 DEF NewMessage
  <2>. QED
    BY <2>2, <2>3 DEF HistoryOK
<1>2. CASE Summarize
  <2>1. /\ messages # <<>> /\ node' = "agent" /\ turns' = turns /\ calls' = calls
    BY <1>0, <1>2 DEF Summarize, HistoryOK
  <2>2. /\ summary' \in BOOLEAN
        /\ messages' \in Seq(Message) /\ messages' # <<>> /\ Paired(messages')
    <3>1. CASE Cutoff(messages) > 0 /\ summary' = TRUE
               /\ messages' = SubSeq(messages, Cutoff(messages) + 1, Len(messages))
      <4>1. /\ Cutoff(messages) \in 1..(Len(messages) - 1)
            /\ messages[Cutoff(messages) + 1].from # "tool"
        BY <1>0, <3>1, CutoffBeforeAnswer, KeepLastPositive, LenProperties
      <4>. QED
        BY <1>0, <3>1, <4>1, CutPaired
    <3>2. CASE UNCHANGED <<messages, summary>>
      BY <1>0, <2>1, <3>2
    <3>. QED
      BY <1>2, <3>1, <3>2 DEF Summarize
  <2>. QED
    BY <1>0, <2>1, <2>2 DEF HistoryOK
<1>3. CASE CallModel
  BY <1>0, <1>3 DEF CallModel, HistoryOK
<1>4. CASE Reply
  <2>1. messages # <<>> /\ turns' = turns /\ summary' = summary
    BY <1>0, <1>4 DEF Reply, HistoryOK
  <2>2. CASE /\ messages' = Append(messages, AI({}, TRUE))
             /\ node' = "idle" /\ calls' = calls
    <3>1. AI({}, TRUE) \in Message /\ AI({}, TRUE).from # "tool"
      BY DEF AI, Message
    <3>2. messages' \in Seq(Message) /\ Paired(messages')
      BY <1>0, <2>2, <3>1, AppendPaired
    <3>. QED
      BY <1>0, <2>1, <2>2, <3>2 DEF HistoryOK
  <2>3. ASSUME NEW n \in 1..(MaxCalls - calls), NEW text \in BOOLEAN,
               messages' = Append(messages, AI((calls + 1)..(calls + n), text)),
               calls' = calls + n, node' = "tools"
        PROVE  HistoryOK' /\ Paired(messages')
    <3> DEFINE m == AI((calls + 1)..(calls + n), text)
    <3>1. m \in Message /\ m.from # "tool" /\ m.calls # {}
      <4>1. (calls + 1)..(calls + n) \in SUBSET (1..MaxCalls) /\ calls + 1 \in (calls + 1)..(calls + n)
        BY <1>0
      <4>. QED
        BY <4>1 DEF AI, Message
    <3>2. /\ messages' \in Seq(Message) /\ messages' # <<>> /\ Paired(messages')
      BY <1>0, <2>3, <3>1, AppendPaired
    <3>3. Last(messages') = m
      <4>1. /\ Len(messages') = Len(messages) + 1
            /\ messages'[Len(messages) + 1] = m
        BY <1>0, <2>3, <3>1, AppendProperties
      <4>. QED
        BY <4>1 DEF Last
    <3>4. calls' \in 0..MaxCalls
      BY <1>0, <2>3
    <3>. QED
      BY <1>0, <2>1, <2>3, <3>1, <3>2, <3>3, <3>4 DEF HistoryOK
  <2>. QED
    BY <1>4, <2>2, <2>3 DEF Reply
<1>5. CASE Tools
  <2>1. /\ messages # <<>> /\ node' = "agent" /\ turns' = turns /\ summary' = summary /\ calls' = calls
    BY <1>0, <1>5 DEF Tools, HistoryOK
  <2>2. PICK all \in Seq(Message) :
          /\ messages' = messages \o all
          /\ \A k \in DOMAIN all : \E id \in Last(messages).calls : all[k] = Tool(id)
    BY <1>0, <1>5, ToolsAnswer
  <2>3. \A k \in DOMAIN all : all[k].from = "tool" /\ all[k].answers \in Last(messages).calls
    BY <2>2 DEF Tool
  <2>4. messages' \in Seq(Message) /\ messages' # <<>> /\ Paired(messages')
    BY <1>0, <2>1, <2>2, <2>3, AnswersPaired
  <2>. QED
    BY <1>0, <2>1, <2>4 DEF HistoryOK
<1>6. CASE Abandon
  BY <1>0, <1>6 DEF Abandon, HistoryOK
<1>7. CASE UNCHANGED vars
  BY <1>0, <1>7 DEF vars, HistoryOK
<1>. QED
  BY <1>1, <1>2, <1>3, <1>4, <1>5, <1>6, <1>7 DEF Next

\* The stored history is well formed, and its answers have their callers.
THEOREM Invariance == Spec => []IInv
<1>. QED
  BY InitInv, NextInv, PTL DEF Spec

\* The stored history is well formed: whenever a tool node runs there is a message
\* with tool calls to work on, and the agent always has a message.
THEOREM TypeCorrect == Spec => []HistoryOK
<1>1. IInv => HistoryOK
  BY DEF IInv
<1>. QED
  BY <1>1, Invariance, PTL

\* However many messages are kept and whatever a batch's size, no summary separates
\* an answer from its call.
THEOREM Pairing == Spec => []CallersKept
<1>1. IInv => CallersKept
  BY DEF IInv
<1>. QED
  BY <1>1, Invariance, PTL

-----------------------------------------------------------------------------
(* The invariant about what is sent                                         *)

\* Every message is one that the graph writes, and makes calls of its own.
Made(h, n) == /\ \A k \in DOMAIN h : Written(h[k]) /\ h[k].calls \subseteq 1..n
              /\ CallsOnce(h)
HasHuman(h) == \E k \in DOMAIN h : h[k].from = "human"

\* A turn begins with the user's message, which is still there when the model is
\* called; what it is sent is then what the history, not changed since, is cleaned to.
Asked == /\ node # "idle" => HasHuman(messages)
         /\ node = "summarize" => Last(messages).from = "human"
SentNow == node = "model" => sent = Sanitize(messages)

SentInv ==
    /\ Made(messages, calls) /\ Asked /\ SentNow
    /\ sent \in Seq(Message) /\ CallsAnswered(sent)

\* A message may follow if its calls are new.
LEMMA AppendMade ==
  ASSUME NEW h \in Seq(Message), NEW n \in Nat, Made(h, n), NEW more \in Nat, n <= more,
         NEW m, Written(m), m.calls \subseteq (n + 1)..more
  PROVE  /\ Made(Append(h, m), more)
         /\ HasHuman(h) \/ m.from = "human" => HasHuman(Append(h, m))
         /\ Last(Append(h, m)) = m
<1> DEFINE g == Append(h, m)
<1>0. m \in Message
  BY DEF Written
<1>1. /\ Len(g) = Len(h) + 1 /\ Len(h) \in Nat
      /\ \A k \in 1..Len(h) : g[k] = h[k]
      /\ g[Len(h) + 1] = m
      /\ DOMAIN g = 1..Len(g) /\ DOMAIN h = 1..Len(h)
  BY <1>0, AppendProperties, LenProperties
<1> HIDE DEF g
<1>2. \A k \in DOMAIN g : k \in DOMAIN h \/ k = Len(h) + 1
  BY <1>1
<1>3. ASSUME NEW k \in DOMAIN g PROVE Written(g[k]) /\ g[k].calls \subseteq 1..more
  <2>1. CASE k \in DOMAIN h
    <3>1. g[k] = h[k] /\ Written(h[k]) /\ h[k].calls \subseteq 1..n
      BY <1>1, <2>1 DEF Made
    <3>. QED
      BY <3>1
  <2>2. CASE k = Len(h) + 1
    BY <1>1, <2>2
  <2>. QED
    BY <1>2, <2>1, <2>2
<1>4. ASSUME NEW j \in DOMAIN h PROVE g[j].calls \cap m.calls = {}
  BY <1>1 DEF Made
<1>5. CallsOnce(g)
  <2> SUFFICES ASSUME NEW j \in DOMAIN g, NEW k \in DOMAIN g, j # k
               PROVE  g[j].calls \cap g[k].calls = {}
    BY DEF CallsOnce
  <2>1. CASE j \in DOMAIN h /\ k \in DOMAIN h
    <3>1. h[j].calls \cap h[k].calls = {}
      BY <2>1 DEF Made, CallsOnce
    <3>. QED
      BY <1>1, <2>1, <3>1
  <2>2. CASE j = Len(h) + 1 \/ k = Len(h) + 1
    <3>1. g[Len(h) + 1] = m
      BY <1>1
    <3>. QED
      BY <1>2, <1>4, <2>2, <3>1
  <2>. QED
    BY <1>2, <2>1, <2>2
<1>6. HasHuman(h) \/ m.from = "human" => HasHuman(g)
  <2>1. Len(h) + 1 \in DOMAIN g /\ DOMAIN h \subseteq DOMAIN g
    BY <1>1
  <2>. QED
    BY <1>1, <2>1 DEF HasHuman
<1>7. Last(g) = m
  BY <1>1 DEF Last
<1>. QED
  BY <1>3, <1>5, <1>6, <1>7 DEF Made, g

\* Answers make no calls.
LEMMA AnswersMade ==
  ASSUME NEW h \in Seq(Message), NEW n \in Nat, Made(h, n), NEW all \in Seq(Message),
         \A k \in DOMAIN all : \E id \in 1..MaxCalls : all[k] = Tool(id)
  PROVE  Made(h \o all, n) /\ (HasHuman(h) => HasHuman(h \o all))
<1> DEFINE g == h \o all
<1>1. /\ Len(g) = Len(h) + Len(all) /\ Len(h) \in Nat /\ Len(all) \in Nat
      /\ \A k \in 1..(Len(h) + Len(all)) : g[k] = IF k <= Len(h) THEN h[k] ELSE all[k - Len(h)]
      /\ DOMAIN g = 1..(Len(h) + Len(all)) /\ DOMAIN h = 1..Len(h) /\ DOMAIN all = 1..Len(all)
  BY ConcatProperties, LenProperties
<1> HIDE DEF g
<1>2. \A k \in DOMAIN h : k \in DOMAIN g /\ g[k] = h[k]
  BY <1>1
<1>3. ASSUME NEW k \in DOMAIN g, k \notin DOMAIN h
      PROVE  Written(g[k]) /\ g[k].calls = {}
  <2>1. k - Len(h) \in DOMAIN all /\ g[k] = all[k - Len(h)]
    BY <1>1, <1>3
  <2>2. PICK id \in 1..MaxCalls : g[k] = Tool(id)
    BY <2>1
  <2>. QED
    BY <2>2, BoundsNatural DEF Tool, Written, Message, Dropped, AI
<1>4. \A k \in DOMAIN g : Written(g[k]) /\ g[k].calls \subseteq 1..n
  BY <1>2, <1>3 DEF Made
<1>5. CallsOnce(g)
  <2> SUFFICES ASSUME NEW j \in DOMAIN g, NEW k \in DOMAIN g, j # k
               PROVE  g[j].calls \cap g[k].calls = {}
    BY DEF CallsOnce
  <2>1. CASE j \in DOMAIN h /\ k \in DOMAIN h
    BY <1>2, <2>1 DEF Made, CallsOnce
  <2>2. CASE j \notin DOMAIN h \/ k \notin DOMAIN h
    BY <1>3, <2>2
  <2>. QED
    BY <2>1, <2>2
<1>6. HasHuman(h) => HasHuman(g)
  BY <1>2 DEF HasHuman
<1>. QED
  BY <1>4, <1>5, <1>6 DEF Made, g

\* A summary leaves nothing that was not there, and the last message.
LEMMA CutMade ==
  ASSUME NEW h \in Seq(Message), NEW n \in Nat, Made(h, n), NEW c \in 1..(Len(h) - 1)
  PROVE  LET g == SubSeq(h, c + 1, Len(h)) IN
         Made(g, n) /\ (Last(h).from = "human" => HasHuman(g))
<1> DEFINE g == SubSeq(h, c + 1, Len(h))
<1>1. Len(h) \in Nat /\ DOMAIN h = 1..Len(h)
  BY LenProperties
<1>2. \A k \in (c + 1)..Len(h) : h[k] \in Message
  BY <1>1, ElementOfSeq
<1>3. /\ g \in Seq(Message) /\ Len(g) = Len(h) - c
      /\ \A k \in 1..(Len(h) - c) : g[k] = h[k + c]
  <2>1. c + 1 \in Int /\ Len(h) \in Int
    BY <1>1
  <2>. QED
    BY <1>1, <1>2, <2>1, SubSeqProperties
<1>4. DOMAIN g = 1..(Len(h) - c)
  BY <1>3, LenProperties
<1> HIDE DEF g
<1>5. \A k \in DOMAIN g : k + c \in DOMAIN h /\ g[k] = h[k + c]
  BY <1>1, <1>3, <1>4
<1>6. \A k \in DOMAIN g : Written(g[k]) /\ g[k].calls \subseteq 1..n
  BY <1>5 DEF Made
<1>7. CallsOnce(g)
  <2> SUFFICES ASSUME NEW j \in DOMAIN g, NEW k \in DOMAIN g, j # k
               PROVE  g[j].calls \cap g[k].calls = {}
    BY DEF CallsOnce
  <2>1. j + c # k + c
    BY <1>4
  <2>. QED
    BY <1>5, <2>1 DEF Made, CallsOnce
<1>8. ASSUME Last(h).from = "human" PROVE HasHuman(g)
  <2>1. Len(h) - c \in DOMAIN g /\ (Len(h) - c) + c = Len(h)
    BY <1>1, <1>4
  <2>. QED
    BY <1>5, <1>8, <2>1 DEF HasHuman, Last
<1>. QED
  BY <1>6, <1>7, <1>8 DEF Made, g

\* With its answers paired, such a history is sound.
LEMMA MadeSound ==
  ASSUME HistoryOK, CallersKept, Made(messages, calls)
  PROVE  Sound(messages)
BY DEF HistoryOK, CallersKept, Made, Sound, WellFormed, Paired

LEMMA SentInit == Init => SentInv
<1> SUFFICES ASSUME Init PROVE SentInv
  OBVIOUS
<1>1. messages = <<>> /\ sent = <<>> /\ node = "idle"
  BY DEF Init
<1>2. DOMAIN messages = {} /\ DOMAIN sent = {} /\ sent \in Seq(Message)
  BY <1>1, EmptySeq
<1>. QED
  BY <1>1, <1>2 DEF SentInv, Made, CallsOnce, Asked, SentNow, CallsAnswered

\* Each action preserves the invariant: the model's calls have fresh ids, a summary ends
\* before the user's message, and only agent_node decides what is sent.
LEMMA SentNext == IInv /\ IInv' /\ SentInv /\ [Next]_vars => SentInv'
<1> SUFFICES ASSUME IInv, IInv', SentInv, [Next]_vars PROVE SentInv'
  OBVIOUS
<1> USE BoundsNatural
<1>0. /\ HistoryOK /\ CallersKept /\ messages \in Seq(Message) /\ messages' \in Seq(Message)
      /\ calls \in 0..MaxCalls /\ calls \in Nat
      /\ Made(messages, calls) /\ sent \in Seq(Message) /\ CallsAnswered(sent)
  BY DEF IInv, HistoryOK, SentInv
<1> HIDE DEF IInv
<1>1. CASE NewMessage
  <2>1. Written(Human) /\ Human.calls = {} /\ Human.from = "human"
    BY DEF Human, Written, Message, Dropped, AI
  <2>2. messages' = Append(messages, Human) /\ calls' = calls /\ sent' = sent
        /\ node' = "summarize"
    BY <1>1 DEF NewMessage
  <2>3. Made(messages', calls') /\ HasHuman(messages') /\ Last(messages').from = "human"
    BY <1>0, <2>1, <2>2, AppendMade
  <2>. QED
    BY <1>0, <2>2, <2>3 DEF SentInv, Asked, SentNow
<1>2. CASE Summarize
  <2>1. /\ node = "summarize" /\ node' = "agent" /\ calls' = calls /\ sent' = sent
        /\ HasHuman(messages) /\ Last(messages).from = "human"
    BY <1>2 DEF Summarize, SentInv, Asked
  <2>2. Made(messages', calls') /\ HasHuman(messages')
    <3>1. CASE /\ Cutoff(messages) > 0
               /\ messages' = SubSeq(messages, Cutoff(messages) + 1, Len(messages))
      <4>1. Cutoff(messages) \in 1..(Len(messages) - 1)
        <5>1. Cutoff(messages) \in 1..(Len(messages) - KeepLast) /\ Len(messages) \in Nat
          BY <1>0, <3>1, CutoffBeforeAnswer, LenProperties
        <5>. QED
          BY <5>1, KeepLastPositive
      <4>. QED
        BY <1>0, <2>1, <3>1, <4>1, CutMade
    <3>2. CASE messages' = messages
      BY <1>0, <2>1, <3>2
    <3>. QED
      BY <1>2, <3>1, <3>2 DEF Summarize
  <2>. QED
    BY <1>0, <2>1, <2>2 DEF SentInv, Asked, SentNow
<1>3. CASE CallModel
  <2>1. /\ node = "agent" /\ node' = "model" /\ calls' = calls /\ messages' = messages
        /\ sent' = Sanitize(messages)
    BY <1>3 DEF CallModel
  <2>2. Sound(messages)
    BY <1>0, MadeSound
  <2>3. PICK pos : Sends(messages, Sanitize(messages), pos)
    BY <2>2, SanitizeIs DEF Sound
  <2>4. sent' \in Seq(Message) /\ CallsAnswered(sent')
    <3>1. Sanitize(messages) \in Seq(Message)
      BY <2>3 DEF Sends
    <3>2. CallsAnswered(Sanitize(messages))
      BY <2>2, <2>3, SentAnswered
    <3>. QED
      BY <2>1, <3>1, <3>2
  <2>5. SentNow'
    <3>1. sent' = Sanitize(messages')
      BY <2>1
    <3>. QED
      BY <3>1 DEF SentNow
  <2>. QED
    BY <1>0, <2>1, <2>4, <2>5 DEF SentInv, Asked
<1>4. CASE Reply
  <2>1. node = "model" /\ HasHuman(messages) /\ sent' = sent
    BY <1>4 DEF Reply, SentInv, Asked
  <2>2. CASE /\ messages' = Append(messages, AI({}, TRUE))
             /\ node' = "idle" /\ calls' = calls
    <3> DEFINE m == AI({}, TRUE)
    <3>1. Written(m) /\ m.calls \subseteq (calls + 1)..calls /\ messages' = Append(messages, m)
      BY <2>2 DEF Written, AI, Message, Dropped
    <3> HIDE DEF m
    <3>2. Made(messages', calls')
      <4>1. calls \in Nat /\ calls <= calls
        BY <1>0
      <4>2. Made(Append(messages, m), calls)
        BY <1>0, <3>1, <4>1, AppendMade
      <4>. QED
        BY <2>2, <3>1, <4>2
    <3>. QED
      BY <1>0, <2>1, <2>2, <3>2 DEF SentInv, Asked, SentNow
  <2>3. ASSUME NEW n \in 1..(MaxCalls - calls), NEW text \in BOOLEAN,
               messages' = Append(messages, AI((calls + 1)..(calls + n), text)),
               calls' = calls + n, node' = "tools"
        PROVE  SentInv'
    <3> DEFINE m == AI((calls + 1)..(calls + n), text)
    <3>1. Written(m) /\ m.calls = (calls + 1)..(calls + n)
      <4> DEFINE new == (calls + 1)..(calls + n)
      <4>1. new \in SUBSET (1..MaxCalls) /\ new # {}
        <5>1. /\ calls \in Nat /\ MaxCalls \in Nat /\ n \in Nat /\ 1 <= n
              /\ n <= MaxCalls - calls
          BY <1>0
        <5>2. calls + 1 \in new
          BY <5>1
        <5>3. ASSUME NEW id \in new PROVE id \in 1..MaxCalls
          BY <5>1
        <5>. QED
          BY <5>2, <5>3
      <4> HIDE DEF new
      <4>2. Written(AI(new, text)) /\ AI(new, text).calls = new
        BY <4>1 DEF AI, Message, Written, Dropped
      <4>. QED
        BY <4>2 DEF new
    <3>2. Made(messages', calls') /\ HasHuman(messages')
      <4>1. calls + n \in Nat /\ calls <= calls + n
        BY <1>0
      <4> HIDE DEF m
      <4>2. m.calls \subseteq (calls + 1)..(calls + n)
        BY <3>1
      <4>3. messages' = Append(messages, m)
        BY <2>3 DEF m
      <4>4. /\ Made(Append(messages, m), calls + n)
            /\ HasHuman(messages) => HasHuman(Append(messages, m))
        BY <1>0, <3>1, <4>1, <4>2, AppendMade
      <4>. QED
        BY <2>1, <2>3, <4>3, <4>4
    <3>. QED
      BY <1>0, <2>1, <2>3, <3>2 DEF SentInv, Asked, SentNow
  <2>. QED
    BY <1>4, <2>2, <2>3 DEF Reply
<1>5. CASE Tools
  <2>1. /\ node = "tools" /\ node' = "agent" /\ calls' = calls /\ sent' = sent
        /\ HasHuman(messages)
    BY <1>5 DEF Tools, SentInv, Asked
  <2>2. PICK all \in Seq(Message) :
          /\ messages' = messages \o all
          /\ \A k \in DOMAIN all : \E id \in Last(messages).calls : all[k] = Tool(id)
    BY <1>0, <1>5, ToolsAnswer
  <2>3. Last(messages).calls \subseteq 1..MaxCalls
    <3>1. messages # <<>>
      BY <1>0, <2>1 DEF HistoryOK
    <3>2. Len(messages) \in DOMAIN messages
      BY <1>0, <3>1, EmptySeq, LenProperties
    <3>3. Written(messages[Len(messages)])
      BY <1>0, <3>2 DEF Made
    <3>. QED
      BY <3>3 DEF Last, Written, Message
  <2>4. Made(messages', calls') /\ HasHuman(messages')
    BY <1>0, <2>1, <2>2, <2>3, AnswersMade
  <2>. QED
    BY <1>0, <2>1, <2>4 DEF SentInv, Asked, SentNow
<1>6. CASE Abandon
  BY <1>0, <1>6 DEF Abandon, SentInv, Asked, SentNow
<1>7. CASE UNCHANGED vars
  <2>1. messages' = messages /\ sent' = sent /\ node' = node /\ calls' = calls
    BY <1>7 DEF vars
  <2>2. node' = "model" => sent' = Sanitize(messages')
    BY <2>1 DEF SentInv, SentNow
  <2>3. SentNow' /\ Asked'
    BY <2>1, <2>2 DEF SentInv, SentNow, Asked, HasHuman
  <2>. QED
    BY <1>0, <2>1, <2>3 DEF SentInv
<1>. QED
  BY <1>1, <1>2, <1>3, <1>4, <1>5, <1>6, <1>7 DEF Next

\* The invariant about what is sent, for every behaviour.
LEMMA SentInvariance == Spec => []SentInv
<1>. QED
  BY SentInit, SentNext, Invariance, PTL DEF Spec

\* When the model is called, what it is sent comes from the history as it is.
LEMMA ModelSees ==
  ASSUME IInv, SentInv, node = "model"
  PROVE  /\ Sound(messages) /\ LastHuman(messages) # 0
         /\ \E pos : Sends(messages, sent, pos)
<1>1. Sound(messages)
  BY MadeSound DEF IInv, SentInv
<1>2. LastHuman(messages) # 0
  <2>1. messages \in Seq(Message) /\ HasHuman(messages)
    BY DEF IInv, HistoryOK, SentInv, Asked
  <2>2. PICK k \in DOMAIN messages : messages[k].from = "human"
    BY <2>1 DEF HasHuman
  <2>3. k \in 1..Len(messages) /\ k <= LastHuman(messages)
    BY <2>1, <2>2, LastHumanIs, LenProperties
  <2>. QED
    BY <2>3
<1>3. \E pos : Sends(messages, sent, pos)
  BY <1>1, SanitizeIs DEF Sound, SentInv, SentNow
<1>. QED
  BY <1>1, <1>2, <1>3

\* The history and what is sent of it are well formed in every state.
THEOREM Types == Spec => []TypeOK
<1>1. IInv /\ SentInv => TypeOK
  BY DEF IInv, SentInv, TypeOK
<1>. QED
  BY <1>1, Invariance, SentInvariance, PTL

\* Whatever is abandoned, refused or summarized, a call that is sent is followed by its
\* answer, with only answers in between.
THEOREM SentAreAnswered == Spec => []SentCallsAnswered
<1>1. SentInv => SentCallsAnswered
  BY DEF SentInv, CallsAnswered, SentCallsAnswered
<1>. QED
  BY <1>1, SentInvariance, PTL

\* The model always sees the question of the turn, and the whole turn when each of its
\* calls is answered.
THEOREM TurnSent == Spec => []CurrentTurnSent
<1>1. IInv /\ SentInv => CurrentTurnSent
  <2> SUFFICES ASSUME IInv, SentInv, node = "model"
               PROVE  /\ LastHuman(sent) # 0
                      /\ Called(Turn(messages)) \subseteq Responded(Turn(messages)) =>
                            Turn(sent) = Turn(messages)
    BY DEF CurrentTurnSent
  <2>. QED
    BY ModelSees, TurnIsSent
<1>. QED
  BY <1>1, Invariance, SentInvariance, PTL

\* An answer is sent without its call only if some call of the same message of the
\* current turn has no answer at all.
THEOREM OrphansPartial == Spec => []OrphansOnlyOfPartialBatch
<1>1. IInv /\ SentInv => OrphansOnlyOfPartialBatch
  <2> SUFFICES ASSUME IInv, SentInv, node = "model", NEW k \in Orphans(sent)
               PROVE  \E m \in DOMAIN Turn(messages) :
                        /\ sent[k].answers \in Turn(messages)[m].calls
                        /\ ~(Turn(messages)[m].calls \subseteq Responded(messages))
    BY DEF OrphansOnlyOfPartialBatch
  <2>. QED
    BY ModelSees, OrphansOfPartialBatch
<1>. QED
  BY <1>1, Invariance, SentInvariance, PTL

=============================================================================
