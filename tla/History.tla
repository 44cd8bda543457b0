------------------------------- MODULE History -------------------------------
(***************************************************************************)
(* The message history of one thread: the graph of orchestrators/graph.py   *)
(*     START -> summarize_node -> agent_node -> (tool nodes -> agent_node)* *)
(* seen as what it does to state["messages"]: what is appended, what is     *)
(* summarized away, and what of it the model is shown.                      *)
(*                                                                         *)
(* LangGraph (external) commits the messages of all the tasks of a step     *)
(* together; when a run dies, or a new message arrives on a paused thread,  *)
(* the tasks of the unfinished step leave nothing behind.                   *)
(***************************************************************************)
EXTENDS Integers, Sequences, FiniteSets, SequencesExt

CONSTANTS
    KeepLast,       \* KEEP_LAST_N_MESSAGES
    MaxTurns,       \* bound on the user's messages
    MaxCalls        \* bound on the tool calls

ASSUME KeepLastPositive == KeepLast \in Nat \ {0}
ASSUME BoundsNatural == MaxTurns \in Nat /\ MaxCalls \in Nat

\* A message: who it is from, the ids of the tool calls it makes, the id of the
\* call it answers (0: none), and whether its text is more than white space.
Message == [from : {"human", "ai", "tool"}, calls : SUBSET (1..MaxCalls),
            answers : 0..MaxCalls, text : BOOLEAN]

Human == [from |-> "human", calls |-> {}, answers |-> 0, text |-> TRUE]
AI(calls, text) == [from |-> "ai", calls |-> calls, answers |-> 0, text |-> text]
Tool(id) == [from |-> "tool", calls |-> {}, answers |-> id, text |-> TRUE]

VARIABLES
    messages,   \* state["messages"]
    summary,    \* state["summary"] is not empty
    node,       \* the node that runs next, or "idle"
    sent,       \* the clean messages of the last LLM call
    turns, calls    \* how many turns and tool calls there were

vars == <<messages, summary, node, sent, turns, calls>>

Init ==
    /\ messages = <<>>
    /\ summary = FALSE
    /\ node = "idle"
    /\ sent = <<>>
    /\ turns = 0 /\ calls = 0

-----------------------------------------------------------------------------
(* _sanitize_messages                                                      *)

\* The index of the last HumanMessage; 0 is none, and then no message is past.
LastHuman(history) == SelectLastInSeq(history, LAMBDA m : m.from = "human")

\* MUTANTS of Past: the current turn is stripped too; no turn is.
PastAndPresent(history, k) == k \in DOMAIN history
NothingPast(history, k) == k \notin DOMAIN history

Past(history, k) == k < LastHuman(history)

\* A message that is not shown.
Dropped == AI({}, FALSE)

\* What a loop over a history has appended when it is through.
Kept(history) ==
    LET kept[k \in 0..Len(history)] ==
          IF k = 0 THEN <<>>
          ELSE IF history[k] = Dropped THEN kept[k - 1]
          ELSE Append(kept[k - 1], history[k])
    IN kept[Len(history)]

\* A message with tool calls, when these may not be shown: its text, or nothing.
TextOnly(m) == IF m.text THEN AI({}, TRUE) ELSE Dropped

\* Past turns lose their tool messages and tool calls.
Pruned(history) ==
    LET strip(k) == IF Past(history, k) /\ history[k].from = "tool" THEN Dropped
                    ELSE IF Past(history, k) /\ history[k].calls # {} THEN TextOnly(history[k])
                    ELSE history[k]
    IN Kept([k \in DOMAIN history |-> strip(k)])

Responded(history) == {history[k].answers : k \in DOMAIN history}
Called(history) == UNION {history[k].calls : k \in DOMAIN history}

\* MUTANT of Unresponded: any for all.
NoneResponded(m, pruned) == m.calls # {} /\ m.calls \intersect Responded(pruned) = {}

Unresponded(m, pruned) == ~(m.calls \subseteq Responded(pruned))

\* Messages with an unresponded call lose their calls, and a tool message whose
\* call is not among those before this step is dropped.
Sanitize(history) ==
    LET pruned == Pruned(history)
        clean(m) == IF Unresponded(m, pruned) THEN TextOnly(m)
                    ELSE IF m.answers \notin Called(pruned) \union {0} THEN Dropped
                    ELSE m
    IN Kept([k \in DOMAIN pruned |-> clean(pruned[k])])

-----------------------------------------------------------------------------
(* summarize_conversation                                                  *)

\* MUTANT of Cutoff: everything is summarized.
CutoffEverything(history) == Len(history)

\* MUTANT of Cutoff: without the walk back.
CutoffUnadjusted(history) == IF Len(history) > KeepLast THEN Len(history) - KeepLast ELSE 0

\* How many messages are summarized: all but the last KeepLast, fewer when the
\* first to be kept would be a tool message.
Cutoff(history) ==
    LET cuts == {k \in 1..(Len(history) - KeepLast) : history[k + 1].from # "tool"} \union {0}
    IN CHOOSE k \in cuts : \A other \in cuts : other <= k

\* At the start of a turn.  The history is summarized when it is longer than
\* SUMMARIZE_MAX_MESSAGES, or its text than SUMMARIZE_MAX_TOKENS, which a short one
\* may be too; otherwise, or when the LLM call fails, it stays.
Summarize ==
    /\ node = "summarize"
    /\ node' = "agent"
    /\ \/ /\ Cutoff(messages) > 0
          /\ messages' = SubSeq(messages, Cutoff(messages) + 1, Len(messages))
          /\ summary' = TRUE
       \/ UNCHANGED <<messages, summary>>
    /\ UNCHANGED <<sent, turns, calls>>

-----------------------------------------------------------------------------
(* The turn                                                                *)

\* stream_response on a thread where nothing runs.
NewMessage ==
    /\ node = "idle" /\ turns < MaxTurns
    /\ messages' = Append(messages, Human)
    /\ turns' = turns + 1
    /\ node' = "summarize"
    /\ UNCHANGED <<summary, sent, calls>>

\* agent_node, up to its call of the LLM
CallModel ==
    /\ node = "agent"
    /\ sent' = Sanitize(messages)
    /\ node' = "model"
    /\ UNCHANGED <<messages, summary, turns, calls>>

\* A text, the text of an error, or tool calls, with or without text;
\* _route_after_agent ends the turn or sends the calls to the tool nodes.
Reply ==
    /\ node = "model"
    /\ \/ /\ messages' = Append(messages, AI({}, TRUE))
          /\ node' = "idle"
          /\ UNCHANGED calls
       \/ \E n \in 1..(MaxCalls - calls), text \in BOOLEAN :
             /\ messages' = Append(messages, AI((calls + 1)..(calls + n), text))
             /\ calls' = calls + n
             /\ node' = "tools"
    /\ UNCHANGED <<summary, sent, turns>>

\* The ids of a set in the order of the calls, as tool messages.
Ordered(ids) ==
    {order \in [1..Cardinality(ids) -> ids] :
        \A a, b \in 1..Cardinality(ids) : a < b => order[a] < order[b]}
ToolMessages(order) == [k \in DOMAIN order |-> Tool(order[k])]

\* The router sends fixed calls to tool_node and the others to mcp_tool_node, which
\* run side by side and are committed together, tool_node's messages first.
\* mcp_tool_node answers each of its calls; tool_node answers each, or those of
\* the one provider that it refuses (ToolNode!AllAnsweredOrOneRefused).
Tools ==
    /\ node = "tools"
    /\ \E fixed \in SUBSET Last(messages).calls : \E answered \in SUBSET fixed :
          /\ answered = {} => fixed = {}
          /\ \E first \in Ordered(answered), rest \in Ordered(Last(messages).calls \ fixed) :
                messages' = messages \o ToolMessages(first) \o ToolMessages(rest)
    /\ node' = "agent"
    /\ UNCHANGED <<summary, sent, turns, calls>>

\* The run dies, reaches the recursion limit, or is paused and never resumed.
Abandon ==
    /\ node # "idle"
    /\ node' = "idle"
    /\ UNCHANGED <<messages, summary, sent, turns, calls>>

Next == NewMessage \/ Summarize \/ CallModel \/ Reply \/ Tools \/ Abandon

Spec == Init /\ [][Next]_vars

-----------------------------------------------------------------------------

HistoryOK ==
    /\ messages \in Seq(Message)
    /\ summary \in BOOLEAN
    /\ node \in {"idle", "summarize", "agent", "model", "tools"}
    /\ turns \in 0..MaxTurns /\ calls \in 0..MaxCalls
    /\ node # "idle" => messages # <<>>
    /\ node = "tools" => Last(messages).calls # {}

\* Type correctness: the agent never has to work on an empty history, nor the
\* tool nodes on a message without tool calls.
TypeOK == HistoryOK /\ sent \in Seq(Message)

\* The message that makes the call which message k answers.
HasCaller(history, k) ==
    \E j \in 1..(k - 1) :
       /\ history[k].answers \in history[j].calls
       /\ \A between \in (j + 1)..(k - 1) : history[between].from = "tool"

\* Summarizing never cuts a tool message from the message that made the call, however
\* many calls a message makes: in the stored history, answers follow their call
\* with only other answers in between.  (graph.py 824-830)
CallersKept ==
    \A k \in DOMAIN messages : messages[k].from = "tool" => HasCaller(messages, k)

\* What the LLM's API requires of its input and an abandoned or partly refused
\* batch puts at risk: in what is sent, each message with tool calls is followed
\* by the answers to all of them.  (graph.py 193-221)
SentCallsAnswered ==
    \A k \in DOMAIN sent : \A id \in sent[k].calls :
       \E a \in (k + 1)..Len(sent) :
          /\ sent[a].answers = id
          /\ \A between \in (k + 1)..a : sent[between].from = "tool"

Turn(history) == SubSeq(history, LastHuman(history), Len(history))

\* "Keeps full fidelity ToolMessages for the CURRENT active turn": the LLM sees the
\* question of the turn, however long the turn and whatever was summarized, and if
\* every call of the turn is answered it sees the turn as it is.  (graph.py 162-221)
CurrentTurnSent ==
    node = "model" =>
       /\ LastHuman(sent) # 0
       /\ Called(Turn(messages)) \subseteq Responded(Turn(messages)) =>
             Turn(sent) = Turn(messages)

Orphans(history) ==
    {k \in DOMAIN history : history[k].from = "tool" /\ ~HasCaller(history, k)}

\* Claim of the docstring (graph.py 165), "drops unresponded tool calls or orphan
\* ToolMessages": no answer is sent without its call.
NoOrphanSent == Orphans(sent) = {}

\* What is true of the claim: an answer is sent without its call only within a turn
\* in which tool_node refused part of a batch; the next turn is clean again.
OrphansOnlyOfPartialBatch ==
    node = "model" =>
       \A k \in Orphans(sent) : \E m \in DOMAIN Turn(messages) :
          LET batch == Turn(messages)[m].calls
          IN sent[k].answers \in batch /\ ~(batch \subseteq Responded(messages))

=============================================================================
