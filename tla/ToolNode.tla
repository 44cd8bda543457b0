------------------------------- MODULE ToolNode -------------------------------
(***************************************************************************)
(* tool_node of orchestrators/graph.py on the tool calls of one AI message: *)
(* Phase 1 (confirmations, then token and rate limit per provider), Phase 2 *)
(* (execution, with the runtime re-authentication of Phase 2.5), together   *)
(* with POST /chat/resume and LangGraph's interrupt().                      *)
(*                                                                         *)
(* LangGraph (external) re-runs an interrupted node from its first line.    *)
(* The n-th call of interrupt() in a pass returns the n-th answer stored    *)
(* for the task, whatever question it was given to; with no answer left it  *)
(* raises GraphInterrupt and the thread is paused.                          *)
(***************************************************************************)
EXTENDS Integers, Sequences, FiniteSets

CONSTANTS
    NCalls,         \* len(tool_calls)
    Providers,      \* values of tool_provider_map
    NoProvider,     \* a native or custom tool
    Decisions,      \* decisions of a ResumeRequest in this instance
    RateOutcomes,   \* what check_and_increment may answer in this instance
    None,           \* no pending interrupt, an unbound local
    MaxResumes,     \* bound on the answers given by the user
    MaxAborts       \* bound on runs that die in the middle

ASSUME NCallsPositive == NCalls \in Nat \ {0}
ASSUME NoProviderOutside == NoProvider \notin Providers
ASSUME RateOutcomesKnown == RateOutcomes \subseteq {"allowed", "denied", "error"}
ASSUME DecisionsKnown ==
    Decisions \subseteq {"connected", "approve", "submit", "reject", "cancel", "skip"}
ASSUME BoundsNatural == MaxResumes \in Nat /\ MaxAborts \in Nat

Calls == 1..NCalls
Refusals == {"reject", "cancel", "skip"}
Kinds == {"confirm", "auth", "rate", "reauth", "workflow"}
Steps == {"confirm", "validate", "auth", "recheck", "rate", "recheck_rate", "exec"}

CallSet == [Calls -> {"none", "result", "cancelled", "refused"}]
Question == Kinds \X Calls
AnswerRecord == [to : Question, decision : Decisions]
PendingType == [kind : Kinds, call : Calls, id : Question \union {None}]

ASSUME NoneOutside == None \notin Decisions /\ None \notin PendingType

VARIABLES
    provider, destructive,  \* the batch: tool_provider_map[name], is_destructive_tool(name)
    pc,                     \* the statement the running pass is at, or how it ended
    i, asked, resumeVal, checked, validated,    \* its locals
    out,                    \* ToolMessages collected or returned, by call
    answers,                \* the answers LangGraph stores for this task
    pending,                \* the interrupt the thread is paused on
    connected,              \* providers for which resolve_token finds a token
    executed,               \* history: how often the tool of a call ran
    approved,               \* history: calls whose confirmation was last answered yes
    charged,                \* history: providers of whose limit a slot was taken
    aborts

batch == <<provider, destructive>>
locals == <<i, asked, resumeVal, checked, validated>>
history == <<executed, approved, charged>>
vars == <<batch, pc, locals, out, answers, pending, connected, history, aborts>>

NoOutput == [c \in Calls |-> "none"]

\* The locals of tool_node on entry: loop index, calls of interrupt() so far,
\* resume_val, checked_providers and the keys of validated_tokens.
FreshPass ==
    /\ i' = 1 /\ asked' = 0 /\ resumeVal' = None
    /\ checked' = {} /\ validated' = {}

Init ==
    /\ provider \in [Calls -> Providers \union {NoProvider}]
    /\ destructive \in SUBSET Calls
    /\ connected \in SUBSET Providers
    /\ pc = "confirm"
    /\ i = 1 /\ asked = 0 /\ resumeVal = None /\ checked = {} /\ validated = {}
    /\ out = NoOutput
    /\ answers = <<>>
    /\ pending = None
    /\ executed = [c \in Calls |-> 0]
    /\ approved = {}
    /\ charged = {}
    /\ aborts = 0

Provider == provider[i]
MoreCalls == i <= NCalls

-----------------------------------------------------------------------------
(* interrupt(): raise it, or use the next stored answer.  The locals of a   *)
(* pass die when it is interrupted or returns.                              *)

\* The rate-limit interrupt carries "interrupt_id" where the others carry "id".
InterruptId(kind, c) == IF kind = "rate" THEN None ELSE <<kind, c>>

Raise(kind) ==
    /\ asked >= Len(answers)
    /\ pending' = [kind |-> kind, call |-> i, id |-> InterruptId(kind, i)]
    /\ pc' = "interrupted"
    /\ FreshPass
    /\ out' = NoOutput

Answered ==
    /\ asked < Len(answers)
    /\ UNCHANGED pending

Answer == answers[asked + 1].decision

Return(messages) ==
    /\ out' = messages
    /\ pc' = "done"
    /\ FreshPass

\* MUTANT of CancelAll: a message for the current call only.
CancelCurrent == [c \in Calls |-> IF c = i THEN "cancelled" ELSE "none"]

\* cancel_all(tool_calls): a message for every call.
CancelAll == [c \in Calls |-> "cancelled"]

\* Messages for the calls of one provider only: still not connected, still limited.
RefuseProvider(p) == [c \in Calls |-> IF provider[c] = p THEN "refused" ELSE "none"]

-----------------------------------------------------------------------------
(* Phase 1                                                                 *)

\* MUTANT of ConfirmSkip: a call confirmed in an earlier pass is not asked again.
ConfirmSkipApproved ==
    /\ pc = "confirm" /\ MoreCalls /\ i \notin destructive \ approved
    /\ i' = i + 1
    /\ UNCHANGED <<batch, pc, out, answers, pending, connected, history, aborts,
                   asked, resumeVal, checked, validated>>

\* 1. Confirmation of the destructive calls, in order.
ConfirmSkip ==
    /\ pc = "confirm" /\ MoreCalls /\ i \notin destructive
    /\ i' = i + 1
    /\ UNCHANGED <<batch, pc, out, answers, pending, connected, history, aborts,
                   asked, resumeVal, checked, validated>>

\* MUTANT of Confirm: the decision is not looked at (as in Phase 2.5).
ConfirmUnread ==
    /\ pc = "confirm" /\ MoreCalls /\ i \in destructive
    /\ \/ Raise("confirm")
       \/ /\ Answered
          /\ i' = i + 1 /\ asked' = asked + 1 /\ resumeVal' = Answer
          /\ UNCHANGED <<pc, out, checked, validated>>
    /\ UNCHANGED <<batch, answers, connected, history, aborts>>

Confirm ==
    /\ pc = "confirm" /\ MoreCalls /\ i \in destructive
    /\ \/ Raise("confirm")
       \/ /\ Answered
          /\ IF Answer \in Refusals
               THEN Return(CancelAll)
               ELSE /\ i' = i + 1 /\ asked' = asked + 1 /\ resumeVal' = Answer
                    /\ UNCHANGED <<pc, out, checked, validated>>
    /\ UNCHANGED <<batch, answers, connected, history, aborts>>

ConfirmEnd ==
    /\ pc = "confirm" /\ ~MoreCalls
    /\ pc' = "validate"
    /\ i' = 1
    /\ UNCHANGED <<batch, out, answers, pending, connected, history, aborts,
                   asked, resumeVal, checked, validated>>

\* 2. Each provider once, in the order of the calls.
ValidateSkip ==
    /\ pc = "validate" /\ MoreCalls
    /\ Provider \in {NoProvider} \union checked
    /\ i' = i + 1
    /\ UNCHANGED <<batch, pc, out, answers, pending, connected, history, aborts,
                   asked, resumeVal, checked, validated>>

\* resolve_token: a token, or None.
Resolve ==
    /\ pc = "validate" /\ MoreCalls
    /\ Provider \notin {NoProvider} \union checked
    /\ checked' = checked \union {Provider}
    /\ UNCHANGED <<i, asked, resumeVal, validated>>
    /\ pc' = IF Provider \in connected THEN "rate" ELSE "auth"
    /\ UNCHANGED <<batch, out, answers, pending, connected, history, aborts>>

\* The user is asked to connect (get_authorization_url may fail: an empty URL).
AskAuth ==
    /\ pc = "auth"
    /\ \/ Raise("auth")
       \/ /\ Answered
          /\ IF Answer \in Refusals
               THEN Return(CancelAll)
               ELSE /\ asked' = asked + 1 /\ resumeVal' = Answer
                    /\ pc' = "recheck"
                    /\ UNCHANGED <<out, i, checked, validated>>
    /\ UNCHANGED <<batch, answers, connected, history, aborts>>

ResolveAgain ==
    /\ pc = "recheck"
    /\ IF Provider \in connected
         THEN pc' = "rate" /\ UNCHANGED <<locals, out>>
         ELSE Return(RefuseProvider(Provider))
    /\ UNCHANGED <<batch, answers, pending, connected, history, aborts>>

\* MUTANT of Validated: the token is not stored.
ValidatedForgotten ==
    /\ i' = i + 1
    /\ pc' = "validate"
    /\ UNCHANGED <<out, asked, resumeVal, checked, validated>>

\* validated_tokens[provider] = token, and on to the next call.
Validated ==
    /\ validated' = validated \union {Provider} /\ i' = i + 1
    /\ pc' = "validate"
    /\ UNCHANGED <<out, asked, resumeVal, checked>>

\* check_and_increment lets the provider through: with a slot taken, or because
\* Redis failed.
RatePassed ==
    /\ pc \in {"rate", "recheck_rate"}
    /\ \/ "allowed" \in RateOutcomes /\ charged' = charged \union {Provider}
       \/ "error" \in RateOutcomes /\ charged' = charged
    /\ Validated
    /\ UNCHANGED <<batch, answers, pending, connected, executed, approved, aborts>>

\* Denied: the user is asked, and then the code reads resume_val, the answer to an
\* earlier interrupt of the pass (unbound if there was none), not the answer it got.
RateDenied ==
    /\ pc = "rate" /\ "denied" \in RateOutcomes
    /\ \/ Raise("rate")
       \/ /\ Answered
          /\ \/ /\ resumeVal = None
                /\ pc' = "crashed" /\ FreshPass /\ out' = NoOutput
             \/ /\ resumeVal \in Refusals
                /\ Return(CancelAll)
             \/ /\ resumeVal \notin Refusals \union {None}
                /\ asked' = asked + 1
                /\ pc' = "recheck_rate"
                /\ UNCHANGED <<out, i, resumeVal, checked, validated>>
    /\ UNCHANGED <<batch, answers, connected, history, aborts>>

RateDeniedAgain ==
    /\ pc = "recheck_rate" /\ "denied" \in RateOutcomes
    /\ Return(RefuseProvider(Provider))
    /\ UNCHANGED <<batch, answers, pending, connected, history, aborts>>

ValidateEnd ==
    /\ pc = "validate" /\ ~MoreCalls
    /\ pc' = "exec"
    /\ i' = 1
    /\ UNCHANGED <<batch, out, answers, pending, connected, history, aborts,
                   asked, resumeVal, checked, validated>>

-----------------------------------------------------------------------------
(* Phase 2                                                                 *)

\* The tool of the call runs (a remote one only with a token): a result, an error
\* text, or an exception turned into text, in any case one ToolMessage.
Execute ==
    /\ pc = "exec" /\ MoreCalls
    /\ executed' = IF Provider \in {NoProvider} \union validated \union connected
                     THEN [executed EXCEPT ![i] = @ + 1] ELSE executed
    /\ out' = [out EXCEPT ![i] = "result"]
    /\ i' = i + 1
    /\ UNCHANGED <<batch, pc, answers, pending, connected, approved, charged, aborts,
                   asked, resumeVal, checked, validated>>

\* Phase 2.5: the provider rejects the token.  Cache entry and connection row are
\* dropped (if the delete works), then the user is asked to reconnect; an answer,
\* if one is left over, is ignored and the error text becomes the result.
ExecuteRejected ==
    /\ pc = "exec" /\ MoreCalls /\ Provider \in validated
    /\ executed' = [executed EXCEPT ![i] = @ + 1]
    /\ connected' \in {connected, connected \ {Provider}}
    /\ \/ Raise("reauth")
       \/ /\ Answered
          /\ out' = [out EXCEPT ![i] = "result"]
          /\ i' = i + 1 /\ asked' = asked + 1
          /\ UNCHANGED <<pc, resumeVal, checked, validated>>
    /\ UNCHANGED <<batch, answers, approved, charged, aborts>>

\* n8n_workflow_agent, a custom tool, finds a provider of its list not connected
\* and asks, inside ainvoke.  A refusal, or a provider still not connected, is a
\* result; otherwise the tool goes on with the next provider and then runs.
ExecuteAsks ==
    /\ pc = "exec" /\ MoreCalls /\ Provider = NoProvider
    /\ connected # Providers
    /\ \/ Raise("workflow")
       \/ /\ Answered
          /\ asked' = asked + 1
          /\ \/ Answer \notin Refusals /\ UNCHANGED <<i, out>>
             \/ i' = i + 1 /\ out' = [out EXCEPT ![i] = "result"]
          /\ UNCHANGED <<pc, resumeVal, checked, validated>>
    /\ UNCHANGED <<batch, answers, connected, history, aborts>>

ExecuteEnd ==
    /\ pc = "exec" /\ ~MoreCalls
    /\ Return(out)
    /\ UNCHANGED <<batch, answers, pending, connected, history, aborts>>

-----------------------------------------------------------------------------
(* The user and the process                                                *)

\* The call whose confirmation is pending, if it is one.
Confirmed == IF pending.kind = "confirm" THEN {pending.call} ELSE {}

\* POST /chat/resume: the id must be that of the pending interrupt; the answer
\* joins the task's answers and the node starts over.
Resume(d) ==
    /\ pc = "interrupted" /\ pending.id # None
    /\ Len(answers) < MaxResumes
    /\ answers' = Append(answers, [to |-> <<pending.kind, pending.call>>, decision |-> d])
    /\ approved' = IF d \in Refusals
                     THEN approved \ Confirmed
                     ELSE approved \union Confirmed
    /\ pc' = "confirm"
    /\ UNCHANGED <<batch, locals, out, pending, connected, executed, charged, aborts>>

\* What the next run finds when one dies: the checkpoint of a resumed run still
\* shows the interrupt it was resumed from, and the last answer was never
\* committed; a first run leaves nothing to resume.
LastCheckpoint ==
    /\ out' = NoOutput
    /\ IF answers = <<>>
         THEN pc' = "abandoned" /\ UNCHANGED answers
         ELSE pc' = "interrupted" /\ answers' = SubSeq(answers, 1, Len(answers) - 1)
    /\ UNCHANGED <<batch, pending, connected, history>>

\* MUTANT of Abort: the locals of the dead run are found again by the next.
AbortKeepsLocals ==
    /\ pc \in Steps /\ aborts < MaxAborts
    /\ aborts' = aborts + 1
    /\ UNCHANGED locals
    /\ LastCheckpoint

\* The run dies in the middle (client gone, worker killed).
Abort ==
    /\ pc \in Steps /\ aborts < MaxAborts
    /\ aborts' = aborts + 1
    /\ FreshPass
    /\ LastCheckpoint

\* The exception of a crashed node ends the run with an error event.
CrashReported ==
    /\ pc = "crashed"
    /\ FreshPass
    /\ LastCheckpoint
    /\ UNCHANGED aborts

\* A new chat message on the paused thread: the pending task is dropped.
NewMessage ==
    /\ pc = "interrupted"
    /\ pc' = "abandoned"
    /\ UNCHANGED <<batch, locals, out, answers, pending, connected, history, aborts>>

\* The OAuth flow completes, or the connection is revoked or expires, at any time
\* while it can matter.
Connect(p) ==
    /\ pc \in Steps \union {"interrupted"} /\ p \notin connected
    /\ connected' = connected \union {p}
    /\ UNCHANGED <<batch, pc, locals, out, answers, pending, history, aborts>>

Disconnect(p) ==
    /\ pc \in Steps \union {"interrupted"} /\ p \in connected
    /\ connected' = connected \ {p}
    /\ UNCHANGED <<batch, pc, locals, out, answers, pending, history, aborts>>

NodeStep ==
    \/ ConfirmSkip \/ Confirm \/ ConfirmEnd
    \/ ValidateSkip \/ Resolve \/ AskAuth \/ ResolveAgain
    \/ RatePassed \/ RateDenied \/ RateDeniedAgain \/ ValidateEnd
    \/ Execute \/ ExecuteRejected \/ ExecuteAsks \/ ExecuteEnd

Next ==
    \/ NodeStep
    \/ \E d \in Decisions : Resume(d)
    \/ Abort \/ CrashReported
    \/ NewMessage
    \/ \E p \in Providers : Connect(p) \/ Disconnect(p)

Spec == Init /\ [][Next]_vars

-----------------------------------------------------------------------------

\* Type correctness.
TypeOK ==
    /\ provider \in [Calls -> Providers \union {NoProvider}]
    /\ destructive \subseteq Calls
    /\ pc \in Steps \union {"interrupted", "done", "crashed", "abandoned"}
    /\ i \in 1..(NCalls + 1) /\ asked \in Nat
    /\ resumeVal \in Decisions \union {None}
    /\ checked \subseteq Providers /\ validated \subseteq Providers
    /\ asked <= Len(answers)
    /\ pc \in {"auth", "recheck", "rate", "recheck_rate"} => MoreCalls /\ Provider \in Providers
    /\ out \in CallSet
    /\ answers \in Seq(AnswerRecord)
    /\ pending \in PendingType \union {None}
    /\ pc = "interrupted" \/ answers # <<>> => pending # None
    /\ connected \subseteq Providers
    /\ executed \in [Calls -> Nat]
    /\ approved \subseteq Calls
    /\ charged \subseteq Providers
    /\ aborts \in Nat

\* Whatever the replays, aborted runs and answers to other questions: a
\* destructive tool runs only while the latest answer to its own confirmation is
\* not a refusal.  (graph.py 453-477)
DestructiveOnlyIfApproved ==
    [][\A c \in destructive : executed'[c] > executed[c] => c \in approved]_vars

\* "validate ALL remote tool calls ... before executing any": when a pass executes,
\* it has validated every provider of the batch in that same pass.
ValidatedBeforeExecution ==
    pc = "exec" => \A c \in Calls : provider[c] \in validated \union {NoProvider}

NextAnswerIsTo(kind) ==
    asked < Len(answers) => answers[asked + 1].to = <<kind, i>>

\* The confirmation questions come first and in the same order in every pass, so
\* that an answer matched by position is the answer to the same question.
ConfirmationsAligned ==
    pc = "confirm" /\ MoreCalls /\ i \in destructive => NextAnswerIsTo("confirm")

\* When the node returns: a message for every call, or refusals for exactly the calls of
\* one provider and no message for any other call.
AllAnsweredOrOneRefused ==
    pc = "done" =>
       \/ \A c \in Calls : out[c] = "result"
       \/ \A c \in Calls : out[c] = "cancelled"
       \/ \E p \in Providers : \A c \in Calls :
             out[c] = IF provider[c] = p THEN "refused" ELSE "none"

\* Claim of the docstring (graph.py 434): a Phase 1 interrupt comes before any execution.
NoExecutionBeforePhase1Interrupt ==
    pc = "interrupted" /\ pending.kind \in {"confirm", "auth", "rate"} =>
        \A c \in Calls : executed[c] = 0

\* Claim of resume_chat: a thread paused on an interrupt can be resumed.
PausedCanResume ==
    pc = "interrupted" => pending.id # None

=============================================================================
