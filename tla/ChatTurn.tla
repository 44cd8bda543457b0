------------------------------ MODULE ChatTurn ------------------------------
(***************************************************************************)
(* The chats of one user: POST /chat/stream and /chat/resume                *)
(* (api/chat_router.py, stream_response and its neighbours in               *)
(* orchestrators/graph.py), the upload pipeline (document_parser/graph.py,  *)
(* modalities/vision/vision_model.py) and DELETE (api/conversations.py).    *)
(*                                                                         *)
(* What was said is kept twice: as rows of chat_messages, which the user    *)
(* sees, and in the LangGraph checkpoint of the thread, which the agent     *)
(* sees.  Requests write both, in several steps, concurrently, and each may *)
(* die after any of them.                                                   *)
(*                                                                         *)
(* A message is the turn it came with and its sort; the sort of an answer   *)
(* says whether its content is text or a list of parts.  The summary of a   *)
(* thread is the set of messages whose text was summarized.  Usage and      *)
(* limits are in ChatLimiter, the inside of a run in ToolNode and History.  *)
(***************************************************************************)
CONSTANTS
    Turns,          \* requests; each is sent once, which bounds the model
    Threads,        \* conversations
    Ids,            \* ids of interrupts
    None

ASSUME NoneIsNew == None \notin Ids \union Threads \union {"stream", "resume", "text", "parts", "image", "doc"}

VARIABLES
    conv,           \* threads with a row in conversations
    rows,           \* chat_messages of a thread
    ckpt, summary,  \* messages in the latest checkpoint of a thread, and its summary
    pending,        \* the interrupt it waits for
    described,      \* the description of the user's image is cached
    pc, req,        \* a turn: its place, its request
    broken,         \* turns whose database session only raises
    mine, recap,    \* the messages a run has in memory, and its summary
    said,           \* what its generator has streamed: nothing, text, or lists of parts
    hit,            \* the interrupt a resumed run has answered
    clashed,        \* history: runs whose thread was written by others since they read it
    haunted         \* history: threads requests were busy with while they had no conversation

database == <<conv, rows, ckpt, summary, pending>>
locals == <<req, mine, recap, said, hit>>
vars == <<database, described, pc, locals, broken, clashed, haunted>>

NoRequest == [kind |-> None, thread |-> None, file |-> None, message |-> FALSE, id |-> None]

\* The chats as earlier turns have left them, whose messages are not looked at.
Init ==
    /\ conv \in SUBSET Threads
    /\ rows = [th \in Threads |-> {}]
    /\ ckpt = [th \in Threads |-> {}] /\ summary = [th \in Threads |-> {}]
    /\ pending \in {p \in [Threads -> Ids \union {None}] : \A th \in Threads : p[th] # None => th \in conv}
    /\ described = FALSE
    /\ pc = [t \in Turns |-> "new"] /\ req = [t \in Turns |-> NoRequest]
    /\ mine = [t \in Turns |-> {}] /\ recap = [t \in Turns |-> {}]
    /\ said = [t \in Turns |-> None] /\ hit = [t \in Turns |-> None]
    /\ broken = {} /\ clashed = {} /\ haunted = {}

-----------------------------------------------------------------------------

Thread(t) == req[t].thread
To(t, place) == pc' = [pc EXCEPT ![t] = place]
Busy(th) == {t \in Turns : Thread(t) = th /\ pc[t] \notin {"new", "ended", "answered"}}

\* A request is over; thread and kind are kept to tell what it was.
Close(t) ==
    /\ req' = [req EXCEPT ![t].file = None, ![t].message = FALSE, ![t].id = None]
    /\ hit' = [hit EXCEPT ![t] = None]
    /\ clashed' = clashed \ {t}

\* Runs, and resumes that have checked, that have read the thread's state.
Runs == {"summarize", "running"}
Readers(th) ==
    {t \in Turns : Thread(t) = th /\ (pc[t] \in Runs \/ (pc[t] = "run" /\ req[t].kind = "resume"))}

\* t writes the checkpoint of its thread.
Save(t, messages, summarized, interrupt) ==
    /\ ckpt' = [ckpt EXCEPT ![Thread(t)] = messages]
    /\ summary' = [summary EXCEPT ![Thread(t)] = summarized]
    /\ pending' = [pending EXCEPT ![Thread(t)] = interrupt]
    /\ clashed' = clashed \union (Readers(Thread(t)) \ {t})

\* MUTANT of AddRow: the session is not checked for what happened before.
AddRowWithoutConversation(t, role) ==
    /\ rows' = [rows EXCEPT ![Thread(t)] = @ \union {<<t, role>>}]
    /\ UNCHANGED broken

\* MUTANT of AddRow: the roles are LangChain's.
AddRowAsHuman(t, role) ==
    IF Thread(t) \in conv /\ t \notin broken
      THEN /\ rows' = [rows EXCEPT ![Thread(t)] =
                          @ \union {<<t, IF role = "user" THEN "human" ELSE role>>}]
           /\ UNCHANGED broken
      ELSE /\ broken' = broken \union {t}
           /\ UNCHANGED rows

\* session.add and commit of a ChatMessage.  Without its conversation the commit raises,
\* which is logged; nobody rolls back, so that from then on every commit raises.
AddRow(t, role) ==
    IF Thread(t) \in conv /\ t \notin broken
      THEN /\ rows' = [rows EXCEPT ![Thread(t)] = @ \union {<<t, role>>}]
           /\ UNCHANGED broken
      ELSE /\ broken' = broken \union {t}
           /\ UNCHANGED rows

-----------------------------------------------------------------------------
(* POST /chat/stream                                                        *)

\* Where sse_generator begins, and where it goes on after a file.
First(file, message) ==
    IF file # None THEN "upload" ELSE IF message THEN "say" ELSE "ended"
AfterFile(t) == IF req[t].message THEN "say" ELSE "offer"

\* What a swallowed exception leaves of t's session.  FastAPI closes it, which heals it,
\* before or after the response is streamed, depending on its version.
Swallow(t) == broken' \in {broken, broken \union {t}}

\* A request that nobody stops goes on, whether its thread has a conversation or not.
GoesOn(t, exists) ==
    haunted' = IF exists THEN haunted ELSE haunted \union {req'[t].thread}

\* The conversation is looked for; or the database raises, which is swallowed.
Stream(t, th, file, message) ==
    /\ pc[t] = "new"
    /\ req' = [req EXCEPT ![t] = [kind |-> "stream", thread |-> th, file |-> file,
                                  message |-> message, id |-> None]]
    /\ \/ th \in conv /\ To(t, First(file, message)) /\ UNCHANGED <<broken, haunted>>
       \/ th \notin conv /\ To(t, "create") /\ UNCHANGED <<broken, haunted>>
       \/ To(t, First(file, message)) /\ Swallow(t) /\ GoesOn(t, th \in conv)
    /\ UNCHANGED <<database, described, mine, recap, said, hit, clashed>>

\* It is created; or the insert raises, since another request has created it meanwhile or
\* the database fails, which is swallowed, and the turn goes on without it.
Create(t) ==
    /\ pc[t] = "create"
    /\ \/ /\ Thread(t) \notin conv
          /\ conv' = conv \union {Thread(t)}
          /\ UNCHANGED <<broken, haunted>>
       \/ UNCHANGED <<conv, req>> /\ Swallow(t) /\ GoesOn(t, Thread(t) \in conv)
    /\ To(t, First(req[t].file, req[t].message))
    /\ UNCHANGED <<rows, ckpt, summary, pending, described, locals, clashed>>

\* POST /conversations: a new row under a new id (one that no turn knows is as good as new).
NewChat(th) ==
    /\ th \notin conv /\ \A t \in Turns : Thread(t) # th
    /\ conv' = conv \union {th}
    /\ UNCHANGED <<rows, ckpt, summary, pending, described, pc, locals, broken, clashed, haunted>>

-----------------------------------------------------------------------------
(* The file of a request                                                    *)

\* analyse_image asks the cache.
LookImage(t) ==
    /\ pc[t] = "upload" /\ req[t].file = "image"
    /\ To(t, IF described THEN "previous" ELSE "analyse")
    /\ UNCHANGED <<database, described, locals, broken, clashed, haunted>>

\* The model describes the image, or its error becomes the description, uncached.
Analyse(t) ==
    /\ pc[t] = "analyse"
    /\ described' \in {TRUE, described}
    /\ To(t, "event")
    /\ UNCHANGED <<database, locals, broken, clashed, haunted>>

\* get_or_create_vector_store.  The look for the hash passes plain text to SQLAlchemy's
\* execute, which raises; the exception is taken for a first document, and it is ingested
\* (the vector store is not modelled).
Ingest(t) ==
    /\ pc[t] = "upload" /\ req[t].file = "doc"
    /\ To(t, "event")
    /\ UNCHANGED <<database, described, locals, broken, clashed, haunted>>

\* A file of a wrong type or size, one that cannot be stored, or a pipeline error.
Reject(t) ==
    /\ pc[t] = "upload"
    /\ To(t, "ended")
    /\ Close(t)
    /\ UNCHANGED <<database, described, mine, recap, said, broken, haunted>>

\* update_agent_state: the latest checkpoint and a message, as input of a new run; an
\* interrupt the thread waited for is gone.
UpdateState(t, message) ==
    Save(t, ckpt[Thread(t)] \union {message}, summary[Thread(t)], None)

\* The upload is told to the agent.  A failure is logged, and the request goes on; its file
\* is not looked at any more.
TellFile(t) ==
    /\ pc[t] \in {"event", "previous"}
    /\ \/ UpdateState(t, <<t, pc[t]>>)
       \/ UNCHANGED <<ckpt, summary, pending, clashed>>
    /\ To(t, "event row")
    /\ req' = [req EXCEPT ![t].file = None]
    /\ UNCHANGED <<conv, rows, described, mine, recap, said, hit, broken, haunted>>

EventRow(t) ==
    /\ pc[t] = "event row"
    /\ AddRow(t, "system")
    /\ To(t, AfterFile(t))
    /\ UNCHANGED <<conv, ckpt, summary, pending, described, locals, clashed, haunted>>

\* Without a message: the description, or an offer made of the document's beginning.
Offer(t) ==
    /\ pc[t] = "offer"
    /\ said' = [said EXCEPT ![t] = "text"]
    /\ To(t, "offer state")
    /\ UNCHANGED <<database, described, req, mine, recap, hit, broken, clashed, haunted>>

OfferState(t) ==
    /\ pc[t] = "offer state"
    /\ \/ UpdateState(t, <<t, "text">>)
       \/ UNCHANGED <<ckpt, summary, pending, clashed>>
    /\ To(t, "row")
    /\ UNCHANGED <<conv, rows, described, locals, broken, haunted>>

-----------------------------------------------------------------------------
(* The message of a request, and its run                                    *)

\* MUTANT of Say: the row of the message is left to the end of the run.
SayLater(t) ==
    /\ pc[t] = "say"
    /\ To(t, "run")
    /\ UNCHANGED <<database, described, locals, broken, clashed, haunted>>

\* The message is persisted before the agent runs.
Say(t) ==
    /\ pc[t] = "say"
    /\ AddRow(t, "user")
    /\ To(t, "run")
    /\ UNCHANGED <<conv, ckpt, summary, pending, described, locals, clashed, haunted>>

\* stream_response: the run reads the thread and saves it with its input; what the
\* thread waited for is abandoned.
Run(t) ==
    /\ pc[t] = "run" /\ req[t].kind = "stream"
    /\ LET messages == ckpt[Thread(t)] \union {<<t, "human">>}
       IN  /\ Save(t, messages, summary[Thread(t)], None)
           /\ mine' = [mine EXCEPT ![t] = messages]
    /\ recap' = [recap EXCEPT ![t] = summary[Thread(t)]]
    /\ To(t, "summarize")
    /\ UNCHANGED <<conv, rows, described, req, said, hit, broken, haunted>>

\* MUTANT of Folded: the summary is made without the one that exists.
FoldedAnew(t, old) == {m \in old : m[2] # "parts"}

\* The new summary: the old one and the text of the messages.  Content that is no string
\* is not part of the prompt.
Folded(t, old) == recap[t] \union {m \in old : m[2] # "parts"}

\* summarize_node, before the agent: older messages are replaced by a summary, but never
\* the message that came with the run, which is among the last ones.  Or none are, if the
\* thread is short or the summarizer raises; the step is saved all the same.
Summarize(t) ==
    /\ pc[t] = "summarize"
    /\ \E old \in SUBSET (mine[t] \ {<<t, "human">>}) :
          /\ mine' = [mine EXCEPT ![t] = @ \ old]
          /\ recap' = [recap EXCEPT ![t] = Folded(t, old)]
          /\ Save(t, mine[t] \ old, Folded(t, old), None)
    /\ To(t, "running")
    /\ UNCHANGED <<conv, rows, described, req, said, hit, broken, haunted>>

\* A step of the agent or of its tools, which is saved; what they say is in History.
Step(t) ==
    /\ pc[t] = "running"
    /\ Save(t, mine[t], recap[t], None)
    /\ UNCHANGED <<conv, rows, described, pc, locals, broken, haunted>>

\* The graph cannot be built: an error event, and the generator goes on behind the run.
NotInitialized(t) ==
    /\ pc[t] = "run"
    /\ To(t, "row")
    /\ UNCHANGED <<database, described, locals, broken, clashed, haunted>>

\* The run ends; its model streamed nothing, text, or lists of parts.
Stop(t, chunk) ==
    /\ said' = [said EXCEPT ![t] = chunk]
    /\ mine' = [mine EXCEPT ![t] = {}] /\ recap' = [recap EXCEPT ![t] = {}]
    /\ To(t, "row")
    /\ UNCHANGED <<conv, rows, described, req, hit, broken, haunted>>

\* The answer is streamed and saved.
Answer(t, chunk) ==
    /\ pc[t] = "running" /\ chunk # None
    /\ Stop(t, chunk)
    /\ Save(t, mine[t] \union {<<t, chunk>>}, recap[t], None)

\* The model fails, perhaps after some of its answer or after answers that called tools:
\* an apology is saved, which is not streamed.
Apologize(t, chunk) ==
    /\ pc[t] = "running"
    /\ Stop(t, chunk)
    /\ Save(t, mine[t] \union {<<t, "apology">>}, recap[t], None)

\* The run stops at an interrupt, which the snapshot after it finds.
Interrupt(t, chunk, id) ==
    /\ pc[t] = "running"
    /\ Stop(t, chunk)
    /\ Save(t, mine[t], recap[t], id)

\* The run raises: an error event, and the generator goes on behind the run.
RunFails(t, chunk) ==
    /\ pc[t] = "running" \/ (pc[t] = "summarize" /\ chunk = None)
    /\ Stop(t, chunk)
    /\ UNCHANGED <<ckpt, summary, pending, clashed>>

\* What a generator keeps of its tokens: resume_chat expects no lists.
Accumulated(t) == said[t] = "text" \/ (said[t] = "parts" /\ req[t].kind # "resume")

\* After the stream: the row of the answer, if there is one; extract_memory is started.
Row(t) ==
    /\ pc[t] = "row"
    /\ IF Accumulated(t) THEN AddRow(t, "assistant") ELSE UNCHANGED <<rows, broken>>
    /\ said' = [said EXCEPT ![t] = None]
    /\ To(t, "answered")
    /\ Close(t)
    /\ UNCHANGED <<conv, ckpt, summary, pending, described, mine, recap, haunted>>

-----------------------------------------------------------------------------
(* POST /chat/resume, DELETE /conversations, and what can go wrong          *)

\* Without a conversation: 403.
Resume(t, th, id) ==
    /\ pc[t] = "new"
    /\ req' = [req EXCEPT ![t] = [kind |-> "resume", thread |-> th, file |-> None,
                                  message |-> FALSE, id |-> id]]
    /\ To(t, IF th \in conv THEN "check" ELSE "ended")
    /\ UNCHANGED <<database, described, mine, recap, said, hit, broken, clashed, haunted>>

\* MUTANT of Check: any pending interrupt will do.
CheckPendingOnly(t) ==
    /\ pc[t] = "check"
    /\ To(t, IF pending[Thread(t)] # None THEN "run" ELSE "ended")
    /\ UNCHANGED <<database, described, locals, broken, clashed, haunted>>

\* The thread must be waiting for the interrupt that is answered; else 400.
Check(t) ==
    /\ pc[t] = "check"
    /\ To(t, IF pending[Thread(t)] = req[t].id THEN "run" ELSE "ended")
    /\ UNCHANGED <<database, described, locals, broken, clashed, haunted>>

\* resume_response reads the thread again and answers whatever it waits for now.  If that
\* is nothing, what an upload or a dead run has left undone runs, or nothing does.
RunResumed(t) ==
    /\ pc[t] = "run" /\ req[t].kind = "resume"
    /\ \/ /\ \/ To(t, "running")
             \/ pending[Thread(t)] = None /\ To(t, "summarize")
          /\ mine' = [mine EXCEPT ![t] = ckpt[Thread(t)]]
          /\ recap' = [recap EXCEPT ![t] = summary[Thread(t)]]
          /\ hit' = [hit EXCEPT ![t] = pending[Thread(t)]]
       \/ /\ pending[Thread(t)] = None
          /\ To(t, "row")
          /\ UNCHANGED <<mine, recap, hit>>
    /\ UNCHANGED <<database, described, req, said, broken, clashed, haunted>>

\* delete_conversation: the row, its messages by ON DELETE CASCADE, the checkpoints, in
\* one transaction.  When clearing the checkpoints raises, the transaction is aborted, so
\* that its COMMIT rolls it back, and nothing changes.
Delete(th) ==
    /\ th \in conv
    /\ conv' = conv \ {th}
    /\ rows' = [rows EXCEPT ![th] = {}]
    /\ ckpt' = [ckpt EXCEPT ![th] = {}] /\ summary' = [summary EXCEPT ![th] = {}]
    /\ pending' = [pending EXCEPT ![th] = None]
    /\ clashed' = clashed \union Readers(th)
    /\ haunted' = IF Busy(th) = {} THEN haunted \ {th} ELSE haunted \union {th}
    /\ UNCHANGED <<described, pc, locals, broken>>

\* The client hangs up, the worker dies, or recording the usage raises: the generator ends
\* where it is.
Die(t) ==
    /\ pc[t] \notin {"new", "ended", "answered"}
    /\ To(t, "ended")
    /\ said' = [said EXCEPT ![t] = None]
    /\ mine' = [mine EXCEPT ![t] = {}] /\ recap' = [recap EXCEPT ![t] = {}]
    /\ Close(t)
    /\ UNCHANGED <<database, described, broken, haunted>>

\* The key image_analysis expires after seven days.
ImageExpires ==
    /\ described
    /\ described' = FALSE
    /\ UNCHANGED <<database, pc, locals, broken, clashed, haunted>>

Next ==
    \/ \E t \in Turns :
          \/ \E th \in Threads :
                \/ \E file \in {None, "image", "doc"}, message \in BOOLEAN : Stream(t, th, file, message)
                \/ \E id \in Ids : Resume(t, th, id)
          \/ Create(t) \/ LookImage(t) \/ Analyse(t) \/ Ingest(t) \/ Reject(t)
          \/ TellFile(t) \/ EventRow(t) \/ Offer(t) \/ OfferState(t)
          \/ Say(t) \/ Run(t) \/ Summarize(t) \/ Step(t) \/ NotInitialized(t)
          \/ \E chunk \in {"text", "parts", None} :
                \/ Answer(t, chunk) \/ Apologize(t, chunk) \/ RunFails(t, chunk)
                \/ \E id \in Ids : Interrupt(t, chunk, id)
          \/ Row(t) \/ Check(t) \/ RunResumed(t) \/ Die(t)
    \/ \E th \in Threads : NewChat(th) \/ Delete(th)
    \/ ImageExpires

Spec == Init /\ [][Next]_vars

-----------------------------------------------------------------------------

Places == {"new", "create", "upload", "analyse", "event", "previous", "event row", "offer",
           "offer state", "say", "check", "run", "summarize", "running", "row", "answered", "ended"}
Roles == {"user", "system", "assistant"}
Sorts == {"human", "text", "parts", "apology", "event", "previous"}

\* Type correctness of the chats, the requests and the runs.
TypeOK ==
    /\ conv \subseteq Threads /\ haunted \subseteq Threads
    /\ rows \in [Threads -> SUBSET (Turns \X Roles)]
    /\ ckpt \in [Threads -> SUBSET (Turns \X Sorts)]
    /\ summary \in [Threads -> SUBSET (Turns \X Sorts)]
    /\ pending \in [Threads -> Ids \union {None}]
    /\ described \in BOOLEAN
    /\ pc \in [Turns -> Places]
    /\ req \in [Turns -> [kind: {"stream", "resume", None}, thread: Threads \union {None},
                          file: {"image", "doc", None}, message: BOOLEAN, id: Ids \union {None}]]
    /\ mine \in [Turns -> SUBSET (Turns \X Sorts)]
    /\ recap \in [Turns -> SUBSET (Turns \X Sorts)]
    /\ said \in [Turns -> {"text", "parts", None}] /\ hit \in [Turns -> Ids \union {None}]
    /\ broken \subseteq Turns /\ clashed \subseteq Turns

\* What the agent knows of a thread, in full or in summary.
Memory(th) == ckpt[th] \union summary[th]

\* What the agent remembers, the user sees (chat_router.py 257, "crash-safe", and 307):
\* whoever dies wherever, a message the agent knows of is a row, and so is the answer of a
\* turn that went to its end; an apology (graph.py 404) is not an answer and has no row.
\* Except where the session was broken, requests worked on the thread while it had no
\* conversation, or a resumed answer came in parts (see ResumedIsShown).
RememberedIsShown ==
    \A th \in Threads \ haunted : \A t \in Turns \ broken :
       /\ <<t, "human">> \in Memory(th) => <<t, "user">> \in rows[th]
       /\ /\ pc[t] = "answered"
          /\ \/ <<t, "text">> \in Memory(th)
             \/ <<t, "parts">> \in Memory(th) /\ req[t].kind = "stream"
          => <<t, "assistant">> \in rows[th]

\* A deleted conversation is gone (conversations.py 176-188): nobody adds rows to it, and
\* unless a request was at work on it without it, no checkpoint is left to come back with
\* its id.
DeletedIsGone ==
    \A th \in Threads \ conv :
       /\ rows[th] = {}
       /\ th \notin haunted => Memory(th) = {} /\ pending[th] = None

\* An answer meets the interrupt it was given to, unless others wrote the thread between
\* the check and the run (chat_router.py 385-403).
AnswersItsQuestion ==
    \A t \in Turns : hit[t] # None /\ hit[t] # req[t].id => t \in clashed

\* The comment of resume_chat, "Persist post-resume assistant message to chat_messages DB"
\* (chat_router.py 434): the answer of a resumed turn that went to its end is a row too.
ResumedIsShown ==
    \A th \in Threads \ haunted : \A t \in Turns \ broken :
       /\ pc[t] = "answered" /\ req[t].kind = "resume"
       /\ {<<t, "text">>, <<t, "parts">>} \intersect Memory(th) # {}
       => <<t, "assistant">> \in rows[th]

\* The comment of chat_stream, "Persist assistant response to chat_messages AFTER stream
\* ends" (chat_router.py 307): whatever the agent said in a turn that went to its end is a row.
ResponsePersisted ==
    \A th \in Threads \ haunted : \A t \in Turns \ broken :
       /\ pc[t] = "answered" /\ req[t].kind = "stream"
       /\ {<<t, "text">>, <<t, "parts">>, <<t, "apology">>} \intersect Memory(th) # {}
       => <<t, "assistant">> \in rows[th]

\* What a run knows, in full or in summary.
Mind(t) == mine[t] \union recap[t]

\* The agent forgets nothing but answers in parts: what it knows of a thread, in full or in
\* summary, is lost only with the conversation; or when a run saves over what others wrote
\* since it read the thread (graph.py 1003, 1152), and then the thread has what that run
\* knew; or by being summarized, if its content is no string (graph.py 857-900).
MemoryGrows ==
    [][\A th \in Threads :
          \/ Memory(th) \subseteq Memory(th)'
          \/ th \in conv \ conv'
          \/ \E t \in Turns :
                /\ Thread(t) = th /\ pc[t] \in Runs
                /\ \A m \in (IF t \in clashed THEN Mind(t) ELSE Memory(th)) :
                      m \in Memory(th)' \/ (m[2] = "parts" /\ pc[t] = "summarize")]_vars

=============================================================================
