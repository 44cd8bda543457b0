--------------------------- MODULE ChatTurnProofs ---------------------------
(***************************************************************************)
(* Proofs about ChatTurn, for any number of turns, threads and interrupts.  *)
(***************************************************************************)
EXTENDS ChatTurn, TLAPS

Chunks == {"text", "parts", None}

TurnStep(t) ==
    \/ Create(t)
    \/ LookImage(t)
    \/ Analyse(t)
    \/ Ingest(t)
    \/ Reject(t)
    \/ TellFile(t)
    \/ EventRow(t)
    \/ Offer(t)
    \/ OfferState(t)
    \/ Say(t)
    \/ Run(t)
    \/ Summarize(t)
    \/ Step(t)
    \/ NotInitialized(t)
    \/ Row(t)
    \/ Check(t)
    \/ RunResumed(t)
    \/ Die(t)
    \/ \E th \in Threads, file \in {None, "image", "doc"}, message \in BOOLEAN : Stream(t, th, file, message)
    \/ \E th \in Threads, id \in Ids : Resume(t, th, id)
    \/ \E chunk \in Chunks : Answer(t, chunk)
    \/ \E chunk \in Chunks : Apologize(t, chunk)
    \/ \E chunk \in Chunks : RunFails(t, chunk)
    \/ \E chunk \in Chunks, id \in Ids : Interrupt(t, chunk, id)

LEMMA NextSteps ==
  Next <=> \/ \E t \in Turns : TurnStep(t)
           \/ \E th \in Threads : NewChat(th) \/ Delete(th)
           \/ ImageExpires
BY Zenon DEF Next, TurnStep, Chunks

-----------------------------------------------------------------------------
(* Types                                                                    *)

\* A request that was sent has its thread, and only a run has messages in memory.
Named ==
    \A t \in Turns :
       /\ pc[t] = "new" => req[t].thread = None
       /\ pc[t] # "new" => req[t].thread \in Threads
       /\ pc[t] \notin Runs => mine[t] = {} /\ recap[t] = {}

Typed == TypeOK /\ Named

LEMMA TypedInit == Init => Typed
<1>. SUFFICES ASSUME Init PROVE Typed
  OBVIOUS
<1>1. NoRequest \in [kind: {"stream", "resume", None}, thread: Threads \union {None},
                     file: {"image", "doc", None}, message: BOOLEAN, id: Ids \union {None}]
  BY DEF NoRequest
<1>2. Named
  BY DEF Init, Named, NoRequest
<1>3. /\ conv \subseteq Threads /\ haunted \subseteq Threads
      /\ rows \in [Threads -> SUBSET (Turns \X Roles)]
      /\ ckpt \in [Threads -> SUBSET (Turns \X Sorts)]
      /\ summary \in [Threads -> SUBSET (Turns \X Sorts)]
      /\ pending \in [Threads -> Ids \union {None}]
      /\ described \in BOOLEAN
  BY DEF Init
<1>4. /\ pc \in [Turns -> Places]
      /\ mine \in [Turns -> SUBSET (Turns \X Sorts)]
      /\ recap \in [Turns -> SUBSET (Turns \X Sorts)]
      /\ said \in [Turns -> {"text", "parts", None}] /\ hit \in [Turns -> Ids \union {None}]
      /\ broken \subseteq Turns /\ clashed \subseteq Turns
  BY DEF Init, Places
<1>5. req \in [Turns -> [kind: {"stream", "resume", None}, thread: Threads \union {None},
                         file: {"image", "doc", None}, message: BOOLEAN, id: Ids \union {None}]]
  BY <1>1 DEF Init
<1>. QED BY <1>2, <1>3, <1>4, <1>5 DEF Typed, TypeOK

\* What adding a row changes, what a save changes, and what the end of a request changes.
LEMMA AddRowTyped ==
  ASSUME TypeOK, NEW t \in Turns, NEW role \in Roles, AddRow(t, role)
  PROVE  rows' \in [Threads -> SUBSET (Turns \X Roles)] /\ broken' \subseteq Turns
BY DEF TypeOK, AddRow

LEMMA SaveTyped ==
  ASSUME TypeOK, NEW t \in Turns, NEW messages, messages \subseteq Turns \X Sorts,
         NEW summarized, summarized \subseteq Turns \X Sorts,
         NEW interrupt \in Ids \union {None}, Save(t, messages, summarized, interrupt)
  PROVE  /\ ckpt' \in [Threads -> SUBSET (Turns \X Sorts)]
         /\ summary' \in [Threads -> SUBSET (Turns \X Sorts)]
         /\ pending' \in [Threads -> Ids \union {None}]
         /\ clashed' \subseteq Turns
BY DEF TypeOK, Save, Readers

LEMMA CloseKeeps ==
  ASSUME TypeOK, NEW t \in Turns, Close(t)
  PROVE  /\ req' \in [Turns -> [kind: {"stream", "resume", None}, thread: Threads \union {None},
                                file: {"image", "doc", None}, message: BOOLEAN, id: Ids \union {None}]]
         /\ req'[t].thread = req[t].thread /\ req'[t].kind = req[t].kind
         /\ hit' \in [Turns -> Ids \union {None}] /\ hit'[t] = None
         /\ \A u \in Turns \ {t} : req'[u] = req[u] /\ hit'[u] = hit[u]
         /\ clashed' = clashed \ {t} /\ clashed' \subseteq Turns
<1>1. /\ req' = [req EXCEPT ![t] = [req[t] EXCEPT !.file = None, !.message = FALSE, !.id = None]]
      /\ req[t] \in [kind: {"stream", "resume", None}, thread: Threads \union {None},
                     file: {"image", "doc", None}, message: BOOLEAN, id: Ids \union {None}]
  BY DEF TypeOK, Close
<1>2. req[t] = [kind |-> req[t].kind, thread |-> req[t].thread, file |-> req[t].file,
               message |-> req[t].message, id |-> req[t].id]
  BY <1>1
<1>3. /\ req'[t] = [kind |-> req[t].kind, thread |-> req[t].thread, file |-> None, message |-> FALSE,
                    id |-> None]
      /\ \A u \in Turns \ {t} : req'[u] = req[u]
      /\ DOMAIN req' = Turns
  BY <1>1, <1>2 DEF TypeOK
<1>4. req'[t] \in [kind: {"stream", "resume", None}, thread: Threads \union {None},
                   file: {"image", "doc", None}, message: BOOLEAN, id: Ids \union {None}]
  BY <1>1, <1>3
<1>5. req' \in [Turns -> [kind: {"stream", "resume", None}, thread: Threads \union {None},
                         file: {"image", "doc", None}, message: BOOLEAN, id: Ids \union {None}]]
  BY <1>1, <1>3, <1>4 DEF TypeOK
<1>6. /\ hit' \in [Turns -> Ids \union {None}] /\ hit'[t] = None
      /\ \A u \in Turns \ {t} : hit'[u] = hit[u]
      /\ clashed' = clashed \ {t} /\ clashed' \subseteq Turns
  BY DEF TypeOK, Close
<1>. QED BY <1>3, <1>5, <1>6

\* Telling the agent of a file keeps the request, but for the file.
LEMMA TellFileKeeps ==
  ASSUME TypeOK, NEW t \in Turns, TellFile(t)
  PROVE  /\ req' \in [Turns -> [kind: {"stream", "resume", None}, thread: Threads \union {None},
                                file: {"image", "doc", None}, message: BOOLEAN, id: Ids \union {None}]]
         /\ req'[t].thread = req[t].thread /\ req'[t].kind = req[t].kind /\ req'[t].id = req[t].id
         /\ \A u \in Turns \ {t} : req'[u] = req[u]
<1>1. /\ req' = [req EXCEPT ![t] = [req[t] EXCEPT !.file = None]]
      /\ req[t] \in [kind: {"stream", "resume", None}, thread: Threads \union {None},
                     file: {"image", "doc", None}, message: BOOLEAN, id: Ids \union {None}]
  BY DEF TypeOK, TellFile
<1>2. req[t] = [kind |-> req[t].kind, thread |-> req[t].thread, file |-> req[t].file,
               message |-> req[t].message, id |-> req[t].id]
  BY <1>1
<1>3. /\ req'[t] = [kind |-> req[t].kind, thread |-> req[t].thread, file |-> None,
                    message |-> req[t].message, id |-> req[t].id]
      /\ \A u \in Turns \ {t} : req'[u] = req[u]
      /\ DOMAIN req' = Turns
  BY <1>1, <1>2 DEF TypeOK
<1>4. req'[t] \in [kind: {"stream", "resume", None}, thread: Threads \union {None},
                   file: {"image", "doc", None}, message: BOOLEAN, id: Ids \union {None}]
  BY <1>1, <1>3
<1>. QED BY <1>1, <1>3, <1>4 DEF TypeOK

LEMMA MemoryTyped ==
  ASSUME Typed, NEW t \in Turns, pc[t] # "new"
  PROVE  /\ ckpt[Thread(t)] \subseteq Turns \X Sorts /\ summary[Thread(t)] \subseteq Turns \X Sorts
         /\ mine[t] \subseteq Turns \X Sorts /\ recap[t] \subseteq Turns \X Sorts
BY DEF Typed, TypeOK, Named, Thread

LEMMA TypedStep ==
  ASSUME Typed, [Next]_vars
  PROVE  Typed'
<1>1. ASSUME NEW t \in Turns, TurnStep(t) PROVE Typed'
  <2>1. CASE Create(t)
    BY <2>1 DEF Typed, TypeOK, Named, Places, Roles, Sorts, Create, First, Swallow, GoesOn, To, Thread, Runs, vars, database, locals
  <2>2. CASE LookImage(t)
    BY <2>2 DEF Typed, TypeOK, Named, Places, Roles, Sorts, LookImage, To, Thread, Runs, vars, database, locals
  <2>3. CASE Analyse(t)
    BY <2>3 DEF Typed, TypeOK, Named, Places, Roles, Sorts, Analyse, To, Thread, Runs, vars, database, locals
  <2>4. CASE Ingest(t)
    BY <2>4 DEF Typed, TypeOK, Named, Places, Roles, Sorts, Ingest, To, Thread, Runs, vars, database, locals
  <2>5. CASE Reject(t)
    <3>1. /\ req' \in [Turns -> [kind: {"stream", "resume", None}, thread: Threads \union {None},
                                file: {"image", "doc", None}, message: BOOLEAN, id: Ids \union {None}]]
          /\ hit' \in [Turns -> Ids \union {None}] /\ clashed' \subseteq Turns
          /\ \A u \in Turns : req'[u].thread = req[u].thread
      BY <2>5, CloseKeeps DEF Typed, Reject
    <3>. QED BY <2>5, <3>1 DEF Typed, TypeOK, Named, Places, Reject, To, Thread, Runs, vars, database, locals
  <2>6. CASE TellFile(t)
    <3>0. pc[t] # "new" /\ <<t, pc[t]>> \in Turns \X Sorts
      BY <2>6 DEF TellFile, Sorts
    <3>1. ckpt[Thread(t)] \union {<<t, pc[t]>>} \subseteq Turns \X Sorts /\ summary[Thread(t)] \subseteq Turns \X Sorts
      BY <3>0, MemoryTyped
    <3>2. /\ ckpt' \in [Threads -> SUBSET (Turns \X Sorts)] /\ summary' \in [Threads -> SUBSET (Turns \X Sorts)]
          /\ pending' \in [Threads -> Ids \union {None}] /\ clashed' \subseteq Turns
      <4>1. CASE Save(t, ckpt[Thread(t)] \union {<<t, pc[t]>>}, summary[Thread(t)], None)
        BY <3>1, <4>1, SaveTyped DEF Typed
      <4>2. CASE UNCHANGED <<ckpt, summary, pending, clashed>>
        BY <4>2 DEF Typed, TypeOK
      <4>. QED BY <2>6, <4>1, <4>2 DEF TellFile, UpdateState
    <3>3. /\ req' \in [Turns -> [kind: {"stream", "resume", None}, thread: Threads \union {None},
                                file: {"image", "doc", None}, message: BOOLEAN, id: Ids \union {None}]]
          /\ \A u \in Turns : req'[u].thread = req[u].thread
      BY <2>6, TellFileKeeps DEF Typed
    <3>. QED BY <2>6, <3>2, <3>3 DEF Typed, TypeOK, Named, Places, TellFile, To, Thread, Runs, vars, database, locals
  <2>7. CASE EventRow(t)
    <3>1. rows' \in [Threads -> SUBSET (Turns \X Roles)] /\ broken' \subseteq Turns
      BY <2>7, AddRowTyped DEF Typed, TypeOK, Roles, EventRow
    <3>. QED BY <2>7, <3>1 DEF Typed, TypeOK, Named, Places, AfterFile, EventRow, To, Thread, Runs, vars, database, locals
  <2>8. CASE Offer(t)
    BY <2>8 DEF Typed, TypeOK, Named, Places, Roles, Sorts, Offer, To, Thread, Runs, vars, database, locals
  <2>9. CASE OfferState(t)
    <3>0. pc[t] # "new" /\ <<t, "text">> \in Turns \X Sorts
      BY <2>9 DEF OfferState, Sorts
    <3>1. ckpt[Thread(t)] \union {<<t, "text">>} \subseteq Turns \X Sorts /\ summary[Thread(t)] \subseteq Turns \X Sorts
      BY <3>0, MemoryTyped
    <3>2. /\ ckpt' \in [Threads -> SUBSET (Turns \X Sorts)] /\ summary' \in [Threads -> SUBSET (Turns \X Sorts)]
          /\ pending' \in [Threads -> Ids \union {None}] /\ clashed' \subseteq Turns
      <4>1. CASE Save(t, ckpt[Thread(t)] \union {<<t, "text">>}, summary[Thread(t)], None)
        BY <3>1, <4>1, SaveTyped DEF Typed
      <4>2. CASE UNCHANGED <<ckpt, summary, pending, clashed>>
        BY <4>2 DEF Typed, TypeOK
      <4>. QED BY <2>9, <4>1, <4>2 DEF OfferState, UpdateState
    <3>. QED BY <2>9, <3>2 DEF Typed, TypeOK, Named, Places, OfferState, To, Thread, Runs, vars, database, locals
  <2>10. CASE Say(t)
    <3>1. rows' \in [Threads -> SUBSET (Turns \X Roles)] /\ broken' \subseteq Turns
      BY <2>10, AddRowTyped DEF Typed, TypeOK, Roles, Say
    <3>. QED BY <2>10, <3>1 DEF Typed, TypeOK, Named, Places, Say, To, Thread, Runs, vars, database, locals
  <2>11. CASE Run(t)
    <3>1. /\ ckpt[Thread(t)] \union {<<t, "human">>} \subseteq Turns \X Sorts
          /\ summary[Thread(t)] \subseteq Turns \X Sorts
      BY <2>11, MemoryTyped DEF Run, Sorts
    <3>2. /\ ckpt' \in [Threads -> SUBSET (Turns \X Sorts)] /\ summary' \in [Threads -> SUBSET (Turns \X Sorts)]
          /\ pending' \in [Threads -> Ids \union {None}] /\ clashed' \subseteq Turns
      BY <2>11, <3>1, SaveTyped DEF Typed, Run
    <3>3. /\ mine' \in [Turns -> SUBSET (Turns \X Sorts)] /\ recap' \in [Turns -> SUBSET (Turns \X Sorts)]
      BY <2>11, <3>1 DEF Typed, TypeOK, Run
    <3>. QED BY <2>11, <3>2, <3>3 DEF Typed, TypeOK, Named, Places, Run, To, Thread, Runs, vars, database, locals
  <2>12. CASE Summarize(t)
    <3>. PICK old \in SUBSET (mine[t] \ {<<t, "human">>}) :
           /\ mine' = [mine EXCEPT ![t] = @ \ old]
           /\ recap' = [recap EXCEPT ![t] = Folded(t, old)]
           /\ Save(t, mine[t] \ old, Folded(t, old), None)
      BY <2>12 DEF Summarize
    <3>1. mine[t] \ old \subseteq Turns \X Sorts /\ Folded(t, old) \subseteq Turns \X Sorts
      BY <2>12, MemoryTyped DEF Summarize, Folded
    <3>2. /\ ckpt' \in [Threads -> SUBSET (Turns \X Sorts)] /\ summary' \in [Threads -> SUBSET (Turns \X Sorts)]
          /\ pending' \in [Threads -> Ids \union {None}] /\ clashed' \subseteq Turns
      BY <3>1, SaveTyped DEF Typed
    <3>3. /\ mine' \in [Turns -> SUBSET (Turns \X Sorts)] /\ recap' \in [Turns -> SUBSET (Turns \X Sorts)]
      BY <3>1 DEF Typed, TypeOK
    <3>4. pc[t] = "summarize" /\ pc' = [pc EXCEPT ![t] = "running"] /\ UNCHANGED <<conv, rows, described, req, said, hit, broken, haunted>>
      BY <2>12 DEF Summarize, To
    <3>5. \A u \in Turns \ {t} : mine'[u] = mine[u] /\ recap'[u] = recap[u]
      BY DEF Typed, TypeOK
    <3>. QED BY <3>2, <3>3, <3>4, <3>5 DEF Typed, TypeOK, Named, Places, Runs
  <2>13. CASE Step(t)
    <3>1. mine[t] \subseteq Turns \X Sorts /\ recap[t] \subseteq Turns \X Sorts
      BY <2>13, MemoryTyped DEF Step
    <3>2. /\ ckpt' \in [Threads -> SUBSET (Turns \X Sorts)] /\ summary' \in [Threads -> SUBSET (Turns \X Sorts)]
          /\ pending' \in [Threads -> Ids \union {None}] /\ clashed' \subseteq Turns
      BY <2>13, <3>1, SaveTyped DEF Typed, Step
    <3>. QED BY <2>13, <3>2 DEF Typed, TypeOK, Named, Places, Step, To, Thread, Runs, vars, database, locals
  <2>14. CASE NotInitialized(t)
    BY <2>14 DEF Typed, TypeOK, Named, Places, Roles, Sorts, NotInitialized, To, Thread, Runs, vars, database, locals
  <2>15. CASE Row(t)
    <3>1. rows' \in [Threads -> SUBSET (Turns \X Roles)] /\ broken' \subseteq Turns
      BY <2>15, AddRowTyped DEF Typed, TypeOK, Roles, Row
    <3>2. /\ req' \in [Turns -> [kind: {"stream", "resume", None}, thread: Threads \union {None},
                                file: {"image", "doc", None}, message: BOOLEAN, id: Ids \union {None}]]
          /\ hit' \in [Turns -> Ids \union {None}] /\ clashed' \subseteq Turns
          /\ \A u \in Turns : req'[u].thread = req[u].thread
      BY <2>15, CloseKeeps DEF Typed, Row
    <3>. QED BY <2>15, <3>1, <3>2 DEF Typed, TypeOK, Named, Places, Row, To, Thread, Runs, vars, database, locals
  <2>16. CASE Check(t)
    BY <2>16 DEF Typed, TypeOK, Named, Places, Roles, Sorts, Check, To, Thread, Runs, vars, database, locals
  <2>17. CASE RunResumed(t)
    <3>1. /\ mine' \in [Turns -> SUBSET (Turns \X Sorts)] /\ recap' \in [Turns -> SUBSET (Turns \X Sorts)]
      BY <2>17, MemoryTyped DEF Typed, TypeOK, RunResumed
    <3>2. hit' \in [Turns -> Ids \union {None}]
      BY <2>17 DEF Typed, TypeOK, Named, Thread, RunResumed
    <3>3. /\ pc[t] # "new" /\ pc'[t] \in {"running", "summarize", "row"}
          /\ pc' \in [Turns -> Places] /\ \A u \in Turns \ {t} : pc'[u] = pc[u]
          /\ pc'[t] \notin Runs => mine' = mine /\ recap' = recap /\ pc[t] \notin Runs
          /\ \A u \in Turns \ {t} : mine'[u] = mine[u] /\ recap'[u] = recap[u]
      BY <2>17 DEF Typed, TypeOK, Places, RunResumed, To, Runs
    <3>4. UNCHANGED <<conv, rows, ckpt, summary, pending, described, req, said, broken, clashed, haunted>>
      BY <2>17 DEF RunResumed, database
    <3>5. Named'
      BY <3>3, <3>4 DEF Typed, Named
    <3>. QED BY <3>1, <3>2, <3>3, <3>4, <3>5 DEF Typed, TypeOK
  <2>18. CASE Die(t)
    <3>1. /\ req' \in [Turns -> [kind: {"stream", "resume", None}, thread: Threads \union {None},
                                file: {"image", "doc", None}, message: BOOLEAN, id: Ids \union {None}]]
          /\ hit' \in [Turns -> Ids \union {None}] /\ clashed' \subseteq Turns
          /\ \A u \in Turns : req'[u].thread = req[u].thread
      BY <2>18, CloseKeeps DEF Typed, Die
    <3>. QED BY <2>18, <3>1 DEF Typed, TypeOK, Named, Places, Die, To, Thread, Runs, vars, database, locals
  <2>19. CASE \E th \in Threads, file \in {None, "image", "doc"}, message \in BOOLEAN : Stream(t, th, file, message)
    <3>. PICK th \in Threads, file \in {None, "image", "doc"}, message \in BOOLEAN : Stream(t, th, file, message)
      BY <2>19
    <3>1. [kind |-> "stream", thread |-> th, file |-> file, message |-> message, id |-> None] \in
             [kind: {"stream", "resume", None}, thread: Threads \union {None},
              file: {"image", "doc", None}, message: BOOLEAN, id: Ids \union {None}]
      OBVIOUS
    <3>2. req' \in [Turns -> [kind: {"stream", "resume", None}, thread: Threads \union {None},
              file: {"image", "doc", None}, message: BOOLEAN, id: Ids \union {None}]]
      BY <3>1 DEF Typed, TypeOK, Stream
    <3>3. th \in Threads /\ req'[t].thread = th /\ \A u \in Turns \ {t} : req'[u] = req[u]
      BY DEF Typed, TypeOK, Stream
    <3>4. /\ pc' \in [Turns -> Places] /\ pc[t] = "new" /\ pc'[t] # "new" /\ pc'[t] \notin Runs
          /\ \A u \in Turns \ {t} : pc'[u] = pc[u]
      BY DEF Typed, TypeOK, Places, Runs, Stream, First, To
    <3>5. Named'
      BY <3>3, <3>4 DEF Typed, Named, Stream, Runs
    <3>6. broken' \subseteq Turns /\ haunted' \subseteq Threads
      BY <3>3 DEF Typed, TypeOK, Stream, Swallow, GoesOn
    <3>. QED BY <3>2, <3>4, <3>5, <3>6 DEF Typed, TypeOK, Stream, database
  <2>20. CASE \E th \in Threads, id \in Ids : Resume(t, th, id)
    <3>. PICK th \in Threads, id \in Ids : Resume(t, th, id)
      BY <2>20
    <3>1. [kind |-> "resume", thread |-> th, file |-> None, message |-> FALSE, id |-> id] \in
             [kind: {"stream", "resume", None}, thread: Threads \union {None},
              file: {"image", "doc", None}, message: BOOLEAN, id: Ids \union {None}]
      OBVIOUS
    <3>2. req' \in [Turns -> [kind: {"stream", "resume", None}, thread: Threads \union {None},
              file: {"image", "doc", None}, message: BOOLEAN, id: Ids \union {None}]]
      BY <3>1 DEF Typed, TypeOK, Resume
    <3>3. th \in Threads /\ req'[t].thread = th /\ \A u \in Turns \ {t} : req'[u] = req[u]
      BY DEF Typed, TypeOK, Resume
    <3>4. /\ pc' \in [Turns -> Places] /\ pc[t] = "new" /\ pc'[t] # "new" /\ pc'[t] \notin Runs
          /\ \A u \in Turns \ {t} : pc'[u] = pc[u]
      BY DEF Typed, TypeOK, Places, Runs, Resume, First, To
    <3>5. Named'
      BY <3>3, <3>4 DEF Typed, Named, Resume, Runs
    <3>6. broken' \subseteq Turns /\ haunted' \subseteq Threads
      BY <3>3 DEF Typed, TypeOK, Resume
    <3>. QED BY <3>2, <3>4, <3>5, <3>6 DEF Typed, TypeOK, Resume, database
  <2>21. CASE \E chunk \in Chunks : Answer(t, chunk)
    <3>. PICK chunk \in Chunks : Answer(t, chunk)
      BY <2>21
    <3>1. mine[t] \union {<<t, chunk>>} \subseteq Turns \X Sorts /\ recap[t] \subseteq Turns \X Sorts
      BY MemoryTyped DEF Chunks, Answer, Sorts
    <3>2. /\ ckpt' \in [Threads -> SUBSET (Turns \X Sorts)] /\ summary' \in [Threads -> SUBSET (Turns \X Sorts)]
          /\ pending' \in [Threads -> Ids \union {None}] /\ clashed' \subseteq Turns
      BY <3>1, SaveTyped DEF Typed, Answer
    <3>3. /\ said' \in [Turns -> {"text", "parts", None}]
          /\ mine' \in [Turns -> SUBSET (Turns \X Sorts)] /\ recap' \in [Turns -> SUBSET (Turns \X Sorts)]
      BY DEF Typed, TypeOK, Chunks, Answer, Stop
    <3>. QED BY <3>2, <3>3 DEF Typed, TypeOK, Named, Places, Answer, Stop, To, Thread, Runs, vars, database, locals
  <2>22. CASE \E chunk \in Chunks : Apologize(t, chunk)
    <3>. PICK chunk \in Chunks : Apologize(t, chunk)
      BY <2>22
    <3>1. mine[t] \union {<<t, "apology">>} \subseteq Turns \X Sorts /\ recap[t] \subseteq Turns \X Sorts
      BY MemoryTyped DEF Chunks, Apologize, Sorts
    <3>2. /\ ckpt' \in [Threads -> SUBSET (Turns \X Sorts)] /\ summary' \in [Threads -> SUBSET (Turns \X Sorts)]
          /\ pending' \in [Threads -> Ids \union {None}] /\ clashed' \subseteq Turns
      BY <3>1, SaveTyped DEF Typed, Apologize
    <3>3. /\ said' \in [Turns -> {"text", "parts", None}]
          /\ mine' \in [Turns -> SUBSET (Turns \X Sorts)] /\ recap' \in [Turns -> SUBSET (Turns \X Sorts)]
      BY DEF Typed, TypeOK, Chunks, Apologize, Stop
    <3>. QED BY <3>2, <3>3 DEF Typed, TypeOK, Named, Places, Apologize, Stop, To, Thread, Runs, vars, database, locals
  <2>23. CASE \E chunk \in Chunks : RunFails(t, chunk)
    <3>. PICK chunk \in Chunks : RunFails(t, chunk)
      BY <2>23
    <3>1. /\ said' \in [Turns -> {"text", "parts", None}]
          /\ mine' \in [Turns -> SUBSET (Turns \X Sorts)] /\ recap' \in [Turns -> SUBSET (Turns \X Sorts)]
      BY DEF Typed, TypeOK, Chunks, RunFails, Stop
    <3>. QED BY <3>1 DEF Typed, TypeOK, Named, Places, RunFails, Stop, To, Thread, Runs, vars, database, locals
  <2>24. CASE \E chunk \in Chunks, id \in Ids : Interrupt(t, chunk, id)
    <3>. PICK chunk \in Chunks, id \in Ids : Interrupt(t, chunk, id)
      BY <2>24
    <3>1. mine[t] \subseteq Turns \X Sorts /\ recap[t] \subseteq Turns \X Sorts
      BY MemoryTyped DEF Chunks, Interrupt, Sorts
    <3>2. /\ ckpt' \in [Threads -> SUBSET (Turns \X Sorts)] /\ summary' \in [Threads -> SUBSET (Turns \X Sorts)]
          /\ pending' \in [Threads -> Ids \union {None}] /\ clashed' \subseteq Turns
      BY <3>1, SaveTyped DEF Typed, Interrupt
    <3>3. /\ said' \in [Turns -> {"text", "parts", None}]
          /\ mine' \in [Turns -> SUBSET (Turns \X Sorts)] /\ recap' \in [Turns -> SUBSET (Turns \X Sorts)]
      BY DEF Typed, TypeOK, Chunks, Interrupt, Stop
    <3>. QED BY <3>2, <3>3 DEF Typed, TypeOK, Named, Places, Interrupt, Stop, To, Thread, Runs, vars, database, locals
  <2>. QED BY <1>1, <2>1, <2>2, <2>3, <2>4, <2>5, <2>6, <2>7, <2>8, <2>9, <2>10, <2>11, <2>12, <2>13, <2>14, <2>15, <2>16, <2>17, <2>18, <2>19, <2>20, <2>21, <2>22, <2>23, <2>24 DEF TurnStep
<1>2. ASSUME NEW th \in Threads, NewChat(th) PROVE Typed'
  BY <1>2 DEF Typed, TypeOK, Named, Places, Roles, Sorts, NewChat, To, Thread, Runs, vars, database, locals
<1>3. ASSUME NEW th \in Threads, Delete(th) PROVE Typed'
  BY <1>3 DEF Typed, TypeOK, Named, Places, Roles, Sorts, Delete, Readers, Busy, To, Thread, Runs, vars, database, locals
<1>4. CASE ImageExpires
  BY <1>4 DEF Typed, TypeOK, Named, Places, Roles, Sorts, ImageExpires, To, Thread, Runs, vars, database, locals
<1>5. CASE UNCHANGED vars
  BY <1>5 DEF Typed, TypeOK, Named, Places, Roles, Sorts, To, Thread, Runs, vars, database, locals
<1>. QED BY <1>1, <1>2, <1>3, <1>4, <1>5, NextSteps

-----------------------------------------------------------------------------
(* What a step of one turn leaves alone                                     *)

\* The locals of the others, who is broken or has clashed, the conversations.
LEMMA Alone ==
  ASSUME Typed, NEW t \in Turns, TurnStep(t)
  PROVE  /\ \A u \in Turns \ {t} :
               /\ pc'[u] = pc[u] /\ req'[u] = req[u] /\ mine'[u] = mine[u] /\ recap'[u] = recap[u]
               /\ said'[u] = said[u] /\ hit'[u] = hit[u]
         /\ pc[t] # "new" =>
               req'[t].thread = req[t].thread /\ req'[t].kind = req[t].kind
         /\ broken \subseteq broken' /\ clashed \ {t} \subseteq clashed'
         /\ conv \subseteq conv' /\ haunted \subseteq haunted'
<1>1. CASE Create(t)
  BY <1>1 DEF Typed, TypeOK, Named, Create, First, Swallow, GoesOn, To, Thread, Runs, vars, database, locals
<1>2. CASE LookImage(t)
  BY <1>2 DEF Typed, TypeOK, Named, LookImage, To, Thread, Runs, vars, database, locals
<1>3. CASE Analyse(t)
  BY <1>3 DEF Typed, TypeOK, Named, Analyse, To, Thread, Runs, vars, database, locals
<1>4. CASE Ingest(t)
  BY <1>4 DEF Typed, TypeOK, Named, Ingest, To, Thread, Runs, vars, database, locals
<1>5. CASE Reject(t)
  BY <1>5, CloseKeeps DEF Typed, TypeOK, Named, Reject, To, Thread, Runs, vars, database, locals
<1>6. CASE TellFile(t)
  BY <1>6 DEF Typed, TypeOK, Named, TellFile, UpdateState, Save, To, Thread, Runs, vars, database, locals
<1>7. CASE EventRow(t)
  BY <1>7 DEF Typed, TypeOK, Named, EventRow, AddRow, AfterFile, To, Thread, Runs, vars, database, locals
<1>8. CASE Offer(t)
  BY <1>8 DEF Typed, TypeOK, Named, Offer, To, Thread, Runs, vars, database, locals
<1>9. CASE OfferState(t)
  BY <1>9 DEF Typed, TypeOK, Named, OfferState, UpdateState, Save, To, Thread, Runs, vars, database, locals
<1>10. CASE Say(t)
  BY <1>10 DEF Typed, TypeOK, Named, Say, AddRow, To, Thread, Runs, vars, database, locals
<1>11. CASE Run(t)
  BY <1>11 DEF Typed, TypeOK, Named, Run, Save, To, Thread, Runs, vars, database, locals
<1>12. CASE Summarize(t)
  BY <1>12 DEF Typed, TypeOK, Named, Summarize, Folded, Save, To, Thread, Runs, vars, database, locals
<1>13. CASE Step(t)
  BY <1>13 DEF Typed, TypeOK, Named, Step, Save, To, Thread, Runs, vars, database, locals
<1>14. CASE NotInitialized(t)
  BY <1>14 DEF Typed, TypeOK, Named, NotInitialized, To, Thread, Runs, vars, database, locals
<1>15. CASE Row(t)
  BY <1>15, CloseKeeps DEF Typed, TypeOK, Named, Row, AddRow, Accumulated, To, Thread, Runs, vars, database, locals
<1>16. CASE Check(t)
  BY <1>16 DEF Typed, TypeOK, Named, Check, To, Thread, Runs, vars, database, locals
<1>17. CASE RunResumed(t)
  BY <1>17 DEF Typed, TypeOK, Named, RunResumed, To, Thread, Runs, vars, database, locals
<1>18. CASE Die(t)
  BY <1>18, CloseKeeps DEF Typed, TypeOK, Named, Die, To, Thread, Runs, vars, database, locals
<1>19. CASE \E th \in Threads, file \in {None, "image", "doc"}, message \in BOOLEAN : Stream(t, th, file, message)
  BY <1>19 DEF Typed, TypeOK, Named, Stream, First, Swallow, GoesOn, To, Thread, Runs, vars, database, locals
<1>20. CASE \E th \in Threads, id \in Ids : Resume(t, th, id)
  BY <1>20 DEF Typed, TypeOK, Named, Resume, To, Thread, Runs, vars, database, locals
<1>21. CASE \E chunk \in Chunks : Answer(t, chunk)
  BY <1>21 DEF Typed, TypeOK, Named, Chunks, Answer, Stop, Save, To, Thread, Runs, vars, database, locals
<1>22. CASE \E chunk \in Chunks : Apologize(t, chunk)
  BY <1>22 DEF Typed, TypeOK, Named, Chunks, Apologize, Stop, Save, To, Thread, Runs, vars, database, locals
<1>23. CASE \E chunk \in Chunks : RunFails(t, chunk)
  BY <1>23 DEF Typed, TypeOK, Named, Chunks, RunFails, Stop, To, Thread, Runs, vars, database, locals
<1>24. CASE \E chunk \in Chunks, id \in Ids : Interrupt(t, chunk, id)
  BY <1>24 DEF Typed, TypeOK, Named, Chunks, Interrupt, Stop, Save, To, Thread, Runs, vars, database, locals
<1>. QED BY <1>1, <1>2, <1>3, <1>4, <1>5, <1>6, <1>7, <1>8, <1>9, <1>10, <1>11, <1>12, <1>13, <1>14, <1>15, <1>16, <1>17, <1>18, <1>19, <1>20, <1>21, <1>22, <1>23, <1>24 DEF TurnStep

\* Rows are only added, to an existing conversation.
LEMMA RowsGrow ==
  ASSUME Typed, NEW t \in Turns, TurnStep(t), NEW th \in Threads
  PROVE  rows[th] \subseteq rows'[th] /\ (th \notin conv => rows'[th] = rows[th])
<1>1. CASE Create(t)
  BY <1>1 DEF Typed, TypeOK, Named, Create, First, Swallow, GoesOn, To, Thread, Runs, vars, database, locals
<1>2. CASE LookImage(t)
  BY <1>2 DEF Typed, TypeOK, Named, LookImage, To, Thread, Runs, vars, database, locals
<1>3. CASE Analyse(t)
  BY <1>3 DEF Typed, TypeOK, Named, Analyse, To, Thread, Runs, vars, database, locals
<1>4. CASE Ingest(t)
  BY <1>4 DEF Typed, TypeOK, Named, Ingest, To, Thread, Runs, vars, database, locals
<1>5. CASE Reject(t)
  BY <1>5, CloseKeeps DEF Typed, TypeOK, Named, Reject, To, Thread, Runs, vars, database, locals
<1>6. CASE TellFile(t)
  BY <1>6 DEF Typed, TypeOK, Named, TellFile, UpdateState, Save, To, Thread, Runs, vars, database, locals
<1>7. CASE EventRow(t)
  <2>1. AddRow(t, "system")
    BY <1>7 DEF EventRow
  <2>. QED BY <2>1 DEF Typed, TypeOK, AddRow
<1>8. CASE Offer(t)
  BY <1>8 DEF Typed, TypeOK, Named, Offer, To, Thread, Runs, vars, database, locals
<1>9. CASE OfferState(t)
  BY <1>9 DEF Typed, TypeOK, Named, OfferState, UpdateState, Save, To, Thread, Runs, vars, database, locals
<1>10. CASE Say(t)
  BY <1>10 DEF Typed, TypeOK, Named, Say, AddRow, To, Thread, Runs, vars, database, locals
<1>11. CASE Run(t)
  BY <1>11 DEF Typed, TypeOK, Named, Run, Save, To, Thread, Runs, vars, database, locals
<1>12. CASE Summarize(t)
  BY <1>12 DEF Typed, TypeOK, Named, Summarize, Folded, Save, To, Thread, Runs, vars, database, locals
<1>13. CASE Step(t)
  BY <1>13 DEF Typed, TypeOK, Named, Step, Save, To, Thread, Runs, vars, database, locals
<1>14. CASE NotInitialized(t)
  BY <1>14 DEF Typed, TypeOK, Named, NotInitialized, To, Thread, Runs, vars, database, locals
<1>15. CASE Row(t)
  BY <1>15, CloseKeeps DEF Typed, TypeOK, Named, Row, AddRow, Accumulated, To, Thread, Runs, vars, database, locals
<1>16. CASE Check(t)
  BY <1>16 DEF Typed, TypeOK, Named, Check, To, Thread, Runs, vars, database, locals
<1>17. CASE RunResumed(t)
  BY <1>17 DEF Typed, TypeOK, Named, RunResumed, To, Thread, Runs, vars, database, locals
<1>18. CASE Die(t)
  BY <1>18, CloseKeeps DEF Typed, TypeOK, Named, Die, To, Thread, Runs, vars, database, locals
<1>19. CASE \E on \in Threads, file \in {None, "image", "doc"}, message \in BOOLEAN : Stream(t, on, file, message)
  BY <1>19 DEF Typed, TypeOK, Named, Stream, First, Swallow, GoesOn, To, Thread, Runs, vars, database, locals
<1>20. CASE \E on \in Threads, id \in Ids : Resume(t, on, id)
  BY <1>20 DEF Typed, TypeOK, Named, Resume, To, Thread, Runs, vars, database, locals
<1>21. CASE \E chunk \in Chunks : Answer(t, chunk)
  BY <1>21 DEF Typed, TypeOK, Named, Chunks, Answer, Stop, Save, To, Thread, Runs, vars, database, locals
<1>22. CASE \E chunk \in Chunks : Apologize(t, chunk)
  BY <1>22 DEF Typed, TypeOK, Named, Chunks, Apologize, Stop, Save, To, Thread, Runs, vars, database, locals
<1>23. CASE \E chunk \in Chunks : RunFails(t, chunk)
  BY <1>23 DEF Typed, TypeOK, Named, Chunks, RunFails, Stop, To, Thread, Runs, vars, database, locals
<1>24. CASE \E chunk \in Chunks, id \in Ids : Interrupt(t, chunk, id)
  BY <1>24 DEF Typed, TypeOK, Named, Chunks, Interrupt, Stop, Save, To, Thread, Runs, vars, database, locals
<1>. QED BY <1>1, <1>2, <1>3, <1>4, <1>5, <1>6, <1>7, <1>8, <1>9, <1>10, <1>11, <1>12, <1>13, <1>14, <1>15, <1>16, <1>17, <1>18, <1>19, <1>20, <1>21, <1>22, <1>23, <1>24 DEF TurnStep

\* A checkpoint is only saved by a turn of its thread, and the others that have read it
\* have then clashed.
LEMMA OwnThread ==
  ASSUME Typed, NEW t \in Turns, TurnStep(t)
  PROVE  \/ UNCHANGED <<ckpt, summary, pending>> /\ clashed' \in {clashed, clashed \ {t}}
         \/ /\ pc[t] \in {"event", "previous", "offer state", "run", "summarize", "running"}
            /\ \A th \in Threads \ {Thread(t)} :
                  ckpt'[th] = ckpt[th] /\ summary'[th] = summary[th] /\ pending'[th] = pending[th]
            /\ clashed' = clashed \union (Readers(Thread(t)) \ {t})
<1>1. CASE Create(t)
  BY <1>1 DEF Typed, TypeOK, Named, Create, First, Swallow, GoesOn, To, Thread, Runs, vars, database, locals
<1>2. CASE LookImage(t)
  BY <1>2 DEF Typed, TypeOK, Named, LookImage, To, Thread, Runs, vars, database, locals
<1>3. CASE Analyse(t)
  BY <1>3 DEF Typed, TypeOK, Named, Analyse, To, Thread, Runs, vars, database, locals
<1>4. CASE Ingest(t)
  BY <1>4 DEF Typed, TypeOK, Named, Ingest, To, Thread, Runs, vars, database, locals
<1>5. CASE Reject(t)
  BY <1>5, CloseKeeps DEF Typed, TypeOK, Named, Reject, To, Thread, Runs, vars, database, locals
<1>6. CASE TellFile(t)
  BY <1>6 DEF Typed, TypeOK, Named, TellFile, UpdateState, Save, To, Thread, Runs, vars, database, locals
<1>7. CASE EventRow(t)
  BY <1>7 DEF Typed, TypeOK, Named, EventRow, AddRow, AfterFile, To, Thread, Runs, vars, database, locals
<1>8. CASE Offer(t)
  BY <1>8 DEF Typed, TypeOK, Named, Offer, To, Thread, Runs, vars, database, locals
<1>9. CASE OfferState(t)
  BY <1>9 DEF Typed, TypeOK, Named, OfferState, UpdateState, Save, To, Thread, Runs, vars, database, locals
<1>10. CASE Say(t)
  BY <1>10 DEF Typed, TypeOK, Named, Say, AddRow, To, Thread, Runs, vars, database, locals
<1>11. CASE Run(t)
  BY <1>11 DEF Typed, TypeOK, Named, Run, Save, To, Thread, Runs, vars, database, locals
<1>12. CASE Summarize(t)
  BY <1>12 DEF Typed, TypeOK, Named, Summarize, Folded, Save, To, Thread, Runs, vars, database, locals
<1>13. CASE Step(t)
  BY <1>13 DEF Typed, TypeOK, Named, Step, Save, To, Thread, Runs, vars, database, locals
<1>14. CASE NotInitialized(t)
  BY <1>14 DEF Typed, TypeOK, Named, NotInitialized, To, Thread, Runs, vars, database, locals
<1>15. CASE Row(t)
  BY <1>15, CloseKeeps DEF Typed, TypeOK, Named, Row, AddRow, Accumulated, To, Thread, Runs, vars, database, locals
<1>16. CASE Check(t)
  BY <1>16 DEF Typed, TypeOK, Named, Check, To, Thread, Runs, vars, database, locals
<1>17. CASE RunResumed(t)
  BY <1>17 DEF Typed, TypeOK, Named, RunResumed, To, Thread, Runs, vars, database, locals
<1>18. CASE Die(t)
  BY <1>18, CloseKeeps DEF Typed, TypeOK, Named, Die, To, Thread, Runs, vars, database, locals
<1>19. CASE \E th \in Threads, file \in {None, "image", "doc"}, message \in BOOLEAN : Stream(t, th, file, message)
  BY <1>19 DEF Typed, TypeOK, Named, Stream, First, Swallow, GoesOn, To, Thread, Runs, vars, database, locals
<1>20. CASE \E th \in Threads, id \in Ids : Resume(t, th, id)
  BY <1>20 DEF Typed, TypeOK, Named, Resume, To, Thread, Runs, vars, database, locals
<1>21. CASE \E chunk \in Chunks : Answer(t, chunk)
  BY <1>21 DEF Typed, TypeOK, Named, Chunks, Answer, Stop, Save, To, Thread, Runs, vars, database, locals
<1>22. CASE \E chunk \in Chunks : Apologize(t, chunk)
  BY <1>22 DEF Typed, TypeOK, Named, Chunks, Apologize, Stop, Save, To, Thread, Runs, vars, database, locals
<1>23. CASE \E chunk \in Chunks : RunFails(t, chunk)
  BY <1>23 DEF Typed, TypeOK, Named, Chunks, RunFails, Stop, To, Thread, Runs, vars, database, locals
<1>24. CASE \E chunk \in Chunks, id \in Ids : Interrupt(t, chunk, id)
  BY <1>24 DEF Typed, TypeOK, Named, Chunks, Interrupt, Stop, Save, To, Thread, Runs, vars, database, locals
<1>. QED BY <1>1, <1>2, <1>3, <1>4, <1>5, <1>6, <1>7, <1>8, <1>9, <1>10, <1>11, <1>12, <1>13, <1>14, <1>15, <1>16, <1>17, <1>18, <1>19, <1>20, <1>21, <1>22, <1>23, <1>24 DEF TurnStep

-----------------------------------------------------------------------------
(* Deleted conversations                                                    *)

\* Whoever may write to a thread has its conversation, or works on it without it.
Present ==
    \A t \in Turns :
       pc[t] \notin {"new", "create", "ended", "answered"} => Thread(t) \in conv \union haunted

GoneInv == Typed /\ Present /\ DeletedIsGone

LEMMA GoneInit == Init => GoneInv
BY TypedInit DEF Init, GoneInv, Present, DeletedIsGone, Memory

LEMMA PresentStep ==
  ASSUME GoneInv, [Next]_vars
  PROVE  Present'
<1>1. ASSUME NEW t \in Turns, TurnStep(t) PROVE Present'
  <2>. USE DEF GoneInv
  <2>. SUFFICES pc'[t] \notin {"new", "create", "ended", "answered"} => Thread(t)' \in conv' \union haunted'
    BY <1>1, Alone DEF Present, Thread
  <2>1. CASE Create(t)
    BY <2>1 DEF Typed, TypeOK, Named, Present, Busy, Create, First, Swallow, GoesOn, To, Thread, Runs, vars, database, locals
  <2>2. CASE LookImage(t)
    BY <2>2 DEF Typed, TypeOK, Named, Present, Busy, LookImage, To, Thread, Runs, vars, database, locals
  <2>3. CASE Analyse(t)
    BY <2>3 DEF Typed, TypeOK, Named, Present, Busy, Analyse, To, Thread, Runs, vars, database, locals
  <2>4. CASE Ingest(t)
    BY <2>4 DEF Typed, TypeOK, Named, Present, Busy, Ingest, To, Thread, Runs, vars, database, locals
  <2>5. CASE Reject(t)
    BY <2>5, CloseKeeps DEF Typed, TypeOK, Named, Present, Busy, Reject, To, Thread, Runs, vars, database, locals
  <2>6. CASE TellFile(t)
    BY <2>6, TellFileKeeps DEF Typed, TypeOK, Named, Present, Busy, TellFile, UpdateState, Save, To, Thread, Runs, vars, database, locals
  <2>7. CASE EventRow(t)
    BY <2>7 DEF Typed, TypeOK, Named, Present, Busy, EventRow, AddRow, AfterFile, To, Thread, Runs, vars, database, locals
  <2>8. CASE Offer(t)
    BY <2>8 DEF Typed, TypeOK, Named, Present, Busy, Offer, To, Thread, Runs, vars, database, locals
  <2>9. CASE OfferState(t)
    BY <2>9 DEF Typed, TypeOK, Named, Present, Busy, OfferState, UpdateState, Save, To, Thread, Runs, vars, database, locals
  <2>10. CASE Say(t)
    BY <2>10 DEF Typed, TypeOK, Named, Present, Busy, Say, AddRow, To, Thread, Runs, vars, database, locals
  <2>11. CASE Run(t)
    BY <2>11 DEF Typed, TypeOK, Named, Present, Busy, Run, Save, To, Thread, Runs, vars, database, locals
  <2>12. CASE Summarize(t)
    BY <2>12 DEF Typed, TypeOK, Named, Present, Busy, Summarize, Folded, Save, To, Thread, Runs, vars, database, locals
  <2>13. CASE Step(t)
    BY <2>13 DEF Typed, TypeOK, Named, Present, Busy, Step, Save, To, Thread, Runs, vars, database, locals
  <2>14. CASE NotInitialized(t)
    BY <2>14 DEF Typed, TypeOK, Named, Present, Busy, NotInitialized, To, Thread, Runs, vars, database, locals
  <2>15. CASE Row(t)
    BY <2>15, CloseKeeps DEF Typed, TypeOK, Named, Present, Busy, Row, AddRow, Accumulated, To, Thread, Runs, vars, database, locals
  <2>16. CASE Check(t)
    BY <2>16 DEF Typed, TypeOK, Named, Present, Busy, Check, To, Thread, Runs, vars, database, locals
  <2>17. CASE RunResumed(t)
    BY <2>17 DEF Typed, TypeOK, Named, Present, Busy, RunResumed, To, Thread, Runs, vars, database, locals
  <2>18. CASE Die(t)
    BY <2>18, CloseKeeps DEF Typed, TypeOK, Named, Present, Busy, Die, To, Thread, Runs, vars, database, locals
  <2>19. CASE \E th \in Threads, file \in {None, "image", "doc"}, message \in BOOLEAN : Stream(t, th, file, message)
    BY <2>19 DEF Typed, TypeOK, Named, Present, Busy, Stream, First, Swallow, GoesOn, To, Thread, Runs, vars, database, locals
  <2>20. CASE \E th \in Threads, id \in Ids : Resume(t, th, id)
    BY <2>20 DEF Typed, TypeOK, Named, Present, Busy, Resume, To, Thread, Runs, vars, database, locals
  <2>21. CASE \E chunk \in Chunks : Answer(t, chunk)
    BY <2>21 DEF Typed, TypeOK, Named, Present, Busy, Chunks, Answer, Stop, Save, To, Thread, Runs, vars, database, locals
  <2>22. CASE \E chunk \in Chunks : Apologize(t, chunk)
    BY <2>22 DEF Typed, TypeOK, Named, Present, Busy, Chunks, Apologize, Stop, Save, To, Thread, Runs, vars, database, locals
  <2>23. CASE \E chunk \in Chunks : RunFails(t, chunk)
    BY <2>23 DEF Typed, TypeOK, Named, Present, Busy, Chunks, RunFails, Stop, To, Thread, Runs, vars, database, locals
  <2>24. CASE \E chunk \in Chunks, id \in Ids : Interrupt(t, chunk, id)
    BY <2>24 DEF Typed, TypeOK, Named, Present, Busy, Chunks, Interrupt, Stop, Save, To, Thread, Runs, vars, database, locals
  <2>. QED BY <1>1, <2>1, <2>2, <2>3, <2>4, <2>5, <2>6, <2>7, <2>8, <2>9, <2>10, <2>11, <2>12, <2>13, <2>14, <2>15, <2>16, <2>17, <2>18, <2>19, <2>20, <2>21, <2>22, <2>23, <2>24 DEF TurnStep
<1>2. ASSUME NEW th \in Threads, NewChat(th) PROVE Present'
  BY <1>2 DEF GoneInv, Present, NewChat, To, Thread, Runs, vars, database, locals
<1>3. ASSUME NEW th \in Threads, Delete(th) PROVE Present'
  BY <1>3 DEF GoneInv, Typed, TypeOK, Named, Present, Delete, Busy, To, Thread, Runs, vars, database, locals
<1>4. CASE UNCHANGED <<conv, haunted, pc, req>>
  BY <1>4 DEF GoneInv, Present, Thread
<1>. QED BY <1>1, <1>2, <1>3, <1>4, NextSteps DEF ImageExpires, To, Thread, Runs, vars, database, locals

LEMMA GoneStep ==
  ASSUME GoneInv, [Next]_vars
  PROVE  GoneInv'
<1>1. Typed' /\ Present'
  BY TypedStep, PresentStep DEF GoneInv
<1>. SUFFICES DeletedIsGone'
  BY <1>1 DEF GoneInv
<1>2. ASSUME NEW t \in Turns, TurnStep(t) PROVE DeletedIsGone'
  <2>. SUFFICES ASSUME NEW th \in Threads, th \notin conv'
                PROVE  /\ rows'[th] = {}
                       /\ th \notin haunted' =>
                             ckpt'[th] = {} /\ summary'[th] = {} /\ pending'[th] = None
    BY DEF DeletedIsGone, Memory
  <2>1. th \notin conv /\ haunted \subseteq haunted'
    BY <1>2, Alone DEF GoneInv
  <2>2. rows'[th] = rows[th]
    BY <1>2, <2>1, RowsGrow DEF GoneInv
  <2>3. th \notin haunted =>
           ckpt'[th] = ckpt[th] /\ summary'[th] = summary[th] /\ pending'[th] = pending[th]
    BY <1>2, <2>1, OwnThread DEF GoneInv, Present
  <2>4. rows[th] = {} /\ (th \notin haunted => ckpt[th] = {} /\ summary[th] = {} /\ pending[th] = None)
    BY <2>1 DEF GoneInv, DeletedIsGone, Memory
  <2>. QED BY <2>1, <2>2, <2>3, <2>4
<1>3. ASSUME NEW th \in Threads, NewChat(th) PROVE DeletedIsGone'
  BY <1>3 DEF GoneInv, DeletedIsGone, Memory, NewChat, database
<1>4. ASSUME NEW th \in Threads, Delete(th) PROVE DeletedIsGone'
  BY <1>4 DEF GoneInv, Typed, TypeOK, DeletedIsGone, Memory, Delete
<1>5. CASE UNCHANGED <<database, haunted>>
  BY <1>5 DEF GoneInv, DeletedIsGone, Memory, database
<1>6. ImageExpires \/ UNCHANGED vars => UNCHANGED <<database, haunted>>
  BY DEF ImageExpires, vars
<1>. QED BY <1>1, <1>2, <1>3, <1>4, <1>5, <1>6, NextSteps

-----------------------------------------------------------------------------
(* Interrupts                                                               *)

\* A resume that has passed the check finds the interrupt, unless others have written the
\* thread since.
Waiting ==
    \A t \in Turns :
       /\ pc[t] = "run" /\ req[t].kind = "resume" => pending[Thread(t)] = req[t].id \/ t \in clashed
       /\ pc[t] = "new" => hit[t] = None
       /\ req[t].kind = "resume" =>
             pc[t] \in {"check", "run", "summarize", "running", "row", "answered", "ended"}

QuestionInv == Typed /\ Waiting /\ AnswersItsQuestion

LEMMA QuestionInit == Init => QuestionInv
BY TypedInit, NoneIsNew DEF Init, QuestionInv, Waiting, AnswersItsQuestion, NoRequest

LEMMA QuestionStep ==
  ASSUME QuestionInv, [Next]_vars
  PROVE  QuestionInv'
<1>0. Typed'
  BY TypedStep DEF QuestionInv
<1>. SUFFICES Waiting' /\ AnswersItsQuestion'
  BY <1>0 DEF QuestionInv
<1>1. ASSUME NEW t \in Turns, TurnStep(t) PROVE Waiting' /\ AnswersItsQuestion'
  <2>. USE DEF QuestionInv
  <2>0. ASSUME NEW u \in Turns \ {t}
        PROVE  /\ pc'[u] = "run" /\ req'[u].kind = "resume" =>
                     pending'[Thread(u)'] = req'[u].id \/ u \in clashed'
               /\ pc'[u] = "new" => hit'[u] = None
               /\ req'[u].kind = "resume" =>
                     pc'[u] \in {"check", "run", "summarize", "running", "row", "answered", "ended"}
               /\ hit'[u] # None /\ hit'[u] # req'[u].id => u \in clashed'
    <3>1. pc'[u] = pc[u] /\ req'[u] = req[u] /\ hit'[u] = hit[u] /\ clashed \ {t} \subseteq clashed'
      BY <1>1, Alone
    <3>2. pc[u] = "run" => Thread(u) \in Threads
      BY DEF Typed, Named, Thread
    <3>3. pc[u] = "run" /\ req[u].kind = "resume" =>
             pending'[Thread(u)] = pending[Thread(u)] \/ u \in clashed'
      BY <1>1, <3>2, OwnThread DEF Readers
    <3>. QED BY <3>1, <3>3 DEF Waiting, AnswersItsQuestion, Thread
  <2>. SUFFICES /\ pc'[t] = "run" /\ req'[t].kind = "resume" =>
                      pending'[Thread(t)'] = req'[t].id \/ t \in clashed'
                /\ pc'[t] = "new" => hit'[t] = None
                /\ req'[t].kind = "resume" =>
                      pc'[t] \in {"check", "run", "summarize", "running", "row", "answered", "ended"}
                /\ hit'[t] # None /\ hit'[t] # req'[t].id => t \in clashed'
    BY <2>0 DEF Waiting, AnswersItsQuestion
  <2>1. CASE Create(t)
    BY <2>1 DEF Typed, TypeOK, Named, Waiting, AnswersItsQuestion, Create, First, Swallow, GoesOn, To, Thread, Runs, vars, database, locals
  <2>2. CASE LookImage(t)
    BY <2>2 DEF Typed, TypeOK, Named, Waiting, AnswersItsQuestion, LookImage, To, Thread, Runs, vars, database, locals
  <2>3. CASE Analyse(t)
    BY <2>3 DEF Typed, TypeOK, Named, Waiting, AnswersItsQuestion, Analyse, To, Thread, Runs, vars, database, locals
  <2>4. CASE Ingest(t)
    BY <2>4 DEF Typed, TypeOK, Named, Waiting, AnswersItsQuestion, Ingest, To, Thread, Runs, vars, database, locals
  <2>5. CASE Reject(t)
    BY <2>5, CloseKeeps DEF Typed, TypeOK, Named, Waiting, AnswersItsQuestion, Reject, To, Thread, Runs, vars, database, locals
  <2>6. CASE TellFile(t)
    BY <2>6, TellFileKeeps DEF Typed, TypeOK, Named, Waiting, AnswersItsQuestion, TellFile, UpdateState, Save, To, Thread, Runs, vars, database, locals
  <2>7. CASE EventRow(t)
    BY <2>7 DEF Typed, TypeOK, Named, Waiting, AnswersItsQuestion, EventRow, AddRow, AfterFile, To, Thread, Runs, vars, database, locals
  <2>8. CASE Offer(t)
    BY <2>8 DEF Typed, TypeOK, Named, Waiting, AnswersItsQuestion, Offer, To, Thread, Runs, vars, database, locals
  <2>9. CASE OfferState(t)
    BY <2>9 DEF Typed, TypeOK, Named, Waiting, AnswersItsQuestion, OfferState, UpdateState, Save, To, Thread, Runs, vars, database, locals
  <2>10. CASE Say(t)
    BY <2>10 DEF Typed, TypeOK, Named, Waiting, AnswersItsQuestion, Say, AddRow, To, Thread, Runs, vars, database, locals
  <2>11. CASE Run(t)
    BY <2>11 DEF Typed, TypeOK, Named, Waiting, AnswersItsQuestion, Run, Save, To, Thread, Runs, vars, database, locals
  <2>12. CASE Summarize(t)
    BY <2>12 DEF Typed, TypeOK, Named, Waiting, AnswersItsQuestion, Summarize, Folded, Save, To, Thread, Runs, vars, database, locals
  <2>13. CASE Step(t)
    BY <2>13 DEF Typed, TypeOK, Named, Waiting, AnswersItsQuestion, Step, Save, To, Thread, Runs, vars, database, locals
  <2>14. CASE NotInitialized(t)
    BY <2>14 DEF Typed, TypeOK, Named, Waiting, AnswersItsQuestion, NotInitialized, To, Thread, Runs, vars, database, locals
  <2>15. CASE Row(t)
    BY <2>15, CloseKeeps DEF Typed, TypeOK, Named, Waiting, AnswersItsQuestion, Row, AddRow, Accumulated, To, Thread, Runs, vars, database, locals
  <2>16. CASE Check(t)
    BY <2>16 DEF Typed, TypeOK, Named, Waiting, AnswersItsQuestion, Check, To, Thread, Runs, vars, database, locals
  <2>17. CASE RunResumed(t)
    BY <2>17 DEF Typed, TypeOK, Named, Waiting, AnswersItsQuestion, RunResumed, To, Thread, Runs, vars, database, locals
  <2>18. CASE Die(t)
    BY <2>18, CloseKeeps DEF Typed, TypeOK, Named, Waiting, AnswersItsQuestion, Die, To, Thread, Runs, vars, database, locals
  <2>19. CASE \E th \in Threads, file \in {None, "image", "doc"}, message \in BOOLEAN : Stream(t, th, file, message)
    BY <2>19 DEF Typed, TypeOK, Named, Waiting, AnswersItsQuestion, Stream, First, Swallow, GoesOn, To, Thread, Runs, vars, database, locals
  <2>20. CASE \E th \in Threads, id \in Ids : Resume(t, th, id)
    BY <2>20 DEF Typed, TypeOK, Named, Waiting, AnswersItsQuestion, Resume, To, Thread, Runs, vars, database, locals
  <2>21. CASE \E chunk \in Chunks : Answer(t, chunk)
    BY <2>21 DEF Typed, TypeOK, Named, Waiting, AnswersItsQuestion, Chunks, Answer, Stop, Save, To, Thread, Runs, vars, database, locals
  <2>22. CASE \E chunk \in Chunks : Apologize(t, chunk)
    BY <2>22 DEF Typed, TypeOK, Named, Waiting, AnswersItsQuestion, Chunks, Apologize, Stop, Save, To, Thread, Runs, vars, database, locals
  <2>23. CASE \E chunk \in Chunks : RunFails(t, chunk)
    BY <2>23 DEF Typed, TypeOK, Named, Waiting, AnswersItsQuestion, Chunks, RunFails, Stop, To, Thread, Runs, vars, database, locals
  <2>24. CASE \E chunk \in Chunks, id \in Ids : Interrupt(t, chunk, id)
    BY <2>24 DEF Typed, TypeOK, Named, Waiting, AnswersItsQuestion, Chunks, Interrupt, Stop, Save, To, Thread, Runs, vars, database, locals
  <2>. QED BY <1>1, <2>1, <2>2, <2>3, <2>4, <2>5, <2>6, <2>7, <2>8, <2>9, <2>10, <2>11, <2>12, <2>13, <2>14, <2>15, <2>16, <2>17, <2>18, <2>19, <2>20, <2>21, <2>22, <2>23, <2>24 DEF TurnStep
<1>3. ASSUME NEW th \in Threads, Delete(th) PROVE Waiting' /\ AnswersItsQuestion'
  BY <1>3 DEF QuestionInv, Typed, TypeOK, Named, Waiting, AnswersItsQuestion, Delete, Readers, To, Thread, Runs, vars, database, locals
<1>4. CASE UNCHANGED <<ckpt, pending, pc, locals, clashed>>
  BY <1>4 DEF QuestionInv, Waiting, AnswersItsQuestion, Thread, locals
<1>5. (\E th \in Threads : NewChat(th)) \/ ImageExpires \/ UNCHANGED vars
        => UNCHANGED <<ckpt, pending, pc, locals, clashed>>
  BY DEF NewChat, ImageExpires, vars, database
<1>. QED BY <1>1, <1>3, <1>4, <1>5, NextSteps

-----------------------------------------------------------------------------
(* What a run saves over                                                    *)

\* A run has in memory what the checkpoint holds, unless others have written it since.
Fresh ==
    \A t \in Turns : pc[t] \in Runs =>
       \/ mine[t] = ckpt[Thread(t)] /\ recap[t] = summary[Thread(t)]
       \/ t \in clashed

FreshInv == Typed /\ Fresh

LEMMA FreshInit == Init => FreshInv
BY TypedInit DEF Init, FreshInv, Fresh, Runs

LEMMA FreshStep ==
  ASSUME FreshInv, [Next]_vars
  PROVE  FreshInv'
<1>0. Typed'
  BY TypedStep DEF FreshInv
<1>. SUFFICES Fresh'
  BY <1>0 DEF FreshInv
<1>1. ASSUME NEW t \in Turns, TurnStep(t) PROVE Fresh'
  <2>. USE DEF FreshInv
  <2>0. ASSUME NEW u \in Turns \ {t}
        PROVE  pc'[u] \in Runs =>
                  \/ mine'[u] = ckpt'[Thread(u)'] /\ recap'[u] = summary'[Thread(u)']
                  \/ u \in clashed'
    <3>1. /\ pc'[u] = pc[u] /\ req'[u] = req[u] /\ mine'[u] = mine[u] /\ recap'[u] = recap[u]
          /\ clashed \ {t} \subseteq clashed'
      BY <1>1, Alone
    <3>2. pc[u] \in Runs => Thread(u) \in Threads
      BY DEF Typed, Named, Thread, Runs
    <3>3. pc[u] \in Runs =>
             \/ ckpt'[Thread(u)] = ckpt[Thread(u)] /\ summary'[Thread(u)] = summary[Thread(u)]
             \/ u \in clashed'
      BY <1>1, <3>2, OwnThread DEF Readers
    <3>. QED BY <3>1, <3>3 DEF Fresh, Thread
  <2>. SUFFICES pc'[t] \in Runs =>
                   \/ mine'[t] = ckpt'[Thread(t)'] /\ recap'[t] = summary'[Thread(t)']
                   \/ t \in clashed'
    BY <2>0 DEF Fresh
  <2>1. CASE Create(t)
    BY <2>1 DEF Typed, TypeOK, Named, Fresh, Create, First, Swallow, GoesOn, To, Thread, Runs, vars, database, locals
  <2>2. CASE LookImage(t)
    BY <2>2 DEF Typed, TypeOK, Named, Fresh, LookImage, To, Thread, Runs, vars, database, locals
  <2>3. CASE Analyse(t)
    BY <2>3 DEF Typed, TypeOK, Named, Fresh, Analyse, To, Thread, Runs, vars, database, locals
  <2>4. CASE Ingest(t)
    BY <2>4 DEF Typed, TypeOK, Named, Fresh, Ingest, To, Thread, Runs, vars, database, locals
  <2>5. CASE Reject(t)
    BY <2>5, CloseKeeps DEF Typed, TypeOK, Named, Fresh, Reject, To, Thread, Runs, vars, database, locals
  <2>6. CASE TellFile(t)
    BY <2>6 DEF Typed, TypeOK, Named, Fresh, TellFile, UpdateState, Save, To, Thread, Runs, vars, database, locals
  <2>7. CASE EventRow(t)
    BY <2>7 DEF Typed, TypeOK, Named, Fresh, EventRow, AddRow, AfterFile, To, Thread, Runs, vars, database, locals
  <2>8. CASE Offer(t)
    BY <2>8 DEF Typed, TypeOK, Named, Fresh, Offer, To, Thread, Runs, vars, database, locals
  <2>9. CASE OfferState(t)
    BY <2>9 DEF Typed, TypeOK, Named, Fresh, OfferState, UpdateState, Save, To, Thread, Runs, vars, database, locals
  <2>10. CASE Say(t)
    BY <2>10 DEF Typed, TypeOK, Named, Fresh, Say, AddRow, To, Thread, Runs, vars, database, locals
  <2>11. CASE Run(t)
    BY <2>11 DEF Typed, TypeOK, Named, Fresh, Run, Save, To, Thread, Runs, vars, database, locals
  <2>12. CASE Summarize(t)
    BY <2>12 DEF Typed, TypeOK, Named, Fresh, Summarize, Folded, Save, To, Thread, Runs, vars, database, locals
  <2>13. CASE Step(t)
    BY <2>13 DEF Typed, TypeOK, Named, Fresh, Step, Save, To, Thread, Runs, vars, database, locals
  <2>14. CASE NotInitialized(t)
    BY <2>14 DEF Typed, TypeOK, Named, Fresh, NotInitialized, To, Thread, Runs, vars, database, locals
  <2>15. CASE Row(t)
    BY <2>15, CloseKeeps DEF Typed, TypeOK, Named, Fresh, Row, AddRow, Accumulated, To, Thread, Runs, vars, database, locals
  <2>16. CASE Check(t)
    BY <2>16 DEF Typed, TypeOK, Named, Fresh, Check, To, Thread, Runs, vars, database, locals
  <2>17. CASE RunResumed(t)
    BY <2>17 DEF Typed, TypeOK, Named, Fresh, RunResumed, To, Thread, Runs, vars, database, locals
  <2>18. CASE Die(t)
    BY <2>18, CloseKeeps DEF Typed, TypeOK, Named, Fresh, Die, To, Thread, Runs, vars, database, locals
  <2>19. CASE \E th \in Threads, file \in {None, "image", "doc"}, message \in BOOLEAN : Stream(t, th, file, message)
    BY <2>19 DEF Typed, TypeOK, Named, Fresh, Stream, First, Swallow, GoesOn, To, Thread, Runs, vars, database, locals
  <2>20. CASE \E th \in Threads, id \in Ids : Resume(t, th, id)
    BY <2>20 DEF Typed, TypeOK, Named, Fresh, Resume, To, Thread, Runs, vars, database, locals
  <2>21. CASE \E chunk \in Chunks : Answer(t, chunk)
    BY <2>21 DEF Typed, TypeOK, Named, Fresh, Chunks, Answer, Stop, Save, To, Thread, Runs, vars, database, locals
  <2>22. CASE \E chunk \in Chunks : Apologize(t, chunk)
    BY <2>22 DEF Typed, TypeOK, Named, Fresh, Chunks, Apologize, Stop, Save, To, Thread, Runs, vars, database, locals
  <2>23. CASE \E chunk \in Chunks : RunFails(t, chunk)
    BY <2>23 DEF Typed, TypeOK, Named, Fresh, Chunks, RunFails, Stop, To, Thread, Runs, vars, database, locals
  <2>24. CASE \E chunk \in Chunks, id \in Ids : Interrupt(t, chunk, id)
    BY <2>24 DEF Typed, TypeOK, Named, Fresh, Chunks, Interrupt, Stop, Save, To, Thread, Runs, vars, database, locals
  <2>. QED BY <1>1, <2>1, <2>2, <2>3, <2>4, <2>5, <2>6, <2>7, <2>8, <2>9, <2>10, <2>11, <2>12, <2>13, <2>14, <2>15, <2>16, <2>17, <2>18, <2>19, <2>20, <2>21, <2>22, <2>23, <2>24 DEF TurnStep
<1>3. ASSUME NEW th \in Threads, Delete(th) PROVE Fresh'
  BY <1>3 DEF FreshInv, Typed, TypeOK, Named, Fresh, Delete, Readers, To, Thread, Runs, vars, database, locals
<1>4. CASE UNCHANGED <<ckpt, summary, pc, locals, clashed>>
  BY <1>4 DEF FreshInv, Fresh, Thread, locals
<1>5. (\E th \in Threads : NewChat(th)) \/ ImageExpires \/ UNCHANGED vars
        => UNCHANGED <<ckpt, summary, pc, locals, clashed>>
  BY DEF NewChat, ImageExpires, vars, database
<1>. QED BY <1>1, <1>3, <1>4, <1>5, NextSteps

\* What one step may take from the memory of a thread.
Keeps(th) ==
    \/ Memory(th) \subseteq Memory(th)'
    \/ th \in conv \ conv'
    \/ \E t \in Turns :
          /\ Thread(t) = th /\ pc[t] \in Runs
          /\ \A m \in (IF t \in clashed THEN Mind(t) ELSE Memory(th)) :
                m \in Memory(th)' \/ (m[2] = "parts" /\ pc[t] = "summarize")

\* A run that saves what it has in mind.
LEMMA SaveKeeps ==
  ASSUME FreshInv, NEW t \in Turns, pc[t] \in Runs, NEW th \in Threads,
         NEW messages, NEW summarized, NEW interrupt, Save(t, messages, summarized, interrupt),
         \A m \in Mind(t) : m \in messages \union summarized \/ (m[2] = "parts" /\ pc[t] = "summarize")
  PROVE  Keeps(th)
<1>. USE DEF FreshInv
<1>1. CASE th # Thread(t)
  BY <1>1 DEF Typed, TypeOK, Save, Keeps, Memory
<1>2. CASE th = Thread(t)
  <2>1. Memory(th)' = messages \union summarized
    BY <1>2 DEF Typed, TypeOK, Save, Memory
  <2>2. t \in clashed \/ Memory(th) = Mind(t)
    BY <1>2 DEF Fresh, Memory, Mind
  <2>3. \A m \in (IF t \in clashed THEN Mind(t) ELSE Memory(th)) :
           m \in Memory(th)' \/ (m[2] = "parts" /\ pc[t] = "summarize")
    BY <2>1, <2>2
  <2>. QED BY <1>2, <2>3 DEF Keeps
<1>. QED BY <1>1, <1>2

LEMMA MemoryStep ==
  ASSUME FreshInv, [Next]_vars
  PROVE  \A th \in Threads : Keeps(th)
<1>. SUFFICES ASSUME NEW th \in Threads PROVE Keeps(th)
  OBVIOUS
<1>1. ASSUME NEW t \in Turns, TurnStep(t) PROVE Keeps(th)
  <2>. USE DEF FreshInv
  <2>1. CASE Create(t)
    BY <2>1 DEF Keeps, Memory, Create, database, locals
  <2>2. CASE LookImage(t)
    BY <2>2 DEF Keeps, Memory, LookImage, database, locals
  <2>3. CASE Analyse(t)
    BY <2>3 DEF Keeps, Memory, Analyse, database, locals
  <2>4. CASE Ingest(t)
    BY <2>4 DEF Keeps, Memory, Ingest, database, locals
  <2>5. CASE Reject(t)
    BY <2>5 DEF Keeps, Memory, Reject, database, locals
  <2>6. CASE TellFile(t)
    <3>1. CASE UNCHANGED <<ckpt, summary>>
      BY <3>1 DEF Keeps, Memory
    <3>2. CASE UpdateState(t, <<t, pc[t]>>)
      BY <3>2 DEF Typed, TypeOK, UpdateState, Save, Keeps, Memory
    <3>. QED BY <2>6, <3>1, <3>2 DEF TellFile
  <2>7. CASE EventRow(t)
    BY <2>7 DEF Keeps, Memory, EventRow, database, locals
  <2>8. CASE Offer(t)
    BY <2>8 DEF Keeps, Memory, Offer, database, locals
  <2>9. CASE OfferState(t)
    <3>1. CASE UNCHANGED <<ckpt, summary>>
      BY <3>1 DEF Keeps, Memory
    <3>2. CASE UpdateState(t, <<t, "text">>)
      BY <3>2 DEF Typed, TypeOK, UpdateState, Save, Keeps, Memory
    <3>. QED BY <2>9, <3>1, <3>2 DEF OfferState
  <2>10. CASE Say(t)
    BY <2>10 DEF Keeps, Memory, Say, database, locals
  <2>11. CASE Run(t)
    BY <2>11 DEF Keeps, Memory, Typed, TypeOK, Named, Run, Save, To, Thread, Runs, vars, database, locals
  <2>12. CASE Summarize(t)
    <3>. PICK old \in SUBSET (mine[t] \ {<<t, "human">>}) :
           Save(t, mine[t] \ old, Folded(t, old), None)
      BY <2>12 DEF Summarize
    <3>1. \A m \in Mind(t) : m \in (mine[t] \ old) \union Folded(t, old) \/ m[2] = "parts"
      BY DEF Mind, Folded
    <3>. QED BY <2>12, <3>1, SaveKeeps DEF Summarize, Runs
  <2>13. CASE Step(t)
    <3>1. \A m \in Mind(t) : m \in mine[t] \union recap[t]
      BY DEF Mind
    <3>. QED BY <2>13, <3>1, SaveKeeps DEF Step, Runs
  <2>14. CASE NotInitialized(t)
    BY <2>14 DEF Keeps, Memory, NotInitialized, database, locals
  <2>15. CASE Row(t)
    BY <2>15 DEF Keeps, Memory, Row, database, locals
  <2>16. CASE Check(t)
    BY <2>16 DEF Keeps, Memory, Check, database, locals
  <2>17. CASE RunResumed(t)
    BY <2>17 DEF Keeps, Memory, RunResumed, database, locals
  <2>18. CASE Die(t)
    BY <2>18 DEF Keeps, Memory, Die, database, locals
  <2>19. CASE \E on \in Threads, file \in {None, "image", "doc"}, message \in BOOLEAN : Stream(t, on, file, message)
    BY <2>19 DEF Keeps, Memory, Stream, database, locals
  <2>20. CASE \E on \in Threads, id \in Ids : Resume(t, on, id)
    BY <2>20 DEF Keeps, Memory, Resume, database, locals
  <2>21. CASE \E chunk \in Chunks : Answer(t, chunk)
    <3>. PICK chunk \in Chunks : Answer(t, chunk)
      BY <2>21
    <3>1. \A m \in Mind(t) : m \in (mine[t] \union {<<t, chunk>>}) \union recap[t]
      BY DEF Mind
    <3>2. pc[t] \in Runs /\ Save(t, (mine[t] \union {<<t, chunk>>}), recap[t], None)
      BY DEF Answer, Runs
    <3>. QED BY <3>1, <3>2, SaveKeeps
  <2>22. CASE \E chunk \in Chunks : Apologize(t, chunk)
    <3>. PICK chunk \in Chunks : Apologize(t, chunk)
      BY <2>22
    <3>1. \A m \in Mind(t) : m \in (mine[t] \union {<<t, "apology">>}) \union recap[t]
      BY DEF Mind
    <3>2. pc[t] \in Runs /\ Save(t, (mine[t] \union {<<t, "apology">>}), recap[t], None)
      BY DEF Apologize, Runs
    <3>. QED BY <3>1, <3>2, SaveKeeps
  <2>23. CASE \E chunk \in Chunks : RunFails(t, chunk)
    BY <2>23 DEF Keeps, Memory, Chunks, RunFails, Stop, database, locals
  <2>24. CASE \E chunk \in Chunks, id \in Ids : Interrupt(t, chunk, id)
    <3>. PICK chunk \in Chunks, id \in Ids : Interrupt(t, chunk, id)
      BY <2>24
    <3>1. \A m \in Mind(t) : m \in mine[t] \union recap[t]
      BY DEF Mind
    <3>2. pc[t] \in Runs /\ Save(t, mine[t], recap[t], id)
      BY DEF Interrupt, Runs
    <3>. QED BY <3>1, <3>2, SaveKeeps
  <2>. QED BY <1>1, <2>1, <2>2, <2>3, <2>4, <2>5, <2>6, <2>7, <2>8, <2>9, <2>10, <2>11, <2>12, <2>13, <2>14, <2>15, <2>16, <2>17, <2>18, <2>19, <2>20, <2>21, <2>22, <2>23, <2>24 DEF TurnStep
<1>2. ASSUME NEW a \in Threads, Delete(a) PROVE Keeps(th)
  BY <1>2 DEF FreshInv, Typed, TypeOK, Delete, Keeps, Memory
<1>3. CASE UNCHANGED <<ckpt, summary>>
  BY <1>3 DEF Keeps, Memory
<1>. QED BY <1>1, <1>2, <1>3, NextSteps DEF NewChat, ImageExpires, vars, database

-----------------------------------------------------------------------------
(* What is remembered is shown                                              *)

\* A message the agent knows of, or a run has in mind.
Known(m) == (\E th \in Threads : m \in Memory(th)) \/ \E u \in Turns : m \in Mind(u)

\* A message that a step of t may add.
Told(t, m) ==
    \/ m = <<t, "human">> /\ pc[t] = "run" /\ req[t].kind = "stream"
    \/ m = <<t, "text">> /\ pc[t] = "offer state"
    \/ m = <<t, "text">> /\ pc[t] = "running" /\ pc'[t] = "row" /\ said'[t] = "text"
    \/ m = <<t, "parts">> /\ pc[t] = "running" /\ pc'[t] = "row" /\ said'[t] = "parts"
    \/ m = <<t, "apology">> /\ pc[t] = "running"
    \/ m = <<t, "event">> /\ pc[t] = "event"
    \/ m = <<t, "previous">> /\ pc[t] = "previous"

LEMMA Learning ==
  ASSUME Typed, NEW t \in Turns, TurnStep(t), NEW m
  PROVE  /\ \A th \in Threads : m \in Memory(th)' =>
               m \in Memory(th) \/ (th = Thread(t) /\ (m \in Mind(t) \/ Told(t, m)))
         /\ m \in Mind(t)' =>
               m \in Mind(t) \/ (Thread(t) \in Threads /\ m \in Memory(Thread(t))) \/ Told(t, m)
<1>1. CASE Create(t)
  BY <1>1 DEF Memory, Mind, Typed, TypeOK, Named, Told, Create, First, Swallow, GoesOn, To, Thread, Runs, vars, database, locals
<1>2. CASE LookImage(t)
  BY <1>2 DEF Memory, Mind, Typed, TypeOK, Named, Told, LookImage, To, Thread, Runs, vars, database, locals
<1>3. CASE Analyse(t)
  BY <1>3 DEF Memory, Mind, Typed, TypeOK, Named, Told, Analyse, To, Thread, Runs, vars, database, locals
<1>4. CASE Ingest(t)
  BY <1>4 DEF Memory, Mind, Typed, TypeOK, Named, Told, Ingest, To, Thread, Runs, vars, database, locals
<1>5. CASE Reject(t)
  BY <1>5, CloseKeeps DEF Memory, Mind, Typed, TypeOK, Named, Told, Reject, To, Thread, Runs, vars, database, locals
<1>6. CASE TellFile(t)
  <2>1. CASE UNCHANGED <<ckpt, summary>>
    BY <1>6, <2>1 DEF Memory, Mind, TellFile, locals
  <2>2. CASE UpdateState(t, <<t, pc[t]>>)
    BY <1>6, <2>2 DEF Memory, Mind, Typed, TypeOK, Told, Thread, TellFile, UpdateState, Save, locals
  <2>. QED BY <1>6, <2>1, <2>2 DEF TellFile
<1>7. CASE EventRow(t)
  BY <1>7 DEF Memory, Mind, Typed, TypeOK, Named, Told, EventRow, AddRow, AfterFile, To, Thread, Runs, vars, database, locals
<1>8. CASE Offer(t)
  BY <1>8 DEF Memory, Mind, Typed, TypeOK, Named, Told, Offer, To, Thread, Runs, vars, database, locals
<1>9. CASE OfferState(t)
  <2>1. CASE UNCHANGED <<ckpt, summary>>
    BY <1>9, <2>1 DEF Memory, Mind, OfferState, locals
  <2>2. CASE UpdateState(t, <<t, "text">>)
    BY <1>9, <2>2 DEF Memory, Mind, Typed, TypeOK, Told, Thread, OfferState, UpdateState, Save, locals
  <2>. QED BY <1>9, <2>1, <2>2 DEF OfferState
<1>10. CASE Say(t)
  BY <1>10 DEF Memory, Mind, Typed, TypeOK, Named, Told, Say, AddRow, To, Thread, Runs, vars, database, locals
<1>11. CASE Run(t)
  BY <1>11 DEF Memory, Mind, Typed, TypeOK, Named, Told, Run, Save, To, Thread, Runs, vars, database, locals
<1>12. CASE Summarize(t)
  <2>. PICK old \in SUBSET (mine[t] \ {<<t, "human">>}) :
         /\ mine' = [mine EXCEPT ![t] = @ \ old]
         /\ recap' = [recap EXCEPT ![t] = Folded(t, old)]
         /\ Save(t, mine[t] \ old, Folded(t, old), None)
    BY <1>12 DEF Summarize
  <2>1. mine'[t] = mine[t] \ old /\ recap'[t] = Folded(t, old)
    BY DEF Typed, TypeOK
  <2>2. \A th \in Threads : \/ ckpt'[th] = ckpt[th] /\ summary'[th] = summary[th]
                            \/ th = Thread(t) /\ ckpt'[th] = mine[t] \ old /\ summary'[th] = Folded(t, old)
    BY DEF Typed, TypeOK, Save
  <2>3. (mine[t] \ old) \union Folded(t, old) \subseteq Mind(t)
    BY DEF Folded, Mind
  <2>. QED BY <2>1, <2>2, <2>3 DEF Memory, Mind
<1>13. CASE Step(t)
  BY <1>13 DEF Memory, Mind, Typed, TypeOK, Named, Told, Step, Save, To, Thread, Runs, vars, database, locals
<1>14. CASE NotInitialized(t)
  BY <1>14 DEF Memory, Mind, Typed, TypeOK, Named, Told, NotInitialized, To, Thread, Runs, vars, database, locals
<1>15. CASE Row(t)
  BY <1>15, CloseKeeps DEF Memory, Mind, Typed, TypeOK, Named, Told, Row, AddRow, Accumulated, To, Thread, Runs, vars, database, locals
<1>16. CASE Check(t)
  BY <1>16 DEF Memory, Mind, Typed, TypeOK, Named, Told, Check, To, Thread, Runs, vars, database, locals
<1>17. CASE RunResumed(t)
  BY <1>17 DEF Memory, Mind, Typed, TypeOK, Named, Told, RunResumed, To, Thread, Runs, vars, database, locals
<1>18. CASE Die(t)
  BY <1>18, CloseKeeps DEF Memory, Mind, Typed, TypeOK, Named, Told, Die, To, Thread, Runs, vars, database, locals
<1>19. CASE \E th \in Threads, file \in {None, "image", "doc"}, message \in BOOLEAN : Stream(t, th, file, message)
  BY <1>19 DEF Memory, Mind, Typed, TypeOK, Named, Told, Stream, First, Swallow, GoesOn, To, Thread, Runs, vars, database, locals
<1>20. CASE \E th \in Threads, id \in Ids : Resume(t, th, id)
  BY <1>20 DEF Memory, Mind, Typed, TypeOK, Named, Told, Resume, To, Thread, Runs, vars, database, locals
<1>21. CASE \E chunk \in Chunks : Answer(t, chunk)
  BY <1>21 DEF Memory, Mind, Typed, TypeOK, Named, Told, Chunks, Answer, Stop, Save, To, Thread, Runs, vars, database, locals
<1>22. CASE \E chunk \in Chunks : Apologize(t, chunk)
  BY <1>22 DEF Memory, Mind, Typed, TypeOK, Named, Told, Chunks, Apologize, Stop, Save, To, Thread, Runs, vars, database, locals
<1>23. CASE \E chunk \in Chunks : RunFails(t, chunk)
  BY <1>23 DEF Memory, Mind, Typed, TypeOK, Named, Told, Chunks, RunFails, Stop, To, Thread, Runs, vars, database, locals
<1>24. CASE \E chunk \in Chunks, id \in Ids : Interrupt(t, chunk, id)
  BY <1>24 DEF Memory, Mind, Typed, TypeOK, Named, Told, Chunks, Interrupt, Stop, Save, To, Thread, Runs, vars, database, locals
<1>. QED BY <1>1, <1>2, <1>3, <1>4, <1>5, <1>6, <1>7, <1>8, <1>9, <1>10, <1>11, <1>12, <1>13, <1>14, <1>15, <1>16, <1>17, <1>18, <1>19, <1>20, <1>21, <1>22, <1>23, <1>24 DEF TurnStep

LEMMA KnownGrows ==
  ASSUME Typed, NEW t \in Turns, TurnStep(t), NEW m, Known(m)'
  PROVE  Known(m) \/ Told(t, m)
<1>1. CASE \E th \in Threads : m \in Memory(th)'
  BY <1>1, Learning DEF Known
<1>2. CASE \E u \in Turns \ {t} : m \in Mind(u)'
  BY <1>2, Alone DEF Known, Mind
<1>3. CASE m \in Mind(t)'
  BY <1>3, Learning DEF Known
<1>. QED BY <1>1, <1>2, <1>3 DEF Known

\* Messages stay in the thread of their turn.
Tagged ==
    \A t \in Turns, s \in Sorts :
       /\ \A th \in Threads : <<t, s>> \in Memory(th) => Thread(t) = th
       /\ \A u \in Turns : <<t, s>> \in Mind(u) => Thread(t) = Thread(u)

Healthy(t) == t \notin broken /\ Thread(t) \notin haunted
Shown(t, role) == <<t, role>> \in rows[Thread(t)]

Placed(t) ==
    /\ pc[t] = "check" => req[t].kind = "resume"
    /\ pc[t] = "offer state" => said[t] = "text"

AskedShown(t) ==
    Healthy(t) /\ (Known(<<t, "human">>) \/ (pc[t] = "run" /\ req[t].kind = "stream")) => Shown(t, "user")

\* An answer is known from the end of the run on, and then its row follows; a resumed answer
\* in parts has none.
AnswerShown(t) ==
    /\ Known(<<t, "text">>) \/ Known(<<t, "parts">>) => pc[t] \in {"row", "answered", "ended"}
    /\ pc[t] = "row" /\ Known(<<t, "text">>) => said[t] = "text"
    /\ pc[t] = "row" /\ Known(<<t, "parts">>) => said[t] = "parts"
    /\ /\ pc[t] = "answered" /\ Healthy(t)
       /\ Known(<<t, "text">>) \/ (Known(<<t, "parts">>) /\ req[t].kind = "stream")
       => Shown(t, "assistant")

ShownInv == Typed /\ Tagged /\ \A t \in Turns : Placed(t) /\ AskedShown(t) /\ AnswerShown(t)

LEMMA ShownInit == Init => ShownInv
BY TypedInit, NoneIsNew
   DEF Init, ShownInv, Tagged, Placed, AskedShown, AnswerShown, Known, Memory, Mind, NoRequest

\* A turn that has not begun is not remembered.
LEMMA NewUnknown ==
  ASSUME Typed, Tagged, NEW t \in Turns, pc[t] = "new", NEW s \in Sorts
  PROVE  ~Known(<<t, s>>)
<1>1. Thread(t) = None /\ None \notin Threads
  BY NoneIsNew DEF Typed, Named, Thread
<1>2. \A th \in Threads : <<t, s>> \notin Memory(th)
  BY <1>1 DEF Tagged
<1>3. \A u \in Turns : pc[u] \in Runs => Thread(u) \in Threads
  BY DEF Typed, Named, Thread, Runs
<1>4. \A u \in Turns : <<t, s>> \notin Mind(u)
  BY <1>1, <1>3 DEF Tagged, Typed, Named, Mind
<1>. QED BY <1>2, <1>4 DEF Known

LEMMA TaggedStep ==
  ASSUME Typed, Tagged, NEW t \in Turns, TurnStep(t)
  PROVE  Tagged'
<1>. SUFFICES ASSUME NEW u \in Turns, NEW s \in Sorts
              PROVE  /\ \A th \in Threads : <<u, s>> \in Memory(th)' => Thread(u)' = th
                     /\ \A v \in Turns : <<u, s>> \in Mind(v)' => Thread(u)' = Thread(v)'
  BY DEF Tagged
<1>1. Known(<<u, s>>)' => Known(<<u, s>>) \/ Told(t, <<u, s>>)
  BY KnownGrows
<1>2. Told(t, <<u, s>>) => u = t /\ pc[t] # "new"
  BY DEF Told
<1>3. Known(<<u, s>>) => pc[u] # "new"
  BY NewUnknown
<1>4. pc[u] # "new" => Thread(u)' = Thread(u)
  BY Alone DEF Thread
<1>5. Known(<<u, s>>)' => Thread(u)' = Thread(u)
  BY <1>1, <1>2, <1>3, <1>4
<1>6. ASSUME NEW th \in Threads, <<u, s>> \in Memory(th)' PROVE Thread(u)' = th
  <2>1. Thread(u)' = Thread(u)
    BY <1>5, <1>6 DEF Known
  <2>2. <<u, s>> \in Memory(th) \/ (th = Thread(t) /\ (<<u, s>> \in Mind(t) \/ Told(t, <<u, s>>)))
    BY <1>6, Learning
  <2>. QED BY <2>1, <2>2, <1>2 DEF Tagged
<1>7. ASSUME NEW v \in Turns, <<u, s>> \in Mind(v)' PROVE Thread(u)' = Thread(v)'
  <2>1. Thread(u)' = Thread(u)
    BY <1>5, <1>7 DEF Known
  <2>2. CASE v # t
    BY <1>7, <2>1, <2>2, Alone DEF Tagged, Thread, Mind
  <2>3. CASE v = t
    <3>1. <<u, s>> \in Mind(t) \/ (Thread(t) \in Threads /\ <<u, s>> \in Memory(Thread(t))) \/ Told(t, <<u, s>>)
      BY <1>7, <2>3, Learning
    <3>2. Thread(u) = Thread(t)
      BY <3>1, <1>2 DEF Tagged
    <3>3. pc[t] # "new"
      BY <3>1, <1>2, NoneIsNew DEF Typed, Named, Thread, Mind, Runs
    <3>. QED BY <2>1, <2>3, <3>2, <3>3, Alone DEF Thread
  <2>. QED BY <2>2, <2>3
<1>. QED BY <1>6, <1>7

\* The turns that do not move keep what they had.
LEMMA OthersShown ==
  ASSUME ShownInv, NEW t \in Turns, TurnStep(t), NEW u \in Turns, u # t
  PROVE  Placed(u)' /\ AskedShown(u)' /\ AnswerShown(u)'
<1>. USE DEF ShownInv
<1>1. /\ pc'[u] = pc[u] /\ req'[u] = req[u] /\ said'[u] = said[u] /\ Thread(u)' = Thread(u)
      /\ broken \subseteq broken' /\ haunted \subseteq haunted'
  BY Alone DEF Thread
<1>2. ASSUME NEW s \in Sorts, Known(<<u, s>>)' PROVE Known(<<u, s>>) /\ Thread(u) \in Threads
  <2>1. ~Told(t, <<u, s>>)
    BY DEF Told
  <2>. QED BY <1>2, <2>1, KnownGrows, NewUnknown DEF Typed, Named, Thread
<1>3. pc[u] = "run" => Thread(u) \in Threads
  BY DEF Typed, Named, Thread
<1>4. Thread(u) \in Threads => rows[Thread(u)] \subseteq rows'[Thread(u)]
  BY RowsGrow
<1>5. AskedShown(u)'
  BY <1>1, <1>2, <1>3, <1>4 DEF AskedShown, Healthy, Shown, Sorts
<1>6. AnswerShown(u)'
  BY <1>1, <1>2, <1>4 DEF AnswerShown, Healthy, Shown, Sorts
<1>7. Placed(u)'
  BY <1>1 DEF Placed
<1>. QED BY <1>5, <1>6, <1>7

\* The turn that moves.
LEMMA MoverPlaced ==
  ASSUME ShownInv, NEW t \in Turns, TurnStep(t)
  PROVE  Placed(t)'
<1>. USE DEF ShownInv
<1>c. Placed(t)
  OBVIOUS
<1>1. CASE Create(t)
  BY <1>1, <1>c DEF Typed, TypeOK, Named, Placed, Create, First, Swallow, GoesOn, To, Thread, Runs, vars, database, locals
<1>2. CASE LookImage(t)
  BY <1>2, <1>c DEF Typed, TypeOK, Named, Placed, LookImage, To, Thread, Runs, vars, database, locals
<1>3. CASE Analyse(t)
  BY <1>3, <1>c DEF Typed, TypeOK, Named, Placed, Analyse, To, Thread, Runs, vars, database, locals
<1>4. CASE Ingest(t)
  BY <1>4, <1>c DEF Typed, TypeOK, Named, Placed, Ingest, To, Thread, Runs, vars, database, locals
<1>5. CASE Reject(t)
  BY <1>5, <1>c, CloseKeeps DEF Typed, TypeOK, Named, Placed, Reject, To, Thread, Runs, vars, database, locals
<1>6. CASE TellFile(t)
  BY <1>6, <1>c DEF Typed, TypeOK, Named, Placed, TellFile, UpdateState, Save, To, Thread, Runs, vars, database, locals
<1>7. CASE EventRow(t)
  BY <1>7, <1>c DEF Typed, TypeOK, Named, Placed, EventRow, AddRow, AfterFile, To, Thread, Runs, vars, database, locals
<1>8. CASE Offer(t)
  BY <1>8, <1>c DEF Typed, TypeOK, Named, Placed, Offer, To, Thread, Runs, vars, database, locals
<1>9. CASE OfferState(t)
  BY <1>9, <1>c DEF Typed, TypeOK, Named, Placed, OfferState, UpdateState, Save, To, Thread, Runs, vars, database, locals
<1>10. CASE Say(t)
  BY <1>10, <1>c DEF Typed, TypeOK, Named, Placed, Say, AddRow, To, Thread, Runs, vars, database, locals
<1>11. CASE Run(t)
  BY <1>11, <1>c DEF Typed, TypeOK, Named, Placed, Run, Save, To, Thread, Runs, vars, database, locals
<1>12. CASE Summarize(t)
  BY <1>12, <1>c DEF Typed, TypeOK, Named, Placed, Summarize, Folded, Save, To, Thread, Runs, vars, database, locals
<1>13. CASE Step(t)
  BY <1>13, <1>c DEF Typed, TypeOK, Named, Placed, Step, Save, To, Thread, Runs, vars, database, locals
<1>14. CASE NotInitialized(t)
  BY <1>14, <1>c DEF Typed, TypeOK, Named, Placed, NotInitialized, To, Thread, Runs, vars, database, locals
<1>15. CASE Row(t)
  BY <1>15, <1>c, CloseKeeps DEF Typed, TypeOK, Named, Placed, Row, AddRow, Accumulated, To, Thread, Runs, vars, database, locals
<1>16. CASE Check(t)
  BY <1>16, <1>c DEF Typed, TypeOK, Named, Placed, Check, To, Thread, Runs, vars, database, locals
<1>17. CASE RunResumed(t)
  BY <1>17, <1>c DEF Typed, TypeOK, Named, Placed, RunResumed, To, Thread, Runs, vars, database, locals
<1>18. CASE Die(t)
  BY <1>18, <1>c, CloseKeeps DEF Typed, TypeOK, Named, Placed, Die, To, Thread, Runs, vars, database, locals
<1>19. CASE \E th \in Threads, file \in {None, "image", "doc"}, message \in BOOLEAN : Stream(t, th, file, message)
  BY <1>19, <1>c DEF Typed, TypeOK, Named, Placed, Stream, First, Swallow, GoesOn, To, Thread, Runs, vars, database, locals
<1>20. CASE \E th \in Threads, id \in Ids : Resume(t, th, id)
  <2>1. req'[t].kind = "resume" /\ pc'[t] # "offer state"
    BY <1>20 DEF Typed, TypeOK, Resume, To
  <2>. QED BY <2>1 DEF Placed
<1>21. CASE \E chunk \in Chunks : Answer(t, chunk)
  BY <1>21, <1>c DEF Typed, TypeOK, Named, Placed, Chunks, Answer, Stop, Save, To, Thread, Runs, vars, database, locals
<1>22. CASE \E chunk \in Chunks : Apologize(t, chunk)
  BY <1>22, <1>c DEF Typed, TypeOK, Named, Placed, Chunks, Apologize, Stop, Save, To, Thread, Runs, vars, database, locals
<1>23. CASE \E chunk \in Chunks : RunFails(t, chunk)
  BY <1>23, <1>c DEF Typed, TypeOK, Named, Placed, Chunks, RunFails, Stop, To, Thread, Runs, vars, database, locals
<1>24. CASE \E chunk \in Chunks, id \in Ids : Interrupt(t, chunk, id)
  BY <1>24, <1>c DEF Typed, TypeOK, Named, Placed, Chunks, Interrupt, Stop, Save, To, Thread, Runs, vars, database, locals
<1>. QED BY <1>1, <1>2, <1>3, <1>4, <1>5, <1>6, <1>7, <1>8, <1>9, <1>10, <1>11, <1>12, <1>13, <1>14, <1>15, <1>16, <1>17, <1>18, <1>19, <1>20, <1>21, <1>22, <1>23, <1>24 DEF TurnStep

LEMMA MoverAsked ==
  ASSUME ShownInv, NEW t \in Turns, TurnStep(t)
  PROVE  AskedShown(t)'
<1>. USE DEF ShownInv
<1>a. /\ Known(<<t, "human">>)' => Known(<<t, "human">>) \/ Told(t, <<t, "human">>)
      /\ Known(<<t, "text">>)' => Known(<<t, "text">>) \/ Told(t, <<t, "text">>)
      /\ Known(<<t, "parts">>)' => Known(<<t, "parts">>) \/ Told(t, <<t, "parts">>)
  BY KnownGrows
<1>b. pc[t] = "new" => ~Known(<<t, "human">>) /\ ~Known(<<t, "text">>) /\ ~Known(<<t, "parts">>)
  BY NewUnknown DEF Sorts
<1>c. /\ Placed(t) /\ AskedShown(t) /\ AnswerShown(t)
      /\ pc[t] # "new" =>
            Thread(t) \in Threads /\ Thread(t)' = Thread(t) /\ req'[t].kind = req[t].kind
      /\ \A th \in Threads : rows[th] \subseteq rows'[th]
      /\ broken \subseteq broken' /\ haunted \subseteq haunted'
  BY Alone, RowsGrow DEF Typed, Named, Thread
<1>1. CASE Create(t)
  BY <1>1, <1>a, <1>b, <1>c DEF Told, Typed, TypeOK, Named, AskedShown, Healthy, Shown, Create, First, Swallow, GoesOn, To, Thread, Runs, vars, database, locals
<1>2. CASE LookImage(t)
  BY <1>2, <1>a, <1>b, <1>c DEF Told, Typed, TypeOK, Named, AskedShown, Healthy, Shown, LookImage, To, Thread, Runs, vars, database, locals
<1>3. CASE Analyse(t)
  BY <1>3, <1>a, <1>b, <1>c DEF Told, Typed, TypeOK, Named, AskedShown, Healthy, Shown, Analyse, To, Thread, Runs, vars, database, locals
<1>4. CASE Ingest(t)
  BY <1>4, <1>a, <1>b, <1>c DEF Told, Typed, TypeOK, Named, AskedShown, Healthy, Shown, Ingest, To, Thread, Runs, vars, database, locals
<1>5. CASE Reject(t)
  BY <1>5, <1>a, <1>b, <1>c, CloseKeeps DEF Told, Typed, TypeOK, Named, AskedShown, Healthy, Shown, Reject, To, Thread, Runs, vars, database, locals
<1>6. CASE TellFile(t)
  BY <1>6, <1>a, <1>b, <1>c DEF Told, Typed, TypeOK, Named, AskedShown, Healthy, Shown, TellFile, UpdateState, Save, To, Thread, Runs, vars, database, locals
<1>7. CASE EventRow(t)
  BY <1>7, <1>a, <1>b, <1>c DEF Told, Typed, TypeOK, Named, AskedShown, Healthy, Shown, EventRow, AddRow, AfterFile, To, Thread, Runs, vars, database, locals
<1>8. CASE Offer(t)
  BY <1>8, <1>a, <1>b, <1>c DEF Told, Typed, TypeOK, Named, AskedShown, Healthy, Shown, Offer, To, Thread, Runs, vars, database, locals
<1>9. CASE OfferState(t)
  BY <1>9, <1>a, <1>b, <1>c DEF Told, Typed, TypeOK, Named, AskedShown, Healthy, Shown, OfferState, UpdateState, Save, To, Thread, Runs, vars, database, locals
<1>10. CASE Say(t)
  BY <1>10, <1>a, <1>b, <1>c DEF Told, Typed, TypeOK, Named, AskedShown, Healthy, Shown, Say, AddRow, To, Thread, Runs, vars, database, locals
<1>11. CASE Run(t)
  BY <1>11, <1>a, <1>b, <1>c DEF Told, Typed, TypeOK, Named, AskedShown, Healthy, Shown, Run, Save, To, Thread, Runs, vars, database, locals
<1>12. CASE Summarize(t)
  BY <1>12, <1>a, <1>b, <1>c DEF Told, Typed, TypeOK, Named, AskedShown, Healthy, Shown, Summarize, Folded, Save, To, Thread, Runs, vars, database, locals
<1>13. CASE Step(t)
  BY <1>13, <1>a, <1>b, <1>c DEF Told, Typed, TypeOK, Named, AskedShown, Healthy, Shown, Step, Save, To, Thread, Runs, vars, database, locals
<1>14. CASE NotInitialized(t)
  BY <1>14, <1>a, <1>b, <1>c DEF Told, Typed, TypeOK, Named, AskedShown, Healthy, Shown, NotInitialized, To, Thread, Runs, vars, database, locals
<1>15. CASE Row(t)
  BY <1>15, <1>a, <1>b, <1>c, CloseKeeps DEF Told, Typed, TypeOK, Named, AskedShown, Healthy, Shown, Row, AddRow, Accumulated, To, Thread, Runs, vars, database, locals
<1>16. CASE Check(t)
  BY <1>16, <1>a, <1>c DEF Placed, Told, AskedShown, Healthy, Shown, Check, database, locals
<1>17. CASE RunResumed(t)
  BY <1>17, <1>a, <1>b, <1>c DEF Told, Typed, TypeOK, Named, AskedShown, Healthy, Shown, RunResumed, To, Thread, Runs, vars, database, locals
<1>18. CASE Die(t)
  BY <1>18, <1>a, <1>b, <1>c, CloseKeeps DEF Told, Typed, TypeOK, Named, AskedShown, Healthy, Shown, Die, To, Thread, Runs, vars, database, locals
<1>19. CASE \E th \in Threads, file \in {None, "image", "doc"}, message \in BOOLEAN : Stream(t, th, file, message)
  BY <1>19, <1>a, <1>b, <1>c DEF Told, Typed, TypeOK, Named, AskedShown, Healthy, Shown, Stream, First, Swallow, GoesOn, To, Thread, Runs, vars, database, locals
<1>20. CASE \E th \in Threads, id \in Ids : Resume(t, th, id)
  BY <1>20, <1>a, <1>b, <1>c DEF Told, Typed, TypeOK, Named, AskedShown, Healthy, Shown, Resume, To, Thread, Runs, vars, database, locals
<1>21. CASE \E chunk \in Chunks : Answer(t, chunk)
  BY <1>21, <1>a, <1>b, <1>c DEF Told, Typed, TypeOK, Named, AskedShown, Healthy, Shown, Chunks, Answer, Stop, Save, To, Thread, Runs, vars, database, locals
<1>22. CASE \E chunk \in Chunks : Apologize(t, chunk)
  BY <1>22, <1>a, <1>b, <1>c DEF Told, Typed, TypeOK, Named, AskedShown, Healthy, Shown, Chunks, Apologize, Stop, Save, To, Thread, Runs, vars, database, locals
<1>23. CASE \E chunk \in Chunks : RunFails(t, chunk)
  BY <1>23, <1>a, <1>b, <1>c DEF Told, Typed, TypeOK, Named, AskedShown, Healthy, Shown, Chunks, RunFails, Stop, To, Thread, Runs, vars, database, locals
<1>24. CASE \E chunk \in Chunks, id \in Ids : Interrupt(t, chunk, id)
  BY <1>24, <1>a, <1>b, <1>c DEF Told, Typed, TypeOK, Named, AskedShown, Healthy, Shown, Chunks, Interrupt, Stop, Save, To, Thread, Runs, vars, database, locals
<1>. QED BY <1>1, <1>2, <1>3, <1>4, <1>5, <1>6, <1>7, <1>8, <1>9, <1>10, <1>11, <1>12, <1>13, <1>14, <1>15, <1>16, <1>17, <1>18, <1>19, <1>20, <1>21, <1>22, <1>23, <1>24 DEF TurnStep

LEMMA MoverAnswered ==
  ASSUME ShownInv, NEW t \in Turns, TurnStep(t)
  PROVE  AnswerShown(t)'
<1>. USE DEF ShownInv
<1>a. /\ Known(<<t, "human">>)' => Known(<<t, "human">>) \/ Told(t, <<t, "human">>)
      /\ Known(<<t, "text">>)' => Known(<<t, "text">>) \/ Told(t, <<t, "text">>)
      /\ Known(<<t, "parts">>)' => Known(<<t, "parts">>) \/ Told(t, <<t, "parts">>)
  BY KnownGrows
<1>b. pc[t] = "new" => ~Known(<<t, "human">>) /\ ~Known(<<t, "text">>) /\ ~Known(<<t, "parts">>)
  BY NewUnknown DEF Sorts
<1>c. /\ Placed(t) /\ AskedShown(t) /\ AnswerShown(t)
      /\ pc[t] # "new" =>
            Thread(t) \in Threads /\ Thread(t)' = Thread(t) /\ req'[t].kind = req[t].kind
      /\ \A th \in Threads : rows[th] \subseteq rows'[th]
      /\ broken \subseteq broken' /\ haunted \subseteq haunted'
  BY Alone, RowsGrow DEF Typed, Named, Thread
<1>1. CASE Create(t)
  BY <1>1, <1>a, <1>b, <1>c DEF Told, Typed, TypeOK, Named, AnswerShown, Healthy, Shown, Placed, Create, First, Swallow, GoesOn, To, Thread, Runs, vars, database, locals
<1>2. CASE LookImage(t)
  BY <1>2, <1>a, <1>b, <1>c DEF Told, Typed, TypeOK, Named, AnswerShown, Healthy, Shown, Placed, LookImage, To, Thread, Runs, vars, database, locals
<1>3. CASE Analyse(t)
  BY <1>3, <1>a, <1>b, <1>c DEF Told, Typed, TypeOK, Named, AnswerShown, Healthy, Shown, Placed, Analyse, To, Thread, Runs, vars, database, locals
<1>4. CASE Ingest(t)
  BY <1>4, <1>a, <1>b, <1>c DEF Told, Typed, TypeOK, Named, AnswerShown, Healthy, Shown, Placed, Ingest, To, Thread, Runs, vars, database, locals
<1>5. CASE Reject(t)
  BY <1>5, <1>a, <1>b, <1>c, CloseKeeps DEF Told, Typed, TypeOK, Named, AnswerShown, Healthy, Shown, Placed, Reject, To, Thread, Runs, vars, database, locals
<1>6. CASE TellFile(t)
  BY <1>6, <1>a, <1>b, <1>c DEF Told, Typed, TypeOK, Named, AnswerShown, Healthy, Shown, Placed, TellFile, UpdateState, Save, To, Thread, Runs, vars, database, locals
<1>7. CASE EventRow(t)
  BY <1>7, <1>a, <1>b, <1>c DEF Told, Typed, TypeOK, Named, AnswerShown, Healthy, Shown, Placed, EventRow, AddRow, AfterFile, To, Thread, Runs, vars, database, locals
<1>8. CASE Offer(t)
  BY <1>8, <1>a, <1>b, <1>c DEF Told, Typed, TypeOK, Named, AnswerShown, Healthy, Shown, Placed, Offer, To, Thread, Runs, vars, database, locals
<1>9. CASE OfferState(t)
  BY <1>9, <1>a, <1>b, <1>c DEF Told, Typed, TypeOK, Named, AnswerShown, Healthy, Shown, Placed, OfferState, UpdateState, Save, To, Thread, Runs, vars, database, locals
<1>10. CASE Say(t)
  BY <1>10, <1>a, <1>b, <1>c DEF Told, Typed, TypeOK, Named, AnswerShown, Healthy, Shown, Placed, Say, AddRow, To, Thread, Runs, vars, database, locals
<1>11. CASE Run(t)
  BY <1>11, <1>a, <1>b, <1>c DEF Told, Typed, TypeOK, Named, AnswerShown, Healthy, Shown, Placed, Run, Save, To, Thread, Runs, vars, database, locals
<1>12. CASE Summarize(t)
  BY <1>12, <1>a, <1>b, <1>c DEF Told, Typed, TypeOK, Named, AnswerShown, Healthy, Shown, Placed, Summarize, Folded, Save, To, Thread, Runs, vars, database, locals
<1>13. CASE Step(t)
  <2>1. pc[t] = "running" /\ pc'[t] = "running"
    BY <1>13 DEF Step
  <2>2. ~Known(<<t, "text">>) /\ ~Known(<<t, "parts">>)
    BY <2>1, <1>c DEF AnswerShown
  <2>. QED BY <2>1, <2>2, <1>a DEF Told, AnswerShown
<1>14. CASE NotInitialized(t)
  BY <1>14, <1>a, <1>b, <1>c DEF Told, Typed, TypeOK, Named, AnswerShown, Healthy, Shown, Placed, NotInitialized, To, Thread, Runs, vars, database, locals
<1>15. CASE Row(t)
  <2>1. pc[t] = "row" /\ pc'[t] = "answered"
    BY <1>15 DEF Typed, TypeOK, Row, To
  <2>2. /\ Known(<<t, "text">>)' => Known(<<t, "text">>)
        /\ Known(<<t, "parts">>)' => Known(<<t, "parts">>)
    BY <2>1, <1>a DEF Told
  <2>3. ASSUME Healthy(t)', Known(<<t, "text">>)' \/ (Known(<<t, "parts">>)' /\ req'[t].kind = "stream")
        PROVE  Shown(t, "assistant")'
    <3>1. Accumulated(t)
      BY <2>1, <2>2, <2>3, <1>c DEF AnswerShown, Accumulated
    <3>2. AddRow(t, "assistant") /\ t \notin broken'
      BY <1>15, <2>3, <3>1 DEF Row, Healthy
    <3>3. rows' = [rows EXCEPT ![Thread(t)] = @ \union {<<t, "assistant">>}]
      BY <3>2 DEF AddRow
    <3>. QED BY <2>1, <3>3, <1>c DEF Shown, Typed, TypeOK
  <2>. QED BY <2>1, <2>3 DEF AnswerShown
<1>16. CASE Check(t)
  BY <1>16, <1>a, <1>b, <1>c DEF Told, Typed, TypeOK, Named, AnswerShown, Healthy, Shown, Placed, Check, To, Thread, Runs, vars, database, locals
<1>17. CASE RunResumed(t)
  BY <1>17, <1>a, <1>b, <1>c DEF Told, Typed, TypeOK, Named, AnswerShown, Healthy, Shown, Placed, RunResumed, To, Thread, Runs, vars, database, locals
<1>18. CASE Die(t)
  <2>1. pc'[t] = "ended"
    BY <1>18 DEF Typed, TypeOK, Die, To
  <2>. QED BY <2>1 DEF AnswerShown
<1>19. CASE \E th \in Threads, file \in {None, "image", "doc"}, message \in BOOLEAN : Stream(t, th, file, message)
  BY <1>19, <1>a, <1>b, <1>c DEF Told, Typed, TypeOK, Named, AnswerShown, Healthy, Shown, Placed, Stream, First, Swallow, GoesOn, To, Thread, Runs, vars, database, locals
<1>20. CASE \E th \in Threads, id \in Ids : Resume(t, th, id)
  BY <1>20, <1>a, <1>b, <1>c DEF Told, Typed, TypeOK, Named, AnswerShown, Healthy, Shown, Placed, Resume, To, Thread, Runs, vars, database, locals
<1>21. CASE \E chunk \in Chunks : Answer(t, chunk)
  <2>1. pc[t] = "running" /\ pc'[t] = "row"
    BY <1>21 DEF Typed, TypeOK, Answer, Stop, To
  <2>2. ~Known(<<t, "text">>) /\ ~Known(<<t, "parts">>)
    BY <2>1, <1>c DEF AnswerShown
  <2>. QED BY <2>1, <2>2, <1>a DEF Told, AnswerShown
<1>22. CASE \E chunk \in Chunks : Apologize(t, chunk)
  <2>1. pc[t] = "running" /\ pc'[t] = "row"
    BY <1>22 DEF Typed, TypeOK, Apologize, Stop, To
  <2>2. ~Known(<<t, "text">>) /\ ~Known(<<t, "parts">>)
    BY <2>1, <1>c DEF AnswerShown
  <2>. QED BY <2>1, <2>2, <1>a DEF Told, AnswerShown
<1>23. CASE \E chunk \in Chunks : RunFails(t, chunk)
  BY <1>23, <1>a, <1>b, <1>c DEF Told, Typed, TypeOK, Named, AnswerShown, Healthy, Shown, Placed, Chunks, RunFails, Stop, To, Thread, Runs, vars, database, locals
<1>24. CASE \E chunk \in Chunks, id \in Ids : Interrupt(t, chunk, id)
  <2>1. pc[t] = "running" /\ pc'[t] = "row"
    BY <1>24 DEF Typed, TypeOK, Interrupt, Stop, To
  <2>2. ~Known(<<t, "text">>) /\ ~Known(<<t, "parts">>)
    BY <2>1, <1>c DEF AnswerShown
  <2>. QED BY <2>1, <2>2, <1>a DEF Told, AnswerShown
<1>. QED BY <1>1, <1>2, <1>3, <1>4, <1>5, <1>6, <1>7, <1>8, <1>9, <1>10, <1>11, <1>12, <1>13, <1>14, <1>15, <1>16, <1>17, <1>18, <1>19, <1>20, <1>21, <1>22, <1>23, <1>24 DEF TurnStep

LEMMA DeleteShown ==
  ASSUME ShownInv, NEW th \in Threads, Delete(th)
  PROVE  Tagged' /\ \A t \in Turns : Placed(t)' /\ AskedShown(t)' /\ AnswerShown(t)'
<1>. USE DEF ShownInv
<1>1. /\ pc' = pc /\ req' = req /\ mine' = mine /\ recap' = recap /\ said' = said /\ broken' = broken
      /\ \A a \in Threads \ {th} : Memory(a)' = Memory(a) /\ rows'[a] = rows[a]
      /\ Memory(th)' = {}
      /\ \A a \in Threads \ {th} : a \in haunted' <=> a \in haunted
      /\ Busy(th) # {} => th \in haunted'
  BY DEF Typed, TypeOK, Delete, Memory, locals
<1>0. \A u \in Turns : Mind(u)' = Mind(u) /\ Thread(u)' = Thread(u)
  BY <1>1 DEF Mind, Thread
<1>2. Tagged'
  BY <1>0, <1>1 DEF Tagged
<1>3. ASSUME NEW t \in Turns PROVE Placed(t)' /\ AskedShown(t)' /\ AnswerShown(t)'
  <2>1. Thread(t)' = Thread(t)
    BY <1>0
  <2>2. \A m : Known(m)' => Known(m)
    BY <1>0, <1>1 DEF Known
  <2>3. Known(<<t, "human">>) \/ Known(<<t, "text">>) \/ Known(<<t, "parts">>) \/ pc[t] = "run"
           => Thread(t) \in Threads
    BY NewUnknown DEF Sorts, Typed, Named, Thread
  <2>4. CASE Thread(t) # th
    <3>1. Thread(t) \in Threads => Healthy(t)' = Healthy(t) /\ rows'[Thread(t)] = rows[Thread(t)]
      BY <1>1, <2>1, <2>4 DEF Healthy
    <3>. QED BY <1>1, <2>1, <2>2, <2>3, <3>1 DEF Placed, AskedShown, AnswerShown, Shown
  <2>5. CASE Thread(t) = th /\ Busy(th) # {}
    BY <1>1, <2>1, <2>2, <2>5 DEF Placed, AskedShown, AnswerShown, Healthy
  <2>6. CASE Thread(t) = th /\ Busy(th) = {}
    <3>1. \A u \in Turns : Thread(u) = th => Mind(u) = {}
      BY <2>6 DEF Busy, Typed, Named, Mind, Runs
    <3>2. \A s \in Sorts : ~Known(<<t, s>>)'
      <4>1. ASSUME NEW s \in Sorts, NEW a \in Threads, <<t, s>> \in Memory(a)' PROVE FALSE
        BY <4>1, <1>1, <1>2, <2>1, <2>6 DEF Tagged
      <4>2. ASSUME NEW s \in Sorts, NEW u \in Turns, <<t, s>> \in Mind(u)' PROVE FALSE
        BY <4>2, <1>0, <2>6, <3>1 DEF Tagged
      <4>. QED BY <4>1, <4>2 DEF Known
    <3>3. pc[t] # "run"
      BY <2>6 DEF Busy
    <3>. QED BY <1>1, <3>2, <3>3 DEF Placed, AskedShown, AnswerShown, Sorts
  <2>. QED BY <2>4, <2>5, <2>6
<1>. QED BY <1>2, <1>3

LEMMA ShownStep ==
  ASSUME ShownInv, [Next]_vars
  PROVE  ShownInv'
<1>0. Typed'
  BY TypedStep DEF ShownInv
<1>. SUFFICES Tagged' /\ \A t \in Turns : Placed(t)' /\ AskedShown(t)' /\ AnswerShown(t)'
  BY <1>0 DEF ShownInv
<1>1. ASSUME NEW t \in Turns, TurnStep(t)
      PROVE  Tagged' /\ \A u \in Turns : Placed(u)' /\ AskedShown(u)' /\ AnswerShown(u)'
  BY <1>1, TaggedStep, OthersShown, MoverPlaced, MoverAsked, MoverAnswered DEF ShownInv
<1>2. ASSUME NEW th \in Threads, Delete(th)
      PROVE  Tagged' /\ \A u \in Turns : Placed(u)' /\ AskedShown(u)' /\ AnswerShown(u)'
  BY <1>2, DeleteShown
<1>3. CASE UNCHANGED <<rows, ckpt, summary, pc, locals, broken, haunted>>
  <2>0. /\ \A th : Memory(th)' = Memory(th)
        /\ \A u : Mind(u)' = Mind(u) /\ Thread(u)' = Thread(u)
    BY <1>3 DEF Memory, Mind, Thread, locals
  <2>1. Tagged'
    BY <2>0 DEF ShownInv, Tagged
  <2>2. ASSUME NEW t \in Turns PROVE Placed(t)' /\ AskedShown(t)' /\ AnswerShown(t)'
    <3>1. \A m : Known(m)' <=> Known(m)
      BY <2>0 DEF Known
    <3>. QED BY <1>3, <2>0, <3>1 DEF ShownInv, Placed, AskedShown, AnswerShown, Healthy, Shown, locals
  <2>. QED BY <2>1, <2>2
<1>4. (\E th \in Threads : NewChat(th)) \/ ImageExpires \/ UNCHANGED vars
        => UNCHANGED <<rows, ckpt, summary, pc, locals, broken, haunted>>
  BY DEF NewChat, ImageExpires, vars, database
<1>. QED BY <1>1, <1>2, <1>3, <1>4, NextSteps

-----------------------------------------------------------------------------
(* The theorems                                                             *)

\* The state is typed in every behaviour.
THEOREM TypeCorrect == Spec => []TypeOK
<1>1. Typed => TypeOK
  BY DEF Typed
<1>. QED BY <1>1, TypedInit, TypedStep, PTL DEF Spec

\* What the agent remembers is shown to the user, whoever dies wherever
\* (chat_router.py 257-265, 307-324): a message is in a checkpoint or a summary only if its
\* row was committed, an answer of a turn that went to its end only if its row is there.
THEOREM Remembered == Spec => []RememberedIsShown
<1>1. ShownInv => RememberedIsShown
  <2>. SUFFICES ASSUME ShownInv, NEW th \in Threads \ haunted, NEW t \in Turns \ broken
                PROVE  /\ <<t, "human">> \in Memory(th) => <<t, "user">> \in rows[th]
                       /\ /\ pc[t] = "answered"
                          /\ \/ <<t, "text">> \in Memory(th)
                             \/ <<t, "parts">> \in Memory(th) /\ req[t].kind = "stream"
                          => <<t, "assistant">> \in rows[th]
    BY DEF RememberedIsShown
  <2>1. \A s \in Sorts : <<t, s>> \in Memory(th) => Known(<<t, s>>) /\ Thread(t) = th
    BY DEF ShownInv, Tagged, Known
  <2>. QED BY <2>1 DEF ShownInv, AskedShown, AnswerShown, Healthy, Shown, Sorts
<1>. QED BY <1>1, ShownInit, ShownStep, PTL DEF Spec

\* A conversation that does not exist has no rows, and no checkpoint or summary unless a
\* request was at work on it while it did not (conversations.py 176-188).
THEOREM Gone == Spec => []DeletedIsGone
<1>1. GoneInv => DeletedIsGone
  BY DEF GoneInv
<1>. QED BY <1>1, GoneInit, GoneStep, PTL DEF Spec

\* An answer meets its own interrupt, unless others wrote the thread between the check and
\* the run (chat_router.py 385-403).
THEOREM Answers == Spec => []AnswersItsQuestion
<1>1. QuestionInv => AnswersItsQuestion
  BY DEF QuestionInv
<1>. QED BY <1>1, QuestionInit, QuestionStep, PTL DEF Spec

\* What the agent knows of a thread, in full or in summary, is lost only by a deletion, by a
\* run that saves over the writes of others (graph.py 1003, 1152), or by being summarized
\* when its content is no string (graph.py 857-900).
THEOREM MemoryKept == Spec => MemoryGrows
<1>1. FreshInv /\ [Next]_vars => [\A th \in Threads : Keeps(th)]_vars
  BY MemoryStep
<1>2. Spec => [][\A th \in Threads : Keeps(th)]_vars
  BY <1>1, FreshInit, FreshStep, PTL DEF Spec
<1>. QED BY <1>2 DEF MemoryGrows, Keeps

=============================================================================
