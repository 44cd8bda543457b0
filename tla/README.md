# Orphic: a TLA+ verification of the agent backend

Orphic is a FastAPI application in which a LangGraph agent works for a user with
the tools of OAuth providers (Gmail, Notion, ...), of the user's own MCP servers, and
of its own. Its state lives in Postgres, in Redis and in LangGraph's checkpoints; its
code is asynchronous, runs in several Gunicorn workers, and waits at every access
to any of them. What is hard about it is not the length of its functions but
what may happen between two of their lines.

This directory holds TLA+ modules translated from that code, configurations with
which TLC checks them, and proofs for TLAPS. `PROJECT.json` maps each definition to the
lines it models and lists runs, findings, hazards and theorems. Paths below are relative
to `src/`.

## 1. Inventory

| Component | State | Operations | Meets |
|---|---|---|---|
| Tool rate limiter, Layer 1 (`services/rate_limiter.py` 1-304) | two Redis sorted sets per user and provider, with expiry | `check_and_increment`, `get_usage`, `reset` | called by `tool_node`, once per provider and pass |
| Chat rate limiter, Layer 2 (`services/rate_limiter.py` 311-562) | request sets and token counters per user | `check_chat_rate`, `log_token_usage`, `get_chat_usage`, `reset_chat_limits` | called by `chat_stream` before and after a turn |
| Tool node (`orchestrators/graph.py` 415-721) | locals of a pass; the answers LangGraph stores | Phase 1: confirm, resolve tokens, rate limits; Phase 2: execute; Phase 2.5: re-authenticate | limiter, connections, `interrupt()`, `POST /chat/resume` |
| Chat and resume (`api/chat_router.py`, `orchestrators/graph.py` 978-1164) | rows of messages; the checkpoint of a thread, written by LangGraph | `chat_stream`, `resume_chat`, `update_agent_state` | graph, limiter, conversations, uploads |
| Connections (`services/connections/oauth_engine.py`, `services/cache.py`, `api/connections_router.py`, `utils/agent_helpers.py`) | `user_connections` row, `token:` and `user_conns:` caches, `refresh_lock:` | connect, API key, disconnect, test, `resolve_token`, `refresh_if_expired` | tool node, agent node, provider |
| OAuth flow (same files) | `oauth_state:` and PKCE verifier in Redis | start, callback | ends in a connect |
| Message history (`orchestrators/graph.py` 141-223, 391-412, 728-900) | `messages` and `summary` of a thread | summarize, sanitize, route, append | tool nodes, LLM |
| Graph construction, streaming (`orchestrators/graph.py` 909-1131) | `compiled_graph`, a lock | `initialize_graph`, `stream_response`, `resume_response` | LangGraph |
| User MCP configuration (`services/mcp_config_service.py`, `api/mcp_config_router.py`, `protocols/mcp/user_mcp_tool_node.py`) | row, three keys in Redis, points in Qdrant | save, delete, test, reload, execute | vector index, agent node |
| Search tools (`tools/search_tools.py`, `services/vector_tool_retriever.py`) | names found for a thread, in the process; index of tools on the disk, locked by one process | search, resolve by name, index | agent node |
| Conversations (`api/conversations.py`) | rows, the checkpoint tables | create, list, rename, delete | chat endpoints |
| Documents, vision (`document_parser/`, `modalities/`) | vector tables | upload, ask | custom tools |
| Long-term memory (`memory/`) | vector store, `memory:` cache | extract after a turn, retrieve | agent node |
| Workflow agent (`agents/`, `tools/workflow_agent_tools.py`) | a lazily built agent | run, with interrupts | n8n tool |
| Remote MCP execution (`protocols/mcp/remote_*`, `native_*`) | none | one HTTP session per call | tool node |
| Authentication, application, schema, migrations, prompts, scripts, unused predecessors | - | - | - |

What is hard in each, and what makes it correct:

* **Tool limiter.** Counting and recording are separate transactions; a transaction may
  run twice; a retry hint is computed from a later read. *Correct:* the limit is exceeded
  by a known amount only; no recent call is forgotten; the retry hint is honest.
* **Tool node.** `interrupt()` runs the node again from its first line and matches answers
  by position; runs die; connections change while a thread is paused. *Correct:*
  nothing destructive runs without its own approval; nothing runs before the whole
  batch is validated; what is returned answers the calls.
* **Connections.** Check-then-act on row, caches and lock, across workers. *Correct:*
  refreshes exclude each other and a row never goes back to an older token, unless a lock runs out on its holder; what was
  removed stays removed; caches come to agree with the row.
* **History.** Batches may be answered in part, turns abandoned, and the past cut off.
  *Correct:* the LLM gets what its API accepts and, of the current turn, everything.
* **OAuth flow.** Two keys, two commands, two callbacks. *Correct:* a state is used once, for its user.
* **Chat limiter.** Limits are checked before and charged after a turn of minutes, hours and dates are
  part of the keys. *Correct:* parallel turns exceed a limit by a known amount only; nothing recent is
  forgotten; a refusal says how long it lasts.
* **Chat turn.** A message is a row of the database and an entry of the checkpoint, written one after the other
  by requests that may die, run in parallel, or have their conversation deleted. *Correct:* the two stores
  agree; what is deleted stays deleted; an answer goes to the question that was asked.
* **MCP configuration.** Row, three keys without TTL and index are written one after another. *Correct:* a key
  that differs from the row is somebody's to repair; an index that is skipped as current is current.
* **Search tools.** An index on the disk, written lazily and judged by its size; results in the memory of one of two
  processes. *Correct:* every tool can be found, every provider has its place, and what the model was told to call
  is bound.

## 2. Modules

| Module | Models | State and actions |
|---|---|---|
| `ToolRateLimiter` | Layer 1, one (user, provider) | the two sets with scores and expiry; a caller's `pc`; one action per transaction: `Call`, `CheckMinute`, `CheckHour`, `DenyMinute`, `DenyHour`, `Record`, `Return`, `Fail`, `CallUsage`, `GetUsage`, `Reset`, `Tick` |
| `ChatLimiter` | Layer 2, one user | the hourly set, the sets and counters by date and hour; `Call`, `ReadRequests`, `ReadTokens`, `Admit`, `Deny`, `Refuse`, `Finish`, `End`, `Log`, `Fail`, `CallUsage`, `GetUsage`, `Reset`, `Tick` |
| `ToolNode` | one AI message's batch through `tool_node` | the locals of the pass, the stored answers, the pending interrupt, what is connected; one action per branch of Phase 1, 2 and 2.5, `Resume` (`POST /chat/resume`), `Abort`, `CrashReported`, `NewMessage`, `Connect`, `Disconnect` |
| `Connections` | one (user, provider) | row, both caches, lock, the provider's side; workers in `resolve_token` or the test endpoint, requests (connect, key, disconnect, Phase 2.5 cleanup), agents reading the list; one action per await |
| `OAuthFlow` | authorizations of all users and providers | the two keys, codes given out and spent, callbacks in progress with their parameters, the row; one action per await of `/authorize` and `/callback`, `Consent`, `ExpireState`, `ExpireVerifier`, `Disconnect` |
| `Ticket` | abstract: an authorization is a one-shot ticket of its user | `Issue`, `Redeem`, `Void`, `Connect`, `Disconnect`; implemented by `OAuthFlow` |
| `History` | the messages of one thread | `messages`, `summary`, what was last sent; `NewMessage`, `Summarize`, `CallModel`, `Reply`, `Tools`, `Abandon`; `Sanitize` and `Cutoff` are operators |
| `ChatTurn` | the chats of one user | conversations, rows, checkpoint, summary and pending interrupt of each thread; requests: `Stream` with an image, a document or a message through `Create`, uploads, `Say`, `Run`, `Summarize`, `Step`, `Answer`, `Apologize`, `Interrupt`, `RunFails`, `Row`; `Resume`, `Check`, `RunResumed`; `Delete`, `Die` |
| `McpConfig` | the MCP servers of one user | row, three keys, index of the one process that can open it; tasks: `Save`, `Delete` and `Clear`, a `Turn` of `agent_node` with `Reload` and `Index`, an `Exec` of `mcp_tool_node`; `Fail`, `Restart` |
| `ToolSearch` | the index of fixed and own tools, search, binding | vectors on the disk, the process that holds them, the own tools registered, names found, told and bound; `Deploy`, `Restart`, `Evict`, `Search`, `SearchFails`, `Enter`, `Request`; `Choose` is the choice among the hits |

`MC...` modules give TLC the symmetry sets (and `MCToolSearch` its tools); `...Proofs` modules hold the theorems. Operators
marked `MUTANT of X` are plausible bugs that show that a property can fail; no specification uses them.

How they fit together:

* `ToolNode` sees the limiter through the outcomes of `check_and_increment` (allowed, denied, error), and the
  connections through the set of providers for which a token resolves; `ToolRateLimiter` and `Connections` are what is
  behind these.
* `History!Tools` takes from `ToolNode` exactly what `ToolNode!AllAnsweredOrOneRefused` establishes of the returned
  messages: all calls answered, or those of one provider.
* `OAuthFlow` ends where `Connections!Connect` begins: at the upsert of a token of a new grant.
* `ChatTurn` is one level above `ToolNode` and `History`: a run is a read of the thread, a while, and a write.
  `ToolNode` has one run at a time; what happens with two is in `ChatTurn`, in which the interrupt a thread waits for is
  only an id.
* `ChatLimiter` is around the run of `ChatTurn`: `Admit` before, `End` and `Log` after it.

Correspondence worth knowing when reading them next to the code:

* *ToolRateLimiter.* `now` and `member` are sampled once on entry, before any await, as in the
  code; the score of an entry is the time of sampling, not of recording, so that
  `StoredBounded` is a bound on the stored sets. `Record` may stay where it is: the Redis
  client retries on timeout. `overlapped` remembers whether two calls were ever under way together.
* *ChatLimiter.* The suffixes of the keys are functions of `now`, which `check_chat_rate` and `log_token_usage` sample
  separately: a turn may be checked in one hour and recorded in the next. `Log` may repeat itself up to `MaxRetries`
  times, and then counts the tokens once more each time.
* *ToolNode.* `asked` counts the calls of `interrupt()` in the pass; `Raise` and `Answered` are its
  two outcomes. LangGraph is external: an interrupted node starts over, the n-th
  `interrupt()` of a pass returns the n-th stored answer. `resumeVal` is the local that
  `RateDenied` reads although the answer was put into another one (graph.py 548, 563).
* *Connections.* A token is `<<grant, refresh>>`; the row holds access and refresh token of one
  pair. `Rotating` says whether the provider accepts a refresh token once only.
  The lock's TTL of 30 s is not enforced on its holder (the connect timeout of the database alone is 60 s,
  db/models.py 49): `LockExpires` may happen at any time. `overrun` remembers that it ran out on a worker that was refreshing,
  until nobody is: in between a slow worker's release frees the lock of its successor, refreshes meet, and the row may fall
  back to an older token. `RefreshExclusive` and `NoTokenRegression` say that this is the only way, and that it ends.
* *OAuthFlow.* A flow is its state, its code and the token it ends with. `PopStateTwice` is the pop that the Redis
  client repeats after a timeout: a valid state is reported as unknown. The state keeps the user; provider (the path), code and
  state of a callback are independent parameters, and only PKCE, whose verifier is kept by state, ties a code to a state. The session,
  which the URLs of the agent carry (graph.py 496, 663), only chooses where the browser is sent, and is left out. A callback is given
  states and codes that the server or a provider has given out.
* *History.* A text is empty or not, a history is short or too long for the summarizer by choice; a
  batch is a set of call ids, answered in order.
* *ChatTurn.* A message is the turn it came with and its sort: a user's, an answer in text or in parts, the apology for a failed
  model, or the news of an upload. A run saves the thread when it begins and at each step,
  from what it read at the beginning; `clashed` marks the runs under which another request wrote. `Summarize` removes any of the older
  messages (which ones is `History`'s matter) and the summary is the set of those whose text went into it, `Memory` both together.
  `broken` marks requests whose SQLAlchemy session nobody rolled back, `haunted` threads that requests were busy with while they had no
  conversation: deleted under them, or never inserted, as any exception of that is swallowed (chat_router.py 111).
* *McpConfig.* A configuration stands for its hash, which is the version; a discovery is a configuration and what its servers
  answered, `Offers`, which may differ from one time to the next and be empty. A task begins with its first read, and the two reads of the
  cached configuration in a turn (graph.py 294, user_mcp_tool_node.py 42) are one. The row has an id of its own: `stale` has the tasks
  whose selected row was deleted since, so that their UPDATE raises and their DELETE does nothing. `points` says whether the registered
  tools have theirs on the disk, and whether there are any of others. `owed` says that a commit has not dropped the
  keys yet (or died before it could), `late` that a task overtaken by a commit has written one since, `torn` that the index was
  filled by a turn whose keys changed under it, or lost its points to an indexing that failed.
* *ToolSearch.* Embedded Qdrant locks its directory: of the two Gunicorn workers one has an index. A search is any
  ranking of any of the indexed tools, of which the connected providers and the user's servers are asked. `Enter` is
  agent_node: its indexing (`Index`, with the flush of the fixed tools, which may index, decline or raise half-way) and the binding, in
  one try. The user's own tools (`own`, `ownDisk`) may be offered, evicted or fail to be indexed at any moment, since a change of the servers comes from
  any request; the version that decides is in `McpConfig`. A name stands for a tool, its own or a fixed one.

## 3. Runs

Every run is bounded by constants that appear as guards (`MaxTime`, `MaxRetries`, `Members`, `MaxResumes`,
`MaxAborts`, `MaxGrants`, `MaxRefreshes`, `MaxTurns`, `MaxCalls`) or by finite sets of requests (`Flows`, `Turns`).

| Run | Shows | Bounds, and why they are enough |
|---|---|---|
| `limiter` | `StoredBounded`: at most limit + callers - 1 entries; `RecentCallsCounted`; `RetryOpensSlot` while calls do not overlap | 2 callers, 4 members, limits 1 and 2, windows 2 and 5, time 6: both windows slide past, both limits are reached, the race needs 2 callers |
| `chat_limiter` | `TurnsBounded`, `RecentTurnsCounted`, `UsedTokensCounted`, `RetryHonest` | 2 requests, 3 turns, an hour of 2 and a day of 4 ticks, time 4: hours and the day change between check and record, each of the four limits is reached |
| `tool_node` | `ValidatedBeforeExecution`, `ConfirmationsAligned`, `AllAnsweredOrOneRefused`, `DestructiveOnlyIfApproved` | 2 calls over 2 providers or none, 3 answers, 1 aborted run: enough for every pair of questions and a replay after each |
| `node_PausedCanResume` | a docstring's claim that fails | as above, without aborted runs |
| `connections` | `RefreshExclusive`, `NoTokenRegression`, `RemovedStaysRemoved` | 2 workers, one sequential requester, 2 grants, 2 refreshes in all: a refresh in flight meets a removal and a reconnect, and a lock runs out on a worker that is refreshing while the other takes it |
| `connections_stale` | liveness: `LockFreed`, `StaleTokenPasses`, `StaleListPasses` | 2 workers, 1 requester, 1 agent, 1 grant; no symmetry, as liveness demands |
| `oauth_flow` | `StatePostsOnce`; `AuthorizationIsOneShot`, the refinement of `Ticket` | 2 flows, 3 callbacks, 2 users, 2 providers, one of them with PKCE: the two flows may be of one account or of two, and the third callback is a repetition that mixes their parameters |
| `history` | `CallersKept`, `SentCallsAnswered`, `CurrentTurnSent`, `OrphansOnlyOfPartialBatch` | 4 turns, 4 calls in batches of any size, the last 2 messages kept (10 in the code): a turn can be longer than what a summary keeps |
| `chat_turn` | `RememberedIsShown`, `DeletedIsGone`, `AnswersItsQuestion`, `MemoryGrows` | 2 requests, 1 thread, 2 interrupts: every pair of requests interleaves, and an interrupt can be replaced by another |
| `chat_ResumedIsShown` | a comment's claim that fails | as above |
| `mcp_config` | `KeysFollowRow`, `SkipIsSafe` | 2 tasks, 2 configurations, whose servers answer with tools or with none: tasks start again and again, so that histories are long; a race needs two of them. That there are different lists of tools matters to `RefreshSeen` only, whose configuration has two |
| `tool_search` | `ProvidersFound`, `AddedIsSearchable` | 2 tools of one provider, 1 of another, 1 of a server of the user, 2 places, 1 sure for each provider, 3 hits fetched: one provider can crowd out another; any releases, restarts, evictions and failures |

Deadlock is not checked in `limiter` and `chat_limiter` (the clock and the members run out), `tool_node` (a batch ends, and a
thread paused on a rate limit can only be abandoned), `oauth_flow`, `history` and `chat_turn` (flows and turns run out).
In `Connections`, `McpConfig` and `ToolSearch` something can always move.

**Fairness.** Only `Connections!FairSpec` assumes any: weak fairness of a worker's next step, since every
await in the refresh path ends (the clients of Redis, of the database and of HTTP have timeouts);
of an agent's, for the same reason; and of the three key expiries, which Redis performs. Nothing is
assumed of users: requests may stop halfway, and `StaleTokenPasses` and `StaleListPasses`
only promise something once they have stopped. The other modules state no liveness: their keys have no TTL
(`McpConfig`) or somebody may hang up at every point (`ChatTurn`, `ToolNode`), so that nothing need ever happen.

### Claims that do not hold

Statements of comments and docstrings that TLC refutes. The first two are runs with an entry under `findings`; the others have a
configuration of their own, which ends with a counterexample.

| Claim | Where | What happens | Configuration |
|---|---|---|---|
| "Resume a paused graph after an HITL interrupt" | api/chat_router.py 362 | the interrupt of a rate limit has no `id`, and is answered with 400 for ever | `ToolNode_PausedCanResume` |
| "Persist post-resume assistant message to chat_messages DB" | api/chat_router.py 434 | an answer that is streamed as lists of parts is not collected after a resume | `ChatTurn_ResumedIsShown` |
| "Persist assistant response to chat_messages AFTER stream ends" | api/chat_router.py 307 | when the model fails, an apology is saved in the checkpoint (graph.py 404) but not streamed, and no row is written | `ChatTurn_ResponsePersisted` |
| "Atomically check + record ... no race conditions under concurrent Gunicorn workers" | services/rate_limiter.py 188 | check and record are two transactions | `ToolRateLimiterClaim` |
| "requests_per_day (sliding window)" | services/rate_limiter.py 318 | the key contains the UTC date, so that two days' worth fit around midnight | `ChatLimiter_DayWindowSlides` |
| "Interrupts here have zero side effects - no execution has happened" | orchestrators/graph.py 434 | a Phase 1 interrupt after a replay may follow executions, which are then repeated | `ToolNode_NoExecutionBeforePhase1Interrupt` |
| "drops ... orphan ToolMessages" | orchestrators/graph.py 165 | not in the turn in which a provider was refused | `History_NoOrphanSent` |
| "agent sees disconnection immediately" | api/connections_router.py 147 | whoever read the row before caches it after | `Connections_DisconnectionSeen` |
| "prevent concurrent refresh races (multi-worker safe)" | services/connections/oauth_engine.py 394 | the row is read before the lock, so that a used-up refresh token is presented | `Connections_RefreshTokenIsLatest` |
| "Called after: ... Token refresh (old token is now invalid)" | services/cache.py 94 | it is not called then, nor after a replaced key: the earlier token stays cached | `Connections_CachedTokenIsStored` |
| "Users re-PUT the same config to re-discover tools" | mcp_config_implementation_plan.md 139 | the version is the hash of the configuration: if another process serves the PUT, the one with the index skips, and keeps the tools it had | `McpConfig_RefreshSeen` |
| "Delete the user's MCP config and clear all caches" | api/mcp_config_router.py 160 | a turn or a save under way fills the caches again, without TTL | `McpConfig_DeletedConfigGone` |

### What the models also show

* *Tool node.* An answer to an auth interrupt is matched by position and may have been given about another
  provider; every replay of Phase 1 takes rate-limit slots again; the answer to a rate-limit interrupt is not what the code reads,
  so that a leftover answer makes the node crash.
* *Connections and OAuth.* A refresh in flight overwrites the token of a reconnect, since its UPDATE matches
  user and provider only; a refresh token whose exchange was not stored is lost. "Atomic GET+DEL" (oauth_engine.py 144) is two
  commands, made harmless by the atomic pop of the state before it (`StatePostsOnce`). As the state does not keep the provider, the
  callback of one provider accepts a state made for another, and connects what its own provider honours: `Ticket` promises the user, not the
  provider. A code can therefore be posted again with another state; that the provider then refuses it is its own rule (`Honoured`). An error behind the upsert is
  answered with "error" although the account is connected. A user who refuses consent comes back without a code,
  which the endpoint requires.
* *Chat limiter.* A client that hangs up at the `done` event is not charged, nor is any resumed turn.
* *Chat turn.* Two requests that create one conversation at once leave one with an unusable session: its message reaches
  the agent and no row. Two resumes with one id both pass the check and run. An upload while a thread is paused
  discards the interrupt. A run that outlives the deletion of its conversation writes its checkpoint again. After a hang-up the
  answer is in the checkpoint and in no row. When the model fails, the agent remembers an apology that the user never sees. A turn whose
  conversation could not be inserted runs all the same, and leaves a checkpoint without one. An answer in parts is not text for the
  summarizer (graph.py 850) and is forgotten when it is summarized. An image that is cached is announced to another thread as "use previous
  description" (chat_router.py 177), which that thread never had.
* *MCP configuration.* An UPDATE is not sent if the value is unchanged, so that a save can succeed while
  another request deletes the row, and its keys stay. The invalidation of the index happens in the process that served the
  request, which need not be the one that has it; `SkipIsSafe` holds all the same, because of the version, as far as
  the configuration goes: the tools may be those of an earlier discovery. It does not speak of "v0", the version of a turn that found no
  key: two such turns in a row index once, whatever was saved between them. A failure between the deletion of the points and the
  registration leaves the old version with no points (`torn`), and a deletion of points that fails leaves points of tools that are no
  longer registered.
* *Tool search.* Of two workers only one can search, and names found are lost when the answer to an interrupt reaches
  the other. Whether the index is complete is judged by counting: a release that replaces one tool by another leaves the new one
  unsearchable (hence `dropped` in `AddedIsSearchable`), and stale vectors are found but cannot be bound.
  An exception while the user's own tools are indexed skips the binding of what was found (graph.py 348-378), so that the model is not
  given the tools that "are now available for you to call directly" (search_tools.py 121); nor is it given own tools evicted in between, or found by
  vectors whose deletion failed.
  "top_k=8 ensures ... candidates for all providers" (search_tools.py 88) holds for up to four providers, with
  two places each (`ProvidersFound`).

## 4. Proofs

All theorems are for every value of the constants, under the `ASSUME`s of the modules (types and bounds
of the constants, finiteness of sets whose members are counted, model values distinct from data).

* **ToolRateLimiterProofs.** `TypeCorrect`, `StoredBound`, `RecentCounted`, `RetryTrue`. The bound on a set is not
  inductive: between count and ZADD it says nothing of the callers that have passed. The invariant
  adds their members (`MinuteBudget`, `HourBudget`): stored entries *and* those that may yet be
  stored fit the limit plus all callers but one. `RecentCounted` needs that no sampled time is in the
  future (`ClocksBehind`) and that a key outlives each of its entries' windows (`ExpiryCovers`), which
  holds because the slack of the EXPIRE is at least zero and it is set at the time of recording. `RetryTrue` is
  about calls that do not overlap: then there is one call at a time (`Solo`), and the limit itself bounds what is stored or may
  yet be (`SoloBudget`), so that a set which denied is exactly full, and one entry, the oldest, has left the window
  after `retry_after` (`OldestLeaves`). With overlaps the set may be over its limit, and one entry less is not enough.
* **ChatLimiterProofs.** `TypeCorrect`, `TurnsBound`, `RecentCounted`, `TokensCounted`, `DenialsHonest`, along the same lines: each request that has been
  admitted occupies a slot beside the stored members (`HourBudget`, `DayBudget`), for the day a slot of whichever date it
  will be recorded in, where days to come are still empty (`FutureEmpty`).
  The tokens in a counter are bounded by a multiple, which no single log restores: the invariant `TokenInv` counts the runs of
  the log that are left to each request as debts on the hour (`Debts`, a set of triples whose size is the sum that is owed), and says that
  counter and debts together fit the multiple, that no two requests share a member, and that nothing is counted in an hour to
  come. `DenialsHonest` needs `Solo` and `SoloBudget` again for the sliding hour; for the hour and the date in the keys it is
  arithmetic: one period later is another period (`NextPeriod`).
* **ToolNodeProofs.** `TypeCorrect`, `Validation`, `Answering`, `Alignment`, `Approval`. The heart is alignment: the
  confirmations are the first questions of every pass, always in the same order, so that the
  stored answers begin with answers to them. From it follows that a confirmation reads the latest answer
  to itself, and from that `DestructiveOnlyIfApproved`.
* **ConnectionsProofs.** `TypeCorrect`, `Exclusion`, `NoRegression`, `NoResurrection`. The invariants: outside an overrun
  whoever refreshes set the lock that is there (`LockInv`); no token anywhere is newer than the provider's latest, and outside an
  overrun the one that is about to be stored is the latest (`LatestInv`); grants in use have been
  given (`GrantInv`); workers hold tokens of grants that were stored (`HeldInv`). An overrun ends with the section empty, which
  restores the first two.
* **ServicesProofs**, of `OAuthFlow`. `TypeCorrect`, `PostedOnce`, `VerifierLives`, and the refinement `FlowIsOneShot`. A state that was popped
  has one holder, and none while it is stored (`OneHolder`); no code was posted with it until its holder does (`Unposted`); a token comes
  from the provider of its code, and with PKCE from the code of its state (`Exchanged`); a verifier lives as long as its state (`VerifierThere`). Under the mapping `TicketOf` each action is a step of
  `Ticket` or leaves it unchanged.
* **ServicesProofs**, of `ToolSearch`. `SearchTypeCorrect`, `ProvidersAreFound`, `AddedSearchable`. That a choice fits is counting:
  the first n positions map one-to-one to the numbers of positions before them (`FirstFew`), a diverse hit to its provider and its
  place in it (`DiverseFew`), so that while the places of all providers fit, none of the diverse hits is cut, and the first hit of each
  provider is one of them (`FirstOfEach`, `ChoiceCovers`). What the index holds is judged by its size, which is right while
  releases only add: then the disk holds nothing else (`Additive`), and a set of known things with as many members is all of them
  (`FlushKeeps`, which needs `ToolsFinite`). `Local`: only threads of the process that has the index were told of tools, and it has found them. What
  `Enter` binds of the found are the registered ones, so that what it does not bind of the told is an own tool that is not registered.
* **HistoryProofs.** `TypeCorrect` (of `HistoryOK`), `Types` and `Pairing`: an answer in the stored history is preceded by its
  call with only answers between, which each way of changing the history preserves: appending
  something else, appending answers to the last message, cutting before something else. What is sent of it: `SentAreAnswered`,
  `TurnSent`, `OrphansPartial`. The loops of `_sanitize_messages` are one recursive function, `Kept`. That it exists, and that its
  value is a selection in order (`KeptSelects`: a rising map from positions kept to positions, onto those that are not dropped), is an
  induction over the positions; the induction theorems of the library cannot be used, and a set of numbers that
  contains 0 and each successor is shown to be all of them by its least missing element (`AllNumbers`). Two loops compose
  (`PrunedIs`, `SanitizeIs`), and then nothing more is said about recursion: a stretch of answers behind its call is kept whole
  (`StretchSent`). These need of the stored history that no two messages make the same call (`Made`) and that
  the user's message is still in it when the model is called (`Asked`); `SentInv` adds that what was sent is the history, cleaned.
* **McpConfigProofs.** `TypeCorrect`, `KeysFollow`, `SkipSafe`. For the keys: a task that is about to write one holds what is in the row,
  or was overtaken (`Following`). For the index: a turn that nobody wrote under has read version and schemas of one
  configuration, so that what it registers under the version is a discovery of it (`Skipping`).
* **ChatTurnProofs.** `TypeCorrect`, `Gone`, `Answers`, `MemoryKept`, `Remembered`. A request that works on a thread has its conversation, or the
  thread is haunted (`Present`); a resume that has checked has found its question pending, or clashed (`Waiting`); a run holds what
  is in the checkpoint and its summary, or clashed (`Fresh`), so that what it saves loses nothing of them but what a summary leaves out
  (`SaveKeeps`); and what is in a checkpoint, a summary or the memory of a run has come from turns whose
  rows are written or whose session is broken (`Tagged`, `Placed`, `AskedShown`, `AnswerShown`).

Every invariant and action property of a passing run, and the refinement, is a theorem. Only model-checked: liveness
(`LockFreed`, `StaleTokenPasses`, `StaleListPasses`), since ENABLED and fairness are out of the prover's reach; and the
claims that fail. The assumptions about constants are evaluated by TLC in each run. One proof module serves two components that share nothing
(`ServicesProofs`); for its sake `ToolSearch` names its specification `SearchSpec`, its steps `SearchNext` and its types `SearchTypeOK`.

## 5. Not modelled

* *Long-term memory*: calls of an LLM and of a vector store; it looks for a fact and then stores it, so that two turns
  may store one twice, and nothing depends on it.
* *Graph construction*: `initialize_graph` runs under an asyncio lock and is idempotent. Its guard tests a
  variable that it never sets (graph.py 918), so that callers waiting for the lock rebuild the graph one after the other; no
  state of the system depends on which one they get.
* *Documents and vision* beyond the turn that uploads: parsing, embedding, reranking. The look for a document's hash
  raises on every call and is taken for a first upload, so that "deduped by doc_hash" (doc_parser_rag.py 114) never happens.
* *The workflow agent*: its tool is not in `custom_tools` (custom_tools.py 437) and is not reachable; `ToolNode` has the
  interrupts it would raise.
* *Two providers at once* in `Connections`: keys, locks and rows are per provider, and no operation touches two.
* `mcp_tool_node` running beside `tool_node`: the two share no state but the messages they append, and `History` has those.
* `validate_config`, listing and renaming conversations, text and formatting: filters and data that no property tells apart.
* Remote MCP sessions (no state; their outcomes are inputs of `ToolNode`), authentication (library code),
  migrations, scripts, and the unused predecessors `oauth_engine_v1`, `providers_v1`, `middleware/` and the BM25 retrieval of
  `services/tool_retriever.py`.

## 6. Running

    tlc -config ToolNode.cfg MCToolNode.tla
    tlapm ToolNodeProofs.tla

`X.cfg` belongs to `MCX.tla`, and `X_Claim.cfg` (and `ConnectionsStale`, `ToolRateLimiterClaim`) to the same module with another
question. The longest runs (`connections`, `connections_stale`, `chat_turn`, `mcp_config`) take up to four minutes on two cores,
the longest proofs (`ChatTurnProofs`, `McpConfigProofs`) several.
