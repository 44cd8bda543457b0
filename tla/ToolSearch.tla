----------------------------- MODULE ToolSearch -----------------------------
(***************************************************************************)
(* The search for tools (services/vector_tool_retriever.py and              *)
(* tools/search_tools.py): the vectors of the fixed tools, which live on    *)
(* the disk longer than the process and the release that wrote them, those  *)
(* of the user's own MCP tools, the choice among the hits of a query, and   *)
(* the names each thread has found, which agent_node binds when it is       *)
(* entered again.                                                           *)
(*                                                                         *)
(* The index is embedded Qdrant, whose folder one process can open: the     *)
(* others search in vain.  What a thread has found is in the memory of that *)
(* process.  A query is the order in which it ranks tools.  The threads are *)
(* of one user; how the version decides whether the user's tools are        *)
(* indexed again is in McpConfig, and here it may go either way.            *)
(***************************************************************************)
EXTENDS Naturals, FiniteSets, Sequences

CONSTANTS
    FixedTools,         \* the names a release may register
    OwnTools,           \* the names the user's MCP servers may offer
    ToolProviders,      \* providers of fixed tools, and the user's servers
    ProviderOf,         \* the provider of a tool
    Threads,            \* conversations
    Workers, NoWorker,  \* processes
    TopK,               \* results of a search (8 in search_tools)
    PerProvider,        \* places a provider is sure of (2)
    FetchLimit          \* hits asked of the index: the larger of 4 * TopK and 32

Tools == FixedTools \union OwnTools

ASSUME ToolsFinite == IsFiniteSet(Tools)
ASSUME ProviderOfAssumption == ProviderOf \in [Tools -> ToolProviders]
ASSUME LimitsAssumption ==
    /\ TopK \in Nat /\ FetchLimit \in Nat /\ FetchLimit >= TopK
    /\ PerProvider \in 1..TopK
ASSUME NoWorkerOutside == NoWorker \notin Workers

VARIABLES
    registry,       \* the fixed tools of the release, which every process registers
    disk, ownDisk,  \* fixed tools, and the user's own, with a vector on the disk
    holder,         \* the process that has opened the index
    indexed,        \* it takes the fixed tools to be in the index
    own,            \* its _user_tool_registries: the user's own tools
    found,          \* its _last_search_results: the names found for a thread
    hits, chosen,   \* the ranked hits of a search that has just ended, and which it returned
    process,        \* the process in which the thread runs
    bound,          \* what agent_node has just bound of what was found
    told,           \* history: names the model was told of by the run in that process
    dropped         \* history: some release lacked a tool of the one before

memory == <<holder, indexed, own, found>>
searchVars == <<registry, disk, ownDisk, memory, hits, chosen, process, bound, told, dropped>>

SearchInit ==
    /\ registry \in SUBSET FixedTools
    /\ disk = {} /\ ownDisk = {} /\ own = {}
    /\ holder = NoWorker /\ indexed = FALSE
    /\ found = [th \in Threads |-> {}]
    /\ hits = <<>> /\ chosen = {}
    /\ process \in [Threads -> Workers]
    /\ told = [th \in Threads |-> {}] /\ bound = {}
    /\ dropped = FALSE

-----------------------------------------------------------------------------
(* Choosing among the hits.  A choice is a set of positions in them.        *)

\* The first n members of S.
First(S, n) == {k \in S : Cardinality({j \in S : j < k}) < n}

SameProvider(h, k) == {j \in DOMAIN h : ProviderOf[h[j]] = ProviderOf[h[k]]}

\* MUTANT of MaxPerProvider: no provider is held back.
MaxPerProviderTopK(h) == TopK

MaxPerProvider(h) == IF Len(h) > TopK THEN PerProvider ELSE TopK

\* MUTANT of Choose: the places left are filled as if the providers' hits took none.
ChooseUncut(h) ==
    LET diverse == {k \in DOMAIN h : k \in First(SameProvider(h, k), MaxPerProvider(h))}
    IN  First(diverse, TopK) \union First(DOMAIN h \ diverse, TopK)

\* Each provider's best hits come first, and places that are left go to the others.  The
\* sort by score, stable and of hits that come in this order, only serves to cut the rest.
Choose(h) ==
    LET diverse == {k \in DOMAIN h : k \in First(SameProvider(h, k), MaxPerProvider(h))}
        remaining == DOMAIN h \ diverse
        free == IF Cardinality(diverse) < TopK THEN TopK - Cardinality(diverse) ELSE 0
    IN  First(diverse, TopK) \union First(remaining, free)

-----------------------------------------------------------------------------

\* A process ends; one that held the index gives up the lock, and its memory is gone.
Ends(gone) ==
    IF holder \in gone
      THEN /\ holder' = NoWorker /\ indexed' = FALSE /\ own' = {}
           /\ found' = [th \in Threads |-> {}]
      ELSE UNCHANGED memory

\* What a search has chosen or an entry has bound is used at once.
Used == hits' = <<>> /\ chosen' = {} /\ bound' = {}

\* The runs in a process that ends end with it.
RunsEnd(gone) == told' = [th \in Threads |-> IF process[th] \in gone THEN {} ELSE told[th]]

\* A release, or a restart of the same one: load_schemas, which may come back with nothing,
\* and init_global_fixed_tools.
Deploy(tools) ==
    /\ registry' = tools
    /\ Ends(Workers) /\ RunsEnd(Workers) /\ Used
    /\ dropped' = (dropped \/ ~(registry \subseteq tools))
    /\ UNCHANGED <<disk, ownDisk, process>>

\* A worker dies, and Gunicorn starts another one in its place.
Restart(w) ==
    /\ Ends({w}) /\ RunsEnd({w}) /\ Used
    /\ UNCHANGED <<registry, disk, ownDisk, process, dropped>>

MayOpen(w) == holder \in {NoWorker, w}

\* _flush_global_to_qdrant compares numbers.
OnDisk == Cardinality(disk) = Cardinality(registry)

\* _flush_global_to_qdrant, which every search and every indexing comes to first.  It may
\* return without having indexed, for want of tools or of embeddings, and all goes on, ...
Flush ==
    \/ UNCHANGED <<disk, indexed>>
    \/ /\ ~indexed /\ registry # {}
       /\ \/ OnDisk /\ UNCHANGED disk
          \/ disk' = disk \union registry
       /\ indexed' = TRUE

\* ... or raise with part of the vectors written; so does the end of its process.
FlushRaises ==
    /\ ~indexed /\ registry # {}
    /\ \E written \in SUBSET registry : disk' = disk \union written
    /\ UNCHANGED indexed

-----------------------------------------------------------------------------
(* The user's own tools                                                     *)

\* _delete_user_points, whose failure is only logged.
Kept == {ownDisk, {}}

\* invalidate_user_cache, after a change of the user's servers; other processes than the
\* one that has the index have nothing to forget.
Evict ==
    /\ holder \in Workers
    /\ own' = {} /\ ownDisk' \in Kept
    /\ Used
    /\ UNCHANGED <<registry, disk, holder, indexed, found, process, told, dropped>>

\* index_user_mcp_tools after the flush: nothing for the version it has; or the old vectors
\* are deleted, and there may be no embeddings; or the tools offered are registered; or it
\* raises with part of them written.
IndexOwn(offered, raises) ==
    \/ ~raises /\ UNCHANGED <<own, ownDisk>>
    \/ ~raises /\ UNCHANGED own /\ ownDisk' \in Kept
    \/ /\ ~raises /\ own' = offered
       /\ \E kept \in Kept : ownDisk' = kept \union offered
    \/ /\ raises /\ UNCHANGED own
       /\ \E kept \in Kept, written \in SUBSET offered : ownDisk' = kept \union written

-----------------------------------------------------------------------------

\* MUTANT of Remember: a search takes the place of the one before it.
RememberLast(th, names) == [found EXCEPT ![th] = names]

\* search_tools adds the names to those of the thread; parallel searches are combined.
Remember(th, names) == [found EXCEPT ![th] = @ \union names]

\* The retriever's search in a process: it flushes, asks for the best of the vectors within
\* the connected providers and the user's servers (all, if none is connected), and chooses
\* among these hits.
Retrieve(w, connected, h) ==
    /\ MayOpen(w) /\ holder' = w
    /\ Flush
    /\ LET allowed == IF connected = {} THEN ToolProviders
                      ELSE connected \union {ProviderOf[t] : t \in own}
       IN  \A k \in DOMAIN h : h[k] \in disk' \union ownDisk /\ ProviderOf[h[k]] \in allowed
    /\ hits' = h /\ chosen' = Choose(h)

\* The tool search_tools: it retrieves, remembers the names for its thread, and tells the
\* model that they may be called.
Search(th, connected, ranking) ==
    LET h == SubSeq(ranking, 1, IF Len(ranking) < FetchLimit THEN Len(ranking) ELSE FetchLimit)
        names == {h[k] : k \in Choose(h)}
    IN  /\ Retrieve(process[th], connected, h)
        /\ found' = Remember(th, names)
        /\ told' = [told EXCEPT ![th] = @ \union names]
        /\ bound' = {}
        /\ UNCHANGED <<registry, ownDisk, own, process, dropped>>

\* The flush raises: the model is told that the search has failed.
SearchFails(th) ==
    /\ MayOpen(process[th]) /\ holder' = process[th]
    /\ FlushRaises /\ Used
    /\ UNCHANGED <<registry, ownDisk, own, found, process, told, dropped>>

\* A new turn, or the answer to an interrupt, reaches any of the processes.
Request(th, w) ==
    /\ process' = [process EXCEPT ![th] = w]
    /\ told' = [told EXCEPT ![th] = {}]
    /\ Used
    /\ UNCHANGED <<registry, disk, ownDisk, memory, dropped>>

\* The indexing in agent_node, of the tools the user's servers offer, in a process.  Without
\* any, without the index or an embedding model there is nothing to do.
Index(w, offered, raises) ==
    \/ /\ ~raises
       /\ UNCHANGED <<disk, ownDisk, holder, indexed, own>>
    \/ /\ offered # {} /\ MayOpen(w) /\ holder' = w
       /\ \/ raises /\ FlushRaises /\ UNCHANGED <<own, ownDisk>>
          \/ Flush /\ IndexOwn(offered, raises)

\* get_last_search_results: what agent_node finds in the memory of its process ...
Searched(th) == IF process[th] = holder THEN found[th] ELSE {}

\* ... and what resolve_tools_by_names makes of it, which only warns of other names.
Resolved(names, users) == names \intersect (registry \union users)

\* agent_node: it indexes, then binds what was found.  Both are in one try: an exception of
\* the former leaves nothing bound.
Enter(th, offered, raises) ==
    /\ Index(process[th], offered, raises)
    /\ bound' = IF raises THEN {} ELSE Resolved(Searched(th), own')
    /\ hits' = <<>> /\ chosen' = {}
    /\ UNCHANGED <<registry, found, process, told, dropped>>

\* Orders of some of the tools: those whose score reaches the threshold.
Rankings == UNION {{r \in [1..n -> Tools] : \A j, k \in 1..n : r[j] = r[k] => j = k} :
                      n \in 0..Cardinality(Tools)}

\* The providers a user can connect: of the fixed tools.
OAuthProviders == {ProviderOf[t] : t \in FixedTools}

SearchNext ==
    \/ \E tools \in SUBSET FixedTools : Deploy(tools)
    \/ \E w \in Workers : Restart(w)
    \/ Evict
    \/ \E th \in Threads :
          \/ \E connected \in SUBSET OAuthProviders, ranking \in Rankings :
                Search(th, connected, ranking)
          \/ SearchFails(th)
          \/ \E offered \in SUBSET OwnTools, raises \in BOOLEAN : Enter(th, offered, raises)
          \/ \E w \in Workers : Request(th, w)

SearchSpec == SearchInit /\ [][SearchNext]_searchVars

-----------------------------------------------------------------------------

\* Type correctness: no search returns more than TopK tools.
SearchTypeOK ==
    /\ registry \subseteq FixedTools /\ disk \subseteq FixedTools /\ bound \subseteq Tools
    /\ own \subseteq OwnTools /\ ownDisk \subseteq OwnTools
    /\ holder \in Workers \union {NoWorker}
    /\ indexed \in BOOLEAN /\ dropped \in BOOLEAN
    /\ found \in [Threads -> SUBSET Tools] /\ told \in [Threads -> SUBSET Tools]
    /\ process \in [Threads -> Workers]
    /\ hits \in Seq(Tools)
    /\ chosen \subseteq DOMAIN hits /\ Cardinality(chosen) <= TopK

ProvidersIn(positions) == {ProviderOf[hits[k]] : k \in positions}

\* "top_k=8 ensures multi-service requests return candidates for all providers"
\* (search_tools.py 88; vector_tool_retriever.py 538-562): true as long as there are
\* places enough for each provider with a hit.
ProvidersFound ==
    PerProvider * Cardinality(ProvidersIn(DOMAIN hits)) <= TopK
       => ProvidersIn(chosen) = ProvidersIn(DOMAIN hits)

\* agent_node is entered and its indexing does not raise.
Enters(th) == \E offered \in SUBSET OwnTools : Enter(th, offered, FALSE)

\* While releases only add tools, and whichever process died writing: a process that takes
\* its tools for indexed can find every one of them, and of what a run was told it may call,
\* in however many searches, agent_node binds on an entry whose indexing does not raise all
\* but tools of the user's own that are not registered then: those a change of the servers
\* has evicted since, or of which only vectors were left
\* (vector_tool_retriever.py 237-254, search_tools.py 105-121 "now available for you to
\* call directly", graph.py 348-387).
AddedIsSearchable ==
    [][~dropped' =>
          /\ indexed' => registry' \subseteq disk'
          /\ \A th \in Threads :
                Enters(th) => told[th] \ bound' \subseteq OwnTools \ own']_searchVars

=============================================================================
