------------------------------ MODULE McpConfig ------------------------------
(***************************************************************************)
(* The MCP servers of one user: the row user_mcp_configs, three Redis keys  *)
(* without expiry, and the vector index of the discovered tools.            *)
(*                                                                         *)
(* Requests save and delete the row (api/mcp_config_router.py), the agent   *)
(* node reads the keys and reloads them from the row on a miss              *)
(* (services/mcp_config_service.py, orchestrators/graph.py), the MCP tool   *)
(* node reads the config (protocols/mcp/user_mcp_tool_node.py).  They run in*)
(* several processes; embedded Qdrant is locked by the first that opens it, *)
(* for whichever user and query (module ToolSearch), and only that one has  *)
(* an index (services/vector_tool_retriever.py).  In which process a task   *)
(* runs matters when it touches the index and is chosen then.               *)
(*                                                                         *)
(* A config stands for itself and its MD5, which is the version.  What the  *)
(* servers of a config offer may change, and the version does not tell: a   *)
(* discovery is a config and what its servers offered when they were asked. *)
(***************************************************************************)
EXTENDS FiniteSets

CONSTANTS
    Configs,        \* validated, nonempty configs
    Offers,         \* what the servers of a config may answer
    NoTools,        \* the empty list among them
    Tasks,          \* requests and graph nodes in progress at once
    V0,             \* the "v0" that stands for a version the turn did not find
    None

ASSUME NamesDiffer ==
    /\ None \notin Configs /\ V0 \notin Configs /\ None # V0
    /\ NoTools \in Offers /\ None \notin Configs \X Offers

VARIABLES
    row,                        \* user_mcp_configs.config_json
    stale,                      \* tasks whose selected row was deleted: its id is gone
    config, schemas, version,   \* the three keys of the user
    indexed, registry,          \* its _user_versions and _user_tool_registries
    points,                     \* whose points are on the disk: registered tools', others'
    pc, job,                    \* a task: its place, what it is
    held,                       \* the config it will write
    selected,                   \* the row a save has found
    seen, tools,                \* the version and the schemas a turn has read
    outdated,                   \* history: tasks overtaken by the commit of another one
    owed,                       \* history: a commit whose keys are not dropped yet
    late,                       \* history: an overtaken task has written a key since the last drop
    moved,                      \* history: turns during which others wrote the row or a key
    torn                        \* history: the index is from such a turn, or lost its points

table == <<row, stale>>
keys == <<config, schemas, version>>
index == <<indexed, registry, points>>
locals == <<pc, job, held, selected, seen, tools>>
history == <<outdated, owed, late, moved, torn>>
vars == <<table, keys, index, locals, history>>

Init ==
    /\ row = None /\ stale = {} /\ config = None /\ schemas = None /\ version = None
    /\ indexed = None /\ registry = None /\ points = {}
    /\ pc = [t \in Tasks |-> "idle"] /\ job = [t \in Tasks |-> None]
    /\ held = [t \in Tasks |-> None] /\ selected = [t \in Tasks |-> None]
    /\ seen = [t \in Tasks |-> None] /\ tools = [t \in Tasks |-> None]
    /\ outdated = {} /\ moved = {}
    /\ owed = FALSE /\ late = FALSE /\ torn = FALSE

-----------------------------------------------------------------------------

To(t, place) == pc' = [pc EXCEPT ![t] = place]

\* A task ends; its locals are gone.
Leave(t) ==
    /\ To(t, "idle")
    /\ job' = [job EXCEPT ![t] = None]
    /\ held' = [held EXCEPT ![t] = None]
    /\ selected' = [selected EXCEPT ![t] = None]
    /\ seen' = [seen EXCEPT ![t] = None]
    /\ tools' = [tools EXCEPT ![t] = None]

\* A task begins with its first read of what is modelled here.
Start(t, kind, place) ==
    /\ pc[t] = "idle"
    /\ To(t, place)
    /\ job' = [job EXCEPT ![t] = kind]
    /\ outdated' = outdated \ {t}

\* Others that will write what they hold; turns of others in progress.
Writers(t) == {u \in Tasks \ {t} : held[u] # None}
Turns(t) == {u \in Tasks \ {t} : seen[u] # None}

Forget(t) == outdated' = outdated \ {t} /\ moved' = moved \ {t}

\* The task writes a key: the turns of others have it changed under them.
Writes(t) ==
    /\ moved' = moved \union Turns(t)
    /\ late' = (late \/ t \in outdated)
    /\ UNCHANGED <<outdated, owed, torn>>

-----------------------------------------------------------------------------
(* PUT and DELETE /mcp-config                                               *)

\* discover_tools asks the servers before the row is selected (a save) or after (a turn); if
\* it fails, nothing is written, and what it found shows first when it is written.
Discoveries(c) == {c} \X Offers

\* What a discovery is of; the version is computed from the config alone.
Of(found) == IF found = None THEN None ELSE found[1]

\* The empty list counts as none in the agent node.
Empty(found) == found = None \/ found[2] = NoTools

\* save_mcp_config with a config that is valid and whose servers answer; a rejected or
\* unreachable one is answered before anything is read or written.
Save(t, c) ==
    /\ Start(t, "save", "commit")
    /\ held' = [held EXCEPT ![t] = c] /\ selected' = [selected EXCEPT ![t] = row]
    /\ UNCHANGED <<table, keys, index, seen, tools, owed, late, moved, torn>>

\* delete_mcp_config, and save_mcp_config with no server left.
Delete(t) ==
    /\ row # None
    /\ Start(t, "delete", "commit")
    /\ selected' = [selected EXCEPT ![t] = row]
    /\ UNCHANGED <<table, keys, index, held, seen, tools, owed, late, moved, torn>>

\* Without a row the former is a 404 and the latter drops the keys all the same.
Clear(t) ==
    /\ row = None
    /\ Start(t, "delete", "drop")
    /\ UNCHANGED <<table, keys, index, held, selected, seen, tools, owed, late, moved, torn>>

\* Others that have selected the row.
Selected(t) == {u \in Tasks \ {t} : pc[u] = "commit" /\ selected[u] # None}

\* The primary key is a uuid of the row's own: an INSERT needs that the user has no row,
\* an UPDATE and a DELETE that the selected row is still there.
MayCommit(t) ==
    IF selected[t] = None THEN job[t] = "save" /\ row = None ELSE t \notin stale

Commit(t) ==
    /\ pc[t] = "commit" /\ MayCommit(t) /\ selected[t] # held[t]
    /\ row' = held[t]
    /\ stale' = IF held[t] = None THEN (stale \union Selected(t)) \ {t} ELSE stale
    /\ To(t, "drop")
    /\ outdated' = (outdated \ {t}) \union Writers(t)
    /\ moved' = moved \union Turns(t)
    /\ selected' = [selected EXCEPT ![t] = None]
    /\ owed' = TRUE
    /\ UNCHANGED <<keys, index, job, held, seen, tools, late, torn>>

\* Nothing is done and nothing said: a save of what the selected row held sends no UPDATE,
\* and a DELETE that finds no row only warns.
CommitNothing(t) ==
    /\ pc[t] = "commit"
    /\ IF job[t] = "save" THEN selected[t] = held[t] ELSE t \in stale
    /\ To(t, "drop")
    /\ selected' = [selected EXCEPT ![t] = None]
    /\ stale' = stale \ {t}
    /\ UNCHANGED <<row, keys, index, job, held, seen, tools, history>>

\* The user has got a row since the select, or the UPDATE finds its own gone: the commit
\* raises, 500.
CommitRaises(t) ==
    /\ pc[t] = "commit" /\ job[t] = "save" /\ ~ MayCommit(t) /\ selected[t] # held[t]
    /\ Leave(t) /\ Forget(t)
    /\ stale' = stale \ {t}
    /\ UNCHANGED <<row, keys, index, owed, late, torn>>

\* MUTANT of DropKeys: the schemas are forgotten.
DropKeysButOne(t) ==
    /\ pc[t] = "drop"
    /\ config' = None /\ version' = None
    /\ To(t, "evict")
    /\ owed' = FALSE /\ late' = FALSE
    /\ moved' = moved \union Turns(t)
    /\ UNCHANGED <<table, schemas, index, job, held, selected, seen, tools, outdated, torn>>

\* invalidate_mcp_config: one DEL of the three keys, ...
DropKeys(t) ==
    /\ pc[t] = "drop"
    /\ config' = None /\ schemas' = None /\ version' = None
    /\ To(t, "evict")
    /\ owed' = FALSE /\ late' = FALSE
    /\ moved' = moved \union Turns(t)
    /\ UNCHANGED <<table, index, job, held, selected, seen, tools, outdated, torn>>

\* _delete_user_points, whose failure is only logged.
Kept(cleared) == IF cleared THEN {} ELSE points

\* Nobody's are registered any more.
Left(old) == IF old = {} THEN {} ELSE {"others"}

\* MUTANT of EvictIndex: _user_versions is not popped.
EvictIndexNotVersion(cleared) ==
    /\ points' = Left(Kept(cleared)) /\ registry' = None
    /\ torn' = FALSE
    /\ UNCHANGED indexed

EvictIndex(cleared) ==
    /\ points' = Left(Kept(cleared)) /\ indexed' = None /\ registry' = None
    /\ torn' = FALSE

\* ... then the vector index of this process, if it has one.  With it a delete is done.
Evict(t) ==
    /\ pc[t] = "evict"
    /\ \/ \E cleared \in BOOLEAN : EvictIndex(cleared)
       \/ UNCHANGED <<index, torn>>
    /\ IF job[t] = "save"
         THEN /\ To(t, "put config")
              /\ UNCHANGED <<job, held, selected, seen, tools, outdated, moved>>
         ELSE Leave(t) /\ Forget(t)
    /\ UNCHANGED <<table, keys, owed, late>>

-----------------------------------------------------------------------------
(* Filling the keys: by a save, or by reload_and_cache_user_mcp             *)

PutConfig(t) ==
    /\ pc[t] = "put config"
    /\ config' = held[t]
    /\ To(t, "put schemas")
    /\ Writes(t)
    /\ UNCHANGED <<table, schemas, version, index, job, held, selected, seen, tools>>

PutSchemas(t) ==
    /\ pc[t] = "put schemas"
    /\ \E found \in Discoveries(held[t]) :
          /\ schemas' = found
          /\ tools' = IF job[t] = "turn" THEN [tools EXCEPT ![t] = found] ELSE tools
    /\ To(t, "put version")
    /\ Writes(t)
    /\ UNCHANGED <<table, config, version, index, job, held, selected, seen>>

\* The version comes last; a save is answered, a turn goes on with the schemas, if any.
PutVersion(t) ==
    /\ pc[t] = "put version"
    /\ version' = held[t]
    /\ late' = (late \/ t \in outdated)
    /\ outdated' = outdated \ {t}
    /\ IF job[t] = "save" \/ Empty(tools[t])
         THEN Leave(t) /\ moved' = (moved \ {t}) \union Turns(t)
         ELSE /\ To(t, "load") /\ held' = [held EXCEPT ![t] = None]
              /\ moved' = moved \union Turns(t)
              /\ UNCHANGED <<job, selected, seen, tools>>
    /\ UNCHANGED <<table, config, schemas, index, owed, torn>>

-----------------------------------------------------------------------------
(* A turn: agent_node, the user's MCP tools                                 *)

\* The version comes first.
Turn(t) ==
    /\ Start(t, "turn", IF version = None THEN "reload" ELSE "schemas")
    /\ seen' = [seen EXCEPT ![t] = IF version = None THEN V0 ELSE version]
    /\ moved' = IF owed \/ late THEN moved \union {t} ELSE moved \ {t}
    /\ UNCHANGED <<table, keys, index, held, selected, tools, owed, late, torn>>

GetSchemas(t) ==
    /\ pc[t] = "schemas"
    /\ tools' = [tools EXCEPT ![t] = IF Empty(schemas) THEN None ELSE schemas]
    /\ To(t, IF Empty(schemas) THEN "reload" ELSE "load")
    /\ UNCHANGED <<table, keys, index, job, held, selected, seen, history>>

\* reload_and_cache_user_mcp reads the row and then asks the servers, for seconds.
Reload(t) ==
    /\ pc[t] = "reload" /\ row # None
    /\ held' = [held EXCEPT ![t] = row]
    /\ To(t, "put config")
    /\ outdated' = outdated \ {t}
    /\ UNCHANGED <<table, keys, index, job, selected, seen, tools, owed, late, moved, torn>>

\* index_user_mcp_tools: nothing to do for the version that is indexed; else the old
\* points are deleted, then embedding and upsert may fail or die half-way, then the tools
\* are registered under the version.
IndexTools(t, cleared) ==
    \/ /\ indexed = seen[t]
       /\ UNCHANGED <<index, torn>>
    \/ /\ indexed # seen[t]
       /\ points' \in {Kept(cleared), Kept(cleared) \union {"others"}}
       /\ torn' = (torn \/ cleared)
       /\ UNCHANGED <<indexed, registry>>
    \/ /\ indexed # seen[t]
       /\ points' = Left(Kept(cleared)) \union {"registered"}
       /\ indexed' = seen[t] /\ registry' = tools[t]
       /\ torn' = (t \in moved)

\* A process that cannot open Qdrant has no index.
Index(t) ==
    /\ pc[t] = "index"
    /\ \/ \E cleared \in BOOLEAN : IndexTools(t, cleared)
       \/ UNCHANGED <<index, torn>>
    /\ Leave(t) /\ Forget(t)
    /\ UNCHANGED <<table, keys, owed, late>>

-----------------------------------------------------------------------------
(* mcp_tool_node, and _load_user_config for both                            *)

\* The tool node answers at once if the config is cached.
Exec(t) ==
    /\ config = None
    /\ Start(t, "exec", "load row")
    /\ UNCHANGED <<table, keys, index, held, selected, seen, tools, owed, late, moved, torn>>

\* With the config, or without one, the tool node answers; a turn goes on to the index.
Loaded(t) ==
    /\ moved' = IF job[t] = "exec" THEN moved \ {t} ELSE moved
    /\ outdated' = outdated \ {t}
    /\ IF job[t] = "exec"
         THEN Leave(t)
         ELSE /\ To(t, "index") /\ held' = [held EXCEPT ![t] = None]
              /\ UNCHANGED <<job, selected, seen, tools>>

\* The config, to name the servers in the prompt: a turn looks it up itself, and again in
\* _load_user_config when that finds none; the second read decides.
LoadCached(t) ==
    /\ pc[t] = "load"
    /\ IF config # None
         THEN Loaded(t)
         ELSE To(t, "load row") /\ UNCHANGED <<job, held, selected, seen, tools, outdated, moved>>
    /\ UNCHANGED <<table, keys, index, owed, late, torn>>

\* MUTANT of LoadRow: a missing row is cached, too.
LoadRowUnchecked(t) ==
    /\ pc[t] = "load row"
    /\ To(t, "load put") /\ held' = [held EXCEPT ![t] = row]
    /\ outdated' = outdated \ {t}
    /\ UNCHANGED <<table, keys, index, job, selected, seen, tools, owed, late, moved, torn>>

LoadRow(t) ==
    /\ pc[t] = "load row"
    /\ IF row = None
         THEN Loaded(t)
         ELSE /\ To(t, "load put") /\ held' = [held EXCEPT ![t] = row]
              /\ outdated' = outdated \ {t}
              /\ UNCHANGED <<job, selected, seen, tools, moved>>
    /\ UNCHANGED <<table, keys, index, owed, late, torn>>

LoadPut(t) ==
    /\ pc[t] = "load put"
    /\ config' = held[t]
    /\ late' = (late \/ t \in outdated)
    /\ outdated' = outdated \ {t}
    /\ IF job[t] = "exec"
         THEN Leave(t) /\ moved' = (moved \ {t}) \union Turns(t)
         ELSE /\ To(t, "index") /\ held' = [held EXCEPT ![t] = None]
              /\ moved' = moved \union Turns(t)
              /\ UNCHANGED <<job, selected, seen, tools>>
    /\ UNCHANGED <<table, schemas, version, index, owed, torn>>

\* A failed discovery, a row that is not there to reload, a Redis or database error, a
\* cancelled request: what is written stays written.  In a turn a failure to load the names
\* does not keep it from indexing.
Fail(t) ==
    /\ pc[t] # "idle"
    /\ Leave(t) /\ Forget(t)
    /\ stale' = stale \ {t}
    /\ UNCHANGED <<row, keys, index, owed, late, torn>>

NamesFail(t) ==
    /\ pc[t] \in {"load", "load row", "load put"} /\ job[t] = "turn"
    /\ To(t, "index")
    /\ held' = [held EXCEPT ![t] = None] /\ outdated' = outdated \ {t}
    /\ UNCHANGED <<table, keys, index, job, selected, seen, tools, owed, late, moved, torn>>

\* The worker that holds the index restarts: its memory is gone, the points are on disk.
Restart ==
    /\ indexed' = None /\ registry' = None /\ torn' = FALSE
    /\ points' = Left(points)
    /\ UNCHANGED <<table, keys, locals, outdated, owed, late, moved>>

Next ==
    \/ \E t \in Tasks :
          \/ \E c \in Configs : Save(t, c)
          \/ Delete(t) \/ Clear(t) \/ Turn(t) \/ Exec(t)
          \/ Commit(t) \/ CommitNothing(t) \/ CommitRaises(t)
          \/ DropKeys(t) \/ Evict(t) \/ PutConfig(t) \/ PutSchemas(t) \/ PutVersion(t)
          \/ GetSchemas(t) \/ Reload(t) \/ Index(t)
          \/ LoadCached(t) \/ LoadRow(t) \/ LoadPut(t) \/ Fail(t) \/ NamesFail(t)
    \/ Restart

Spec == Init /\ [][Next]_vars

-----------------------------------------------------------------------------

Places == {"idle", "commit", "drop", "evict", "put config", "put schemas", "put version",
           "schemas", "reload", "load", "load row", "load put", "index"}
Stored == Configs \union {None}
Found == Configs \X Offers

\* Type correctness; whoever writes a key has a config to write.
TypeOK ==
    /\ row \in Stored /\ config \in Stored /\ version \in Stored
    /\ schemas \in Found \union {None} /\ stale \subseteq Tasks
    /\ indexed \in Stored \union {V0}
    /\ registry \in Found \union {None} /\ points \subseteq {"registered", "others"}
    /\ pc \in [Tasks -> Places]
    /\ job \in [Tasks -> {"save", "delete", "turn", "exec", None}]
    /\ held \in [Tasks -> Stored] /\ selected \in [Tasks -> Stored]
    /\ seen \in [Tasks -> Stored \union {V0}] /\ tools \in [Tasks -> Found \union {None}]
    /\ \A t \in Tasks : pc[t] \in {"put config", "put schemas", "put version", "load put"} =>
          held[t] \in Configs
    /\ outdated \subseteq Tasks /\ moved \subseteq Tasks
    /\ {owed, late, torn} \subseteq BOOLEAN

\* The keys never expire, so a wrong one stays wrong.  A key differs from the row only
\* between a commit and its DEL (for good, if the request dies there), or if a task that
\* was overtaken by a commit has written it (mcp_config_router.py 131-138,
\* mcp_config_service.py 271-296).
KeysFollowRow ==
    owed \/ late \/ {config, Of(schemas), version} \subseteq {row, None}

\* A turn skips indexing when its version is the indexed one (vector_tool_retriever.py
\* 335-336).  Whatever other processes save, whoever restarts and whichever delete of points
\* fails, the index then holds a discovery of the config of that version, with its points,
\* unless others wrote during the turn that filled it, or its points were deleted for
\* another that was not written.  It need not be the latest discovery, and nothing is said of
\* the version "v0", under which a turn indexes whatever it has reloaded.
SkipIsSafe ==
    ~ torn /\ indexed \in Configs => registry \in Discoveries(indexed) /\ "registered" \in points

\* "Users re-PUT the same config to re-discover tools" (mcp_config_implementation_plan.md
\* 139): when nobody is busy and the keys are settled, the index of their version holds
\* what is in them.
RefreshSeen ==
    ~ torn /\ ~ owed /\ ~ late /\ (\A t \in Tasks : pc[t] = "idle") =>
       (version # None /\ indexed = version /\ ~ Empty(schemas) => registry = schemas)

\* "Delete the user's MCP config and clear all caches" (mcp_config_router.py 160).
DeletedConfigGone ==
    row = None /\ ~ owed /\ (\A t \in Tasks : pc[t] = "idle") => {config, schemas, version} = {None}

=============================================================================
