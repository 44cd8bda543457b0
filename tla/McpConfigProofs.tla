--------------------------- MODULE McpConfigProofs ---------------------------
(***************************************************************************)
(* Proofs about McpConfig, for any number of configs, answers and tasks.    *)
(***************************************************************************)
EXTENDS McpConfig, TLAPS

TaskStep(t) ==
    \/ \E c \in Configs : Save(t, c)
    \/ Delete(t) \/ Clear(t) \/ Turn(t) \/ Exec(t)
    \/ Commit(t) \/ CommitNothing(t) \/ CommitRaises(t)
    \/ DropKeys(t) \/ Evict(t) \/ PutConfig(t) \/ PutSchemas(t) \/ PutVersion(t)
    \/ GetSchemas(t) \/ Reload(t) \/ Index(t)
    \/ LoadCached(t) \/ LoadRow(t) \/ LoadPut(t) \/ Fail(t) \/ NamesFail(t)

LEMMA NextSteps == Next <=> (\E t \in Tasks : TaskStep(t)) \/ Restart
BY Zenon DEF Next, TaskStep

-----------------------------------------------------------------------------
(* Discoveries                                                              *)

LEMMA DiscoveryOf ==
  /\ \A c \in Configs : \A d \in Discoveries(c) : d \in Found /\ d # None /\ Of(d) = c
  /\ \A d \in Found : d # None /\ Of(d) \in Configs /\ d \in Discoveries(Of(d))
  /\ Of(None) = None
BY NamesDiffer DEF Discoveries, Found, Of

-----------------------------------------------------------------------------
(* The locals of a task                                                     *)

Kinds == {"save", "delete", "turn", "exec", None}
Saving == {"commit", "drop", "evict"}
Putting == {"put config", "put schemas", "put version"}
Loading == {"load row", "load put"}
Listed == {"load", "index"} \union Loading
Reading == {"schemas", "reload"} \union Putting \union Listed
FoundOrNone == Found \union {None}

Functions ==
    /\ pc \in [Tasks -> Places] /\ job \in [Tasks -> Kinds]
    /\ held \in [Tasks -> Stored] /\ selected \in [Tasks -> Stored]
    /\ seen \in [Tasks -> Stored \union {V0}] /\ tools \in [Tasks -> FoundOrNone]

\* What the place p of a task says about its locals.
LocalsAt(p, j, h, s, x) ==
    /\ h # None => p \in Saving \union Putting \union {"load put"}
    /\ p \in Saving =>
          /\ j \in {"save", "delete"}
          /\ j = "save" => h \in Configs
          /\ j = "delete" => h = None
    /\ p \in Putting => j \in {"save", "turn"} /\ h \in Configs
    /\ p = "load put" => h \in Configs
    /\ p \in {"schemas", "reload", "load", "index"} => j = "turn"
    /\ p \in Loading => j \in {"turn", "exec"}
    /\ j = "turn" /\ p \in Reading => s # None
    /\ j = "turn" /\ p \in Listed => x # None
    /\ s # None => j = "turn" /\ p \in Reading
    /\ p = "idle" => x = None

Locals(t) == LocalsAt(pc[t], job[t], held[t], seen[t], tools[t])

Globals ==
    /\ row \in Stored /\ config \in Stored /\ schemas \in FoundOrNone /\ version \in Stored
    /\ indexed \in Stored \union {V0} /\ registry \in FoundOrNone
    /\ points \subseteq {"registered", "others"}
    /\ stale \subseteq Tasks /\ outdated \subseteq Tasks /\ moved \subseteq Tasks
    /\ owed \in BOOLEAN /\ late \in BOOLEAN /\ torn \in BOOLEAN

Typed == Globals /\ Functions /\ \A t \in Tasks : Locals(t)

LEMMA TypedTypeOK == Typed => TypeOK
BY DEF Typed, Globals, Functions, Locals, LocalsAt, TypeOK, Kinds, Putting, FoundOrNone

-----------------------------------------------------------------------------
(* A step of t changes its locals to p, j, h, l, s, x and nobody else's.    *)

Moved(t, p, j, h, l, s, x) ==
    /\ pc' = [pc EXCEPT ![t] = p] /\ job' = [job EXCEPT ![t] = j]
    /\ held' = [held EXCEPT ![t] = h] /\ selected' = [selected EXCEPT ![t] = l]
    /\ seen' = [seen EXCEPT ![t] = s] /\ tools' = [tools EXCEPT ![t] = x]

Idle(t) == Moved(t, "idle", None, None, None, None, None)

Alone(t) == \A u \in Tasks \ {t} :
    /\ pc'[u] = pc[u] /\ job'[u] = job[u] /\ held'[u] = held[u]
    /\ selected'[u] = selected[u] /\ seen'[u] = seen[u] /\ tools'[u] = tools[u]

LEMMA Stays ==
  ASSUME Functions, NEW t \in Tasks
  PROVE  /\ pc = [pc EXCEPT ![t] = pc[t]] /\ job = [job EXCEPT ![t] = job[t]]
         /\ held = [held EXCEPT ![t] = held[t]] /\ selected = [selected EXCEPT ![t] = selected[t]]
         /\ seen = [seen EXCEPT ![t] = seen[t]] /\ tools = [tools EXCEPT ![t] = tools[t]]
         /\ pc[t] \in Places /\ job[t] \in Kinds /\ held[t] \in Stored /\ selected[t] \in Stored
         /\ seen[t] \in Stored \union {V0} /\ tools[t] \in FoundOrNone
BY DEF Functions

LEMMA Moving ==
  ASSUME Functions, \A u \in Tasks : Locals(u), NEW t \in Tasks,
         NEW p \in Places, NEW j \in Kinds, NEW h \in Stored, NEW l \in Stored,
         NEW s \in Stored \union {V0}, NEW x \in FoundOrNone,
         LocalsAt(p, j, h, s, x), Moved(t, p, j, h, l, s, x)
  PROVE  Functions' /\ (\A u \in Tasks : Locals(u)') /\ Alone(t)
<1>1. Functions'
  BY DEF Functions, Moved
<1>2. Alone(t) /\ pc'[t] = p /\ job'[t] = j /\ held'[t] = h /\ seen'[t] = s /\ tools'[t] = x
  BY DEF Functions, Moved, Alone
<1>3. ASSUME NEW u \in Tasks PROVE Locals(u)'
  <2>1. CASE u = t
    BY <1>2, <2>1 DEF Locals
  <2>2. CASE u # t
    BY <1>2, <2>2 DEF Locals, Alone
  <2> QED
    BY <2>1, <2>2
<1> QED
  BY <1>1, <1>2, <1>3

LEMMA MovingIdle ==
  ASSUME Functions, \A u \in Tasks : Locals(u), NEW t \in Tasks, Idle(t)
  PROVE  Functions' /\ (\A u \in Tasks : Locals(u)') /\ Alone(t)
<1>1. LocalsAt("idle", None, None, None, None)
  BY NamesDiffer DEF LocalsAt, Saving, Putting, Loading, Listed, Reading
<1> QED
  BY <1>1, Moving DEF Idle, Places, Kinds, Stored, FoundOrNone

-----------------------------------------------------------------------------
(* Type correctness                                                         *)

TypedLocals == Functions' /\ (\A u \in Tasks : Locals(u)')

LEMMA StepKept ==
  ASSUME Typed, NEW t \in Tasks, TaskStep(t)
  PROVE  TypedLocals /\ Alone(t)
<1> USE DEF Typed, TypedLocals
<1>0. /\ Functions /\ Globals /\ Locals(t)
      /\ None \in Stored /\ None \in Kinds /\ None \in FoundOrNone /\ \A c \in Configs : c \in Stored
  BY DEF Stored, Kinds, FoundOrNone
<1>1. ASSUME \E c \in Configs : Save(t, c) PROVE TypedLocals /\ Alone(t)
  <2> PICK c \in Configs : Save(t, c)
    BY <1>1
  <2>1. Moved(t, "commit", "save", c, row, seen[t], tools[t])
    BY <1>0, Stays DEF Save, Start, To, Leave, Forget, Moved, keys, index, locals, history
  <2>2. LocalsAt("commit", "save", c, seen[t], tools[t])
    BY <1>0, NamesDiffer DEF Save, Start, Stored, Globals, Locals, LocalsAt, Saving, Putting,
       Loading, Listed, Reading
  <2> QED
    BY <2>1, <2>2, <1>0, Stays, Moving DEF Globals, Places, Kinds, Stored
<1>2. ASSUME Delete(t) PROVE TypedLocals /\ Alone(t)
  <2>1. Moved(t, "commit", "delete", held[t], row, seen[t], tools[t])
    BY <1>2, <1>0, Stays DEF Delete, Start, To, Leave, Forget, Moved, keys, index, locals, history
  <2>2. LocalsAt("commit", "delete", held[t], seen[t], tools[t])
    BY <1>2, <1>0, NamesDiffer DEF Delete, Start, Stored, Globals, Locals, LocalsAt, Saving,
       Putting, Loading, Listed, Reading
  <2> QED
    BY <2>1, <2>2, <1>0, Stays, Moving DEF Globals, Places, Kinds, Stored
<1>3. ASSUME Clear(t) PROVE TypedLocals /\ Alone(t)
  <2>1. Moved(t, "drop", "delete", held[t], selected[t], seen[t], tools[t])
    BY <1>3, <1>0, Stays DEF Clear, Start, To, Leave, Forget, Moved, keys, index, locals, history
  <2>2. LocalsAt("drop", "delete", held[t], seen[t], tools[t])
    BY <1>3, <1>0, NamesDiffer DEF Clear, Start, Stored, Globals, Locals, LocalsAt, Saving,
       Putting, Loading, Listed, Reading
  <2> QED
    BY <2>1, <2>2, <1>0, Stays, Moving DEF Globals, Places, Kinds, Stored
<1>4. ASSUME Turn(t) PROVE TypedLocals /\ Alone(t)
  <2>1. CASE version = None
    <3>1. Moved(t, "reload", "turn", held[t], selected[t], V0, tools[t])
      BY <1>4, <2>1, <1>0, Stays DEF Turn, Start, To, Leave, Forget, Moved, keys, index, locals,
         history
    <3>2. LocalsAt("reload", "turn", held[t], V0, tools[t])
      BY <1>4, <2>1, <1>0, NamesDiffer DEF Turn, Start, Stored, Globals, Locals, LocalsAt,
         Saving, Putting, Loading, Listed, Reading
    <3> QED
      BY <3>1, <3>2, <1>0, Stays, Moving DEF Globals, Places, Kinds, Stored
  <2>2. CASE version # None
    <3>1. Moved(t, "schemas", "turn", held[t], selected[t], version, tools[t])
      BY <1>4, <2>2, <1>0, Stays DEF Turn, Start, To, Leave, Forget, Moved, keys, index, locals,
         history
    <3>2. LocalsAt("schemas", "turn", held[t], version, tools[t])
      BY <1>4, <2>2, <1>0, NamesDiffer DEF Turn, Start, Stored, Globals, Locals, LocalsAt,
         Saving, Putting, Loading, Listed, Reading
    <3> QED
      BY <3>1, <3>2, <1>0, Stays, Moving DEF Globals, Places, Kinds, Stored
  <2> QED
    BY <2>1, <2>2
<1>5. ASSUME Exec(t) PROVE TypedLocals /\ Alone(t)
  <2>1. Moved(t, "load row", "exec", held[t], selected[t], seen[t], tools[t])
    BY <1>5, <1>0, Stays DEF Exec, Start, To, Leave, Forget, Moved, keys, index, locals, history
  <2>2. LocalsAt("load row", "exec", held[t], seen[t], tools[t])
    BY <1>5, <1>0, NamesDiffer DEF Exec, Start, Stored, Globals, Locals, LocalsAt, Saving,
       Putting, Loading, Listed, Reading
  <2> QED
    BY <2>1, <2>2, <1>0, Stays, Moving DEF Globals, Places, Kinds, Stored
<1>6. ASSUME Commit(t) PROVE TypedLocals /\ Alone(t)
  <2>1. Moved(t, "drop", job[t], held[t], None, seen[t], tools[t])
    BY <1>6, <1>0, Stays DEF Commit, Start, To, Leave, Forget, Moved, keys, index, locals, history
  <2>2. LocalsAt("drop", job[t], held[t], seen[t], tools[t])
    BY <1>6, <1>0, NamesDiffer DEF Commit, Start, Stored, Globals, Locals, LocalsAt, Saving,
       Putting, Loading, Listed, Reading
  <2> QED
    BY <2>1, <2>2, <1>0, Stays, Moving DEF Globals, Places, Stored
<1>7. ASSUME CommitNothing(t) PROVE TypedLocals /\ Alone(t)
  <2>1. Moved(t, "drop", job[t], held[t], None, seen[t], tools[t])
    BY <1>7, <1>0, Stays DEF CommitNothing, Start, To, Leave, Forget, Moved, keys, index, locals,
       history
  <2>2. LocalsAt("drop", job[t], held[t], seen[t], tools[t])
    BY <1>7, <1>0, NamesDiffer DEF CommitNothing, Start, Stored, Globals, Locals, LocalsAt,
       Saving, Putting, Loading, Listed, Reading
  <2> QED
    BY <2>1, <2>2, <1>0, Stays, Moving DEF Globals, Places, Stored
<1>8. ASSUME CommitRaises(t) PROVE TypedLocals /\ Alone(t)
  <2>1. Idle(t)
    BY <1>8, <1>0, Stays DEF CommitRaises, Start, To, Leave, Forget, Idle, Moved, keys, index,
       locals, history
  <2> QED
    BY <2>1, MovingIdle
<1>9. ASSUME DropKeys(t) PROVE TypedLocals /\ Alone(t)
  <2>1. Moved(t, "evict", job[t], held[t], selected[t], seen[t], tools[t])
    BY <1>9, <1>0, Stays DEF DropKeys, Start, To, Leave, Forget, Moved, keys, index, locals,
       history
  <2>2. LocalsAt("evict", job[t], held[t], seen[t], tools[t])
    BY <1>9, <1>0, NamesDiffer DEF DropKeys, Start, Stored, Globals, Locals, LocalsAt, Saving,
       Putting, Loading, Listed, Reading
  <2> QED
    BY <2>1, <2>2, <1>0, Stays, Moving DEF Globals, Places, Stored
<1>10. ASSUME Evict(t) PROVE TypedLocals /\ Alone(t)
  <2>1. CASE job[t] = "save"
    <3>1. Moved(t, "put config", job[t], held[t], selected[t], seen[t], tools[t])
      BY <1>10, <2>1, <1>0, Stays DEF Evict, Start, To, Leave, Forget, Moved, keys, index,
         locals, history
    <3>2. LocalsAt("put config", job[t], held[t], seen[t], tools[t])
      BY <1>10, <2>1, <1>0, NamesDiffer DEF Evict, Start, Stored, Globals, Locals, LocalsAt,
         Saving, Putting, Loading, Listed, Reading
    <3> QED
      BY <3>1, <3>2, <1>0, Stays, Moving DEF Globals, Places, Stored
  <2>2. CASE job[t] # "save"
    <3>1. Idle(t)
      BY <1>10, <2>2, <1>0, Stays DEF Evict, Start, To, Leave, Forget, Idle, Moved, keys, index,
         locals, history
    <3> QED
      BY <3>1, MovingIdle
  <2> QED
    BY <2>1, <2>2
<1>11. ASSUME PutConfig(t) PROVE TypedLocals /\ Alone(t)
  <2>1. Moved(t, "put schemas", job[t], held[t], selected[t], seen[t], tools[t])
    BY <1>11, <1>0, Stays DEF PutConfig, Start, To, Leave, Forget, Moved, keys, index, locals,
       history
  <2>2. LocalsAt("put schemas", job[t], held[t], seen[t], tools[t])
    BY <1>11, <1>0, NamesDiffer DEF PutConfig, Start, Stored, Globals, Locals, LocalsAt, Saving,
       Putting, Loading, Listed, Reading
  <2> QED
    BY <2>1, <2>2, <1>0, Stays, Moving DEF Globals, Places, Stored
<1>12. ASSUME PutSchemas(t) PROVE TypedLocals /\ Alone(t)
  <2> PICK found \in Discoveries(held[t]) :
               tools' = IF job[t] = "turn" THEN [tools EXCEPT ![t] = found] ELSE tools
    BY <1>12 DEF PutSchemas
  <2>0. found \in FoundOrNone
    BY <1>12, <1>0, DiscoveryOf DEF PutSchemas, Locals, LocalsAt, Putting, FoundOrNone
  <2>1. CASE job[t] = "turn"
    <3>1. Moved(t, "put version", job[t], held[t], selected[t], seen[t], found)
      BY <1>12, <2>1, <1>0, Stays DEF PutSchemas, Start, To, Leave, Forget, Moved, keys, index,
         locals, history
    <3>2. LocalsAt("put version", job[t], held[t], seen[t], found)
      BY <1>12, <2>1, <1>0, NamesDiffer DEF PutSchemas, Start, Stored, Globals, Locals, LocalsAt,
         Saving, Putting, Loading, Listed, Reading
    <3> QED
      BY <3>1, <3>2, <1>0, <2>0, Stays, Moving DEF Globals, Places, Stored
  <2>2. CASE job[t] # "turn"
    <3>1. Moved(t, "put version", job[t], held[t], selected[t], seen[t], tools[t])
      BY <1>12, <2>2, <1>0, Stays DEF PutSchemas, Start, To, Leave, Forget, Moved, keys, index,
         locals, history
    <3>2. LocalsAt("put version", job[t], held[t], seen[t], tools[t])
      BY <1>12, <2>2, <1>0, NamesDiffer DEF PutSchemas, Start, Stored, Globals, Locals, LocalsAt,
         Saving, Putting, Loading, Listed, Reading
    <3> QED
      BY <3>1, <3>2, <1>0, <2>0, Stays, Moving DEF Globals, Places, Stored
  <2> QED
    BY <2>1, <2>2
<1>13. ASSUME PutVersion(t) PROVE TypedLocals /\ Alone(t)
  <2>1. CASE job[t] = "save" \/ Empty(tools[t])
    <3>1. Idle(t)
      BY <1>13, <2>1, <1>0, Stays DEF PutVersion, Start, To, Leave, Forget, Idle, Moved, keys,
         index, locals, history
    <3> QED
      BY <3>1, MovingIdle
  <2>2. CASE ~ (job[t] = "save" \/ Empty(tools[t]))
    <3>1. Moved(t, "load", job[t], None, selected[t], seen[t], tools[t])
      BY <1>13, <2>2, <1>0, Stays DEF PutVersion, Start, To, Leave, Forget, Moved, keys, index,
         locals, history
    <3>2. LocalsAt("load", job[t], None, seen[t], tools[t])
      BY <1>13, <2>2, <1>0, NamesDiffer DEF PutVersion, Start, Stored, Globals, Locals, LocalsAt,
         Saving, Putting, Loading, Listed, Reading, Empty
    <3> QED
      BY <3>1, <3>2, <1>0, Stays, Moving DEF Globals, Places, Stored
  <2> QED
    BY <2>1, <2>2
<1>14. ASSUME GetSchemas(t) PROVE TypedLocals /\ Alone(t)
  <2>1. CASE Empty(schemas)
    <3>1. Moved(t, "reload", job[t], held[t], selected[t], seen[t], None)
      BY <1>14, <2>1, <1>0, Stays DEF GetSchemas, Start, To, Leave, Forget, Moved, keys, index,
         locals, history
    <3>2. LocalsAt("reload", job[t], held[t], seen[t], None)
      BY <1>14, <2>1, <1>0, NamesDiffer DEF GetSchemas, Start, Stored, Globals, Locals, LocalsAt,
         Saving, Putting, Loading, Listed, Reading, Empty
    <3> QED
      BY <3>1, <3>2, <1>0, Stays, Moving DEF Globals, Places, Stored
  <2>2. CASE ~ Empty(schemas)
    <3>1. Moved(t, "load", job[t], held[t], selected[t], seen[t], schemas)
      BY <1>14, <2>2, <1>0, Stays DEF GetSchemas, Start, To, Leave, Forget, Moved, keys, index,
         locals, history
    <3>2. LocalsAt("load", job[t], held[t], seen[t], schemas)
      BY <1>14, <2>2, <1>0, NamesDiffer DEF GetSchemas, Start, Stored, Globals, Locals, LocalsAt,
         Saving, Putting, Loading, Listed, Reading, Empty
    <3> QED
      BY <3>1, <3>2, <1>0, Stays, Moving DEF Globals, Places, Stored
  <2> QED
    BY <2>1, <2>2
<1>15. ASSUME Reload(t) PROVE TypedLocals /\ Alone(t)
  <2>1. Moved(t, "put config", job[t], row, selected[t], seen[t], tools[t])
    BY <1>15, <1>0, Stays DEF Reload, Start, To, Leave, Forget, Moved, keys, index, locals,
       history
  <2>2. LocalsAt("put config", job[t], row, seen[t], tools[t])
    BY <1>15, <1>0, NamesDiffer DEF Reload, Start, Stored, Globals, Locals, LocalsAt, Saving,
       Putting, Loading, Listed, Reading
  <2> QED
    BY <2>1, <2>2, <1>0, Stays, Moving DEF Globals, Places, Stored
<1>16. ASSUME Index(t) PROVE TypedLocals /\ Alone(t)
  <2>1. Idle(t)
    BY <1>16, <1>0, Stays DEF Index, Start, To, Leave, Forget, Idle, Moved, keys, index, locals,
       history
  <2> QED
    BY <2>1, MovingIdle
<1>17. ASSUME LoadCached(t) PROVE TypedLocals /\ Alone(t)
  <2>1. CASE config # None /\ job[t] = "exec"
    <3>1. Idle(t)
      BY <1>17, <2>1, <1>0, Stays DEF LoadCached, Loaded, Start, To, Leave, Forget, Idle, Moved,
         keys, index, locals, history
    <3> QED
      BY <3>1, MovingIdle
  <2>2. CASE config # None /\ job[t] # "exec"
    <3>1. Moved(t, "index", job[t], None, selected[t], seen[t], tools[t])
      BY <1>17, <2>2, <1>0, Stays DEF LoadCached, Loaded, Start, To, Leave, Forget, Moved, keys,
         index, locals, history
    <3>2. LocalsAt("index", job[t], None, seen[t], tools[t])
      BY <1>17, <2>2, <1>0, NamesDiffer DEF LoadCached, Loaded, Start, Stored, Globals, Locals,
         LocalsAt, Saving, Putting, Loading, Listed, Reading
    <3> QED
      BY <3>1, <3>2, <1>0, Stays, Moving DEF Globals, Places, Stored
  <2>3. CASE config = None
    <3>1. Moved(t, "load row", job[t], held[t], selected[t], seen[t], tools[t])
      BY <1>17, <2>3, <1>0, Stays DEF LoadCached, Loaded, Start, To, Leave, Forget, Moved, keys,
         index, locals, history
    <3>2. LocalsAt("load row", job[t], held[t], seen[t], tools[t])
      BY <1>17, <2>3, <1>0, NamesDiffer DEF LoadCached, Loaded, Start, Stored, Globals, Locals,
         LocalsAt, Saving, Putting, Loading, Listed, Reading
    <3> QED
      BY <3>1, <3>2, <1>0, Stays, Moving DEF Globals, Places, Stored
  <2> QED
    BY <2>1, <2>2, <2>3
<1>18. ASSUME LoadRow(t) PROVE TypedLocals /\ Alone(t)
  <2>1. CASE row = None /\ job[t] = "exec"
    <3>1. Idle(t)
      BY <1>18, <2>1, <1>0, Stays DEF LoadRow, Loaded, Start, To, Leave, Forget, Idle, Moved,
         keys, index, locals, history
    <3> QED
      BY <3>1, MovingIdle
  <2>2. CASE row = None /\ job[t] # "exec"
    <3>1. Moved(t, "index", job[t], None, selected[t], seen[t], tools[t])
      BY <1>18, <2>2, <1>0, Stays DEF LoadRow, Loaded, Start, To, Leave, Forget, Moved, keys,
         index, locals, history
    <3>2. LocalsAt("index", job[t], None, seen[t], tools[t])
      BY <1>18, <2>2, <1>0, NamesDiffer DEF LoadRow, Loaded, Start, Stored, Globals, Locals,
         LocalsAt, Saving, Putting, Loading, Listed, Reading
    <3> QED
      BY <3>1, <3>2, <1>0, Stays, Moving DEF Globals, Places, Stored
  <2>3. CASE row # None
    <3>1. Moved(t, "load put", job[t], row, selected[t], seen[t], tools[t])
      BY <1>18, <2>3, <1>0, Stays DEF LoadRow, Loaded, Start, To, Leave, Forget, Moved, keys,
         index, locals, history
    <3>2. LocalsAt("load put", job[t], row, seen[t], tools[t])
      BY <1>18, <2>3, <1>0, NamesDiffer DEF LoadRow, Loaded, Start, Stored, Globals, Locals,
         LocalsAt, Saving, Putting, Loading, Listed, Reading
    <3> QED
      BY <3>1, <3>2, <1>0, Stays, Moving DEF Globals, Places, Stored
  <2> QED
    BY <2>1, <2>2, <2>3
<1>19. ASSUME LoadPut(t) PROVE TypedLocals /\ Alone(t)
  <2>1. CASE job[t] = "exec"
    <3>1. Idle(t)
      BY <1>19, <2>1, <1>0, Stays DEF LoadPut, Start, To, Leave, Forget, Idle, Moved, keys,
         index, locals, history
    <3> QED
      BY <3>1, MovingIdle
  <2>2. CASE job[t] # "exec"
    <3>1. Moved(t, "index", job[t], None, selected[t], seen[t], tools[t])
      BY <1>19, <2>2, <1>0, Stays DEF LoadPut, Start, To, Leave, Forget, Moved, keys, index,
         locals, history
    <3>2. LocalsAt("index", job[t], None, seen[t], tools[t])
      BY <1>19, <2>2, <1>0, NamesDiffer DEF LoadPut, Start, Stored, Globals, Locals, LocalsAt,
         Saving, Putting, Loading, Listed, Reading
    <3> QED
      BY <3>1, <3>2, <1>0, Stays, Moving DEF Globals, Places, Stored
  <2> QED
    BY <2>1, <2>2
<1>20. ASSUME Fail(t) PROVE TypedLocals /\ Alone(t)
  <2>1. Idle(t)
    BY <1>20, <1>0, Stays DEF Fail, Start, To, Leave, Forget, Idle, Moved, keys, index, locals,
       history
  <2> QED
    BY <2>1, MovingIdle
<1>21. ASSUME NamesFail(t) PROVE TypedLocals /\ Alone(t)
  <2>1. Moved(t, "index", job[t], None, selected[t], seen[t], tools[t])
    BY <1>21, <1>0, Stays DEF NamesFail, Start, To, Leave, Forget, Moved, keys, index, locals,
       history
  <2>2. LocalsAt("index", job[t], None, seen[t], tools[t])
    BY <1>21, <1>0, NamesDiffer DEF NamesFail, Start, Stored, Globals, Locals, LocalsAt, Saving,
       Putting, Loading, Listed, Reading
  <2> QED
    BY <2>1, <2>2, <1>0, Stays, Moving DEF Globals, Places, Stored
<1> QED
  BY <1>1, <1>2, <1>3, <1>4, <1>5, <1>6, <1>7, <1>8, <1>9, <1>10, <1>11, <1>12, <1>13, <1>14,
     <1>15, <1>16, <1>17, <1>18, <1>19, <1>20, <1>21 DEF TaskStep

LEMMA StepGlobals ==
  ASSUME Typed, NEW t \in Tasks, TaskStep(t)
  PROVE  Globals'
<1> USE NamesDiffer DEF Globals, Stored, FoundOrNone
<1>0. /\ Globals /\ held[t] \in Stored /\ tools[t] \in FoundOrNone /\ seen[t] \in Stored \union {V0}
  BY Stays DEF Typed
<1>1. ASSUME \E c \in Configs : Save(t, c) PROVE Globals'
  BY <1>1, <1>0 DEF Save, Start, Forget, Writes, Turns, Writers, Selected, table, keys, index,
     history
<1>2. ASSUME Delete(t) PROVE Globals'
  BY <1>2, <1>0 DEF Delete, Start, Forget, Writes, Turns, Writers, Selected, table, keys, index,
     history
<1>3. ASSUME Clear(t) PROVE Globals'
  BY <1>3, <1>0 DEF Clear, Start, Forget, Writes, Turns, Writers, Selected, table, keys, index,
     history
<1>4. ASSUME Turn(t) PROVE Globals'
  <2>1. row' \in Stored /\ config' \in Stored /\ version' \in Stored
    BY <1>4, <1>0 DEF Turn, Start, Forget, Writes, Turns, Writers, Selected, table, keys, index,
       history
  <2>2. schemas' \in FoundOrNone /\ registry' \in FoundOrNone
    BY <1>4, <1>0 DEF Turn, Start, Forget, Writes, Turns, Writers, Selected, table, keys, index,
       history
  <2>3. indexed' \in Stored \union {V0}
    BY <1>4, <1>0 DEF Turn, Start, Forget, Writes, Turns, Writers, Selected, table, keys, index,
       history
  <2>4. points' \subseteq {"registered", "others"}
    BY <1>4, <1>0 DEF Turn, Start, Forget, Writes, Turns, Writers, Selected, table, keys, index,
       history
  <2>5. stale' \subseteq Tasks /\ outdated' \subseteq Tasks /\ moved' \subseteq Tasks
    BY <1>4, <1>0 DEF Turn, Start, Forget, Writes, Turns, Writers, Selected, table, keys, index,
       history
  <2>6. owed' \in BOOLEAN /\ late' \in BOOLEAN
    BY <1>4, <1>0 DEF Turn, Start, Forget, Writes, Turns, Writers, Selected, table, keys, index,
       history
  <2>7. torn' \in BOOLEAN
    BY <1>4, <1>0 DEF Turn, Start, Forget, Writes, Turns, Writers, Selected, table, keys, index,
       history
  <2> QED
    BY <2>1, <2>2, <2>3, <2>4, <2>5, <2>6, <2>7
<1>5. ASSUME Exec(t) PROVE Globals'
  BY <1>5, <1>0 DEF Exec, Start, Forget, Writes, Turns, Writers, Selected, table, keys, index,
     history
<1>6. ASSUME Commit(t) PROVE Globals'
  <2>1. row' \in Stored /\ config' \in Stored /\ version' \in Stored
    BY <1>6, <1>0 DEF Commit, Start, Forget, Writes, Turns, Writers, Selected, table, keys,
       index, history
  <2>2. schemas' \in FoundOrNone /\ registry' \in FoundOrNone
    BY <1>6, <1>0 DEF Commit, Start, Forget, Writes, Turns, Writers, Selected, table, keys,
       index, history
  <2>3. indexed' \in Stored \union {V0}
    BY <1>6, <1>0 DEF Commit, Start, Forget, Writes, Turns, Writers, Selected, table, keys,
       index, history
  <2>4. points' \subseteq {"registered", "others"}
    BY <1>6, <1>0 DEF Commit, Start, Forget, Writes, Turns, Writers, Selected, table, keys,
       index, history
  <2>5. stale' \subseteq Tasks /\ outdated' \subseteq Tasks /\ moved' \subseteq Tasks
    BY <1>6, <1>0 DEF Commit, Start, Forget, Writes, Turns, Writers, Selected, table, keys,
       index, history
  <2>6. owed' \in BOOLEAN /\ late' \in BOOLEAN
    BY <1>6, <1>0 DEF Commit, Start, Forget, Writes, Turns, Writers, Selected, table, keys,
       index, history
  <2>7. torn' \in BOOLEAN
    BY <1>6, <1>0 DEF Commit, Start, Forget, Writes, Turns, Writers, Selected, table, keys,
       index, history
  <2> QED
    BY <2>1, <2>2, <2>3, <2>4, <2>5, <2>6, <2>7
<1>7. ASSUME CommitNothing(t) PROVE Globals'
  <2>1. row' \in Stored /\ config' \in Stored /\ version' \in Stored
    BY <1>7, <1>0 DEF CommitNothing, Start, Forget, Writes, Turns, Writers, Selected, table,
       keys, index, history
  <2>2. schemas' \in FoundOrNone /\ registry' \in FoundOrNone
    BY <1>7, <1>0 DEF CommitNothing, Start, Forget, Writes, Turns, Writers, Selected, table,
       keys, index, history
  <2>3. indexed' \in Stored \union {V0}
    BY <1>7, <1>0 DEF CommitNothing, Start, Forget, Writes, Turns, Writers, Selected, table,
       keys, index, history
  <2>4. points' \subseteq {"registered", "others"}
    BY <1>7, <1>0 DEF CommitNothing, Start, Forget, Writes, Turns, Writers, Selected, table,
       keys, index, history
  <2>5. stale' \subseteq Tasks /\ outdated' \subseteq Tasks /\ moved' \subseteq Tasks
    BY <1>7, <1>0 DEF CommitNothing, Start, Forget, Writes, Turns, Writers, Selected, table,
       keys, index, history
  <2>6. owed' \in BOOLEAN /\ late' \in BOOLEAN
    BY <1>7, <1>0 DEF CommitNothing, Start, Forget, Writes, Turns, Writers, Selected, table,
       keys, index, history
  <2>7. torn' \in BOOLEAN
    BY <1>7, <1>0 DEF CommitNothing, Start, Forget, Writes, Turns, Writers, Selected, table,
       keys, index, history
  <2> QED
    BY <2>1, <2>2, <2>3, <2>4, <2>5, <2>6, <2>7
<1>8. ASSUME CommitRaises(t) PROVE Globals'
  BY <1>8, <1>0 DEF CommitRaises, Start, Forget, Writes, Turns, Writers, Selected, table, keys,
     index, history
<1>9. ASSUME DropKeys(t) PROVE Globals'
  <2>1. row' \in Stored /\ config' \in Stored /\ version' \in Stored
    BY <1>9, <1>0 DEF DropKeys, Start, Forget, Writes, Turns, Writers, Selected, table, keys,
       index, history
  <2>2. schemas' \in FoundOrNone /\ registry' \in FoundOrNone
    BY <1>9, <1>0 DEF DropKeys, Start, Forget, Writes, Turns, Writers, Selected, table, keys,
       index, history
  <2>3. indexed' \in Stored \union {V0}
    BY <1>9, <1>0 DEF DropKeys, Start, Forget, Writes, Turns, Writers, Selected, table, keys,
       index, history
  <2>4. points' \subseteq {"registered", "others"}
    BY <1>9, <1>0 DEF DropKeys, Start, Forget, Writes, Turns, Writers, Selected, table, keys,
       index, history
  <2>5. stale' \subseteq Tasks /\ outdated' \subseteq Tasks /\ moved' \subseteq Tasks
    BY <1>9, <1>0 DEF DropKeys, Start, Forget, Writes, Turns, Writers, Selected, table, keys,
       index, history
  <2>6. owed' \in BOOLEAN /\ late' \in BOOLEAN
    BY <1>9, <1>0 DEF DropKeys, Start, Forget, Writes, Turns, Writers, Selected, table, keys,
       index, history
  <2>7. torn' \in BOOLEAN
    BY <1>9, <1>0 DEF DropKeys, Start, Forget, Writes, Turns, Writers, Selected, table, keys,
       index, history
  <2> QED
    BY <2>1, <2>2, <2>3, <2>4, <2>5, <2>6, <2>7
<1>10. ASSUME Evict(t) PROVE Globals'
  <2>1. row' \in Stored /\ config' \in Stored /\ version' \in Stored
    BY <1>10, <1>0 DEF Evict, EvictIndex, Kept, Left, Start, Forget, Writes, Turns, Writers,
       Selected, table, keys, index, history
  <2>2. schemas' \in FoundOrNone /\ registry' \in FoundOrNone
    BY <1>10, <1>0 DEF Evict, EvictIndex, Kept, Left, Start, Forget, Writes, Turns, Writers,
       Selected, table, keys, index, history
  <2>3. indexed' \in Stored \union {V0}
    BY <1>10, <1>0 DEF Evict, EvictIndex, Kept, Left, Start, Forget, Writes, Turns, Writers,
       Selected, table, keys, index, history
  <2>4. points' \subseteq {"registered", "others"}
    BY <1>10, <1>0 DEF Evict, EvictIndex, Kept, Left, Start, Forget, Writes, Turns, Writers,
       Selected, table, keys, index, history
  <2>5. stale' \subseteq Tasks /\ outdated' \subseteq Tasks /\ moved' \subseteq Tasks
    BY <1>10, <1>0 DEF Evict, EvictIndex, Kept, Left, Start, Forget, Writes, Turns, Writers,
       Selected, table, keys, index, history
  <2>6. owed' \in BOOLEAN /\ late' \in BOOLEAN
    BY <1>10, <1>0 DEF Evict, EvictIndex, Kept, Left, Start, Forget, Writes, Turns, Writers,
       Selected, table, keys, index, history
  <2>7. torn' \in BOOLEAN
    BY <1>10, <1>0 DEF Evict, EvictIndex, Kept, Left, Start, Forget, Writes, Turns, Writers,
       Selected, table, keys, index, history
  <2> QED
    BY <2>1, <2>2, <2>3, <2>4, <2>5, <2>6, <2>7
<1>11. ASSUME PutConfig(t) PROVE Globals'
  <2>1. row' \in Stored /\ config' \in Stored /\ version' \in Stored
    BY <1>11, <1>0 DEF PutConfig, Start, Forget, Writes, Turns, Writers, Selected, table, keys,
       index, history
  <2>2. schemas' \in FoundOrNone /\ registry' \in FoundOrNone
    BY <1>11, <1>0 DEF PutConfig, Start, Forget, Writes, Turns, Writers, Selected, table, keys,
       index, history
  <2>3. indexed' \in Stored \union {V0}
    BY <1>11, <1>0 DEF PutConfig, Start, Forget, Writes, Turns, Writers, Selected, table, keys,
       index, history
  <2>4. points' \subseteq {"registered", "others"}
    BY <1>11, <1>0 DEF PutConfig, Start, Forget, Writes, Turns, Writers, Selected, table, keys,
       index, history
  <2>5. stale' \subseteq Tasks /\ outdated' \subseteq Tasks /\ moved' \subseteq Tasks
    BY <1>11, <1>0 DEF PutConfig, Start, Forget, Writes, Turns, Writers, Selected, table, keys,
       index, history
  <2>6. owed' \in BOOLEAN /\ late' \in BOOLEAN
    BY <1>11, <1>0 DEF PutConfig, Start, Forget, Writes, Turns, Writers, Selected, table, keys,
       index, history
  <2>7. torn' \in BOOLEAN
    BY <1>11, <1>0 DEF PutConfig, Start, Forget, Writes, Turns, Writers, Selected, table, keys,
       index, history
  <2> QED
    BY <2>1, <2>2, <2>3, <2>4, <2>5, <2>6, <2>7
<1>12. ASSUME PutSchemas(t) PROVE Globals'
  <2>0. \A found \in Discoveries(held[t]) : found \in FoundOrNone
    BY <1>12, <1>0, DiscoveryOf DEF Typed, PutSchemas, Locals, LocalsAt, Putting
  <2>1. row' \in Stored /\ config' \in Stored /\ version' \in Stored
    BY <1>12, <1>0, <2>0 DEF PutSchemas, Discoveries, Start, Forget, Writes, Turns, Writers,
       Selected, table, keys, index, history
  <2>2. schemas' \in FoundOrNone /\ registry' \in FoundOrNone
    BY <1>12, <1>0, <2>0 DEF PutSchemas, Discoveries, Start, Forget, Writes, Turns, Writers,
       Selected, table, keys, index, history
  <2>3. indexed' \in Stored \union {V0}
    BY <1>12, <1>0, <2>0 DEF PutSchemas, Discoveries, Start, Forget, Writes, Turns, Writers,
       Selected, table, keys, index, history
  <2>4. points' \subseteq {"registered", "others"}
    BY <1>12, <1>0, <2>0 DEF PutSchemas, Discoveries, Start, Forget, Writes, Turns, Writers,
       Selected, table, keys, index, history
  <2>5. stale' \subseteq Tasks /\ outdated' \subseteq Tasks /\ moved' \subseteq Tasks
    BY <1>12, <1>0, <2>0 DEF PutSchemas, Discoveries, Start, Forget, Writes, Turns, Writers,
       Selected, table, keys, index, history
  <2>6. owed' \in BOOLEAN /\ late' \in BOOLEAN
    BY <1>12, <1>0, <2>0 DEF PutSchemas, Discoveries, Start, Forget, Writes, Turns, Writers,
       Selected, table, keys, index, history
  <2>7. torn' \in BOOLEAN
    BY <1>12, <1>0 DEF PutSchemas, Discoveries, Start, Forget, Writes, Turns, Writers, Selected,
       table, keys, index, history
  <2> QED
    BY <2>1, <2>2, <2>3, <2>4, <2>5, <2>6, <2>7
<1>13. ASSUME PutVersion(t) PROVE Globals'
  <2>1. row' \in Stored /\ config' \in Stored /\ version' \in Stored
    BY <1>13, <1>0 DEF PutVersion, Start, Forget, Writes, Turns, Writers, Selected, table, keys,
       index, history
  <2>2. schemas' \in FoundOrNone /\ registry' \in FoundOrNone
    BY <1>13, <1>0 DEF PutVersion, Start, Forget, Writes, Turns, Writers, Selected, table, keys,
       index, history
  <2>3. indexed' \in Stored \union {V0}
    BY <1>13, <1>0 DEF PutVersion, Start, Forget, Writes, Turns, Writers, Selected, table, keys,
       index, history
  <2>4. points' \subseteq {"registered", "others"}
    BY <1>13, <1>0 DEF PutVersion, Start, Forget, Writes, Turns, Writers, Selected, table, keys,
       index, history
  <2>5. stale' \subseteq Tasks /\ outdated' \subseteq Tasks /\ moved' \subseteq Tasks
    BY <1>13, <1>0 DEF PutVersion, Start, Forget, Writes, Turns, Writers, Selected, table, keys,
       index, history
  <2>6. owed' \in BOOLEAN /\ late' \in BOOLEAN
    BY <1>13, <1>0 DEF PutVersion, Start, Forget, Writes, Turns, Writers, Selected, table, keys,
       index, history
  <2>7. torn' \in BOOLEAN
    BY <1>13, <1>0 DEF PutVersion, Start, Forget, Writes, Turns, Writers, Selected, table, keys,
       index, history
  <2> QED
    BY <2>1, <2>2, <2>3, <2>4, <2>5, <2>6, <2>7
<1>14. ASSUME GetSchemas(t) PROVE Globals'
  BY <1>14, <1>0 DEF GetSchemas, Start, Forget, Writes, Turns, Writers, Selected, table, keys,
     index, history
<1>15. ASSUME Reload(t) PROVE Globals'
  <2>1. row' \in Stored /\ config' \in Stored /\ version' \in Stored
    BY <1>15, <1>0 DEF Reload, Start, Forget, Writes, Turns, Writers, Selected, table, keys,
       index, history
  <2>2. schemas' \in FoundOrNone /\ registry' \in FoundOrNone
    BY <1>15, <1>0 DEF Reload, Start, Forget, Writes, Turns, Writers, Selected, table, keys,
       index, history
  <2>3. indexed' \in Stored \union {V0}
    BY <1>15, <1>0 DEF Reload, Start, Forget, Writes, Turns, Writers, Selected, table, keys,
       index, history
  <2>4. points' \subseteq {"registered", "others"}
    BY <1>15, <1>0 DEF Reload, Start, Forget, Writes, Turns, Writers, Selected, table, keys,
       index, history
  <2>5. stale' \subseteq Tasks /\ outdated' \subseteq Tasks /\ moved' \subseteq Tasks
    BY <1>15, <1>0 DEF Reload, Start, Forget, Writes, Turns, Writers, Selected, table, keys,
       index, history
  <2>6. owed' \in BOOLEAN /\ late' \in BOOLEAN
    BY <1>15, <1>0 DEF Reload, Start, Forget, Writes, Turns, Writers, Selected, table, keys,
       index, history
  <2>7. torn' \in BOOLEAN
    BY <1>15, <1>0 DEF Reload, Start, Forget, Writes, Turns, Writers, Selected, table, keys,
       index, history
  <2> QED
    BY <2>1, <2>2, <2>3, <2>4, <2>5, <2>6, <2>7
<1>16. ASSUME Index(t) PROVE Globals'
  <2>1. row' \in Stored /\ config' \in Stored /\ version' \in Stored
    BY <1>16, <1>0 DEF Index, IndexTools, Kept, Left, Start, Forget, Writes, Turns, Writers,
       Selected, table, keys, index, history
  <2>2. schemas' \in FoundOrNone /\ registry' \in FoundOrNone
    BY <1>16, <1>0 DEF Index, IndexTools, Kept, Left, Start, Forget, Writes, Turns, Writers,
       Selected, table, keys, index, history
  <2>3. indexed' \in Stored \union {V0}
    BY <1>16, <1>0 DEF Index, IndexTools, Kept, Left, Start, Forget, Writes, Turns, Writers,
       Selected, table, keys, index, history
  <2>4. points' \subseteq {"registered", "others"}
    BY <1>16, <1>0 DEF Index, IndexTools, Kept, Left, Start, Forget, Writes, Turns, Writers,
       Selected, table, keys, index, history
  <2>5. stale' \subseteq Tasks /\ outdated' \subseteq Tasks /\ moved' \subseteq Tasks
    BY <1>16, <1>0 DEF Index, IndexTools, Kept, Left, Start, Forget, Writes, Turns, Writers,
       Selected, table, keys, index, history
  <2>6. owed' \in BOOLEAN /\ late' \in BOOLEAN
    BY <1>16, <1>0 DEF Index, IndexTools, Kept, Left, Start, Forget, Writes, Turns, Writers,
       Selected, table, keys, index, history
  <2>7. \/ torn' = torn
        \/ \E b \in BOOLEAN : torn' = (torn \/ b)
        \/ torn' = (t \in moved)
    BY Zenon, <1>16 DEF Index, IndexTools, index
  <2>8. torn' \in BOOLEAN
    <3>1. CASE torn' = torn
      BY <1>0, <3>1
    <3>2. CASE \E b \in BOOLEAN : torn' = (torn \/ b)
      BY <3>2
    <3>3. CASE torn' = (t \in moved)
      BY <3>3
    <3> QED
      BY <2>7, <3>1, <3>2, <3>3
  <2> QED
    BY <2>1, <2>2, <2>3, <2>4, <2>5, <2>6, <2>8
<1>17. ASSUME LoadCached(t) PROVE Globals'
  <2>1. row' \in Stored /\ config' \in Stored /\ version' \in Stored
    BY <1>17, <1>0 DEF LoadCached, Loaded, Start, Forget, Writes, Turns, Writers, Selected,
       table, keys, index, history
  <2>2. schemas' \in FoundOrNone /\ registry' \in FoundOrNone
    BY <1>17, <1>0 DEF LoadCached, Loaded, Start, Forget, Writes, Turns, Writers, Selected,
       table, keys, index, history
  <2>3. indexed' \in Stored \union {V0}
    BY <1>17, <1>0 DEF LoadCached, Loaded, Start, Forget, Writes, Turns, Writers, Selected,
       table, keys, index, history
  <2>4. points' \subseteq {"registered", "others"}
    BY <1>17, <1>0 DEF LoadCached, Loaded, Start, Forget, Writes, Turns, Writers, Selected,
       table, keys, index, history
  <2>5. stale' \subseteq Tasks /\ outdated' \subseteq Tasks /\ moved' \subseteq Tasks
    BY <1>17, <1>0 DEF LoadCached, Loaded, Start, Forget, Writes, Turns, Writers, Selected,
       table, keys, index, history
  <2>6. owed' \in BOOLEAN /\ late' \in BOOLEAN
    BY <1>17, <1>0 DEF LoadCached, Loaded, Start, Forget, Writes, Turns, Writers, Selected,
       table, keys, index, history
  <2>7. torn' \in BOOLEAN
    BY <1>17, <1>0 DEF LoadCached, Loaded, Start, Forget, Writes, Turns, Writers, Selected,
       table, keys, index, history
  <2> QED
    BY <2>1, <2>2, <2>3, <2>4, <2>5, <2>6, <2>7
<1>18. ASSUME LoadRow(t) PROVE Globals'
  <2>1. row' \in Stored /\ config' \in Stored /\ version' \in Stored
    BY <1>18, <1>0 DEF LoadRow, Loaded, Start, Forget, Writes, Turns, Writers, Selected, table,
       keys, index, history
  <2>2. schemas' \in FoundOrNone /\ registry' \in FoundOrNone
    BY <1>18, <1>0 DEF LoadRow, Loaded, Start, Forget, Writes, Turns, Writers, Selected, table,
       keys, index, history
  <2>3. indexed' \in Stored \union {V0}
    BY <1>18, <1>0 DEF LoadRow, Loaded, Start, Forget, Writes, Turns, Writers, Selected, table,
       keys, index, history
  <2>4. points' \subseteq {"registered", "others"}
    BY <1>18, <1>0 DEF LoadRow, Loaded, Start, Forget, Writes, Turns, Writers, Selected, table,
       keys, index, history
  <2>5. stale' \subseteq Tasks /\ outdated' \subseteq Tasks /\ moved' \subseteq Tasks
    BY <1>18, <1>0 DEF LoadRow, Loaded, Start, Forget, Writes, Turns, Writers, Selected, table,
       keys, index, history
  <2>6. owed' \in BOOLEAN /\ late' \in BOOLEAN
    BY <1>18, <1>0 DEF LoadRow, Loaded, Start, Forget, Writes, Turns, Writers, Selected, table,
       keys, index, history
  <2>7. torn' \in BOOLEAN
    BY <1>18, <1>0 DEF LoadRow, Loaded, Start, Forget, Writes, Turns, Writers, Selected, table,
       keys, index, history
  <2> QED
    BY <2>1, <2>2, <2>3, <2>4, <2>5, <2>6, <2>7
<1>19. ASSUME LoadPut(t) PROVE Globals'
  <2>1. row' \in Stored /\ config' \in Stored /\ version' \in Stored
    BY <1>19, <1>0 DEF LoadPut, Start, Forget, Writes, Turns, Writers, Selected, table, keys,
       index, history
  <2>2. schemas' \in FoundOrNone /\ registry' \in FoundOrNone
    BY <1>19, <1>0 DEF LoadPut, Start, Forget, Writes, Turns, Writers, Selected, table, keys,
       index, history
  <2>3. indexed' \in Stored \union {V0}
    BY <1>19, <1>0 DEF LoadPut, Start, Forget, Writes, Turns, Writers, Selected, table, keys,
       index, history
  <2>4. points' \subseteq {"registered", "others"}
    BY <1>19, <1>0 DEF LoadPut, Start, Forget, Writes, Turns, Writers, Selected, table, keys,
       index, history
  <2>5. stale' \subseteq Tasks /\ outdated' \subseteq Tasks /\ moved' \subseteq Tasks
    BY <1>19, <1>0 DEF LoadPut, Start, Forget, Writes, Turns, Writers, Selected, table, keys,
       index, history
  <2>6. owed' \in BOOLEAN /\ late' \in BOOLEAN
    BY <1>19, <1>0 DEF LoadPut, Start, Forget, Writes, Turns, Writers, Selected, table, keys,
       index, history
  <2>7. torn' \in BOOLEAN
    BY <1>19, <1>0 DEF LoadPut, Start, Forget, Writes, Turns, Writers, Selected, table, keys,
       index, history
  <2> QED
    BY <2>1, <2>2, <2>3, <2>4, <2>5, <2>6, <2>7
<1>20. ASSUME Fail(t) PROVE Globals'
  BY <1>20, <1>0 DEF Fail, Start, Forget, Writes, Turns, Writers, Selected, table, keys, index,
     history
<1>21. ASSUME NamesFail(t) PROVE Globals'
  <2>1. row' \in Stored /\ config' \in Stored /\ version' \in Stored
    BY <1>21, <1>0 DEF NamesFail, Start, Forget, Writes, Turns, Writers, Selected, table, keys,
       index, history
  <2>2. schemas' \in FoundOrNone /\ registry' \in FoundOrNone
    BY <1>21, <1>0 DEF NamesFail, Start, Forget, Writes, Turns, Writers, Selected, table, keys,
       index, history
  <2>3. indexed' \in Stored \union {V0}
    BY <1>21, <1>0 DEF NamesFail, Start, Forget, Writes, Turns, Writers, Selected, table, keys,
       index, history
  <2>4. points' \subseteq {"registered", "others"}
    BY <1>21, <1>0 DEF NamesFail, Start, Forget, Writes, Turns, Writers, Selected, table, keys,
       index, history
  <2>5. stale' \subseteq Tasks /\ outdated' \subseteq Tasks /\ moved' \subseteq Tasks
    BY <1>21, <1>0 DEF NamesFail, Start, Forget, Writes, Turns, Writers, Selected, table, keys,
       index, history
  <2>6. owed' \in BOOLEAN /\ late' \in BOOLEAN
    BY <1>21, <1>0 DEF NamesFail, Start, Forget, Writes, Turns, Writers, Selected, table, keys,
       index, history
  <2>7. torn' \in BOOLEAN
    BY <1>21, <1>0 DEF NamesFail, Start, Forget, Writes, Turns, Writers, Selected, table, keys,
       index, history
  <2> QED
    BY <2>1, <2>2, <2>3, <2>4, <2>5, <2>6, <2>7
<1> QED
  BY <1>1, <1>2, <1>3, <1>4, <1>5, <1>6, <1>7, <1>8, <1>9, <1>10, <1>11, <1>12, <1>13, <1>14,
     <1>15, <1>16, <1>17, <1>18, <1>19, <1>20, <1>21 DEF TaskStep

LEMMA InitTyped == Init => Typed
BY NamesDiffer DEF Init, Typed, Globals, Functions, Locals, LocalsAt, Places, Stored, Kinds,
   FoundOrNone, Saving, Putting, Loading, Listed, Reading

LEMMA NextTyped == Typed /\ [Next]_vars => Typed'
<1> SUFFICES ASSUME Typed, [Next]_vars PROVE Typed'
  OBVIOUS
<1>1. ASSUME NEW t \in Tasks, TaskStep(t) PROVE Typed'
  BY <1>1, StepKept, StepGlobals DEF Typed, TypedLocals
<1>2. CASE Restart
  BY <1>2 DEF Restart, Left, table, locals, keys, Typed, Globals, Functions, Locals, Stored,
     FoundOrNone
<1>3. CASE UNCHANGED vars
  BY <1>3 DEF vars, table, locals, keys, index, history, Typed, Globals, Functions, Locals
<1> QED
  BY <1>1, <1>2, <1>3, NextSteps

\* The keys, the index and the tasks keep their types, and who writes a key has a config.
THEOREM TypeCorrect == Spec => []TypeOK
<1>1. Init => Typed
  BY InitTyped
<1>2. Typed /\ [Next]_vars => Typed'
  BY NextTyped
<1>3. Typed => TypeOK
  BY TypedTypeOK
<1> QED
  BY <1>1, <1>2, <1>3, PTL DEF Spec

-----------------------------------------------------------------------------
(* The keys follow the row                                                  *)

\* A task that no commit has overtaken writes what the row holds.
Fresh(t) == t \notin outdated =>
    /\ pc[t] \in {"drop", "evict"} /\ job[t] = "save" => held[t] = row
    /\ pc[t] \in Putting \union {"load put"} => held[t] = row
    /\ pc[t] = "commit" /\ job[t] = "save" => selected[t] = row

Following == Typed /\ KeysFollowRow /\ \A t \in Tasks : Fresh(t)

\* The keys and the row are left alone but by these steps.
LEMMA Writing ==
  ASSUME NEW t \in Tasks, TaskStep(t)
  PROVE  \/ Commit(t) \/ DropKeys(t)
         \/ PutConfig(t) \/ PutSchemas(t) \/ PutVersion(t) \/ LoadPut(t)
         \/ UNCHANGED <<row, config, schemas, version, owed, late>>
<1> USE DEF table, keys, history
<1>1. (\E c \in Configs : Save(t, c)) => UNCHANGED <<row, config, schemas, version, owed, late>>
  BY DEF Save
<1>2. Delete(t) => UNCHANGED <<row, config, schemas, version, owed, late>>
  BY DEF Delete
<1>3. Clear(t) => UNCHANGED <<row, config, schemas, version, owed, late>>
  BY DEF Clear
<1>4. Turn(t) => UNCHANGED <<row, config, schemas, version, owed, late>>
  BY DEF Turn
<1>5. Exec(t) => UNCHANGED <<row, config, schemas, version, owed, late>>
  BY DEF Exec
<1>7. CommitNothing(t) => UNCHANGED <<row, config, schemas, version, owed, late>>
  BY DEF CommitNothing
<1>8. CommitRaises(t) => UNCHANGED <<row, config, schemas, version, owed, late>>
  BY DEF CommitRaises
<1>10. Evict(t) => UNCHANGED <<row, config, schemas, version, owed, late>>
  BY DEF Evict
<1>14. GetSchemas(t) => UNCHANGED <<row, config, schemas, version, owed, late>>
  BY DEF GetSchemas
<1>15. Reload(t) => UNCHANGED <<row, config, schemas, version, owed, late>>
  BY DEF Reload
<1>16. Index(t) => UNCHANGED <<row, config, schemas, version, owed, late>>
  BY DEF Index
<1>17. LoadCached(t) => UNCHANGED <<row, config, schemas, version, owed, late>>
  BY DEF LoadCached
<1>18. LoadRow(t) => UNCHANGED <<row, config, schemas, version, owed, late>>
  BY DEF LoadRow
<1>20. Fail(t) => UNCHANGED <<row, config, schemas, version, owed, late>>
  BY DEF Fail
<1>21. NamesFail(t) => UNCHANGED <<row, config, schemas, version, owed, late>>
  BY DEF NamesFail
<1> QED
  BY <1>1, <1>2, <1>3, <1>4, <1>5, <1>7, <1>8, <1>10, <1>14, <1>15, <1>16, <1>17, <1>18, <1>20,
     <1>21 DEF TaskStep

\* A step never forgets that another task is outdated, and a commit outdates all writers.
Outdates(u) == (u \in outdated => u \in outdated') /\ (row' = row \/ held[u] = None \/ u \in outdated')

LEMMA StepOutdates ==
  ASSUME Typed, NEW t \in Tasks, TaskStep(t), NEW u \in Tasks \ {t}
  PROVE  Outdates(u)
<1> USE DEF Outdates, Start, Forget, Writes, Writers, table, history
<1>1. (\E c \in Configs : Save(t, c)) => Outdates(u)
  BY DEF Save
<1>2. Delete(t) => Outdates(u)
  BY DEF Delete
<1>3. Clear(t) => Outdates(u)
  BY DEF Clear
<1>4. Turn(t) => Outdates(u)
  BY DEF Turn
<1>5. Exec(t) => Outdates(u)
  BY DEF Exec
<1>6. Commit(t) => Outdates(u)
  BY DEF Commit
<1>7. CommitNothing(t) => Outdates(u)
  BY DEF CommitNothing
<1>8. CommitRaises(t) => Outdates(u)
  BY DEF CommitRaises
<1>9. DropKeys(t) => Outdates(u)
  BY DEF DropKeys
<1>10. Evict(t) => Outdates(u)
  BY DEF Evict
<1>11. PutConfig(t) => Outdates(u)
  BY DEF PutConfig
<1>12. PutSchemas(t) => Outdates(u)
  BY DEF PutSchemas
<1>13. PutVersion(t) => Outdates(u)
  BY DEF PutVersion
<1>14. GetSchemas(t) => Outdates(u)
  BY DEF GetSchemas
<1>15. Reload(t) => Outdates(u)
  BY DEF Reload
<1>16. Index(t) => Outdates(u)
  BY DEF Index
<1>17. LoadCached(t) => Outdates(u)
  BY DEF LoadCached, Loaded
<1>18. LoadRow(t) => Outdates(u)
  BY DEF LoadRow, Loaded
<1>19. LoadPut(t) => Outdates(u)
  BY DEF LoadPut
<1>20. Fail(t) => Outdates(u)
  BY DEF Fail
<1>21. NamesFail(t) => Outdates(u)
  BY DEF NamesFail
<1> QED
  BY <1>1, <1>2, <1>3, <1>4, <1>5, <1>6, <1>7, <1>8, <1>9, <1>10, <1>11, <1>12, <1>13, <1>14,
     <1>15, <1>16, <1>17, <1>18, <1>19, <1>20, <1>21 DEF TaskStep

LEMMA StepFresh ==
  ASSUME Typed, NEW t \in Tasks, Fresh(t), TaskStep(t)
  PROVE  Fresh(t)'
<1>0. Functions /\ Locals(t) /\ Fresh(t)
  BY DEF Typed
<1>1. (\E c \in Configs : Save(t, c)) => Fresh(t)'
  BY <1>0, NamesDiffer DEF Save, Functions, Fresh, Locals, LocalsAt, Saving, Putting, Start, To,
     Leave, Forget, Writes, Writers, table, history
<1>2. Delete(t) => Fresh(t)'
  BY <1>0, NamesDiffer DEF Delete, Functions, Fresh, Locals, LocalsAt, Saving, Putting, Start,
     To, Leave, Forget, Writes, Writers, table, history
<1>3. Clear(t) => Fresh(t)'
  BY <1>0, NamesDiffer DEF Clear, Functions, Fresh, Locals, LocalsAt, Saving, Putting, Start, To,
     Leave, Forget, Writes, Writers, table, history
<1>4. Turn(t) => Fresh(t)'
  BY <1>0, NamesDiffer DEF Turn, Functions, Fresh, Locals, LocalsAt, Saving, Putting, Start, To,
     Leave, Forget, Writes, Writers, table, history
<1>5. Exec(t) => Fresh(t)'
  BY <1>0, NamesDiffer DEF Exec, Functions, Fresh, Locals, LocalsAt, Saving, Putting, Start, To,
     Leave, Forget, Writes, Writers, table, history
<1>6. Commit(t) => Fresh(t)'
  BY <1>0, NamesDiffer DEF Commit, Functions, Fresh, Locals, LocalsAt, Saving, Putting, Start,
     To, Leave, Forget, Writes, Writers, table, history
<1>7. CommitNothing(t) => Fresh(t)'
  BY <1>0, NamesDiffer DEF CommitNothing, Functions, Fresh, Locals, LocalsAt, Saving, Putting,
     Start, To, Leave, Forget, Writes, Writers, table, history
<1>8. CommitRaises(t) => Fresh(t)'
  BY <1>0, NamesDiffer DEF CommitRaises, Functions, Fresh, Locals, LocalsAt, Saving, Putting,
     Start, To, Leave, Forget, Writes, Writers, table, history
<1>9. DropKeys(t) => Fresh(t)'
  BY <1>0, NamesDiffer DEF DropKeys, Functions, Fresh, Locals, LocalsAt, Saving, Putting, Start,
     To, Leave, Forget, Writes, Writers, table, history
<1>10. ASSUME Evict(t) PROVE Fresh(t)'
  <2>1. pc[t] = "evict" /\ row' = row
    BY <1>10 DEF Evict, table
  <2>2. \/ pc'[t] = "idle"
        \/ pc'[t] = "put config" /\ job[t] = "save" /\ held' = held /\ outdated' = outdated
    BY <1>10, <1>0 DEF Evict, Leave, To, Functions
  <2> QED
    BY <1>0, <2>1, <2>2 DEF Fresh, Locals, LocalsAt, Putting
<1>11. PutConfig(t) => Fresh(t)'
  BY <1>0, NamesDiffer DEF PutConfig, Functions, Fresh, Locals, LocalsAt, Saving, Putting, Start,
     To, Leave, Forget, Writes, Writers, table, history
<1>12. PutSchemas(t) => Fresh(t)'
  BY <1>0, NamesDiffer DEF PutSchemas, Functions, Fresh, Locals, LocalsAt, Saving, Putting,
     Start, To, Leave, Forget, Writes, Writers, table, history
<1>13. ASSUME PutVersion(t) PROVE Fresh(t)'
  <2>1. pc'[t] \in {"idle", "load"}
    BY <1>13, <1>0 DEF PutVersion, Leave, To, Functions
  <2> QED
    BY <1>0, <2>1 DEF Fresh, Locals, LocalsAt, Putting
<1>14. GetSchemas(t) => Fresh(t)'
  BY <1>0, NamesDiffer DEF GetSchemas, Functions, Fresh, Locals, LocalsAt, Saving, Putting,
     Start, To, Leave, Forget, Writes, Writers, table, history
<1>15. Reload(t) => Fresh(t)'
  BY <1>0, NamesDiffer DEF Reload, Functions, Fresh, Locals, LocalsAt, Saving, Putting, Start,
     To, Leave, Forget, Writes, Writers, table, history
<1>16. Index(t) => Fresh(t)'
  BY <1>0, NamesDiffer DEF Index, Functions, Fresh, Locals, LocalsAt, Saving, Putting, Start, To,
     Leave, Forget, Writes, Writers, table, history
<1>17. ASSUME LoadCached(t) PROVE Fresh(t)'
  <2>1. pc'[t] \in {"idle", "index", "load row"}
    BY <1>17, <1>0 DEF LoadCached, Loaded, Leave, To, Functions
  <2> QED
    BY <1>0, <2>1 DEF Fresh, Locals, LocalsAt, Putting
<1>18. ASSUME LoadRow(t) PROVE Fresh(t)'
  <2>1. row' = row
    BY <1>18 DEF LoadRow, table
  <2>2. \/ pc'[t] \in {"idle", "index"}
        \/ pc'[t] = "load put" /\ held'[t] = row
    BY <1>18, <1>0 DEF LoadRow, Loaded, Leave, To, Functions
  <2> QED
    BY <1>0, <2>1, <2>2 DEF Fresh, Locals, LocalsAt, Putting
<1>19. ASSUME LoadPut(t) PROVE Fresh(t)'
  <2>1. pc'[t] \in {"idle", "index"}
    BY <1>19, <1>0 DEF LoadPut, Leave, To, Functions
  <2> QED
    BY <1>0, <2>1 DEF Fresh, Locals, LocalsAt, Putting
<1>20. Fail(t) => Fresh(t)'
  BY <1>0, NamesDiffer DEF Fail, Functions, Fresh, Locals, LocalsAt, Saving, Putting, Start, To,
     Leave, Forget, Writes, Writers, table, history
<1>21. NamesFail(t) => Fresh(t)'
  BY <1>0, NamesDiffer DEF NamesFail, Functions, Fresh, Locals, LocalsAt, Saving, Putting, Start,
     To, Leave, Forget, Writes, Writers, table, history
<1> QED
  BY <1>1, <1>2, <1>3, <1>4, <1>5, <1>6, <1>7, <1>8, <1>9, <1>10, <1>11, <1>12, <1>13, <1>14,
     <1>15, <1>16, <1>17, <1>18, <1>19, <1>20, <1>21 DEF TaskStep

LEMMA StepFollows ==
  ASSUME Typed, KeysFollowRow, NEW t \in Tasks, Fresh(t), TaskStep(t)
  PROVE  KeysFollowRow'
<1>0. Locals(t)
  BY DEF Typed
<1>1. CASE Commit(t)
  BY <1>1 DEF Commit, KeysFollowRow
<1>2. CASE DropKeys(t)
  BY <1>2, DiscoveryOf DEF DropKeys, KeysFollowRow
<1>3. CASE PutConfig(t)
  <2>1. (owed \/ late => owed' \/ late') /\ (t \in outdated => late')
    BY Zenon, <1>3 DEF PutConfig, Writes
  <2>2. t \notin outdated => config' = row /\ row' = row
    BY <1>3, <1>0 DEF PutConfig, Writes, Fresh, Locals, LocalsAt, Putting, table
  <2>3. <<schemas, version>>' = <<schemas, version>>
    BY <1>3 DEF PutConfig
  <2> QED
    BY <2>1, <2>2, <2>3 DEF KeysFollowRow
<1>4. CASE PutSchemas(t)
  <2>0. Of(schemas') = held[t]
    BY <1>4, <1>0, DiscoveryOf DEF PutSchemas, Locals, LocalsAt, Putting
  <2>1. (owed \/ late => owed' \/ late') /\ (t \in outdated => late')
    BY Zenon, <1>4 DEF PutSchemas, Writes
  <2>2. t \notin outdated => Of(schemas') = row /\ row' = row
    BY <1>4, <1>0, <2>0 DEF PutSchemas, Writes, Fresh, Locals, LocalsAt, Putting, table
  <2>3. <<config, version>>' = <<config, version>>
    BY <1>4 DEF PutSchemas
  <2> QED
    BY <2>1, <2>2, <2>3 DEF KeysFollowRow
<1>5. CASE PutVersion(t)
  <2>1. (owed \/ late => owed' \/ late') /\ (t \in outdated => late')
    BY Zenon, <1>5 DEF PutVersion, Writes
  <2>2. t \notin outdated => version' = row /\ row' = row
    BY <1>5, <1>0 DEF PutVersion, Writes, Fresh, Locals, LocalsAt, Putting, table
  <2>3. <<config, schemas>>' = <<config, schemas>>
    BY <1>5 DEF PutVersion
  <2> QED
    BY <2>1, <2>2, <2>3 DEF KeysFollowRow
<1>6. CASE LoadPut(t)
  <2>1. (owed \/ late => owed' \/ late') /\ (t \in outdated => late')
    BY Zenon, <1>6 DEF LoadPut, Writes
  <2>2. t \notin outdated => config' = row /\ row' = row
    BY <1>6, <1>0 DEF LoadPut, Writes, Fresh, Locals, LocalsAt, Putting, table
  <2>3. <<schemas, version>>' = <<schemas, version>>
    BY <1>6 DEF LoadPut
  <2> QED
    BY <2>1, <2>2, <2>3 DEF KeysFollowRow
<1>7. CASE UNCHANGED <<row, config, schemas, version, owed, late>>
  BY <1>7 DEF KeysFollowRow
<1> QED
  BY <1>1, <1>2, <1>3, <1>4, <1>5, <1>6, <1>7, Writing

LEMMA InitFollowing == Init => Following
BY InitTyped, DiscoveryOf DEF Init, Following, KeysFollowRow, Fresh, Putting

LEMMA NextFollowing == Following /\ [Next]_vars => Following'
<1> SUFFICES ASSUME Following, [Next]_vars PROVE KeysFollowRow' /\ \A u \in Tasks : Fresh(u)'
  BY NextTyped DEF Following
<1> USE DEF Following
<1>1. ASSUME NEW t \in Tasks, TaskStep(t) PROVE KeysFollowRow' /\ \A u \in Tasks : Fresh(u)'
  <2>1. KeysFollowRow' /\ Fresh(t)'
    BY <1>1, StepFresh, StepFollows
  <2>2. ASSUME NEW u \in Tasks \ {t} PROVE Fresh(u)'
    <3>1. Alone(t)
      BY <1>1, StepKept
    <3>2. (u \in outdated => u \in outdated') /\ (row' = row \/ held[u] = None \/ u \in outdated')
      BY <1>1, StepOutdates DEF Outdates
    <3>3. Fresh(u) /\ Locals(u)
      BY DEF Typed
    <3>4. CASE u \in outdated'
      BY <3>4 DEF Fresh
    <3>5. CASE held[u] = None
      BY <3>1, <3>2, <3>3, <3>5, NamesDiffer DEF Fresh, Alone, Locals, LocalsAt, Saving, Putting
    <3>6. CASE row' = row
      BY <3>1, <3>2, <3>3, <3>6 DEF Fresh, Alone
    <3> QED
      BY <3>2, <3>4, <3>5, <3>6
  <2> QED
    BY <2>1, <2>2
<1>2. CASE Restart
  BY <1>2 DEF Restart, table, keys, locals, KeysFollowRow, Fresh
<1>3. CASE UNCHANGED vars
  BY <1>3 DEF vars, table, keys, locals, history, KeysFollowRow, Fresh
<1> QED
  BY <1>1, <1>2, <1>3, NextSteps

\* A key differs from the row only between a commit and its DEL, or after a task that a
\* commit had overtaken has written it.
THEOREM KeysFollow == Spec => []KeysFollowRow
<1>1. Init => Following
  BY InitFollowing
<1>2. Following /\ [Next]_vars => Following'
  BY NextFollowing
<1>3. Following => KeysFollowRow
  BY DEF Following
<1> QED
  BY <1>1, <1>2, <1>3, PTL DEF Spec

-----------------------------------------------------------------------------
(* The index holds a discovery of its version                               *)

\* A turn that nobody disturbed works on the row, with settled keys.
Undisturbed(t) == t \notin moved /\ seen[t] \in Configs =>
    seen[t] = row /\ ~ owed /\ ~ late /\ tools[t] \in {None} \union Discoveries(row)

\* A turn that a commit has overtaken is disturbed.
Overtaken(t) == t \in outdated => held[t] # None /\ (seen[t] # None => t \in moved)

Skipping == Following /\ SkipIsSafe /\ \A t \in Tasks : Undisturbed(t) /\ Overtaken(t)

\* What a step does to the history of another task.
Spares(u) ==
    /\ u \in moved => u \in moved'
    /\ u \in outdated' => u \in outdated \/ (held[u] # None /\ (seen[u] # None => u \in moved'))
    /\ seen[u] # None /\ u \notin moved' => row' = row /\ (owed' => owed) /\ (late' => late)

LEMMA StepSpares ==
  ASSUME Typed, NEW t \in Tasks, TaskStep(t), NEW u \in Tasks \ {t}
  PROVE  Spares(u)
<1> USE DEF Spares, Start, Forget, Writes, Writers, Turns, table, history
<1>1. (\E c \in Configs : Save(t, c)) => Spares(u)
  BY DEF Save
<1>2. Delete(t) => Spares(u)
  BY DEF Delete
<1>3. Clear(t) => Spares(u)
  BY DEF Clear
<1>4. ASSUME Turn(t) PROVE Spares(u)
  <2>1. row' = row /\ owed' = owed /\ late' = late
    BY <1>4 DEF Turn
  <2>2. (u \in moved' <=> u \in moved) /\ (u \in outdated' => u \in outdated)
    BY <1>4 DEF Turn
  <2> QED
    BY <2>1, <2>2
<1>5. ASSUME Exec(t) PROVE Spares(u)
  <2>1. row' = row /\ owed' = owed /\ late' = late
    BY <1>5 DEF Exec
  <2>2. (u \in moved' <=> u \in moved) /\ (u \in outdated' => u \in outdated)
    BY <1>5 DEF Exec
  <2> QED
    BY <2>1, <2>2
<1>6. Commit(t) => Spares(u)
  BY DEF Commit
<1>7. CommitNothing(t) => Spares(u)
  BY DEF CommitNothing
<1>8. CommitRaises(t) => Spares(u)
  BY DEF CommitRaises
<1>9. DropKeys(t) => Spares(u)
  BY DEF DropKeys
<1>10. ASSUME Evict(t) PROVE Spares(u)
  <2>1. row' = row /\ owed' = owed /\ late' = late
    BY <1>10 DEF Evict
  <2>2. (u \in moved' <=> u \in moved) /\ (u \in outdated' => u \in outdated)
    BY <1>10 DEF Evict
  <2> QED
    BY <2>1, <2>2
<1>11. PutConfig(t) => Spares(u)
  BY DEF PutConfig
<1>12. PutSchemas(t) => Spares(u)
  BY DEF PutSchemas
<1>13. PutVersion(t) => Spares(u)
  BY DEF PutVersion
<1>14. GetSchemas(t) => Spares(u)
  BY DEF GetSchemas
<1>15. ASSUME Reload(t) PROVE Spares(u)
  <2>1. row' = row /\ owed' = owed /\ late' = late
    BY <1>15 DEF Reload
  <2>2. (u \in moved' <=> u \in moved) /\ (u \in outdated' => u \in outdated)
    BY <1>15 DEF Reload
  <2> QED
    BY <2>1, <2>2
<1>16. Index(t) => Spares(u)
  BY DEF Index
<1>17. ASSUME LoadCached(t) PROVE Spares(u)
  <2>1. row' = row /\ owed' = owed /\ late' = late
    BY <1>17 DEF LoadCached, Loaded
  <2>2. (u \in moved' <=> u \in moved) /\ (u \in outdated' => u \in outdated)
    BY <1>17 DEF LoadCached, Loaded
  <2> QED
    BY <2>1, <2>2
<1>18. ASSUME LoadRow(t) PROVE Spares(u)
  <2>1. row' = row /\ owed' = owed /\ late' = late
    BY <1>18 DEF LoadRow, Loaded
  <2>2. (u \in moved' <=> u \in moved) /\ (u \in outdated' => u \in outdated)
    BY <1>18 DEF LoadRow, Loaded
  <2> QED
    BY <2>1, <2>2
<1>19. LoadPut(t) => Spares(u)
  BY DEF LoadPut
<1>20. Fail(t) => Spares(u)
  BY DEF Fail
<1>21. ASSUME NamesFail(t) PROVE Spares(u)
  <2>1. row' = row /\ owed' = owed /\ late' = late
    BY <1>21 DEF NamesFail
  <2>2. (u \in moved' <=> u \in moved) /\ (u \in outdated' => u \in outdated)
    BY <1>21 DEF NamesFail
  <2> QED
    BY <2>1, <2>2
<1> QED
  BY <1>1, <1>2, <1>3, <1>4, <1>5, <1>6, <1>7, <1>8, <1>9, <1>10, <1>11, <1>12, <1>13, <1>14,
     <1>15, <1>16, <1>17, <1>18, <1>19, <1>20, <1>21 DEF TaskStep

LEMMA StepOvertaken ==
  ASSUME Typed, NEW t \in Tasks, Overtaken(t), TaskStep(t)
  PROVE  Overtaken(t)'
<1>0. Functions /\ Locals(t)
  BY DEF Typed
<1> USE NamesDiffer DEF Functions, Overtaken, Locals, LocalsAt, Saving, Start, To, Leave, Forget,
   Writes, Writers, Turns, table, history
<1>1. (\E c \in Configs : Save(t, c)) => Overtaken(t)'
  BY <1>0 DEF Save
<1>2. Delete(t) => Overtaken(t)'
  BY <1>0 DEF Delete
<1>3. Clear(t) => Overtaken(t)'
  BY <1>0 DEF Clear
<1>4. Turn(t) => Overtaken(t)'
  BY <1>0 DEF Turn
<1>5. Exec(t) => Overtaken(t)'
  BY <1>0 DEF Exec
<1>6. Commit(t) => Overtaken(t)'
  BY <1>0 DEF Commit
<1>7. CommitNothing(t) => Overtaken(t)'
  BY <1>0 DEF CommitNothing
<1>8. CommitRaises(t) => Overtaken(t)'
  BY <1>0 DEF CommitRaises
<1>9. DropKeys(t) => Overtaken(t)'
  BY <1>0 DEF DropKeys
<1>10. Evict(t) => Overtaken(t)'
  BY <1>0 DEF Evict
<1>11. PutConfig(t) => Overtaken(t)'
  BY <1>0 DEF PutConfig
<1>12. PutSchemas(t) => Overtaken(t)'
  BY <1>0 DEF PutSchemas
<1>13. PutVersion(t) => Overtaken(t)'
  BY <1>0 DEF PutVersion
<1>14. GetSchemas(t) => Overtaken(t)'
  BY <1>0 DEF GetSchemas
<1>15. Reload(t) => Overtaken(t)'
  BY <1>0 DEF Reload
<1>16. Index(t) => Overtaken(t)'
  BY <1>0 DEF Index
<1>17. LoadCached(t) => Overtaken(t)'
  BY <1>0 DEF LoadCached, Loaded
<1>18. LoadRow(t) => Overtaken(t)'
  BY <1>0 DEF LoadRow, Loaded
<1>19. LoadPut(t) => Overtaken(t)'
  BY <1>0 DEF LoadPut
<1>20. Fail(t) => Overtaken(t)'
  BY <1>0 DEF Fail
<1>21. NamesFail(t) => Overtaken(t)'
  BY <1>0 DEF NamesFail
<1> QED
  BY <1>1, <1>2, <1>3, <1>4, <1>5, <1>6, <1>7, <1>8, <1>9, <1>10, <1>11, <1>12, <1>13, <1>14,
     <1>15, <1>16, <1>17, <1>18, <1>19, <1>20, <1>21 DEF TaskStep

LEMMA StepUndisturbed ==
  ASSUME Typed, KeysFollowRow, NEW t \in Tasks, Fresh(t), Undisturbed(t), Overtaken(t), TaskStep(t)
  PROVE  Undisturbed(t)'
<1>0. Functions /\ Locals(t) /\ seen[t] \in Stored \union {V0}
  BY Stays DEF Typed
<1>a. seen'[t] = None => Undisturbed(t)'
  BY NamesDiffer DEF Undisturbed
<1>b. /\ t \in moved => t \in moved'
      /\ seen'[t] = seen[t] /\ tools'[t] = tools[t] /\ row' = row
      /\ (owed' => owed) /\ (late' => late)
      => Undisturbed(t)'
  BY Zenon DEF Undisturbed
\* A write of a key by a turn that no commit has overtaken.
<1>c. ASSUME seen'[t] = None \/ (seen'[t] = seen[t] /\ (t \in moved => t \in moved')),
             tools'[t] \in {tools[t]} \union Discoveries(held[t]),
             t \notin outdated => tools'[t] \in {tools[t]} \union Discoveries(row),
             row' = row, owed' = owed, late' => late \/ t \in outdated
      PROVE  Undisturbed(t)'
  <2>1. CASE t \in outdated
    BY <1>0, <1>a, <1>c, <2>1 DEF Overtaken, Undisturbed
  <2>2. CASE t \notin outdated
    <3>1. late' => late
      BY <1>c, <2>2
    <3> QED
      BY <1>a, <1>c, <2>2, <3>1 DEF Undisturbed
  <2> QED
    BY <2>1, <2>2
<1>1. (\E c \in Configs : Save(t, c)) => Undisturbed(t)'
  BY <1>0, <1>a, NamesDiffer DEF Save, Start, Leave, To, Locals, LocalsAt, Saving, Putting,
     Loading, Listed, Reading, Functions
<1>2. Delete(t) => Undisturbed(t)'
  BY <1>0, <1>a, NamesDiffer DEF Delete, Start, Leave, To, Locals, LocalsAt, Saving, Putting,
     Loading, Listed, Reading, Functions
<1>3. Clear(t) => Undisturbed(t)'
  BY <1>0, <1>a, NamesDiffer DEF Clear, Start, Leave, To, Locals, LocalsAt, Saving, Putting,
     Loading, Listed, Reading, Functions
<1>4. Turn(t) => Undisturbed(t)'
  <2> SUFFICES ASSUME Turn(t), t \notin moved', seen'[t] \in Configs
               PROVE  Undisturbed(t)'
    BY DEF Undisturbed
  <2>1. ~ owed /\ ~ late /\ owed' = owed /\ late' = late /\ row' = row
    BY <1>0 DEF Turn, table
  <2>2. seen'[t] = version
    BY <1>0, NamesDiffer DEF Turn, Functions
  <2>3. tools'[t] = None
    BY <1>0 DEF Turn, Start, Locals, LocalsAt
  <2>4. version = row
    BY <2>1, <2>2, NamesDiffer DEF KeysFollowRow
  <2> QED
    BY <1>0, <2>1, <2>2, <2>3, <2>4, NamesDiffer DEF Undisturbed
<1>5. Exec(t) => Undisturbed(t)'
  BY <1>0, <1>a, NamesDiffer DEF Exec, Start, Leave, To, Locals, LocalsAt, Saving, Putting,
     Loading, Listed, Reading, Functions
<1>6. Commit(t) => Undisturbed(t)'
  BY <1>0, <1>a, NamesDiffer DEF Commit, Start, Leave, To, Locals, LocalsAt, Saving, Putting,
     Loading, Listed, Reading, Functions
<1>7. CommitNothing(t) => Undisturbed(t)'
  BY <1>0, <1>a, NamesDiffer DEF CommitNothing, Start, Leave, To, Locals, LocalsAt, Saving,
     Putting, Loading, Listed, Reading, Functions
<1>8. CommitRaises(t) => Undisturbed(t)'
  BY <1>0, <1>a, NamesDiffer DEF CommitRaises, Start, Leave, To, Locals, LocalsAt, Saving,
     Putting, Loading, Listed, Reading, Functions
<1>9. DropKeys(t) => Undisturbed(t)'
  BY <1>0, <1>a, NamesDiffer DEF DropKeys, Start, Leave, To, Locals, LocalsAt, Saving, Putting,
     Loading, Listed, Reading, Functions
<1>10. Evict(t) => Undisturbed(t)'
  BY <1>0, <1>a, NamesDiffer DEF Evict, Start, Leave, To, Locals, LocalsAt, Saving, Putting,
     Loading, Listed, Reading, Functions
<1>11. PutConfig(t) => Undisturbed(t)'
  <2> SUFFICES ASSUME PutConfig(t) PROVE Undisturbed(t)'
    OBVIOUS
  <2>1. row' = row /\ owed' = owed
    BY DEF PutConfig, Writes, table
  <2>2. late' => late \/ t \in outdated
    BY Zenon DEF PutConfig, Writes
  <2>3. seen'[t] = seen[t] /\ (t \in moved => t \in moved') /\ tools'[t] = tools[t]
    BY DEF PutConfig, Writes
  <2> QED
    BY <1>c, <2>1, <2>2, <2>3
<1>12. PutSchemas(t) => Undisturbed(t)'
  <2> SUFFICES ASSUME PutSchemas(t) PROVE Undisturbed(t)'
    OBVIOUS
  <2>1. row' = row /\ owed' = owed
    BY DEF PutSchemas, Writes, table
  <2>2. late' => late \/ t \in outdated
    BY Zenon DEF PutSchemas, Writes
  <2>3. seen'[t] = seen[t] /\ (t \in moved => t \in moved')
    BY DEF PutSchemas, Writes
  <2>4. tools'[t] \in {tools[t]} \union Discoveries(held[t])
    BY <1>0 DEF PutSchemas, Functions
  <2>5. t \notin outdated => held[t] = row
    BY DEF PutSchemas, Fresh, Putting
  <2> QED
    BY <1>c, <2>1, <2>2, <2>3, <2>4, <2>5
<1>13. PutVersion(t) => Undisturbed(t)'
  <2> SUFFICES ASSUME PutVersion(t) PROVE Undisturbed(t)'
    OBVIOUS
  <2>1. row' = row /\ owed' = owed
    BY DEF PutVersion, Writes, table
  <2>2. late' => late \/ t \in outdated
    BY Zenon DEF PutVersion, Writes
  <2>3. \/ seen'[t] = None
        \/ seen'[t] = seen[t] /\ tools'[t] = tools[t] /\ (t \in moved => t \in moved')
    BY <1>0 DEF PutVersion, Leave, Turns, Functions
  <2> QED
    BY <1>a, <1>c, <2>1, <2>2, <2>3
<1>14. GetSchemas(t) => Undisturbed(t)'
  <2> SUFFICES ASSUME GetSchemas(t), t \notin moved', seen'[t] \in Configs
               PROVE  Undisturbed(t)'
    BY DEF Undisturbed
  <2>1. /\ row' = row /\ owed' = owed /\ late' = late /\ moved' = moved /\ seen' = seen
        /\ tools'[t] = IF Empty(schemas) THEN None ELSE schemas
    BY <1>0 DEF GetSchemas, table, history, Functions
  <2>2. seen[t] = row /\ row \in Configs /\ ~ owed /\ ~ late
    BY <2>1 DEF Undisturbed
  <2>3. ~ Empty(schemas) => schemas \in Found
    BY DEF Empty, Typed, Globals, FoundOrNone
  <2>4. Of(schemas) \in {row, None}
    BY <2>2 DEF KeysFollowRow
  <2>5. ~ Empty(schemas) => schemas \in Discoveries(row)
    BY <2>3, <2>4, DiscoveryOf, NamesDiffer
  <2> QED
    BY <2>1, <2>2, <2>5 DEF Undisturbed
<1>15. Reload(t) => Undisturbed(t)'
  <2> SUFFICES ASSUME Reload(t) PROVE Undisturbed(t)'
    OBVIOUS
  <2>1. row' = row /\ owed' = owed /\ late' = late
    BY DEF Reload, table
  <2>2. seen'[t] = seen[t] /\ tools'[t] = tools[t] /\ moved' = moved
    BY DEF Reload
  <2> QED
    BY <1>b, <2>1, <2>2
<1>16. Index(t) => Undisturbed(t)'
  BY <1>0, <1>a, NamesDiffer DEF Index, Start, Leave, To, Locals, LocalsAt, Saving, Putting,
     Loading, Listed, Reading, Functions
<1>17. LoadCached(t) => Undisturbed(t)'
  <2> SUFFICES ASSUME LoadCached(t) PROVE Undisturbed(t)'
    OBVIOUS
  <2>1. row' = row /\ owed' = owed /\ late' = late
    BY DEF LoadCached, Loaded, table
  <2>2. seen'[t] = None \/ (seen'[t] = seen[t] /\ tools'[t] = tools[t] /\ moved' = moved)
    BY <1>0 DEF LoadCached, Loaded, Leave, To, Functions
  <2> QED
    BY <1>a, <1>b, <2>1, <2>2
<1>18. LoadRow(t) => Undisturbed(t)'
  <2> SUFFICES ASSUME LoadRow(t) PROVE Undisturbed(t)'
    OBVIOUS
  <2>1. row' = row /\ owed' = owed /\ late' = late
    BY DEF LoadRow, Loaded, table
  <2>2. seen'[t] = None \/ (seen'[t] = seen[t] /\ tools'[t] = tools[t] /\ moved' = moved)
    BY <1>0 DEF LoadRow, Loaded, Leave, To, Functions
  <2> QED
    BY <1>a, <1>b, <2>1, <2>2
<1>19. LoadPut(t) => Undisturbed(t)'
  <2> SUFFICES ASSUME LoadPut(t) PROVE Undisturbed(t)'
    OBVIOUS
  <2>1. row' = row /\ owed' = owed
    BY DEF LoadPut, Writes, table
  <2>2. late' => late \/ t \in outdated
    BY Zenon DEF LoadPut, Writes
  <2>3. \/ seen'[t] = None
        \/ seen'[t] = seen[t] /\ tools'[t] = tools[t] /\ (t \in moved => t \in moved')
    BY <1>0 DEF LoadPut, Leave, Turns, Functions
  <2> QED
    BY <1>a, <1>c, <2>1, <2>2, <2>3
<1>20. Fail(t) => Undisturbed(t)'
  BY <1>0, <1>a, NamesDiffer DEF Fail, Start, Leave, To, Locals, LocalsAt, Saving, Putting,
     Loading, Listed, Reading, Functions
<1>21. NamesFail(t) => Undisturbed(t)'
  <2> SUFFICES ASSUME NamesFail(t) PROVE Undisturbed(t)'
    OBVIOUS
  <2>1. row' = row /\ owed' = owed /\ late' = late
    BY DEF NamesFail, table
  <2>2. seen'[t] = None \/ (seen'[t] = seen[t] /\ tools'[t] = tools[t] /\ moved' = moved)
    BY <1>0 DEF NamesFail, Leave, To, Functions
  <2> QED
    BY <1>a, <1>b, <2>1, <2>2
<1> QED
  BY <1>1, <1>2, <1>3, <1>4, <1>5, <1>6, <1>7, <1>8, <1>9, <1>10, <1>11, <1>12, <1>13, <1>14,
     <1>15, <1>16, <1>17, <1>18, <1>19, <1>20, <1>21 DEF TaskStep

\* The index is left alone but by these steps.
LEMMA Indexing ==
  ASSUME NEW t \in Tasks, TaskStep(t)
  PROVE  Evict(t) \/ Index(t) \/ UNCHANGED <<indexed, registry, points, torn>>
<1> USE DEF Writes, index, history
<1>1. (\E c \in Configs : Save(t, c)) => UNCHANGED <<indexed, registry, points, torn>>
  BY DEF Save
<1>2. Delete(t) => UNCHANGED <<indexed, registry, points, torn>>
  BY DEF Delete
<1>3. Clear(t) => UNCHANGED <<indexed, registry, points, torn>>
  BY DEF Clear
<1>4. Turn(t) => UNCHANGED <<indexed, registry, points, torn>>
  BY DEF Turn
<1>5. Exec(t) => UNCHANGED <<indexed, registry, points, torn>>
  BY DEF Exec
<1>6. Commit(t) => UNCHANGED <<indexed, registry, points, torn>>
  BY DEF Commit
<1>7. CommitNothing(t) => UNCHANGED <<indexed, registry, points, torn>>
  BY DEF CommitNothing
<1>8. CommitRaises(t) => UNCHANGED <<indexed, registry, points, torn>>
  BY DEF CommitRaises
<1>9. DropKeys(t) => UNCHANGED <<indexed, registry, points, torn>>
  BY DEF DropKeys
<1>11. PutConfig(t) => UNCHANGED <<indexed, registry, points, torn>>
  BY DEF PutConfig
<1>12. PutSchemas(t) => UNCHANGED <<indexed, registry, points, torn>>
  BY DEF PutSchemas
<1>13. PutVersion(t) => UNCHANGED <<indexed, registry, points, torn>>
  BY DEF PutVersion
<1>14. GetSchemas(t) => UNCHANGED <<indexed, registry, points, torn>>
  BY DEF GetSchemas
<1>15. Reload(t) => UNCHANGED <<indexed, registry, points, torn>>
  BY DEF Reload
<1>17. LoadCached(t) => UNCHANGED <<indexed, registry, points, torn>>
  BY DEF LoadCached
<1>18. LoadRow(t) => UNCHANGED <<indexed, registry, points, torn>>
  BY DEF LoadRow
<1>19. LoadPut(t) => UNCHANGED <<indexed, registry, points, torn>>
  BY DEF LoadPut
<1>20. Fail(t) => UNCHANGED <<indexed, registry, points, torn>>
  BY DEF Fail
<1>21. NamesFail(t) => UNCHANGED <<indexed, registry, points, torn>>
  BY DEF NamesFail
<1> QED
  BY <1>1, <1>2, <1>3, <1>4, <1>5, <1>6, <1>7, <1>8, <1>9, <1>11, <1>12, <1>13, <1>14, <1>15,
     <1>17, <1>18, <1>19, <1>20, <1>21 DEF TaskStep

LEMMA StepSafe ==
  ASSUME Typed, SkipIsSafe, NEW t \in Tasks, Undisturbed(t), TaskStep(t)
  PROVE  SkipIsSafe'
<1>1. CASE UNCHANGED <<indexed, registry, points, torn>>
  BY <1>1 DEF SkipIsSafe
<1>2. CASE Evict(t)
  <2>1. indexed' = None \/ UNCHANGED <<indexed, registry, points, torn>>
    BY <1>2 DEF Evict, EvictIndex, index
  <2> QED
    BY <1>1, <2>1, NamesDiffer DEF SkipIsSafe
<1>3. CASE Index(t)
  <2> PICK cleared \in BOOLEAN : IndexTools(t, cleared) \/ UNCHANGED <<index, torn>>
    BY <1>3 DEF Index
  <2>1. CASE UNCHANGED <<indexed, registry, points, torn>>
    BY <1>1, <2>1
  \* The tools are registered under the version that was seen.
  <2>2. CASE /\ indexed' = seen[t] /\ registry' = tools[t] /\ "registered" \in points'
             /\ torn' = (t \in moved)
    <3> SUFFICES ASSUME ~ torn', indexed' \in Configs
                 PROVE  registry' \in Discoveries(indexed') /\ "registered" \in points'
      BY DEF SkipIsSafe
    <3>1. t \notin moved /\ pc[t] = "index" /\ seen[t] \in Configs
      BY <1>3, <2>2 DEF Index
    <3>2. tools[t] # None
      BY <3>1, NamesDiffer DEF Typed, Locals, LocalsAt, Listed
    <3> QED
      BY <2>2, <3>1, <3>2 DEF Undisturbed
  \* It failed before it registered any.
  <2>3. CASE /\ points' \in {Kept(cleared), Kept(cleared) \union {"others"}}
             /\ torn' = (torn \/ cleared) /\ indexed' = indexed /\ registry' = registry
    <3>1. CASE cleared
      BY <2>3, <3>1 DEF SkipIsSafe
    <3>2. CASE ~ cleared
      <4>1. "registered" \in points => "registered" \in points'
        BY <2>3, <3>2 DEF Kept
      <4>2. torn' = torn
        BY <2>3, <3>2 DEF Typed, Globals
      <4> QED
        BY <2>3, <4>1, <4>2 DEF SkipIsSafe
    <3> QED
      BY <3>1, <3>2
  <2> QED
    BY <2>1, <2>2, <2>3 DEF IndexTools, index
<1> QED
  BY <1>1, <1>2, <1>3, Indexing

LEMMA NextSkipping == Skipping /\ [Next]_vars => Skipping'
<1> SUFFICES ASSUME Skipping, [Next]_vars
             PROVE  SkipIsSafe' /\ \A u \in Tasks : Undisturbed(u)' /\ Overtaken(u)'
  BY NextFollowing DEF Skipping
<1> USE DEF Skipping, Following
<1>1. ASSUME NEW t \in Tasks, TaskStep(t)
      PROVE  SkipIsSafe' /\ \A u \in Tasks : Undisturbed(u)' /\ Overtaken(u)'
  <2>1. SkipIsSafe' /\ Undisturbed(t)' /\ Overtaken(t)'
    BY <1>1, StepSafe, StepUndisturbed, StepOvertaken
  <2>2. ASSUME NEW u \in Tasks \ {t} PROVE Undisturbed(u)' /\ Overtaken(u)'
    <3>1. Alone(t)
      BY <1>1, StepKept
    <3>2. Spares(u)
      BY <1>1, StepSpares
    <3> QED
      BY <3>1, <3>2, NamesDiffer DEF Alone, Spares, Undisturbed, Overtaken
  <2> QED
    BY <2>1, <2>2
<1>2. CASE Restart
  BY <1>2, NamesDiffer DEF Restart, table, locals, SkipIsSafe, Undisturbed, Overtaken
<1>3. CASE UNCHANGED vars
  BY <1>3 DEF vars, table, index, locals, history, SkipIsSafe, Undisturbed, Overtaken
<1> QED
  BY <1>1, <1>2, <1>3, NextSteps

\* An index of a known version holds a discovery of the config of that version, with its
\* points, unless others wrote during the turn that filled it, or its points were deleted
\* for an indexing that failed.
THEOREM SkipSafe == Spec => []SkipIsSafe
<1>1. Init => Skipping
  BY InitFollowing, NamesDiffer DEF Init, Skipping, SkipIsSafe, Undisturbed, Overtaken
<1>2. Skipping /\ [Next]_vars => Skipping'
  BY NextSkipping
<1>3. Skipping => SkipIsSafe
  BY DEF Skipping
<1> QED
  BY <1>1, <1>2, <1>3, PTL DEF Spec

=============================================================================
