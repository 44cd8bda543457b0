----------------------------- MODULE Connections -----------------------------
(***************************************************************************)
(* The connection of one user to one provider: the user_connections row in  *)
(* Postgres, the cached token and the cached connection list in Redis, the  *)
(* refresh lock, and everything that touches them                           *)
(*     resolve_token / get_valid_token     (agent_helpers, oauth_engine)    *)
(*     callback, apikey, delete, test      (connections_router)             *)
(*     the cleanup of Phase 2.5            (graph.tool_node)                *)
(*     the agent's view of what is connected  (graph.agent_node)            *)
(*                                                                         *)
(* A token is <<g, k>>: the k-th refresh of the g-th grant the user gave;   *)
(* the row holds access and refresh token of the same pair.  Every await is *)
(* a point where the others may step in.                                    *)
(***************************************************************************)
EXTENDS Integers, FiniteSets

CONSTANTS
    Workers,        \* coroutines that resolve or test a token
    Operations,     \* requests that change the connection
    Agents,         \* agent_node runs that read the connection list
    OpKinds,        \* which of the requests this instance makes
    Rotating,       \* the provider accepts a refresh token only once
    MaxGrants,      \* bound on the connects
    MaxRefreshes,   \* bound on the refreshes of all grants together
    None

ASSUME RotatingBoolean == Rotating \in BOOLEAN
ASSUME OpKindsKnown == OpKinds \subseteq {"connect", "key", "revoke", "cleanup"}
ASSUME BoundsNatural == MaxGrants \in Nat /\ MaxRefreshes \in Nat

Grants == 1..MaxGrants
Token == Grants \X Nat

ASSUME NoneOutside == None \notin Token /\ None \notin Workers /\ None \notin BOOLEAN

VARIABLES
    row,        \* the token in the user_connections row, or None
    expired,    \* tokens whose expires_at is less than a minute away
    refreshable,    \* grants with a refresh token and a refresh URL
    keys,       \* grants that are API keys: no expires_at
    grants,     \* how many grants were given
    latest,     \* the provider's side: number of refreshes of a grant
    revoked,    \* the provider's side: grants it no longer honours
    cache,      \* token:{user}:{provider}
    conns,      \* the provider's membership in user_conns:{user}, None when not cached
    lock,       \* refresh_lock:{user}:{provider}: who set it
    overrun,    \* history: the lock ran out on a worker, and workers are refreshing since
    pc, token, caching,     \* a worker: its place, its token, whether it is resolve_token
    opc, given, \* a request: its place, the token it is to store
    apc, seen,  \* an agent: its place, what it read from the row
    stored,     \* history: grants that were ever in the row
    gone        \* history: a disconnect has been reported, and no connect since

workers == <<pc, token, caching>>
requests == <<opc, given>>
agents == <<apc, seen>>
grantVars == <<refreshable, keys, grants, latest, revoked>>
vars == <<row, expired, grantVars, cache, conns, lock, overrun, workers, requests, agents, stored, gone>>

Init ==
    /\ row = None
    /\ expired = {}
    /\ refreshable = {} /\ keys = {} /\ grants = 0 /\ latest = [g \in Grants |-> 0] /\ revoked = {}
    /\ cache = None /\ conns = None
    /\ lock = None /\ overrun = FALSE
    /\ pc = [w \in Workers |-> "idle"]
    /\ token = [w \in Workers |-> None]
    /\ caching = [w \in Workers |-> FALSE]
    /\ opc = [o \in Operations |-> "idle"]
    /\ given = [o \in Operations |-> None]
    /\ apc = [a \in Agents |-> "idle"]
    /\ seen = [a \in Agents |-> FALSE]
    /\ stored = {}
    /\ gone = FALSE

-----------------------------------------------------------------------------
(* resolve_token and, without its cache, get_valid_token                    *)

To(w, place) == pc' = [pc EXCEPT ![w] = place]

\* Between taking the lock and releasing it.
Refreshing(w) == pc[w] \in {"post", "update", "release"}

\* An overrun is over when the last of those it let in has left.
LeavesSection(w) == overrun' = (overrun /\ \E v \in Workers \ {w} : Refreshing(v))

\* The call returns, or dies; its locals are gone.
Leave(w) ==
    /\ To(w, "idle")
    /\ token' = [token EXCEPT ![w] = None]
    /\ caching' = [caching EXCEPT ![w] = FALSE]

\* With a token in hand: resolve_token goes on to cache it, the test returns.
Deliver(w, t) ==
    IF caching[w]
      THEN To(w, "put") /\ token' = [token EXCEPT ![w] = t] /\ UNCHANGED caching
      ELSE Leave(w)

Resolve(w) ==
    /\ pc[w] = "idle"
    /\ To(w, "get_cache")
    /\ caching' = [caching EXCEPT ![w] = TRUE]
    /\ UNCHANGED <<row, expired, grantVars, cache, conns, lock, overrun, token, requests, agents, stored, gone>>

TestConnection(w) ==
    /\ pc[w] = "idle"
    /\ To(w, "get_row")
    /\ UNCHANGED <<row, expired, grantVars, cache, conns, lock, overrun, token, caching, requests, agents, stored, gone>>

\* A hit is returned as it is; a miss or a Redis error falls through to the row.
GetCache(w) ==
    /\ pc[w] = "get_cache"
    /\ \/ cache # None /\ Leave(w)
       \/ To(w, "get_row") /\ UNCHANGED <<token, caching>>
    /\ UNCHANGED <<row, expired, grantVars, cache, conns, lock, overrun, requests, agents, stored, gone>>

\* refresh_if_expired reads the row: no connection, a good token, a token that
\* cannot be refreshed, or one to refresh.
GetRow(w) ==
    /\ pc[w] = "get_row"
    /\ \/ row = None /\ Leave(w)
       \/ row # None /\ row \notin expired /\ Deliver(w, row)
       \/ /\ row # None /\ row \in expired
          /\ IF row[1] \in refreshable
               THEN To(w, "lock") /\ token' = [token EXCEPT ![w] = row] /\ UNCHANGED caching
               ELSE Leave(w)
    /\ UNCHANGED <<row, expired, grantVars, cache, conns, lock, overrun, requests, agents, stored, gone>>

\* MUTANT of AcquireLock: SET without NX.
AcquireLockAnyway(w) ==
    /\ pc[w] = "lock"
    /\ lock' = w
    /\ To(w, "post")
    /\ UNCHANGED <<row, expired, grantVars, cache, conns, overrun, token, caching, requests, agents, stored, gone>>

\* SET NX EX 30.  Whoever does not get the lock sleeps.
AcquireLock(w) ==
    /\ pc[w] = "lock"
    /\ IF lock = None
         THEN lock' = w /\ To(w, "post")
         ELSE UNCHANGED lock /\ To(w, "wait")
    /\ UNCHANGED <<row, expired, grantVars, cache, conns, overrun, token, caching, requests, agents, stored, gone>>

\* After the sleep the row is read once more; if it is still stale, the call fails.
ReadAgain(w) ==
    /\ pc[w] = "wait"
    /\ IF row # None /\ row \notin expired THEN Deliver(w, row) ELSE Leave(w)
    /\ UNCHANGED <<row, expired, grantVars, cache, conns, lock, overrun, requests, agents, stored, gone>>

\* The provider honours a refresh token of a grant that is not revoked and, if it
\* rotates them, only the latest.
Honoured(t) == t[1] \notin revoked /\ (Rotating => t[2] = latest[t[1]])

\* The refreshes the provider has answered.
Refreshed == {t \in Grants \X (1..MaxRefreshes) : t[2] <= latest[t[1]]}

\* MUTANT of PostRefresh: an answer without a token is not refused.
PostRefreshUnchecked(w) ==
    /\ pc[w] = "post"
    /\ token' = [token EXCEPT ![w] = None]
    /\ To(w, "update")
    /\ UNCHANGED <<row, expired, grantVars, cache, conns, lock, overrun, caching, requests, agents, stored, gone>>

\* POST to the refresh URL: a new token; or a new token whose answer is lost; or
\* a refusal, a timeout, an answer without a token.
PostRefresh(w) ==
    /\ pc[w] = "post"
    /\ LET g == token[w][1]
           fresh == <<g, latest[g] + 1>>
       IN \/ /\ Honoured(token[w]) /\ Cardinality(Refreshed) < MaxRefreshes
             /\ latest' = [latest EXCEPT ![g] = @ + 1]
             /\ \/ token' = [token EXCEPT ![w] = fresh] /\ To(w, "update")
                \/ token' = [token EXCEPT ![w] = None] /\ To(w, "release")
          \/ /\ UNCHANGED latest
             /\ token' = [token EXCEPT ![w] = None] /\ To(w, "release")
    /\ UNCHANGED <<row, expired, refreshable, keys, grants, revoked, cache, conns, lock, overrun, caching,
                   requests, agents, stored, gone>>

\* MUTANT of UpdateRow: an upsert, as in _upsert_connection.
UpdateRowUpsert(w) ==
    /\ pc[w] = "update"
    /\ row' = token[w]
    /\ stored' = stored \union {token[w][1]}
    /\ To(w, "release")
    /\ UNCHANGED <<expired, grantVars, cache, conns, lock, overrun, token, caching, requests, agents, gone>>

\* UPDATE ... WHERE user and provider, whatever token the row holds by now; without
\* a row it changes nothing.  A database error loses the new token.
UpdateRow(w) ==
    /\ pc[w] = "update"
    /\ \/ /\ row' = IF row = None THEN None ELSE token[w]
          /\ stored' = IF row = None THEN stored ELSE stored \union {token[w][1]}
          /\ UNCHANGED token
       \/ UNCHANGED <<row, stored>> /\ token' = [token EXCEPT ![w] = None]
    /\ To(w, "release")
    /\ UNCHANGED <<expired, grantVars, cache, conns, lock, overrun, caching, requests, agents, gone>>

\* finally: DELETE of the lock, whoever holds it by now.
ReleaseLock(w) ==
    /\ pc[w] = "release"
    /\ \/ /\ lock' = None
          /\ IF token[w] = None THEN Leave(w) ELSE Deliver(w, token[w])
       \/ UNCHANGED lock /\ Leave(w)
    /\ LeavesSection(w)
    /\ UNCHANGED <<row, expired, grantVars, cache, conns, requests, agents, stored, gone>>

\* cache_token; a Redis error is logged and the token returned all the same.
PutCache(w) ==
    /\ pc[w] = "put"
    /\ cache' \in {token[w], cache}
    /\ Leave(w)
    /\ UNCHANGED <<row, expired, grantVars, conns, lock, overrun, requests, agents, stored, gone>>

\* The worker process dies or the request is cancelled: no finally runs.
Die(w) ==
    /\ pc[w] # "idle"
    /\ Leave(w) /\ LeavesSection(w)
    /\ UNCHANGED <<row, expired, grantVars, cache, conns, lock, requests, agents, stored, gone>>

-----------------------------------------------------------------------------
(* Requests that change the connection                                      *)

Go(o, place) == opc' = [opc EXCEPT ![o] = place]

\* handle_callback has exchanged the code and tested the token of a new grant; or
\* store_api_key has tested a key, which neither expires nor refreshes.
Connect(o, kind) ==
    /\ opc[o] = "idle" /\ kind \in OpKinds
    /\ grants < MaxGrants
    /\ grants' = grants + 1
    /\ given' = [given EXCEPT ![o] = <<grants + 1, 0>>]
    /\ \/ /\ kind = "key"
          /\ keys' = keys \union {grants + 1}
          /\ Go(o, "upsert_key") /\ UNCHANGED refreshable
       \/ /\ kind = "connect"
          /\ refreshable' \in {refreshable, refreshable \union {grants + 1}}
          /\ Go(o, "upsert") /\ UNCHANGED keys
    /\ UNCHANGED <<row, expired, latest, revoked, cache, conns, lock, overrun, workers, agents, stored, gone>>

\* _upsert_connection
Upsert(o) ==
    /\ opc[o] \in {"upsert", "upsert_key"}
    /\ row' = given[o]
    /\ stored' = stored \union {given[o][1]}
    /\ gone' = FALSE
    /\ Go(o, IF opc[o] = "upsert" THEN "drop_conns" ELSE "drop_conns_key")
    /\ given' = [given EXCEPT ![o] = None]
    /\ UNCHANGED <<expired, grantVars, cache, conns, lock, overrun, workers, agents>>

\* revoke: nothing to do without a row; otherwise the provider is told first, if it
\* has a revoke URL, which may fail.
Revoke(o) ==
    /\ opc[o] = "idle" /\ "revoke" \in OpKinds
    /\ row # None
    /\ revoked' \in {revoked, revoked \union {row[1]}}
    /\ Go(o, "delete")
    /\ UNCHANGED <<row, expired, refreshable, keys, grants, latest, cache, conns, lock, overrun, workers,
                   given, agents, stored, gone>>

DeleteRow(o) ==
    /\ opc[o] = "delete"
    /\ row' = None
    /\ Go(o, "drop_conns_gone")
    /\ UNCHANGED <<expired, grantVars, cache, conns, lock, overrun, workers, given, agents, stored, gone>>

\* invalidate_user_connections; an API key leaves the token cache alone.
DropConns(o) ==
    /\ conns' = None
    /\ \/ opc[o] = "drop_conns" /\ Go(o, "drop_token")
       \/ opc[o] = "drop_conns_key" /\ Go(o, "idle")
       \/ opc[o] = "drop_conns_gone" /\ Go(o, "drop_token_gone")
       \/ opc[o] = "cleanup_conns" /\ Go(o, "cleanup_row")
    /\ UNCHANGED <<row, expired, grantVars, cache, lock, overrun, workers, given, agents, stored, gone>>

\* invalidate_token, the last step of a callback and of a disconnect
DropToken(o) ==
    /\ opc[o] \in {"drop_token", "drop_token_gone"}
    /\ cache' = None
    /\ gone' = (gone \/ (opc[o] = "drop_token_gone" /\ row = None))
    /\ Go(o, "idle")
    /\ UNCHANGED <<row, expired, grantVars, conns, lock, overrun, workers, given, agents, stored>>

\* Phase 2.5 of tool_node, when a provider rejects a token that was once stored:
\* cached token, cached list and row are dropped, in this order.
Cleanup(o) ==
    /\ opc[o] = "idle" /\ "cleanup" \in OpKinds
    /\ stored # {}
    /\ cache' = None
    /\ Go(o, "cleanup_conns")
    /\ UNCHANGED <<row, expired, grantVars, conns, lock, overrun, workers, given, agents, stored, gone>>

CleanupRow(o) ==
    /\ opc[o] = "cleanup_row"
    /\ row' = None
    /\ gone' = TRUE
    /\ Go(o, "idle")
    /\ UNCHANGED <<expired, grantVars, cache, conns, lock, overrun, workers, given, agents, stored>>

\* A Redis or database error, or the death of the process, ends the request.
Fail(o) ==
    /\ opc[o] # "idle"
    /\ Go(o, "idle")
    /\ given' = [given EXCEPT ![o] = None]
    /\ UNCHANGED <<row, expired, grantVars, cache, conns, lock, overrun, workers, agents, stored, gone>>

-----------------------------------------------------------------------------
(* agent_node: which providers are connected                                *)

ReadConns(a) ==
    /\ apc[a] = "idle"
    /\ conns = None
    /\ apc' = [apc EXCEPT ![a] = "read_row"]
    /\ UNCHANGED <<row, expired, grantVars, cache, conns, lock, overrun, workers, requests, seen, stored, gone>>

\* A database error gives the empty set, which is not cached.
FetchConnections(a) ==
    /\ apc[a] = "read_row"
    /\ \/ seen' = [seen EXCEPT ![a] = (row # None)] /\ apc' = [apc EXCEPT ![a] = "set"]
       \/ UNCHANGED seen /\ apc' = [apc EXCEPT ![a] = "idle"]
    /\ UNCHANGED <<row, expired, grantVars, cache, conns, lock, overrun, workers, requests, stored, gone>>

\* set_user_connections; an empty set (no other provider either) is not cached, and
\* a Redis error is logged.
SetConns(a) ==
    /\ apc[a] = "set"
    /\ conns' \in {seen[a], conns}
    /\ apc' = [apc EXCEPT ![a] = "idle"]
    /\ seen' = [seen EXCEPT ![a] = FALSE]
    /\ UNCHANGED <<row, expired, grantVars, cache, lock, overrun, workers, requests, stored, gone>>

-----------------------------------------------------------------------------
(* Time                                                                    *)

\* expires_at of the stored token comes near; a key has none.
Expire ==
    /\ row # None /\ row \notin expired /\ row[1] \notin keys
    /\ expired' = expired \union {row}
    /\ UNCHANGED <<row, grantVars, cache, conns, lock, overrun, workers, requests, agents, stored, gone>>

\* MUTANT of TokenExpires: cache_token without its ttl.
TokenNeverExpires ==
    /\ FALSE
    /\ UNCHANGED vars

\* The 300 s of a cached token.
TokenExpires ==
    /\ cache # None
    /\ cache' = None
    /\ UNCHANGED <<row, expired, grantVars, conns, lock, overrun, workers, requests, agents, stored, gone>>

\* MUTANT of ListExpires: set_user_connections without its ttl.
ListNeverExpires ==
    /\ FALSE
    /\ UNCHANGED vars

\* The 300 s of a cached connection list.
ListExpires ==
    /\ conns # None
    /\ conns' = None
    /\ UNCHANGED <<row, expired, grantVars, cache, lock, overrun, workers, requests, agents, stored, gone>>

\* MUTANT of LockExpires: no EX, the lock of a dead worker stays.
LockNeverExpires ==
    /\ FALSE
    /\ UNCHANGED vars

\* REFRESH_LOCK_TTL, which nobody renews: it may run out on a worker that waits for
\* the provider or for the database.
LockExpires ==
    /\ lock # None
    /\ overrun' = (overrun \/ Refreshing(lock))
    /\ lock' = None
    /\ UNCHANGED <<row, expired, grantVars, cache, conns, workers, requests, agents, stored, gone>>

-----------------------------------------------------------------------------

RefreshStep(w) ==
    GetCache(w) \/ GetRow(w) \/ AcquireLock(w) \/ ReadAgain(w) \/ PostRefresh(w)
    \/ UpdateRow(w) \/ ReleaseLock(w) \/ PutCache(w)

WorkerStep(w) == Resolve(w) \/ TestConnection(w) \/ RefreshStep(w) \/ Die(w)

RequestStep(o) ==
    \/ Connect(o, "connect") \/ Connect(o, "key") \/ Upsert(o)
    \/ Revoke(o) \/ DeleteRow(o) \/ DropConns(o) \/ DropToken(o)
    \/ Cleanup(o) \/ CleanupRow(o) \/ Fail(o)

AgentStep(a) == ReadConns(a) \/ FetchConnections(a) \/ SetConns(a)

Next ==
    \/ \E w \in Workers : WorkerStep(w)
    \/ \E o \in Operations : RequestStep(o)
    \/ \E a \in Agents : AgentStep(a)
    \/ Expire \/ TokenExpires \/ ListExpires \/ LockExpires

Spec == Init /\ [][Next]_vars

\* Every await of a call ends (Redis, the database and httpx have timeouts), and
\* Redis drops a key whose time is up.
FairSpec ==
    /\ Spec
    /\ \A w \in Workers : WF_vars(RefreshStep(w))
    /\ \A a \in Agents : WF_vars(FetchConnections(a) \/ SetConns(a))
    /\ WF_vars(TokenExpires) /\ WF_vars(ListExpires) /\ WF_vars(LockExpires)

-----------------------------------------------------------------------------

Places == {"idle", "get_cache", "get_row", "lock", "wait", "post", "update", "release", "put"}
RequestPlaces ==
    {"idle", "upsert", "upsert_key", "delete", "drop_conns", "drop_conns_key",
     "drop_conns_gone", "drop_token", "drop_token_gone", "cleanup_conns", "cleanup_row"}

StoreOK ==
    /\ row \in Token \union {None} /\ expired \subseteq Token
    /\ refreshable \subseteq Grants /\ keys \subseteq Grants /\ revoked \subseteq Grants
    /\ grants \in 0..MaxGrants /\ latest \in [Grants -> Nat]
    /\ cache \in Token \union {None} /\ conns \in BOOLEAN \union {None}
    /\ lock \in Workers \union {None} /\ overrun \in BOOLEAN
    /\ stored \subseteq Grants /\ gone \in BOOLEAN

WorkersOK ==
    /\ pc \in [Workers -> Places]
    /\ token \in [Workers -> Token \union {None}]
    /\ caching \in [Workers -> BOOLEAN]
    /\ \A w \in Workers : pc[w] \in {"lock", "wait", "post", "update", "put"} => token[w] # None

RequestsOK ==
    /\ opc \in [Operations -> RequestPlaces]
    /\ given \in [Operations -> Token \union {None}]
    /\ \A o \in Operations : opc[o] \in {"upsert", "upsert_key"} => given[o] # None

AgentsOK ==
    /\ apc \in [Agents -> {"idle", "read_row", "set"}]
    /\ seen \in [Agents -> BOOLEAN]

\* Type correctness: whoever is about to refresh, store or cache a token has one.
TypeOK == StoreOK /\ WorkersOK /\ RequestsOK /\ AgentsOK

\* Workers meet between their request to the provider and their release of the lock
\* only if the lock ran out on one of them; then a release may free the lock of
\* another, and so on, but when the last of them has left, whoever comes next is
\* alone there again, though some died holding the lock.
\* (oauth_engine.py 158-171, 422-482)
RefreshExclusive ==
    ~overrun => \A v, w \in Workers : Refreshing(v) /\ Refreshing(w) => v = w

\* Outside such an overrun the row never falls back to an older token of the same
\* grant, however refreshes, reconnects and failures interleave, and however late
\* after an overrun.  (oauth_engine.py 422-482)
NoTokenRegression ==
    [][~overrun /\ row # None /\ row' # None /\ row'[1] = row[1] => row'[2] >= row[2]]_vars

\* A connection that was removed comes back only by a connect of the user, with a
\* grant that was never in the row: no refresh in flight brings it back.
RemovedStaysRemoved ==
    [][row = None /\ row' # None => row'[1] \notin stored]_vars

\* The lock of a refresh, finished or dead, is eventually free.
LockFreed == []<>(lock = None)

\* Once the user stops changing the connection, a token of a removed connection
\* leaves the cache for good: a resolve that was under way may put it back, but
\* only once, and not for longer than its TTL.  (cache.py 60-64, agent_helpers 37-78)
StaleTokenPasses ==
    <>[](\A o \in Operations : opc[o] = "idle") => <>[](cache # None => row # None)

\* Likewise the list the agent is shown comes to agree with the row.
\* (cache.py 114-155, graph.py 260-273)
StaleListPasses ==
    <>[](\A o \in Operations : opc[o] = "idle") => <>[](conns # None => conns = (row # None))

\* Claim of delete_connection (connections_router.py 147), "Clear cached token and
\* connection list - agent sees disconnection immediately".
DisconnectionSeen == gone => cache = None /\ conns # TRUE

\* Claim of refresh_if_expired (oauth_engine.py 394), "Redis lock to prevent
\* concurrent refresh races (multi-worker safe)": the lock holder does not present
\* a refresh token that another worker has already used up.
RefreshTokenIsLatest ==
    \A w \in Workers : pc[w] = "post" => token[w][2] = latest[token[w][1]]

\* Claim of invalidate_token (cache.py 93-98), called after a disconnect, a reconnect
\* and a "Token refresh (old token is now invalid)": with nobody under way, a cached
\* token is the one in the row.
CachedTokenIsStored ==
    /\ \A w \in Workers : pc[w] = "idle"
    /\ \A o \in Operations : opc[o] = "idle"
    /\ row # None /\ cache # None
    => cache = row

=============================================================================
