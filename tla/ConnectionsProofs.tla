-------------------------- MODULE ConnectionsProofs --------------------------
(***************************************************************************)
(* Proofs about Connections: for any numbers of coroutines, requests and    *)
(* agents, any bounds, and providers that rotate refresh tokens or not, the *)
(* lock keeps refreshes apart, the row never falls back to an older token   *)
(* and no refresh brings a removed connection back.                         *)
(***************************************************************************)
EXTENDS Connections, TLAPS

USE NoneOutside, BoundsNatural DEF Token, Grants

-----------------------------------------------------------------------------
(* The invariant                                                           *)

\* Outside an overrun, whoever is refreshing set the lock that is there.
LockInv == ~overrun => \A w \in Workers : Refreshing(w) => lock = w

\* Neither the row nor a worker about to store a refreshed token holds one that the
\* provider has not given; outside an overrun the worker's is the provider's latest.
LatestInv ==
    /\ row # None => row[2] <= latest[row[1]]
    /\ \A w \in Workers : pc[w] = "update" =>
          /\ token[w][2] <= latest[token[w][1]]
          /\ ~overrun => token[w][2] = latest[token[w][1]]

\* A grant is stored by the request it was given to, and by no other.
GrantInv ==
    /\ row # None => row[1] \in stored
    /\ \A g \in stored : g <= grants
    /\ \A o \in Operations : given[o] # None =>
          /\ given[o][1] \notin stored /\ given[o][1] <= grants /\ given[o][2] = 0
    /\ \A o, p \in Operations :
          given[o] # None /\ given[p] # None /\ given[o][1] = given[p][1] => o = p

\* Workers hold tokens of grants that were stored.
HeldInv == \A w \in Workers : token[w] # None => token[w][1] \in stored

-----------------------------------------------------------------------------
(* What the steps leave alone                                              *)

\* What agents do, and the expiry of caches and tokens, touches neither the row nor
\* the lock nor anyone's place.
LEMMA OthersAside ==
    ASSUME (\E a \in Agents : AgentStep(a)) \/ Expire \/ TokenExpires \/ ListExpires
           \/ UNCHANGED vars
    PROVE  UNCHANGED <<row, grants, latest, lock, overrun, workers, requests, stored>>
BY DEF AgentStep, ReadConns, FetchConnections, SetConns, Expire, TokenExpires, ListExpires,
       vars, grantVars, workers, requests, agents

\* Requests do not touch the lock, the workers or the provider's refreshes.
LEMMA RequestsAside ==
    ASSUME NEW o \in Operations, RequestStep(o)
    PROVE  UNCHANGED <<latest, lock, overrun, workers>>
BY DEF RequestStep, Connect, Upsert, Revoke, DeleteRow, DropConns, DropToken, Cleanup,
       CleanupRow, Fail, grantVars, workers, requests, agents

\* A worker writes the row only in UpdateRow.
LEMMA WorkersAside ==
    ASSUME NEW w \in Workers, WorkerStep(w), ~UpdateRow(w)
    PROVE  UNCHANGED <<row, grants, requests, stored>>
BY DEF WorkerStep, RefreshStep, Resolve, TestConnection, GetCache, GetRow, AcquireLock,
       ReadAgain, PostRefresh, ReleaseLock, PutCache, Die, grantVars, workers, requests, agents

\* The expiry of the lock touches nothing else.
LEMMA LockAside ==
    ASSUME LockExpires
    PROVE  UNCHANGED <<row, grants, latest, workers, requests, stored>>
BY DEF LockExpires, grantVars, workers, requests, agents

-----------------------------------------------------------------------------
(* Type correctness                                                        *)

LEMMA LeaveOK ==
    ASSUME WorkersOK, NEW w \in Workers, Leave(w)
    PROVE  WorkersOK'
BY DEF WorkersOK, Leave, To, Places

LEMMA DeliverOK ==
    ASSUME WorkersOK, NEW w \in Workers, NEW t \in Token, Deliver(w, t)
    PROVE  WorkersOK'
<1>1. CASE caching[w]
  BY <1>1 DEF WorkersOK, Deliver, To, Places
<1>2. CASE ~caching[w]
  BY <1>2, LeaveOK DEF Deliver
<1>3. QED
  BY <1>1, <1>2

LEMMA DeliverToken ==
    ASSUME WorkersOK, NEW w \in Workers, NEW t, Deliver(w, t) \/ Leave(w)
    PROVE  token'[w] \in {None, t} /\ \A v \in Workers \ {w} : token'[v] = token[v]
BY DEF Deliver, Leave, WorkersOK

LEMMA SectionBoolean ==
    ASSUME NEW w \in Workers, LeavesSection(w)
    PROVE  overrun' \in BOOLEAN
BY DEF LeavesSection

LEMMA InitOK == Init => TypeOK
<1> SUFFICES ASSUME Init PROVE TypeOK
  OBVIOUS
<1>1. StoreOK
  <2>1. conns \in BOOLEAN \union {None} /\ gone \in BOOLEAN
    BY DEF Init
  <2>2. cache \in Token \union {None} /\ lock \in Workers \union {None} /\ row \in Token \union {None}
    BY DEF Init
  <2>3. grants \in 0..MaxGrants /\ latest \in [Grants -> Nat] /\ expired \subseteq Token
    BY DEF Init
  <2>4. QED
    BY <2>1, <2>2, <2>3 DEF Init, StoreOK
<1>2. WorkersOK
  BY DEF Init, WorkersOK, Places
<1>3. RequestsOK
  BY DEF Init, RequestsOK, RequestPlaces
<1>4. AgentsOK
  BY DEF Init, AgentsOK
<1>5. QED
  BY <1>1, <1>2, <1>3, <1>4 DEF TypeOK

\* Every step keeps the type invariant.
LEMMA TypeKept ==
    ASSUME TypeOK, [Next]_vars
    PROVE  TypeOK'
<1>1. ASSUME NEW w \in Workers, WorkerStep(w)
      PROVE  TypeOK'
  <2>1. CASE Resolve(w)
    <3>1. StoreOK' /\ RequestsOK' /\ AgentsOK'
      BY <2>1 DEF Resolve, TypeOK, StoreOK, RequestsOK, AgentsOK, grantVars, workers, requests, agents
    <3>2. WorkersOK'
      BY <2>1 DEF Resolve, TypeOK, StoreOK, WorkersOK, To, Places, workers
    <3>3. QED
      BY <3>1, <3>2 DEF TypeOK
  <2>2. CASE TestConnection(w)
    <3>1. StoreOK' /\ RequestsOK' /\ AgentsOK'
      BY <2>2 DEF TestConnection, TypeOK, StoreOK, RequestsOK, AgentsOK, grantVars, workers, requests, agents
    <3>2. WorkersOK'
      BY <2>2 DEF TestConnection, TypeOK, StoreOK, WorkersOK, To, Places, workers
    <3>3. QED
      BY <3>1, <3>2 DEF TypeOK
  <2>3. CASE GetCache(w)
    <3>1. StoreOK' /\ RequestsOK' /\ AgentsOK'
      BY <2>3 DEF GetCache, TypeOK, StoreOK, RequestsOK, AgentsOK, grantVars, workers, requests, agents
    <3>2. WorkersOK'
      BY <2>3, LeaveOK DEF GetCache, TypeOK, WorkersOK, To, Places, workers
    <3>3. QED
      BY <3>1, <3>2 DEF TypeOK
  <2>4. CASE GetRow(w)
    <3>1. StoreOK' /\ RequestsOK' /\ AgentsOK'
      BY <2>4 DEF GetRow, TypeOK, StoreOK, RequestsOK, AgentsOK, grantVars, workers, requests, agents
    <3>2. WorkersOK'
      <4>1. CASE Leave(w)
        BY <4>1, LeaveOK DEF TypeOK
      <4>2. CASE row \in Token /\ Deliver(w, row)
        BY <4>2, DeliverOK DEF TypeOK
      <4>3. CASE row \in Token /\ To(w, "lock") /\ token' = [token EXCEPT ![w] = row] /\ UNCHANGED caching
        BY <4>3 DEF To, TypeOK, WorkersOK, Places
      <4>4. QED
        BY <2>4, <4>1, <4>2, <4>3 DEF GetRow, TypeOK, StoreOK
    <3>3. QED
      BY <3>1, <3>2 DEF TypeOK
  <2>5. CASE AcquireLock(w)
    <3>1. StoreOK' /\ RequestsOK' /\ AgentsOK'
      BY <2>5 DEF AcquireLock, TypeOK, StoreOK, RequestsOK, AgentsOK, grantVars, workers, requests, agents
    <3>2. WorkersOK'
      BY <2>5 DEF AcquireLock, TypeOK, StoreOK, WorkersOK, To, Places, workers
    <3>3. QED
      BY <3>1, <3>2 DEF TypeOK
  <2>6. CASE ReadAgain(w)
    <3>1. StoreOK' /\ RequestsOK' /\ AgentsOK'
      BY <2>6 DEF ReadAgain, TypeOK, StoreOK, RequestsOK, AgentsOK, grantVars, workers, requests, agents
    <3>2. WorkersOK'
      BY <2>6, LeaveOK, DeliverOK DEF ReadAgain, TypeOK, StoreOK, WorkersOK, To, Places
    <3>3. QED
      BY <3>1, <3>2 DEF TypeOK
  <2>7. CASE PostRefresh(w)
    <3>1. StoreOK' /\ RequestsOK' /\ AgentsOK'
      <4>1. token[w] \in Token
        BY <2>7 DEF PostRefresh, TypeOK, WorkersOK
      <4>2. latest' \in [Grants -> Nat]
        <5>1. token[w][1] \in Grants /\ latest \in [Grants -> Nat]
          BY <4>1 DEF Token, TypeOK, StoreOK
        <5>2. \/ latest' = [latest EXCEPT ![token[w][1]] = @ + 1]
              \/ latest' = latest
          BY <2>7 DEF PostRefresh
        <5>. QED
          BY <5>1, <5>2
      <4>3. QED
        BY <2>7, <4>2 DEF PostRefresh, TypeOK, StoreOK, RequestsOK, AgentsOK, requests, agents
    <3>2. WorkersOK'
      <4>1. token[w] \in Token /\ latest[token[w][1]] + 1 \in Nat
        BY <2>7 DEF PostRefresh, TypeOK, WorkersOK, StoreOK
      <4>2. CASE token' = [token EXCEPT ![w] = None] /\ To(w, "release")
        BY <2>7, <4>2 DEF PostRefresh, To, TypeOK, WorkersOK, Places
      <4>3. CASE /\ token' = [token EXCEPT ![w] = <<token[w][1], latest[token[w][1]] + 1>>]
                 /\ To(w, "update")
        BY <2>7, <4>1, <4>3 DEF PostRefresh, To, TypeOK, WorkersOK, Places
      <4>4. QED
        BY <2>7, <4>2, <4>3 DEF PostRefresh
    <3>3. QED
      BY <3>1, <3>2 DEF TypeOK
  <2>8. CASE UpdateRow(w)
    <3>1. StoreOK' /\ RequestsOK' /\ AgentsOK'
      BY <2>8 DEF UpdateRow, TypeOK, StoreOK, WorkersOK, RequestsOK, AgentsOK, grantVars, workers, requests, agents
    <3>2. WorkersOK'
      BY <2>8 DEF UpdateRow, TypeOK, StoreOK, WorkersOK, To, Places, workers
    <3>3. QED
      BY <3>1, <3>2 DEF TypeOK
  <2>9. CASE ReleaseLock(w)
    <3>1. StoreOK' /\ RequestsOK' /\ AgentsOK'
      <4>1. overrun' \in BOOLEAN
        BY <2>9, SectionBoolean DEF ReleaseLock
      <4>2. QED
        BY <2>9, <4>1 DEF ReleaseLock, TypeOK, StoreOK, RequestsOK, AgentsOK, grantVars, workers, requests, agents
    <3>2. WorkersOK'
      BY <2>9, LeaveOK, DeliverOK DEF ReleaseLock, TypeOK, WorkersOK
    <3>3. QED
      BY <3>1, <3>2 DEF TypeOK
  <2>10. CASE PutCache(w)
    <3>1. StoreOK' /\ RequestsOK' /\ AgentsOK'
      BY <2>10 DEF PutCache, TypeOK, StoreOK, WorkersOK, RequestsOK, AgentsOK, grantVars, workers, requests, agents
    <3>2. WorkersOK'
      BY <2>10, LeaveOK DEF PutCache, TypeOK, WorkersOK, To, Places, workers
    <3>3. QED
      BY <3>1, <3>2 DEF TypeOK
  <2>11. CASE Die(w)
    <3>1. StoreOK' /\ RequestsOK' /\ AgentsOK'
      <4>1. overrun' \in BOOLEAN
        BY <2>11, SectionBoolean DEF Die
      <4>2. QED
        BY <2>11, <4>1 DEF Die, TypeOK, StoreOK, RequestsOK, AgentsOK, grantVars, workers, requests, agents
    <3>2. WorkersOK'
      BY <2>11, LeaveOK DEF Die, TypeOK, WorkersOK, To, Places, workers
    <3>3. QED
      BY <3>1, <3>2 DEF TypeOK
  <2>12. QED
    BY <1>1, <2>1, <2>2, <2>3, <2>4, <2>5, <2>6, <2>7, <2>8, <2>9, <2>10, <2>11 DEF WorkerStep, RefreshStep
<1>2. ASSUME NEW o \in Operations, RequestStep(o)
      PROVE  TypeOK'
  <2>1. WorkersOK' /\ AgentsOK'
    BY <1>2, RequestsAside DEF TypeOK, WorkersOK, AgentsOK, workers, agents, RequestStep, Connect,
       Upsert, Revoke, DeleteRow, DropConns, DropToken, Cleanup, CleanupRow, Fail
  <2>2. ASSUME NEW kind \in {"connect", "key"}, Connect(o, kind)
        PROVE  StoreOK' /\ RequestsOK'
    <3>1. grants + 1 \in Grants /\ <<grants + 1, 0>> \in Token
      BY <2>2 DEF Connect, TypeOK, StoreOK
    <3>2. StoreOK'
      <4>1. grants' \in 0..MaxGrants /\ refreshable' \subseteq Grants /\ keys' \subseteq Grants
        <5>1. keys \subseteq Grants /\ refreshable \subseteq Grants /\ grants' \in 0..MaxGrants
          BY <2>2, <3>1 DEF Connect, TypeOK, StoreOK
        <5>2. (keys \union {grants + 1}) \subseteq Grants /\ (refreshable \union {grants + 1}) \subseteq Grants
          BY <3>1, <5>1
        <5>3. /\ keys' = keys \/ keys' = keys \union {grants + 1}
              /\ refreshable' = refreshable \/ refreshable' = refreshable \union {grants + 1}
          BY <2>2, Zenon DEF Connect
        <5>4. QED
          BY <5>1, <5>2, <5>3, Zenon
      <4>2. QED
        BY <2>2, <4>1 DEF Connect, TypeOK, StoreOK
    <3>3. given' \in [Operations -> Token \union {None}]
      BY <2>2, <3>1 DEF Connect, TypeOK, RequestsOK
    <3>4. opc' \in [Operations -> RequestPlaces]
      BY <2>2 DEF Connect, Go, TypeOK, RequestsOK, RequestPlaces
    <3>5. \A p \in Operations : opc'[p] \in {"upsert", "upsert_key"} => given'[p] # None
      BY <2>2, <3>1 DEF Connect, Go, TypeOK, RequestsOK
    <3>6. QED
      BY <3>2, <3>3, <3>4, <3>5 DEF RequestsOK
  <2>3. ASSUME Upsert(o)
        PROVE  StoreOK' /\ RequestsOK'
    BY <2>3 DEF Upsert, TypeOK, StoreOK, RequestsOK, RequestPlaces, Go, grantVars
  <2>4. ASSUME Revoke(o)
        PROVE  StoreOK' /\ RequestsOK'
    BY <2>4 DEF Revoke, TypeOK, StoreOK, RequestsOK, RequestPlaces, Go, grantVars
  <2>5. ASSUME DeleteRow(o)
        PROVE  StoreOK' /\ RequestsOK'
    BY <2>5 DEF DeleteRow, TypeOK, StoreOK, RequestsOK, RequestPlaces, Go, grantVars
  <2>6. ASSUME DropConns(o)
        PROVE  StoreOK' /\ RequestsOK'
    BY <2>6 DEF DropConns, TypeOK, StoreOK, RequestsOK, RequestPlaces, Go, grantVars
  <2>7. ASSUME DropToken(o)
        PROVE  StoreOK' /\ RequestsOK'
    BY <2>7 DEF DropToken, TypeOK, StoreOK, RequestsOK, RequestPlaces, Go, grantVars
  <2>8. ASSUME Cleanup(o)
        PROVE  StoreOK' /\ RequestsOK'
    BY <2>8 DEF Cleanup, TypeOK, StoreOK, RequestsOK, RequestPlaces, Go, grantVars
  <2>9. ASSUME CleanupRow(o)
        PROVE  StoreOK' /\ RequestsOK'
    BY <2>9 DEF CleanupRow, TypeOK, StoreOK, RequestsOK, RequestPlaces, Go, grantVars
  <2>10. ASSUME Fail(o)
        PROVE  StoreOK' /\ RequestsOK'
    BY <2>10 DEF Fail, TypeOK, StoreOK, RequestsOK, RequestPlaces, Go, grantVars
  <2>11. QED
    BY <1>2, <2>1, <2>2, <2>3, <2>4, <2>5, <2>6, <2>7, <2>8, <2>9, <2>10 DEF RequestStep, TypeOK
<1>3. ASSUME (\E a \in Agents : AgentStep(a)) \/ Expire \/ TokenExpires \/ ListExpires
             \/ LockExpires \/ UNCHANGED vars
      PROVE  TypeOK'
  <2>1. WorkersOK' /\ RequestsOK'
    BY <1>3, OthersAside, LockAside DEF TypeOK, WorkersOK, RequestsOK, workers, requests
  <2>2. ASSUME NEW a \in Agents, AgentStep(a)
        PROVE  StoreOK' /\ AgentsOK'
    BY <2>2 DEF AgentStep, ReadConns, FetchConnections, SetConns, TypeOK, StoreOK, AgentsOK, grantVars
  <2>3. ASSUME Expire \/ TokenExpires \/ ListExpires \/ LockExpires \/ UNCHANGED vars
        PROVE  StoreOK' /\ AgentsOK'
    BY <2>3 DEF Expire, TokenExpires, ListExpires, LockExpires, TypeOK, StoreOK, AgentsOK,
       vars, grantVars, agents
  <2>4. QED
    BY <1>3, <2>1, <2>2, <2>3 DEF TypeOK
<1>4. QED
  BY <1>1, <1>2, <1>3 DEF Next

-----------------------------------------------------------------------------
(* The lock                                                                *)

\* Every step keeps the lock with the refresher, or begins an overrun, or is made
\* during one; the step that ends it leaves nobody refreshing.
LEMMA LockKept ==
    ASSUME TypeOK, LockInv, [Next]_vars
    PROVE  LockInv'
<1>1. ASSUME NEW w \in Workers, AcquireLock(w)
      PROVE  LockInv'
  BY <1>1 DEF AcquireLock, To, LockInv, Refreshing, TypeOK, WorkersOK
<1>2. ASSUME NEW w \in Workers, PostRefresh(w) \/ UpdateRow(w)
      PROVE  LockInv'
  BY <1>2 DEF PostRefresh, UpdateRow, To, LockInv, Refreshing, TypeOK, WorkersOK
<1>3. ASSUME NEW w \in Workers, ReleaseLock(w)
      PROVE  LockInv'
  <2>1. /\ ~Refreshing(w)'
        /\ \A v \in Workers \ {w} : Refreshing(v)' <=> Refreshing(v)
    BY <1>3 DEF ReleaseLock, Deliver, Leave, To, Refreshing, TypeOK, WorkersOK
  <2>2. Refreshing(w)
    BY <1>3 DEF ReleaseLock, Refreshing
  <2>3. overrun' = (overrun /\ \E v \in Workers \ {w} : Refreshing(v))
    BY <1>3 DEF ReleaseLock, LeavesSection
  <2>4. QED
    BY <2>1, <2>2, <2>3 DEF LockInv
<1>4. ASSUME NEW w \in Workers, Resolve(w) \/ TestConnection(w) \/ GetCache(w) \/ GetRow(w)
      PROVE  LockInv'
  BY <1>4 DEF Resolve, TestConnection, GetCache, GetRow, Deliver, Leave, To,
     LockInv, Refreshing, TypeOK, WorkersOK, workers
<1>5. ASSUME NEW w \in Workers, ReadAgain(w) \/ PutCache(w)
      PROVE  LockInv'
  BY <1>5 DEF ReadAgain, PutCache, Deliver, Leave, To, LockInv, Refreshing, TypeOK, WorkersOK
<1>d. ASSUME NEW w \in Workers, Die(w)
      PROVE  LockInv'
  <2>1. /\ ~Refreshing(w)' /\ lock' = lock
        /\ \A v \in Workers \ {w} : Refreshing(v)' <=> Refreshing(v)
    BY <1>d DEF Die, Leave, To, Refreshing, TypeOK, WorkersOK
  <2>2. overrun' = (overrun /\ \E v \in Workers \ {w} : Refreshing(v))
    BY <1>d DEF Die, LeavesSection
  <2>3. QED
    BY <2>1, <2>2 DEF LockInv
<1>6. CASE LockExpires
  <2>1. \A w \in Workers : Refreshing(w)' <=> Refreshing(w)
    BY <1>6 DEF LockExpires, Refreshing, workers
  <2>2. overrun' = (overrun \/ Refreshing(lock))
    BY <1>6 DEF LockExpires
  <2>3. QED
    BY <2>1, <2>2 DEF LockInv
<1>7. ASSUME NEW o \in Operations, RequestStep(o)
      PROVE  LockInv'
  BY <1>7, RequestsAside DEF LockInv, Refreshing, workers
<1>8. CASE (\E a \in Agents : AgentStep(a)) \/ Expire \/ TokenExpires \/ ListExpires \/ UNCHANGED vars
  BY <1>8, OthersAside DEF LockInv, Refreshing, workers
<1>9. QED
  BY <1>1, <1>2, <1>3, <1>4, <1>5, <1>d, <1>6, <1>7, <1>8 DEF Next, WorkerStep, RefreshStep

-----------------------------------------------------------------------------
(* Tokens and grants                                                       *)

\* Workers take their tokens from the row and stay with the grant.
LEMMA HeldKept ==
    ASSUME TypeOK, GrantInv, HeldInv, [Next]_vars
    PROVE  HeldInv'
<1>1. ASSUME NEW w \in Workers, WorkerStep(w)
      PROVE  HeldInv'
  <2>1. stored \subseteq stored'
    BY <1>1 DEF WorkerStep, RefreshStep, Resolve, TestConnection, GetCache, GetRow, AcquireLock,
       ReadAgain, PostRefresh, UpdateRow, ReleaseLock, PutCache, Die
  <2>2. /\ \A v \in Workers \ {w} : token'[v] = token[v]
        /\ token'[w] # None => \/ token'[w] \in {row, token[w]}
                               \/ token[w] # None /\ token'[w][1] = token[w][1]
    <3>1. CASE Leave(w)
      BY <3>1, DeliverToken DEF TypeOK
    <3>2. CASE Deliver(w, row) \/ Deliver(w, token[w])
      BY <3>2, DeliverToken DEF TypeOK
    <3>3. CASE token' = [token EXCEPT ![w] = row] \/ token' = [token EXCEPT ![w] = None]
               \/ token' = token
      BY <3>3 DEF TypeOK, WorkersOK
    <3>4. CASE PostRefresh(w)
      BY <3>4 DEF PostRefresh, TypeOK, WorkersOK
    <3>5. QED
      BY <1>1, <3>1, <3>2, <3>3, <3>4 DEF WorkerStep, RefreshStep, Resolve, TestConnection,
         GetCache, GetRow, AcquireLock, ReadAgain, UpdateRow, ReleaseLock, PutCache, Die
  <2>3. QED
    BY <2>1, <2>2 DEF HeldInv, GrantInv
<1>2. ASSUME NEW o \in Operations, RequestStep(o)
      PROVE  HeldInv'
  <2>1. stored \subseteq stored'
    BY <1>2 DEF RequestStep, Connect, Upsert, Revoke, DeleteRow, DropConns, DropToken,
       Cleanup, CleanupRow, Fail
  <2>2. QED
    BY <1>2, <2>1, RequestsAside DEF HeldInv, workers
<1>3. CASE (\E a \in Agents : AgentStep(a)) \/ Expire \/ TokenExpires \/ ListExpires
           \/ LockExpires \/ UNCHANGED vars
  BY <1>3, OthersAside, LockAside DEF HeldInv, workers
<1>4. QED
  BY <1>1, <1>2, <1>3 DEF Next

\* A grant reaches the row first from the request it was given to.
LEMMA GrantKept ==
    ASSUME TypeOK, GrantInv, HeldInv, [Next]_vars
    PROVE  GrantInv'
<1>1. ASSUME NEW w \in Workers, UpdateRow(w), row # None
      PROVE  GrantInv'
  <2>1. token[w] \in Token /\ token[w][1] \in stored
    BY <1>1 DEF UpdateRow, HeldInv, TypeOK, WorkersOK
  <2>2. stored' = stored /\ (row' = row \/ row' = token[w])
    BY <1>1, <2>1 DEF UpdateRow
  <2>3. QED
    BY <1>1, <2>1, <2>2 DEF UpdateRow, GrantInv, grantVars, requests
<1>2. ASSUME NEW w \in Workers, UpdateRow(w), row = None
      PROVE  GrantInv'
  BY <1>2 DEF UpdateRow, GrantInv, grantVars, requests
<1>3. ASSUME NEW w \in Workers, WorkerStep(w), ~UpdateRow(w)
      PROVE  GrantInv'
  BY <1>3, WorkersAside DEF GrantInv, requests
<1>4. ASSUME NEW o \in Operations, NEW kind \in {"connect", "key"}, Connect(o, kind)
      PROVE  GrantInv'
  BY <1>4 DEF Connect, GrantInv, TypeOK, StoreOK, RequestsOK
<1>5. ASSUME NEW o \in Operations, Upsert(o)
      PROVE  GrantInv'
  BY <1>5 DEF Upsert, GrantInv, TypeOK, StoreOK, RequestsOK, grantVars
<1>6. ASSUME NEW o \in Operations, Fail(o)
      PROVE  GrantInv'
  BY <1>6 DEF Fail, GrantInv, TypeOK, StoreOK, RequestsOK, grantVars
<1>7. ASSUME NEW o \in Operations, Revoke(o) \/ DropConns(o) \/ DropToken(o) \/ Cleanup(o)
      PROVE  GrantInv'
  <2>1. UNCHANGED <<row, grants, given, stored>>
    BY <1>7 DEF Revoke, DropConns, DropToken, Cleanup, grantVars
  <2>2. QED
    BY <2>1 DEF GrantInv
<1>8. ASSUME NEW o \in Operations, DeleteRow(o) \/ CleanupRow(o)
      PROVE  GrantInv'
  BY <1>8 DEF DeleteRow, CleanupRow, GrantInv, grantVars
<1>9. CASE (\E a \in Agents : AgentStep(a)) \/ Expire \/ TokenExpires \/ ListExpires
           \/ LockExpires \/ UNCHANGED vars
  BY <1>9, OthersAside, LockAside DEF GrantInv, requests
<1>10. QED
  BY <1>1, <1>2, <1>3, <1>4, <1>5, <1>6, <1>7, <1>8, <1>9 DEF Next, RequestStep, WorkerStep, RefreshStep

\* A refreshed token stays the provider's latest until it is stored.
LEMMA LatestKept ==
    ASSUME TypeOK, LockInv, GrantInv, LatestInv, [Next]_vars
    PROVE  LatestInv'
<1>1. ASSUME NEW w \in Workers, PostRefresh(w)
      PROVE  LatestInv'
  <2>1. ~overrun => \A v \in Workers : pc[v] = "update" => v = w
    BY <1>1 DEF PostRefresh, LockInv, Refreshing
  <2>2. token[w] \in Token
    BY <1>1 DEF PostRefresh, TypeOK, WorkersOK
  <2>3. row' = row /\ \A g \in Grants : latest'[g] \in Nat /\ latest[g] \in Nat /\ latest[g] <= latest'[g]
    <3>1. row' = row /\ (latest' = latest \/ latest' = [latest EXCEPT ![token[w][1]] = @ + 1])
      BY <1>1 DEF PostRefresh
    <3>2. latest \in [Grants -> Nat]
      BY DEF TypeOK, StoreOK
    <3>3. token[w][1] \in Grants
      BY <2>2 DEF Token
    <3>4. ASSUME NEW g \in Grants PROVE latest'[g] \in Nat /\ latest[g] \in Nat /\ latest[g] <= latest'[g]
      BY <3>1, <3>2, <3>3
    <3>5. QED
      BY <3>1, <3>4
  <2>4. row' # None => row'[2] <= latest'[row'[1]]
    BY <2>3 DEF LatestInv, TypeOK, StoreOK
  <2>5. \A v \in Workers \ {w} : pc'[v] = pc[v] /\ token'[v] = token[v]
    BY <1>1 DEF PostRefresh, To, TypeOK, WorkersOK
  <2>6. pc'[w] = "update" => token'[w][2] = latest'[token'[w][1]] /\ latest'[token'[w][1]] \in Nat
    BY <1>1, <2>2 DEF PostRefresh, To, TypeOK, StoreOK, WorkersOK
  <2>7. ASSUME NEW v \in Workers, v # w, pc[v] = "update"
        PROVE  token[v][2] <= latest'[token[v][1]]
    <3>1. token[v] \in Token
      BY <2>7 DEF TypeOK, WorkersOK
    <3>2. token[v][2] \in Nat /\ token[v][1] \in Grants
      BY <3>1 DEF Token
    <3>3. token[v][2] <= latest[token[v][1]]
      BY <2>7 DEF LatestInv
    <3>4. QED
      BY <2>3, <3>2, <3>3
  <2>8. overrun' = overrun
    BY <1>1 DEF PostRefresh
  <2>9. ASSUME NEW v \in Workers, pc'[v] = "update"
        PROVE  /\ token'[v][2] <= latest'[token'[v][1]]
               /\ ~overrun' => token'[v][2] = latest'[token'[v][1]]
    <3>1. CASE v = w
      BY <2>6, <2>9, <3>1
    <3>2. CASE v # w
      BY <2>1, <2>5, <2>7, <2>8, <2>9, <3>2
    <3>3. QED
      BY <3>1, <3>2
  <2>10. QED
    BY <2>4, <2>9 DEF LatestInv
<1>2. ASSUME NEW w \in Workers, UpdateRow(w)
      PROVE  LatestInv'
  <2>1. row' \in {row, token[w]} /\ latest' = latest /\ overrun' = overrun
    BY <1>2 DEF UpdateRow, grantVars
  <2>2. token[w][2] <= latest[token[w][1]]
    BY <1>2 DEF UpdateRow, LatestInv
  <2>3. row # None \/ row' = row
    BY <1>2 DEF UpdateRow
  <2>4. \A v \in Workers : pc'[v] = "update" => pc[v] = "update" /\ token'[v] = token[v]
    BY <1>2 DEF UpdateRow, To, TypeOK, WorkersOK
  <2>5. QED
    BY <2>1, <2>2, <2>3, <2>4 DEF LatestInv
<1>3. ASSUME NEW w \in Workers,
             Resolve(w) \/ TestConnection(w) \/ GetCache(w) \/ AcquireLock(w) \/ PutCache(w)
      PROVE  LatestInv'
  <2>1. /\ row' = row /\ latest' = latest /\ overrun' = overrun
        /\ \A v \in Workers : pc'[v] = "update" => pc[v] = "update" /\ token'[v] = token[v]
    <3>1. CASE Resolve(w) \/ TestConnection(w) \/ AcquireLock(w)
      BY <3>1 DEF Resolve, TestConnection, AcquireLock, To, TypeOK, WorkersOK, grantVars
    <3>2. CASE GetCache(w)
      BY <3>2 DEF GetCache, Leave, To, TypeOK, WorkersOK, grantVars
    <3>3. CASE PutCache(w)
      BY <3>3 DEF PutCache, Leave, To, TypeOK, WorkersOK, grantVars
    <3>4. QED
      BY <1>3, <3>1, <3>2, <3>3
  <2>2. QED
    BY <2>1 DEF LatestInv
<1>a. ASSUME NEW w \in Workers, Die(w) \/ ReleaseLock(w)
      PROVE  LatestInv'
  <2>1. UNCHANGED <<row, latest>> /\ \A v \in Workers \ {w} : pc'[v] = pc[v] /\ token'[v] = token[v]
    BY <1>a DEF Die, ReleaseLock, Deliver, Leave, To, TypeOK, WorkersOK, grantVars
  <2>2. pc'[w] # "update"
    BY <1>a DEF Die, ReleaseLock, Deliver, Leave, To, TypeOK, WorkersOK
  <2>3. overrun' = (overrun /\ \E v \in Workers \ {w} : Refreshing(v))
    BY <1>a DEF Die, ReleaseLock, LeavesSection
  <2>4. ASSUME NEW v \in Workers \ {w}, pc[v] = "update", ~overrun'
        PROVE  ~overrun
    BY <2>3, <2>4 DEF Refreshing
  <2>5. QED
    BY <2>1, <2>2, <2>4 DEF LatestInv
<1>4. ASSUME NEW w \in Workers, GetRow(w) \/ ReadAgain(w)
      PROVE  LatestInv'
  <2>1. UNCHANGED <<row, latest, overrun>> /\ \A v \in Workers \ {w} : pc'[v] = pc[v] /\ token'[v] = token[v]
    BY <1>4 DEF GetRow, ReadAgain, Deliver, Leave, To, TypeOK, WorkersOK, grantVars
  <2>2. pc'[w] # "update"
    BY <1>4 DEF GetRow, ReadAgain, Deliver, Leave, To, TypeOK, WorkersOK
  <2>3. QED
    BY <2>1, <2>2 DEF LatestInv
<1>5. ASSUME NEW o \in Operations, Upsert(o)
      PROVE  LatestInv'
  BY <1>5 DEF Upsert, LatestInv, GrantInv, TypeOK, StoreOK, RequestsOK, grantVars, workers
<1>6. ASSUME NEW o \in Operations, RequestStep(o), ~Upsert(o)
      PROVE  LatestInv'
  <2>1. row' \in {row, None}
    BY <1>6 DEF RequestStep, Connect, Revoke, DeleteRow, DropConns, DropToken, Cleanup,
       CleanupRow, Fail
  <2>2. QED
    BY <1>6, <2>1, RequestsAside DEF LatestInv, workers
<1>7. CASE (\E a \in Agents : AgentStep(a)) \/ Expire \/ TokenExpires \/ ListExpires
           \/ UNCHANGED vars
  BY <1>7, OthersAside DEF LatestInv, workers
<1>8. CASE LockExpires
  <2>1. UNCHANGED <<row, latest, workers>> /\ (overrun => overrun')
    BY <1>8 DEF LockExpires, grantVars
  <2>2. QED
    BY <2>1 DEF LatestInv, workers
<1>9. QED
  BY <1>1, <1>2, <1>3, <1>a, <1>4, <1>5, <1>6, <1>7, <1>8 DEF Next, WorkerStep, RefreshStep

\* What a step may do to the row: nothing, remove it, store a refreshed token over
\* what is there, or store a new grant.
LEMMA RowSteps ==
    ASSUME [Next]_vars
    PROVE  \/ row' \in {row, None}
           \/ \E w \in Workers : row # None /\ pc[w] = "update" /\ row' = token[w]
           \/ \E o \in Operations : opc[o] \in {"upsert", "upsert_key"} /\ row' = given[o]
<1>1. ASSUME NEW w \in Workers, WorkerStep(w)
      PROVE  row' = row \/ (row # None /\ pc[w] = "update" /\ row' = token[w])
  BY <1>1, WorkersAside DEF UpdateRow
<1>2. ASSUME NEW o \in Operations, RequestStep(o)
      PROVE  row' \in {row, None} \/ (opc[o] \in {"upsert", "upsert_key"} /\ row' = given[o])
  BY <1>2 DEF RequestStep, Connect, Upsert, Revoke, DeleteRow, DropConns, DropToken, Cleanup,
     CleanupRow, Fail
<1>3. CASE (\E a \in Agents : AgentStep(a)) \/ Expire \/ TokenExpires \/ ListExpires
           \/ LockExpires \/ UNCHANGED vars
  BY <1>3, OthersAside, LockAside
<1>4. QED
  BY <1>1, <1>2, <1>3 DEF Next

-----------------------------------------------------------------------------
(* The theorems                                                            *)

\* Type correctness, for every value of the constants: in particular, whoever is
\* about to post, store or cache a token has one (oauth_engine.py 386-482).
THEOREM TypeCorrect == Spec => []TypeOK
<1>1. TypeOK /\ [Next]_vars => TypeOK'
  BY TypeKept
<1>2. QED
  BY InitOK, <1>1, PTL DEF Spec

\* No two workers are between their request to the provider and their release of
\* the lock, whoever dies in between, unless the lock ran out on one of them; and
\* that is over when the last of those it let in has left
\* (oauth_engine.py 158-171, 422-482).
THEOREM Exclusion == Spec => []RefreshExclusive
<1>1. Init => LockInv
  BY DEF Init, LockInv, Refreshing
<1>2. TypeOK /\ LockInv /\ [Next]_vars => LockInv'
  BY LockKept
<1>3. LockInv => RefreshExclusive
  BY DEF LockInv, RefreshExclusive
<1>4. QED
  BY TypeCorrect, <1>1, <1>2, <1>3, PTL DEF Spec

\* The grants' part of the invariant stands by itself.
LEMMA Granted == Spec => [](GrantInv /\ HeldInv)
<1>1. Init => GrantInv /\ HeldInv
  BY DEF Init, GrantInv, HeldInv
<1>2. TypeOK /\ GrantInv /\ HeldInv /\ [Next]_vars => (GrantInv /\ HeldInv)'
  BY GrantKept, HeldKept
<1>3. QED
  BY TypeCorrect, <1>1, <1>2, PTL DEF Spec

\* The invariant that keeps the row from falling back.
IInv == TypeOK /\ LockInv /\ GrantInv /\ HeldInv /\ LatestInv

\* Outside an overrun the row never goes back to an older token of its grant, and
\* what an overrun left behind does not change that (oauth_engine.py 386-482, 214-241).
THEOREM NoRegression == Spec => NoTokenRegression
<1>1. Init => IInv
  BY InitOK DEF Init, IInv, LockInv, LatestInv, GrantInv, HeldInv, Refreshing
<1>2. IInv /\ [Next]_vars => IInv'
  BY TypeKept, LockKept, LatestKept, GrantKept, HeldKept DEF IInv
<1>3. ASSUME IInv, [Next]_vars, ~overrun, row # None, row' # None, row'[1] = row[1]
      PROVE  row'[2] >= row[2]
  <2>1. row \in Token /\ latest \in [Grants -> Nat]
    BY <1>3 DEF IInv, TypeOK, StoreOK
  <2>2. CASE row' = row
    BY <2>1, <2>2
  <2>3. ASSUME NEW w \in Workers, pc[w] = "update", row' = token[w]
        PROVE  row'[2] >= row[2]
    BY <1>3, <2>1, <2>3 DEF IInv, LatestInv, TypeOK, WorkersOK
  <2>4. ASSUME NEW o \in Operations, opc[o] \in {"upsert", "upsert_key"}, row' = given[o]
        PROVE  FALSE
    BY <1>3, <2>4 DEF IInv, GrantInv
  <2>5. QED
    BY <1>3, <2>2, <2>3, <2>4, RowSteps
<1>4. QED
  BY <1>1, <1>2, <1>3, PTL DEF Spec, NoTokenRegression

\* A connection that was removed comes back only
\* with a new grant of the user (oauth_engine.py 453-468, 513-550).
THEOREM NoResurrection == Spec => RemovedStaysRemoved
<1>1. ASSUME TypeOK, GrantInv, [Next]_vars, row = None, row' # None
      PROVE  row'[1] \notin stored
  BY <1>1, RowSteps DEF GrantInv, TypeOK, RequestsOK
<1>2. QED
  BY TypeCorrect, Granted, <1>1, PTL DEF Spec, RemovedStaysRemoved

=============================================================================
