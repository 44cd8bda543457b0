------------------------------ MODULE OAuthFlow ------------------------------
(***************************************************************************)
(* The authorization-code flow of services/connections/oauth_engine.py and  *)
(* its two endpoints in api/connections_router.py.                          *)
(*                                                                         *)
(* /authorize writes two Redis keys one after the other, the CSRF state and *)
(* the PKCE verifier, each for ten minutes; /callback pops the state in one *)
(* transaction and the verifier in two commands, posts the code, tests the  *)
(* token, stores it and drops the caches.  The browser may deliver a        *)
(* callback any number of times and a worker may die at any await.          *)
(*                                                                         *)
(* The state remembers the user; provider, code and state of a callback are *)
(* three parameters of its request, and nothing but PKCE ties them together.*)
(* A flow is an authorize request; it stands for its state, its verifier,   *)
(* its code and the token that code is exchanged for.  The session in the   *)
(* state only chooses where the browser is sent and is left out.            *)
(***************************************************************************)
EXTENDS FiniteSets

CONSTANTS
    Flows,          \* authorize requests; secrets.token_urlsafe(32) makes their states distinct
    Callbacks,      \* callback requests in progress at once
    Users, Providers,
    Pkce,           \* providers with pkce_mode "s256" or "s256+secret"
    NoUser, NoProvider, NoFlow

ASSUME PkceProviders == Pkce \subseteq Providers
ASSUME NothingOutside == NoUser \notin Users /\ NoProvider \notin Providers /\ NoFlow \notin Flows

VARIABLES
    fpc,            \* an authorize request: its place
    owner,          \* the user in its state
    asked,          \* the provider it leads to
    states,         \* oauth_state:{state}, the keys that exist
    verifiers,      \* pkce_verifier:{state}, the keys that exist
    overdue,        \* states whose ten minutes are over
    codes,          \* authorization codes the providers have given out
    spent,          \* codes that came back to their provider's token endpoint
    cpc,            \* a callback: its place
    at, code, state, \* the parameters of its request: provider, code, state
    posted,         \* history: states with which a code was posted
    row             \* user_connections: the flow the token of a user at a provider is from

authorize == <<fpc, owner, asked>>
redis == <<states, verifiers, overdue>>
provider == <<codes, spent>>
parameters == <<at, code, state>>
callbacks == <<cpc, parameters, posted>>
vars == <<authorize, redis, provider, callbacks, row>>

Init ==
    /\ fpc = [f \in Flows |-> "idle"]
    /\ owner = [f \in Flows |-> NoUser] /\ asked = [f \in Flows |-> NoProvider]
    /\ states = {} /\ verifiers = {} /\ overdue = {}
    /\ codes = {} /\ spent = {}
    /\ cpc = [c \in Callbacks |-> "idle"]
    /\ at = [c \in Callbacks |-> NoProvider]
    /\ code = [c \in Callbacks |-> NoFlow] /\ state = [c \in Callbacks |-> NoFlow]
    /\ posted = {}
    /\ row = [a \in Users \X Providers |-> NoFlow]

-----------------------------------------------------------------------------
(* GET /connections/{provider}/authorize                                    *)

\* MUTANT of StoreState: every provider is given a PKCE challenge.
StoreStateAlwaysPkce(f, u, p) ==
    /\ fpc[f] = "idle"
    /\ owner' = [owner EXCEPT ![f] = u] /\ asked' = [asked EXCEPT ![f] = p]
    /\ states' = states \union {f}
    /\ fpc' = [fpc EXCEPT ![f] = "verifier"]
    /\ UNCHANGED <<verifiers, overdue, provider, callbacks, row>>

\* store_oauth_state; the provider is in the URL that is built, not in the state.
StoreState(f, u, p) ==
    /\ fpc[f] = "idle"
    /\ owner' = [owner EXCEPT ![f] = u] /\ asked' = [asked EXCEPT ![f] = p]
    /\ states' = states \union {f}
    /\ fpc' = [fpc EXCEPT ![f] = IF p \in Pkce THEN "verifier" ELSE "offered"]
    /\ UNCHANGED <<verifiers, overdue, provider, callbacks, row>>

\* _store_pkce_verifier, a second SET; only then is the URL returned.
StoreVerifier(f) ==
    /\ fpc[f] = "verifier"
    /\ verifiers' = verifiers \union {f}
    /\ fpc' = [fpc EXCEPT ![f] = "offered"]
    /\ UNCHANGED <<owner, asked, states, overdue, provider, callbacks, row>>

\* Redis fails or the worker dies between the two: the user gets no URL.
AuthorizeFails(f) ==
    /\ fpc[f] = "verifier"
    /\ fpc' = [fpc EXCEPT ![f] = "failed"]
    /\ UNCHANGED <<owner, asked, redis, provider, callbacks, row>>

-----------------------------------------------------------------------------
(* The user, the browser and the provider                                   *)

Consent(f) ==
    /\ fpc[f] = "offered"
    /\ codes' = codes \union {f}
    /\ UNCHANGED <<authorize, redis, spent, callbacks, row>>

\* A callback arrives, the first time or again, with a code and a state that are known
\* outside.
Callback(c, p, f, g) ==
    /\ cpc[c] = "idle" /\ f \in codes /\ fpc[g] = "offered"
    /\ cpc' = [cpc EXCEPT ![c] = "state"]
    /\ at' = [at EXCEPT ![c] = p]
    /\ code' = [code EXCEPT ![c] = f] /\ state' = [state EXCEPT ![c] = g]
    /\ UNCHANGED <<authorize, redis, provider, posted, row>>

-----------------------------------------------------------------------------
(* GET /connections/{provider}/callback                                     *)

To(c, place) == cpc' = [cpc EXCEPT ![c] = place] /\ UNCHANGED parameters

\* Any exception is answered with a redirect that says "error".
Answer(c) ==
    /\ cpc' = [cpc EXCEPT ![c] = "idle"]
    /\ at' = [at EXCEPT ![c] = NoProvider]
    /\ code' = [code EXCEPT ![c] = NoFlow] /\ state' = [state EXCEPT ![c] = NoFlow]

\* The verifier is asked for if the provider of this request uses PKCE.
Popped(c) == To(c, IF at[c] \in Pkce THEN "verifier" ELSE "post")

\* MUTANT of PopState: GET and DEL are two commands, as for the verifier, and the second
\* has not run yet when the callback goes on.
PopStateInTwo(c) ==
    /\ cpc[c] = "state" /\ state[c] \in states
    /\ Popped(c)
    /\ UNCHANGED <<authorize, redis, provider, posted, row>>

\* pop_oauth_state: GET and DEL in one transaction.
PopState(c) ==
    /\ cpc[c] = "state" /\ state[c] \in states
    /\ states' = states \ {state[c]}
    /\ Popped(c)
    /\ UNCHANGED <<authorize, verifiers, overdue, provider, posted, row>>

\* The transaction is repeated after a timeout: the first run has taken the state and
\* the second finds nothing.
PopStateTwice(c) ==
    /\ cpc[c] = "state"
    /\ states' = states \ {state[c]}
    /\ Answer(c)
    /\ UNCHANGED <<authorize, verifiers, overdue, provider, posted, row>>

NoState(c) ==
    /\ cpc[c] = "state" /\ state[c] \notin states
    /\ Answer(c)
    /\ UNCHANGED <<authorize, redis, provider, posted, row>>

\* _pop_pkce_verifier: GET ...
GetVerifier(c) ==
    /\ cpc[c] = "verifier"
    /\ To(c, IF state[c] \in verifiers THEN "delete" ELSE "unverified")
    /\ UNCHANGED <<authorize, redis, provider, posted, row>>

\* ... then DELETE, found or not.
DeleteVerifier(c) ==
    /\ cpc[c] \in {"delete", "unverified"}
    /\ verifiers' = verifiers \ {state[c]}
    /\ IF cpc[c] = "delete" THEN To(c, "post") ELSE Answer(c)
    /\ UNCHANGED <<authorize, states, overdue, provider, posted, row>>

\* A provider knows its own codes, honours each once, and with PKCE wants the verifier of
\* the flow it gave the code to; what is sent is the verifier of the state.
Honoured(c) ==
    /\ asked[code[c]] = at[c] /\ code[c] \notin spent
    /\ at[c] \in Pkce => state[c] = code[c]

\* _post_token_endpoint.  Without a token in the answer (another status, no token under the
\* path) the callback ends in an error.
PostCode(c) ==
    /\ cpc[c] = "post"
    /\ posted' = posted \union {state[c]}
    /\ spent' = IF asked[code[c]] = at[c] THEN spent \union {code[c]} ELSE spent
    /\ \/ Honoured(c) /\ To(c, "test")
       \/ Answer(c)
    /\ UNCHANGED <<authorize, redis, codes, row>>

\* test_connection asks the provider with the new token.
TestToken(c) ==
    /\ cpc[c] = "test"
    /\ To(c, "upsert") \/ Answer(c)
    /\ UNCHANGED <<authorize, redis, provider, posted, row>>

\* _upsert_connection: the user of the state, the provider of this request.
Upsert(c) ==
    /\ cpc[c] = "upsert"
    /\ row' = [row EXCEPT ![<<owner[state[c]], at[c]>>] = code[c]]
    /\ To(c, "drop")
    /\ UNCHANGED <<authorize, redis, provider, posted>>

\* The two caches are dropped (module Connections) and the redirect says "success".
DropCaches(c) ==
    /\ cpc[c] = "drop"
    /\ Answer(c)
    /\ UNCHANGED <<authorize, redis, provider, posted, row>>

\* MUTANT of Fail: the handler puts the state back, so that the user may try again.
FailRestores(c) ==
    /\ cpc[c] # "idle"
    /\ states' = states \union ({state[c]} \ overdue)
    /\ Answer(c)
    /\ UNCHANGED <<authorize, verifiers, overdue, provider, posted, row>>

\* An exception at an await, or the death of the worker; what was popped stays popped.
Fail(c) ==
    /\ cpc[c] # "idle"
    /\ Answer(c)
    /\ UNCHANGED <<authorize, redis, provider, posted, row>>

-----------------------------------------------------------------------------

\* DELETE /connections/{provider} (module Connections)
Disconnect(a) ==
    /\ row[a] # NoFlow
    /\ row' = [row EXCEPT ![a] = NoFlow]
    /\ UNCHANGED <<authorize, redis, provider, callbacks>>

ExpireState(f) ==
    /\ owner[f] # NoUser /\ f \notin overdue
    /\ overdue' = overdue \union {f}
    /\ states' = states \ {f}
    /\ UNCHANGED <<authorize, verifiers, provider, callbacks, row>>

\* PKCE_TTL is the TTL of the state and starts later.
ExpireVerifier(f) ==
    /\ f \in verifiers /\ f \in overdue
    /\ verifiers' = verifiers \ {f}
    /\ UNCHANGED <<authorize, states, overdue, provider, callbacks, row>>

Next ==
    \/ \E f \in Flows :
          \/ \E u \in Users, p \in Providers : StoreState(f, u, p)
          \/ StoreVerifier(f) \/ AuthorizeFails(f) \/ Consent(f)
          \/ ExpireState(f) \/ ExpireVerifier(f)
    \/ \E c \in Callbacks :
          \/ \E p \in Providers, f \in Flows, g \in Flows : Callback(c, p, f, g)
          \/ PopState(c) \/ PopStateTwice(c) \/ NoState(c) \/ GetVerifier(c)
          \/ DeleteVerifier(c) \/ PostCode(c) \/ TestToken(c) \/ Upsert(c) \/ DropCaches(c)
          \/ Fail(c)
    \/ \E a \in Users \X Providers : Disconnect(a)

Spec == Init /\ [][Next]_vars

-----------------------------------------------------------------------------

Places == {"idle", "state", "verifier", "delete", "unverified", "post", "test", "upsert",
           "drop"}

\* Type correctness; every callback in progress has its parameters, and verifiers are stored
\* for the states of flows to PKCE providers only.
TypeOK ==
    /\ fpc \in [Flows -> {"idle", "verifier", "offered", "failed"}]
    /\ owner \in [Flows -> Users \union {NoUser}]
    /\ asked \in [Flows -> Providers \union {NoProvider}]
    /\ \A f \in Flows : (fpc[f] = "idle" <=> owner[f] = NoUser) /\ (fpc[f] = "idle" <=> asked[f] = NoProvider)
    /\ \A f \in Flows : fpc[f] = "verifier" => asked[f] \in Pkce
    /\ states \subseteq Flows /\ overdue \subseteq Flows
    /\ verifiers \subseteq {f \in Flows : asked[f] \in Pkce}
    /\ codes \subseteq Flows /\ spent \subseteq codes /\ posted \subseteq Flows
    /\ \A f \in codes : fpc[f] = "offered"
    /\ cpc \in [Callbacks -> Places]
    /\ at \in [Callbacks -> Providers \union {NoProvider}]
    /\ code \in [Callbacks -> Flows \union {NoFlow}]
    /\ state \in [Callbacks -> Flows \union {NoFlow}]
    /\ \A c \in Callbacks : cpc[c] # "idle" =>
          /\ at[c] \in Providers /\ code[c] \in codes
          /\ state[c] \in Flows /\ fpc[state[c]] = "offered"
    /\ row \in [Users \X Providers -> codes \union {NoFlow}]

\* What a callback that has popped the state goes through with it.
Holding == {"verifier", "delete", "unverified", "post", "test", "upsert"}

\* Of the callbacks with one state, a double click or a reload, whatever else their requests
\* say, one at most posts a code (cache.py 176-201): providers revoke what a code was
\* exchanged for when it comes twice.
StatePostsOnce == \A c \in Callbacks : cpc[c] = "post" => state[c] \notin posted

\* A callback at the provider the user was sent to that found its state misses the verifier
\* only if the ten minutes ended between the two reads (oauth_engine.py 135-149, 315-322).
VerifierLivesAsLong ==
    \A c \in Callbacks : cpc[c] = "unverified" /\ asked[state[c]] = at[c] => state[c] \in overdue

Held(f) == \E c \in Callbacks : state[c] = f /\ cpc[c] \in Holding

TicketOf(f) ==
    IF owner[f] = NoUser THEN "none"
    ELSE IF f \in states THEN "issued"
    ELSE IF Held(f) THEN "redeemed" ELSE "spent"

OneShot == INSTANCE Ticket WITH
    Tickets <- Flows, NoTicket <- NoFlow,
    ticket <- [f \in Flows |-> TicketOf(f)], issuer <- asked, connected <- row

\* The flow implements the ticket: whatever is repeated, mixed up, fails or expires, a state
\* is redeemed once at most, before its ten minutes are over, and then connects one account
\* of the user who asked for it, once or never, with a code of that account's provider, and
\* with PKCE only with the code it was made for (oauth_engine.py 245-384).
AuthorizationIsOneShot == OneShot!Spec

=============================================================================
