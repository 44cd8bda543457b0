---------------------------- MODULE ServicesProofs ----------------------------
(***************************************************************************)
(* Proofs about two services that share nothing: OAuthFlow, for any number  *)
(* of flows, callbacks and accounts (a popped state has one holder, its     *)
(* code has not been posted, and so the flow implements the one-shot        *)
(* ticket), and ToolSearch, for any tools, rankings, limits, processes and  *)
(* releases (counting the places of a choice, and what an index that is     *)
(* taken for complete holds).                                               *)
(***************************************************************************)
EXTENDS OAuthFlow, ToolSearch, FiniteSetTheorems, SequenceTheorems, WellFoundedInduction, TLAPS

-----------------------------------------------------------------------------
(* The OAuth flow                                                           *)

AuthorizeStep(f) ==
    \/ \E u \in Users, p \in Providers : StoreState(f, u, p)
    \/ StoreVerifier(f) \/ AuthorizeFails(f) \/ Consent(f) \/ ExpireState(f) \/ ExpireVerifier(f)

CallbackStep(c) ==
    \/ \E p \in Providers, f \in Flows, g \in Flows : Callback(c, p, f, g)
    \/ PopState(c) \/ PopStateTwice(c) \/ NoState(c) \/ GetVerifier(c)
    \/ DeleteVerifier(c) \/ PostCode(c) \/ TestToken(c) \/ Upsert(c) \/ DropCaches(c) \/ Fail(c)

\* The steps, by who takes them.
LEMMA NextSteps ==
  Next <=> \/ \E f \in Flows : AuthorizeStep(f)
           \/ \E c \in Callbacks : CallbackStep(c)
           \/ \E a \in Users \X Providers : Disconnect(a)
BY Zenon DEF Next, AuthorizeStep, CallbackStep

\* The two keys, the provider's records and the places of the requests keep their types.
THEOREM TypeCorrect == Spec => []TypeOK
<1>1. Init => TypeOK
  BY DEF Init, TypeOK, Places
<1>2. TypeOK /\ [Next]_vars => TypeOK'
  <2> SUFFICES ASSUME TypeOK, [Next]_vars PROVE TypeOK'
    OBVIOUS
  <2> USE PkceProviders, NothingOutside DEF TypeOK, Places, authorize, redis, provider, parameters, callbacks
  <2>1. ASSUME NEW f \in Flows, AuthorizeStep(f) PROVE TypeOK'
    <3>1. ASSUME NEW u \in Users, NEW p \in Providers, StoreState(f, u, p) PROVE TypeOK'
      BY <3>1 DEF StoreState
    <3>2. ASSUME StoreVerifier(f) PROVE TypeOK'
      BY <3>2 DEF StoreVerifier
    <3>3. ASSUME AuthorizeFails(f) \/ Consent(f) PROVE TypeOK'
      BY <3>3 DEF AuthorizeFails, Consent
    <3>4. ASSUME ExpireState(f) \/ ExpireVerifier(f) PROVE TypeOK'
      BY <3>4 DEF ExpireState, ExpireVerifier
    <3> QED
      BY <2>1, <3>1, <3>2, <3>3, <3>4 DEF AuthorizeStep
  <2>2. ASSUME NEW c \in Callbacks, CallbackStep(c) PROVE TypeOK'
    <3> USE DEF To, Answer, Popped
    <3>1. ASSUME NEW p \in Providers, NEW f \in Flows, NEW g \in Flows, Callback(c, p, f, g) PROVE TypeOK'
      BY <3>1 DEF Callback
    <3>2. ASSUME PopState(c) \/ PopStateTwice(c) \/ NoState(c) PROVE TypeOK'
      BY <3>2 DEF PopState, PopStateTwice, NoState
    <3>3. ASSUME GetVerifier(c) \/ DeleteVerifier(c) PROVE TypeOK'
      BY <3>3 DEF GetVerifier, DeleteVerifier
    <3>4. ASSUME PostCode(c) \/ TestToken(c) \/ DropCaches(c) \/ Fail(c) PROVE TypeOK'
      BY <3>4 DEF PostCode, Honoured, TestToken, DropCaches, Fail
    <3>5. ASSUME Upsert(c) PROVE TypeOK'
      <4>1. state[c] \in Flows /\ at[c] \in Providers /\ code[c] \in codes
        BY <3>5 DEF Upsert
      <4>2. row' \in [Users \X Providers -> codes \union {NoFlow}]
        BY <3>5, <4>1 DEF Upsert
      <4> QED
        BY <3>5, <4>1, <4>2 DEF Upsert
    <3> QED
      BY <2>2, <3>1, <3>2, <3>3, <3>4, <3>5 DEF CallbackStep
  <2>3. ASSUME NEW a \in Users \X Providers, Disconnect(a) PROVE TypeOK'
    BY <2>3 DEF Disconnect
  <2>4. CASE UNCHANGED vars
    BY <2>4 DEF vars
  <2> QED
    BY <2>1, <2>2, <2>3, <2>4, NextSteps
<1> QED
  BY <1>1, <1>2, PTL DEF Spec

-----------------------------------------------------------------------------
(* The inductive invariant                                                  *)

Fresh == \A f \in Flows : fpc[f] = "idle" => f \notin states \union overdue \union posted

\* A state is either in Redis or with one callback.
OneHolder ==
    /\ \A c \in Callbacks : cpc[c] \in Holding => state[c] \notin states
    /\ \A c, d \in Callbacks :
          c # d /\ cpc[c] \in Holding /\ cpc[d] \in Holding => state[c] # state[d]

\* No code is posted before the state is popped, and one at most by who holds it.
Unposted ==
    /\ states \cap posted = {}
    /\ \A c \in Callbacks :
          cpc[c] \in {"verifier", "delete", "unverified", "post"} => state[c] \notin posted

\* A token comes from the provider that gave out the code, and with PKCE for its own state.
Exchanged ==
    \A c \in Callbacks : cpc[c] \in {"test", "upsert"} =>
        asked[code[c]] = at[c] /\ (at[c] \in Pkce => state[c] = code[c])

\* Until the ten minutes are over the verifier is there for who needs it.
VerifierThere ==
    /\ states \cap overdue = {}
    /\ \A f \in states :
          fpc[f] = "offered" /\ asked[f] \in Pkce => f \in verifiers \/ f \in overdue
    /\ \A c \in Callbacks :
          cpc[c] = "verifier" /\ asked[state[c]] = at[c] =>
             state[c] \in verifiers \/ state[c] \in overdue
    /\ VerifierLivesAsLong

IInv == Fresh /\ OneHolder /\ Unposted /\ Exchanged /\ VerifierThere

LEMMA Inductive ==
  ASSUME TypeOK, TypeOK', IInv, [Next]_vars
  PROVE  IInv'
<1> USE PkceProviders, NothingOutside
    DEF IInv, Fresh, OneHolder, Unposted, Exchanged, VerifierThere, VerifierLivesAsLong, Holding,
        authorize, redis, provider, parameters, callbacks
<1>t. /\ \A f \in codes : f \in Flows /\ fpc[f] = "offered"
      /\ \A f \in Flows : (fpc[f] = "idle" <=> owner[f] = NoUser)
      /\ \A f \in Flows : fpc[f] # "idle" => owner[f] \in Users /\ asked[f] \in Providers
      /\ \A c \in Callbacks : cpc[c] # "idle" =>
            /\ code[c] \in codes /\ at[c] \in Providers
            /\ state[c] \in Flows /\ fpc[state[c]] = "offered"
      /\ states \subseteq Flows /\ NoFlow \notin Flows
      /\ fpc \in [Flows -> {"idle", "verifier", "offered", "failed"}]
      /\ owner \in [Flows -> Users \union {NoUser}]
      /\ asked \in [Flows -> Providers \union {NoProvider}]
      /\ cpc \in [Callbacks -> Places] /\ state \in [Callbacks -> Flows \union {NoFlow}]
      /\ at \in [Callbacks -> Providers \union {NoProvider}]
      /\ code \in [Callbacks -> Flows \union {NoFlow}]
  BY DEF TypeOK
<1>1. ASSUME NEW f \in Flows, AuthorizeStep(f) PROVE IInv'
  <2>1. ASSUME NEW u \in Users, NEW p \in Providers, StoreState(f, u, p) PROVE IInv'
    BY <1>t, <2>1 DEF StoreState
  <2>2. ASSUME StoreVerifier(f) PROVE IInv'
    BY <1>t, <2>2 DEF StoreVerifier
  <2>3. ASSUME AuthorizeFails(f) PROVE IInv'
    BY <1>t, <2>3 DEF AuthorizeFails
  <2>4. ASSUME Consent(f) PROVE IInv'
    BY <1>t, <2>4 DEF Consent
  <2>5. ASSUME ExpireState(f) PROVE IInv'
    BY <1>t, <2>5 DEF ExpireState
  <2>6. ASSUME ExpireVerifier(f) PROVE IInv'
    BY <1>t, <2>6 DEF ExpireVerifier
  <2> QED
    BY <1>1, <2>1, <2>2, <2>3, <2>4, <2>5, <2>6 DEF AuthorizeStep
<1>2. ASSUME NEW c \in Callbacks, CallbackStep(c) PROVE IInv'
  <2> USE DEF To, Answer, Popped
  <2>1. ASSUME NEW p \in Providers, NEW f \in Flows, NEW g \in Flows, Callback(c, p, f, g) PROVE IInv'
    BY <1>t, <2>1 DEF Callback
  <2>2. ASSUME PopState(c) PROVE IInv'
    BY <1>t, <2>2 DEF PopState
  <2>3. ASSUME PopStateTwice(c) PROVE IInv'
    BY <1>t, <2>3 DEF PopStateTwice
  <2>4. ASSUME NoState(c) PROVE IInv'
    BY <1>t, <2>4 DEF NoState
  <2>5. ASSUME GetVerifier(c) PROVE IInv'
    BY <1>t, <2>5 DEF GetVerifier
  <2>6. ASSUME DeleteVerifier(c) PROVE IInv'
    BY <1>t, <2>6 DEF DeleteVerifier
  <2>7. ASSUME PostCode(c) PROVE IInv'
    BY <1>t, <2>7 DEF PostCode, Honoured
  <2>8. ASSUME TestToken(c) PROVE IInv'
    BY <1>t, <2>8 DEF TestToken
  <2>9. ASSUME Upsert(c) PROVE IInv'
    BY <1>t, <2>9 DEF Upsert
  <2>10. ASSUME DropCaches(c) PROVE IInv'
    BY <1>t, <2>10 DEF DropCaches
  <2>11. ASSUME Fail(c) PROVE IInv'
    BY <1>t, <2>11 DEF Fail
  <2> QED
    BY <1>2, <2>1, <2>2, <2>3, <2>4, <2>5, <2>6, <2>7, <2>8, <2>9, <2>10, <2>11 DEF CallbackStep
<1>3. ASSUME NEW a \in Users \X Providers, Disconnect(a) PROVE IInv'
  BY <1>3 DEF Disconnect
<1>4. CASE UNCHANGED vars
  BY <1>4 DEF vars
<1> QED
  BY <1>1, <1>2, <1>3, <1>4, NextSteps

LEMMA InitIInv == Init => IInv
BY DEF Init, IInv, Fresh, OneHolder, Unposted, Exchanged, VerifierThere, VerifierLivesAsLong, Holding

LEMMA Invariance == Spec => [](TypeOK /\ IInv)
<1>1. TypeOK /\ TypeOK' /\ IInv /\ [Next]_vars => IInv'
  BY Inductive
<1> QED
  BY <1>1, InitIInv, TypeCorrect, PTL DEF Spec

\* No callback posts a code with a state that one was posted with before.
THEOREM PostedOnce == Spec => []StatePostsOnce
<1>1. IInv => StatePostsOnce
  BY DEF IInv, Unposted, StatePostsOnce
<1> QED
  BY <1>1, Invariance, PTL

\* A verifier is lost only to the end of the ten minutes.
THEOREM VerifierLives == Spec => []VerifierLivesAsLong
<1>1. IInv => VerifierLivesAsLong
  BY DEF IInv, VerifierThere
<1> QED
  BY <1>1, Invariance, PTL

-----------------------------------------------------------------------------
(* The refinement                                                           *)

T == [f \in Flows |-> TicketOf(f)]

\* A step that leaves the states, their users and their holders alone changes no ticket.
LEMMA TicketsKept ==
  ASSUME owner' = owner, states' = states, \A f \in Flows : Held(f)' <=> Held(f)
  PROVE  T' = T
BY DEF T, TicketOf, Held

\* The holder of a state is its only one: when it lets go, the ticket is spent.
LEMMA Released ==
  ASSUME TypeOK, IInv, NEW c \in Callbacks, cpc[c] \in Holding, cpc'[c] \notin Holding,
         \A d \in Callbacks \ {c} : cpc'[d] = cpc[d] /\ state'[d] = state[d],
         owner' = owner, states' = states
  PROVE  \E f \in Flows : /\ f = state[c] /\ T[f] = "redeemed"
                          /\ T' = [T EXCEPT ![f] = "spent"]
<1>1. PICK f \in Flows : f = state[c] /\ owner[f] # NoUser /\ f \notin states
  BY NothingOutside DEF TypeOK, IInv, OneHolder, Holding
<1>2. Held(f)
  BY <1>1 DEF Held
<1>3. ~ Held(f)'
  BY <1>1 DEF Held, IInv, OneHolder
<1>4. \A g \in Flows : g # f => (Held(g)' <=> Held(g))
  BY <1>1 DEF Held
<1>5. TicketOf(f) = "redeemed" /\ TicketOf(f)' = "spent"
  BY <1>1, <1>2, <1>3 DEF TicketOf
<1>6. \A g \in Flows : g # f => TicketOf(g)' = TicketOf(g)
  BY <1>4 DEF TicketOf
<1> QED
  BY <1>1, <1>5, <1>6 DEF T

\* Under TicketOf, each step of the flow is one of the ticket, or none.
LEMMA RefinementStep ==
  ASSUME TypeOK, IInv, [Next]_vars
  PROVE  [OneShot!Next]_(OneShot!vars)
<1> USE NothingOutside
    DEF OneShot!Next, OneShot!vars, OneShot!Step, authorize, redis, provider, parameters, callbacks
<1> DEFINE Goal == OneShot!Next \/ (T' = T /\ owner' = owner /\ asked' = asked /\ row' = row)
<1>t. /\ \A f \in codes : f \in Flows /\ fpc[f] = "offered"
      /\ \A f \in Flows : (fpc[f] = "idle" <=> owner[f] = NoUser)
      /\ \A f \in Flows : fpc[f] # "idle" => owner[f] \in Users /\ asked[f] \in Providers
      /\ \A c \in Callbacks : cpc[c] # "idle" =>
            /\ code[c] \in codes /\ at[c] \in Providers
            /\ state[c] \in Flows /\ fpc[state[c]] = "offered"
      /\ states \subseteq Flows /\ NoFlow \notin Flows
      /\ fpc \in [Flows -> {"idle", "verifier", "offered", "failed"}]
      /\ owner \in [Flows -> Users \union {NoUser}]
      /\ asked \in [Flows -> Providers \union {NoProvider}]
      /\ cpc \in [Callbacks -> Places] /\ state \in [Callbacks -> Flows \union {NoFlow}]
      /\ at \in [Callbacks -> Providers \union {NoProvider}]
      /\ code \in [Callbacks -> Flows \union {NoFlow}]
  BY DEF TypeOK
<1>h. ASSUME NEW f \in states PROVE ~ Held(f)
  BY DEF Held, IInv, OneHolder
<1>1. ASSUME NEW f \in Flows, AuthorizeStep(f) PROVE Goal
  <2>1. ASSUME NEW u \in Users, NEW p \in Providers, StoreState(f, u, p) PROVE Goal
    <3>0. /\ owner[f] = NoUser /\ owner' = [owner EXCEPT ![f] = u]
          /\ asked' = [asked EXCEPT ![f] = p]
          /\ states' = states \union {f} /\ cpc' = cpc /\ state' = state
      BY <1>t, <2>1 DEF StoreState
    <3>a. TicketOf(f) = "none" /\ TicketOf(f)' = "issued"
      BY <1>t, <3>0 DEF TicketOf
    <3>b. \A g \in Flows : g # f => TicketOf(g)' = TicketOf(g)
      BY <1>t, <3>0 DEF TicketOf, Held
    <3>1. T[f] = "none" /\ T' = [T EXCEPT ![f] = "issued"]
      BY <3>a, <3>b DEF T
    <3>2. OneShot!Issue(f, u, p)
      BY <2>1, <3>1 DEF StoreState, OneShot!Issue, T
    <3> QED
      BY <3>2
  <2>2. ASSUME StoreVerifier(f) \/ AuthorizeFails(f) \/ Consent(f) \/ ExpireVerifier(f) PROVE Goal
    <3>1. owner' = owner /\ asked' = asked /\ states' = states /\ row' = row /\ cpc' = cpc /\ state' = state
      BY <2>2 DEF StoreVerifier, AuthorizeFails, Consent, ExpireVerifier
    <3> QED
      BY <3>1, TicketsKept DEF Held
  <2>3. ASSUME ExpireState(f) PROVE Goal
    <3>1. owner' = owner /\ asked' = asked /\ row' = row /\ states' = states \ {f} /\ cpc' = cpc /\ state' = state
          /\ owner[f] # NoUser
      BY <2>3 DEF ExpireState
    <3>2. CASE f \notin states
      <4>1. states' = states /\ \A g \in Flows : Held(g)' <=> Held(g)
        BY <3>1, <3>2 DEF Held
      <4> QED
        BY <3>1, <4>1, TicketsKept
    <3>3. CASE f \in states
      <4>a. TicketOf(f) = "issued" /\ TicketOf(f)' = "spent"
        BY <1>h, <3>1, <3>3 DEF TicketOf, Held
      <4>b. \A g \in Flows : g # f => TicketOf(g)' = TicketOf(g)
        BY <3>1 DEF TicketOf, Held
      <4>1. T[f] = "issued" /\ T' = [T EXCEPT ![f] = "spent"]
        BY <4>a, <4>b DEF T
      <4>2. OneShot!Void(f)
        BY <3>1, <4>1 DEF OneShot!Void, T
      <4> QED
        BY <4>2
    <3> QED
      BY <3>2, <3>3
  <2> QED
    BY <1>1, <2>1, <2>2, <2>3 DEF AuthorizeStep
<1>2. ASSUME NEW c \in Callbacks, CallbackStep(c) PROVE Goal
  <2> USE DEF To, Answer, Popped
  <2>v. ASSUME cpc[c] \in Holding, cpc'[c] \notin Holding, owner' = owner, asked' = asked, states' = states,
               row' = row, \A d \in Callbacks \ {c} : cpc'[d] = cpc[d] /\ state'[d] = state[d]
        PROVE  Goal
    <3>1. PICK f \in Flows : T[f] = "redeemed" /\ T' = [T EXCEPT ![f] = "spent"]
      BY <2>v, Released
    <3>2. OneShot!Void(f)
      BY <2>v, <3>1 DEF OneShot!Void, T
    <3> QED
      BY <3>2
  <2>s. ASSUME cpc[c] \in Holding <=> cpc'[c] \in Holding, state'[c] = state[c] \/ cpc[c] \notin Holding,
               owner' = owner, asked' = asked, states' = states, row' = row,
               \A d \in Callbacks \ {c} : cpc'[d] = cpc[d] /\ state'[d] = state[d]
        PROVE  Goal
    <3>1. \A f \in Flows : Held(f)' <=> Held(f)
      BY <2>s DEF Held
    <3> QED
      BY <2>s, <3>1, TicketsKept
  <2>1. ASSUME NEW p \in Providers, NEW f \in Flows, NEW g \in Flows, Callback(c, p, f, g) PROVE Goal
    BY <1>t, <2>s, <2>1 DEF Callback, Holding
  <2>2. ASSUME PopState(c) PROVE Goal
    <3>1. /\ owner' = owner /\ asked' = asked /\ row' = row /\ states' = states \ {state[c]} /\ state' = state
          /\ cpc'[c] \in Holding /\ \A d \in Callbacks \ {c} : cpc'[d] = cpc[d]
          /\ state[c] \in Flows /\ owner[state[c]] # NoUser /\ cpc[c] \notin Holding
      BY <1>t, <2>2 DEF PopState, Holding
    <3>2. PICK f \in Flows : f = state[c] /\ f \in states
      BY <2>2, <3>1 DEF PopState
    <3>a. TicketOf(f) = "issued" /\ TicketOf(f)' = "redeemed"
      BY <3>1, <3>2 DEF TicketOf, Held
    <3>b. \A g \in Flows : g # f => TicketOf(g)' = TicketOf(g)
      BY <3>1, <3>2 DEF TicketOf, Held
    <3>3. OneShot!Redeem(f)
      BY <3>1, <3>a, <3>b DEF OneShot!Redeem, T
    <3> QED
      BY <3>3
  <2>3. ASSUME PopStateTwice(c) PROVE Goal
    <3>1. /\ owner' = owner /\ asked' = asked /\ row' = row /\ states' = states \ {state[c]}
          /\ cpc[c] \notin Holding /\ cpc'[c] \notin Holding
          /\ \A d \in Callbacks \ {c} : cpc'[d] = cpc[d] /\ state'[d] = state[d]
          /\ state[c] \in Flows /\ owner[state[c]] # NoUser
      BY <1>t, <2>3 DEF PopStateTwice, Holding
    <3>2. \A f \in Flows : Held(f)' <=> Held(f)
      BY <3>1 DEF Held
    <3>3. CASE state[c] \notin states
      <4>1. states' = states
        BY <3>1, <3>3
      <4> QED
        BY <3>1, <3>2, <4>1, TicketsKept
    <3>4. CASE state[c] \in states
      <4>1. PICK f \in Flows : f = state[c] /\ f \in states
        BY <3>1, <3>4
      <4>a. TicketOf(f) = "issued" /\ TicketOf(f)' = "spent"
        BY <1>h, <3>1, <3>2, <4>1 DEF TicketOf
      <4>b. \A g \in Flows : g # f => TicketOf(g)' = TicketOf(g)
        BY <3>1, <3>2, <4>1 DEF TicketOf
      <4>2. OneShot!Void(f)
        BY <3>1, <4>a, <4>b DEF OneShot!Void, T
      <4> QED
        BY <4>2
    <3> QED
      BY <3>3, <3>4
  <2>4. ASSUME NoState(c) \/ GetVerifier(c) \/ DropCaches(c) PROVE Goal
    BY <1>t, <2>s, <2>4 DEF NoState, GetVerifier, DropCaches, Holding
  <2>5. ASSUME DeleteVerifier(c) PROVE Goal
    BY <1>t, <2>s, <2>v, <2>5 DEF DeleteVerifier, Holding
  <2>6. ASSUME PostCode(c) PROVE Goal
    BY <1>t, <2>s, <2>v, <2>6 DEF PostCode, Honoured, Holding
  <2>7. ASSUME TestToken(c) PROVE Goal
    BY <1>t, <2>s, <2>v, <2>7 DEF TestToken, Holding
  <2>8. ASSUME Upsert(c) PROVE Goal
    <3>1. /\ cpc[c] \in Holding /\ cpc'[c] \notin Holding /\ owner' = owner /\ asked' = asked /\ states' = states
          /\ \A d \in Callbacks \ {c} : cpc'[d] = cpc[d] /\ state'[d] = state[d]
          /\ row' = [row EXCEPT ![<<owner[state[c]], at[c]>>] = code[c]]
          /\ code[c] \in Flows /\ at[c] \in Providers
          /\ asked[code[c]] = at[c] /\ (at[c] \in Pkce => state[c] = code[c])
      BY <1>t, <2>8 DEF Upsert, Holding, IInv, Exchanged
    <3>2. PICK f \in Flows : f = state[c] /\ T[f] = "redeemed" /\ T' = [T EXCEPT ![f] = "spent"]
      BY <3>1, Released
    <3>3. OneShot!Connect(f, at[c], code[c])
      BY <3>1, <3>2 DEF OneShot!Connect, T
    <3> QED
      BY <3>1, <3>3
  <2>9. ASSUME Fail(c) PROVE Goal
    <3>1. CASE cpc[c] \in Holding
      BY <1>t, <2>v, <2>9, <3>1 DEF Fail, Holding
    <3>2. CASE cpc[c] \notin Holding
      BY <1>t, <2>s, <2>9, <3>2 DEF Fail, Holding
    <3> QED
      BY <3>1, <3>2
  <2> QED
    BY <1>2, <2>1, <2>2, <2>3, <2>4, <2>5, <2>6, <2>7, <2>8, <2>9 DEF CallbackStep
<1>3. ASSUME NEW a \in Users \X Providers, Disconnect(a) PROVE Goal
  <2>1. owner' = owner /\ asked' = asked /\ states' = states /\ cpc' = cpc /\ state' = state
    BY <1>3 DEF Disconnect
  <2>2. T' = T
    BY <2>1, TicketsKept DEF Held
  <2>3. OneShot!Disconnect(a)
    BY <1>3, <2>1, <2>2 DEF Disconnect, OneShot!Disconnect, T
  <2> QED
    BY <2>3
<1>4. ASSUME UNCHANGED vars PROVE Goal
  <2>1. owner' = owner /\ asked' = asked /\ states' = states /\ row' = row /\ cpc' = cpc /\ state' = state
    BY <1>4 DEF vars
  <2> QED
    BY <2>1, TicketsKept DEF Held
<1>5. Goal
  BY <1>1, <1>2, <1>3, <1>4, NextSteps
<1> QED
  BY <1>5 DEF T

\* The OAuth flow implements the one-shot ticket, whatever is repeated, fails or expires.
THEOREM FlowIsOneShot == Spec => AuthorizationIsOneShot
<1>1. Init => OneShot!Init
  <2> SUFFICES ASSUME Init PROVE OneShot!Init
    OBVIOUS
  <2>1. \A f \in Flows : TicketOf(f) = "none"
    BY DEF Init, TicketOf
  <2> QED
    BY <2>1 DEF Init, OneShot!Init
<1>2. TypeOK /\ IInv /\ [Next]_vars => [OneShot!Next]_(OneShot!vars)
  BY RefinementStep
<1> QED
  BY <1>1, <1>2, Invariance, PTL DEF Spec, AuthorizationIsOneShot, OneShot!Spec

-----------------------------------------------------------------------------
(* The search for tools: choosing among the hits                            *)

\* Positions have a first one.
LEMMA LeastPosition ==
  ASSUME NEW S \in SUBSET Nat, S # {}
  PROVE  \E k \in S : \A j \in S : k <= j
<1>1. PICK x \in S : \A y \in S : ~ (<<y, x>> \in OpToRel(<, Nat))
  BY NatLessThanWellFounded, WFMin, Zenon
<1>2. ASSUME NEW y \in S, y < x PROVE FALSE
  <2>1. <<y, x>> \in Nat \X Nat /\ <<y, x>>[1] < <<y, x>>[2]
    BY <1>2
  <2>2. <<y, x>> \in OpToRel(<, Nat)
    BY <2>1 DEF OpToRel
  <2> QED
    BY <1>1, <2>2, Zenon
<1> QED
  BY <1>2

\* The number of members of S below k.
LEMMA BelowGrows ==
  ASSUME NEW S \in SUBSET Nat, IsFiniteSet(S), NEW j \in S, NEW k \in S, j < k
  PROVE  /\ Cardinality({i \in S : i < j}) \in Nat /\ Cardinality({i \in S : i < k}) \in Nat
         /\ Cardinality({i \in S : i < j}) < Cardinality({i \in S : i < k})
<1> DEFINE A == {i \in S : i < j}
           B == {i \in S : i < k}
<1>1. IsFiniteSet(A) /\ IsFiniteSet(B) /\ Cardinality(A) \in Nat /\ Cardinality(B) \in Nat
  BY FS_Subset, FS_CardinalityType, A \in SUBSET S, B \in SUBSET S
<1>2. A \in SUBSET B /\ j \in B /\ j \notin A
  <2>1. j \in Nat /\ k \in Nat /\ \A i \in S : i \in Nat
    OBVIOUS
  <2>2. \A i \in S : i < j => i < k
    BY <2>1
  <2>3. ~ (j < j)
    BY <2>1
  <2> QED
    BY <2>2, <2>3
<1> HIDE DEF A, B
<1>3. Cardinality(A) <= Cardinality(B) /\ A # B
  BY <1>1, <1>2, FS_Subset
<1>4. Cardinality(A) # Cardinality(B)
  BY <1>1, <1>2, <1>3, FS_Subset
<1>5. Cardinality(A) < Cardinality(B)
  BY <1>1, <1>3, <1>4
<1> QED
  BY <1>1, <1>5 DEF A, B

\* First(S, n) has at most n members ...
LEMMA FirstFew ==
  ASSUME NEW S \in SUBSET Nat, IsFiniteSet(S), NEW n \in Nat
  PROVE  /\ First(S, n) \in SUBSET S /\ IsFiniteSet(First(S, n))
         /\ Cardinality(First(S, n)) \in Nat /\ Cardinality(First(S, n)) <= n
<1> DEFINE F == First(S, n)
           B(k) == {i \in S : i < k}
           f == [k \in F |-> Cardinality(B(k))]
<1>1. F \in SUBSET S
  BY DEF First
<1>2. IsFiniteSet(F) /\ Cardinality(F) \in Nat
  BY <1>1, FS_Subset, FS_CardinalityType
<1>3. ASSUME NEW k \in F PROVE Cardinality(B(k)) \in 0..(n - 1)
  <2>1. Cardinality(B(k)) \in Nat
    BY FS_Subset, FS_CardinalityType, B(k) \in SUBSET S
  <2>2. Cardinality(B(k)) < n
    BY DEF First
  <2> QED
    BY <2>1, <2>2
<1>4. ASSUME NEW j \in F, NEW k \in F, j # k PROVE Cardinality(B(j)) # Cardinality(B(k))
  <2>1. j \in S /\ k \in S /\ j \in Nat /\ k \in Nat
    BY <1>1
  <2>2. CASE j < k
    <3>1. Cardinality(B(j)) \in Nat /\ Cardinality(B(k)) \in Nat /\ Cardinality(B(j)) < Cardinality(B(k))
      BY <2>1, <2>2, BelowGrows
    <3> QED
      BY <3>1
  <2>3. CASE k < j
    <3>1. Cardinality(B(j)) \in Nat /\ Cardinality(B(k)) \in Nat /\ Cardinality(B(k)) < Cardinality(B(j))
      BY <2>1, <2>3, BelowGrows
    <3> QED
      BY <3>1
  <2> QED
    BY <1>4, <2>1, <2>2, <2>3
<1> HIDE DEF F, B
<1>5. f \in Injection(F, 0..(n - 1))
  BY <1>3, <1>4 DEF Injection, IsInjective
<1>6. IsFiniteSet(0..(n - 1)) /\ Cardinality(0..(n - 1)) = n
  <2>1. /\ IsFiniteSet(0..(n - 1))
        /\ Cardinality(0..(n - 1)) = IF 0 > n - 1 THEN 0 ELSE (n - 1) - 0 + 1
    BY FS_Interval
  <2> QED
    BY <2>1
<1>7. Cardinality(F) <= n
  BY <1>5, <1>6, FS_Injection
<1> QED
  BY <1>1, <1>2, <1>7 DEF F

\* ... and all of S, if S has no more than n.
LEMMA FirstAll ==
  ASSUME NEW S \in SUBSET Nat, IsFiniteSet(S), NEW n \in Nat, Cardinality(S) <= n
  PROVE  First(S, n) = S
<1> SUFFICES ASSUME NEW k \in S PROVE Cardinality({j \in S : j < k}) < n
  BY DEF First
<1> DEFINE B == {j \in S : j < k}
<1>1. B \in SUBSET S /\ k \notin B
  OBVIOUS
<1> HIDE DEF B
<1>2. B # S /\ IsFiniteSet(B) /\ Cardinality(B) <= Cardinality(S) /\ Cardinality(B) # Cardinality(S)
  BY <1>1, FS_Subset
<1>3. Cardinality(B) \in Nat /\ Cardinality(S) \in Nat
  BY <1>2, FS_CardinalityType
<1> QED
  BY <1>2, <1>3 DEF B

Diverse(h) == {k \in DOMAIN h : k \in First(SameProvider(h, k), MaxPerProvider(h))}
ProvidersAt(h, positions) == {ProviderOf[h[k]] : k \in positions}

\* Positions of hits are finitely many numbers, and so are those of the diverse ones.
LEMMA Positions ==
  ASSUME NEW h \in Seq(Tools)
  PROVE  /\ DOMAIN h \in SUBSET Nat /\ IsFiniteSet(DOMAIN h) /\ Cardinality(DOMAIN h) = Len(h)
         /\ Len(h) \in Nat
         /\ Diverse(h) \in SUBSET DOMAIN h /\ IsFiniteSet(Diverse(h))
         /\ Cardinality(Diverse(h)) \in Nat
<1>1. DOMAIN h = 1..Len(h) /\ Len(h) \in Nat
  OBVIOUS
<1>2. IsFiniteSet(1..Len(h)) /\ Cardinality(1..Len(h)) = Len(h)
  <2>1. IsFiniteSet(1..Len(h)) /\ Cardinality(1..Len(h)) = IF 1 > Len(h) THEN 0 ELSE Len(h) - 1 + 1
    BY <1>1, FS_Interval
  <2> QED
    BY <1>1, <2>1
<1>3. Diverse(h) \in SUBSET DOMAIN h
  BY DEF Diverse
<1> QED
  BY <1>1, <1>2, <1>3, FS_Subset, FS_CardinalityType

\* Choose, with the diverse hits by their name.
LEMMA ChooseIs ==
  ASSUME NEW h
  PROVE  LET free == IF Cardinality(Diverse(h)) < TopK THEN TopK - Cardinality(Diverse(h)) ELSE 0
         IN  Choose(h) = First(Diverse(h), TopK) \union First(DOMAIN h \ Diverse(h), free)
BY DEF Choose, Diverse

\* A choice has no more than TopK hits.
LEMMA ChoiceFits ==
  ASSUME NEW h \in Seq(Tools)
  PROVE  Choose(h) \in SUBSET DOMAIN h /\ Cardinality(Choose(h)) <= TopK
<1> DEFINE D == Diverse(h)
           R == DOMAIN h \ D
           free == IF Cardinality(D) < TopK THEN TopK - Cardinality(D) ELSE 0
           A == First(D, TopK)
           B == First(R, free)
<1>0. /\ D \in SUBSET Nat /\ IsFiniteSet(D) /\ Cardinality(D) \in Nat /\ TopK \in Nat
      /\ R \in SUBSET Nat /\ IsFiniteSet(R) /\ D \in SUBSET DOMAIN h
  BY Positions, FS_Difference, LimitsAssumption
<1> HIDE DEF D, R
<1>1. free \in Nat
  BY <1>0
<1>2. /\ A \in SUBSET D /\ IsFiniteSet(A) /\ Cardinality(A) \in Nat /\ Cardinality(A) <= TopK
      /\ Cardinality(A) <= Cardinality(D)
  BY <1>0, FirstFew, FS_Subset
<1>3. B \in SUBSET R /\ IsFiniteSet(B) /\ Cardinality(B) \in Nat /\ Cardinality(B) <= free
  BY <1>0, <1>1, FirstFew
<1>4. Choose(h) = A \union B
  BY ChooseIs DEF D, R
<1> HIDE DEF A, B
<1>5. Cardinality(A \union B) = Cardinality(A) + Cardinality(B) - Cardinality(A \cap B)
  BY <1>2, <1>3, FS_Union
<1>6. Cardinality(A \cap B) \in Nat
  BY <1>2, FS_Intersection, FS_CardinalityType
<1>7. Cardinality(A \union B) <= TopK
  BY <1>0, <1>2, <1>3, <1>5, <1>6
<1> QED
  BY <1>0, <1>2, <1>3, <1>4, <1>7 DEF R

\* The first hit of each provider is among the diverse ones.
LEMMA FirstOfEach ==
  ASSUME NEW h \in Seq(Tools), NEW k \in DOMAIN h
  PROVE  \E j \in Diverse(h) : ProviderOf[h[j]] = ProviderOf[h[k]]
<1> DEFINE S == SameProvider(h, k)
<1>1. S \in SUBSET Nat /\ k \in S
  BY Positions DEF SameProvider
<1>2. PICK j \in S : \A i \in S : j <= i
  BY <1>1, LeastPosition
<1>3. j \in DOMAIN h /\ ProviderOf[h[j]] = ProviderOf[h[k]] /\ SameProvider(h, j) = S
  BY DEF SameProvider
<1>4. {i \in S : i < j} = {}
  BY <1>1, <1>2
<1>5. MaxPerProvider(h) \in Nat /\ MaxPerProvider(h) > 0
  BY LimitsAssumption DEF MaxPerProvider
<1>6. j \in First(S, MaxPerProvider(h))
  BY <1>4, <1>5, FS_EmptySet DEF First
<1> QED
  BY <1>3, <1>6 DEF Diverse

\* No provider has more than its places among them: each of them has a place of its own,
\* its provider and the number of hits of that provider before it.
LEMMA DiverseFew ==
  ASSUME NEW h \in Seq(Tools)
  PROVE  LET P == ProvidersAt(h, DOMAIN h) IN
         /\ IsFiniteSet(P) /\ Cardinality(P) \in Nat
         /\ Cardinality(Diverse(h)) <= Cardinality(P) * MaxPerProvider(h)
<1> DEFINE P == ProvidersAt(h, DOMAIN h)
           n == MaxPerProvider(h)
           Q == P \X (0..(n - 1))
           D == Diverse(h)
           Before(k) == Cardinality({i \in SameProvider(h, k) : i < k})
           f == [k \in D |-> <<ProviderOf[h[k]], Before(k)>>]
           g == [k \in DOMAIN h |-> ProviderOf[h[k]]]
<1>0. n \in Nat
  BY LimitsAssumption DEF MaxPerProvider
<1>1. IsFiniteSet(P) /\ Cardinality(P) \in Nat
  <2>1. g \in Surjection(DOMAIN h, P)
    BY DEF Surjection, ProvidersAt
  <2> QED
    BY <2>1, Positions, FS_Surjection, FS_CardinalityType
<1>2. IsFiniteSet(Q) /\ Cardinality(Q) = Cardinality(P) * n
  <2>1. /\ IsFiniteSet(0..(n - 1))
        /\ Cardinality(0..(n - 1)) = IF 0 > n - 1 THEN 0 ELSE (n - 1) - 0 + 1
    <3> HIDE DEF n
    <3>1. 0 \in Int /\ n - 1 \in Int
      BY <1>0
    <3> QED
      BY <3>1, FS_Interval
  <2>2. Cardinality(0..(n - 1)) = n
    BY <1>0, <2>1
  <2> HIDE DEF P, n
  <2> QED
    BY <1>1, <2>1, <2>2, FS_Product
<1>s. \A k \in DOMAIN h : SameProvider(h, k) \in SUBSET Nat /\ IsFiniteSet(SameProvider(h, k))
  <2> SUFFICES ASSUME NEW k \in DOMAIN h
               PROVE  SameProvider(h, k) \in SUBSET Nat /\ IsFiniteSet(SameProvider(h, k))
    OBVIOUS
  <2>1. SameProvider(h, k) \in SUBSET DOMAIN h
    BY DEF SameProvider
  <2> QED
    BY <2>1, Positions, FS_Subset
<1>3. ASSUME NEW k \in D PROVE <<ProviderOf[h[k]], Before(k)>> \in Q
  <2>1. k \in DOMAIN h /\ k \in First(SameProvider(h, k), n)
    BY DEF Diverse
  <2>2. Before(k) < n
    BY <2>1 DEF First
  <2>3. Before(k) \in Nat
    BY <1>s, <2>1, FS_Subset, FS_CardinalityType,
       {i \in SameProvider(h, k) : i < k} \in SUBSET SameProvider(h, k)
  <2>4. ProviderOf[h[k]] \in P
    BY <2>1 DEF ProvidersAt
  <2> HIDE DEF P, n, Before
  <2> QED
    BY <1>0, <2>2, <2>3, <2>4
<1>4. ASSUME NEW j \in D, NEW k \in D, j # k, ProviderOf[h[j]] = ProviderOf[h[k]]
      PROVE  Before(j) # Before(k)
  <2>1. j \in DOMAIN h /\ k \in DOMAIN h /\ j \in Nat /\ k \in Nat
    BY Positions
  <2>2. SameProvider(h, j) = SameProvider(h, k) /\ j \in SameProvider(h, k) /\ k \in SameProvider(h, k)
    BY <1>4, <2>1 DEF SameProvider
  <2> DEFINE S == SameProvider(h, k)
  <2>3. S \in SUBSET Nat /\ IsFiniteSet(S) /\ j \in S /\ k \in S
    BY <1>s, <2>1, <2>2
  <2>4. Before(j) = Cardinality({i \in S : i < j}) /\ Before(k) = Cardinality({i \in S : i < k})
    BY <2>2
  <2> HIDE DEF S, Before
  <2>5. CASE j < k
    <3>1. Before(j) \in Nat /\ Before(k) \in Nat /\ Before(j) < Before(k)
      BY <2>3, <2>4, <2>5, BelowGrows
    <3> QED
      BY <3>1
  <2>6. CASE k < j
    <3>1. Before(j) \in Nat /\ Before(k) \in Nat /\ Before(k) < Before(j)
      BY <2>3, <2>4, <2>6, BelowGrows
    <3> QED
      BY <3>1
  <2> QED
    BY <1>4, <2>1, <2>5, <2>6
<1> HIDE DEF P, n, Q, D, Before
<1>5. f \in Injection(D, Q)
  <2>1. f \in [D -> Q]
    BY <1>3
  <2>2. \A j, k \in D : f[j] = f[k] => j = k
    BY <1>4
  <2> QED
    BY <2>1, <2>2 DEF Injection, IsInjective
<1>6. Cardinality(D) <= Cardinality(P) * n
  BY <1>2, <1>5, FS_Injection
<1> QED
  BY <1>1, <1>6 DEF P, D, n

\* As long as there are places enough for each provider with a hit, each of them has a hit
\* in the choice.
LEMMA ChoiceCovers ==
  ASSUME NEW h \in Seq(Tools),
         PerProvider * Cardinality(ProvidersAt(h, DOMAIN h)) <= TopK
  PROVE  ProvidersAt(h, Choose(h)) = ProvidersAt(h, DOMAIN h)
<1> DEFINE c == Cardinality(ProvidersAt(h, DOMAIN h))
<1>0. c \in Nat /\ Cardinality(Diverse(h)) <= c * MaxPerProvider(h)
  BY DiverseFew
<1>1. Cardinality(Diverse(h)) <= TopK
  <2>1. CASE Len(h) > TopK
    <3>1. MaxPerProvider(h) = PerProvider
      BY <2>1 DEF MaxPerProvider
    <3> HIDE DEF c
    <3>2. PerProvider \in Nat /\ PerProvider * c <= TopK
      BY LimitsAssumption DEF c
    <3>3. c * PerProvider = PerProvider * c
      BY <1>0, <3>2
    <3>4. Cardinality(Diverse(h)) \in Nat /\ c * PerProvider \in Nat /\ TopK \in Nat
      BY <1>0, <3>2, Positions, LimitsAssumption
    <3> QED
      BY <1>0, <3>1, <3>2, <3>3, <3>4
  <2>2. CASE ~ (Len(h) > TopK)
    <3>1. Cardinality(Diverse(h)) <= Len(h) /\ Len(h) \in Nat /\ Cardinality(Diverse(h)) \in Nat
      BY Positions, FS_Subset
    <3> QED
      BY <2>2, <3>1, LimitsAssumption
  <2> QED
    BY <2>1, <2>2
<1>2. First(Diverse(h), TopK) = Diverse(h)
  BY <1>1, Positions, FirstAll, LimitsAssumption
<1>3. Diverse(h) \subseteq Choose(h) /\ Choose(h) \subseteq DOMAIN h
  BY <1>2, ChooseIs, ChoiceFits
<1>4. ASSUME NEW k \in DOMAIN h PROVE ProviderOf[h[k]] \in ProvidersAt(h, Choose(h))
  BY <1>3, FirstOfEach DEF ProvidersAt
<1> QED
  BY <1>3, <1>4 DEF ProvidersAt

-----------------------------------------------------------------------------
(* Types                                                                    *)

\* The hits that are fetched are known tools.
LEMMA RankingsTyped ==
  ASSUME NEW ranking \in Rankings
  PROVE  SubSeq(ranking, 1, IF Len(ranking) < FetchLimit THEN Len(ranking) ELSE FetchLimit)
           \in Seq(Tools)
<1>1. PICK n \in Nat : ranking \in [1..n -> Tools]
  BY DEF Rankings
<1>2. ranking \in Seq(Tools)
  BY <1>1
<1> DEFINE m == IF Len(ranking) < FetchLimit THEN Len(ranking) ELSE FetchLimit
<1>3. m \in 0..Len(ranking)
  BY <1>2, LimitsAssumption
<1> HIDE DEF m
<1>4. SubSeq(ranking, 1, m) \in Seq(Tools)
  BY <1>2, <1>3, SubSeqProperties
<1> QED
  BY <1>4 DEF m

\* The hits and the choice among them are of known tools, and a choice never has more
\* than the results of a search.
THEOREM SearchTypeCorrect == SearchSpec => []SearchTypeOK
<1>0. <<>> \in Seq(Tools) /\ {} \subseteq DOMAIN <<>> /\ Cardinality({}) <= TopK
  BY LimitsAssumption, FS_EmptySet
<1>1. SearchInit => SearchTypeOK
  <2> SUFFICES ASSUME SearchInit PROVE SearchTypeOK
    OBVIOUS
  <2>1. /\ hits \in Seq(Tools) /\ chosen \subseteq DOMAIN hits /\ Cardinality(chosen) <= TopK
        /\ dropped = FALSE /\ indexed = FALSE
    BY <1>0 DEF SearchInit
  <2> QED
    BY <2>1 DEF SearchInit, SearchTypeOK
<1>2. SearchTypeOK /\ [SearchNext]_searchVars => SearchTypeOK'
  <2> SUFFICES ASSUME SearchTypeOK, [SearchNext]_searchVars PROVE SearchTypeOK'
    OBVIOUS
  <2> USE DEF SearchTypeOK
  <2>e. ASSUME NEW gone, Ends(gone)
        PROVE  /\ holder' \in Workers \union {NoWorker} /\ indexed' \in BOOLEAN
               /\ own' \subseteq OwnTools /\ found' \in [Threads -> SUBSET Tools]
    BY <2>e DEF Ends, memory
  <2>r. ASSUME NEW gone, RunsEnd(gone) PROVE told' \in [Threads -> SUBSET Tools]
    BY <2>r DEF RunsEnd
  <2>u. ASSUME hits' = <<>>, chosen' = {}
        PROVE  /\ hits' \in Seq(Tools) /\ chosen' \subseteq DOMAIN hits'
               /\ Cardinality(chosen') <= TopK
    BY <1>0, <2>u
  <2>f. ASSUME Flush \/ FlushRaises PROVE disk' \subseteq FixedTools /\ indexed' \in BOOLEAN
    BY <2>f DEF Flush, FlushRaises
  <2>1. ASSUME NEW tools \in SUBSET FixedTools, Deploy(tools) PROVE SearchTypeOK'
    <3>1. dropped' \in BOOLEAN
      BY <2>1 DEF Deploy
    <3> QED
      BY <2>1, <2>e, <2>r, <2>u, <3>1 DEF Deploy, Used
  <2>2. ASSUME NEW w \in Workers, Restart(w) PROVE SearchTypeOK'
    BY <2>2, <2>e, <2>r, <2>u DEF Restart, Used
  <2>3. CASE Evict
    BY <2>3, <2>u DEF Evict, Kept, Used
  <2>4. ASSUME NEW th \in Threads, SearchFails(th) PROVE SearchTypeOK'
    BY <2>4, <2>f, <2>u DEF SearchFails, Used
  <2>5. ASSUME NEW th \in Threads, NEW offered \in SUBSET OwnTools, NEW raises \in BOOLEAN,
               Enter(th, offered, raises)
        PROVE  SearchTypeOK'
    <3>1. /\ disk' \subseteq FixedTools /\ indexed' \in BOOLEAN /\ own' \subseteq OwnTools
          /\ ownDisk' \subseteq OwnTools /\ holder' \in Workers \union {NoWorker}
      BY <2>5, <2>f DEF Enter, Index, IndexOwn, Kept
    <3>2. bound' \subseteq Tools
      BY <2>5 DEF Enter, Resolved, Searched
    <3> QED
      BY <2>5, <2>u, <3>1, <3>2 DEF Enter
  <2>6. ASSUME NEW th \in Threads, NEW connected \in SUBSET OAuthProviders, NEW ranking \in Rankings,
               Search(th, connected, ranking)
        PROVE  SearchTypeOK'
    <3> DEFINE h == SubSeq(ranking, 1, IF Len(ranking) < FetchLimit THEN Len(ranking) ELSE FetchLimit)
               names == {h[k] : k \in Choose(h)}
    <3>1. h \in Seq(Tools)
      BY RankingsTyped
    <3>2. /\ Retrieve(process[th], connected, h) /\ found' = Remember(th, names)
          /\ told' = [told EXCEPT ![th] = @ \union names] /\ bound' = {}
          /\ UNCHANGED <<registry, ownDisk, own, process, dropped>>
      BY <2>6 DEF Search
    <3> HIDE DEF h
    <3>3. Choose(h) \in SUBSET DOMAIN h /\ Cardinality(Choose(h)) <= TopK
      BY <3>1, ChoiceFits
    <3>4. names \subseteq Tools
      BY <3>1, <3>3
    <3> HIDE DEF names
    <3>5. found' \in [Threads -> SUBSET Tools] /\ told' \in [Threads -> SUBSET Tools]
      BY <3>2, <3>4 DEF Remember
    <3>6. holder' = process[th] /\ Flush /\ hits' = h /\ chosen' = Choose(h)
      BY <3>2 DEF Retrieve
    <3> QED
      BY <2>f, <3>1, <3>2, <3>3, <3>5, <3>6
  <2>7. ASSUME NEW th \in Threads, NEW w \in Workers, Request(th, w) PROVE SearchTypeOK'
    BY <2>7, <2>u DEF Request, Used, memory
  <2>8. CASE UNCHANGED searchVars
    BY <2>8 DEF searchVars, memory
  <2> HIDE DEF SearchTypeOK
  <2> QED
    BY <2>1, <2>2, <2>3, <2>4, <2>5, <2>6, <2>7, <2>8 DEF SearchNext
<1> QED
  BY <1>1, <1>2, PTL DEF SearchSpec

\* What was found and chosen is the outcome of one search, or nothing.
Covers == PerProvider * Cardinality(ProvidersAt(hits, DOMAIN hits)) <= TopK
            => ProvidersAt(hits, chosen) = ProvidersAt(hits, DOMAIN hits)

\* The filter by provider: whatever the ranking, every provider with a hit among those fetched is in
\* the choice, as long as there are places enough.
THEOREM ProvidersAreFound == SearchSpec => []ProvidersFound
<1>0. ASSUME hits = <<>>, chosen = {} PROVE Covers
  BY <1>0 DEF Covers, ProvidersAt
<1>1. SearchInit => Covers
  BY <1>0 DEF SearchInit
<1>2. SearchTypeOK /\ Covers /\ [SearchNext]_searchVars => Covers'
  <2> SUFFICES ASSUME SearchTypeOK, Covers, [SearchNext]_searchVars PROVE Covers'
    OBVIOUS
  <2>n. ASSUME hits' = <<>>, chosen' = {} PROVE Covers'
    BY <2>n DEF Covers, ProvidersAt
  <2>1. ASSUME NEW tools \in SUBSET FixedTools, Deploy(tools) PROVE Covers'
    BY <2>1, <2>n DEF Deploy, Used
  <2>2. ASSUME NEW w \in Workers, Restart(w) PROVE Covers'
    BY <2>2, <2>n DEF Restart, Used
  <2>3. CASE Evict
    BY <2>3, <2>n DEF Evict, Used
  <2>4. ASSUME NEW th \in Threads, NEW offered \in SUBSET OwnTools, NEW raises \in BOOLEAN,
               SearchFails(th) \/ Enter(th, offered, raises)
        PROVE  Covers'
    BY <2>4, <2>n DEF SearchFails, Enter, Used
  <2>5. ASSUME NEW th \in Threads, NEW connected \in SUBSET OAuthProviders, NEW ranking \in Rankings,
               Search(th, connected, ranking)
        PROVE  Covers'
    <3> DEFINE h == SubSeq(ranking, 1, IF Len(ranking) < FetchLimit THEN Len(ranking) ELSE FetchLimit)
    <3>1. h \in Seq(Tools)
      BY RankingsTyped
    <3>2. hits' = h /\ chosen' = Choose(h)
      BY <2>5 DEF Search, Retrieve
    <3> HIDE DEF h
    <3>3. PerProvider * Cardinality(ProvidersAt(h, DOMAIN h)) <= TopK
             => ProvidersAt(h, Choose(h)) = ProvidersAt(h, DOMAIN h)
      BY <3>1, ChoiceCovers
    <3>4. ProvidersAt(hits, chosen)' = ProvidersAt(hits', chosen')
          /\ ProvidersAt(hits, DOMAIN hits)' = ProvidersAt(hits', DOMAIN hits')
      BY DEF ProvidersAt
    <3> QED
      BY <3>2, <3>3, <3>4 DEF Covers
  <2>6. ASSUME NEW th \in Threads, NEW w \in Workers, Request(th, w) PROVE Covers'
    BY <2>6, <2>n DEF Request, Used
  <2>7. CASE UNCHANGED searchVars
    <3>1. hits' = hits /\ chosen' = chosen
      BY <2>7 DEF searchVars
    <3> QED
      BY <3>1 DEF Covers, ProvidersAt
  <2> HIDE DEF Covers
  <2> QED
    BY <2>1, <2>2, <2>3, <2>4, <2>5, <2>6, <2>7 DEF SearchNext
<1>3. Covers => ProvidersFound
  BY DEF Covers, ProvidersFound, ProvidersAt, ProvidersIn
<1> QED
  BY <1>1, <1>2, <1>3, SearchTypeCorrect, PTL DEF SearchSpec

-----------------------------------------------------------------------------
(* What was told is bound                                                   *)

\* Why it is inductive: while releases only add, the disk holds no other fixed tools, so that
\* counting tells whether it holds all; an index that is taken for full has them all; and
\* only runs in the process that has the index have been told of tools, which it has found.
Additive ==
    ~dropped => /\ disk \subseteq registry
                /\ indexed => registry \subseteq disk
                /\ \A th \in Threads : told[th] \subseteq registry \union OwnTools
Local ==
    /\ holder = NoWorker => ~indexed
    /\ \A th \in Threads : told[th] # {} => process[th] = holder /\ told[th] \subseteq found[th]
SearchInv == Additive /\ Local

\* What a flush leaves on the disk are registered tools, and all of them if it says so.
LEMMA FlushKeeps ==
  ASSUME SearchTypeOK, Additive, ~dropped, Flush \/ FlushRaises
  PROVE  disk' \subseteq registry /\ (indexed' => registry \subseteq disk')
<1>1. disk \subseteq registry /\ IsFiniteSet(registry) /\ indexed \in BOOLEAN
  BY ToolsFinite, FS_Subset DEF SearchTypeOK, Additive, Tools
<1>2. OnDisk => disk = registry
  BY <1>1, FS_Subset DEF OnDisk
<1> QED
  BY <1>1, <1>2 DEF Flush, FlushRaises, Additive

\* A process that may use the index is the one in which tools were told.
LEMMA ToldHere ==
  ASSUME SearchTypeOK, Local, NEW w \in Workers, MayOpen(w), NEW th \in Threads, told[th] # {}
  PROVE  process[th] = w
BY NoWorkerOutside DEF SearchTypeOK, MayOpen, Local

\* What a step keeps when it changes the index at most by opening or filling it, for the
\* process that may, and tells nobody anything.
LEMMA OpenKeeps ==
  ASSUME SearchTypeOK, SearchInv, NEW w \in Workers, MayOpen(w), holder' = w,
         Flush \/ FlushRaises, UNCHANGED <<registry, found, process, told, dropped>>
  PROVE  SearchInv'
<1>1. Additive'
  BY FlushKeeps DEF SearchInv, Additive
<1>2. Local'
  BY ToldHere, NoWorkerOutside DEF SearchInv, Local
<1> QED
  BY <1>1, <1>2 DEF SearchInv

\* The invariant is kept by every step.
LEMMA SearchInvKept ==
  ASSUME SearchTypeOK, SearchInv, [SearchNext]_searchVars
  PROVE  SearchInv'
<1>t. /\ told \in [Threads -> SUBSET Tools] /\ found \in [Threads -> SUBSET Tools]
      /\ process \in [Threads -> Workers] /\ holder \in Workers \union {NoWorker}
  BY DEF SearchTypeOK
<1>e. ASSUME NEW gone \in SUBSET Workers, Ends(gone), RunsEnd(gone), process' = process
      PROVE  /\ Local'
             /\ indexed' => indexed
             /\ \A th \in Threads : told'[th] \subseteq told[th]
  <2>1. \A th \in Threads : told'[th] = IF process[th] \in gone THEN {} ELSE told[th]
    BY <1>e DEF RunsEnd
  <2>2. CASE holder \in gone
    <3>1. \A th \in Threads : told'[th] = {}
      BY <1>t, <2>1, <2>2 DEF SearchInv, Local
    <3>2. holder' = NoWorker /\ indexed' = FALSE
      BY <1>e, <2>2 DEF Ends
    <3> QED
      BY <3>1, <3>2 DEF Local
  <2>3. CASE holder \notin gone
    BY <1>e, <2>1, <2>3 DEF Ends, memory, SearchInv, Local
  <2> QED
    BY <2>2, <2>3
<1>1. ASSUME NEW tools \in SUBSET FixedTools, Deploy(tools) PROVE SearchInv'
  <2>1. Local'
    BY <1>1, <1>e, Workers \in SUBSET Workers DEF Deploy
  <2>2. \A th \in Threads : told'[th] = {}
    BY <1>1, <1>t DEF Deploy, RunsEnd
  <2>3. indexed' = FALSE
    BY <1>1, <1>t DEF Deploy, Ends, SearchInv, Local, memory
  <2>4. ~dropped' => ~dropped /\ registry \subseteq registry'
    BY <1>1, Zenon DEF Deploy
  <2>5. disk' = disk
    BY <1>1 DEF Deploy
  <2> QED
    BY <2>1, <2>2, <2>3, <2>4, <2>5 DEF SearchInv, Additive
<1>2. ASSUME NEW w \in Workers, Restart(w) PROVE SearchInv'
  <2>1. Local' /\ (indexed' => indexed) /\ \A th \in Threads : told'[th] \subseteq told[th]
    BY <1>2, <1>e, {w} \in SUBSET Workers DEF Restart
  <2>2. UNCHANGED <<registry, disk, dropped>>
    BY <1>2 DEF Restart
  <2> QED
    BY <2>1, <2>2 DEF SearchInv, Additive
<1>3. CASE Evict
  BY <1>3 DEF Evict, SearchInv, Additive, Local
<1>4. ASSUME NEW th \in Threads, SearchFails(th) PROVE SearchInv'
  BY <1>4, <1>t, OpenKeeps DEF SearchFails
<1>5. ASSUME NEW th \in Threads, NEW offered \in SUBSET OwnTools, NEW raises \in BOOLEAN,
             Enter(th, offered, raises)
      PROVE  SearchInv'
  <2>1. Index(process[th], offered, raises) /\ UNCHANGED <<registry, found, process, told, dropped>>
    BY <1>5 DEF Enter
  <2>2. CASE UNCHANGED <<disk, holder, indexed>>
    BY <2>1, <2>2 DEF SearchInv, Additive, Local
  <2>3. CASE MayOpen(process[th]) /\ holder' = process[th] /\ (Flush \/ FlushRaises)
    BY <1>t, <2>1, <2>3, OpenKeeps
  <2> QED
    BY <2>1, <2>2, <2>3 DEF Index
<1>6. ASSUME NEW th \in Threads, NEW connected \in SUBSET OAuthProviders, NEW ranking \in Rankings,
             Search(th, connected, ranking)
      PROVE  SearchInv'
  <2> DEFINE h == SubSeq(ranking, 1, IF Len(ranking) < FetchLimit THEN Len(ranking) ELSE FetchLimit)
             names == {h[k] : k \in Choose(h)}
  <2>1. h \in Seq(Tools)
    BY RankingsTyped
  <2>2. /\ Retrieve(process[th], connected, h) /\ found' = Remember(th, names)
        /\ told' = [told EXCEPT ![th] = @ \union names]
        /\ UNCHANGED <<registry, process, dropped>>
    BY <1>6 DEF Search
  <2> HIDE DEF h
  <2>3. Choose(h) \in SUBSET DOMAIN h
    BY <2>1, ChoiceFits
  <2>4. /\ MayOpen(process[th]) /\ holder' = process[th] /\ Flush
        /\ \A k \in DOMAIN h : h[k] \in disk' \union ownDisk
    BY <2>2 DEF Retrieve
  <2>5. names \subseteq disk' \union OwnTools
    BY <2>3, <2>4 DEF SearchTypeOK
  <2> HIDE DEF names
  <2>6. /\ found'[th] = found[th] \union names /\ told'[th] = told[th] \union names
        /\ \A v \in Threads \ {th} : found'[v] = found[v] /\ told'[v] = told[v]
    BY <1>t, <2>2 DEF Remember
  <2>7. ASSUME NEW v \in Threads, told'[v] # {}
        PROVE  process'[v] = holder' /\ told'[v] \subseteq found'[v]
    <3>0. told[v] \subseteq found[v]
      BY DEF SearchInv, Local
    <3>1. CASE v = th
      BY <2>2, <2>4, <2>6, <3>0, <3>1
    <3>2. CASE v # th
      BY <1>t, <2>2, <2>4, <2>6, <2>7, <3>0, <3>2, ToldHere DEF SearchInv
    <3> QED
      BY <3>1, <3>2
  <2>8. Local'
    BY <1>t, <2>4, <2>7, NoWorkerOutside DEF Local
  <2>9. Additive'
    <3> SUFFICES ASSUME ~dropped'
                 PROVE  /\ disk' \subseteq registry' /\ (indexed' => registry' \subseteq disk')
                        /\ \A v \in Threads : told'[v] \subseteq registry' \union OwnTools
      BY DEF Additive
    <3>1. ~dropped /\ registry' = registry
      BY <2>2
    <3>2. disk' \subseteq registry /\ (indexed' => registry \subseteq disk')
      BY <2>4, <3>1, FlushKeeps DEF SearchInv
    <3>3. \A v \in Threads : told[v] \subseteq registry \union OwnTools
      BY <3>1 DEF SearchInv, Additive
    <3> QED
      BY <2>5, <2>6, <3>1, <3>2, <3>3
  <2> QED
    BY <2>8, <2>9 DEF SearchInv
<1>7. ASSUME NEW th \in Threads, NEW w \in Workers, Request(th, w) PROVE SearchInv'
  <2>1. /\ told'[th] = {} /\ \A v \in Threads \ {th} : told'[v] = told[v] /\ process'[v] = process[v]
        /\ UNCHANGED <<registry, disk, holder, indexed, found, dropped>>
    BY <1>7, <1>t DEF Request, memory
  <2> QED
    BY <2>1 DEF SearchInv, Additive, Local
<1>8. CASE UNCHANGED searchVars
  BY <1>8 DEF searchVars, memory, SearchInv, Additive, Local
<1> QED
  BY <1>1, <1>2, <1>3, <1>4, <1>5, <1>6, <1>7, <1>8 DEF SearchNext

\* While releases only add tools: an index that is taken for up to date has the vectors of
\* all fixed tools, and an entry of agent_node whose indexing does not raise binds all the run
\* was told of but tools of the user's own that are not registered then.
THEOREM AddedSearchable == SearchSpec => AddedIsSearchable
<1> DEFINE Binds == ~dropped' =>
                      /\ indexed' => registry' \subseteq disk'
                      /\ \A th \in Threads :
                            Enters(th) => told[th] \ bound' \subseteq OwnTools \ own'
<1>1. SearchInit => SearchInv
  BY DEF SearchInit, SearchInv, Additive, Local
<1>2. SearchTypeOK /\ SearchInv /\ [SearchNext]_searchVars => SearchInv'
  BY SearchInvKept
<1>3. ASSUME SearchTypeOK, SearchInv, SearchInv' PROVE Binds
  <2>1. ~dropped' => (indexed' => registry' \subseteq disk')
    BY <1>3 DEF SearchInv, Additive
  <2>2. ASSUME ~dropped', NEW th \in Threads, Enters(th)
        PROVE  told[th] \ bound' \subseteq OwnTools \ own'
    <3>1. PICK offered \in SUBSET OwnTools : Enter(th, offered, FALSE)
      BY <2>2 DEF Enters
    <3>2. bound' = Searched(th) \intersect (registry \union own') /\ UNCHANGED <<registry, dropped>>
      BY <3>1 DEF Enter, Resolved
    <3>3. told[th] \subseteq registry \union OwnTools
      BY <1>3, <2>2, <3>2 DEF SearchInv, Additive
    <3>4. told[th] # {} => told[th] \subseteq Searched(th)
      BY <1>3 DEF SearchInv, Local, Searched
    <3> QED
      BY <3>2, <3>3, <3>4
  <2> QED
    BY <2>1, <2>2
<1>4. SearchTypeOK /\ SearchInv /\ SearchInv' => [Binds]_searchVars
  BY <1>3
<1> QED
  BY <1>1, <1>2, <1>4, SearchTypeCorrect, PTL DEF SearchSpec, AddedIsSearchable

=============================================================================
