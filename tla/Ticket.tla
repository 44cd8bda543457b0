------------------------------- MODULE Ticket -------------------------------
(***************************************************************************)
(* What the OAuth flow promises: an authorization is a ticket of the user   *)
(* who asked for it.  It is redeemed at most once, within its lifetime, and *)
(* a redeemed ticket connects its user to one provider, once or never,      *)
(* through what that provider issued; at a provider with PKCE, through what *)
(* it issued for this very ticket.                                          *)
(***************************************************************************)
CONSTANTS
    Tickets, Users, Providers,
    Pkce,                   \* providers that tie what they issue to a ticket
    NoUser, NoProvider,     \* owner and issuer of a ticket that is not issued
    NoTicket                \* the content of an account that is not connected

VARIABLES
    ticket,         \* the state of a ticket
    owner,          \* its user
    issuer,         \* the provider it was made for
    connected       \* what an account is connected through, named by the ticket it was issued for

vars == <<ticket, owner, issuer, connected>>

Init ==
    /\ ticket = [t \in Tickets |-> "none"]
    /\ owner = [t \in Tickets |-> NoUser]
    /\ issuer = [t \in Tickets |-> NoProvider]
    /\ connected = [a \in Users \X Providers |-> NoTicket]

Step(t, from, to) == ticket[t] = from /\ ticket' = [ticket EXCEPT ![t] = to]

Issue(t, u, p) ==
    /\ Step(t, "none", "issued")
    /\ owner' = [owner EXCEPT ![t] = u]
    /\ issuer' = [issuer EXCEPT ![t] = p]
    /\ UNCHANGED connected

Redeem(t) == Step(t, "issued", "redeemed") /\ UNCHANGED <<owner, issuer, connected>>

\* Its lifetime is over, or what redeemed it fails.
Void(t) ==
    /\ Step(t, "issued", "spent") \/ Step(t, "redeemed", "spent")
    /\ UNCHANGED <<owner, issuer, connected>>

Connect(t, p, code) ==
    /\ Step(t, "redeemed", "spent")
    /\ issuer[code] = p
    /\ p \in Pkce => code = t
    /\ connected' = [connected EXCEPT ![<<owner[t], p>>] = code]
    /\ UNCHANGED <<owner, issuer>>

Disconnect(a) ==
    /\ connected' = [connected EXCEPT ![a] = NoTicket]
    /\ UNCHANGED <<ticket, owner, issuer>>

Next ==
    \/ \E t \in Tickets :
          \/ \E u \in Users, p \in Providers : Issue(t, u, p)
          \/ Redeem(t) \/ Void(t)
          \/ \E p \in Providers, code \in Tickets : Connect(t, p, code)
    \/ \E a \in Users \X Providers : Disconnect(a)

Spec == Init /\ [][Next]_vars

=============================================================================
