---------------------------- MODULE WebHouseholds -----------------------------
(* Households in the TypeScript application: a person's own household, made    *)
(* when a session is first used, the invitations its owner sends, the requests *)
(* that accept them, and the default household.  Every request first makes     *)
(* sure of the household it acts for (ensureUserHousehold), in commands that   *)
(* mix with those of other requests of the same person.                        *)
EXTENDS Naturals, FiniteSets

CONSTANTS
    Person,       \* accounts; a person names that person's own household too
    Invite,       \* invitation ids
    InviteTab,    \* requests in flight at once
    InviteLimit,  \* 10 invitations an hour, 30 a day: one limit stands for both
    TabBound,     \* bound: requests an instance follows
    NoHouse       \* a profile without a default household

ASSUME WebHouseholdsAssumption ==
    /\ IsFiniteSet(Invite) /\ IsFiniteSet(InviteTab) /\ InviteTab # {}
    /\ InviteLimit \in Nat \ {0} /\ TabBound \in Nat /\ NoHouse \notin Person

VARIABLES
    accounts,  \* people who have signed up
    houses,    \* household documents, each by its first owner
    members,   \* household_memberships
    default,   \* defaultHouseholdId of each profile
    invites,   \* the invitations: status, household, address, acceptedByUserId, whether expired
    tab,       \* what each request is doing
    tabs       \* requests so far, up to TabBound

householdVars == <<accounts, houses, members, default, invites, tab, tabs>>

NoTab == [pc |-> "idle", who |-> NoHouse, kind |-> "none", house |-> NoHouse, wanted |-> {}]
Membership(h, u, r) == [house |-> h, user |-> u, role |-> r]
IsMember(h, u) == \E m \in members : m.house = h /\ m.user = u
IsOwner(h, u)  == Membership(h, u, "owner") \in members
\* An upsert with $setOnInsert: a membership that exists keeps its role.
WithMember(h, u, r) == IF IsMember(h, u) THEN members ELSE members \cup {Membership(h, u, r)}

Created == {i \in Invite : invites[i].status # "none"}
Pending(h, u) == {i \in Invite : /\ invites[i].status = "pending"
                                 /\ invites[i].house = h /\ invites[i].to = u}
\* Mutant: the expiry is not asked for.
ValidForever(i) == invites[i].status = "pending"
\* What resolveInvitation and acceptInvitation ask for.
Valid(i) == invites[i].status = "pending" /\ ~invites[i].expired

WebHouseholdsInit ==
    /\ accounts = {} /\ houses = {} /\ members = {}
    /\ default = [u \in Person |-> NoHouse]
    /\ invites = [i \in Invite |-> [status |-> "none", house |-> NoHouse, to |-> NoHouse, by |-> NoHouse,
                               expired |-> FALSE]]
    /\ tab = [t \in InviteTab |-> NoTab]
    /\ tabs = 0

TabAt(t, pc) == tab[t].pc = pc
TabGoto(t, pc) == tab' = [tab EXCEPT ![t].pc = pc]
TabOver(t) == tab' = [tab EXCEPT ![t] = NoTab]

-------------------------------------------------------------------------------
(* The session: sign-up, and ensureUserHousehold at the start of a request.    *)

SignUp(u) ==
    /\ u \notin accounts
    /\ accounts' = accounts \cup {u}
    /\ UNCHANGED <<houses, members, default, invites, tab, tabs>>

\* A request of u: to switch to a household, to invite a person, to revoke an
\* invitation, or only to look.
BeginRequest(t, u, kind, wanted) ==
    /\ TabAt(t, "idle") /\ u \in accounts
    /\ tab' = [tab EXCEPT ![t] = [NoTab EXCEPT !.pc = "profile", !.who = u, !.kind = kind, !.wanted = wanted]]
    /\ tabs < TabBound /\ tabs' = tabs + 1
    /\ UNCHANGED <<accounts, houses, members, default, invites>>

ReadProfile(t) ==
    /\ TabAt(t, "profile")
    /\ tab' = [tab EXCEPT ![t].pc = "pick", ![t].house = default[tab[t].who]]
    /\ UNCHANGED <<accounts, houses, members, default, invites, tabs>>

\* The default, if it is one of the person's households; else one of them, an
\* owned one before the others; else a household of the person's own.
PickHousehold(t, h) ==
    /\ TabAt(t, "pick")
    /\ LET u      == tab[t].who
           mine   == {m.house : m \in {n \in members : n.user = u}}
           owned  == {k \in mine : IsOwner(k, u)}
           chosen == IF owned # {} THEN owned ELSE IF mine # {} THEN mine ELSE {u}
       IN  IF tab[t].house \in mine
           THEN h = tab[t].house /\ TabGoto(t, tab[t].kind)
           ELSE h \in chosen /\ tab' = [tab EXCEPT ![t].pc = "house", ![t].house = h]
    /\ UNCHANGED <<accounts, houses, members, default, invites, tabs>>

UpsertHousehold(t) ==
    /\ TabAt(t, "house")
    /\ houses' = houses \cup {tab[t].house}
    /\ TabGoto(t, "member")
    /\ UNCHANGED <<accounts, members, default, invites, tabs>>

UpsertMembership(t) ==
    /\ TabAt(t, "member")
    /\ members' = WithMember(tab[t].house, tab[t].who, "owner")
    /\ TabGoto(t, "default")
    /\ UNCHANGED <<accounts, houses, default, invites, tabs>>

WriteDefault(t) ==
    /\ TabAt(t, "default")
    /\ default' = [default EXCEPT ![tab[t].who] = tab[t].house]
    /\ TabGoto(t, tab[t].kind)
    /\ UNCHANGED <<accounts, houses, members, invites, tabs>>

Look(t) ==
    /\ TabAt(t, "look") /\ TabOver(t)
    /\ UNCHANGED <<accounts, houses, members, default, invites, tabs>>

-------------------------------------------------------------------------------
(* The actions of the settings page.                                           *)

\* switchDefault: memberships are never taken away, so what the first command
\* finds still holds when the second writes.
SwitchDefault(t) ==
    /\ TabAt(t, "switch")
    /\ default' = [default EXCEPT ![tab[t].who] =
                     IF \E h \in tab[t].wanted : IsMember(h, tab[t].who)
                     THEN CHOOSE h \in tab[t].wanted : TRUE ELSE @]
    /\ TabOver(t)
    /\ UNCHANGED <<accounts, houses, members, invites, tabs>>

\* createInvitation: an owner, of somebody who is not a member yet ...
InviteCheck(t) ==
    /\ TabAt(t, "invite")
    /\ IF IsOwner(tab[t].house, tab[t].who)
          /\ \A u \in tab[t].wanted : u \in accounts => ~IsMember(tab[t].house, u)
       THEN TabGoto(t, "limit") ELSE TabOver(t)
    /\ UNCHANGED <<accounts, houses, members, default, invites, tabs>>

\* ... within the limit ...
InviteCount(t) ==
    /\ TabAt(t, "limit")
    /\ IF Cardinality({i \in Created : invites[i].house = tab[t].house}) >= InviteLimit
       THEN TabOver(t) ELSE TabGoto(t, "replace")
    /\ UNCHANGED <<accounts, houses, members, default, invites, tabs>>

\* ... whose pending invitations are revoked before another is inserted.
InviteReplace(t) ==
    /\ TabAt(t, "replace")
    /\ invites' = [i \in Invite |->
                     IF \E u \in tab[t].wanted : i \in Pending(tab[t].house, u)
                     THEN [invites[i] EXCEPT !.status = "revoked"] ELSE invites[i]]
    /\ TabGoto(t, "insert")
    /\ UNCHANGED <<accounts, houses, members, default, tabs>>

InviteInsert(t, i) ==
    /\ TabAt(t, "insert") /\ i \notin Created
    /\ \E u \in tab[t].wanted :
          invites' = [invites EXCEPT ![i] = [status |-> "pending", house |-> tab[t].house,
                                             to |-> u, by |-> NoHouse, expired |-> FALSE]]
    /\ TabOver(t)
    /\ UNCHANGED <<accounts, houses, members, default, tabs>>

\* revokeInvitation: one update whose filter asks for a pending invitation of
\* the household; who owns it never changes.
RevokeInvitation(t, i) ==
    /\ TabAt(t, "revoke")
    /\ invites' = IF IsOwner(tab[t].house, tab[t].who)
                     /\ invites[i].status = "pending" /\ invites[i].house = tab[t].house
                  THEN [invites EXCEPT ![i].status = "revoked"] ELSE invites
    /\ TabOver(t)
    /\ UNCHANGED <<accounts, houses, members, default, tabs>>

Lapse(i) ==
    /\ invites[i].status = "pending" /\ ~invites[i].expired
    /\ invites' = [invites EXCEPT ![i].expired = TRUE]
    /\ UNCHANGED <<accounts, houses, members, default, tab, tabs>>

-------------------------------------------------------------------------------
(* Joining (household-join.tsx): the token is resolved, then whoever is signed *)
(* in, or signs up for the invited address, accepts.                           *)

ResolveInvitation(t, u, i) ==
    /\ TabAt(t, "idle") /\ Valid(i) /\ invites[i].house \in houses
    /\ u \in accounts \/ u = invites[i].to
    /\ accounts' = accounts \cup {u}
    /\ tab' = [tab EXCEPT ![t] = [NoTab EXCEPT !.pc = "accept", !.who = u, !.wanted = {i}]]
    /\ tabs < TabBound /\ tabs' = tabs + 1
    /\ UNCHANGED <<houses, members, default, invites>>

\* Mutant: the address of the invitation is not compared.
AcceptForAnyone(t, i) ==
    /\ TabAt(t, "accept") /\ i \in tab[t].wanted
    /\ IF Valid(i)
       THEN /\ invites' = [invites EXCEPT ![i].status = "accepted", ![i].by = tab[t].who]
            /\ tab' = [tab EXCEPT ![t].pc = "join", ![t].house = invites[i].house]
       ELSE TabOver(t) /\ UNCHANGED invites
    /\ UNCHANGED <<accounts, houses, members, default, tabs>>
\* acceptInvitation: the update that wins decides, whatever was resolved before.
AcceptInvitation(t, i) ==
    /\ TabAt(t, "accept") /\ i \in tab[t].wanted
    /\ IF invites[i].to = tab[t].who /\ Valid(i)
       THEN /\ invites' = [invites EXCEPT ![i].status = "accepted", ![i].by = tab[t].who]
            /\ tab' = [tab EXCEPT ![t].pc = "join", ![t].house = invites[i].house]
       ELSE TabOver(t) /\ UNCHANGED invites
    /\ UNCHANGED <<accounts, houses, members, default, tabs>>

JoinHousehold(t) ==
    /\ TabAt(t, "join")
    /\ members' = WithMember(tab[t].house, tab[t].who, "adult")
    /\ TabGoto(t, "settle")
    /\ UNCHANGED <<accounts, houses, default, invites, tabs>>

SettleDefault(t) ==
    /\ TabAt(t, "settle")
    /\ default' = [default EXCEPT ![tab[t].who] = tab[t].house]
    /\ TabOver(t)
    /\ UNCHANGED <<accounts, houses, members, invites, tabs>>

\* A command fails, or the Worker ends, between two commands.
TabLost(t) ==
    /\ ~TabAt(t, "idle") /\ TabOver(t)
    /\ UNCHANGED <<accounts, houses, members, default, invites, tabs>>

WebHouseholdsNext ==
    \/ \E u \in Person : SignUp(u)
    \/ \E t \in InviteTab :
        \/ \E u \in Person :
              \/ \E kind \in {"look", "revoke"} : BeginRequest(t, u, kind, {})
              \/ \E kind \in {"switch", "invite"}, w \in Person : BeginRequest(t, u, kind, {w})
              \/ \E i \in Invite : ResolveInvitation(t, u, i)
        \/ ReadProfile(t) \/ \E h \in Person : PickHousehold(t, h)
        \/ UpsertHousehold(t) \/ UpsertMembership(t) \/ WriteDefault(t)
        \/ Look(t) \/ SwitchDefault(t) \/ InviteCheck(t) \/ InviteCount(t) \/ InviteReplace(t)
        \/ \E i \in Invite : InviteInsert(t, i) \/ RevokeInvitation(t, i) \/ AcceptInvitation(t, i)
        \/ JoinHousehold(t) \/ SettleDefault(t) \/ TabLost(t)
    \/ \E i \in Invite : Lapse(i)

WebHouseholdsSpec == WebHouseholdsInit /\ [][WebHouseholdsNext]_householdVars

-------------------------------------------------------------------------------
(* Nobody is in a household without a right to it: a membership is the         *)
(* person's own household, owned, or comes from an accepted invitation to that *)
(* person, which nobody else has accepted; a default household is one of the   *)
(* person's, however the requests that make, accept and switch overlap         *)
(* (households.ts, tenant.ts).                                                 *)
MembershipsAreEarned ==
    /\ \A m \in members :
          \/ m.house = m.user /\ m.role = "owner"
          \/ m.role = "adult" /\ \E i \in Invite : /\ invites[i].status = "accepted"
                                                   /\ invites[i].house = m.house
                                                   /\ invites[i].to = m.user
    /\ \A i \in Invite : invites[i].status = "accepted" => invites[i].by = invites[i].to
    /\ \A u \in Person : default[u] # NoHouse => IsMember(default[u], u)

(* An invitation that was accepted, revoked or has expired admits nobody any   *)
(* more: a second tab, a late click and a revocation find it settled           *)
(* (households.ts: acceptInvitation, revokeInvitation, createInvitation).      *)
SettledInvitesStay ==
    [][\A i \in Created : /\ invites[i].status # "pending" => invites'[i] = invites[i]
                          /\ invites[i].expired => invites'[i].status # "accepted" \/ invites[i].status = "accepted"
      ]_householdVars
===============================================================================
