------------------------------ MODULE Households ------------------------------
(***************************************************************************)
(* Households, memberships, invitations and browser sessions of the Kotlin *)
(* backend: AccountService, SessionRepository, AuthController and          *)
(* HouseholdInvitationService.                                             *)
(*                                                                         *)
(* Registering founds a household, so a household is named by the user who *)
(* founded it.  A user is named by the e-mail address, which is unique.    *)
(* No code removes a membership or deletes a household.                    *)
(***************************************************************************)
EXTENDS Integers, FiniteSets

CONSTANTS
    User,        \* people, registered or not
    Invitation,  \* bound: the invitations that are ever created
    Inviter,     \* concurrent requests that invite
    Tab,         \* concurrent requests that accept or switch household
    None         \* no role, no household, no document, no request


VARIABLES
    role,        \* role[h][u]: the role of u in the household of h
    home,        \* home[u]: the default household in u's profile
    session,     \* session[u]: the household u's browser session acts for
    invitation,  \* invitation[i]: the document of i
    inviting,    \* inviting[n]: the invitation request n is about to insert
    tab          \* tab[t]: the request t, between its two steps

vars == <<role, home, session, invitation, inviting, tab>>

Role == {"owner", "adult", "viewer"}
Offered == {"adult", "viewer"}
Offer == [household : User, email : User, role : Offered, by : User]
Document == [offer : Offer, status : {"pending", "accepted", "revoked"},
             live : BOOLEAN]
Request == [at : {"accept"}, user : User, invitation : Invitation]
           \cup [at : {"switch"}, user : User, household : User]

ASSUME NoneAssumption ==
    /\ None \notin User /\ None \notin Role
    /\ None \notin Offer /\ None \notin Document /\ None \notin Request

\* Only so many requests run at once.
ASSUME InviterAssumption == IsFiniteSet(Inviter)

HouseholdTypeOK ==
    /\ role \in [User -> [User -> Role \cup {None}]]
    /\ home \in [User -> User \cup {None}]
    /\ session \in [User -> User \cup {None}]
    /\ invitation \in [Invitation -> Document \cup {None}]
    /\ inviting \in [Inviter -> Offer \cup {None}]
    /\ tab \in [Tab -> Request \cup {None}]

Init ==
    /\ role = [h \in User |-> [u \in User |-> None]]
    /\ home = [u \in User |-> None]
    /\ session = [u \in User |-> None]
    /\ invitation = [i \in Invitation |-> None]
    /\ inviting = [n \in Inviter |-> None]
    /\ tab = [t \in Tab |-> None]

Registered(u) == role[u][u] # None

\* canAccessHousehold.
IsMember(u, h) == h # None /\ role[h][u] # None

-------------------------------------------------------------------------------
(* Accounts and sessions.                                                  *)

\* One transaction: user, household, owner's membership and profile.
Register(u) ==
    /\ ~ Registered(u)
    /\ role' = [role EXCEPT ![u][u] = "owner"]
    /\ home' = [home EXCEPT ![u] = u]
    /\ UNCHANGED <<session, invitation, inviting, tab>>

\* userView: the default household if the user is a member of it, else the
\* household joined first, the user's own.
HomeOf(u) == IF IsMember(u, home[u]) THEN home[u] ELSE u

SignIn(u) ==
    /\ Registered(u)
    /\ session' = [session EXCEPT ![u] = HomeOf(u)]
    /\ UNCHANGED <<role, home, invitation, inviting, tab>>

SignOut(u) ==
    /\ session[u] # None
    /\ session' = [session EXCEPT ![u] = None]
    /\ UNCHANGED <<role, home, invitation, inviting, tab>>

\* Mutant: the household named in the request is taken as it is.
SwitchUnchecked(t, u, h) ==
    /\ tab[t] = None /\ session[u] # None
    /\ session' = [session EXCEPT ![u] = h]
    /\ tab' = [tab EXCEPT ![t] = [at |-> "switch", user |-> u, household |-> h]]
    /\ UNCHANGED <<role, home, invitation, inviting>>

\* The session moves to another of the user's households...
Switch(t, u, h) ==
    /\ tab[t] = None /\ session[u] # None
    /\ IsMember(u, h)
    /\ session' = [session EXCEPT ![u] = h]
    /\ tab' = [tab EXCEPT ![t] = [at |-> "switch", user |-> u, household |-> h]]
    /\ UNCHANGED <<role, home, invitation, inviting>>

\* ...and then the default household, which checks the membership again.
SetDefault(t) ==
    LET r == tab[t]
    IN  /\ r # None /\ r.at = "switch"
        /\ home' = IF IsMember(r.user, r.household)
                   THEN [home EXCEPT ![r.user] = r.household]
                   ELSE home
        /\ tab' = [tab EXCEPT ![t] = None]
        /\ UNCHANGED <<role, session, invitation, inviting>>

-------------------------------------------------------------------------------
(* Invitations.                                                            *)

\* The caller manages the household the session acts for.
Manages(u) ==
    /\ session[u] # None
    /\ role[session[u]][u] \in {"owner", "adult"}

Pending(h, e) ==
    {i \in Invitation : /\ invitation[i] # None
                        /\ invitation[i].status = "pending"
                        /\ invitation[i].offer.household = h
                        /\ invitation[i].offer.email = e}

WithStatus(i, status) == [invitation EXCEPT ![i].status = status]

\* Mutant: whoever manages the household may offer either role.
MayOffer(u, r) == Manages(u)

\* Only the owner invites adults.
CanOffer(u, r) ==
    /\ Manages(u)
    /\ r = "adult" => role[session[u]][u] = "owner"

\* Mutant: the earlier invitation stays.
InviteAgain(n, u, e, r) ==
    /\ inviting[n] = None /\ CanOffer(u, r)
    /\ inviting' = [inviting EXCEPT ![n] =
           [household |-> session[u], email |-> e, role |-> r, by |-> u]]
    /\ UNCHANGED <<role, home, session, invitation, tab>>

\* create revokes what is pending for the address, expired or not...
Invite(n, u, e, r) ==
    /\ inviting[n] = None /\ CanOffer(u, r)
    /\ LET old == Pending(session[u], e)
       IN  invitation' = [i \in Invitation |->
               IF i \in old THEN [invitation[i] EXCEPT !.status = "revoked"]
               ELSE invitation[i]]
    /\ inviting' = [inviting EXCEPT ![n] =
           [household |-> session[u], email |-> e, role |-> r, by |-> u]]
    /\ UNCHANGED <<role, home, session, tab>>

\* ...and inserts the new invitation.
Insert(n, i) ==
    /\ inviting[n] # None /\ invitation[i] = None
    /\ invitation' = [invitation EXCEPT ![i] =
           [offer |-> inviting[n], status |-> "pending", live |-> TRUE]]
    /\ inviting' = [inviting EXCEPT ![n] = None]
    /\ UNCHANGED <<role, home, session, tab>>

\* The process dies, or the database refuses, between the two writes.
InviteDies(n) ==
    /\ inviting[n] # None
    /\ inviting' = [inviting EXCEPT ![n] = None]
    /\ UNCHANGED <<role, home, session, invitation, tab>>

Revoke(u, i) ==
    /\ Manages(u)
    /\ i \in UNION {Pending(session[u], e) : e \in User}
    /\ invitation' = WithStatus(i, "revoked")
    /\ UNCHANGED <<role, home, session, inviting, tab>>

\* Seven days have passed: the status stays, no filter finds it any more.
Expire(i) ==
    /\ invitation[i] # None /\ invitation[i].live
    /\ invitation' = [invitation EXCEPT ![i].live = FALSE]
    /\ UNCHANGED <<role, home, session, inviting, tab>>

\* Mutant: any account may take up the invitation it has the link of.
OpenFor(u, i) ==
    /\ invitation[i] # None
    /\ invitation[i].status = "pending" /\ invitation[i].live

\* A pending invitation to the caller's own address.
Addressed(u, i) ==
    /\ invitation[i] # None
    /\ invitation[i].status = "pending" /\ invitation[i].live
    /\ invitation[i].offer.email = u

\* accept reads the account and the invitation...
OpenInvitation(t, u, i) ==
    /\ tab[t] = None /\ session[u] # None
    /\ Addressed(u, i)
    /\ tab' = [tab EXCEPT ![t] = [at |-> "accept", user |-> u, invitation |-> i]]
    /\ UNCHANGED <<role, home, session, invitation, inviting>>

\* Mutant: the transaction relies on what was read before it.
ClaimedAsRead(i) == TRUE

\* The transaction's own filter.  It compares the expiry with a time taken
\* before the transaction, so an invitation that expires meanwhile may still
\* be claimed.
Claimed(i) == invitation[i].status = "pending"

\* Mutant: the role offered replaces the role a member has.
Upgraded(h, u, r) == [role EXCEPT ![h][u] = r]

\* The upsert only sets the role of a new member.
Joined(h, u, r) ==
    IF role[h][u] = None THEN [role EXCEPT ![h][u] = r] ELSE role

\* ...and one transaction claims it, adds the member and sets the default.
Accept(t) ==
    LET r == tab[t]
    IN  /\ r # None /\ r.at = "accept"
        /\ Claimed(r.invitation)
        /\ LET o == invitation[r.invitation].offer
           IN  /\ role' = Joined(o.household, r.user, o.role)
               /\ home' = [home EXCEPT ![r.user] = o.household]
        /\ invitation' = WithStatus(r.invitation, "accepted")
        /\ tab' = [tab EXCEPT ![t] = None]
        /\ UNCHANGED <<session, inviting>>

\* The request ends without its second step: a 409, a crash, an error.
Abandon(t) ==
    /\ tab[t] # None
    /\ tab' = [tab EXCEPT ![t] = None]
    /\ UNCHANGED <<role, home, session, invitation, inviting>>

Next ==
    \/ \E u \in User : Register(u) \/ SignIn(u) \/ SignOut(u)
    \/ \E t \in Tab :
          \/ SetDefault(t) \/ Accept(t) \/ Abandon(t)
          \/ \E u, h \in User : Switch(t, u, h)
          \/ \E u \in User, i \in Invitation : OpenInvitation(t, u, i)
    \/ \E n \in Inviter :
          \/ InviteDies(n)
          \/ \E u, e \in User, r \in Offered : Invite(n, u, e, r)
          \/ \E i \in Invitation : Insert(n, i)
    \/ \E i \in Invitation : Expire(i) \/ \E u \in User : Revoke(u, i)

Spec == Init /\ [][Next]_vars

-------------------------------------------------------------------------------
(* Properties.                                                             *)

\* Whatever a session acts for, and whatever household the next sign-in will
\* choose, the user is a member of it: the membership check of switching, the
\* transaction of accepting and userView agree with each other.
SessionInside ==
    \A u \in User :
        /\ session[u] # None => IsMember(u, session[u])
        /\ Registered(u) => IsMember(u, home[u])

Accepted(i) == invitation[i] # None /\ invitation[i].status = "accepted"

\* A member who did not found the household has accepted an invitation to it
\* that offered exactly the role the member has, and an adult was invited by
\* the owner: with several invitations to one address outstanding, the first
\* one accepted decides.
MembersWereInvited ==
    \A h, u \in User : u # h /\ role[h][u] # None =>
        \E i \in Invitation :
            /\ Accepted(i)
            /\ invitation[i].offer.household = h
            /\ invitation[i].offer.email = u
            /\ invitation[i].offer.role = role[h][u]
            /\ role[h][u] = "adult" => invitation[i].offer.by = h

Settled(i) == invitation[i] # None /\ invitation[i].status # "pending"

\* What an invitation has become it stays: a tab that read it as pending
\* before it was accepted elsewhere, revoked or replaced changes nothing when
\* its request ends, neither the invitation nor the role and the default
\* household the user has by then.
InvitationsAreFinal ==
    [][/\ \A i \in Invitation :
             Settled(i) => invitation'[i].status = invitation[i].status
       /\ \A t \in Tab :
             /\ tab[t] # None /\ tab'[t] = None
             /\ tab[t].at = "accept" /\ Settled(tab[t].invitation)
             => UNCHANGED <<role, home>>]_vars

\* Accepting a second invitation to a household, in whatever order, does not
\* change the role the member already has there.
RolesAreKept ==
    [][\A h, u \in User : role[h][u] # None => role'[h][u] = role[h][u]]_vars

\* Inviting an address again revokes the earlier invitation.  Requests that
\* overlap can each leave one, no more: pending invitations to one address of
\* one household never outnumber the requests that can run at once, so that
\* there is one of them if requests do not overlap.
PendingBounded ==
    \A h, e \in User : Cardinality(Pending(h, e)) <= Cardinality(Inviter)
===============================================================================
