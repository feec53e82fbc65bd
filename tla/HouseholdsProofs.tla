--------------------------- MODULE HouseholdsProofs ---------------------------
(***************************************************************************)
(* What holds of households for any set of users, invitations and          *)
(* concurrent requests.                                                    *)
(***************************************************************************)
EXTENDS Households, FiniteSetTheorems, TLAPS

\* A request between its two steps, by its kind.
LEMMA RequestShape ==
    ASSUME HouseholdTypeOK, NEW t \in Tab, tab[t] # None
    PROVE  /\ tab[t].user \in User
           /\ tab[t].at = "accept" => tab[t].invitation \in Invitation
           /\ tab[t].at = "switch" => tab[t].household \in User
  BY DEF HouseholdTypeOK, Request

\* The terms of a stored invitation.
LEMMA OfferShape ==
    ASSUME HouseholdTypeOK, NEW i \in Invitation, invitation[i] # None
    PROVE  /\ invitation[i] \in Document
           /\ invitation[i].offer \in Offer
           /\ invitation[i].offer.household \in User
           /\ invitation[i].offer.email \in User
           /\ invitation[i].offer.role \in Offered
           /\ invitation[i].offer.by \in User
  BY DEF HouseholdTypeOK, Document, Offer

-------------------------------------------------------------------------------
\* A tab that accepts has read an invitation that exists and is addressed to
\* its user; a tab that switches has found its user a member.
TabsBelong ==
    \A t \in Tab : tab[t] # None =>
        /\ tab[t].at = "accept" =>
              /\ invitation[tab[t].invitation] # None
              /\ invitation[tab[t].invitation].offer.email = tab[t].user
        /\ tab[t].at = "switch" => IsMember(tab[t].user, tab[t].household)

\* Adults are invited by the owner, and only founders are owners.
OwnersOffer ==
    /\ \A h, u \in User : role[h][u] = "owner" => u = h
    /\ \A n \in Inviter :
          inviting[n] # None /\ inviting[n].role = "adult"
          => inviting[n].by = inviting[n].household
    /\ \A i \in Invitation :
          invitation[i] # None /\ invitation[i].offer.role = "adult"
          => invitation[i].offer.by = invitation[i].offer.household

IInv == /\ HouseholdTypeOK /\ TabsBelong /\ OwnersOffer
        /\ SessionInside /\ MembersWereInvited

\* Every variable keeps its type, whatever the actions do.
LEMMA TypeStep ==
    ASSUME HouseholdTypeOK, TabsBelong, [Next]_vars
    PROVE  HouseholdTypeOK'
<1>1. ASSUME NEW u \in User, Register(u)
      PROVE  HouseholdTypeOK'
  BY <1>1 DEF Register, HouseholdTypeOK, Role
<1>2. ASSUME NEW u \in User, SignIn(u) \/ SignOut(u)
      PROVE  HouseholdTypeOK'
  BY <1>2 DEF SignIn, SignOut, HomeOf, HouseholdTypeOK
<1>3. ASSUME NEW t \in Tab, NEW u \in User, NEW h \in User, Switch(t, u, h)
      PROVE  HouseholdTypeOK'
  <2>1. [at |-> "switch", user |-> u, household |-> h] \in Request
    BY DEF Request
  <2>2. QED
    BY <1>3, <2>1 DEF Switch, HouseholdTypeOK
<1>4. ASSUME NEW t \in Tab, SetDefault(t)
      PROVE  HouseholdTypeOK'
  BY <1>4, RequestShape DEF SetDefault, HouseholdTypeOK
<1>5. ASSUME NEW n \in Inviter, NEW u \in User, NEW e \in User,
             NEW r \in Offered, Invite(n, u, e, r)
      PROVE  HouseholdTypeOK'
  <2>1. session[u] \in User
    BY <1>5 DEF Invite, CanOffer, Manages, HouseholdTypeOK
  <2>2. [household |-> session[u], email |-> e, role |-> r, by |-> u] \in Offer
    BY <2>1 DEF Offer
  <2>3. \A i \in Invitation : invitation[i] # None =>
           [invitation[i] EXCEPT !.status = "revoked"] \in Document
    BY OfferShape DEF Document
  <2>4. \A i \in Pending(session[u], e) : invitation[i] # None
    BY DEF Pending
  <2>5. invitation' \in [Invitation -> Document \cup {None}]
    BY <1>5, <2>3, <2>4 DEF Invite, HouseholdTypeOK
  <2>6. inviting' \in [Inviter -> Offer \cup {None}]
    BY <1>5, <2>2 DEF Invite, HouseholdTypeOK
  <2>7. QED
    BY <1>5, <2>5, <2>6 DEF Invite, HouseholdTypeOK
<1>6. ASSUME NEW n \in Inviter, NEW i \in Invitation, Insert(n, i)
      PROVE  HouseholdTypeOK'
  <2>1. [offer |-> inviting[n], status |-> "pending", live |-> TRUE] \in Document
    BY <1>6 DEF Insert, HouseholdTypeOK, Document
  <2>2. QED
    BY <1>6, <2>1 DEF Insert, HouseholdTypeOK
<1>7. ASSUME NEW n \in Inviter, InviteDies(n)
      PROVE  HouseholdTypeOK'
  BY <1>7 DEF InviteDies, HouseholdTypeOK
<1>8. ASSUME NEW u \in User, NEW i \in Invitation, Revoke(u, i)
      PROVE  HouseholdTypeOK'
  <2>1. invitation[i] # None
    BY <1>8 DEF Revoke, Pending
  <2>2. [invitation[i] EXCEPT !.status = "revoked"] \in Document
    BY <2>1, OfferShape DEF Document
  <2>3. QED
    BY <1>8, <2>2 DEF Revoke, WithStatus, HouseholdTypeOK
<1>9. ASSUME NEW i \in Invitation, Expire(i)
      PROVE  HouseholdTypeOK'
  <2>1. [invitation[i] EXCEPT !.live = FALSE] \in Document
    BY <1>9, OfferShape DEF Expire, Document
  <2>2. QED
    BY <1>9, <2>1 DEF Expire, HouseholdTypeOK
<1>10. ASSUME NEW t \in Tab, NEW u \in User, NEW i \in Invitation,
              OpenInvitation(t, u, i)
       PROVE  HouseholdTypeOK'
  <2>1. [at |-> "accept", user |-> u, invitation |-> i] \in Request
    BY DEF Request
  <2>2. QED
    BY <1>10, <2>1 DEF OpenInvitation, HouseholdTypeOK
<1>11. ASSUME NEW t \in Tab, Accept(t)
       PROVE  HouseholdTypeOK'
  <2> DEFINE i == tab[t].invitation
             o == invitation[i].offer
  <2>1. tab[t].user \in User /\ i \in Invitation
    BY <1>11, RequestShape DEF Accept
  <2>2. invitation[i] # None
    BY <1>11 DEF Accept, TabsBelong
  <2>3. o.household \in User /\ o.role \in Role
    BY <2>1, <2>2, OfferShape DEF Offered, Role
  <2>4. [invitation[i] EXCEPT !.status = "accepted"] \in Document
    BY <2>1, <2>2, OfferShape DEF Document
  <2>5. invitation' \in [Invitation -> Document \cup {None}]
    BY <1>11, <2>1, <2>4 DEF Accept, WithStatus, HouseholdTypeOK
  <2>6. role' \in [User -> [User -> Role \cup {None}]]
    BY <1>11, <2>1, <2>3 DEF Accept, Joined, HouseholdTypeOK
  <2>7. QED
    BY <1>11, <2>1, <2>3, <2>5, <2>6 DEF Accept, HouseholdTypeOK
<1>12. ASSUME NEW t \in Tab, Abandon(t)
       PROVE  HouseholdTypeOK'
  BY <1>12 DEF Abandon, HouseholdTypeOK
<1>13. CASE UNCHANGED vars
  BY <1>13 DEF vars, HouseholdTypeOK
<1>14. QED
  BY <1>1, <1>2, <1>3, <1>4, <1>5, <1>6, <1>7, <1>8, <1>9, <1>10, <1>11,
     <1>12, <1>13 DEF Next

\* No step removes a document, changes what it offers, or changes a status
\* other than pending.
LEMMA DocumentsKept ==
    ASSUME HouseholdTypeOK, [Next]_vars, NEW i \in Invitation,
           invitation[i] # None
    PROVE  /\ invitation'[i] # None
           /\ invitation'[i].offer = invitation[i].offer
           /\ invitation[i].status # "pending"
              => invitation'[i].status = invitation[i].status
<1>1. invitation[i] \in Document /\ None \notin Document
  BY OfferShape, NoneAssumption
<1>2. \A st \in {"revoked", "accepted"} :
         /\ [invitation[i] EXCEPT !.status = st] \in Document
         /\ [invitation[i] EXCEPT !.status = st].offer = invitation[i].offer
  BY <1>1 DEF Document
<1>3. /\ [invitation[i] EXCEPT !.live = FALSE] \in Document
      /\ [invitation[i] EXCEPT !.live = FALSE].offer = invitation[i].offer
      /\ [invitation[i] EXCEPT !.live = FALSE].status = invitation[i].status
  BY <1>1 DEF Document
<1>4. ASSUME NEW n \in Inviter, NEW u \in User, NEW e \in User,
             NEW r \in Offered, Invite(n, u, e, r)
      PROVE  invitation'[i] = invitation[i]
             \/ /\ invitation'[i] = [invitation[i] EXCEPT !.status = "revoked"]
                /\ invitation[i].status = "pending"
  BY <1>4 DEF Invite, Pending
<1>5. ASSUME NEW n \in Inviter, NEW j \in Invitation, Insert(n, j)
      PROVE  invitation'[i] = invitation[i]
  BY <1>5 DEF Insert, HouseholdTypeOK
<1>6. ASSUME NEW u \in User, NEW j \in Invitation, Revoke(u, j)
      PROVE  invitation'[i] = invitation[i]
             \/ /\ invitation'[i] = [invitation[i] EXCEPT !.status = "revoked"]
                /\ invitation[i].status = "pending"
  BY <1>6 DEF Revoke, WithStatus, Pending, HouseholdTypeOK
<1>7. ASSUME NEW j \in Invitation, Expire(j)
      PROVE  invitation'[i] = invitation[i]
             \/ invitation'[i] = [invitation[i] EXCEPT !.live = FALSE]
  BY <1>7 DEF Expire, HouseholdTypeOK
<1>8. ASSUME NEW t \in Tab, Accept(t)
      PROVE  invitation'[i] = invitation[i]
             \/ /\ invitation'[i] = [invitation[i] EXCEPT !.status = "accepted"]
                /\ invitation[i].status = "pending"
  BY <1>8 DEF Accept, WithStatus, Claimed, HouseholdTypeOK
<1>9. CASE UNCHANGED invitation
  BY <1>9
<1>10. QED
  BY <1>1, <1>2, <1>3, <1>4, <1>5, <1>6, <1>7, <1>8, <1>9
     DEF Next, vars, Register, SignIn, SignOut, Switch, SetDefault, InviteDies,
         OpenInvitation, Abandon

\* No step changes or removes a role a user has.
LEMMA RolesKept ==
    ASSUME HouseholdTypeOK, TabsBelong, [Next]_vars,
           NEW h \in User, NEW u \in User, role[h][u] # None
    PROVE  role'[h][u] = role[h][u]
<1>1. ASSUME NEW v \in User, Register(v)
      PROVE  role'[h][u] = role[h][u]
  BY <1>1 DEF Register, Registered, HouseholdTypeOK
<1>2. ASSUME NEW t \in Tab, Accept(t)
      PROVE  role'[h][u] = role[h][u]
  <2>1. /\ tab[t].user \in User
        /\ tab[t].invitation \in Invitation
        /\ invitation[tab[t].invitation].offer.household \in User
    BY <1>2, RequestShape, OfferShape DEF Accept, TabsBelong
  <2>2. QED
    BY <1>2, <2>1 DEF Accept, Joined, HouseholdTypeOK
<1>3. CASE UNCHANGED role
  BY <1>3
<1>4. QED
  BY <1>1, <1>2, <1>3
     DEF Next, vars, SignIn, SignOut, Switch, SetDefault, Invite, Insert,
         InviteDies, Revoke, Expire, OpenInvitation, Abandon

\* So a member stays a member.
LEMMA MembersKept ==
    ASSUME HouseholdTypeOK, TabsBelong, [Next]_vars,
           NEW u \in User, NEW h \in User, IsMember(u, h)
    PROVE  IsMember(u, h)'
  BY RolesKept DEF IsMember

-------------------------------------------------------------------------------
LEMMA TabsStep ==
    ASSUME IInv, [Next]_vars
    PROVE  TabsBelong'
<1> SUFFICES ASSUME NEW t \in Tab, tab'[t] # None
             PROVE  /\ tab'[t].at = "accept" =>
                          /\ invitation'[tab'[t].invitation] # None
                          /\ invitation'[tab'[t].invitation].offer.email
                             = tab'[t].user
                    /\ tab'[t].at = "switch" =>
                          IsMember(tab[t].user, tab[t].household)'
  BY DEF TabsBelong
<1> USE DEF IInv
<1>1. CASE tab'[t] = tab[t]
  <2>1. tab[t].at = "accept" =>
           /\ tab[t].invitation \in Invitation
           /\ invitation[tab[t].invitation] # None
           /\ invitation[tab[t].invitation].offer.email = tab[t].user
    BY <1>1, RequestShape DEF TabsBelong
  <2>2. tab[t].at = "switch" =>
           /\ tab[t].user \in User /\ tab[t].household \in User
           /\ IsMember(tab[t].user, tab[t].household)
    BY <1>1, RequestShape DEF TabsBelong
  <2>3. QED
    BY <1>1, <2>1, <2>2, DocumentsKept, RolesKept DEF IsMember
<1>2. ASSUME NEW v \in Tab, NEW u \in User, NEW h \in User, Switch(v, u, h),
             tab'[t] # tab[t]
      PROVE  tab'[t].at = "switch" /\ IsMember(tab[t].user, tab[t].household)'
  <2>1. tab'[t] = [at |-> "switch", user |-> u, household |-> h]
    BY <1>2 DEF Switch, HouseholdTypeOK
  <2>2. QED
    BY <1>2, <2>1 DEF Switch, IsMember
<1>3. ASSUME NEW v \in Tab, NEW u \in User, NEW i \in Invitation,
             OpenInvitation(v, u, i), tab'[t] # tab[t]
      PROVE  /\ tab'[t].at = "accept"
             /\ invitation'[tab'[t].invitation] # None
             /\ invitation'[tab'[t].invitation].offer.email = tab'[t].user
  <2>1. tab'[t] = [at |-> "accept", user |-> u, invitation |-> i]
    BY <1>3 DEF OpenInvitation, HouseholdTypeOK
  <2>2. QED
    BY <1>3, <2>1 DEF OpenInvitation, Addressed
<1>4. ASSUME NEW v \in Tab, SetDefault(v) \/ Accept(v) \/ Abandon(v)
      PROVE  tab'[t] = tab[t]
  BY <1>4 DEF SetDefault, Accept, Abandon, HouseholdTypeOK
<1>5. CASE UNCHANGED tab
  BY <1>1, <1>5
<1>6. QED
  BY <1>1, <1>2, <1>3, <1>4, <1>5
     DEF Next, vars, Register, SignIn, SignOut, Invite, Insert, InviteDies,
         Revoke, Expire

LEMMA OwnersStep ==
    ASSUME IInv, [Next]_vars
    PROVE  OwnersOffer'
<1> USE DEF IInv
<1>1. ASSUME NEW h \in User, NEW u \in User, role'[h][u] = "owner"
      PROVE  u = h
  <2>1. ASSUME NEW v \in User, Register(v)
        PROVE  u = h
    BY <1>1, <2>1 DEF Register, HouseholdTypeOK, OwnersOffer
  <2>2. ASSUME NEW t \in Tab, Accept(t)
        PROVE  u = h
    <3>1. /\ tab[t].user \in User
          /\ invitation[tab[t].invitation].offer.household \in User
          /\ invitation[tab[t].invitation].offer.role \in Offered
      BY <2>2, RequestShape, OfferShape DEF Accept, TabsBelong
    <3>2. QED
      BY <1>1, <2>2, <3>1 DEF Accept, Joined, Offered, HouseholdTypeOK,
                              OwnersOffer
  <2>3. CASE UNCHANGED role
    BY <1>1, <2>3 DEF OwnersOffer
  <2>4. QED
    BY <2>1, <2>2, <2>3
       DEF Next, vars, SignIn, SignOut, Switch, SetDefault, Invite, Insert,
           InviteDies, Revoke, Expire, OpenInvitation, Abandon
<1>2. ASSUME NEW n \in Inviter, inviting'[n] # None,
             inviting'[n].role = "adult"
      PROVE  inviting'[n].by = inviting'[n].household
  <2>1. ASSUME NEW m \in Inviter, NEW u \in User, NEW e \in User,
               NEW r \in Offered, Invite(m, u, e, r)
        PROVE  inviting'[n].by = inviting'[n].household
    <3>1. CASE n = m
      <4>1. inviting'[n] =
              [household |-> session[u], email |-> e, role |-> r, by |-> u]
        BY <2>1, <3>1 DEF Invite, HouseholdTypeOK
      <4>2. session[u] \in User /\ role[session[u]][u] = "owner"
        BY <1>2, <2>1, <4>1 DEF Invite, CanOffer, Manages, HouseholdTypeOK
      <4>3. QED
        BY <4>1, <4>2 DEF OwnersOffer
    <3>2. CASE n # m
      BY <1>2, <2>1, <3>2 DEF Invite, HouseholdTypeOK, OwnersOffer
    <3>3. QED
      BY <3>1, <3>2
  <2>2. ASSUME NEW m \in Inviter, NEW i \in Invitation,
               Insert(m, i)
        PROVE  inviting'[n].by = inviting'[n].household
    BY <1>2, <2>2 DEF Insert, HouseholdTypeOK, OwnersOffer
  <2>3. ASSUME NEW m \in Inviter, InviteDies(m)
        PROVE  inviting'[n].by = inviting'[n].household
    BY <1>2, <2>3 DEF InviteDies, HouseholdTypeOK, OwnersOffer
  <2>4. CASE UNCHANGED inviting
    BY <1>2, <2>4 DEF OwnersOffer
  <2>5. QED
    BY <2>1, <2>2, <2>3, <2>4
       DEF Next, vars, Register, SignIn, SignOut, Switch, SetDefault, Accept,
           Revoke, Expire, OpenInvitation, Abandon
<1>3. ASSUME NEW i \in Invitation, invitation'[i] # None,
             invitation'[i].offer.role = "adult"
      PROVE  invitation'[i].offer.by = invitation'[i].offer.household
  <2>1. CASE invitation[i] # None
    BY <1>3, <2>1, DocumentsKept DEF OwnersOffer
  <2>2. CASE invitation[i] = None
    <3>1. ASSUME NEW n \in Inviter, NEW j \in Invitation, Insert(n, j)
          PROVE  invitation'[i].offer.by = invitation'[i].offer.household
      <4>1. invitation'[i] =
              [offer |-> inviting[n], status |-> "pending", live |-> TRUE]
        BY <1>3, <2>2, <3>1 DEF Insert, HouseholdTypeOK
      <4>2. QED
        BY <1>3, <3>1, <4>1 DEF Insert, OwnersOffer
    <3>2. ASSUME NEW n \in Inviter, NEW u \in User, NEW e \in User,
                 NEW r \in Offered, Invite(n, u, e, r)
          PROVE  invitation'[i] = None
      BY <2>2, <3>2 DEF Invite, Pending
    <3>3. ASSUME NEW u \in User, NEW j \in Invitation, Revoke(u, j)
          PROVE  invitation'[i] = None
      BY <2>2, <3>3 DEF Revoke, WithStatus, Pending, HouseholdTypeOK
    <3>4. ASSUME NEW j \in Invitation, Expire(j)
          PROVE  invitation'[i] = None
      BY <2>2, <3>4 DEF Expire, HouseholdTypeOK
    <3>5. ASSUME NEW t \in Tab, Accept(t)
          PROVE  invitation'[i] = None
      BY <2>2, <3>5 DEF Accept, WithStatus, TabsBelong, HouseholdTypeOK
    <3>6. QED
      BY <1>3, <2>2, <3>1, <3>2, <3>3, <3>4, <3>5
         DEF Next, vars, Register, SignIn, SignOut, Switch, SetDefault,
             InviteDies, OpenInvitation, Abandon
  <2>3. QED
    BY <2>1, <2>2
<1>4. QED
  BY <1>1, <1>2, <1>3 DEF OwnersOffer

\* Joining gives the role offered to whoever had none, and nobody else's
\* role changes.
LEMMA AcceptEffect ==
    ASSUME HouseholdTypeOK, TabsBelong, NEW t \in Tab, Accept(t)
    PROVE  LET i == tab[t].invitation
               o == invitation[i].offer
               v == tab[t].user
           IN  /\ i \in Invitation /\ invitation[i] # None
               /\ v \in User /\ o.household \in User /\ o.email = v
               /\ o.role \in Offered /\ o.by \in User
               /\ role' = Joined(o.household, v, o.role)
               /\ role'[o.household][v] # None
               /\ home' = [home EXCEPT ![v] = o.household]
               /\ invitation'[i].status = "accepted"
               /\ \A h, u \in User :
                     <<h, u>> # <<o.household, v>> => role'[h][u] = role[h][u]
<1> DEFINE i == tab[t].invitation
           o == invitation[i].offer
           v == tab[t].user
<1>1. i \in Invitation /\ v \in User /\ invitation[i] # None /\ o.email = v
  BY RequestShape DEF Accept, TabsBelong
<1>2. /\ o.household \in User /\ o.role \in Offered /\ o.by \in User
      /\ invitation[i] \in Document
  BY <1>1, OfferShape
<1>3. role' = Joined(o.household, v, o.role)
  BY DEF Accept
<1>4. /\ role'[o.household][v] # None
      /\ \A h, u \in User :
            <<h, u>> # <<o.household, v>> => role'[h][u] = role[h][u]
  BY <1>1, <1>2, <1>3, NoneAssumption
     DEF Joined, Offered, Role, HouseholdTypeOK
<1>5. home' = [home EXCEPT ![v] = o.household]
  BY DEF Accept
<1>6. invitation'[i] = [invitation[i] EXCEPT !.status = "accepted"]
  BY <1>1 DEF Accept, WithStatus, HouseholdTypeOK
<1>7. invitation'[i].status = "accepted"
  BY <1>2, <1>6 DEF Document
<1>8. QED
  BY <1>1, <1>2, <1>3, <1>4, <1>5, <1>7

LEMMA SessionStep ==
    ASSUME IInv, [Next]_vars
    PROVE  SessionInside'
<1> USE DEF IInv
<1>1. ASSUME NEW u \in User, session'[u] # None
      PROVE  role'[session'[u]][u] # None
  <2>1. CASE session'[u] = session[u]
    <3>1. session[u] \in User /\ IsMember(u, session[u])
      BY <1>1, <2>1 DEF SessionInside, HouseholdTypeOK
    <3>2. QED
      BY <2>1, <3>1, RolesKept DEF IsMember
  <2>2. ASSUME NEW v \in User, SignIn(v) \/ SignOut(v), session'[u] # session[u]
        PROVE  role'[session'[u]][u] # None
    <3>1. u = v /\ SignIn(u) /\ session'[u] = HomeOf(u)
      BY <1>1, <2>2 DEF SignIn, SignOut, HouseholdTypeOK
    <3>2. HomeOf(u) \in User /\ IsMember(u, HomeOf(u))
      BY <3>1, NoneAssumption DEF SignIn, HomeOf, Registered, IsMember,
                                  HouseholdTypeOK
    <3>3. QED
      BY <3>1, <3>2, RolesKept DEF IsMember
  <2>3. ASSUME NEW t \in Tab, NEW v \in User, NEW h \in User, Switch(t, v, h),
               session'[u] # session[u]
        PROVE  role'[session'[u]][u] # None
    <3>1. u = v /\ session'[u] = h /\ IsMember(u, h)
      BY <2>3 DEF Switch, HouseholdTypeOK
    <3>2. QED
      BY <3>1, RolesKept DEF IsMember
  <2>4. CASE UNCHANGED session
    BY <2>1, <2>4
  <2>5. QED
    BY <2>1, <2>2, <2>3, <2>4
       DEF Next, vars, Register, SetDefault, Accept, Invite, Insert,
           InviteDies, Revoke, Expire, OpenInvitation, Abandon
<1>2. ASSUME NEW u \in User, role'[u][u] # None
      PROVE  home'[u] # None /\ role'[home'[u]][u] # None
  <2>1. CASE Registered(u) /\ home'[u] = home[u]
    <3>1. home[u] \in User /\ IsMember(u, home[u])
      BY <2>1 DEF SessionInside, IsMember, HouseholdTypeOK
    <3>2. QED
      BY <2>1, <3>1, RolesKept DEF IsMember
  <2>2. ASSUME NEW v \in User, Register(v)
        PROVE  home'[u] # None /\ role'[home'[u]][u] # None
    <3>1. CASE u = v
      BY <2>2, <3>1, NoneAssumption
         DEF Register, IsMember, Role, HouseholdTypeOK
    <3>2. CASE u # v
      <4>1. Registered(u) /\ home'[u] = home[u]
        BY <1>2, <2>2, <3>2 DEF Register, Registered, HouseholdTypeOK
      <4>2. QED
        BY <2>1, <4>1
    <3>3. QED
      BY <3>1, <3>2
  <2>3. ASSUME NEW t \in Tab, SetDefault(t)
        PROVE  home'[u] # None /\ role'[home'[u]][u] # None
    <3>1. Registered(u) /\ UNCHANGED role
      BY <1>2, <2>3 DEF SetDefault, Registered
    <3>2. CASE home'[u] = home[u]
      BY <2>1, <3>1, <3>2
    <3>3. CASE home'[u] # home[u]
      <4>1. u = tab[t].user /\ home'[u] = tab[t].household
            /\ IsMember(tab[t].user, tab[t].household)
        BY <2>3, <3>3, RequestShape DEF SetDefault, HouseholdTypeOK
      <4>2. QED
        BY <3>1, <4>1 DEF IsMember
    <3>4. QED
      BY <3>2, <3>3
  <2>4. ASSUME NEW t \in Tab, Accept(t)
        PROVE  home'[u] # None /\ role'[home'[u]][u] # None
    <3> DEFINE o == invitation[tab[t].invitation].offer
    <3>1. /\ o.household \in User
          /\ role'[o.household][tab[t].user] # None
          /\ home' = [home EXCEPT ![tab[t].user] = o.household]
          /\ \A h, w \in User : <<h, w>> # <<o.household, tab[t].user>>
                => role'[h][w] = role[h][w]
      BY <2>4, AcceptEffect
    <3>2. CASE u = tab[t].user
      BY <3>1, <3>2, NoneAssumption DEF IsMember, HouseholdTypeOK
    <3>3. CASE u # tab[t].user
      <4>1. Registered(u) /\ home'[u] = home[u]
        BY <1>2, <3>1, <3>3 DEF Registered, HouseholdTypeOK
      <4>2. QED
        BY <2>1, <4>1
    <3>4. QED
      BY <3>2, <3>3
  <2>5. CASE UNCHANGED <<role, home>>
    BY <1>2, <2>1, <2>5 DEF Registered
  <2>6. QED
    BY <2>2, <2>3, <2>4, <2>5
       DEF Next, vars, SignIn, SignOut, Switch, Invite, Insert, InviteDies,
           Revoke, Expire, OpenInvitation, Abandon
<1>3. QED
  BY <1>1, <1>2 DEF SessionInside, IsMember, Registered

LEMMA InvitedStep ==
    ASSUME IInv, [Next]_vars
    PROVE  MembersWereInvited'
<1> SUFFICES ASSUME NEW h \in User, NEW u \in User, u # h, role'[h][u] # None
             PROVE  \E i \in Invitation :
                       /\ Accepted(i)'
                       /\ invitation'[i].offer.household = h
                       /\ invitation'[i].offer.email = u
                       /\ invitation'[i].offer.role = role'[h][u]
                       /\ role'[h][u] = "adult" => invitation'[i].offer.by = h
  BY DEF MembersWereInvited
<1> USE DEF IInv
<1>1. CASE role[h][u] # None
  <2>1. PICK i \in Invitation :
           /\ Accepted(i)
           /\ invitation[i].offer.household = h
           /\ invitation[i].offer.email = u
           /\ invitation[i].offer.role = role[h][u]
           /\ role[h][u] = "adult" => invitation[i].offer.by = h
    BY <1>1 DEF MembersWereInvited
  <2>2. Accepted(i)' /\ invitation'[i].offer = invitation[i].offer
    BY <2>1, DocumentsKept DEF Accepted
  <2>3. role'[h][u] = role[h][u]
    BY <1>1, RolesKept
  <2>4. QED
    BY <2>1, <2>2, <2>3
<1>2. ASSUME role[h][u] = None, NEW t \in Tab, Accept(t)
      PROVE  \E i \in Invitation :
                /\ Accepted(i)'
                /\ invitation'[i].offer.household = h
                /\ invitation'[i].offer.email = u
                /\ invitation'[i].offer.role = role'[h][u]
                /\ role'[h][u] = "adult" => invitation'[i].offer.by = h
  <2> DEFINE i == tab[t].invitation
             o == invitation[i].offer
  <2>1. /\ i \in Invitation /\ invitation[i] # None
        /\ o.household = h /\ o.email = u
        /\ role' = Joined(h, u, o.role)
        /\ invitation'[i].status = "accepted"
    BY <1>2, AcceptEffect
  <2>2. role'[h][u] = o.role
    BY <1>2, <2>1 DEF Joined, HouseholdTypeOK
  <2>3. invitation'[i] # None /\ invitation'[i].offer = o
    BY <2>1, DocumentsKept
  <2>4. o.role = "adult" => o.by = h
    BY <2>1 DEF OwnersOffer
  <2>5. QED
    BY <2>1, <2>2, <2>3, <2>4 DEF Accepted
<1>3. ASSUME role[h][u] = None, NEW v \in User, Register(v)
      PROVE  FALSE
  BY <1>3 DEF Register, HouseholdTypeOK
<1>4. CASE role[h][u] = None
  <2>1. role' # role
    BY <1>4
  <2>2. \/ \E t \in Tab : Accept(t)
        \/ \E v \in User : Register(v)
    BY <2>1
       DEF Next, vars, SignIn, SignOut, Switch, SetDefault, Invite, Insert,
           InviteDies, Revoke, Expire, OpenInvitation, Abandon
  <2>3. QED
    BY <1>2, <1>3, <1>4, <2>2
<1>5. QED
  BY <1>1, <1>4

-------------------------------------------------------------------------------
LEMMA Inductive == Spec => []IInv
<1>1. ASSUME Init
      PROVE  IInv
  <2>1. HouseholdTypeOK
    BY <1>1 DEF Init, HouseholdTypeOK
  <2>2. TabsBelong
    BY <1>1 DEF Init, TabsBelong
  <2>3. OwnersOffer
    BY <1>1, NoneAssumption DEF Init, OwnersOffer, Role
  <2>4. SessionInside /\ MembersWereInvited
    BY <1>1 DEF Init, SessionInside, MembersWereInvited, Registered
  <2>5. QED
    BY <2>1, <2>2, <2>3, <2>4 DEF IInv
<1>2. IInv /\ [Next]_vars => IInv'
  BY TypeStep, TabsStep, OwnersStep, SessionStep, InvitedStep DEF IInv
<1>3. QED
  BY <1>1, <1>2, PTL DEF Spec

\* Type correctness, for any users, invitations and requests.
THEOREM HouseholdTypeCorrect == Spec => []HouseholdTypeOK
<1>1. IInv => HouseholdTypeOK
  BY DEF IInv
<1>2. QED
  BY <1>1, Inductive, PTL

\* Sessions and default households are households the user is a member of,
\* however switching, accepting and signing in interleave.
THEOREM SessionInsideHolds == Spec => []SessionInside
<1>1. IInv => SessionInside
  BY DEF IInv
<1>2. QED
  BY <1>1, Inductive, PTL

\* Every membership but the founder's goes back to an accepted invitation
\* that offered its role, an adult's to one by the owner.
THEOREM MembersWereInvitedHolds == Spec => []MembersWereInvited
<1>1. IInv => MembersWereInvited
  BY DEF IInv
<1>2. QED
  BY <1>1, Inductive, PTL

\* Roles never change once given.
THEOREM RolesAreKeptHolds == Spec => RolesAreKept
<1>1. IInv /\ [Next]_vars
      => [\A h, u \in User : role[h][u] # None => role'[h][u] = role[h][u]]_vars
  BY RolesKept DEF IInv
<1>2. QED
  BY <1>1, Inductive, PTL DEF Spec, RolesAreKept

\* A settled invitation stays as it is, and a tab that still holds it changes
\* nothing.
THEOREM InvitationsAreFinalHolds == Spec => InvitationsAreFinal
<1>1. ASSUME IInv, [Next]_vars, NEW i \in Invitation, Settled(i)
      PROVE  invitation'[i].status = invitation[i].status
  BY <1>1, DocumentsKept DEF IInv, Settled
<1>2. ASSUME IInv, [Next]_vars, NEW t \in Tab, tab[t] # None, tab'[t] = None,
             tab[t].at = "accept", Settled(tab[t].invitation)
      PROVE  UNCHANGED <<role, home>>
  <2> USE DEF IInv, HouseholdTypeOK
  <2>1. ASSUME NEW v \in Tab, Accept(v)
        PROVE  FALSE
    BY <1>2, <2>1 DEF Accept, Claimed, Settled
  <2>2. ASSUME NEW v \in Tab, SetDefault(v)
        PROVE  FALSE
    BY <1>2, <2>2 DEF SetDefault
  <2>3. ASSUME NEW u \in User, Register(u)
        PROVE  FALSE
    BY <1>2, <2>3 DEF Register
  <2>4. QED
    BY <1>2, <2>1, <2>2, <2>3
       DEF Next, vars, SignIn, SignOut, Switch, Invite, Insert, InviteDies,
           Revoke, Expire, OpenInvitation, Abandon
<1>3. IInv /\ [Next]_vars
      => [/\ \A i \in Invitation :
                Settled(i) => invitation'[i].status = invitation[i].status
          /\ \A t \in Tab :
                /\ tab[t] # None /\ tab'[t] = None
                /\ tab[t].at = "accept" /\ Settled(tab[t].invitation)
                => UNCHANGED <<role, home>>]_vars
  BY <1>1, <1>2
<1>4. QED
  BY <1>3, Inductive, PTL DEF Spec, InvitationsAreFinal

-------------------------------------------------------------------------------
(* Pending invitations.                                                    *)

\* Requests that are about to insert an invitation of e to the household of h.
Inserting(h, e) ==
    {n \in Inviter : inviting[n] # None /\ inviting[n].household = h /\ inviting[n].email = e}

\* A request that is about to insert leaves room for its invitation: what is
\* pending was inserted by requests that overlap, each by another.
RoomToInsert ==
    \A h, e \in User :
        /\ IsFiniteSet(Pending(h, e))
        /\ Cardinality(Pending(h, e)) + Cardinality(Inserting(h, e)) <= Cardinality(Inviter)

\* Requests are counted among those that can run at once.
LEMMA InsertingFinite ==
    ASSUME NEW h \in User, NEW e \in User
    PROVE  /\ IsFiniteSet(Inserting(h, e)) /\ Cardinality(Inserting(h, e)) \in Nat
           /\ Cardinality(Inserting(h, e)) <= Cardinality(Inviter) /\ Cardinality(Inviter) \in Nat
<1>1. Inserting(h, e) \in SUBSET Inviter
  BY DEF Inserting
<1>2. QED
  BY <1>1, InviterAssumption, FS_Subset, FS_CardinalityType

\* What does not insert or invite only takes invitations out of the pending ones.
LEMMA OthersOnlySettle ==
    ASSUME HouseholdTypeOK, TabsBelong, [Next]_vars, NEW h \in User, NEW e \in User,
           \A n \in Inviter : /\ \A i \in Invitation : ~ Insert(n, i)
                              /\ \A u, w \in User, r \in Offered : ~ Invite(n, u, w, r)
    PROVE  Pending(h, e)' \subseteq Pending(h, e) /\ Inserting(h, e)' \subseteq Inserting(h, e)
<1>1. CASE UNCHANGED <<invitation, inviting>>
  BY <1>1 DEF Pending, Inserting
<1>2. ASSUME NEW n \in Inviter, InviteDies(n)
      PROVE  Pending(h, e)' \subseteq Pending(h, e) /\ Inserting(h, e)' \subseteq Inserting(h, e)
  BY <1>2 DEF InviteDies, Pending, Inserting, HouseholdTypeOK
<1>3. ASSUME NEW j \in Invitation, invitation[j] # None, UNCHANGED inviting,
             NEW s \in {"revoked", "accepted"}, invitation' = WithStatus(j, s)
      PROVE  Pending(h, e)' \subseteq Pending(h, e) /\ Inserting(h, e)' \subseteq Inserting(h, e)
  <2>1. invitation[j] \in Document
    BY <1>3, OfferShape
  <2>2. invitation'[j].status = s
    BY <1>3, <2>1 DEF WithStatus, HouseholdTypeOK, Document
  <2>3. \A i \in Invitation \ {j} : invitation'[i] = invitation[i]
    BY <1>3 DEF WithStatus, HouseholdTypeOK
  <2>4. QED
    BY <1>3, <2>2, <2>3 DEF Pending, Inserting
<1>4. ASSUME NEW j \in Invitation, Expire(j)
      PROVE  Pending(h, e)' \subseteq Pending(h, e) /\ Inserting(h, e)' \subseteq Inserting(h, e)
  <2>1. invitation[j] \in Document /\ invitation[j] # None
    BY <1>4, OfferShape DEF Expire
  <2>2. invitation'[j].status = invitation[j].status /\ invitation'[j].offer = invitation[j].offer
    BY <1>4, <2>1 DEF Expire, HouseholdTypeOK, Document
  <2>3. \A i \in Invitation \ {j} : invitation'[i] = invitation[i]
    BY <1>4 DEF Expire, HouseholdTypeOK
  <2>4. QED
    BY <1>4, <2>1, <2>2, <2>3 DEF Expire, Pending, Inserting
<1>5. ASSUME NEW u \in User, NEW j \in Invitation, Revoke(u, j)
      PROVE  invitation[j] # None /\ UNCHANGED inviting /\ invitation' = WithStatus(j, "revoked")
  BY <1>5 DEF Revoke, Pending
<1>6. ASSUME NEW t \in Tab, Accept(t)
      PROVE  /\ tab[t].invitation \in Invitation /\ invitation[tab[t].invitation] # None
             /\ UNCHANGED inviting /\ invitation' = WithStatus(tab[t].invitation, "accepted")
  BY <1>6, RequestShape DEF Accept, TabsBelong
<1>7. QED
  BY <1>1, <1>2, <1>3, <1>4, <1>5, <1>6
     DEF Next, vars, Register, SignIn, SignOut, Switch, SetDefault, OpenInvitation, Abandon

LEMMA RoomStep ==
    ASSUME HouseholdTypeOK, TabsBelong, RoomToInsert, [Next]_vars
    PROVE  RoomToInsert'
<1> SUFFICES ASSUME NEW h \in User, NEW e \in User
             PROVE  /\ IsFiniteSet(Pending(h, e)')
                    /\ Cardinality(Pending(h, e)') + Cardinality(Inserting(h, e)') <= Cardinality(Inviter)
  BY DEF RoomToInsert
<1>k. /\ IsFiniteSet(Pending(h, e)) /\ Cardinality(Pending(h, e)) \in Nat
      /\ Cardinality(Pending(h, e)) + Cardinality(Inserting(h, e)) <= Cardinality(Inviter)
      /\ IsFiniteSet(Inserting(h, e)) /\ Cardinality(Inserting(h, e)) \in Nat
      /\ Cardinality(Inviter) \in Nat
  BY InsertingFinite, FS_CardinalityType DEF RoomToInsert
<1>1. ASSUME Pending(h, e)' \subseteq Pending(h, e), Inserting(h, e)' \subseteq Inserting(h, e)
      PROVE  /\ IsFiniteSet(Pending(h, e)')
             /\ Cardinality(Pending(h, e)') + Cardinality(Inserting(h, e)') <= Cardinality(Inviter)
  <2>1. IsFiniteSet(Pending(h, e)') /\ Cardinality(Pending(h, e)') <= Cardinality(Pending(h, e))
    BY <1>1, <1>k, FS_Subset
  <2>2. IsFiniteSet(Inserting(h, e)') /\ Cardinality(Inserting(h, e)') <= Cardinality(Inserting(h, e))
    BY <1>1, <1>k, FS_Subset
  <2>3. Cardinality(Pending(h, e)') \in Nat /\ Cardinality(Inserting(h, e)') \in Nat
    BY <2>1, <2>2, FS_CardinalityType
  <2>4. QED
    BY <1>k, <2>1, <2>2, <2>3
<1>2. ASSUME NEW n \in Inviter, NEW i \in Invitation, Insert(n, i)
      PROVE  /\ IsFiniteSet(Pending(h, e)')
             /\ Cardinality(Pending(h, e)') + Cardinality(Inserting(h, e)') <= Cardinality(Inviter)
  <2>1. /\ inviting[n] # None /\ invitation[i] = None /\ inviting[n] \in Offer
        /\ invitation'[i] = [offer |-> inviting[n], status |-> "pending", live |-> TRUE]
        /\ invitation'[i] # None /\ inviting'[n] = None
        /\ \A j \in Invitation \ {i} : invitation'[j] = invitation[j]
        /\ \A m \in Inviter \ {n} : inviting'[m] = inviting[m]
    <3>1. /\ inviting[n] # None /\ invitation[i] = None /\ inviting[n] \in Offer
      BY <1>2 DEF Insert, HouseholdTypeOK
    <3>2. [offer |-> inviting[n], status |-> "pending", live |-> TRUE] \in Document
      BY <3>1 DEF Document
    <3>3. QED
      BY <1>2, <3>1, <3>2, NoneAssumption DEF Insert, HouseholdTypeOK
  <2>2. CASE inviting[n].household = h /\ inviting[n].email = e
    <3>1. Pending(h, e)' = Pending(h, e) \cup {i} /\ i \notin Pending(h, e)
      BY <2>1, <2>2 DEF Pending
    <3>2. Inserting(h, e)' = Inserting(h, e) \ {n} /\ n \in Inserting(h, e)
      BY <2>1, <2>2 DEF Inserting
    <3>3. IsFiniteSet(Pending(h, e)') /\ Cardinality(Pending(h, e)') = Cardinality(Pending(h, e)) + 1
      BY <1>k, <3>1, FS_AddElement
    <3>4. Cardinality(Inserting(h, e)') = Cardinality(Inserting(h, e)) - 1
      BY <1>k, <3>2, FS_RemoveElement
    <3>5. QED
      BY <1>k, <3>3, <3>4
  <2>3. CASE ~ (inviting[n].household = h /\ inviting[n].email = e)
    <3>1. Pending(h, e)' \subseteq Pending(h, e) /\ Inserting(h, e)' \subseteq Inserting(h, e)
      BY <2>1, <2>3 DEF Pending, Inserting
    <3>2. QED
      BY <1>1, <3>1
  <2>4. QED
    BY <2>2, <2>3
<1>3. ASSUME NEW n \in Inviter, NEW u \in User, NEW w \in User, NEW r \in Offered, Invite(n, u, w, r)
      PROVE  /\ IsFiniteSet(Pending(h, e)')
             /\ Cardinality(Pending(h, e)') + Cardinality(Inserting(h, e)') <= Cardinality(Inviter)
  <2>1. /\ inviting'[n] = [household |-> session[u], email |-> w, role |-> r, by |-> u]
        /\ \A m \in Inviter \ {n} : inviting'[m] = inviting[m]
        /\ \A i \in Invitation : invitation'[i] = IF i \in Pending(session[u], w)
                                                THEN [invitation[i] EXCEPT !.status = "revoked"]
                                                ELSE invitation[i]
    BY <1>3 DEF Invite, HouseholdTypeOK
  <2>2. \A i \in Pending(session[u], w) : i \notin Pending(h, e)'
    <3>1. ASSUME NEW i \in Pending(session[u], w)
          PROVE  invitation'[i].status = "revoked"
      <4>1. i \in Invitation /\ invitation[i] # None
        BY DEF Pending
      <4>2. invitation[i] \in Document
        BY <4>1, OfferShape
      <4>3. QED
        BY <2>1, <4>1, <4>2 DEF Document
    <3>2. QED
      BY <3>1 DEF Pending
  <2>3. Pending(h, e)' \subseteq Pending(h, e)
    BY <2>1, <2>2 DEF Pending
  <2>4. CASE session[u] = h /\ w = e
    <3>1. Pending(h, e)' = {}
      BY <2>2, <2>3, <2>4
    <3>2. Inserting(h, e)' \in SUBSET Inviter
      BY DEF Inserting
    <3>3. /\ Cardinality(Inserting(h, e)') <= Cardinality(Inviter)
          /\ Cardinality(Inserting(h, e)') \in Nat
      BY <3>2, InviterAssumption, FS_Subset, FS_CardinalityType
    <3>4. QED
      BY <1>k, <3>1, <3>3, FS_EmptySet
  <2>5. CASE ~ (session[u] = h /\ w = e)
    <3>1. Inserting(h, e)' \subseteq Inserting(h, e)
      BY <2>1, <2>5 DEF Inserting
    <3>2. QED
      BY <1>1, <2>3, <3>1
  <2>6. QED
    BY <2>4, <2>5
<1>4. QED
  BY <1>1, <1>2, <1>3, OthersOnlySettle

\* However invitation requests overlap, an address has no more pending invitations to
\* a household than requests can run at once (HouseholdInvitationService.create).
THEOREM PendingBoundedHolds == Spec => []PendingBounded
<1>1. ASSUME Init
      PROVE  RoomToInsert
  <2> SUFFICES ASSUME NEW h \in User, NEW e \in User
               PROVE  /\ IsFiniteSet(Pending(h, e))
                      /\ Cardinality(Pending(h, e)) + Cardinality(Inserting(h, e)) <= Cardinality(Inviter)
    BY DEF RoomToInsert
  <2>1. Pending(h, e) = {} /\ Inserting(h, e) = {}
    BY <1>1 DEF Init, Pending, Inserting
  <2>2. QED
    BY <2>1, FS_EmptySet, InviterAssumption, FS_CardinalityType
<1>2. IInv /\ RoomToInsert /\ [Next]_vars => RoomToInsert'
  BY RoomStep DEF IInv
<1>3. RoomToInsert => PendingBounded
  <2> SUFFICES ASSUME RoomToInsert, NEW h \in User, NEW e \in User
               PROVE  Cardinality(Pending(h, e)) <= Cardinality(Inviter)
    BY DEF PendingBounded
  <2>1. /\ Cardinality(Pending(h, e)) + Cardinality(Inserting(h, e)) <= Cardinality(Inviter)
        /\ Cardinality(Pending(h, e)) \in Nat /\ Cardinality(Inserting(h, e)) \in Nat
        /\ Cardinality(Inviter) \in Nat
    BY InsertingFinite, FS_CardinalityType DEF RoomToInsert
  <2>2. QED
    BY <2>1
<1>4. QED
  BY <1>1, <1>2, <1>3, Inductive, PTL DEF Spec
===============================================================================
